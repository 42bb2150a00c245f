---------------------------- MODULE Credentials ----------------------------
(***************************************************************************)
(* What the account endpoints promise, without calls, copies of rows,      *)
(* tokens or time: an account climbs from nobody to password to full, and  *)
(* its credentials change one at a time, by steps that its record counts.  *)
(***************************************************************************)
EXTENDS Integers

CONSTANTS Users, HrAdmins, Passwords, Secrets

VARIABLES
    account,  \* user -> password, TOTP secret and flags in force
    level,    \* user -> the furthest the account was ever signed in
    record    \* user -> number of recorded acts of each kind

vars == <<account, level, record>>

Account == [password : Passwords, secret : Secrets,
            must_change : BOOLEAN, active : BOOLEAN]

Level == {"nobody", "password", "full"}

Unshared(u, secret) == \A v \in Users \ {u} : account[v].secret # secret

Init ==
    /\ account \in [Users -> Account]
    /\ \A u \in Users : Unshared(u, account[u].secret)
    /\ level = [u \in Users |-> "nobody"]
    /\ record = [u \in Users |->
                   [f \in {"password_hash", "mfa_secret_encrypted", "authz_denial"} |-> 0]]

Climb(u, from, to) ==
    /\ level[u] = from
    /\ level' = [level EXCEPT ![u] = to]
    /\ UNCHANGED <<account, record>>

Recorded(u, what) ==
    /\ record' = [record EXCEPT ![u][what] = @ + 1]
    /\ UNCHANGED level

\* A new authenticator takes the password, and nobody else has its secret.
Enroll(u, secret) ==
    /\ level[u] # "nobody"
    /\ Unshared(u, secret)
    /\ account' = [account EXCEPT ![u].secret = secret]
    /\ Recorded(u, "mfa_secret_encrypted")

SetPassword(u, password) ==
    /\ level[u] = "full"
    /\ account' = [account EXCEPT ![u].password = password, ![u].must_change = FALSE]
    /\ Recorded(u, "password_hash")

\* Only an account in good standing is judged by its role.
Deny(u) ==
    /\ level[u] = "full"
    /\ u \notin HrAdmins
    /\ ~account[u].must_change
    /\ Recorded(u, "authz_denial")
    /\ UNCHANGED account

Deactivate(u) ==
    /\ account' = [account EXCEPT ![u].active = FALSE]
    /\ UNCHANGED <<level, record>>

Next ==
    \E u \in Users :
      \/ Climb(u, "nobody", "password")
      \/ Climb(u, "password", "full")
      \/ \E secret \in Secrets : Enroll(u, secret)
      \/ \E password \in Passwords : SetPassword(u, password)
      \/ Deny(u)
      \/ Deactivate(u)

Spec == Init /\ [][Next]_vars

=============================================================================
