------------------------------ MODULE Accounts ------------------------------
(***************************************************************************)
(* Logging in and managing one's credentials: backend/app/auth/router.py   *)
(* from /login on, service.py, mfa_reset.py, deps.py and the JWTs of       *)
(* core/security.py, for accounts that exist already.                      *)
(*                                                                         *)
(* Every call loads the caller's row once and decides by that copy, so the *)
(* database can have moved on when it acts: pc[r] is                       *)
(*   "idle"       no call, resp[r] is the outcome of the last one          *)
(*   "load"       awaiting the SELECT of the users row                     *)
(*   "loaded"     snap[r] is the row, the coroutine is not yet resumed     *)
(*   "commit"     awaiting the UPDATE / INSERT and the COMMIT              *)
(*   "committed"  the commit succeeded, the coroutine is not yet resumed   *)
(* Time is not counted: a token may expire at any moment after it is made. *)
(***************************************************************************)
EXTENDS Integers, FiniteSets, Functions

CONSTANTS
    Requests,     \* slots for calls served concurrently
    Users,        \* accounts; also names the TOTP secret an account starts with
    HrAdmins,     \* accounts whose role the HR routes allow
    Passwords,
    FirstPassword,
    ResetTokens,  \* reset tokens (uuid4); also name the secret made with each
    NoReset,      \* reset[t]: the token was never handed out
    NoCall, NoRow,
    MaxWrites     \* bound on the audited commits

ASSUME UserAssumption == HrAdmins \subseteq Users /\ Users \cap ResetTokens = {}
ASSUME PasswordAssumption == FirstPassword \in Passwords
ASSUME FiniteAssumption ==
    IsFiniteSet(Requests) /\ IsFiniteSet(ResetTokens) /\ IsFiniteSet(Users)
ASSUME WritesAssumption == MaxWrites \in Nat

VARIABLES
    db,       \* user -> its row
    jwt,      \* <<type, user>> -> whether such a token is out, and still valid
    reset,    \* token -> its _PendingReset object, which nothing mutates
    pending,  \* keys of _pending_resets
    stale,    \* reset tokens whose expires_at has passed
    audit,    \* user -> number of its audit_log rows, by what they record
    pc, call, snap, resp

vars == <<db, jwt, reset, pending, stale, audit, pc, call, snap, resp>>

-----------------------------------------------------------------------------
Secrets == Users \cup ResetTokens

User == [password : Passwords, secret : Secrets,
         must_change : BOOLEAN, active : BOOLEAN]

Types == {"mfa_pending", "access"}

Recorded == {"password_hash", "mfa_secret_encrypted", "authz_denial"}

\* A code is named by the secret that generates it, a JWT by what it says.
\* "me" stands for a route that only needs get_current_user, "hr" for one
\* behind require_role.  long: the new password has MIN_PASSWORD_LENGTH
\* characters.
ConfirmCalls == [kind : {"reset_confirm"}, user : Users, token : ResetTokens]
ChangeCalls == [kind : {"change"}, user : Users, current : Passwords,
                new : Passwords, long : BOOLEAN]
Calls == [kind : {"login"}, user : Users, password : Passwords]
           \cup [kind : {"verify"}, user : Users, code : Secrets]
           \cup [kind : {"reset_init", "me", "hr"}, user : Users]
           \cup ConfirmCalls
           \cup ChangeCalls

ASSUME NoneAssumption == NoReset \notin Users /\ NoCall \notin Calls /\ NoRow \notin User

\* What a handler ends with.  "denied" is the 403 of require_role, "403" the
\* one of get_current_user.
Outcomes == {"none", "200", "204", "400", "401", "403", "denied", "404",
             "key_error", "db_error", "crypto_error"}

StoreTypes ==
    /\ db \in [Users -> User]
    /\ jwt \in [Types \X Users -> {"none", "valid", "expired"}]
    /\ reset \in [ResetTokens -> Users \cup {NoReset}]
    /\ pending \in SUBSET ResetTokens
    /\ stale \in SUBSET ResetTokens
    /\ \A t \in pending \cup stale : reset[t] # NoReset
    /\ audit \in [Users -> [Recorded -> Nat]]

CallTypes ==
    /\ pc \in [Requests -> {"idle", "load", "loaded", "commit", "committed"}]
    /\ call \in [Requests -> Calls \cup {NoCall}]
    /\ snap \in [Requests -> User \cup {NoRow}]
    /\ resp \in [Requests -> Outcomes]
    /\ \A r \in Requests :
         /\ pc[r] # "idle" => call[r] \in Calls /\ resp[r] = "none"
         /\ pc[r] \in {"loaded", "commit", "committed"} => snap[r] \in User
         /\ pc[r] \in {"commit", "committed"} =>
              call[r].kind \in {"reset_confirm", "change", "hr"}
         /\ call[r] \in ConfirmCalls => reset[call[r].token] = call[r].user

TypeOK == StoreTypes /\ CallTypes

Init ==
    /\ db \in [Users -> {u \in User : u.active /\ u.password = FirstPassword}]
    /\ \A u \in Users : db[u].secret = u
    /\ jwt = [k \in Types \X Users |-> "none"]
    /\ reset = [t \in ResetTokens |-> NoReset]
    /\ pending = {}
    /\ stale = {}
    /\ audit = [u \in Users |-> [f \in Recorded |-> 0]]
    /\ pc = [r \in Requests |-> "idle"]
    /\ call = [r \in Requests |-> NoCall]
    /\ snap = [r \in Requests |-> NoRow]
    /\ resp = [r \in Requests |-> "none"]

-----------------------------------------------------------------------------
Reply(r, outcome) ==
    /\ pc' = [pc EXCEPT ![r] = "idle"]
    /\ call' = [call EXCEPT ![r] = NoCall]
    /\ snap' = [snap EXCEPT ![r] = NoRow]
    /\ resp' = [resp EXCEPT ![r] = outcome]

\* A call whose first query is the SELECT of the caller's row.
Call(r, c) ==
    /\ pc' = [pc EXCEPT ![r] = "load"]
    /\ call' = [call EXCEPT ![r] = c]
    /\ resp' = [resp EXCEPT ![r] = "none"]
    /\ UNCHANGED snap

Resume(r, at) ==
    /\ pc' = [pc EXCEPT ![r] = at]
    /\ UNCHANGED <<call, snap, resp>>

\* decode_token: signature and expiry, then the type.
DecodesAnyType(k, type) == jwt[k] = "valid"  \* mutant: the type is not looked at
Decodes(k, type) == jwt[k] = "valid" /\ k[1] = type

\* A call that presents the JWT k to an endpoint for tokens of the given type.
CallWithJwt(r, k, type, c) ==
    /\ pc[r] = "idle"
    /\ jwt[k] # "none"
    /\ IF Decodes(k, type) THEN Call(r, c) ELSE Reply(r, "401")
    /\ UNCHANGED <<db, jwt, reset, pending, stale, audit>>

\* create_mfa_pending_token, create_access_token
Issue(type, u) == jwt' = [jwt EXCEPT ![<<type, u>>] = "valid"]

\* record_audit, in the transaction of the change it records.
RecordAudit(u, what) == audit' = [audit EXCEPT ![u][what] = @ + 1]

PrunedReversed == pending \cap stale  \* mutant: the comparison is reversed
\* _prune_expired()
Pruned == pending \ stale

\* Bound: calls that may still write are let in while there is room for them.
Written == SumFunction([u \in Users |-> audit[u]["password_hash"]
                                        + audit[u]["mfa_secret_encrypted"]
                                        + audit[u]["authz_denial"]])

MayWrite(r) == pc[r] # "idle" /\ call[r].kind \in {"reset_confirm", "change", "hr"}

RoomToWrite == Written + Cardinality({r \in Requests : MayWrite(r)}) < MaxWrites

-----------------------------------------------------------------------------
\* POST /auth/login
Login(r, u, password) ==
    /\ pc[r] = "idle"
    /\ Call(r, [kind |-> "login", user |-> u, password |-> password])
    /\ UNCHANGED <<db, jwt, reset, pending, stale, audit>>

\* POST /auth/mfa/verify
VerifyMfa(r, k, code) ==
    CallWithJwt(r, k, "mfa_pending", [kind |-> "verify", user |-> k[2], code |-> code])

\* POST /auth/mfa/reset/init; bounded by the tokens left to hand out.
MfaResetInit(r, k) ==
    /\ Cardinality({t \in ResetTokens : reset[t] = NoReset})
         > Cardinality({q \in Requests : pc[q] # "idle" /\ call[q].kind = "reset_init"})
    /\ CallWithJwt(r, k, "mfa_pending", [kind |-> "reset_init", user |-> k[2]])

\* POST /auth/mfa/reset/confirm: no JWT, the reset token is the proof.  The code
\* is checked before the row is loaded, and a wrong one keeps the token.
MfaResetConfirm(r, t, code) ==
    /\ pc[r] = "idle"
    /\ RoomToWrite
    /\ pending' = Pruned
    /\ IF t \notin Pruned THEN Reply(r, "404")
       ELSE IF code # t THEN Reply(r, "400")
       ELSE Call(r, [kind |-> "reset_confirm", user |-> reset[t], token |-> t])
    /\ UNCHANGED <<db, jwt, reset, stale, audit>>

\* POST /auth/change-password
ChangeOwnPassword(r, k, current, new, long) ==
    /\ RoomToWrite
    /\ CallWithJwt(r, k, "access", [kind |-> "change", user |-> k[2],
                                    current |-> current, new |-> new, long |-> long])

\* GET /auth/me, and any route that does not look at the role.
ReadCurrentUser(r, k) ==
    CallWithJwt(r, k, "access", [kind |-> "me", user |-> k[2]])

\* Any route behind require_role(hr_admin).
HrRoute(r, k) ==
    /\ RoomToWrite
    /\ CallWithJwt(r, k, "access", [kind |-> "hr", user |-> k[2]])

-----------------------------------------------------------------------------
\* Mutant: the handler goes on without the row.
LoadUserNever(r) ==
    /\ pc[r] = "load"
    /\ Resume(r, "loaded")
    /\ UNCHANGED <<db, jwt, reset, pending, stale, audit>>

\* get_user_by_username, get_user_by_id: the database returns the row.
LoadUser(r) ==
    /\ pc[r] = "load"
    /\ pc' = [pc EXCEPT ![r] = "loaded"]
    /\ snap' = [snap EXCEPT ![r] = db[call[r].user]]
    /\ UNCHANGED <<db, jwt, reset, pending, stale, audit, call, resp>>

Loaded(r, kind) == pc[r] = "loaded" /\ call[r].kind = kind

\* authenticate_password, then the token for the second step.
LoginDone(r) ==
    /\ Loaded(r, "login")
    /\ IF snap[r].active /\ snap[r].password = call[r].password
         THEN Issue("mfa_pending", call[r].user) /\ Reply(r, "200")
         ELSE Reply(r, "401") /\ UNCHANGED jwt
    /\ UNCHANGED <<db, reset, pending, stale, audit>>

\* The secret is decrypted first, which fails when it was stored under another key.
VerifyDone(r) ==
    /\ Loaded(r, "verify")
    /\ \/ /\ snap[r].active /\ snap[r].secret = call[r].code
          /\ Issue("access", call[r].user) /\ Reply(r, "200")
       \/ /\ ~(snap[r].active /\ snap[r].secret = call[r].code)
          /\ Reply(r, "401") /\ UNCHANGED jwt
       \/ snap[r].active /\ Reply(r, "crypto_error") /\ UNCHANGED jwt
    /\ UNCHANGED <<db, reset, pending, stale, audit>>

\* start_mfa_reset after its await.
ResetInitRefused(r) ==
    /\ Loaded(r, "reset_init")
    /\ ~snap[r].active
    /\ Reply(r, "401")
    /\ UNCHANGED <<db, jwt, reset, pending, stale, audit>>

ResetInitDone(r) ==
    /\ Loaded(r, "reset_init")
    /\ snap[r].active
    /\ \E t \in ResetTokens :
         /\ reset[t] = NoReset
         /\ reset' = [reset EXCEPT ![t] = call[r].user]
         /\ pending' = Pruned \cup {t}
    /\ Reply(r, "200")
    /\ UNCHANGED <<db, jwt, stale, audit>>

-----------------------------------------------------------------------------
\* del _pending_resets[t]: a KeyError if another handler removed the token.
DeleteToken(r, t, outcome) ==
    /\ pending' = pending \ {t}
    /\ Reply(r, IF t \in pending THEN outcome ELSE "key_error")

\* complete_mfa_reset once the row is loaded.
ResetConfirmRefused(r) ==
    /\ Loaded(r, "reset_confirm")
    /\ ~snap[r].active
    /\ DeleteToken(r, call[r].token, "401")
    /\ UNCHANGED <<db, jwt, reset, stale, audit>>

\* Mutant: is_active is not looked at.
ResetConfirmAnyway(r) ==
    /\ Loaded(r, "reset_confirm")
    /\ Resume(r, "commit")
    /\ UNCHANGED <<db, jwt, reset, pending, stale, audit>>

ResetConfirmAccepted(r) ==
    /\ Loaded(r, "reset_confirm")
    /\ snap[r].active
    /\ Resume(r, "commit")
    /\ UNCHANGED <<db, jwt, reset, pending, stale, audit>>

ResetConfirmDone(r) ==
    /\ pc[r] = "committed"
    /\ call[r].kind = "reset_confirm"
    /\ DeleteToken(r, call[r].token, "200")
    /\ IF call[r].token \in pending THEN Issue("access", call[r].user) ELSE UNCHANGED jwt
    /\ UNCHANGED <<db, reset, stale, audit>>

\* change_password judges by the loaded row.
ChangeRefused(r) ==
    /\ Loaded(r, "change")
    /\ \/ ~snap[r].active /\ Reply(r, "401")
       \/ /\ snap[r].active
          /\ \/ call[r].current # snap[r].password
             \/ ~call[r].long
             \/ call[r].new = snap[r].password
          /\ Reply(r, "400")
    /\ UNCHANGED <<db, jwt, reset, pending, stale, audit>>

ChangeAccepted(r) ==
    /\ Loaded(r, "change")
    /\ snap[r].active
    /\ call[r].current = snap[r].password
    /\ call[r].long
    /\ call[r].new # snap[r].password
    /\ Resume(r, "commit")
    /\ UNCHANGED <<db, jwt, reset, pending, stale, audit>>

ChangeDone(r) ==
    /\ pc[r] = "committed"
    /\ call[r].kind = "change"
    /\ Reply(r, "204")
    /\ UNCHANGED <<db, jwt, reset, pending, stale, audit>>

-----------------------------------------------------------------------------
\* get_current_user: past the token, the account must be active and must not
\* have a password change pending.
ByGate(r) == Loaded(r, "me") \/ Loaded(r, "hr")

GateRefused(r) ==
    /\ ByGate(r)
    /\ \/ ~snap[r].active /\ Reply(r, "401")
       \/ snap[r].active /\ snap[r].must_change /\ Reply(r, "403")
    /\ UNCHANGED <<db, jwt, reset, pending, stale, audit>>

PassesGateAnyway(r) == ByGate(r) /\ snap[r].active  \* mutant
PassesGate(r) == ByGate(r) /\ snap[r].active /\ ~snap[r].must_change

\* The route is served: what it does to other tables is in the other modules.
RouteServed(r) ==
    /\ PassesGate(r)
    /\ call[r].kind = "hr" => call[r].user \in HrAdmins
    /\ Reply(r, "200")
    /\ UNCHANGED <<db, jwt, reset, pending, stale, audit>>

\* Mutant: the refusal is answered and never written down.
RoleDeniedUnrecorded(r) ==
    /\ PassesGate(r)
    /\ call[r].kind = "hr"
    /\ call[r].user \notin HrAdmins
    /\ Reply(r, "denied")
    /\ UNCHANGED <<db, jwt, reset, pending, stale, audit>>

\* require_role writes its refusal down before it answers.
RoleDenied(r) ==
    /\ PassesGate(r)
    /\ call[r].kind = "hr"
    /\ call[r].user \notin HrAdmins
    /\ Resume(r, "commit")
    /\ UNCHANGED <<db, jwt, reset, pending, stale, audit>>

DenialDone(r) ==
    /\ pc[r] = "committed"
    /\ call[r].kind = "hr"
    /\ Reply(r, "denied")
    /\ UNCHANGED <<db, jwt, reset, pending, stale, audit>>

-----------------------------------------------------------------------------
\* Mutant: every column is written back.
UpdateWholeRow(r, u) ==
    CASE call[r].kind = "reset_confirm" -> [snap[r] EXCEPT !.secret = call[r].token]
      [] call[r].kind = "change" ->
           [snap[r] EXCEPT !.password = call[r].new, !.must_change = FALSE]
      [] call[r].kind = "hr" -> db[u]

\* Mutant: a change of password leaves the flag that asks for one.
UpdateKeepsFlag(r, u) ==
    CASE call[r].kind = "reset_confirm" -> [db[u] EXCEPT !.secret = call[r].token]
      [] call[r].kind = "change" -> [db[u] EXCEPT !.password = call[r].new]
      [] call[r].kind = "hr" -> db[u]

\* SQLAlchemy's UPDATE names the columns that were assigned, and no others.
Update(r, u) ==
    CASE call[r].kind = "reset_confirm" -> [db[u] EXCEPT !.secret = call[r].token]
      [] call[r].kind = "change" ->
           [db[u] EXCEPT !.password = call[r].new, !.must_change = FALSE]
      [] call[r].kind = "hr" -> db[u]

WhatIsRecorded(c) ==
    CASE c.kind = "reset_confirm" -> "mfa_secret_encrypted"
      [] c.kind = "change" -> "password_hash"
      [] c.kind = "hr" -> "authz_denial"

Commit(r) ==
    /\ pc[r] = "commit"
    /\ LET u == call[r].user IN
         /\ db' = [db EXCEPT ![u] = Update(r, u)]
         /\ RecordAudit(u, WhatIsRecorded(call[r]))
    /\ Resume(r, "committed")
    /\ UNCHANGED <<jwt, reset, pending, stale>>

\* The connection to the database fails, or the acknowledgement of a commit is
\* lost.
DbError(r) ==
    /\ pc[r] \in {"load", "commit", "committed"}
    /\ Reply(r, "db_error")
    /\ UNCHANGED <<db, jwt, reset, pending, stale, audit>>

-----------------------------------------------------------------------------
ExpireJwt(k) ==
    /\ jwt[k] = "valid"
    /\ jwt' = [jwt EXCEPT ![k] = "expired"]
    /\ UNCHANGED <<db, reset, pending, stale, audit, pc, call, snap, resp>>

ExpireReset(t) ==
    /\ reset[t] # NoReset
    /\ t \notin stale
    /\ stale' = stale \cup {t}
    /\ UNCHANGED <<db, jwt, reset, pending, audit, pc, call, snap, resp>>

\* No route clears is_active: an operator does, in the database.
Deactivate(u) ==
    /\ db[u].active
    /\ db' = [db EXCEPT ![u].active = FALSE]
    /\ UNCHANGED <<jwt, reset, pending, stale, audit, pc, call, snap, resp>>

\* The process restarts: the dict is lost with every call in flight.  JWTs live
\* with the clients, rows in the database.
Restart ==
    /\ pending' = {}
    /\ pc' = [r \in Requests |-> "idle"]
    /\ call' = [r \in Requests |-> NoCall]
    /\ snap' = [r \in Requests |-> NoRow]
    /\ resp' = [r \in Requests |-> "none"]
    /\ UNCHANGED <<db, jwt, reset, stale, audit>>

-----------------------------------------------------------------------------
Serve(r) ==
    \/ LoadUser(r)
    \/ LoginDone(r) \/ VerifyDone(r)
    \/ ResetInitRefused(r) \/ ResetInitDone(r)
    \/ ResetConfirmRefused(r) \/ ResetConfirmAccepted(r) \/ ResetConfirmDone(r)
    \/ ChangeRefused(r) \/ ChangeAccepted(r) \/ ChangeDone(r)
    \/ GateRefused(r) \/ RouteServed(r) \/ RoleDenied(r) \/ DenialDone(r)
    \/ Commit(r)

Ask(r) ==
    \/ \E u \in Users, p \in Passwords : Login(r, u, p)
    \/ \E t \in ResetTokens, code \in Secrets : MfaResetConfirm(r, t, code)
    \/ \E k \in Types \X Users :
         \/ \E code \in Secrets : VerifyMfa(r, k, code)
         \/ MfaResetInit(r, k)
         \/ \E p, q \in Passwords, long \in BOOLEAN : ChangeOwnPassword(r, k, p, q, long)
         \/ ReadCurrentUser(r, k)
         \/ HrRoute(r, k)

Next ==
    \/ \E r \in Requests : Ask(r) \/ Serve(r) \/ DbError(r)
    \/ \E k \in Types \X Users : ExpireJwt(k)
    \/ \E t \in ResetTokens : ExpireReset(t)
    \/ \E u \in Users : Deactivate(u)
    \/ Restart

Spec == Init /\ [][Next]_vars

-----------------------------------------------------------------------------
(* Properties *)

Issued(type, u) == jwt[<<type, u>>] # "none"

\* Nothing is reached without the steps before it: an access token only after
\* the password step of the same account, a reset only after it too, and what
\* an account has on record only with the token that leads there.
StepsInOrder ==
    \A u \in Users :
      /\ Issued("access", u) => Issued("mfa_pending", u)
      /\ \A t \in ResetTokens : reset[t] = u => Issued("mfa_pending", u)
      /\ audit[u]["mfa_secret_encrypted"] > 0 => Issued("mfa_pending", u)
      /\ audit[u]["password_hash"] + audit[u]["authz_denial"] > 0 => Issued("access", u)

\* deps.py:44-46: while a password change is pending, no route but
\* change-password gets past the gate.  The gate reads the loaded row, so this
\* rests on must_change_password never being set again.
PasswordChangeGate ==
    [][\A r \in Requests :
         ByGate(r) /\ (resp'[r] = "200" \/ pc'[r] = "commit")
           => ~db[call[r].user].must_change]_vars

\* A password change and an MFA reset of one account may overlap, each with a
\* row it loaded before the other committed: neither undoes the other.  A
\* credential changes only to what one committing call asked for, with one
\* audit row that says which.
Wrote(r, u, what) ==
    /\ pc[r] = "commit" /\ pc'[r] = "committed"
    /\ call[r].user = u
    /\ WhatIsRecorded(call[r]) = what
    /\ audit'[u] = [audit[u] EXCEPT ![what] = @ + 1]

CredentialsKept ==
    [][\A u \in Users :
         /\ db'[u].secret # db[u].secret =>
              \E r \in Requests : /\ Wrote(r, u, "mfa_secret_encrypted")
                                  /\ db'[u].secret = call[r].token
         /\ db'[u].password # db[u].password =>
              \E r \in Requests : /\ Wrote(r, u, "password_hash")
                                  /\ db'[u].password = call[r].new
         /\ audit'[u] # audit[u] => \E r \in Requests : pc'[r] = "committed"]_vars

Restarted == /\ pending' = {}
             /\ \A r \in Requests : pc'[r] = "idle" /\ resp'[r] = "none"

\* tests/test_mfa_reset.py:56-61 and the setup wizard's rule: a reset in
\* progress can be retried until it expires, has been committed, or its account
\* was deactivated (or the process restarts).
ResetKept ==
    [][\A t \in pending : t \notin pending' =>
         \/ t \in stale
         \/ \E r \in Requests : pc[r] = "committed" /\ call[r] \in ConfirmCalls
                                /\ call[r].token = t
         \/ ~db[reset[t]].active
         \/ Restarted]_vars

\* Once an account is deactivated and no call is left that loaded its row
\* before, it stays silent for good: no token, no change, no record, whatever
\* tokens are still out.
ActedFor(r, u) == /\ pc[r] \in {"loaded", "commit", "committed"}
                  /\ call[r].user = u
                  /\ snap[r].active

Gone(u) == ~db[u].active /\ \A r \in Requests : ~ActedFor(r, u)

GoneIsFinal ==
    [][\A u \in Users : Gone(u) =>
         /\ Gone(u)'
         /\ db'[u] = db[u] /\ audit'[u] = audit[u]
         /\ \A type \in Types :
              jwt'[<<type, u>>] = "valid" => jwt[<<type, u>>] = "valid"
         /\ \A r \in Requests :
              pc[r] # "idle" /\ call[r].user = u => resp'[r] \notin {"200", "204", "denied"}]_vars

\* deps.py:57, "every denied attempt is written to audit_log": there are at
\* least as many rows as answers, whatever fails in between.
Denials == SumFunction([u \in Users |-> audit[u]["authz_denial"]])

DeniedIsRecorded == Cardinality({r \in Requests : resp[r] = "denied"}) <= Denials

\* service.py:58-68, mfa_reset.py:93-102, deps.py:64-76: however calls overlap,
\* fail, expire or are lost in a restart, the accounts move by the steps of
\* Credentials: no act without the sign-in it needs, no two accounts with one
\* authenticator, no pending password change while an act is judged by role.
LevelOf(u) == IF Issued("access", u) THEN "full"
              ELSE IF Issued("mfa_pending", u) THEN "password" ELSE "nobody"

Promised == INSTANCE Credentials WITH
                account <- db, record <- audit,
                level <- [u \in Users |-> LevelOf(u)]

ImplementsCredentials == Promised!Spec

=============================================================================
