---------------------------- MODULE SetupProofs ----------------------------
(***************************************************************************)
(* Proofs about the first-run wizard, for any number of concurrent calls,  *)
(* tokens and people, and any lifetime of a token.                         *)
(*                                                                         *)
(* The argument: a handler that is past its count knows that rows, once    *)
(* there, stay (ClosedSawRow, CommittedHasRow); the rows of one token carry *)
(* one profile (Enrolled), and the constraints of the table keep profiles  *)
(* apart (RowsNeverClash).                                                 *)
(***************************************************************************)
EXTENDS Setup, TLAPS

Rows == 1..Len(users)

\* What the unique constraints keep of the table.
RowsNeverClash ==
    \A i, j \in Rows : i # j => ~Clashes(users[i].profile, users[j].profile)

\* A wizard's row is what was entered for its token.
Enrolled ==
    \A i \in Rows : users[i].secret \in Tokens =>
      /\ setup[users[i].secret] # NoSetup
      /\ users[i].profile = setup[users[i].secret].profile

\* A positive count was right, and is still.
ClosedSawRow == \A r \in Requests : pc[r] = "closed" => users # <<>>

\* Between the commit and the answer, the row is there.
CommittedHasRow ==
    \A r \in Requests : pc[r] = "committed" =>
      \E i \in Rows : users[i].secret = call[r].token

IInv == TypeOK /\ RowsNeverClash /\ Enrolled /\ ClosedSawRow /\ CommittedHasRow

-----------------------------------------------------------------------------
\* A row appended to the table leaves the others where they are.
LEMMA AppendedRow ==
    ASSUME TypeOK, NEW u \in User, users' = Append(users, u)
    PROVE  /\ users' \in Seq(User)
           /\ Len(users') = Len(users) + 1
           /\ \A i \in Rows : users'[i] = users[i]
           /\ users'[Len(users) + 1] = u
           /\ users' # <<>>
           /\ Rows' = Rows \cup {Len(users) + 1}
           /\ Len(users) \in Nat
  BY DEF TypeOK, Rows

\* The initial state satisfies the inductive invariant.
LEMMA InitIInv == Init => IInv
  BY TimeAssumption, NoneAssumption
  DEF Init, IInv, TypeOK, Outcomes, RowsNeverClash, Enrolled, ClosedSawRow,
      CommittedHasRow, Rows, Calls, ConfirmCalls

\* Every step keeps the types.
LEMMA TypeStep == TypeOK /\ [Next]_vars => TypeOK'
  <1> SUFFICES ASSUME TypeOK, [Next]_vars PROVE TypeOK'
    OBVIOUS
  <1> USE TimeAssumption, NoneAssumption, TokenAssumption
  <1> USE DEF TypeOK, Outcomes, Calls, ConfirmCalls
  <1>1. ASSUME NEW r \in Requests, SetupStatus(r) PROVE TypeOK'
    BY <1>1 DEF SetupStatus, Call
  <1>2. ASSUME NEW r \in Requests, NEW p \in Profiles, NEW long \in BOOLEAN,
               SetupInit(r, p, long)
        PROVE  TypeOK'
    BY <1>2 DEF SetupInit, Call
  <1>3. ASSUME NEW r \in Requests, NEW t \in Tokens, NEW good \in BOOLEAN,
               SetupConfirm(r, t, good)
        PROVE  TypeOK'
    <2>1. CASE t \in Pruned
      <3> DEFINE c == [kind |-> "confirm", token |-> t, good |-> good]
      <3>1. c \in ConfirmCalls /\ c.token = t
        OBVIOUS
      <3>2. Call(r, c)
        BY <1>3, <2>1 DEF SetupConfirm
      <3>3. setup[t] # NoSetup /\ pending' \subseteq pending
        BY <1>3, <2>1 DEF SetupConfirm, Pruned
      <3>4. UNCHANGED <<users, setup, now>>
        BY <1>3 DEF SetupConfirm
      <3> HIDE DEF c
      <3> QED
        BY <3>1, <3>2, <3>3, <3>4 DEF Call
    <2>2. CASE t \notin Pruned
      BY <1>3, <2>2 DEF SetupConfirm, Reply, Pruned
    <2> QED
      BY <2>1, <2>2
  <1>4. ASSUME NEW r \in Requests, CountUsers(r) PROVE TypeOK'
    BY <1>4 DEF CountUsers, Resume
  <1>5. ASSUME NEW r \in Requests, StatusDone(r) PROVE TypeOK'
    BY <1>5 DEF StatusDone, Reply
  <1>6. ASSUME NEW r \in Requests, InitRefused(r) PROVE TypeOK'
    BY <1>6 DEF InitRefused, Reply
  <1>7. ASSUME NEW r \in Requests, InitDone(r) PROVE TypeOK'
    BY <1>7 DEF InitDone, Reply, Pruned, PendingSetup, ExpiresAt
  <1>8. ASSUME NEW r \in Requests, ConfirmRefused(r) PROVE TypeOK'
    BY <1>8 DEF ConfirmRefused, DeleteToken, Reply
  <1>9. ASSUME NEW r \in Requests, ConfirmWrongCode(r) PROVE TypeOK'
    BY <1>9 DEF ConfirmWrongCode, WrongCode, Reply
  <1>10. ASSUME NEW r \in Requests, ConfirmRightCode(r) PROVE TypeOK'
    BY <1>10 DEF ConfirmRightCode, Resume
  <1>11. ASSUME NEW r \in Requests, InsertUser(r) PROVE TypeOK'
    <2> DEFINE row == NewUser(call[r].token)
    <2>1. call[r] \in ConfirmCalls /\ setup[call[r].token] # NoSetup
      BY <1>11 DEF InsertUser
    <2>2. row \in User
      BY <2>1 DEF NewUser, User, Secrets, PendingSetup
    <2>3. CASE Taken(row.profile)
      BY <1>11, <2>3 DEF InsertUser, InsertClash, Reply
    <2>4. CASE ~Taken(row.profile)
      <3>1. users' = Append(users, row) /\ Resume(r, "committed")
            /\ UNCHANGED <<setup, pending, now>>
        BY <1>11, <2>4 DEF InsertUser
      <3>2. users' \in Seq(User)
        BY <2>2, <3>1
      <3> HIDE DEF row
      <3> QED
        BY <2>1, <3>1, <3>2 DEF Resume
    <2> QED
      BY <2>3, <2>4
  <1>12. ASSUME NEW r \in Requests, ConfirmDone(r) PROVE TypeOK'
    BY <1>12 DEF ConfirmDone, DeleteToken, Reply
  <1>13. ASSUME NEW r \in Requests, DbError(r) PROVE TypeOK'
    BY <1>13 DEF DbError, Reply
  <1>14. ASSUME NEW p \in Profiles, CreateUser(p) PROVE TypeOK'
    BY <1>14 DEF CreateUser, User, Secrets
  <1>15. CASE Restart
    BY <1>15 DEF Restart
  <1>16. CASE Tick
    BY <1>16 DEF Tick
  <1>17. CASE UNCHANGED vars
    BY <1>17 DEF vars
  <1> QED
    BY <1>1, <1>2, <1>3, <1>4, <1>5, <1>6, <1>7, <1>8, <1>9, <1>10, <1>11,
       <1>12, <1>13, <1>14, <1>15, <1>16, <1>17
    DEF Next, Ask, Serve

-----------------------------------------------------------------------------
\* A _PendingSetup object, once made, never changes.
LEMMA HeapGrows ==
    ASSUME TypeOK, [Next]_vars, NEW t \in Tokens, setup[t] # NoSetup
    PROVE  setup'[t] = setup[t]
  BY DEF TypeOK, Next, Ask, Serve, vars, SetupStatus, SetupInit, SetupConfirm,
     CountUsers, StatusDone, InitRefused, InitDone, ConfirmRefused,
     ConfirmWrongCode, ConfirmRightCode, InsertUser, ConfirmDone, DbError,
     CreateUser, Restart, Tick

\* The table changes only by one row that clashes with none, and that is either
\* the script's or the one entered for a token.
Entered(u) ==
    u.secret \in Tokens =>
      setup[u.secret] # NoSetup /\ u.profile = setup[u.secret].profile

LEMMA TableGrows ==
    ASSUME TypeOK, [Next]_vars
    PROVE  \/ UNCHANGED users
           \/ \E u \in User : /\ ~Taken(u.profile)
                              /\ Entered(u)
                              /\ users' = Append(users, u)
  <1>1. ASSUME NEW r \in Requests, InsertUser(r), ~ UNCHANGED users
        PROVE  \E u \in User : ~Taken(u.profile) /\ Entered(u) /\ users' = Append(users, u)
    <2> DEFINE row == NewUser(call[r].token)
    <2>1. call[r] \in ConfirmCalls /\ setup[call[r].token] # NoSetup
      BY <1>1 DEF InsertUser, TypeOK
    <2>2. row \in User /\ Entered(row)
      BY <2>1 DEF NewUser, User, Secrets, PendingSetup, ConfirmCalls, Entered, TypeOK
    <2>3. ~Taken(row.profile) /\ users' = Append(users, row)
      BY <1>1 DEF InsertUser
    <2> QED
      BY <2>2, <2>3
  <1>2. ASSUME NEW p \in Profiles, CreateUser(p)
        PROVE  \E u \in User : ~Taken(u.profile) /\ Entered(u) /\ users' = Append(users, u)
    <2> DEFINE row == [profile |-> p, secret |-> CliSecret]
    <2>1. row \in User /\ Entered(row) /\ row.profile = p
      BY TokenAssumption DEF User, Secrets, Entered
    <2>2. ~Taken(p) /\ users' = Append(users, row)
      BY <1>2 DEF CreateUser
    <2> HIDE DEF row
    <2> QED
      BY <2>1, <2>2
  <1> QED
    BY <1>1, <1>2
    DEF Next, Ask, Serve, vars, SetupStatus, SetupInit, SetupConfirm,
        CountUsers, StatusDone, InitRefused, InitDone, ConfirmRefused,
        ConfirmWrongCode, ConfirmRightCode, ConfirmDone, DbError, Restart, Tick

\* So the rows keep apart and keep to what was entered.
LEMMA RowsStep ==
    ASSUME TypeOK, RowsNeverClash, Enrolled, [Next]_vars
    PROVE  RowsNeverClash' /\ Enrolled'
  <1>1. CASE UNCHANGED users
    <2>1. RowsNeverClash'
      BY <1>1 DEF RowsNeverClash, Rows
    <2>2. Enrolled'
      BY <1>1, HeapGrows DEF Enrolled, Rows, TypeOK
    <2> QED
      BY <2>1, <2>2
  <1>2. ASSUME NEW u \in User, ~Taken(u.profile), Entered(u), users' = Append(users, u)
        PROVE  RowsNeverClash' /\ Enrolled'
    <2>1. /\ \A i \in Rows : users'[i] = users[i]
          /\ users'[Len(users) + 1] = u
          /\ Rows' = Rows \cup {Len(users) + 1}
          /\ Len(users) \in Nat
      BY <1>2, AppendedRow
    <2>2. \A i \in Rows : ~Clashes(users[i].profile, u.profile)
                          /\ ~Clashes(u.profile, users[i].profile)
      BY <1>2 DEF Taken, Rows, Clashes
    <2>3. RowsNeverClash'
      BY <2>1, <2>2 DEF RowsNeverClash
    <2>4. \A t \in Tokens : setup[t] # NoSetup => setup'[t] = setup[t]
      BY HeapGrows
    <2>5. ASSUME NEW i \in Rows', users'[i].secret \in Tokens
          PROVE  /\ setup'[users'[i].secret] # NoSetup
                 /\ users'[i].profile = setup'[users'[i].secret].profile
      <3>1. CASE i \in Rows
        BY <2>1, <2>4, <2>5, <3>1 DEF Enrolled
      <3>2. CASE i = Len(users) + 1
        BY <1>2, <2>1, <2>4, <2>5, <3>2 DEF Entered
      <3> QED
        BY <2>1, <3>1, <3>2
    <2>6. Enrolled'
      BY <2>5 DEF Enrolled
    <2> QED
      BY <2>3, <2>6
  <1> QED
    BY <1>1, <1>2, TableGrows

\* Rows that are there stay.
LEMMA RowsStay ==
    ASSUME TypeOK, [Next]_vars
    PROVE  /\ users # <<>> => users' # <<>>
           /\ \A i \in Rows : i \in Rows' /\ users'[i] = users[i]
  <1>1. CASE UNCHANGED users
    BY <1>1 DEF Rows
  <1>2. ASSUME NEW u \in User, users' = Append(users, u)
        PROVE  users' # <<>> /\ \A i \in Rows : i \in Rows' /\ users'[i] = users[i]
    BY <1>2, AppendedRow
  <1> QED
    BY <1>1, <1>2, TableGrows

-----------------------------------------------------------------------------
\* What a handler concluded from its count, or did in its commit, stays true.
LEMMA HandlersStep ==
    ASSUME TypeOK, ClosedSawRow, CommittedHasRow, [Next]_vars
    PROVE  ClosedSawRow' /\ CommittedHasRow'
  <1> USE DEF TypeOK
  <1>1. ASSUME NEW r \in Requests, pc'[r] = "closed"
        PROVE  users' # <<>>
    <2>1. pc[r] = "closed" \/ users # <<>>
      BY <1>1 DEF Next, Ask, Serve, vars, Call, Reply, Resume, DeleteToken,
         WrongCode, InsertClash, SetupRequired, SetupStatus, SetupInit,
         SetupConfirm, CountUsers, StatusDone, InitRefused, InitDone,
         ConfirmRefused, ConfirmWrongCode, ConfirmRightCode, InsertUser,
         ConfirmDone, DbError, CreateUser, Restart, Tick
    <2> QED
      BY <2>1, RowsStay DEF ClosedSawRow
  <1>2. ASSUME NEW r \in Requests, pc'[r] = "committed"
        PROVE  \E i \in Rows' : users'[i].secret = call'[r].token
    <2>1. \/ pc[r] = "committed" /\ call'[r] = call[r]
          \/ InsertUser(r)
      <3>1. ASSUME NEW q \in Requests, q # r, Ask(q) \/ Serve(q) \/ DbError(q)
            PROVE  pc'[r] = pc[r] /\ call'[r] = call[r]
        BY <3>1 DEF Ask, Serve, Call, Reply, Resume, DeleteToken, WrongCode,
           InsertClash, SetupStatus, SetupInit, SetupConfirm, CountUsers,
           StatusDone, InitRefused, InitDone, ConfirmRefused, ConfirmWrongCode,
           ConfirmRightCode, InsertUser, ConfirmDone, DbError
      <3>2. ASSUME Ask(r) \/ Serve(r) \/ DbError(r), ~InsertUser(r)
            PROVE  FALSE
        BY <1>2, <3>2 DEF Ask, Serve, Call, Reply, Resume, DeleteToken, WrongCode,
           SetupStatus, SetupInit, SetupConfirm, CountUsers, StatusDone,
           InitRefused, InitDone, ConfirmRefused, ConfirmWrongCode,
           ConfirmRightCode, ConfirmDone, DbError
      <3> QED
        BY <1>2, <3>1, <3>2 DEF Next, vars, CreateUser, Restart, Tick
    <2>2. CASE pc[r] = "committed" /\ call'[r] = call[r]
      <3>1. PICK i \in Rows : users[i].secret = call[r].token
        BY <2>2 DEF CommittedHasRow
      <3> QED
        BY <2>2, <3>1, RowsStay
    <2>3. CASE InsertUser(r)
      <3> DEFINE row == NewUser(call[r].token)
      <3>1. call[r] \in ConfirmCalls /\ setup[call[r].token] # NoSetup
        BY <2>3 DEF InsertUser
      <3>2. row \in User /\ row.secret = call[r].token
        BY <3>1 DEF NewUser, User, Secrets, PendingSetup, ConfirmCalls
      <3>3. users' = Append(users, row) /\ call' = call
        BY <1>2, <2>3 DEF InsertUser, InsertClash, Reply, Resume
      <3> HIDE DEF row
      <3> QED
        BY <3>2, <3>3, AppendedRow
    <2> QED
      BY <2>1, <2>2, <2>3
  <1> QED
    BY <1>1, <1>2 DEF ClosedSawRow, CommittedHasRow

LEMMA IInvStep == IInv /\ [Next]_vars => IInv'
  BY TypeStep, RowsStep, HandlersStep DEF IInv

\* The inductive invariant holds of every behaviour of the wizard.
THEOREM Invariant == Spec => []IInv
  BY InitIInv, IInvStep, PTL DEF Spec

-----------------------------------------------------------------------------
\* Every variable keeps its type, whatever the calls, failures and restarts.
THEOREM TypeCorrect == Spec => []TypeOK
  <1>1. IInv => TypeOK
    BY DEF IInv
  <1> QED
    BY <1>1, Invariant, PTL

\* However often and however concurrently a token is confirmed, it makes at most
\* one account, and that one is what was entered at setup/init: complete_setup
\* needs no lock for this much.
THEOREM TokenUsedOnce == Spec => []OneAccountPerToken
  <1>1. IInv => OneAccountPerToken
    <2> SUFFICES ASSUME IInv,
                        NEW i \in Rows, users[i].secret \in Tokens,
                        NEW j \in Rows, users[j].secret = users[i].secret
                 PROVE  /\ setup[users[i].secret] # NoSetup
                        /\ users[i].profile = setup[users[i].secret].profile
                        /\ i = j
      BY DEF OneAccountPerToken, Rows, IInv, Enrolled
    <2>1. users[i].profile = users[j].profile
      BY DEF IInv, Enrolled
    <2>2. Clashes(users[i].profile, users[j].profile)
      BY <2>1 DEF Clashes
    <2> QED
      BY <2>2 DEF IInv, Enrolled, RowsNeverClash
  <1> QED
    BY <1>1, Invariant, PTL

\* Once an account exists and no confirm is left that counted before it, the
\* wizard is closed for good: the re-check in complete_setup is what turns away
\* every token that is still pending.
THEOREM SetupCloses == Spec => ClosedIsFinal
  <1>1. ASSUME IInv, [Next]_vars, Closed
        PROVE  Closed' /\ WizardAccounts' = WizardAccounts
    <2> USE DEF IInv, TypeOK
    <2>1. \A r \in Requests : ~InsertUser(r)
      BY <1>1 DEF Closed, Confirming, InsertUser, ConfirmCalls
    <2>2. UNCHANGED users \/ \E p \in Profiles : CreateUser(p)
      BY <1>1, <2>1
      DEF Next, Ask, Serve, vars, SetupStatus, SetupInit, SetupConfirm,
          CountUsers, StatusDone, InitRefused, InitDone, ConfirmRefused,
          ConfirmWrongCode, ConfirmRightCode, ConfirmDone, DbError, Restart, Tick
    <2>3. WizardAccounts' = WizardAccounts
      <3>1. ASSUME NEW p \in Profiles, CreateUser(p)
            PROVE  WizardAccounts' = WizardAccounts
        <4> DEFINE row == [profile |-> p, secret |-> CliSecret]
        <4>1. row \in User /\ row.secret \notin Tokens
          BY TokenAssumption DEF User, Secrets
        <4>2. users' = Append(users, row)
          BY <3>1 DEF CreateUser
        <4> HIDE DEF row
        <4>3. /\ \A i \in Rows : users'[i] = users[i]
              /\ users'[Len(users) + 1] = row
              /\ Rows' = Rows \cup {Len(users) + 1}
          BY <1>1, <4>1, <4>2, AppendedRow
        <4>4. WizardAccounts = {users[i].secret : i \in Rows} \cap Tokens
              /\ WizardAccounts' = {users'[i].secret : i \in Rows'} \cap Tokens
          BY DEF WizardAccounts, Rows
        <4> QED
          BY <4>1, <4>3, <4>4
      <3> QED
        BY <2>2, <3>1 DEF WizardAccounts
    <2>4. ASSUME NEW r \in Requests PROVE ~Confirming(r)'
      <3> USE <1>1 DEF Closed, Confirming
      <3>1. ASSUME NEW q \in Requests, q # r, Ask(q) \/ Serve(q) \/ DbError(q)
            PROVE  pc'[r] = pc[r] /\ call'[r] = call[r]
        BY <3>1 DEF Ask, Serve, Call, Reply, Resume, DeleteToken, WrongCode,
           InsertClash, SetupStatus, SetupInit, SetupConfirm, CountUsers,
           StatusDone, InitRefused, InitDone, ConfirmRefused, ConfirmWrongCode,
           ConfirmRightCode, InsertUser, ConfirmDone, DbError
      <3>2. ASSUME Ask(r) \/ Serve(r) \/ DbError(r)
            PROVE  ~Confirming(r)'
        BY <2>1, <3>2 DEF Ask, Serve, Call, Reply, Resume, DeleteToken, WrongCode,
           SetupRequired, SetupStatus, SetupInit, SetupConfirm, CountUsers,
           StatusDone, InitRefused, InitDone, ConfirmRefused, ConfirmWrongCode,
           ConfirmRightCode, ConfirmDone, DbError
      <3> QED
        BY <3>1, <3>2 DEF Next, vars, CreateUser, Restart, Tick
    <2> QED
      BY <1>1, <2>3, <2>4, RowsStay DEF Closed
  <1> QED
    BY <1>1, Invariant, PTL DEF Spec, ClosedIsFinal

\* A setup in progress is taken away only by its own expiry, by an account that
\* exists, or by a restart.
THEOREM SetupKept == Spec => PendingKept
  <1>1. ASSUME IInv, [Next]_vars, NEW t \in pending, t \notin pending'
        PROVE  Expired(t) \/ users # <<>> \/ Restarted
    <2> USE <1>1 DEF IInv, TypeOK
    <2>1. CASE Restart
      BY <2>1 DEF Restart, Restarted
    <2>2. ASSUME NEW r \in Requests, Ask(r) \/ Serve(r) \/ DbError(r)
          PROVE  Expired(t) \/ users # <<>>
      <3>1. CASE ConfirmDone(r)
        BY <3>1 DEF ConfirmDone, CommittedHasRow, Rows
      <3>2. CASE ConfirmRefused(r)
        BY <3>2 DEF ConfirmRefused, ClosedSawRow
      <3>3. CASE ~ConfirmDone(r) /\ ~ConfirmRefused(r)
        BY <2>2, <3>3 DEF Ask, Serve, Pruned, WrongCode, SetupStatus, SetupInit,
           SetupConfirm, CountUsers, StatusDone, InitRefused, InitDone,
           ConfirmWrongCode, ConfirmRightCode, InsertUser, DbError
      <3> QED
        BY <3>1, <3>2, <3>3
    <2> QED
      BY <2>1, <2>2 DEF Next, vars, CreateUser, Tick
  <1>2. IInv /\ [Next]_vars =>
          \A t \in pending : t \notin pending' =>
            Expired(t) \/ users # <<>> \/ Restarted
    BY <1>1
  <1> QED
    BY <1>2, Invariant, PTL DEF Spec, PendingKept

\* What a client was told stays true: a 204 means the account of the confirmed
\* token was made, a 410 that some account was.
THEOREM AnswersHold == Spec => AnswersAreTrue
  <1>1. ASSUME IInv, [Next]_vars,
               NEW r \in Requests, pc[r] # "idle", pc'[r] = "idle"
        PROVE  /\ resp'[r] = "204" => call[r].token \in WizardAccounts'
               /\ resp'[r] \in {"410", "not_required"} => users' # <<>>
               /\ resp'[r] = "400" => pending' = pending
    <2> USE <1>1 DEF IInv, TypeOK
    <2>1. ASSUME NEW q \in Requests, q # r, Ask(q) \/ Serve(q) \/ DbError(q)
          PROVE  FALSE
      BY <2>1 DEF Ask, Serve, Call, Reply, Resume, DeleteToken, WrongCode,
         InsertClash, SetupStatus, SetupInit, SetupConfirm, CountUsers,
         StatusDone, InitRefused, InitDone, ConfirmRefused, ConfirmWrongCode,
         ConfirmRightCode, InsertUser, ConfirmDone, DbError
    <2>2. CASE Restart
      BY <2>2 DEF Restart
    <2>3. CASE ConfirmDone(r)
      <3>1. resp'[r] \in {"204", "key_error"} /\ UNCHANGED users
        BY <2>3 DEF ConfirmDone, DeleteToken, Reply
      <3>2. call[r] \in ConfirmCalls
        BY <2>3 DEF ConfirmDone
      <3>3. PICK i \in Rows : users[i].secret = call[r].token
        BY <2>3 DEF ConfirmDone, CommittedHasRow
      <3> QED
        BY <3>1, <3>2, <3>3 DEF WizardAccounts, Rows, ConfirmCalls
    <2>4. CASE StatusDone(r) \/ InitRefused(r) \/ ConfirmRefused(r)
      BY <2>4 DEF StatusDone, InitRefused, ConfirmRefused, DeleteToken, Reply,
         ClosedSawRow
    <2>5. ASSUME Ask(r) \/ Serve(r) \/ DbError(r), ~ConfirmDone(r),
                 ~(StatusDone(r) \/ InitRefused(r) \/ ConfirmRefused(r))
          PROVE  resp'[r] \notin {"204", "410", "not_required"}
                 /\ (resp'[r] = "400" => pending' = pending)
      BY <2>5 DEF Ask, Serve, Call, Reply, Resume, WrongCode, InsertClash,
         SetupStatus, SetupInit, SetupConfirm, CountUsers, InitDone,
         ConfirmWrongCode, ConfirmRightCode, InsertUser, DbError
    <2> QED
      BY <2>1, <2>2, <2>3, <2>4, <2>5 DEF Next, vars, CreateUser, Tick
  <1>2. IInv /\ [Next]_vars =>
          \A r \in Requests : pc[r] # "idle" /\ pc'[r] = "idle" =>
            /\ resp'[r] = "204" => call[r].token \in WizardAccounts'
            /\ resp'[r] \in {"410", "not_required"} => users' # <<>>
            /\ resp'[r] = "400" => pending' = pending
    BY <1>1
  <1> QED
    BY <1>2, Invariant, PTL DEF Spec, AnswersAreTrue

=============================================================================
