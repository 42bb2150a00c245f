--------------------------- MODULE AccountsProofs ---------------------------
(***************************************************************************)
(* Proofs about the account endpoints, for any accounts, concurrent calls  *)
(* and tokens.                                                             *)
(*                                                                         *)
(* A handler acts on a copy of its caller's row.  That is sound because of *)
(* what the copy can only be wrong about: must_change_password is never    *)
(* set again (FreshEnough), is_active neither (GoneEnough), and a handler  *)
(* that goes on to commit saw an active account (ActiveWhenSeen).          *)
(***************************************************************************)
EXTENDS Accounts, SumTheorems, TLAPS

\* A copy that says no password change is pending is right, and stays right.
FreshEnough ==
    \A r \in Requests :
      pc[r] \in {"loaded", "commit", "committed"} /\ ~snap[r].must_change
        => ~db[call[r].user].must_change

\* A copy that says the account is deactivated is right, and stays right.
GoneEnough ==
    \A r \in Requests :
      pc[r] \in {"loaded", "commit", "committed"} /\ ~snap[r].active
        => ~db[call[r].user].active

\* Only a handler that saw an active account gets to commit.
ActiveWhenSeen ==
    \A r \in Requests : pc[r] \in {"commit", "committed"} => snap[r].active

\* Each call in flight presented what leads to it.
Presented(r) ==
    /\ call[r].kind \in {"verify", "reset_init", "reset_confirm"}
         => Issued("mfa_pending", call[r].user)
    /\ call[r].kind \in {"change", "me", "hr"} => Issued("access", call[r].user)

CallsInOrder == \A r \in Requests : pc[r] # "idle" => Presented(r)

IInv == /\ TypeOK /\ FreshEnough /\ GoneEnough /\ ActiveWhenSeen
        /\ CallsInOrder /\ StepsInOrder

-----------------------------------------------------------------------------
USE UserAssumption, PasswordAssumption, NoneAssumption

LEMMA InitIInv == Init => IInv
  <1> SUFFICES ASSUME Init PROVE IInv
    OBVIOUS
  <1>1. db \in [Users -> User]
    <2> DEFINE Start == {u \in User : u.active /\ u.password = FirstPassword}
    <2>1. db \in [Users -> Start]
      BY DEF Init
    <2>2. Start \subseteq User
      OBVIOUS
    <2> HIDE DEF Start
    <2> QED
      BY <2>1, <2>2
  <1>2. audit \in [Users -> [Recorded -> Nat]]
    BY DEF Init
  <1>3. TypeOK
    <2>1. StoreTypes
      <3>1. /\ jwt \in [Types \X Users -> {"none", "valid", "expired"}]
            /\ reset \in [ResetTokens -> Users \cup {NoReset}]
            /\ pending = {} /\ stale = {}
        BY DEF Init
      <3> QED
        BY <1>1, <1>2, <3>1 DEF StoreTypes
    <2>2. CallTypes
      <3>1. NoCall \notin ConfirmCalls
        BY DEF Calls
      <3>2. /\ pc = [r \in Requests |-> "idle"]
            /\ call = [r \in Requests |-> NoCall]
            /\ snap = [r \in Requests |-> NoRow]
            /\ resp = [r \in Requests |-> "none"]
        BY DEF Init
      <3> QED
        BY <3>1, <3>2 DEF CallTypes, Outcomes
    <2> QED
      BY <2>1, <2>2 DEF TypeOK
  <1>4. FreshEnough /\ GoneEnough /\ ActiveWhenSeen /\ CallsInOrder
    BY DEF Init, FreshEnough, GoneEnough, ActiveWhenSeen, CallsInOrder
  <1>5. ASSUME NEW u \in Users
        PROVE  /\ ~Issued("access", u)
               /\ \A t \in ResetTokens : reset[t] # u
               /\ \A f \in Recorded : audit[u][f] = 0
    BY <1>5 DEF Init, Issued, Types
  <1>6. StepsInOrder
    BY <1>5 DEF StepsInOrder, Recorded
  <1> QED
    BY <1>3, <1>4, <1>6 DEF IInv

\* A call, as the variables see it.
LEMMA CallFields ==
    ASSUME NEW c \in Calls
    PROVE  /\ c.user \in Users
           /\ c.kind \in {"login", "verify", "reset_init", "me", "hr",
                          "reset_confirm", "change"}
           /\ c \in ConfirmCalls <=> c.kind = "reset_confirm"
           /\ c \in ConfirmCalls => c.token \in ResetTokens
           /\ c.kind = "change" => c.current \in Passwords /\ c.new \in Passwords
  BY DEF Calls, ConfirmCalls, ChangeCalls

\* Accepting a call keeps the types of the calls.
LEMMA CallType ==
    ASSUME TypeOK, NEW r \in Requests, NEW c \in Calls, Call(r, c), pc[r] = "idle",
           c \in ConfirmCalls => reset[c.token] = c.user,
           UNCHANGED reset
    PROVE  CallTypes'
  <1>1. /\ pc' \in [Requests -> {"idle", "load", "loaded", "commit", "committed"}]
        /\ call' \in [Requests -> Calls \cup {NoCall}]
        /\ snap' \in [Requests -> User \cup {NoRow}]
        /\ resp' \in [Requests -> Outcomes]
    BY DEF TypeOK, CallTypes, Call, Outcomes
  <1>2. \A q \in Requests :
         /\ pc'[q] # "idle" => call'[q] \in Calls /\ resp'[q] = "none"
         /\ pc'[q] \in {"loaded", "commit", "committed"} => snap'[q] \in User
         /\ pc'[q] \in {"commit", "committed"} =>
              call'[q].kind \in {"reset_confirm", "change", "hr"}
         /\ call'[q] \in ConfirmCalls => reset'[call'[q].token] = call'[q].user
    BY DEF TypeOK, CallTypes, Call
  <1> QED
    BY <1>1, <1>2 DEF CallTypes

\* So does an answer, ...
LEMMA ReplyType ==
    ASSUME TypeOK, NEW r \in Requests, NEW o \in Outcomes, Reply(r, o), UNCHANGED reset
    PROVE  CallTypes'
  <1>1. \A q \in Requests : pc'[q] # "idle" => q # r
    BY DEF TypeOK, CallTypes, Reply
  <1>2. NoCall \notin ConfirmCalls
    BY DEF Calls
  <1> QED
    BY <1>1, <1>2 DEF TypeOK, CallTypes, Reply

\* ... and a handler that goes on to its commit, or past it.
LEMMA ResumeType ==
    ASSUME TypeOK, NEW r \in Requests, Resume(r, "commit") \/ Resume(r, "committed"),
           pc[r] \in {"loaded", "commit"},
           call[r].kind \in {"reset_confirm", "change", "hr"},
           UNCHANGED reset
    PROVE  CallTypes'
  BY DEF TypeOK, CallTypes, Resume

-----------------------------------------------------------------------------
\* The calls of a step, one by one.
LEMMA AskType ==
    ASSUME TypeOK, NEW r \in Requests, Ask(r)
    PROVE  TypeOK'
  <1> USE DEF TypeOK
  <1>1. ASSUME NEW c \in Calls, NEW k \in Types \X Users, NEW type,
               c \notin ConfirmCalls, CallWithJwt(r, k, type, c)
        PROVE  TypeOK'
    <2>1. UNCHANGED <<db, jwt, reset, pending, stale, audit>> /\ pc[r] = "idle"
      BY <1>1 DEF CallWithJwt
    <2>2. StoreTypes'
      BY <2>1 DEF StoreTypes
    <2>3. "401" \in Outcomes
      BY DEF Outcomes
    <2>4. CallTypes'
      BY <1>1, <2>1, <2>3, CallType, ReplyType DEF CallWithJwt
    <2> QED
      BY <2>2, <2>4
  <1>2. ASSUME NEW u \in Users, NEW p \in Passwords, Login(r, u, p) PROVE TypeOK'
    <2> DEFINE c == [kind |-> "login", user |-> u, password |-> p]
    <2>1. c \in Calls /\ c \notin ConfirmCalls
      BY DEF Calls, ConfirmCalls
    <2>2. Call(r, c) /\ UNCHANGED <<db, jwt, reset, pending, stale, audit>> /\ pc[r] = "idle"
      BY <1>2 DEF Login
    <2> HIDE DEF c
    <2>3. StoreTypes'
      BY <2>2 DEF StoreTypes
    <2> QED
      BY <2>1, <2>2, <2>3, CallType
  <1>3. ASSUME NEW t \in ResetTokens, NEW code \in Secrets, MfaResetConfirm(r, t, code)
        PROVE  TypeOK'
    <2>1. UNCHANGED <<db, jwt, reset, stale, audit>> /\ pc[r] = "idle"
          /\ pending' \subseteq pending
      BY <1>3 DEF MfaResetConfirm, Pruned
    <2>2. StoreTypes'
      BY <2>1 DEF StoreTypes
    <2>3. CASE t \notin Pruned \/ code # t
      <3>1. "404" \in Outcomes /\ "400" \in Outcomes
        BY DEF Outcomes
      <3> QED
        BY <1>3, <2>1, <2>2, <2>3, <3>1, ReplyType DEF MfaResetConfirm
    <2>4. CASE t \in Pruned /\ code = t
      <3> DEFINE c == [kind |-> "reset_confirm", user |-> reset[t], token |-> t]
      <3>1. reset[t] \in Users
        BY <2>4 DEF Pruned, StoreTypes
      <3>2. c \in Calls /\ c \in ConfirmCalls /\ c.token = t /\ c.user = reset[t]
        BY <3>1 DEF Calls, ConfirmCalls
      <3>3. Call(r, c)
        BY <1>3, <2>4 DEF MfaResetConfirm
      <3> HIDE DEF c
      <3> QED
        BY <2>1, <2>2, <3>2, <3>3, CallType
    <2> QED
      BY <2>3, <2>4
  <1>4. ASSUME NEW k \in Types \X Users, NEW code \in Secrets, VerifyMfa(r, k, code)
        PROVE  TypeOK'
    <2> DEFINE c == [kind |-> "verify", user |-> k[2], code |-> code]
    <2>1. c \in Calls /\ c \notin ConfirmCalls
      BY DEF Calls, ConfirmCalls
    <2> HIDE DEF c
    <2> QED
      BY <1>1, <1>4, <2>1 DEF VerifyMfa, c
  <1>5. ASSUME NEW k \in Types \X Users, MfaResetInit(r, k) PROVE TypeOK'
    <2> DEFINE c == [kind |-> "reset_init", user |-> k[2]]
    <2>1. c \in Calls /\ c \notin ConfirmCalls
      BY DEF Calls, ConfirmCalls
    <2> HIDE DEF c
    <2> QED
      BY <1>1, <1>5, <2>1 DEF MfaResetInit, c
  <1>6. ASSUME NEW k \in Types \X Users, NEW p \in Passwords, NEW q \in Passwords,
               NEW long \in BOOLEAN, ChangeOwnPassword(r, k, p, q, long)
        PROVE  TypeOK'
    <2> DEFINE c == [kind |-> "change", user |-> k[2], current |-> p, new |-> q, long |-> long]
    <2>1. c \in Calls /\ c \notin ConfirmCalls
      BY DEF Calls, ConfirmCalls, ChangeCalls
    <2> HIDE DEF c
    <2> QED
      BY <1>1, <1>6, <2>1 DEF ChangeOwnPassword, c
  <1>7. ASSUME NEW k \in Types \X Users, ReadCurrentUser(r, k) \/ HrRoute(r, k) PROVE TypeOK'
    <2>1. \A m \in {"me", "hr"} : [kind |-> m, user |-> k[2]] \in Calls \ ConfirmCalls
      BY DEF Calls, ConfirmCalls
    <2> QED
      BY <1>1, <1>7, <2>1 DEF ReadCurrentUser, HrRoute
  <1> QED
    BY <1>2, <1>3, <1>4, <1>5, <1>6, <1>7 DEF Ask

\* The server's own steps.
LEMMA ServeType ==
    ASSUME TypeOK, NEW r \in Requests, Serve(r) \/ DbError(r)
    PROVE  TypeOK'
  <1> USE DEF TypeOK
  <1>1. CASE LoadUser(r)
    <2>1. call[r] \in Calls /\ call[r].user \in Users /\ db[call[r].user] \in User
      BY <1>1, CallFields DEF LoadUser, CallTypes, StoreTypes
    <2>2. StoreTypes'
      BY <1>1 DEF LoadUser, StoreTypes
    <2>3. CallTypes'
      BY <1>1, <2>1 DEF LoadUser, CallTypes
    <2> QED
      BY <2>2, <2>3
  <1>2. CASE LoginDone(r) \/ VerifyDone(r)
    <2>1. call[r].user \in Users /\ {"200", "401", "crypto_error"} \subseteq Outcomes
      BY <1>2, CallFields DEF LoginDone, VerifyDone, Loaded, CallTypes, Outcomes
    <2>2. UNCHANGED <<db, reset, pending, stale, audit>>
          /\ jwt' \in [Types \X Users -> {"none", "valid", "expired"}]
      BY <1>2, <2>1 DEF LoginDone, VerifyDone, Issue, StoreTypes
    <2>3. StoreTypes'
      BY <2>2 DEF StoreTypes
    <2>4. CallTypes'
      BY <1>2, <2>1, <2>2, ReplyType DEF LoginDone, VerifyDone
    <2> QED
      BY <2>3, <2>4
  <1>3. CASE \/ ResetInitRefused(r) \/ ChangeRefused(r) \/ ChangeDone(r)
             \/ GateRefused(r) \/ RouteServed(r) \/ DenialDone(r) \/ DbError(r)
    <2>1. UNCHANGED <<db, jwt, reset, pending, stale, audit>>
      BY <1>3 DEF ResetInitRefused, ChangeRefused, ChangeDone, GateRefused,
         RouteServed, DenialDone, DbError
    <2>2. PICK o \in Outcomes : Reply(r, o)
      BY <1>3 DEF ResetInitRefused, ChangeRefused, ChangeDone, GateRefused,
         RouteServed, DenialDone, DbError, Outcomes
    <2>3. StoreTypes'
      BY <2>1 DEF StoreTypes
    <2> QED
      BY <2>1, <2>2, <2>3, ReplyType
  <1>4. CASE ResetInitDone(r)
    <2>1. call[r].user \in Users /\ "200" \in Outcomes
      BY <1>4, CallFields DEF ResetInitDone, Loaded, CallTypes, Outcomes
    <2>2. PICK t \in ResetTokens :
             /\ reset[t] = NoReset
             /\ reset' = [reset EXCEPT ![t] = call[r].user]
             /\ pending' = Pruned \cup {t}
             /\ UNCHANGED <<db, jwt, stale, audit>>
             /\ Reply(r, "200")
      BY <1>4 DEF ResetInitDone
    <2>3. StoreTypes'
      BY <2>1, <2>2 DEF StoreTypes, Pruned
    <2>4. ASSUME NEW q \in Requests, call'[q] \in ConfirmCalls
          PROVE  reset'[call'[q].token] = call'[q].user
      <3>1. call'[q] = call[q]
        BY <2>2, <2>4 DEF Reply, CallTypes, Calls
      <3>2. reset[call[q].token] = call[q].user /\ call[q].user \in Users
        BY <2>4, <3>1 DEF CallTypes, ConfirmCalls
      <3>3. call[q].token \in ResetTokens /\ call[q].token # t
        BY <2>2, <2>4, <3>1, <3>2 DEF ConfirmCalls
      <3> QED
        BY <2>2, <3>1, <3>2, <3>3 DEF StoreTypes
    <2>5. /\ pc' \in [Requests -> {"idle", "load", "loaded", "commit", "committed"}]
          /\ call' \in [Requests -> Calls \cup {NoCall}]
          /\ snap' \in [Requests -> User \cup {NoRow}]
          /\ resp' \in [Requests -> Outcomes]
          /\ \A q \in Requests : pc'[q] # "idle" =>
               /\ pc'[q] = pc[q] /\ call'[q] = call[q]
               /\ snap'[q] = snap[q] /\ resp'[q] = resp[q]
      BY <2>1, <2>2 DEF Reply, CallTypes
    <2>6. CallTypes'
      BY <2>4, <2>5 DEF CallTypes
    <2> QED
      BY <2>3, <2>6
  <1>5. CASE ResetConfirmRefused(r) \/ ResetConfirmDone(r)
    <2>1. call[r].user \in Users /\ {"200", "401", "key_error"} \subseteq Outcomes
      BY <1>5, CallFields
      DEF ResetConfirmRefused, ResetConfirmDone, Loaded, CallTypes, Outcomes
    <2>2. UNCHANGED <<db, reset, stale, audit>> /\ pending' \subseteq pending
          /\ jwt' \in [Types \X Users -> {"none", "valid", "expired"}]
      BY <1>5, <2>1
      DEF ResetConfirmRefused, ResetConfirmDone, DeleteToken, Issue, StoreTypes
    <2>3. StoreTypes'
      BY <2>2 DEF StoreTypes
    <2>4. CallTypes'
      BY <1>5, <2>1, <2>2, ReplyType DEF ResetConfirmRefused, ResetConfirmDone, DeleteToken
    <2> QED
      BY <2>3, <2>4
  <1>6. CASE ResetConfirmAccepted(r) \/ ChangeAccepted(r) \/ RoleDenied(r)
    <2>1. UNCHANGED <<db, jwt, reset, pending, stale, audit>> /\ Resume(r, "commit")
          /\ pc[r] = "loaded" /\ call[r].kind \in {"reset_confirm", "change", "hr"}
      BY <1>6 DEF ResetConfirmAccepted, ChangeAccepted, RoleDenied, PassesGate, ByGate, Loaded
    <2>2. StoreTypes'
      BY <2>1 DEF StoreTypes
    <2> QED
      BY <2>1, <2>2, ResumeType
  <1>7. CASE Commit(r)
    <2> DEFINE u == call[r].user
    <2>1. call[r] \in Calls /\ u \in Users
          /\ call[r].kind \in {"reset_confirm", "change", "hr"}
      BY <1>7, CallFields DEF Commit, CallTypes
    <2>2. Update(r, u) \in User
      <3>1. db[u] \in User
        BY <2>1 DEF StoreTypes
      <3>2. CASE call[r].kind = "reset_confirm"
        <4>1. call[r].token \in Secrets
          BY <2>1, <3>2, CallFields DEF Secrets
        <4> QED
          BY <3>1, <3>2, <4>1 DEF Update, User
      <3>3. CASE call[r].kind = "change"
        <4>1. call[r].new \in Passwords
          BY <2>1, <3>3, CallFields
        <4> QED
          BY <3>1, <3>3, <4>1 DEF Update, User
      <3>4. CASE call[r].kind = "hr"
        BY <3>1, <3>4 DEF Update
      <3> QED
        BY <2>1, <3>2, <3>3, <3>4
    <2>3. WhatIsRecorded(call[r]) \in Recorded
      BY <2>1 DEF WhatIsRecorded, Recorded
    <2>4. db' = [db EXCEPT ![u] = Update(r, u)] /\ UNCHANGED <<jwt, reset, pending, stale>>
          /\ audit' = [audit EXCEPT ![u][WhatIsRecorded(call[r])] = @ + 1]
          /\ Resume(r, "committed") /\ pc[r] = "commit"
      BY <1>7 DEF Commit, RecordAudit
    <2> HIDE DEF u
    <2>5. StoreTypes'
      BY <2>1, <2>2, <2>3, <2>4 DEF StoreTypes
    <2> QED
      BY <2>1, <2>4, <2>5, ResumeType
  <1> QED
    BY <1>1, <1>2, <1>3, <1>4, <1>5, <1>6, <1>7 DEF Serve

LEMMA TypeStep == TypeOK /\ [Next]_vars => TypeOK'
  <1> SUFFICES ASSUME TypeOK, [Next]_vars PROVE TypeOK'
    OBVIOUS
  <1>1. CASE Restart
    <2>1. StoreTypes'
      BY <1>1 DEF Restart, TypeOK, StoreTypes
    <2>2. NoCall \notin ConfirmCalls
      BY DEF Calls
    <2>3. CallTypes'
      BY <1>1, <2>2 DEF Restart, CallTypes, Outcomes
    <2> QED
      BY <2>1, <2>3 DEF TypeOK
  <1>2. CASE UNCHANGED vars
    BY <1>2 DEF vars, TypeOK, StoreTypes, CallTypes
  <1>3. CASE \/ \E k \in Types \X Users : ExpireJwt(k)
             \/ \E t \in ResetTokens : ExpireReset(t)
             \/ \E u \in Users : Deactivate(u)
    <2>1. StoreTypes'
      <3>1. ASSUME NEW k \in Types \X Users, ExpireJwt(k) PROVE StoreTypes'
        BY <3>1 DEF ExpireJwt, TypeOK, StoreTypes
      <3>2. ASSUME NEW t \in ResetTokens, ExpireReset(t) PROVE StoreTypes'
        BY <3>2 DEF ExpireReset, TypeOK, StoreTypes
      <3>3. ASSUME NEW u \in Users, Deactivate(u) PROVE StoreTypes'
        <4> DEFINE row == [db[u] EXCEPT !.active = FALSE]
        <4>1. db[u] \in User
          BY DEF TypeOK, StoreTypes
        <4>2. row \in User
          BY <4>1 DEF User
        <4>3. db' = [db EXCEPT ![u] = row]
          BY <3>3 DEF Deactivate
        <4> HIDE DEF row
        <4>4. db' \in [Users -> User]
          BY <4>2, <4>3 DEF TypeOK, StoreTypes
        <4> QED
          BY <3>3, <4>4 DEF Deactivate, TypeOK, StoreTypes
      <3> QED
        BY <1>3, <3>1, <3>2, <3>3
    <2>2. CallTypes'
      BY <1>3 DEF ExpireJwt, ExpireReset, Deactivate, TypeOK, CallTypes
    <2> QED
      BY <2>1, <2>2 DEF TypeOK
  <1> QED
    BY <1>1, <1>2, <1>3, AskType, ServeType DEF Next

-----------------------------------------------------------------------------
\* Which steps write which store.
LEMMA Writers ==
    ASSUME [Next]_vars
    PROVE  /\ \/ UNCHANGED db
              \/ \E u \in Users : Deactivate(u)
              \/ \E r \in Requests : Commit(r)
           /\ \/ UNCHANGED jwt
              \/ \E k \in Types \X Users : ExpireJwt(k)
              \/ \E r \in Requests : LoginDone(r) \/ VerifyDone(r) \/ ResetConfirmDone(r)
           /\ UNCHANGED reset \/ \E r \in Requests : ResetInitDone(r)
           /\ UNCHANGED audit \/ \E r \in Requests : Commit(r)
  BY DEF Next, Ask, Serve, vars, CallWithJwt, Login, VerifyMfa, MfaResetInit,
     MfaResetConfirm, ChangeOwnPassword, ReadCurrentUser, HrRoute, LoadUser,
     LoginDone, VerifyDone, ResetInitRefused, ResetInitDone,
     ResetConfirmRefused, ResetConfirmAccepted, ResetConfirmDone,
     ChangeRefused, ChangeAccepted, ChangeDone, GateRefused, RouteServed,
     RoleDenied, DenialDone, Commit, DbError, ExpireJwt, ExpireReset,
     Deactivate, Restart

-----------------------------------------------------------------------------
\* What a row can only do: must_change_password and is_active go from TRUE to
\* FALSE and never back, and nothing but a commit or the operator touches it.
LEMMA RowStep ==
    ASSUME TypeOK, [Next]_vars, NEW u \in Users
    PROVE  /\ db'[u].must_change => db[u].must_change
           /\ db'[u].active => db[u].active
           /\ \/ db'[u] = db[u]
              \/ Deactivate(u)
              \/ \E r \in Requests : Commit(r) /\ call[r].user = u
  <1>1. ASSUME NEW r \in Requests, Commit(r), call[r].user = u
        PROVE  /\ db'[u].must_change => db[u].must_change
               /\ db'[u].active => db[u].active
    <2>1. db'[u] = Update(r, u) /\ db[u] \in User
          /\ call[r].kind \in {"reset_confirm", "change", "hr"}
      BY <1>1 DEF Commit, TypeOK, StoreTypes, CallTypes
    <2> QED
      BY <2>1 DEF Update, User
  <1>2. ASSUME Deactivate(u)
        PROVE  /\ db'[u].must_change => db[u].must_change
               /\ db'[u].active => db[u].active
    BY <1>2 DEF Deactivate, TypeOK, StoreTypes, User
  <1>3. \/ db'[u] = db[u]
        \/ Deactivate(u)
        \/ \E r \in Requests : Commit(r) /\ call[r].user = u
    <2>1. ASSUME NEW r \in Requests, Commit(r), call[r].user # u
          PROVE  db'[u] = db[u]
      BY <2>1 DEF Commit, TypeOK, StoreTypes
    <2>2. ASSUME NEW v \in Users, Deactivate(v), v # u
          PROVE  db'[u] = db[u]
      BY <2>2 DEF Deactivate, TypeOK, StoreTypes
    <2> QED
      BY <2>1, <2>2, Writers
  <1> QED
    BY <1>1, <1>2, <1>3

\* A call does not move while another one does.
LEMMA OthersWait ==
    ASSUME TypeOK, NEW r \in Requests, NEW q \in Requests, q # r,
           Ask(q) \/ Serve(q) \/ DbError(q)
    PROVE  pc'[r] = pc[r] /\ call'[r] = call[r] /\ snap'[r] = snap[r] /\ resp'[r] = resp[r]
  <1>1. CASE LoadUser(q)
    BY <1>1 DEF LoadUser, TypeOK, CallTypes
  <1>2. ASSUME \/ \E o : Reply(q, o)
               \/ \E c : Call(q, c)
               \/ Resume(q, "commit") \/ Resume(q, "committed")
        PROVE  pc'[r] = pc[r] /\ call'[r] = call[r] /\ snap'[r] = snap[r] /\ resp'[r] = resp[r]
    BY <1>2 DEF Reply, Call, Resume, TypeOK, CallTypes
  <1>3. \/ LoadUser(q)
        \/ \E o : Reply(q, o)
        \/ \E c : Call(q, c)
        \/ Resume(q, "commit") \/ Resume(q, "committed")
    BY DEF Ask, Serve, CallWithJwt, DeleteToken,
       Login, VerifyMfa, MfaResetInit, MfaResetConfirm, ChangeOwnPassword,
       ReadCurrentUser, HrRoute, LoginDone, VerifyDone, ResetInitRefused,
       ResetInitDone, ResetConfirmRefused, ResetConfirmAccepted, ResetConfirmDone,
       ChangeRefused, ChangeAccepted, ChangeDone, GateRefused, RouteServed,
       RoleDenied, DenialDone, Commit, DbError
  <1> QED
    BY <1>1, <1>2, <1>3

\* Where a handler can be, and how it got there, call by call.
LEMMA HandlerStep ==
    ASSUME TypeOK, [Next]_vars, NEW r \in Requests, pc'[r] # "idle"
    PROVE  \/ Ask(r) /\ pc[r] = "idle" /\ pc'[r] = "load"
           \/ LoadUser(r)
           \/ /\ pc[r] # "idle" /\ call'[r] = call[r] /\ snap'[r] = snap[r]
              /\ \/ pc'[r] = pc[r]
                 \/ pc[r] = "commit" /\ pc'[r] = "committed"
                 \/ pc[r] = "loaded" /\ pc'[r] = "commit" /\ snap[r].active
  <1> USE DEF TypeOK, CallTypes
  <1>1. ASSUME NEW q \in Requests, q # r, Ask(q) \/ Serve(q) \/ DbError(q)
        PROVE  pc'[r] = pc[r] /\ call'[r] = call[r] /\ snap'[r] = snap[r]
    BY <1>1, OthersWait
  <1>2. CASE Ask(r)
    BY <1>2 DEF Ask, Reply, Call, CallWithJwt, Login, VerifyMfa, MfaResetInit,
       MfaResetConfirm, ChangeOwnPassword, ReadCurrentUser, HrRoute
  <1>3. CASE Serve(r) \/ DbError(r)
    BY <1>3 DEF Serve, Reply, Resume, DeleteToken, Loaded, PassesGate, ByGate,
       LoginDone, VerifyDone, ResetInitRefused, ResetInitDone,
       ResetConfirmRefused, ResetConfirmAccepted, ResetConfirmDone,
       ChangeRefused, ChangeAccepted, ChangeDone, GateRefused, RouteServed,
       RoleDenied, DenialDone, Commit, DbError
  <1>4. CASE Restart
    BY <1>4 DEF Restart
  <1> QED
    BY <1>1, <1>2, <1>3, <1>4 DEF Next, vars, ExpireJwt, ExpireReset, Deactivate

\* So a handler's copy errs on the safe side only.
LEMMA CopyStep ==
    ASSUME TypeOK, FreshEnough, GoneEnough, ActiveWhenSeen, [Next]_vars
    PROVE  FreshEnough' /\ GoneEnough' /\ ActiveWhenSeen'
  <1>1. ASSUME NEW r \in Requests, pc'[r] \in {"loaded", "commit", "committed"},
               ~snap'[r].must_change
        PROVE  ~db'[call'[r].user].must_change
    <2>1. CASE LoadUser(r)
      BY <1>1, <2>1 DEF LoadUser, TypeOK, CallTypes
    <2>2. CASE /\ pc[r] \in {"loaded", "commit", "committed"}
               /\ call'[r] = call[r] /\ snap'[r] = snap[r]
      <3>1. call[r].user \in Users
        BY <2>2, CallFields DEF TypeOK, CallTypes
      <3> QED
        BY <1>1, <2>2, <3>1, RowStep DEF FreshEnough
    <2> QED
      BY <1>1, <2>1, <2>2, HandlerStep DEF TypeOK, CallTypes
  <1>2. ASSUME NEW r \in Requests, pc'[r] \in {"loaded", "commit", "committed"},
               ~snap'[r].active
        PROVE  ~db'[call'[r].user].active
    <2>1. CASE LoadUser(r)
      BY <1>2, <2>1 DEF LoadUser, TypeOK, CallTypes
    <2>2. CASE /\ pc[r] \in {"loaded", "commit", "committed"}
               /\ call'[r] = call[r] /\ snap'[r] = snap[r]
      <3>1. call[r].user \in Users
        BY <2>2, CallFields DEF TypeOK, CallTypes
      <3> QED
        BY <1>2, <2>2, <3>1, RowStep DEF GoneEnough
    <2> QED
      BY <1>2, <2>1, <2>2, HandlerStep DEF TypeOK, CallTypes
  <1>3. ASSUME NEW r \in Requests, pc'[r] \in {"commit", "committed"}
        PROVE  snap'[r].active
    <2>1. ~LoadUser(r)
      BY <1>3 DEF LoadUser, TypeOK, CallTypes
    <2> QED
      BY <1>3, <2>1, HandlerStep DEF ActiveWhenSeen
  <1> QED
    BY <1>1, <1>2, <1>3 DEF FreshEnough, GoneEnough, ActiveWhenSeen

-----------------------------------------------------------------------------
\* Who is handed a token, and on what.
LEMMA JwtStep ==
    ASSUME TypeOK, [Next]_vars, NEW type \in Types, NEW u \in Users
    PROVE  /\ Issued(type, u) => Issued(type, u)'
           /\ jwt'[<<type, u>>] = "valid" /\ jwt[<<type, u>>] # "valid" =>
                \E r \in Requests :
                  /\ call[r].user = u
                  /\ \/ LoginDone(r) /\ type = "mfa_pending"
                     \/ VerifyDone(r) /\ type = "access"
                     \/ ResetConfirmDone(r) /\ type = "access"
                  /\ jwt' # jwt
           /\ jwt'[<<type, u>>] # "none" /\ jwt[<<type, u>>] = "none" => jwt'[<<type, u>>] = "valid"
  <1> USE DEF TypeOK, StoreTypes, Issued
  <1>1. CASE UNCHANGED jwt
    BY <1>1
  <1>2. ASSUME NEW k \in Types \X Users, ExpireJwt(k)
        PROVE  /\ Issued(type, u) => Issued(type, u)'
               /\ jwt'[<<type, u>>] # "valid" \/ jwt[<<type, u>>] = "valid"
               /\ jwt'[<<type, u>>] # "none" => jwt[<<type, u>>] # "none"
    BY <1>2 DEF ExpireJwt
  <1>3. ASSUME NEW r \in Requests, LoginDone(r) \/ VerifyDone(r) \/ ResetConfirmDone(r),
               ~ UNCHANGED jwt
        PROVE  \E ty \in Types : /\ Issue(ty, call[r].user) /\ call[r].user \in Users
                                 /\ \/ LoginDone(r) /\ ty = "mfa_pending"
                                    \/ VerifyDone(r) /\ ty = "access"
                                    \/ ResetConfirmDone(r) /\ ty = "access"
    BY <1>3, CallFields
    DEF LoginDone, VerifyDone, ResetConfirmDone, Loaded, CallTypes, Types
  <1>4. ASSUME NEW r \in Requests, NEW ty \in Types, Issue(ty, call[r].user),
               call[r].user \in Users
        PROVE  /\ Issued(type, u) => Issued(type, u)'
               /\ jwt'[<<type, u>>] # jwt[<<type, u>>] =>
                    ty = type /\ call[r].user = u /\ jwt'[<<type, u>>] = "valid"
    <2> DEFINE k == <<ty, call[r].user>>
    <2>1. k \in Types \X Users /\ jwt' = [jwt EXCEPT ![k] = "valid"]
      BY <1>4 DEF Issue
    <2>2. CASE k = <<type, u>>
      BY <2>1, <2>2
    <2>3. CASE k # <<type, u>>
      <3> HIDE DEF k
      <3> QED
        BY <2>1, <2>3
    <2> QED
      BY <2>2, <2>3
  <1>6. ASSUME NEW r \in Requests, LoginDone(r) \/ VerifyDone(r) \/ ResetConfirmDone(r),
               jwt' # jwt
        PROVE  /\ Issued(type, u) => Issued(type, u)'
               /\ jwt'[<<type, u>>] # jwt[<<type, u>>] =>
                    /\ jwt'[<<type, u>>] = "valid"
                    /\ call[r].user = u
                    /\ \/ LoginDone(r) /\ type = "mfa_pending"
                       \/ VerifyDone(r) /\ type = "access"
                       \/ ResetConfirmDone(r) /\ type = "access"
    BY <1>3, <1>4, <1>6
  <1> QED
    BY <1>1, <1>2, <1>6, Writers

\* A call that was let in presented a token of the right type.
LEMMA AskPresents ==
    ASSUME TypeOK, StepsInOrder, NEW r \in Requests, Ask(r), pc'[r] = "load"
    PROVE  Presented(r)'
  <1> USE DEF TypeOK, StoreTypes, CallTypes
  <1>1. ASSUME NEW k \in Types \X Users, NEW type \in Types, NEW c, CallWithJwt(r, k, type, c)
        PROVE  Issued(type, k[2])' /\ call'[r] = c
    <2>1. k = <<k[1], k[2]>>
      BY <1>1
    <2>2. Decodes(k, type) /\ Call(r, c) /\ UNCHANGED jwt
      BY <1>1 DEF CallWithJwt, Reply
    <2> QED
      BY <2>1, <2>2 DEF Decodes, Issued, Call
  <1> USE DEF Presented
  <1>2. ASSUME NEW u \in Users, NEW p \in Passwords, Login(r, u, p) PROVE Presented(r)'
    BY <1>2 DEF Login, Call
  <1>3. ASSUME NEW t \in ResetTokens, NEW code \in Secrets, MfaResetConfirm(r, t, code)
        PROVE  Presented(r)'
    <2>1. t \in Pruned /\ UNCHANGED jwt
          /\ call'[r] = [kind |-> "reset_confirm", user |-> reset[t], token |-> t]
      BY <1>3 DEF MfaResetConfirm, Reply, Call
    <2>2. PICK u \in Users : u = reset[t]
      BY <2>1 DEF Pruned
    <2>3. jwt'[<<"mfa_pending", u>>] # "none"
      BY <2>1, <2>2 DEF StepsInOrder, Issued
    <2>4. call'[r].kind = "reset_confirm" /\ call'[r].user = u
      BY <2>1, <2>2
    <2> QED
      BY <2>3, <2>4 DEF Issued
  <1>4. ASSUME NEW k \in Types \X Users, NEW code \in Secrets,
               VerifyMfa(r, k, code)
        PROVE  Presented(r)'
    BY <1>1, <1>4 DEF VerifyMfa, Types
  <1>5. ASSUME NEW k \in Types \X Users, NEW p \in Passwords, NEW q \in Passwords,
               NEW long \in BOOLEAN, ChangeOwnPassword(r, k, p, q, long)
        PROVE  Presented(r)'
    BY <1>1, <1>5 DEF ChangeOwnPassword, Types
  <1>6. ASSUME NEW k \in Types \X Users, ReadCurrentUser(r, k) \/ HrRoute(r, k)
        PROVE  Presented(r)'
    BY <1>1, <1>6 DEF ReadCurrentUser, HrRoute, Types
  <1>7. ASSUME NEW k \in Types \X Users, MfaResetInit(r, k)
        PROVE  Presented(r)'
    BY <1>1, <1>7 DEF MfaResetInit, Types
  <1> QED
    BY <1>2, <1>3, <1>4, <1>5, <1>6, <1>7 DEF Ask

\* So the steps stay in order.
LEMMA OrderStep ==
    ASSUME TypeOK, CallsInOrder, StepsInOrder, [Next]_vars
    PROVE  CallsInOrder' /\ StepsInOrder'
  <1>1. \A u \in Users : /\ Issued("access", u) => Issued("access", u)'
                         /\ Issued("mfa_pending", u) => Issued("mfa_pending", u)'
    BY JwtStep DEF Types
  <1>2. ASSUME NEW r \in Requests, pc[r] # "idle"
        PROVE  call[r] \in Calls /\ call[r].user \in Users /\ Presented(r)
    BY <1>2, CallFields DEF TypeOK, CallTypes, CallsInOrder
  <1>3. ASSUME NEW r \in Requests, pc'[r] # "idle"
        PROVE  Presented(r)'
    <2>1. CASE Ask(r) /\ pc'[r] = "load"
      BY <2>1, AskPresents
    <2>2. CASE pc[r] # "idle" /\ call'[r] = call[r]
      BY <1>1, <1>2, <2>2 DEF Presented, Issued
    <2>3. CASE LoadUser(r)
      BY <2>2, <2>3 DEF LoadUser
    <2> QED
      BY <1>3, <2>1, <2>2, <2>3, HandlerStep
  <1>4. ASSUME NEW u \in Users, Issued("access", u)'
        PROVE  Issued("mfa_pending", u)'
    <2>1. CASE Issued("access", u)
      BY <1>1, <2>1 DEF StepsInOrder
    <2>2. CASE ~Issued("access", u)
      <3>1. PICK r \in Requests : /\ call[r].user = u
                                  /\ VerifyDone(r) \/ ResetConfirmDone(r)
        BY <1>4, <2>2, JwtStep DEF Types, Issued
      <3>2. Issued("mfa_pending", u)
        BY <1>2, <3>1 DEF VerifyDone, ResetConfirmDone, Loaded, Presented
      <3> QED
        BY <1>1, <3>2
    <2> QED
      BY <2>1, <2>2
  <1>5. ASSUME NEW u \in Users, NEW t \in ResetTokens, reset'[t] = u
        PROVE  Issued("mfa_pending", u)'
    <2>1. CASE reset[t] = u
      BY <1>1, <2>1 DEF StepsInOrder
    <2>2. ASSUME NEW r \in Requests, ResetInitDone(r), reset[t] # u
          PROVE  Issued("mfa_pending", u)'
      <3>1. call[r].user = u
        BY <1>5, <2>2 DEF ResetInitDone, TypeOK, StoreTypes
      <3> QED
        BY <1>1, <1>2, <2>2, <3>1 DEF ResetInitDone, Loaded, Presented
    <2> QED
      BY <1>5, <2>1, <2>2, Writers
  <1>6. ASSUME NEW u \in Users, NEW f \in Recorded, audit'[u][f] > 0
        PROVE  \/ audit[u][f] > 0
               \/ \E r \in Requests : /\ pc[r] = "commit" /\ call[r].user = u
                                      /\ WhatIsRecorded(call[r]) = f
    <2>1. ASSUME NEW r \in Requests, Commit(r),
                 ~(call[r].user = u /\ WhatIsRecorded(call[r]) = f)
          PROVE  audit'[u][f] = audit[u][f]
      <3>1. audit' = [audit EXCEPT ![call[r].user][WhatIsRecorded(call[r])] = @ + 1]
        BY <2>1 DEF Commit, RecordAudit
      <3> QED
        BY <2>1, <3>1 DEF TypeOK, StoreTypes
    <2>2. ASSUME NEW r \in Requests, Commit(r) PROVE pc[r] = "commit"
      BY <2>2 DEF Commit
    <2> QED
      BY <1>6, <2>1, <2>2, Writers
  <1>7. ASSUME NEW u \in Users, audit'[u]["mfa_secret_encrypted"] > 0
        PROVE  Issued("mfa_pending", u)'
    <2>1. CASE audit[u]["mfa_secret_encrypted"] > 0
      BY <1>1, <2>1 DEF StepsInOrder
    <2>2. ASSUME NEW r \in Requests, pc[r] = "commit", call[r].user = u,
                 WhatIsRecorded(call[r]) = "mfa_secret_encrypted"
          PROVE  Issued("mfa_pending", u)'
      <3>1. call[r].kind = "reset_confirm"
        BY <2>2 DEF WhatIsRecorded, TypeOK, CallTypes
      <3> QED
        BY <1>1, <1>2, <2>2, <3>1 DEF Presented
    <2> QED
      BY <1>6, <1>7, <2>1, <2>2 DEF Recorded
  <1>8. ASSUME NEW u \in Users, NEW f \in {"password_hash", "authz_denial"}, audit'[u][f] > 0
        PROVE  Issued("access", u)'
    <2>1. CASE audit[u][f] > 0
      <3>1. audit[u]["password_hash"] \in Nat /\ audit[u]["authz_denial"] \in Nat
        BY DEF TypeOK, StoreTypes, Recorded
      <3>2. audit[u]["password_hash"] + audit[u]["authz_denial"] > 0
        BY <1>8, <2>1, <3>1
      <3> QED
        BY <1>1, <3>2 DEF StepsInOrder
    <2>2. ASSUME NEW r \in Requests, pc[r] = "commit", call[r].user = u,
                 WhatIsRecorded(call[r]) = f
          PROVE  Issued("access", u)'
      <3>1. call[r].kind \in {"change", "hr"}
        BY <1>8, <2>2 DEF WhatIsRecorded, TypeOK, CallTypes
      <3> QED
        BY <1>1, <1>2, <2>2, <3>1 DEF Presented
    <2>3. f \in Recorded
      BY <1>8 DEF Recorded
    <2> QED
      BY <1>6, <1>8, <2>1, <2>2, <2>3
  <1>9. ASSUME NEW u \in Users, audit'[u]["password_hash"] + audit'[u]["authz_denial"] > 0
        PROVE  Issued("access", u)'
    <2>1. audit'[u]["password_hash"] \in Nat /\ audit'[u]["authz_denial"] \in Nat
      BY TypeStep DEF TypeOK, StoreTypes, Recorded
    <2>2. audit'[u]["password_hash"] > 0 \/ audit'[u]["authz_denial"] > 0
      BY <1>9, <2>1
    <2> QED
      BY <1>8, <2>2
  <1>10. StepsInOrder'
    BY <1>4, <1>5, <1>7, <1>9 DEF StepsInOrder
  <1> QED
    BY <1>3, <1>10 DEF CallsInOrder

LEMMA IInvStep == IInv /\ [Next]_vars => IInv'
  BY TypeStep, CopyStep, OrderStep DEF IInv

\* The inductive invariant holds of every behaviour of the endpoints.
THEOREM Invariant == Spec => []IInv
  BY InitIInv, IInvStep, PTL DEF Spec

-----------------------------------------------------------------------------
\* Every variable keeps its type.
THEOREM TypeCorrect == Spec => []TypeOK
  <1>1. IInv => TypeOK
    BY DEF IInv
  <1> QED
    BY <1>1, Invariant, PTL

\* No account is served, reset or recorded as acting without the token each
\* step needs, and no token is out without the step that earns it.
THEOREM OrderKept == Spec => []StepsInOrder
  <1>1. IInv => StepsInOrder
    BY DEF IInv
  <1> QED
    BY <1>1, Invariant, PTL

\* No route behind get_current_user is served to an account whose password
\* change is still pending, although the gate looks at a copy of the row.
THEOREM GateHolds == Spec => PasswordChangeGate
  <1>1. ASSUME IInv, [Next]_vars, NEW r \in Requests, ByGate(r),
               resp'[r] = "200" \/ pc'[r] = "commit"
        PROVE  ~db[call[r].user].must_change
    <2> USE <1>1 DEF IInv, TypeOK, CallTypes, ByGate, Loaded
    <2>1. PassesGate(r)
      <3>1. CASE Ask(r) \/ Serve(r) \/ DbError(r)
        BY <3>1 DEF PassesGate, Ask, Serve, Reply, Call, Resume, CallWithJwt, DeleteToken,
           Login, VerifyMfa, MfaResetInit, MfaResetConfirm, ChangeOwnPassword,
           ReadCurrentUser, HrRoute, LoadUser, LoginDone, VerifyDone, ResetInitRefused,
           ResetInitDone, ResetConfirmRefused, ResetConfirmAccepted, ResetConfirmDone,
           ChangeRefused, ChangeAccepted, ChangeDone, GateRefused, RouteServed,
           RoleDenied, DenialDone, Commit, DbError
      <3>2. CASE Restart
        BY <3>2 DEF Restart
      <3> QED
        BY <3>1, <3>2, OthersWait DEF Next, vars, ExpireJwt, ExpireReset, Deactivate
    <2> QED
      BY <2>1 DEF PassesGate, FreshEnough
  <1>2. IInv /\ [Next]_vars =>
          \A r \in Requests :
            ByGate(r) /\ (resp'[r] = "200" \/ pc'[r] = "commit")
              => ~db[call[r].user].must_change
    BY <1>1
  <1> QED
    BY <1>2, Invariant, PTL DEF Spec, PasswordChangeGate

-----------------------------------------------------------------------------
\* A credential changes only to what a committing call asked for, with one
\* audit row that says which: a password change and an MFA reset that overlap
\* never undo each other.
THEOREM CredentialsHold == Spec => CredentialsKept
  <1>1. ASSUME IInv, [Next]_vars, NEW u \in Users, NEW r \in Requests,
               Commit(r), call[r].user = u
        PROVE  /\ db'[u].secret # db[u].secret =>
                    /\ Wrote(r, u, "mfa_secret_encrypted")
                    /\ db'[u].secret = call[r].token
               /\ db'[u].password # db[u].password =>
                    /\ Wrote(r, u, "password_hash")
                    /\ db'[u].password = call[r].new
               /\ pc'[r] = "committed"
    <2>1. /\ db'[u] = Update(r, u) /\ db[u] \in User
          /\ pc[r] = "commit" /\ pc'[r] = "committed"
          /\ audit'[u] = [audit[u] EXCEPT ![WhatIsRecorded(call[r])] = @ + 1]
          /\ call[r].kind \in {"reset_confirm", "change", "hr"}
      BY <1>1 DEF IInv, TypeOK, StoreTypes, CallTypes, Commit, RecordAudit, Resume
    <2>2. CASE call[r].kind = "reset_confirm"
      BY <1>1, <2>1, <2>2 DEF Update, WhatIsRecorded, Wrote, User
    <2>3. CASE call[r].kind = "change"
      BY <1>1, <2>1, <2>3 DEF Update, WhatIsRecorded, Wrote, User
    <2>4. CASE call[r].kind = "hr"
      BY <2>1, <2>4 DEF Update
    <2> QED
      BY <2>1, <2>2, <2>3, <2>4
  <1>2. ASSUME IInv, [Next]_vars, NEW u \in Users
        PROVE  /\ db'[u].secret # db[u].secret =>
                    \E r \in Requests : /\ Wrote(r, u, "mfa_secret_encrypted")
                                        /\ db'[u].secret = call[r].token
               /\ db'[u].password # db[u].password =>
                    \E r \in Requests : /\ Wrote(r, u, "password_hash")
                                        /\ db'[u].password = call[r].new
               /\ audit'[u] # audit[u] => \E r \in Requests : pc'[r] = "committed"
    <2>1. \/ db'[u] = db[u] \/ Deactivate(u)
          \/ \E r \in Requests : Commit(r) /\ call[r].user = u
      BY <1>2, RowStep DEF IInv
    <2>2. ASSUME Deactivate(u)
          PROVE  db'[u].secret = db[u].secret /\ db'[u].password = db[u].password
      BY <1>2, <2>2 DEF Deactivate, IInv, TypeOK, StoreTypes, User
    <2>3. audit'[u] # audit[u] => \E r \in Requests : pc'[r] = "committed"
      BY <1>2, Writers DEF Commit, Resume, IInv, TypeOK, CallTypes
    <2> QED
      BY <1>1, <1>2, <2>1, <2>2, <2>3
  <1>3. IInv /\ [Next]_vars =>
          \A u \in Users :
            /\ db'[u].secret # db[u].secret =>
                 \E r \in Requests : /\ Wrote(r, u, "mfa_secret_encrypted")
                                     /\ db'[u].secret = call[r].token
            /\ db'[u].password # db[u].password =>
                 \E r \in Requests : /\ Wrote(r, u, "password_hash")
                                     /\ db'[u].password = call[r].new
            /\ audit'[u] # audit[u] => \E r \in Requests : pc'[r] = "committed"
    BY <1>2
  <1> QED
    BY <1>3, Invariant, PTL DEF Spec, CredentialsKept

\* A deactivated account with no call left that saw it active stays as it is: no
\* token, change, record or service, ever.
THEOREM GoneStays == Spec => GoneIsFinal
  <1>1. ASSUME IInv, [Next]_vars, NEW u \in Users, Gone(u)
        PROVE  /\ Gone(u)'
               /\ db'[u] = db[u] /\ audit'[u] = audit[u]
               /\ \A type \in Types :
                    jwt'[<<type, u>>] = "valid" => jwt[<<type, u>>] = "valid"
               /\ \A r \in Requests :
                    pc[r] # "idle" /\ call[r].user = u => resp'[r] \notin {"200", "204", "denied"}
    <2> USE <1>1 DEF IInv
    <2>1. ASSUME NEW r \in Requests, pc[r] \in {"loaded", "commit", "committed"}, call[r].user = u
          PROVE  ~snap[r].active /\ pc[r] = "loaded"
      BY <2>1 DEF Gone, ActedFor, ActiveWhenSeen
    <2>2. \A r \in Requests : Commit(r) => call[r].user # u
      BY <2>1 DEF Commit
    <2>3. db'[u] = db[u]
      BY <2>2, RowStep DEF Gone, Deactivate
    <2>4. audit'[u] = audit[u]
      BY <2>2, Writers DEF Commit, RecordAudit, TypeOK, StoreTypes
    <2>5. ASSUME NEW type \in Types, jwt'[<<type, u>>] = "valid", jwt[<<type, u>>] # "valid"
          PROVE  FALSE
      <3>1. PICK r \in Requests : /\ call[r].user = u /\ jwt' # jwt
                                  /\ LoginDone(r) \/ VerifyDone(r) \/ ResetConfirmDone(r)
        BY <2>5, JwtStep
      <3> QED
        BY <2>1, <3>1 DEF LoginDone, VerifyDone, ResetConfirmDone, Loaded
    <2>6. ASSUME NEW r \in Requests PROVE ~ActedFor(r, u)'
      <3>1. CASE LoadUser(r)
        BY <2>3, <3>1 DEF LoadUser, ActedFor, Gone, TypeOK, CallTypes
      <3>2. CASE pc'[r] = pc[r] /\ call'[r] = call[r] /\ snap'[r] = snap[r]
        BY <3>2 DEF ActedFor, Gone
      <3>3. CASE /\ call'[r] = call[r] /\ snap'[r] = snap[r]
                 /\ \/ pc[r] = "commit" /\ pc'[r] = "committed"
                    \/ pc[r] = "loaded" /\ pc'[r] = "commit" /\ snap[r].active
        BY <3>3 DEF ActedFor, Gone
      <3> QED
        BY <3>1, <3>2, <3>3, HandlerStep DEF ActedFor
    <2>7. ASSUME NEW r \in Requests, pc[r] # "idle", call[r].user = u
          PROVE  resp'[r] \notin {"200", "204", "denied"}
      <3>1. resp[r] = "none" /\ pc[r] \in {"load", "loaded", "commit", "committed"}
        BY <2>7 DEF TypeOK, CallTypes
      <3>2. pc[r] = "load" \/ (pc[r] = "loaded" /\ ~snap[r].active)
        BY <2>1, <2>7, <3>1
      <3> USE <2>7 DEF TypeOK, CallTypes
      <3>3. CASE Ask(r) \/ Serve(r) \/ DbError(r)
        BY <3>1, <3>2, <3>3 DEF Ask, Serve, Reply, Resume, CallWithJwt, DeleteToken,
           Loaded, PassesGate, ByGate, Login, VerifyMfa, MfaResetInit, MfaResetConfirm,
           ChangeOwnPassword, ReadCurrentUser, HrRoute, LoadUser, LoginDone, VerifyDone,
           ResetInitRefused, ResetInitDone, ResetConfirmRefused, ResetConfirmAccepted,
           ResetConfirmDone, ChangeRefused, ChangeAccepted, ChangeDone, GateRefused,
           RouteServed, RoleDenied, DenialDone, Commit, DbError
      <3>4. CASE Restart
        BY <3>4 DEF Restart
      <3> QED
        BY <3>1, <3>3, <3>4, OthersWait DEF Next, vars, ExpireJwt, ExpireReset, Deactivate
    <2> QED
      BY <2>3, <2>4, <2>5, <2>6, <2>7 DEF Gone
  <1>2. IInv /\ [Next]_vars =>
          \A u \in Users : Gone(u) =>
            /\ Gone(u)'
            /\ db'[u] = db[u] /\ audit'[u] = audit[u]
            /\ \A type \in Types :
                 jwt'[<<type, u>>] = "valid" => jwt[<<type, u>>] = "valid"
            /\ \A r \in Requests :
                 pc[r] # "idle" /\ call[r].user = u => resp'[r] \notin {"200", "204", "denied"}
    BY <1>1
  <1> QED
    BY <1>2, Invariant, PTL DEF Spec, GoneIsFinal

-----------------------------------------------------------------------------
\* A reset in progress is lost only to what ends it: its expiry, its commit, the
\* deactivation of its account or a restart.  A handler that deletes a token
\* because it saw the account deactivated saw what is still so.
THEOREM ResetsKept == Spec => ResetKept
  <1>1. ASSUME IInv, [Next]_vars, NEW t \in pending, t \notin pending'
        PROVE  \/ t \in stale
               \/ \E r \in Requests : pc[r] = "committed" /\ call[r] \in ConfirmCalls
                                      /\ call[r].token = t
               \/ ~db[reset[t]].active
               \/ Restarted
    <2> USE <1>1 DEF IInv, TypeOK
    <2>1. \/ \E r \in Requests : \/ \E u \in ResetTokens, code \in Secrets : MfaResetConfirm(r, u, code)
                                 \/ ResetInitDone(r) \/ ResetConfirmRefused(r)
                                 \/ ResetConfirmDone(r)
          \/ Restart
      BY DEF Next, Ask, Serve, vars, CallWithJwt, Login, VerifyMfa, MfaResetInit,
         ChangeOwnPassword, ReadCurrentUser, HrRoute, LoadUser, LoginDone, VerifyDone,
         ResetInitRefused, ResetConfirmAccepted, ChangeRefused, ChangeAccepted,
         ChangeDone, GateRefused, RouteServed, RoleDenied, DenialDone, Commit, DbError,
         ExpireJwt, ExpireReset, Deactivate
    <2>2. ASSUME NEW r \in Requests, ResetConfirmRefused(r)
          PROVE  ~db[reset[t]].active
      <3>1. /\ pc[r] = "loaded" /\ call[r] \in ConfirmCalls /\ ~snap[r].active
            /\ call[r].token = t
        BY <2>2, CallFields DEF ResetConfirmRefused, Loaded, DeleteToken, CallTypes
      <3> QED
        BY <3>1 DEF GoneEnough, CallTypes
    <2>3. ASSUME NEW r \in Requests, ResetConfirmDone(r)
          PROVE  pc[r] = "committed" /\ call[r] \in ConfirmCalls /\ call[r].token = t
      BY <2>3, CallFields DEF ResetConfirmDone, DeleteToken, CallTypes
    <2>4. ASSUME NEW r \in Requests,
                 \/ \E u \in ResetTokens, code \in Secrets : MfaResetConfirm(r, u, code)
                 \/ ResetInitDone(r)
          PROVE  t \in stale
      BY <2>4 DEF MfaResetConfirm, ResetInitDone, Pruned
    <2>5. Restart => Restarted
      BY DEF Restart, Restarted
    <2> QED
      BY <2>1, <2>2, <2>3, <2>4, <2>5
  <1>2. IInv /\ [Next]_vars =>
          \A t \in pending : t \notin pending' =>
            \/ t \in stale
            \/ \E r \in Requests : pc[r] = "committed" /\ call[r] \in ConfirmCalls
                                   /\ call[r].token = t
            \/ ~db[reset[t]].active
            \/ Restarted
    BY <1>1
  <1> QED
    BY <1>2, Invariant, PTL DEF Spec, ResetKept

-----------------------------------------------------------------------------
(* Denials are recorded *)

\* The calls that are refused, or have the record of their refusal committed.
DeniedCalls ==
    {r \in Requests : resp[r] = "denied" \/ (pc[r] = "committed" /\ call[r].kind = "hr")}

DenialsOf == [u \in Users |-> audit[u]["authz_denial"]]

\* The rows can be summed up: what makes Denials a number.
DenialsAdd == \E f \in [SUBSET Users -> Nat] : Sums(f, DenialsOf, Users)

DenialInv == IInv /\ DenialsAdd /\ Cardinality(DeniedCalls) <= Denials

LEMMA DenialsAre ==
    ASSUME NEW f \in [SUBSET Users -> Nat], Sums(f, DenialsOf, Users)
    PROVE  Denials = f[Users] /\ Denials \in Nat
  <1>1. DOMAIN DenialsOf = Users
    BY DEF DenialsOf
  <1>2. SumFunction(DenialsOf) = f[Users]
    BY <1>1, SumsAreSum, FiniteAssumption
  <1>3. Denials = f[Users]
    BY <1>2 DEF Denials, DenialsOf
  <1> QED
    BY <1>3

LEMMA DeniedCallsAreFinite ==
    /\ IsFiniteSet(DeniedCalls) /\ Cardinality(DeniedCalls) \in Nat
    /\ \A D \in SUBSET DeniedCalls : Cardinality(D) <= Cardinality(DeniedCalls)
  <1>1. DeniedCalls \in SUBSET Requests
    BY DEF DeniedCalls
  <1>2. IsFiniteSet(DeniedCalls)
    BY <1>1, FS_Subset, FiniteAssumption
  <1> QED
    BY <1>2, FS_Subset, FS_CardinalityType

\* A refusal is committed before it is answered.
LEMMA DeniedCallsStep ==
    ASSUME IInv, [Next]_vars, NEW q \in Requests, q \in DeniedCalls', q \notin DeniedCalls
    PROVE  Commit(q) /\ call[q].kind = "hr"
  <1> USE DEF IInv, TypeOK, CallTypes, DeniedCalls
  <1>1. CASE Ask(q) \/ Serve(q) \/ DbError(q)
    BY <1>1 DEF Ask, Serve, Reply, Call, Resume, CallWithJwt, DeleteToken,
       Login, VerifyMfa, MfaResetInit, MfaResetConfirm, ChangeOwnPassword,
       ReadCurrentUser, HrRoute, LoadUser, LoginDone, VerifyDone, ResetInitRefused,
       ResetInitDone, ResetConfirmRefused, ResetConfirmAccepted, ResetConfirmDone,
       ChangeRefused, ChangeAccepted, ChangeDone, GateRefused, RouteServed,
       RoleDenied, DenialDone, Commit, DbError
  <1>2. CASE Restart
    BY <1>2 DEF Restart
  <1> QED
    BY <1>1, <1>2, OthersWait DEF Next, vars, ExpireJwt, ExpireReset, Deactivate

LEMMA DenialInvStep == DenialInv /\ [Next]_vars => DenialInv'
  <1> SUFFICES ASSUME DenialInv, [Next]_vars PROVE DenialInv'
    OBVIOUS
  <1> USE DEF DenialInv
  <1>0. IInv'
    BY IInvStep
  <1>1. PICK f \in [SUBSET Users -> Nat] : Sums(f, DenialsOf, Users)
    BY DEF DenialsAdd
  <1>2. ASSUME NEW r \in Requests, Commit(r), call[r].kind = "hr"
        PROVE  DenialsAdd' /\ (Cardinality(DeniedCalls) <= Denials)'
    <2> DEFINE u == call[r].user
               g == [s \in SUBSET Users |-> IF u \in s THEN f[s] + 1 ELSE f[s]]
    <2>1. u \in Users /\ audit \in [Users -> [Recorded -> Nat]] /\ "authz_denial" \in Recorded
      BY <1>2, CallFields DEF Commit, IInv, TypeOK, StoreTypes, CallTypes, Recorded
    <2>2. audit' = [audit EXCEPT ![u]["authz_denial"] = @ + 1]
      BY <1>2 DEF Commit, RecordAudit, WhatIsRecorded
    <2>3. DenialsOf \in [Users -> Nat] /\ DenialsOf' = [DenialsOf EXCEPT ![u] = @ + 1]
      <3>1. ASSUME NEW v \in Users
            PROVE  /\ audit[v]["authz_denial"] \in Nat
                   /\ audit'[v]["authz_denial"] = IF v = u THEN audit[v]["authz_denial"] + 1
                                                  ELSE audit[v]["authz_denial"]
        BY <2>1, <2>2
      <3>2. DenialsOf \in [Users -> Nat]
        BY <3>1 DEF DenialsOf
      <3> QED
        BY <2>1, <3>1, <3>2 DEF DenialsOf
    <2>4. Sums(g, DenialsOf', Users)
      <3>1. \A y \in Users : Sums([s \in SUBSET Users |-> IF y \in s THEN f[s] + 1 ELSE f[s]],
                                  [DenialsOf EXCEPT ![y] = @ + 1], Users)
        <4> HIDE DEF DenialInv
        <4> QED
          BY <1>1, <2>3, SumsAfterIncrement
      <3> QED
        BY <2>1, <2>3, <3>1
    <2>5. g \in [SUBSET Users -> Nat] /\ g[Users] = f[Users] + 1
      BY <2>1
    <2>6. DenialsAdd'
      BY <2>4, <2>5 DEF DenialsAdd, Sums
    <2>7. Denials' = f[Users] + 1
      <3>1. DOMAIN DenialsOf' = Users
        BY DEF DenialsOf
      <3>2. SumFunction(DenialsOf') = g[Users]
        BY <2>4, <3>1, SumsAreSum, FiniteAssumption
      <3> QED
        BY <2>5, <3>2 DEF Denials, DenialsOf
    <2>8. DeniedCalls' \subseteq DeniedCalls \cup {r}
      <3>1. ASSUME NEW q \in Requests, Commit(q)
            PROVE  q = r
        BY <1>2, <3>1 DEF Commit, Resume, IInv, TypeOK, CallTypes
      <3>2. \A q \in DeniedCalls' : q \in Requests
        BY DEF DeniedCalls
      <3> QED
        BY <3>1, <3>2, DeniedCallsStep
    <2>9. Cardinality(DeniedCalls') <= Cardinality(DeniedCalls) + 1
      <3>1. /\ IsFiniteSet(DeniedCalls \cup {r})
            /\ Cardinality(DeniedCalls \cup {r}) <= Cardinality(DeniedCalls) + 1
        <4> HIDE DEF DenialInv
        <4>1. Cardinality(DeniedCalls \cup {r})
                = IF r \in DeniedCalls THEN Cardinality(DeniedCalls) ELSE Cardinality(DeniedCalls) + 1
          BY FS_AddElement, DeniedCallsAreFinite
        <4>2. IsFiniteSet(DeniedCalls \cup {r})
          BY FS_AddElement, DeniedCallsAreFinite
        <4> QED
          BY <4>1, <4>2, DeniedCallsAreFinite
      <3>2. /\ Cardinality(DeniedCalls') <= Cardinality(DeniedCalls \cup {r})
            /\ Cardinality(DeniedCalls') \in Nat
            /\ Cardinality(DeniedCalls \cup {r}) \in Nat
        BY <2>8, <3>1, FS_Subset, FS_CardinalityType
      <3> QED
        BY <3>1, <3>2, DeniedCallsAreFinite
    <2>10. Cardinality(DeniedCalls') \in Nat /\ f[Users] \in Nat /\ Denials = f[Users]
      <3>1. IsFiniteSet(DeniedCalls')
        BY <2>8, FS_AddElement, FS_Subset, DeniedCallsAreFinite
      <3> QED
        BY <1>1, <3>1, FS_CardinalityType, DenialsAre
    <2> QED
      BY <2>6, <2>7, <2>9, <2>10, DeniedCallsAreFinite
  <1>3. CASE ~\E r \in Requests : Commit(r) /\ call[r].kind = "hr"
    <2>1. DenialsOf' = DenialsOf /\ Denials' = Denials
      <3>1. ASSUME NEW u \in Users
            PROVE  audit'[u]["authz_denial"] = audit[u]["authz_denial"]
        <4>1. CASE audit' = audit
          BY <4>1
        <4>2. ASSUME NEW r \in Requests, Commit(r)
              PROVE  audit'[u]["authz_denial"] = audit[u]["authz_denial"]
          <5>1. /\ call[r].user \in Users /\ audit \in [Users -> [Recorded -> Nat]]
                /\ WhatIsRecorded(call[r]) \in {"mfa_secret_encrypted", "password_hash"}
            BY <1>3, <4>2, CallFields DEF Commit, WhatIsRecorded, IInv, TypeOK,
                                          StoreTypes, CallTypes
          <5>2. audit' = [audit EXCEPT ![call[r].user][WhatIsRecorded(call[r])] = @ + 1]
            BY <4>2 DEF Commit, RecordAudit
          <5> QED
            BY <5>1, <5>2 DEF Recorded
        <4> QED
          BY <4>1, <4>2, Writers
      <3> QED
        BY <3>1 DEF DenialsOf, Denials
    <2>2. DeniedCalls' \subseteq DeniedCalls
      BY <1>3, DeniedCallsStep DEF DeniedCalls
    <2>3. /\ Cardinality(DeniedCalls') <= Cardinality(DeniedCalls)
          /\ Cardinality(DeniedCalls') \in Nat
      BY <2>2, FS_Subset, FS_CardinalityType, DeniedCallsAreFinite
    <2>4. Denials \in Nat
      BY <1>1, DenialsAre
    <2> QED
      <3>1. DenialsAdd'
        BY <1>1, <2>1 DEF DenialsAdd
      <3>2. Cardinality(DeniedCalls') <= Denials'
        BY <2>1, <2>3, <2>4, DeniedCallsAreFinite
      <3> QED
        BY <1>0, <3>1, <3>2
  <1> QED
    BY <1>0, <1>2, <1>3

\* Every refusal of require_role that is answered has its row in the audit log,
\* however many are refused side by side and whatever fails in between.
THEOREM DenialsRecorded == Spec => []DeniedIsRecorded
  <1>1. Init => DenialInv
    <2> SUFFICES ASSUME Init PROVE DenialInv
      OBVIOUS
    <2> DEFINE zeros == [s \in SUBSET Users |-> 0]
    <2>1. \A u \in Users : DenialsOf[u] = 0
      BY DEF Init, DenialsOf, Recorded
    <2>2. Sums(zeros, DenialsOf, Users) /\ zeros \in [SUBSET Users -> Nat]
      BY <2>1, SumsOfZeros
    <2>3. DeniedCalls = {}
      BY DEF Init, DeniedCalls
    <2>4. Denials = 0
      BY <2>2, DenialsAre
    <2> QED
      <3>1. DenialsAdd
        BY <2>2 DEF DenialsAdd
      <3>2. Cardinality(DeniedCalls) = 0
        BY <2>3, FS_EmptySet
      <3> QED
        BY <2>4, <3>1, <3>2, InitIInv DEF DenialInv
  <1>2. ASSUME DenialInv
        PROVE  DeniedIsRecorded
    <2> DEFINE D == {r \in Requests : resp[r] = "denied"}
    <2>1. D \in SUBSET DeniedCalls
      BY DEF DeniedCalls
    <2>2. PICK f \in [SUBSET Users -> Nat] : Sums(f, DenialsOf, Users)
      BY <1>2 DEF DenialInv, DenialsAdd
    <2>3. Denials \in Nat
      BY <2>2, DenialsAre
    <2>4. Cardinality(D) \in Nat /\ Cardinality(D) <= Cardinality(DeniedCalls)
      BY <2>1, FS_Subset, FS_CardinalityType, DeniedCallsAreFinite
    <2> QED
      BY <1>2, <2>3, <2>4, DeniedCallsAreFinite DEF DenialInv, DeniedIsRecorded
  <1> QED
    BY <1>1, <1>2, DenialInvStep, PTL DEF Spec

-----------------------------------------------------------------------------
\* For the refinement: an authenticator's secret is the one an account started
\* with or one made for that account, and a denial is decided on a row that has
\* no pending password change.
OwnSecrets ==
    \A u \in Users : db[u].secret = u
                       \/ (db[u].secret \in ResetTokens /\ reset[db[u].secret] = u)

DeniedByRole ==
    \A r \in Requests : pc[r] = "commit" /\ call[r].kind = "hr" =>
                          ~snap[r].must_change /\ call[r].user \notin HrAdmins

LEMMA SecretsStep ==
    ASSUME TypeOK, OwnSecrets, [Next]_vars
    PROVE  OwnSecrets'
  <1> SUFFICES ASSUME NEW u \in Users
               PROVE  \/ db'[u].secret = u
                      \/ db'[u].secret \in ResetTokens /\ reset'[db'[u].secret] = u
    BY DEF OwnSecrets
  <1>1. ASSUME NEW t \in ResetTokens, reset[t] = u
        PROVE  reset'[t] = u
    BY <1>1, Writers DEF ResetInitDone, TypeOK, StoreTypes
  <1>2. CASE db'[u].secret = db[u].secret
    BY <1>1, <1>2 DEF OwnSecrets
  <1>3. ASSUME NEW r \in Requests, Commit(r), call[r].user = u, db'[u].secret # db[u].secret
        PROVE  db'[u].secret \in ResetTokens /\ reset[db'[u].secret] = u
    <2>1. /\ db'[u] = Update(r, u) /\ db[u] \in User
          /\ call[r].kind \in {"reset_confirm", "change", "hr"} /\ call[r] \in Calls
      BY <1>3 DEF Commit, TypeOK, StoreTypes, CallTypes
    <2>2. call[r].kind = "reset_confirm" /\ db'[u].secret = call[r].token
      BY <1>3, <2>1 DEF Update, User
    <2> QED
      BY <1>3, <2>1, <2>2, CallFields DEF TypeOK, CallTypes
  <1>4. Deactivate(u) => db'[u].secret = db[u].secret
    BY DEF Deactivate, TypeOK, StoreTypes, User
  <1> QED
    BY <1>1, <1>2, <1>3, <1>4, RowStep

LEMMA DenialStep ==
    ASSUME TypeOK, DeniedByRole, [Next]_vars
    PROVE  DeniedByRole'
  <1> SUFFICES ASSUME NEW r \in Requests, pc'[r] = "commit", call'[r].kind = "hr"
               PROVE  ~snap'[r].must_change /\ call'[r].user \notin HrAdmins
    BY DEF DeniedByRole
  <1> USE DEF TypeOK, CallTypes
  <1>1. CASE pc[r] = "commit" /\ call'[r] = call[r] /\ snap'[r] = snap[r]
    BY <1>1 DEF DeniedByRole
  <1>2. CASE pc[r] = "loaded" /\ call'[r] = call[r] /\ snap'[r] = snap[r]
    <2>1. RoleDenied(r)
      <3>1. CASE Ask(r) \/ Serve(r) \/ DbError(r)
        BY <1>2, <3>1 DEF Ask, Serve, Reply, Call, Resume, CallWithJwt, DeleteToken, Loaded,
           PassesGate, ByGate, Login, VerifyMfa, MfaResetInit, MfaResetConfirm,
           ChangeOwnPassword, ReadCurrentUser, HrRoute, LoadUser, LoginDone, VerifyDone,
           ResetInitRefused, ResetInitDone, ResetConfirmRefused, ResetConfirmAccepted,
           ResetConfirmDone, ChangeRefused, ChangeAccepted, ChangeDone, GateRefused,
           RouteServed, RoleDenied, DenialDone, Commit, DbError
      <3>2. CASE Restart
        BY <3>2 DEF Restart
      <3> QED
        BY <1>2, <3>1, <3>2, OthersWait DEF Next, vars, ExpireJwt, ExpireReset, Deactivate
    <2> QED
      BY <1>2, <2>1 DEF RoleDenied, PassesGate
  <1> QED
    BY <1>1, <1>2, HandlerStep DEF LoadUser

RefinementInv == IInv /\ OwnSecrets /\ DeniedByRole

LEMMA RefinementInvariant == Spec => []RefinementInv
  <1>1. Init => RefinementInv
    BY InitIInv DEF Init, RefinementInv, OwnSecrets, DeniedByRole
  <1>2. RefinementInv /\ [Next]_vars => RefinementInv'
    BY IInvStep, SecretsStep, DenialStep DEF RefinementInv, IInv
  <1> QED
    BY <1>1, <1>2, PTL DEF Spec

Levels == [u \in Users |-> LevelOf(u)]

\* A commit is the recorded act it was asked for.
LEMMA CommitIsAct ==
    ASSUME RefinementInv, NEW r \in Requests, Commit(r)
    PROVE  Promised!Next
  <1> DEFINE u == call[r].user
  <1> USE DEF RefinementInv, IInv, TypeOK, StoreTypes, CallTypes
  <1>1. /\ call[r] \in Calls /\ u \in Users
        /\ call[r].kind \in {"reset_confirm", "change", "hr"}
        /\ pc[r] = "commit" /\ snap[r] \in User /\ db[u] \in User
    BY CallFields DEF Commit
  <1>2. /\ db' = [db EXCEPT ![u] = Update(r, u)]
        /\ audit' = [audit EXCEPT ![u][WhatIsRecorded(call[r])] = @ + 1]
        /\ jwt' = jwt
    BY DEF Commit, RecordAudit
  <1>3. Levels' = Levels
    BY <1>2 DEF Levels, LevelOf, Issued
  <1>4. /\ call[r].kind = "reset_confirm" => Levels[u] # "nobody"
        /\ call[r].kind \in {"change", "hr"} => Levels[u] = "full"
    BY <1>1 DEF CallsInOrder, Presented, Levels, LevelOf
  <1>5. CASE call[r].kind = "reset_confirm"
    <2>1. call[r].token \in ResetTokens /\ reset[call[r].token] = u
      BY <1>1, <1>5, CallFields
    <2>2. \A v \in Users \ {u} : db[v].secret # call[r].token
      BY <2>1 DEF OwnSecrets
    <2>3. db' = [db EXCEPT ![u].secret = call[r].token]
      BY <1>1, <1>2, <1>5 DEF Update
    <2>4. Promised!Enroll(u, call[r].token)
      BY <1>2, <1>3, <1>4, <1>5, <2>2, <2>3
      DEF Promised!Enroll, Promised!Unshared, Promised!Recorded, WhatIsRecorded, Levels
    <2> QED
      BY <1>1, <2>1, <2>4 DEF Promised!Next, Secrets
  <1>6. CASE call[r].kind = "change"
    <2>1. db' = [db EXCEPT ![u].password = call[r].new, ![u].must_change = FALSE]
      BY <1>1, <1>2, <1>6 DEF Update
    <2>2. Promised!SetPassword(u, call[r].new)
      BY <1>2, <1>3, <1>4, <1>6, <2>1
      DEF Promised!SetPassword, Promised!Recorded, WhatIsRecorded, Levels
    <2> QED
      BY <1>1, <1>6, <2>2, CallFields DEF Promised!Next
  <1>7. CASE call[r].kind = "hr"
    <2>1. db' = db
      BY <1>1, <1>2, <1>7 DEF Update
    <2>2. ~db[u].must_change /\ u \notin HrAdmins
      BY <1>1, <1>7 DEF DeniedByRole, FreshEnough
    <2>3. Promised!Deny(u)
      BY <1>2, <1>3, <1>4, <1>7, <2>1, <2>2
      DEF Promised!Deny, Promised!Recorded, WhatIsRecorded, Levels
    <2> QED
      BY <1>1, <2>3 DEF Promised!Next
  <1> QED
    BY <1>1, <1>5, <1>6, <1>7

\* A token handed out is a step up, or nothing new.
LEMMA TokenIsClimb ==
    ASSUME RefinementInv, NEW r \in Requests,
           LoginDone(r) \/ VerifyDone(r) \/ ResetConfirmDone(r)
    PROVE  Promised!Next \/ UNCHANGED <<db, Levels, audit>>
  <1> USE DEF RefinementInv, IInv, TypeOK, StoreTypes, CallTypes
  <1>1. PICK u \in Users :
           /\ UNCHANGED <<db, audit>>
           /\ \/ UNCHANGED jwt
              \/ Issue("mfa_pending", u)
              \/ Issue("access", u) /\ Issued("mfa_pending", u)
    <2>1. call[r] \in Calls
      BY DEF LoginDone, VerifyDone, ResetConfirmDone, Loaded
    <2>2. call[r].user \in Users
      BY <2>1, CallFields
    <2> QED
      BY <2>1, <2>2
      DEF LoginDone, VerifyDone, ResetConfirmDone, Loaded, CallsInOrder, Presented
  <1>2. CASE UNCHANGED jwt
    BY <1>1, <1>2 DEF Levels, LevelOf, Issued
  <1>3. ASSUME NEW type \in Types, Issue(type, u), type = "access" => Issued("mfa_pending", u)
        PROVE  Promised!Next \/ UNCHANGED <<db, Levels, audit>>
    <2>1. \A ty \in Types, v \in Users : Issued(ty, v)' <=> Issued(ty, v) \/ (ty = type /\ v = u)
      BY <1>1, <1>3 DEF Issue, Issued
    <2>2. \A v \in Users \ {u} : LevelOf(v)' = LevelOf(v)
      BY <2>1 DEF LevelOf, Types
    <2>3. CASE LevelOf(u)' = LevelOf(u)
      BY <1>1, <2>2, <2>3 DEF Levels
    <2>4. CASE LevelOf(u)' # LevelOf(u)
      <3>1. \/ LevelOf(u) = "nobody" /\ LevelOf(u)' = "password"
            \/ LevelOf(u) = "password" /\ LevelOf(u)' = "full"
        BY <1>1, <1>3, <2>1, <2>4 DEF LevelOf, Types
      <3>2. \A l : LevelOf(u)' = l => Levels' = [Levels EXCEPT ![u] = l]
        <4>1. ASSUME NEW l, LevelOf(u)' = l
              PROVE  \A v \in Users : LevelOf(v)' = IF v = u THEN l ELSE LevelOf(v)
          BY <2>2, <4>1 DEF LevelOf
        <4>2. ASSUME NEW l, LevelOf(u)' = l
              PROVE  Levels' = [Levels EXCEPT ![u] = l]
          <5>1. Levels' = [v \in Users |-> IF v = u THEN l ELSE LevelOf(v)]
            BY <4>1, <4>2 DEF Levels
          <5>2. [v \in Users |-> IF v = u THEN l ELSE LevelOf(v)] = [Levels EXCEPT ![u] = l]
            BY DEF Levels
          <5> QED
            BY <5>1, <5>2
        <4> QED
          BY <4>2
      <3>3. \/ Promised!Climb(u, "nobody", "password")
            \/ Promised!Climb(u, "password", "full")
        BY <1>1, <3>1, <3>2 DEF Promised!Climb, Levels
      <3> QED
        BY <1>1, <3>3 DEF Promised!Next
    <2> QED
      BY <2>3, <2>4
  <1> QED
    BY <1>1, <1>2, <1>3 DEF Types

\* The endpoints implement the promise of Credentials: whatever overlaps, fails
\* or expires, an account signs in step by step, and what it has on record is
\* one act at a time, each by an account that may do it.
THEOREM CredentialsAreImplemented == Spec => ImplementsCredentials
  <1>1. Init => Promised!Init
    <2> SUFFICES ASSUME Init PROVE Promised!Init
      OBVIOUS
    <2>1. db \in [Users -> User] /\ \A u \in Users : db[u].secret = u
      BY InitIInv DEF IInv, TypeOK, StoreTypes, Init
    <2>2. [u \in Users |-> LevelOf(u)] = [u \in Users |-> "nobody"]
      BY DEF Init, LevelOf, Issued, Types
    <2>3. audit = [u \in Users |->
                     [f \in {"password_hash", "mfa_secret_encrypted", "authz_denial"} |-> 0]]
      BY DEF Init, Recorded
    <2> QED
      BY <2>1, <2>2, <2>3 DEF Promised!Init, Promised!Unshared, Promised!Account, User
  <1>2. ASSUME RefinementInv, [Next]_vars PROVE [Promised!Next]_(Promised!vars)
    <2>1. CASE UNCHANGED <<db, Levels, audit>>
      BY <2>1 DEF Promised!vars, Levels
    <2>2. ASSUME NEW u \in Users, Deactivate(u) PROVE Promised!Next
      <3>1. Levels' = Levels
        BY <2>2 DEF Deactivate, Levels, LevelOf, Issued
      <3> QED
        BY <2>2, <3>1 DEF Deactivate, Promised!Deactivate, Promised!Next, Levels
    <2>3. ASSUME NEW k \in Types \X Users, ExpireJwt(k) PROVE Levels' = Levels
      <3>1. \A type \in Types, u \in Users : Issued(type, u)' <=> Issued(type, u)
        BY <1>2, <2>3 DEF ExpireJwt, Issued, RefinementInv, IInv, TypeOK, StoreTypes
      <3> QED
        BY <3>1 DEF Levels, LevelOf, Types
    <2>4. UNCHANGED jwt => Levels' = Levels
      BY DEF Levels, LevelOf, Issued
    <2>5. \/ \E u \in Users : Deactivate(u)
          \/ \E r \in Requests : Commit(r)
          \/ \E r \in Requests : LoginDone(r) \/ VerifyDone(r) \/ ResetConfirmDone(r)
          \/ UNCHANGED <<db, audit>> /\ (UNCHANGED jwt \/ \E k \in Types \X Users : ExpireJwt(k))
      BY <1>2, Writers
    <2> QED
      BY <1>2, <2>1, <2>2, <2>3, <2>4, <2>5, CommitIsAct, TokenIsClimb DEF Promised!vars, Levels
  <1>3. RefinementInv /\ [Next]_vars => [Promised!Next]_(Promised!vars)
    BY <1>2
  <1> QED
    BY <1>1, <1>3, RefinementInvariant, PTL DEF Spec, ImplementsCredentials, Promised!Spec

=============================================================================
