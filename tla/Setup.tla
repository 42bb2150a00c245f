------------------------------- MODULE Setup -------------------------------
(***************************************************************************)
(* The first-run setup wizard (backend/app/auth/setup.py, with the three   *)
(* endpoints of backend/app/auth/router.py that call it).                  *)
(*                                                                         *)
(* One asyncio process keeps the pending setups in a dict, and the         *)
(* accounts are rows of a database table.  A handler runs without          *)
(* interruption up to its next await, so each handler is cut at its        *)
(* awaits: a query is one step of the database, and what the coroutine     *)
(* does with the result is a later step.  In between, any other handler,   *)
(* the account script, the clock and a restart of the process may run.     *)
(*                                                                         *)
(* A request slot r serves one call at a time.  pc[r] is                   *)
(*   "idle"       no call, resp[r] is the outcome of the last one          *)
(*   "count"      awaiting the SELECT that counts the users table          *)
(*   "open"       the count was zero, the coroutine is not yet resumed     *)
(*   "closed"     the count was positive, likewise                         *)
(*   "commit"     awaiting INSERT INTO users; COMMIT                       *)
(*   "committed"  the commit succeeded, the coroutine is not yet resumed   *)
(***************************************************************************)
EXTENDS Integers, Sequences, FiniteSets

CONSTANTS
    Requests,   \* slots for calls served concurrently
    Tokens,     \* setup tokens (uuid4) the process can hand out
    Profiles,   \* [username, email] pairs a person can enter
    CliSecret,  \* stands for every TOTP secret made by scripts/create_user
    NoSetup,    \* setup[t]: the token was never handed out
    NoCall,     \* call[r]: the slot serves no call
    TTL,        \* SETUP_TOKEN_TTL_SECONDS, in ticks
    MaxTime     \* bound on the clock

ASSUME TimeAssumption == TTL \in Nat /\ MaxTime \in Nat
ASSUME TokenAssumption == CliSecret \notin Tokens /\ IsFiniteSet(Tokens)

VARIABLES
    users,    \* rows of the users table in insertion order
    setup,    \* token -> its _PendingSetup object, which nothing mutates
    pending,  \* keys of _pending_setups
    now,      \* time.time()
    pc, call, resp

vars == <<users, setup, pending, now, pc, call, resp>>

-----------------------------------------------------------------------------
\* The mfa_secret of a pending setup is named by its token: both are fresh.
Secrets == Tokens \cup {CliSecret}

\* One users row: the columns that a constraint or a property reads.
User == [profile : Profiles, secret : Secrets]

PendingSetup == [profile : Profiles, expires_at : Int]

\* good: the submitted code matches the mfa_secret of the submitted token.
ConfirmCalls == [kind : {"confirm"}, token : Tokens, good : BOOLEAN]

\* long: the password has at least MIN_PASSWORD_LENGTH characters.
Calls == [kind : {"status"}]
           \cup [kind : {"init"}, profile : Profiles, long : BOOLEAN]
           \cup ConfirmCalls

ASSUME NoneAssumption == NoSetup \notin PendingSetup /\ NoCall \notin Calls

\* What a handler ends with: a status code, the body of setup-status, or an
\* exception nothing catches (the client sees 500).
Outcomes == {"none", "required", "not_required", "200", "204", "400", "404",
             "410", "key_error", "integrity_error", "db_error"}

TypeOK ==
    /\ users \in Seq(User)
    /\ setup \in [Tokens -> PendingSetup \cup {NoSetup}]
    /\ pending \in SUBSET Tokens
    /\ \A t \in pending : setup[t] # NoSetup
    /\ \A t \in Tokens : setup[t] # NoSetup => setup[t].expires_at >= TTL
    /\ now \in 0..MaxTime
    /\ pc \in [Requests -> {"idle", "count", "open", "closed", "commit", "committed"}]
    /\ call \in [Requests -> Calls \cup {NoCall}]
    /\ resp \in [Requests -> Outcomes]
    /\ \A r \in Requests :
         /\ pc[r] # "idle" => call[r] \in Calls
         /\ pc[r] \in {"commit", "committed"} => call[r] \in ConfirmCalls
         /\ call[r] \in ConfirmCalls => setup[call[r].token] # NoSetup

Init ==
    /\ users = <<>>
    /\ setup = [t \in Tokens |-> NoSetup]
    /\ pending = {}
    /\ now = 0
    /\ pc = [r \in Requests |-> "idle"]
    /\ call = [r \in Requests |-> NoCall]
    /\ resp = [r \in Requests |-> "none"]

-----------------------------------------------------------------------------
\* The unique constraints on users.username and users.email.
NeverClashes(p, q) == FALSE  \* mutant: the constraints are missing
Clashes(p, q) == p.username = q.username \/ p.email = q.email

Taken(p) == \E i \in 1..Len(users) : Clashes(users[i].profile, p)

Expired(t) == setup[t].expires_at < now

\* _prune_expired()
Pruned == {t \in pending : ~Expired(t)}

Call(r, c) ==
    /\ pc' = [pc EXCEPT ![r] = "count"]
    /\ call' = [call EXCEPT ![r] = c]
    /\ resp' = [resp EXCEPT ![r] = "none"]

Reply(r, outcome) ==
    /\ pc' = [pc EXCEPT ![r] = "idle"]
    /\ call' = [call EXCEPT ![r] = NoCall]
    /\ resp' = [resp EXCEPT ![r] = outcome]

Resume(r, at) ==
    /\ pc' = [pc EXCEPT ![r] = at]
    /\ UNCHANGED <<call, resp>>

-----------------------------------------------------------------------------
\* GET /auth/setup-status, up to the await.
SetupStatus(r) ==
    /\ pc[r] = "idle"
    /\ Call(r, [kind |-> "status"])
    /\ UNCHANGED <<users, setup, pending, now>>

\* Bound: no more calls of setup/init than there are tokens to hand out.
TokenLeft ==
    Cardinality({t \in Tokens : setup[t] = NoSetup})
      > Cardinality({r \in Requests : pc[r] # "idle" /\ call[r].kind = "init"})

\* POST /auth/setup/init, up to the await.
SetupInit(r, p, long) ==
    /\ pc[r] = "idle"
    /\ TokenLeft
    /\ Call(r, [kind |-> "init", profile |-> p, long |-> long])
    /\ UNCHANGED <<users, setup, pending, now>>

\* POST /auth/setup/confirm, up to the await: a token that is unknown or
\* expired is refused before any query.
SetupConfirm(r, t, good) ==
    /\ pc[r] = "idle"
    /\ pending' = Pruned
    /\ IF t \in Pruned
         THEN Call(r, [kind |-> "confirm", token |-> t, good |-> good])
         ELSE Reply(r, "404")
    /\ UNCHANGED <<users, setup, now>>

\* is_setup_required: the database counts the rows.
SetupRequired == users = <<>>

CountUsers(r) ==
    /\ pc[r] = "count"
    /\ Resume(r, IF SetupRequired THEN "open" ELSE "closed")
    /\ UNCHANGED <<users, setup, pending, now>>

-----------------------------------------------------------------------------
StatusDone(r) ==
    /\ pc[r] \in {"open", "closed"}
    /\ call[r].kind = "status"
    /\ Reply(r, IF pc[r] = "open" THEN "required" ELSE "not_required")
    /\ UNCHANGED <<users, setup, pending, now>>

ExpiresAtReversed == now - TTL  \* mutant
ExpiresAt == now + TTL

\* start_setup after its await: refused once an account exists, then refused
\* for a short password, ...
InitRefused(r) ==
    /\ pc[r] \in {"open", "closed"}
    /\ call[r].kind = "init"
    /\ \/ pc[r] = "closed" /\ Reply(r, "410")
       \/ pc[r] = "open" /\ ~call[r].long /\ Reply(r, "400")
    /\ UNCHANGED <<users, setup, pending, now>>

\* ... and otherwise a fresh token is handed out.
InitDone(r) ==
    /\ pc[r] = "open"
    /\ call[r].kind = "init"
    /\ call[r].long
    /\ \E t \in Tokens :
         /\ setup[t] = NoSetup
         /\ setup' = [setup EXCEPT ![t] = [profile |-> call[r].profile,
                                           expires_at |-> ExpiresAt]]
         /\ pending' = Pruned \cup {t}
    /\ Reply(r, "200")
    /\ UNCHANGED <<users, now>>

-----------------------------------------------------------------------------
\* del _pending_setups[t]: a KeyError takes the place of the outcome when
\* another handler removed the token during the await.
DeleteToken(r, t, outcome) ==
    /\ pending' = pending \ {t}
    /\ Reply(r, IF t \in pending THEN outcome ELSE "key_error")

\* Mutant: complete_setup does not look at the count again.
ConfirmUnrefused(r) ==
    /\ pc[r] = "closed"
    /\ call[r].kind = "confirm"
    /\ Resume(r, IF call[r].good THEN "commit" ELSE "open")
    /\ UNCHANGED <<users, setup, pending, now>>

\* complete_setup after the count: an account exists by now.
ConfirmRefused(r) ==
    /\ pc[r] = "closed"
    /\ call[r].kind = "confirm"
    /\ DeleteToken(r, call[r].token, "410")
    /\ UNCHANGED <<users, setup, now>>

WrongCodeForgets(r) == DeleteToken(r, call[r].token, "400")  \* mutant

\* A wrong code keeps the token.
WrongCode(r) ==
    /\ Reply(r, "400")
    /\ UNCHANGED pending

ConfirmWrongCode(r) ==
    /\ pc[r] = "open"
    /\ call[r].kind = "confirm"
    /\ ~call[r].good
    /\ WrongCode(r)
    /\ UNCHANGED <<users, setup, now>>

ConfirmRightCode(r) ==
    /\ pc[r] = "open"
    /\ call[r].kind = "confirm"
    /\ call[r].good
    /\ Resume(r, "commit")
    /\ UNCHANGED <<users, setup, pending, now>>

\* The row complete_setup adds comes from the captured _PendingSetup object.
NewUser(t) == [profile |-> setup[t].profile, secret |-> t]

InsertClashIgnored(r) == Reply(r, "204")  \* mutant: IntegrityError swallowed

\* The INSERT meets a unique constraint: IntegrityError leaves the handler.
InsertClash(r) == Reply(r, "integrity_error")

InsertUser(r) ==
    /\ pc[r] = "commit"
    /\ LET row == NewUser(call[r].token) IN
         IF Taken(row.profile)
           THEN InsertClash(r) /\ UNCHANGED users
           ELSE Resume(r, "committed") /\ users' = Append(users, row)
    /\ UNCHANGED <<setup, pending, now>>

ConfirmDone(r) ==
    /\ pc[r] = "committed"
    /\ DeleteToken(r, call[r].token, "204")
    /\ UNCHANGED <<users, setup, now>>

-----------------------------------------------------------------------------
\* The connection to the database fails: the handler ends in an exception, and
\* a commit whose acknowledgement was lost keeps its row.
DbError(r) ==
    /\ pc[r] \in {"count", "commit", "committed"}
    /\ Reply(r, "db_error")
    /\ UNCHANGED <<users, setup, pending, now>>

\* python -m scripts.create_user, a process of its own: it inserts whatever
\* the table's constraints admit.
CreateUser(p) ==
    /\ ~Taken(p)
    /\ users' = Append(users, [profile |-> p, secret |-> CliSecret])
    /\ UNCHANGED <<setup, pending, now, pc, call, resp>>

\* The process restarts: the dict is lost with every call in flight.
Restart ==
    /\ pending' = {}
    /\ pc' = [r \in Requests |-> "idle"]
    /\ call' = [r \in Requests |-> NoCall]
    /\ resp' = [r \in Requests |-> "none"]
    /\ UNCHANGED <<users, setup, now>>

Tick ==
    /\ now < MaxTime
    /\ now' = now + 1
    /\ UNCHANGED <<users, setup, pending, pc, call, resp>>

-----------------------------------------------------------------------------
\* The steps that are the server's own once a call has been made.
Serve(r) ==
    \/ CountUsers(r)
    \/ StatusDone(r)
    \/ InitRefused(r)
    \/ InitDone(r)
    \/ ConfirmRefused(r)
    \/ ConfirmWrongCode(r)
    \/ ConfirmRightCode(r)
    \/ InsertUser(r)
    \/ ConfirmDone(r)

Ask(r) ==
    \/ SetupStatus(r)
    \/ \E p \in Profiles, long \in BOOLEAN : SetupInit(r, p, long)
    \/ \E t \in Tokens, good \in BOOLEAN : SetupConfirm(r, t, good)

Next ==
    \/ \E r \in Requests : Ask(r) \/ Serve(r) \/ DbError(r)
    \/ \E p \in Profiles : CreateUser(p)
    \/ Restart
    \/ Tick

Spec == Init /\ [][Next]_vars

-----------------------------------------------------------------------------
(* Properties *)

\* A setup token makes at most one account, however often and however
\* concurrently it is confirmed, and the account is the one the person entered
\* at setup/init.  complete_setup takes no lock: what holds it is that the
\* rows of one token clash with each other in the users table.
OneAccountPerToken ==
    \A i \in 1..Len(users) : users[i].secret \in Tokens =>
      /\ setup[users[i].secret] # NoSetup
      /\ users[i].profile = setup[users[i].secret].profile
      /\ \A j \in 1..Len(users) : users[j].secret = users[i].secret => i = j

\* Past the point where a count has seen an account and no confirm is left that
\* counted before it.
Confirming(r) == pc[r] \in {"open", "commit"} /\ call[r].kind = "confirm"

Closed == users # <<>> /\ \A r \in Requests : ~Confirming(r)

WizardAccounts == {users[i].secret : i \in 1..Len(users)} \cap Tokens

\* From then on the wizard stays closed for good: no call, whatever is pending
\* or in flight, ever makes another wizard account, and a restart does not
\* reopen it.
ClosedIsFinal == [][Closed => Closed' /\ WizardAccounts' = WizardAccounts]_vars

\* What a client was told stays true: 204 means the account of the confirmed
\* token exists, 410 and not_required mean some account exists, a 400 on
\* confirm leaves the token to be tried again.
AnswersAreTrue ==
    [][\A r \in Requests : pc[r] # "idle" /\ pc'[r] = "idle" =>
         /\ resp'[r] = "204" => call[r].token \in WizardAccounts'
         /\ resp'[r] \in {"410", "not_required"} => users' # <<>>
         /\ resp'[r] = "400" => pending' = pending]_vars

Restarted == /\ pending' = {}
             /\ \A r \in Requests : pc'[r] = "idle" /\ resp'[r] = "none"

\* A setup in progress is lost only for a reason the person can be told: it
\* expired, an account exists, or the process restarted.  In particular no
\* other call, wrong code or failed commit takes the token away.
PendingKept ==
    [][\A t \in pending : t \notin pending' =>
         Expired(t) \/ users # <<>> \/ Restarted]_vars

\* tests/test_setup.py:129, "one-time-first-run means exactly one winner":
\* two wizards run side by side end in a single account.
OneWinner == Cardinality(WizardAccounts) <= 1

\* The docstring of complete_setup (setup.py:100-106) says it creates the
\* account, or raises one of three exceptions.  So once the account is
\* committed, the last statement, del _pending_setups[setup_token], finds the
\* token it deletes: otherwise it raises a KeyError and the person whose account
\* was just made is answered 500.
CreatedIsAnswered ==
    \A r \in Requests : pc[r] = "committed" => call[r].token \in pending

=============================================================================
