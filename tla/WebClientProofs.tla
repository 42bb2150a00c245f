--------------------------- MODULE WebClientProofs ---------------------------
(***************************************************************************)
(* Proofs about the session of a tab, for any accounts and tasks.           *)
(*                                                                         *)
(* The answers of the backend come late but stay true: a password change    *)
(* that is not pending is not pending later either.  What can become false  *)
(* is whose answer it is, which is why the flag of the client is shown to   *)
(* be right as long as nobody else signs in while a change is under way.    *)
(***************************************************************************)
EXTENDS WebClient, TLAPS

\* The screen whose task a function is.
Shows(fn, screen) ==
    CASE fn = "login" -> screen = "login"
      [] fn \in {"verify", "init", "confirm", "me verified"} -> screen = "mfa"
      [] fn \in {"change", "me changed"} -> screen = "change"
      [] fn = "me home" -> screen = "home"
      [] fn = "data" -> screen = "app"

\* What an answer says of a pending change is still so.
IsTrue(t) ==
    t.res = "ok" =>
      /\ t.fn \in {"verify", "confirm"} /\ ~t.must => ~mustDb[t.who]
      /\ t.fn = "change" => t.sent # None /\ ~mustDb[t.sent]

TaskOK(t) ==
    /\ t \in Task
    /\ t.fn \in {"login", "verify", "init", "confirm"} => t.who # None
    /\ t.live => Shows(t.fn, page)
    /\ IsTrue(t)

TasksAre(ts) ==
    /\ ts = [s \in Slots |-> ts[s]]
    /\ \A s \in Slots : ts[s] # None => TaskOK(ts[s])

TabOK ==
    /\ mustDb \in [Accounts -> BOOLEAN]
    /\ token \in Accounts \cup {None} /\ user \in Accounts \cup {None}
    /\ pending \in Accounts \cup {None} /\ reset \in Accounts \cup {None}
    /\ must_change \in BOOLEAN
    /\ page \in Screens \cup {"blank"}
    /\ nav \in {"none", "user", "logout"}
    /\ error \in {"none", "screen", "backend"}
    /\ reset # None => page = "mfa"

IInv == TabOK /\ TasksAre(tasks)

-----------------------------------------------------------------------------
USE NoneAssumption

LEMMA TaskFields ==
    ASSUME NEW t \in Task
    PROVE  /\ t # None /\ t.fn \in Submits \cup Loads
           /\ t.who \in Accounts \cup {None} /\ t.sent \in Accounts \cup {None}
           /\ t.res \in {"awaited", "ok", "401", "error"}
           /\ t.must \in BOOLEAN /\ t.live \in BOOLEAN
  BY DEF Task

\* A pending change of password is made, and none becomes pending.
Falls ==
    /\ mustDb' \in [Accounts -> BOOLEAN]
    /\ \A a \in Accounts : mustDb'[a] => mustDb[a]

LEMMA MustFalls ==
    ASSUME IInv, [Next]_vars
    PROVE  Falls
  <1>1. CASE mustDb' = mustDb
    BY <1>1 DEF Falls, IInv, TabOK
  <1>2. ASSUME NEW s \in Slots, ChangePassword(s)
        PROVE  Falls
    BY <1>2 DEF ChangePassword, Falls, IInv, TabOK
  <1>3. CASE Act
    BY <1>1, <1>3 DEF Act, SubmitLogin, VerifyMfa, InitMfaReset, ConfirmMfaReset, SubmitMfa,
                      SubmitPassword, LoadData, CancelReset, SignOut, Visit, Reload, Send
  <1>4. CASE Continue
    BY <1>1, <1>4 DEF Continue, ReachLogin, LoginUnreachable, Unauthorized, Failed, LoggedIn,
                      Verified, ResetBegun, PasswordChanged, UserLoaded, DataLoaded
  <1>5. ASSUME NEW a \in Accounts, ChangePasswordElsewhere(a)
        PROVE  Falls
    BY <1>5 DEF ChangePasswordElsewhere, Falls, IInv, TabOK
  <1>6. CASE Backend
    BY <1>1, <1>2, <1>6, <1>5 DEF Backend, Refuse, SignIn, Load
  <1> QED
    BY <1>1, <1>3, <1>4, <1>6 DEF Next, vars

\* A task that is left alone stays right.
LEMMA TaskStays ==
    ASSUME Falls, NEW t, TaskOK(t), page' = page \/ ~t.live
    PROVE  TaskOK(t)'
  <1>1. t \in Task /\ t.who \in Accounts \cup {None} /\ t.sent \in Accounts \cup {None}
    BY TaskFields DEF TaskOK
  <1>2. IsTrue(t)'
    BY <1>1 DEF TaskOK, IsTrue, Falls
  <1> QED
    BY <1>1, <1>2 DEF TaskOK

LEMMA TasksFrom ==
    ASSUME tasks' = [s \in Slots |-> tasks'[s]],
           \A s \in Slots : \A t : t = tasks'[s] /\ t # None => TaskOK(t)'
    PROVE  TasksAre(tasks)'
  BY DEF TasksAre, TaskOK, IsTrue

LEMMA OneTaskChanges ==
    ASSUME IInv, Falls, NEW s \in Slots, NEW u, tasks' = [tasks EXCEPT ![s] = u],
           page' = page, u # None => TaskOK(u)'
    PROVE  TasksAre(tasks)'
  <1>1. tasks' = [q \in Slots |-> tasks'[q]]
    BY DEF IInv, TasksAre
  <1>2. ASSUME NEW q \in Slots, NEW t, t = tasks'[q], t # None
        PROVE  TaskOK(t)'
    <2>1. CASE q = s
      BY <1>2, <2>1 DEF IInv, TasksAre
    <2>2. CASE q # s
      <3>1. t = tasks[q]
        BY <1>2, <2>2 DEF IInv, TasksAre
      <3>2. TaskOK(t)
        BY <1>2, <3>1 DEF IInv, TasksAre
      <3> QED
        BY <3>2, TaskStays
    <2> QED
      BY <2>1, <2>2
  <1> QED
    BY <1>1, <1>2, TasksFrom

LEMMA TakenAre ==
    ASSUME IInv, NEW s \in Slots, NEW ts, ts = Taken(s)
    PROVE  TasksAre(ts)
  BY DEF IInv, TasksAre, Taken

LEMMA TasksStay ==
    ASSUME Falls, NEW ts, TasksAre(ts), tasks' = ts, page' = page
    PROVE  TasksAre(tasks)'
  <1>1. tasks' = [s \in Slots |-> tasks'[s]]
    BY DEF TasksAre
  <1>2. \A s \in Slots : \A t : t = tasks'[s] /\ t # None => TaskOK(t)'
    BY TaskStays DEF TasksAre
  <1> QED
    BY <1>1, <1>2, TasksFrom

\* A task that begins.
LEMMA TaskBegins ==
    ASSUME NEW fn \in Submits \cup Loads, NEW who \in Accounts \cup {None},
           NEW sent \in Accounts \cup {None}, NEW t,
           \/ t = NewTask(fn, who, sent) /\ Shows(fn, page')
           \/ \E live \in BOOLEAN : /\ t = [NewTask(fn, who, sent) EXCEPT !.live = live]
                                    /\ live => Shows(fn, page'),
           fn \in {"login", "verify", "init", "confirm"} => who # None
    PROVE  TaskOK(t)'
  <1>1. /\ t.fn = fn /\ t.who = who /\ t.sent = sent /\ t.res = "awaited"
        /\ t \in Task /\ (t.live => Shows(fn, page'))
    <2>1. CASE t = NewTask(fn, who, sent) /\ Shows(fn, page')
      BY <2>1 DEF NewTask, Task
    <2>2. ASSUME NEW live \in BOOLEAN, t = [NewTask(fn, who, sent) EXCEPT !.live = live],
                 live => Shows(fn, page')
          PROVE  /\ t.fn = fn /\ t.who = who /\ t.sent = sent /\ t.res = "awaited"
                 /\ t \in Task /\ (t.live => Shows(fn, page'))
      <3>1. t.live = live
        BY <2>2 DEF NewTask
      <3> QED
        BY <2>2, <3>1 DEF NewTask, Task
    <2> QED
      BY <2>1, <2>2
  <1> QED
    BY <1>1 DEF TaskOK, IsTrue, Shows

-----------------------------------------------------------------------------
\* A screen comes up.
LEMMA ShowTasks ==
    ASSUME Falls, NEW screen \in Screens, NEW ts, TasksAre(ts), Show(screen, ts),
           token' \in Accounts \cup {None}
    PROVE  TasksAre(tasks)'
  <1>1. page' = screen
    BY DEF Show
  <1>2. \A q \in Slots : ts[q] # None => ts[q] \in Task
    BY DEF TasksAre, TaskOK
  <1>3. Detached(ts) = [q \in Slots |-> Detached(ts)[q]]
    BY DEF Detached
  <1>4. ASSUME NEW q \in Slots, NEW t, t = Detached(ts)[q], t # None
        PROVE  TaskOK(t)'
    <2>1. PICK v : v = ts[q]
      OBVIOUS
    <2>2. v # None /\ t = [v EXCEPT !.live = FALSE]
      BY <1>4, <2>1 DEF Detached
    <2>3. TaskOK(v) /\ v \in Task
      BY <2>1, <2>2 DEF TasksAre, TaskOK
    <2>4. /\ t \in Task /\ ~t.live /\ t.fn = v.fn /\ t.who = v.who /\ t.sent = v.sent
          /\ t.res = v.res /\ t.must = v.must
      BY <2>2, <2>3 DEF Task
    <2>5. TaskOK(t)
      BY <2>3, <2>4 DEF TaskOK, IsTrue
    <2> QED
      BY <2>4, <2>5, TaskStays
  <1>5. CASE tasks' = Detached(ts)
    <2>1. tasks' = [s \in Slots |-> tasks'[s]]
      BY <1>3, <1>5
    <2>2. \A s \in Slots : \A t : t = tasks'[s] /\ t # None => TaskOK(t)'
      BY <1>4, <1>5
    <2> QED
      BY <2>1, <2>2, TasksFrom
  <1>6. ASSUME NEW s \in Slots, screen = "home",
               tasks' = [Detached(ts) EXCEPT ![s] = NewTask("me home", None, token')]
        PROVE  TasksAre(tasks)'
    <2>1. tasks' = [q \in Slots |-> tasks'[q]]
      BY <1>3, <1>6
    <2>2. ASSUME NEW t, t = tasks'[s]
          PROVE  TaskOK(t)'
      <3>1. t = NewTask("me home", None, token')
        BY <1>3, <1>6, <2>2
      <3>2. /\ t.fn = "me home" /\ t.who = None /\ t.sent = token' /\ t.res = "awaited"
            /\ t.live = TRUE /\ t \in Task
        BY <3>1 DEF NewTask, Task, Loads
      <3> QED
        BY <1>1, <1>6, <3>2 DEF TaskOK, IsTrue, Shows
    <2>3. \A q \in Slots : q # s => tasks'[q] = Detached(ts)[q]
      BY <1>3, <1>6
    <2>4. \A q \in Slots : \A t : t = tasks'[q] /\ t # None => TaskOK(t)'
      BY <1>4, <2>2, <2>3
    <2> QED
      BY <2>1, <2>4, TasksFrom
  <1> QED
    BY <1>5, <1>6 DEF Show

\* What is left of a navigation: the screen, its error and the guard of /login.
Arrived ==
    /\ page' \in Screens \cup {"blank"} /\ nav' \in {"none", "user", "logout"}
    /\ error' \in {"none", "screen", "backend"}
    /\ reset' \in Accounts \cup {None} /\ (reset' # None => page' = "mfa")
    /\ TasksAre(tasks)'

LEMMA ShowArrives ==
    ASSUME Falls, NEW screen \in Screens, NEW ts, TasksAre(ts), Show(screen, ts),
           token' \in Accounts \cup {None}
    PROVE  Arrived
  BY ShowTasks DEF Show, Arrived

LEMMA NavigateArrives ==
    ASSUME IInv, Falls, NEW screen \in Screens, NEW ts, TasksAre(ts),
           NEW err, err \in {"none", "screen", "backend"}, NEW by \in {"user", "logout"},
           Navigate(screen, ts, err, by), token' \in Accounts \cup {None}
    PROVE  Arrived
  <1>1. PICK target : target = Guarded(screen, token', must_change')
    OBVIOUS
  <1>2. target \in Screens
    BY <1>1 DEF Guarded, Screens
  <1>3. CASE target = page \/ target = "login"
    <2>1. /\ nav' \in {"none", "user", "logout"} /\ error' = err /\ tasks' = ts
          /\ page' = page /\ reset' = reset
      BY <1>1, <1>3 DEF Navigate
    <2>2. TasksAre(tasks)'
      BY <2>1, TasksStay
    <2> QED
      BY <2>1, <2>2 DEF Arrived, IInv, TabOK
  <1>4. CASE ~(target = page \/ target = "login")
    <2>1. Show(target, ts)
      BY <1>1, <1>4 DEF Navigate
    <2> QED
      BY <1>2, <2>1, ShowArrives
  <1> QED
    BY <1>3, <1>4

-----------------------------------------------------------------------------
\* A button sends a request.
LEMMA SendKeeps ==
    ASSUME IInv, Falls, NEW s \in Slots, NEW fn \in Submits \cup Loads,
           NEW who \in Accounts \cup {None}, Send(s, fn, who),
           error' \in {"none", "screen", "backend"}, Shows(fn, page),
           fn \in {"login", "verify", "init", "confirm"} => who # None
    PROVE  IInv'
  <1>1. PICK u : u = NewTask(fn, who, token)
    OBVIOUS
  <1>2. /\ tasks' = [tasks EXCEPT ![s] = u]
        /\ UNCHANGED <<mustDb, token, must_change, user, pending, page, nav, reset>>
    BY <1>1 DEF Send, session
  <1>3. token \in Accounts \cup {None}
    BY DEF IInv, TabOK
  <1>4. TaskOK(u)'
    BY <1>1, <1>2, <1>3, TaskBegins
  <1>5. TasksAre(tasks)'
    BY <1>2, <1>4, OneTaskChanges
  <1> QED
    BY <1>2, <1>5 DEF IInv, TabOK

LEMMA ActKeeps ==
    ASSUME IInv, Falls, Act
    PROVE  IInv'
  <1>1. ASSUME NEW s \in Slots, NEW a \in Accounts, SubmitLogin(s, a)
        PROVE  IInv'
    BY <1>1, SendKeeps DEF SubmitLogin, Submits, Shows
  <1>2. ASSUME NEW s \in Slots, NEW fn \in {"verify", "init", "confirm"},
               NEW who \in Accounts \cup {None}, SubmitMfa(s, fn, who)
        PROVE  IInv'
    <2>1. CASE who # None
      BY <1>2, <2>1, SendKeeps DEF SubmitMfa, Submits, Shows
    <2>2. CASE who = None
      <3>1. /\ UNCHANGED <<mustDb, token, must_change, user, pending, page, nav, reset, tasks>>
            /\ error' = "screen"
        BY <1>2, <2>2 DEF SubmitMfa, session
      <3>2. TasksAre(tasks)'
        BY <3>1, TasksStay DEF IInv
      <3> QED
        BY <3>1, <3>2 DEF IInv, TabOK
    <2> QED
      BY <2>1, <2>2
  <1>3. ASSUME NEW s \in Slots, VerifyMfa(s) \/ InitMfaReset(s) \/ ConfirmMfaReset(s)
        PROVE  IInv'
    <2>1. PICK p, q : p = pending /\ q = reset
      OBVIOUS
    <2>2. p \in Accounts \cup {None} /\ q \in Accounts \cup {None}
      BY <2>1 DEF IInv, TabOK
    <2>3. SubmitMfa(s, "verify", p) \/ SubmitMfa(s, "init", p) \/ SubmitMfa(s, "confirm", q)
      BY <1>3, <2>1 DEF VerifyMfa, InitMfaReset, ConfirmMfaReset
    <2> QED
      BY <1>2, <2>2, <2>3
  <1>4. ASSUME NEW s \in Slots, SubmitPassword(s)
        PROVE  IInv'
    BY <1>4, SendKeeps DEF SubmitPassword, Submits, Shows
  <1>5. ASSUME NEW s \in Slots, LoadData(s)
        PROVE  IInv'
    BY <1>5, SendKeeps DEF LoadData, Loads, Shows, IInv, TabOK
  <1>6. CASE CancelReset
    <2>1. TasksAre(tasks)'
      BY <1>6, TasksStay DEF CancelReset, IInv
    <2> QED
      BY <1>6, <2>1 DEF CancelReset, session, IInv, TabOK
  <1>7. CASE SignOut
    <2>1. PICK ts, e : ts = tasks /\ e = error
      OBVIOUS
    <2>2. /\ Navigate("login", ts, e, "logout") /\ token' = None /\ must_change' = FALSE
          /\ user' = None /\ UNCHANGED <<mustDb, pending>>
      BY <1>7, <2>1 DEF SignOut, Logout
    <2>3. TasksAre(ts) /\ e \in {"none", "screen", "backend"} /\ "login" \in Screens
      BY <2>1 DEF IInv, TabOK, TasksAre, TaskOK, IsTrue, Screens
    <2>4. Arrived
      BY <2>2, <2>3, NavigateArrives
    <2> QED
      BY <2>2, <2>4 DEF Arrived, IInv, TabOK
  <1>8. ASSUME NEW scr \in Screens, Visit(scr)
        PROVE  IInv'
    <2>1. PICK ts, e : ts = tasks /\ e = error
      OBVIOUS
    <2>2. /\ Navigate(scr, ts, e, "user")
          /\ UNCHANGED <<mustDb, token, must_change, user, pending>>
      BY <1>8, <2>1 DEF Visit, session
    <2>3. TasksAre(ts) /\ e \in {"none", "screen", "backend"} /\ token' \in Accounts \cup {None}
      BY <2>1, <2>2 DEF IInv, TabOK, TasksAre, TaskOK, IsTrue
    <2>4. Arrived
      BY <2>2, <2>3, NavigateArrives
    <2> QED
      BY <2>2, <2>4 DEF Arrived, IInv, TabOK
  <1>9. ASSUME NEW scr \in Screens, Reload(scr)
        PROVE  IInv'
    <2>1. PICK target, ts : /\ target = Guarded(scr, token, must_change)
                            /\ ts = [s \in Slots |-> None]
      OBVIOUS
    <2>2. /\ UNCHANGED <<mustDb, token, must_change>> /\ user' = None /\ pending' = None
          /\ IF target = "login"
               THEN /\ page' = "blank" /\ nav' = "user" /\ error' = "none" /\ reset' = None
                    /\ tasks' = ts
               ELSE Show(target, ts)
      BY <1>9, <2>1 DEF Reload
    <2>3. TasksAre(ts) /\ target \in Screens /\ token' \in Accounts \cup {None}
      BY <2>1, <2>2 DEF TasksAre, Guarded, Screens, IInv, TabOK
    <2>4. Arrived
      <3>1. CASE target = "login"
        <4>1. TasksAre(tasks)'
          BY <2>1, <2>2, <3>1 DEF TasksAre
        <4> QED
          BY <2>2, <3>1, <4>1 DEF Arrived
      <3>2. CASE target # "login"
        BY <2>2, <2>3, <3>2, ShowArrives
      <3> QED
        BY <3>1, <3>2
    <2> QED
      BY <2>2, <2>4 DEF Arrived, IInv, TabOK
  <1> QED
    BY <1>1, <1>3, <1>4, <1>5, <1>6, <1>7, <1>8, <1>9 DEF Act

-----------------------------------------------------------------------------
\* The backend answers, and what it says is so.
LEMMA AnswerKeeps ==
    ASSUME IInv, Falls, NEW s \in Slots, tasks[s] # None,
           NEW res \in {"ok", "401", "error"}, NEW must \in BOOLEAN, Answer(s, res, must),
           res = "ok" /\ tasks[s].fn \in {"verify", "confirm"} /\ ~must =>
             ~mustDb'[tasks[s].who],
           res = "ok" /\ tasks[s].fn = "change" =>
             tasks[s].sent # None /\ ~mustDb'[tasks[s].sent]
    PROVE  IInv'
  <1>1. PICK t, u : t = tasks[s] /\ u = [t EXCEPT !.res = res, !.must = must]
    OBVIOUS
  <1>2. /\ tasks' = [tasks EXCEPT ![s] = u]
        /\ UNCHANGED <<token, must_change, user, pending, page, nav, error, reset>>
    BY <1>1 DEF Answer, session
  <1>3. TaskOK(t) /\ t \in Task
    BY <1>1 DEF IInv, TasksAre, TaskOK
  <1>4. /\ u \in Task /\ u.fn = t.fn /\ u.who = t.who /\ u.sent = t.sent
        /\ u.res = res /\ u.must = must /\ u.live = t.live
    BY <1>1, <1>3 DEF Task
  <1>5. TaskOK(u)'
    BY <1>1, <1>2, <1>3, <1>4 DEF TaskOK, IsTrue
  <1>6. TasksAre(tasks)'
    BY <1>2, <1>5, OneTaskChanges
  <1> QED
    BY <1>2, <1>6 DEF IInv, TabOK, Falls

LEMMA BackendKeeps ==
    ASSUME IInv, Falls, Backend
    PROVE  IInv'
  <1>1. ASSUME NEW s \in Slots, Refuse(s)
        PROVE  IInv'
    BY <1>1, AnswerKeeps DEF Refuse
  <1>2. ASSUME NEW s \in Slots, SignIn(s)
        PROVE  IInv'
    <2>1. PICK must : must = mustDb[tasks[s].who]
      OBVIOUS
    <2>2. tasks[s].who \in Accounts
      BY <1>2, TaskFields DEF SignIn, IInv, TasksAre, TaskOK
    <2>3. must \in BOOLEAN
      BY <2>1, <2>2 DEF IInv, TabOK
    <2>4. /\ Answer(s, "ok", must) /\ mustDb' = mustDb /\ tasks[s] # None
          /\ tasks[s].fn # "change"
      BY <1>2, <2>1 DEF SignIn
    <2> QED
      BY <2>1, <2>3, <2>4, AnswerKeeps
  <1>3. ASSUME NEW s \in Slots, ChangePassword(s)
        PROVE  IInv'
    <2>1. /\ tasks[s] # None /\ tasks[s].fn = "change" /\ tasks[s].sent # None
          /\ Answer(s, "ok", FALSE) \/ Answer(s, "error", FALSE)
      BY <1>3 DEF ChangePassword
    <2>2. tasks[s].sent \in Accounts
      BY <2>1, TaskFields DEF IInv, TasksAre, TaskOK
    <2>3. ~mustDb'[tasks[s].sent]
      BY <1>3, <2>2 DEF ChangePassword, IInv, TabOK
    <2> QED
      BY <2>1, <2>3, AnswerKeeps
  <1>4. ASSUME NEW s \in Slots, Load(s)
        PROVE  IInv'
    <2>1. /\ tasks[s] # None /\ tasks[s].fn \in Loads /\ Answer(s, "ok", FALSE)
      BY <1>4 DEF Load
    <2>2. tasks[s].fn \notin {"verify", "confirm", "change"}
      BY <2>1 DEF Loads
    <2> QED
      BY <2>1, <2>2, AnswerKeeps
  <1>5. ASSUME NEW a \in Accounts, ChangePasswordElsewhere(a)
        PROVE  IInv'
    <2>1. UNCHANGED <<token, must_change, user, pending, page, nav, error, reset, tasks>>
      BY <1>5 DEF ChangePasswordElsewhere, session
    <2>2. TasksAre(tasks)'
      BY <2>1, TasksStay DEF IInv
    <2> QED
      BY <2>1, <2>2 DEF IInv, TabOK, Falls
  <1> QED
    BY <1>1, <1>2, <1>3, <1>4, <1>5 DEF Backend

-----------------------------------------------------------------------------
\* The tab goes on with an answer.
LEMMA ContinueKeeps ==
    ASSUME IInv, Falls, Continue
    PROVE  IInv'
  <1>1. CASE ReachLogin
    <2>1. PICK ts : ts = tasks
      OBVIOUS
    <2>2. Show("login", ts) /\ UNCHANGED <<mustDb, token, must_change, user, pending>>
      BY <1>1, <2>1 DEF ReachLogin, session
    <2>3. TasksAre(ts) /\ "login" \in Screens /\ token' \in Accounts \cup {None}
      BY <2>1, <2>2 DEF IInv, TabOK, Screens, TasksAre, TaskOK, IsTrue
    <2>4. Arrived
      BY <2>2, <2>3, ShowArrives
    <2> QED
      BY <2>2, <2>4 DEF Arrived, IInv, TabOK
  <1>2. CASE LoginUnreachable
    <2>1. TasksAre(tasks)'
      BY <1>2, TasksStay DEF LoginUnreachable, IInv
    <2> QED
      BY <1>2, <2>1 DEF LoginUnreachable, session, IInv, TabOK
  <1>3. ASSUME NEW s \in Slots, NEW t, t = tasks[s], Unauthorized(s)
        PROVE  IInv'
    <2>1. PICK ts, e : ts = Taken(s) /\ e = Caught(t)
      OBVIOUS
    <2>2. /\ Navigate("login", ts, e, "logout") /\ token' = None /\ must_change' = FALSE
          /\ user' = None /\ UNCHANGED <<mustDb, pending>>
      BY <1>3, <2>1 DEF Unauthorized, Logout
    <2>3. TasksAre(ts) /\ e \in {"none", "screen", "backend"} /\ "login" \in Screens
      BY <2>1, TakenAre DEF IInv, TabOK, Caught, Screens
    <2>4. Arrived
      BY <2>2, <2>3, NavigateArrives
    <2> QED
      BY <2>2, <2>4 DEF Arrived, IInv, TabOK
  <1>4. ASSUME NEW s \in Slots, tasks' = Taken(s), page' = page
        PROVE  TasksAre(tasks)'
    <2>1. PICK ts : ts = Taken(s)
      OBVIOUS
    <2> QED
      BY <1>4, <2>1, TakenAre, TasksStay
  <1>5. ASSUME NEW s \in Slots, Failed(s)
        PROVE  IInv'
    <2>1. /\ tasks' = Taken(s) /\ error' = Caught(tasks[s])
          /\ UNCHANGED <<mustDb, token, must_change, user, pending, page, nav, reset>>
      BY <1>5 DEF Failed, session
    <2>2. TasksAre(tasks)'
      BY <1>4, <2>1
    <2> QED
      BY <2>1, <2>2 DEF Caught, IInv, TabOK
  <1>6. ASSUME NEW s \in Slots, NEW t, t = tasks[s], t # None
        PROVE  /\ TaskOK(t) /\ t \in Task /\ t.who \in Accounts \cup {None}
               /\ t.sent \in Accounts \cup {None} /\ t.must \in BOOLEAN /\ t.live \in BOOLEAN
    BY <1>6, TaskFields DEF IInv, TasksAre, TaskOK
  <1>7. ASSUME NEW s \in Slots, LoggedIn(s)
        PROVE  IInv'
    <2>1. PICK ts, e, t : ts = Taken(s) /\ e = error /\ t = tasks[s]
      OBVIOUS
    <2>2. /\ Navigate("mfa", ts, e, "user") /\ pending' = t.who /\ t # None
          /\ UNCHANGED <<mustDb, token, must_change, user>>
      BY <1>7, <2>1 DEF LoggedIn, Answered, session
    <2>3. /\ TasksAre(ts) /\ e \in {"none", "screen", "backend"} /\ "mfa" \in Screens
          /\ token' \in Accounts \cup {None}
      BY <2>1, <2>2, TakenAre DEF IInv, TabOK, Screens
    <2>4. Arrived
      BY <2>2, <2>3, NavigateArrives
    <2>5. t.who \in Accounts \cup {None}
      BY <1>6, <2>1, <2>2
    <2> QED
      BY <2>2, <2>4, <2>5 DEF Arrived, IInv, TabOK
  <1>8. ASSUME NEW s \in Slots, Verified(s)
        PROVE  IInv'
    <2>1. PICK ts, e, t : ts = Taken(s) /\ e = error /\ t = tasks[s]
      OBVIOUS
    <2>2. /\ t # None /\ t.fn \in {"verify", "confirm"}
          /\ pending' = None /\ token' = t.who /\ must_change' = t.must
          /\ UNCHANGED <<mustDb, user>>
      BY <1>8, <2>1 DEF Verified, Answered
    <2>3. TaskOK(t) /\ t.who \in Accounts \cup {None} /\ t.must \in BOOLEAN /\ t.live \in BOOLEAN
      BY <1>6, <2>1, <2>2
    <2>4. CASE t.must
      <3>1. Navigate("change", ts, e, "user")
        BY <1>8, <2>1, <2>4 DEF Verified
      <3>2. TasksAre(ts) /\ e \in {"none", "screen", "backend"} /\ "change" \in Screens
        BY <2>1, TakenAre DEF IInv, TabOK, Screens
      <3>3. token' \in Accounts \cup {None}
        BY <2>2, <2>3
      <3>4. Arrived
        BY <3>1, <3>2, <3>3, NavigateArrives
      <3> QED
        BY <2>2, <2>3, <3>4 DEF Arrived, IInv, TabOK
    <2>5. CASE ~t.must
      <3>1. PICK u : u = [NewTask("me verified", None, t.who) EXCEPT !.live = t.live]
        OBVIOUS
      <3>2. tasks' = [tasks EXCEPT ![s] = u] /\ UNCHANGED <<page, nav, error, reset>>
        BY <1>8, <2>1, <2>2, <2>5, <3>1 DEF Verified
      <3>3. t.live => Shows("me verified", page')
        BY <2>2, <2>3, <3>2 DEF TaskOK, Shows
      <3>4. \E live \in BOOLEAN :
              /\ u = [NewTask("me verified", None, t.who) EXCEPT !.live = live]
              /\ live => Shows("me verified", page')
        BY <2>3, <3>1, <3>3
      <3>5. "me verified" \in Submits \cup Loads /\ None \in Accounts \cup {None}
        BY DEF Loads
      <3>6. TaskOK(u)'
        BY <2>3, <3>4, <3>5, TaskBegins
      <3>7. TasksAre(tasks)'
        BY <3>2, <3>6, OneTaskChanges
      <3> QED
        BY <2>2, <2>3, <3>2, <3>7 DEF IInv, TabOK
    <2> QED
      BY <2>4, <2>5
  <1>9. ASSUME NEW s \in Slots, ResetBegun(s)
        PROVE  IInv'
    <2>1. PICK t : t = tasks[s]
      OBVIOUS
    <2>2. /\ t # None /\ t.fn = "init" /\ tasks' = Taken(s)
          /\ reset' = (IF t.live THEN t.who ELSE reset) \/ reset' = reset
          /\ error' = error \/ error' = "screen"
          /\ UNCHANGED <<mustDb, token, must_change, user, pending, page, nav>>
      BY <1>9, <2>1 DEF ResetBegun, Answered, session
    <2>3. TaskOK(t) /\ t.who \in Accounts \cup {None}
      BY <1>6, <2>1, <2>2
    <2>4. t.live => page = "mfa"
      BY <2>2, <2>3 DEF TaskOK, Shows
    <2>5. TasksAre(tasks)'
      BY <1>4, <2>2
    <2> QED
      BY <2>2, <2>3, <2>4, <2>5 DEF IInv, TabOK
  <1>10. ASSUME NEW s \in Slots, PasswordChanged(s)
         PROVE  IInv'
    <2>1. PICK t, k : t = tasks[s] /\ k = token
      OBVIOUS
    <2>2. PICK u : u = [NewTask("me changed", None, k) EXCEPT !.live = t.live]
      OBVIOUS
    <2>3. /\ t # None /\ t.fn = "change" /\ must_change' = FALSE
          /\ tasks' = [tasks EXCEPT ![s] = u]
          /\ UNCHANGED <<mustDb, token, user, pending, page, nav, error, reset>>
      BY <1>10, <2>1, <2>2 DEF PasswordChanged, Answered
    <2>4. TaskOK(t) /\ t.live \in BOOLEAN /\ k \in Accounts \cup {None}
      BY <1>6, <2>1, <2>3 DEF IInv, TabOK
    <2>5. t.live => Shows("me changed", page')
      BY <2>3, <2>4 DEF TaskOK, Shows
    <2>6. \E live \in BOOLEAN :
            /\ u = [NewTask("me changed", None, k) EXCEPT !.live = live]
            /\ live => Shows("me changed", page')
      BY <2>2, <2>4, <2>5
    <2>7. "me changed" \in Submits \cup Loads /\ None \in Accounts \cup {None}
      BY DEF Loads
    <2>8. TaskOK(u)'
      BY <2>4, <2>6, <2>7, TaskBegins
    <2>9. TasksAre(tasks)'
      BY <2>3, <2>8, OneTaskChanges
    <2> QED
      BY <2>3, <2>9 DEF IInv, TabOK
  <1>11. ASSUME NEW s \in Slots, UserLoaded(s)
         PROVE  IInv'
    <2>1. PICK ts, e, t : ts = Taken(s) /\ e = error /\ t = tasks[s]
      OBVIOUS
    <2>2. t # None /\ user' = t.sent /\ UNCHANGED <<mustDb, token, must_change, pending>>
      BY <1>11, <2>1 DEF UserLoaded, Answered
    <2>3. t.sent \in Accounts \cup {None}
      BY <1>6, <2>1, <2>2
    <2>4. CASE t.fn = "me home"
      <3>1. tasks' = Taken(s) /\ UNCHANGED <<page, nav, error, reset>>
        BY <1>11, <2>1, <2>4 DEF UserLoaded
      <3>2. TasksAre(tasks)'
        BY <1>4, <3>1
      <3> QED
        BY <2>2, <2>3, <3>1, <3>2 DEF IInv, TabOK
    <2>5. CASE t.fn # "me home"
      <3>1. PICK scr : scr = IF t.fn = "me verified" /\ must_change THEN "change" ELSE "home"
        OBVIOUS
      <3>2. Navigate(scr, ts, e, "user")
        BY <1>11, <2>1, <2>5, <3>1 DEF UserLoaded
      <3>3. /\ TasksAre(ts) /\ e \in {"none", "screen", "backend"} /\ scr \in Screens
            /\ token' \in Accounts \cup {None}
        BY <2>1, <2>2, <3>1, TakenAre DEF IInv, TabOK, Screens
      <3>4. Arrived
        BY <3>2, <3>3, NavigateArrives
      <3> QED
        BY <2>2, <2>3, <3>4 DEF Arrived, IInv, TabOK
    <2> QED
      BY <2>4, <2>5
  <1>12. ASSUME NEW s \in Slots, DataLoaded(s)
         PROVE  IInv'
    <2>1. /\ tasks' = Taken(s)
          /\ UNCHANGED <<mustDb, token, must_change, user, pending, page, nav, error, reset>>
      BY <1>12 DEF DataLoaded, session
    <2>2. TasksAre(tasks)'
      BY <1>4, <2>1
    <2> QED
      BY <2>1, <2>2 DEF IInv, TabOK
  <1> QED
    BY <1>1, <1>2, <1>3, <1>5, <1>7, <1>8, <1>9, <1>10, <1>11, <1>12 DEF Continue

LEMMA IInvInit == Init => IInv
  <1> SUFFICES ASSUME Init PROVE IInv
    OBVIOUS
  <1>1. TasksAre(tasks)
    BY DEF Init, TasksAre
  <1> QED
    BY <1>1 DEF Init, IInv, TabOK

LEMMA IInvStep == IInv /\ [Next]_vars => IInv'
  <1> SUFFICES ASSUME IInv, [Next]_vars PROVE IInv'
    OBVIOUS
  <1>1. Falls
    BY MustFalls
  <1>2. CASE UNCHANGED vars
    <2>1. TasksAre(tasks)'
      BY <1>1, <1>2, TasksStay DEF vars, IInv
    <2> QED
      BY <1>2, <2>1 DEF vars, session, IInv, TabOK
  <1> QED
    BY <1>1, <1>2, ActKeeps, BackendKeeps, ContinueKeeps DEF Next

\* A task that is under way signs in an account that exists, its buttons belong to
\* the screen that is shown, and an answer that has come stays true.
THEOREM Invariant == Spec => []IInv
  BY IInvInit, IInvStep, PTL DEF Spec

\* The reset token is kept by the mfa screen only (mfa-verify.component.ts), and
\* every task that signs someone in knows whom.
THEOREM TypeCorrect == Spec => []TypeOK
  <1>1. IInv => TypeOK
    <2> SUFFICES ASSUME IInv PROVE TypeOK
      OBVIOUS
    <2>1. \A s \in Slots : tasks[s] # None => TaskOK(tasks[s]) /\ tasks[s] \in Task
      BY DEF IInv, TasksAre, TaskOK
    <2>2. tasks \in [Slots -> Task \cup {None}]
      BY <2>1 DEF IInv, TasksAre
    <2>3. \A s \in Slots : tasks[s] # None /\ tasks[s].fn \in {"verify", "init", "confirm"}
            => tasks[s].who # None
      BY <2>1 DEF TaskOK
    <2> QED
      BY <2>2, <2>3 DEF IInv, TabOK, TypeOK
  <1> QED
    BY <1>1, Invariant, PTL

-----------------------------------------------------------------------------
\* While an answer to a change of password is on its way, or has come and is not
\* taken up, the tab has the account that asked for it signed in, or nobody.
NobodyElseSignsIn ==
    \A s \in Slots :
      tasks[s] # None /\ tasks[s].fn = "change" /\ tasks[s].sent # None =>
        token \in {tasks[s].sent, None}

\* Whom a step signs in, and what it says of a pending change.
LEMMA FlagSteps ==
    ASSUME IInv, [Next]_vars
    PROVE  \/ token' = token /\ must_change' = must_change
           \/ token' = None
           \/ \E s \in Slots : Verified(s) \/ PasswordChanged(s)
  <1>1. CASE Act
    BY <1>1 DEF Act, SubmitLogin, VerifyMfa, InitMfaReset, ConfirmMfaReset, SubmitMfa,
                SubmitPassword, LoadData, CancelReset, SignOut, Logout, Visit, Reload, Send,
                session
  <1>2. CASE Backend
    BY <1>2 DEF Backend, Refuse, SignIn, ChangePassword, ChangePasswordElsewhere, Load,
                Answer, session
  <1>3. CASE Continue
    BY <1>3 DEF Continue, ReachLogin, LoginUnreachable, Unauthorized, Logout, Failed, LoggedIn,
                ResetBegun, UserLoaded, DataLoaded, session
  <1> QED
    BY <1>1, <1>2, <1>3 DEF Next, vars, session

LEMMA FlagStaysHonest ==
    ASSUME IInv, FlagIsHonest, NobodyElseSignsIn, [Next]_vars
    PROVE  FlagIsHonest'
  <1>1. Falls
    BY MustFalls
  <1>2. IInv'
    BY IInvStep
  <1>3. token \in Accounts \cup {None} /\ token' \in Accounts \cup {None}
    BY <1>2 DEF IInv, TabOK
  <1>4. CASE token' = token /\ must_change' = must_change
    BY <1>1, <1>3, <1>4 DEF Falls, FlagIsHonest
  <1>5. CASE token' = None
    BY <1>5 DEF FlagIsHonest
  <1>6. ASSUME NEW s \in Slots, Verified(s)
        PROVE  FlagIsHonest'
    <2>1. PICK t : t = tasks[s]
      OBVIOUS
    <2>2. /\ t # None /\ t.res = "ok" /\ t.fn \in {"verify", "confirm"}
          /\ token' = t.who /\ must_change' = t.must /\ mustDb' = mustDb
      BY <1>6, <2>1 DEF Verified, Answered
    <2>3. IsTrue(t)
      BY <2>1, <2>2 DEF IInv, TasksAre, TaskOK
    <2> QED
      BY <2>2, <2>3 DEF IsTrue, FlagIsHonest
  <1>7. ASSUME NEW s \in Slots, PasswordChanged(s)
        PROVE  FlagIsHonest'
    <2>1. PICK t : t = tasks[s]
      OBVIOUS
    <2>2. /\ t # None /\ t.res = "ok" /\ t.fn = "change"
          /\ UNCHANGED <<mustDb, token>>
      BY <1>7, <2>1 DEF PasswordChanged, Answered
    <2>3. t.sent # None /\ ~mustDb[t.sent]
      BY <2>1, <2>2 DEF IInv, TasksAre, TaskOK, IsTrue
    <2>4. token \in {t.sent, None}
      BY <2>1, <2>2, <2>3 DEF NobodyElseSignsIn
    <2> QED
      BY <2>2, <2>3, <2>4 DEF FlagIsHonest
  <1> QED
    BY <1>4, <1>5, <1>6, <1>7, FlagSteps

\* As long as nobody else signs in while a change of password is under way, the
\* tab says that no change is pending only when the backend has none pending for
\* the account signed in (auth.service.ts, changePassword and completeSession).
THEOREM FlagHonest == Spec /\ []NobodyElseSignsIn => []FlagIsHonest
  <1>1. Init => FlagIsHonest
    BY DEF Init, FlagIsHonest
  <1>2. IInv /\ FlagIsHonest /\ NobodyElseSignsIn /\ [Next]_vars => FlagIsHonest'
    BY FlagStaysHonest
  <1> QED
    BY <1>1, <1>2, Invariant, PTL DEF Spec

-----------------------------------------------------------------------------
\* Behind the guard there is a screen only for who is signed in and has no change
\* pending, as far as the tab knows.
LEMMA ShowIsGuarded ==
    ASSUME NEW scr, NEW ts, NEW err, NEW by, Navigate(scr, ts, err, by),
           page' # page, page' \in {"home", "app"}
    PROVE  token' # None /\ ~must_change'
  BY DEF Navigate, Show, Guarded

LEMMA ScreensAreGuarded ==
    ASSUME IInv, Next, page' # page, page' \in {"home", "app"}
    PROVE  token' # None /\ ~must_change' /\ mustDb' = mustDb
  <1>1. ASSUME NEW scr \in Screens, Reload(scr)
        PROVE  token' # None /\ ~must_change' /\ mustDb' = mustDb
    BY <1>1 DEF Reload, Show, Guarded
  <1>2. CASE Act
    <2>1. CASE SignOut \/ \E scr \in Screens : Visit(scr)
      BY <2>1, ShowIsGuarded DEF SignOut, Logout, Visit
    <2> QED
      BY <1>1, <1>2, <2>1 DEF Act, SubmitLogin, VerifyMfa, InitMfaReset, ConfirmMfaReset,
                              SubmitMfa, SubmitPassword, LoadData, CancelReset, Send
  <1>3. CASE Backend
    BY <1>3 DEF Backend, Refuse, SignIn, ChangePassword, ChangePasswordElsewhere, Load, Answer
  <1>4. CASE Continue
    <2>1. CASE ReachLogin
      BY <2>1 DEF ReachLogin, Show
    <2>2. ASSUME NEW s \in Slots, Unauthorized(s) \/ LoggedIn(s) \/ Verified(s) \/ UserLoaded(s)
          PROVE  token' # None /\ ~must_change' /\ mustDb' = mustDb
      BY <2>2, ShowIsGuarded DEF Unauthorized, Logout, LoggedIn, Verified, UserLoaded
    <2> QED
      BY <1>4, <2>1, <2>2 DEF Continue, LoginUnreachable, Failed, ResetBegun, PasswordChanged,
                              DataLoaded
  <1> QED
    BY <1>2, <1>3, <1>4 DEF Next

\* Under the same condition no screen behind authGuard (auth.guard.ts) comes up
\* while the backend wants the password of the account signed in changed.
THEOREM ScreensAllowed == Spec /\ []NobodyElseSignsIn => ScreensAreAllowed
  <1>1. IInv /\ FlagIsHonest' /\ [Next]_vars =>
          [page' \in {"home", "app"} /\ page' # page => token' # None /\ ~mustDb[token']]_vars
    <2> SUFFICES ASSUME IInv, FlagIsHonest', Next, page' \in {"home", "app"}, page' # page
                 PROVE  token' # None /\ ~mustDb[token']
      OBVIOUS
    <2>1. token' # None /\ ~must_change' /\ mustDb' = mustDb
      BY ScreensAreGuarded
    <2> QED
      BY <2>1 DEF FlagIsHonest
  <1> QED
    BY <1>1, Invariant, FlagHonest, PTL DEF Spec, ScreensAreAllowed

-----------------------------------------------------------------------------
\* A tab that only one account ever signs in is such a tab.
LEMMA OneAccount ==
    ASSUME \A a, b \in Accounts : a = b, IInv
    PROVE  NobodyElseSignsIn
  <1> SUFFICES ASSUME NEW s \in Slots, NEW t, t = tasks[s], t # None, t.sent # None
               PROVE  token \in {t.sent, None}
    BY DEF NobodyElseSignsIn
  <1>1. t.sent \in Accounts
    BY TaskFields DEF IInv, TasksAre, TaskOK
  <1> QED
    BY <1>1 DEF IInv, TabOK

\* A tab used with one account says that no password change is pending only when
\* none is, whichever of its answers come late (auth.service.ts).
THEOREM OneAccountFlagHonest ==
    ASSUME \A a, b \in Accounts : a = b
    PROVE  Spec => []FlagIsHonest
  <1>1. IInv => NobodyElseSignsIn
    BY OneAccount
  <1> QED
    BY <1>1, Invariant, FlagHonest, PTL

\* ... and shows it no screen behind authGuard before the change is made.
THEOREM OneAccountScreensAllowed ==
    ASSUME \A a, b \in Accounts : a = b
    PROVE  Spec => ScreensAreAllowed
  <1>1. IInv => NobodyElseSignsIn
    BY OneAccount
  <1> QED
    BY <1>1, Invariant, ScreensAllowed, PTL

=============================================================================
