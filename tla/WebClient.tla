------------------------------ MODULE WebClient ------------------------------
(***************************************************************************)
(* One browser tab of the frontend: AuthService, the interceptor, the      *)
(* guards and the screens of core/auth and features/auth.  An async        *)
(* function of the tab is a task that awaits one answer of the backend and *)
(* goes on when it comes, whatever screen is shown by then.  An access     *)
(* token, an mfa_pending token and a reset token are each modelled by the  *)
(* account they were issued to; token and must_change live in              *)
(* sessionStorage as well, and so outlive a reload.  Accounts exist, so     *)
(* the setup guard always lets /login through.                             *)
(***************************************************************************)
EXTENDS FiniteSets

CONSTANTS
    Accounts,
    Slots,   \* bound on the tasks of the tab
    None

VARIABLES
    mustDb,      \* the backend: account -> users.must_change_password
    token,       \* accessTokenSignal
    must_change, \* mustChangePasswordSignal
    pending,     \* mfaPendingToken
    user,        \* currentUserSignal
    page,        \* the screen shown: "app" is each of /employees and /org
    nav,         \* the navigation to /login that awaits its guard: who asked for it
    error,       \* the errorMessage of the screen: what it comes from
    reset,       \* resetToken of the mfa screen while it shows the QR code
    tasks        \* slot -> task, or None

session == <<token, must_change, user>>
vars == <<mustDb, session, pending, page, nav, error, reset, tasks>>

-----------------------------------------------------------------------------
Screens == {"login", "mfa", "change", "home", "app"}

Submits == {"login", "verify", "init", "confirm", "change"}

Loads == {"me verified", "me changed", "me home", "data"}

Task ==
    [fn : Submits \cup Loads,
     who : Accounts \cup {None},   \* whom it signs in
     sent : Accounts \cup {None},  \* the token the interceptor attached
     res : {"awaited", "ok", "401", "error"},
     must : BOOLEAN,               \* must_change_password of the answer
     live : BOOLEAN]               \* its screen is still the one shown

ASSUME NoneAssumption == None \notin Accounts \cup Task

TypeOK ==
    /\ mustDb \in [Accounts -> BOOLEAN]
    /\ token \in Accounts \cup {None}
    /\ must_change \in BOOLEAN
    /\ pending \in Accounts \cup {None}
    /\ user \in Accounts \cup {None}
    /\ page \in Screens \cup {"blank"}
    /\ nav \in {"none", "user", "logout"}
    /\ error \in {"none", "screen", "backend"}
    /\ reset \in Accounts \cup {None}
    /\ tasks \in [Slots -> Task \cup {None}]
    /\ reset # None => page = "mfa"
    /\ \A s \in Slots : tasks[s] # None /\ tasks[s].fn \in {"verify", "init", "confirm"}
         => tasks[s].who # None

Init ==
    /\ mustDb \in [Accounts -> BOOLEAN]
    /\ token = None /\ must_change = FALSE /\ user = None /\ pending = None
    /\ page = "blank" /\ nav = "user"
    /\ error = "none" /\ reset = None
    /\ tasks = [s \in Slots |-> None]

-----------------------------------------------------------------------------
NewTask(fn, who, sent) ==
    [fn |-> fn, who |-> who, sent |-> sent, res |-> "awaited", must |-> FALSE,
     live |-> TRUE]

\* The screen is destroyed, its tasks go on.
Detached(ts) ==
    [s \in Slots |-> IF ts[s] = None THEN None ELSE [ts[s] EXCEPT !.live = FALSE]]

\* Mutant: authGuard only asks whether someone is signed in.
GuardedByToken(screen, tok, must) ==
    IF screen \in {"home", "app", "change"} /\ tok = None THEN "login" ELSE screen

\* authGuard
Guarded(screen, tok, must) ==
    IF screen \notin {"home", "app", "change"} THEN screen
    ELSE IF tok = None THEN "login"
    ELSE IF must THEN "change" ELSE screen

\* A screen comes up; home loads the user it is to show.
Show(screen, ts) ==
    /\ page' = screen /\ nav' = "none" /\ error' = "none" /\ reset' = None
    /\ IF screen = "home" /\ user' = None
         THEN \E s \in Slots :
                /\ ts[s] = None
                /\ tasks' = [Detached(ts) EXCEPT ![s] = NewTask("me home", None, token')]
         ELSE tasks' = Detached(ts)

\* router.navigateByUrl and its guards, which for /login is awaited.  It cancels
\* the navigation before it; to the screen that is shown it does nothing else.
Navigate(screen, ts, err, by) ==
    LET target == Guarded(screen, token', must_change') IN
      IF target = page \/ target = "login"
        THEN /\ nav' = IF target = page THEN "none" ELSE by
             /\ error' = err
             /\ tasks' = ts
             /\ UNCHANGED <<page, reset>>
        ELSE Show(target, ts)

\* AuthService.logout
Logout(ts, err) ==
    /\ token' = None /\ must_change' = FALSE /\ user' = None
    /\ Navigate("login", ts, err, "logout")

-----------------------------------------------------------------------------
\* The buttons of a screen are disabled while it is submitting.
Submitting ==
    \E s \in Slots :
      tasks[s] # None /\ tasks[s].live /\ tasks[s].fn \notin {"me home", "data"}

Send(s, fn, who) ==
    /\ tasks[s] = None
    /\ tasks' = [tasks EXCEPT ![s] = NewTask(fn, who, token)]
    /\ UNCHANGED <<mustDb, session, pending, page, nav, reset>>

\* LoginComponent.onSubmit
SubmitLogin(s, a) ==
    /\ page = "login" /\ ~Submitting
    /\ Send(s, "login", a) /\ error' = "none"

\* MfaVerifyComponent.onSubmit and startMfaReset, by way of AuthService
SubmitMfa(s, fn, who) ==
    /\ page = "mfa" /\ ~Submitting
    /\ IF who # None
         THEN Send(s, fn, who) /\ error' = "none"
         ELSE error' = "screen" /\ UNCHANGED <<mustDb, session, pending, page, nav, reset, tasks>>

VerifyMfa(s) == reset = None /\ SubmitMfa(s, "verify", pending)
InitMfaReset(s) == reset = None /\ SubmitMfa(s, "init", pending)
ConfirmMfaReset(s) == reset # None /\ SubmitMfa(s, "confirm", reset)

CancelReset ==
    /\ page = "mfa" /\ reset # None /\ ~Submitting
    /\ reset' = None /\ error' = "none"
    /\ UNCHANGED <<mustDb, session, pending, page, nav, tasks>>

\* ChangePasswordComponent.onSubmit
SubmitPassword(s) ==
    /\ page = "change" /\ ~Submitting
    /\ Send(s, "change", None) /\ error' = "none"

\* The employee and organisation screens load and save with the token.
LoadData(s) ==
    /\ page = "app"
    /\ Send(s, "data", None) /\ UNCHANGED error

\* The button of the home screen
SignOut ==
    /\ page = "home"
    /\ Logout(tasks, error)
    /\ UNCHANGED <<mustDb, pending>>

\* Links and the browser's back and forward navigate in the tab ...
Visit(screen) ==
    /\ UNCHANGED <<mustDb, session, pending>>
    /\ Navigate(screen, tasks, error, "user")

\* ... and a reload or an entered address starts it again from sessionStorage.
Reload(screen) ==
    LET target == Guarded(screen, token, must_change)
        none == [s \in Slots |-> None]
    IN
      /\ UNCHANGED <<mustDb, token, must_change>>
      /\ user' = None /\ pending' = None
      /\ IF target = "login"
           THEN /\ page' = "blank" /\ nav' = "user" /\ error' = "none" /\ reset' = None
                /\ tasks' = none
           ELSE Show(target, none)

\* GET /auth/setup-status answers the guard of /login, ...
ReachLogin ==
    /\ nav # "none"
    /\ UNCHANGED <<mustDb, session, pending>>
    /\ Show("login", tasks)

\* ... or fails, and the screen stays.
LoginUnreachable ==
    /\ nav # "none"
    /\ nav' = "none"
    /\ UNCHANGED <<mustDb, session, pending, page, error, reset, tasks>>

-----------------------------------------------------------------------------
Answer(s, res, must) ==
    /\ tasks' = [tasks EXCEPT ![s].res = res, ![s].must = must]
    /\ UNCHANGED <<session, pending, page, nav, error, reset>>

\* The backend answers: Accounts has the detail of what is a 401 here, and a
\* 400, 403, 404, 500 or a lost connection is an error.
Refuse(s) ==
    /\ tasks[s] # None /\ tasks[s].res = "awaited"
    /\ \/ Answer(s, "401", FALSE)
       \/ Answer(s, "error", FALSE)
    /\ UNCHANGED mustDb

SignIn(s) ==
    /\ tasks[s] # None /\ tasks[s].res = "awaited"
    /\ tasks[s].fn \in {"login", "verify", "init", "confirm"}
    /\ Answer(s, "ok", mustDb[tasks[s].who])
    /\ UNCHANGED mustDb

\* change_password commits, and the answer may be lost.
ChangePassword(s) ==
    /\ tasks[s] # None /\ tasks[s].res = "awaited"
    /\ tasks[s].fn = "change" /\ tasks[s].sent # None
    /\ mustDb' = [mustDb EXCEPT ![tasks[s].sent] = FALSE]
    /\ Answer(s, "ok", FALSE) \/ Answer(s, "error", FALSE)

\* A change of password that the tab does not await any more, because it was
\* reloaded, or one from another browser.
ChangePasswordElsewhere(a) ==
    /\ mustDb[a]
    /\ mustDb' = [mustDb EXCEPT ![a] = FALSE]
    /\ UNCHANGED <<session, pending, page, nav, error, reset, tasks>>

\* get_current_user lets through who has no change pending.
Load(s) ==
    /\ tasks[s] # None /\ tasks[s].res = "awaited"
    /\ tasks[s].fn \in Loads /\ tasks[s].sent # None
    /\ ~mustDb[tasks[s].sent]
    /\ Answer(s, "ok", FALSE)
    /\ UNCHANGED mustDb

-----------------------------------------------------------------------------
Taken(s) == [tasks EXCEPT ![s] = None]

\* What a screen says of a failure, when it is still shown.
Caught(t) == IF t.live /\ t.fn # "me home" THEN "backend" ELSE error

Answered(s, res) == tasks[s] # None /\ tasks[s].res = res

\* authInterceptor: any 401 ends the session of the tab.
Unauthorized(s) ==
    /\ Answered(s, "401")
    /\ Logout(Taken(s), Caught(tasks[s]))
    /\ UNCHANGED <<mustDb, pending>>

Failed(s) ==
    /\ Answered(s, "error")
    /\ tasks' = Taken(s) /\ error' = Caught(tasks[s])
    /\ UNCHANGED <<mustDb, session, pending, page, nav, reset>>

LoggedIn(s) ==
    /\ Answered(s, "ok") /\ tasks[s].fn = "login"
    /\ pending' = tasks[s].who
    /\ UNCHANGED <<mustDb, session>>
    /\ Navigate("mfa", Taken(s), error, "user")

\* Mutant: a reset completes the login but not its must_change_password.
VerifiedWithoutFlag(s) ==
    LET t == tasks[s] IN
      /\ Answered(s, "ok") /\ t.fn \in {"verify", "confirm"}
      /\ pending' = None
      /\ token' = t.who
      /\ must_change' = IF t.fn = "verify" THEN t.must ELSE must_change
      /\ UNCHANGED <<mustDb, user>>
      /\ IF must_change'
           THEN Navigate("change", Taken(s), error, "user")
           ELSE /\ tasks' = [tasks EXCEPT ![s] =
                              [NewTask("me verified", None, token') EXCEPT !.live = t.live]]
                /\ UNCHANGED <<page, nav, error, reset>>

\* verifyMfa and confirmMfaReset up to loadCurrentUser
Verified(s) ==
    LET t == tasks[s] IN
      /\ Answered(s, "ok") /\ t.fn \in {"verify", "confirm"}
      /\ pending' = None
      /\ token' = t.who
      /\ must_change' = t.must
      /\ UNCHANGED <<mustDb, user>>
      /\ IF t.must
           THEN Navigate("change", Taken(s), error, "user")
           ELSE /\ tasks' = [tasks EXCEPT ![s] =
                              [NewTask("me verified", None, token') EXCEPT !.live = t.live]]
                /\ UNCHANGED <<page, nav, error, reset>>

\* Mutant: the reset token is kept whatever screen is shown.
ResetBegunAnywhere(s) ==
    /\ Answered(s, "ok") /\ tasks[s].fn = "init"
    /\ tasks' = Taken(s)
    /\ reset' = tasks[s].who
    /\ UNCHANGED <<mustDb, session, pending, page, nav, error>>

\* startMfaReset: the QR code is awaited as well, and when it cannot be drawn the
\* screen goes on asking for the code of the login.
ResetBegun(s) ==
    LET t == tasks[s] IN
      /\ Answered(s, "ok") /\ t.fn = "init"
      /\ tasks' = Taken(s)
      /\ \/ reset' = (IF t.live THEN t.who ELSE reset) /\ UNCHANGED error
         \/ t.live /\ error' = "screen" /\ UNCHANGED reset
      /\ UNCHANGED <<mustDb, session, pending, page, nav>>

\* changePassword up to loadCurrentUser
PasswordChanged(s) ==
    /\ Answered(s, "ok") /\ tasks[s].fn = "change"
    /\ must_change' = FALSE
    /\ tasks' = [tasks EXCEPT ![s] =
                  [NewTask("me changed", None, token) EXCEPT !.live = tasks[s].live]]
    /\ UNCHANGED <<mustDb, token, user, pending, page, nav, error, reset>>

\* loadCurrentUser, and what follows it
UserLoaded(s) ==
    LET t == tasks[s] IN
      /\ Answered(s, "ok") /\ t.fn \in {"me verified", "me changed", "me home"}
      /\ user' = t.sent
      /\ UNCHANGED <<mustDb, token, must_change, pending>>
      /\ IF t.fn = "me home"
           THEN tasks' = Taken(s) /\ UNCHANGED <<page, nav, error, reset>>
           ELSE Navigate(IF t.fn = "me verified" /\ must_change THEN "change" ELSE "home",
                         Taken(s), error, "user")

DataLoaded(s) ==
    /\ Answered(s, "ok") /\ tasks[s].fn = "data"
    /\ tasks' = Taken(s)
    /\ UNCHANGED <<mustDb, session, pending, page, nav, error, reset>>

-----------------------------------------------------------------------------
Act ==
    \/ \E s \in Slots : \/ \E a \in Accounts : SubmitLogin(s, a)
                        \/ VerifyMfa(s) \/ InitMfaReset(s) \/ ConfirmMfaReset(s)
                        \/ SubmitPassword(s) \/ LoadData(s)
    \/ CancelReset
    \/ SignOut
    \/ \E screen \in Screens : Visit(screen) \/ Reload(screen)

Backend ==
    \/ \E s \in Slots : Refuse(s) \/ SignIn(s) \/ ChangePassword(s) \/ Load(s)
    \/ \E a \in Accounts : ChangePasswordElsewhere(a)

Continue ==
    \/ ReachLogin \/ LoginUnreachable
    \/ \E s \in Slots : \/ Unauthorized(s) \/ Failed(s) \/ LoggedIn(s) \/ Verified(s)
                        \/ ResetBegun(s) \/ PasswordChanged(s) \/ UserLoaded(s)
                        \/ DataLoaded(s)

Next == Act \/ Backend \/ Continue

Spec == Init /\ [][Next]_vars

-----------------------------------------------------------------------------
\* The tab says that no password change is pending only when the backend has none
\* pending for the account signed in: "this only clears the client-side flag once
\* the backend confirms success" (auth.service.ts, changePassword).
FlagIsHonest == token # None /\ ~must_change => ~mustDb[token]

\* While the backend wants the password changed, no other screen that is behind
\* the guard comes up, whichever answers come late and however one navigates.
ScreensAreAllowed ==
    [][page' \in {"home", "app"} /\ page' # page => token' # None /\ ~mustDb[token']]_vars

\* extractErrorDetail is there to show what the backend says of a code: the mfa
\* screen keeps showing it until the user goes somewhere.
ErrorStaysOnScreen ==
    [][page = "mfa" /\ error = "backend" /\ page' # "mfa" =>
         nav = "user" \/ \E screen \in Screens : Visit(screen) \/ Reload(screen)]_vars

=============================================================================
