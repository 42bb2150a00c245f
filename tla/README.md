# The HRIS in TLA+

This directory models the human-resources system of this repository: the FastAPI
backend (`backend/app`), its account script (`backend/scripts`), its migrations and
deployment (`backend/alembic`, `docker-compose.yml`) and the Angular frontend
(`frontend/src/app`). It holds TLA+ modules, TLC configurations that
check them on small instances, and proofs for the TLA+ proof system (TLAPS).

    tlc -config MCSetup.cfg MCSetup        # model-check one run
    tlapm SetupProofs.tla                  # check the proofs of one module

`PROJECT.json` lists the components, the runs, for each property a mutation of
the model that breaks it, the source lines every definition stands for, the
findings, the hazards and the theorems.

## The system

One asyncio process serves HTTP calls against one PostgreSQL database. A handler
runs without interruption from one `await` to the next; every `await` of a
database call lets any other handler run. Sessions use PostgreSQL's READ
COMMITTED: a SELECT sees what is committed when it runs. No code takes a row
lock; what keeps concurrent calls apart is the unique and foreign keys, the fact
that SQLAlchemy writes only the columns a handler assigned, and the order of
statements.

| Component | State | Operations | Interacts with |
|---|---|---|---|
| Setup wizard (`auth/setup.py`, `auth/router.py:54-86`) | `users` table; `_pending_setups`, a dict of the process | status, init, confirm | the account script writes the same table; a restart loses the dict; `/login` of the client asks for the status |
| Sign-in and accounts (`auth/service.py`, `mfa_reset.py`, `deps.py`, `router.py:89-186`, `core/security.py`) | rows of `users`; JWTs held by clients; `_pending_resets`, a dict | login, verify, reset init and confirm, change-password, the gates of every other route | the audit log; every route of the other services passes the gates |
| Employees (`employees/`) | `employee`, `employment_history` | create, read, update, list | positions by foreign key; audit log |
| Organisation (`org/`) | `department`, `position` | create, lists, headcount | counts employees; audit log |
| Audit log (`audit/service.py`) | `audit_log` | append in the caller's transaction | called by all of the above |
| Web client, sign-in part (`core/auth`, `features/auth`, `features/home`) | signals, `sessionStorage`, the screen and its fields | submit, navigate, reload, sign out, what follows each answer | calls the backend; answers come in any order |
| Web client, employee and organisation screens (`features/employees`, `features/org`) | signals of the screen, the address | load, create, save, refresh, navigate | the same; the router keeps or destroys a screen |
| Web client, setup wizard (`features/auth/setup`) | two forms | init, confirm | the setup wizard of the backend |
| Migrations and deployment (`alembic`, `docker`, `docker-compose.yml`) | the schema, its version, the role and its grants; the volume; which containers run | upgrade, downgrade, start, stop | the backend's container migrates before it serves; operators migrate at any time |
| Encryption, configuration | none of their own | | |

What is hard here, and where:

* **Interleaving between two awaits.** `complete_setup` counts, then inserts;
  `update_employee` loads, compares, then writes; `complete_mfa_reset` loads a
  user, then writes; the gate of `deps.py` reads a row that may change before the
  handler acts. All run without locks.
* **A shared dict changed across an await.** `del _pending_setups[token]` and
  `del _pending_resets[token]` run after the commit, when another handler may have
  removed the token.
* **Failure of one of several steps.** A commit may fail or its acknowledgement
  may be lost; a history row is added before the UPDATE that a foreign key refuses.
* **Restart.** The dicts are lost, the tables and the JWTs are not.
* **Answers from several reads.** The detail of an employee, the list of positions
  and a created position are each put together from reads with commits between.
* **Late answers.** A task of the client goes on when its answer comes, whoever is
  signed in and whatever screen is shown by then. The lists of one refresh are read
  one by one, and two refreshes overlap.
* **Two migrations at a time.** The container runs `alembic upgrade head` at each
  start; alembic takes no lock, only the version it read keeps two commands apart. A
  downgrade must undo its upgrade in the order of the dependencies.

What makes each component correct is stated by the properties below.

## The modules

| Module | Extends | What it is |
|---|---|---|
| `Setup` | | the setup wizard, the account script, the clock, restarts |
| `SetupProofs` | `Setup`, `TLAPS` | its theorems |
| `Accounts` | instances `Credentials` | sign-in, MFA reset, password change, the gates, the denial record |
| `Credentials` | | abstract: an account, how far it is signed in, and the record of its changes |
| `AccountsProofs` | `Accounts`, `TLAPS` | its theorems, the refinement among them |
| `PersonnelFile` | | abstract: a file per employee and a log that only grows with it |
| `Employees` | instances `PersonnelFile` | the employee service |
| `EmployeesProofs` | `Employees`, `TLAPS` | its theorems, the refinement among them |
| `Org` | | departments, positions, headcount |
| `OrgProofs` | `Org`, `SumTheorems` | its theorems |
| `SumTheorems` | `TLAPS` | lemmas on sums over finite sets, for the counts of `Accounts` and `Org` |
| `WebClient` | | one browser tab and the backend's answers |
| `WebClientProofs` | `WebClient`, `TLAPS` | its theorems |
| `HrScreens` | | one tab on the employee and organisation screens |
| `HrScreensProofs` | `HrScreens`, `TLAPS` | its theorems |
| `Migrations` | | the revisions as alembic and PostgreSQL run them; the containers |
| `MigrationsProofs` | `Migrations`, `TLAPS` | its theorems |
| `MC...` | one each | symmetry and constants for TLC |

All backend modules have the same shape. A request slot `r` serves one call at a
time: `call[r]` is what was asked, `pc[r]` the await it is at, `snap[r]` (or
`read[r]`) the rows it holds, `resp[r]` how its last call ended. A handler is cut
at its awaits: the step of the database (SELECT, INSERT, COMMIT) and the step that
goes on with the result are two actions when something that matters can happen
between them. A flush, the rows added after it and the COMMIT are one action when
nothing they write can be seen before the COMMIT. `DbError` lets any awaited
database call fail, at a commit both with and without effect; `get_db` rolls the
session back and the client sees 500. Tokens, secrets and passwords are named,
not computed: a TOTP code is named by the secret that generates it, a JWT by its
type and subject, and "the code is right" is whether the names agree.

### Setup

`users` is the table in the order of insertion, `setup[t]` the `_PendingSetup`
object of token `t` (kept for ever, as a handler may hold it after it left the
dict), `pending` the keys of the dict, `now` the clock. `pc` is `count` while the
SELECT runs, `open` or `closed` when its result is there, `commit` while the INSERT
runs, `committed` until the coroutine resumes and deletes the token.

### Accounts

`db[u]` is the row of an account, `jwt` which tokens are out and valid, `reset`
and `pending` the MFA resets, `stale` those that expired, `audit` how many rows the
log has of each kind. Every call loads the row once into `snap[r]`; later steps
decide by `snap[r]` and write to `db`. `Update` writes only the assigned columns
to the current row, as the ORM does. Time is not counted: any token may expire at
any moment. Deactivation is an action of its own, because `is_active` is checked
throughout and set by nobody in the repository but a person with a database
client. An answer is sent in the step that ends the call.

`Credentials` is what all of this promises of one account: it climbs from nobody to
the password step to full access, each of its credentials changes by one recorded
step that asks for the right level, and a denial is recorded of somebody who was
fully signed in and whose password change was not pending. `LevelOf` maps the
tokens that are out to the level; calls, copies, expiry and resets are left out.

### Employees and PersonnelFile

`emp` is the table, `history` the rows in the order of their commits, `audit` the
number of audit rows. A PATCH fills its history rows and its UPDATE from `snap[r]`:
a column is written when it was sent and differs from the loaded value, an encrypted
id whenever it was sent, because its ciphertext is new each time. `Values` is the domain
of one column, `field`, that stands for each of `_PLAIN_FIELDS` and of the encrypted ids;
`FieldsAfter` says what it can be after an UPDATE of either kind. `shown[r]` is how much of the history the second SELECT
saw. `PersonnelFile` promises less: a file is opened with a hire entry, changed
with the entries that say to what, and the log never loses or changes an entry.
`Employees` maps to it by leaving out the calls, `field`, `old` and the audit rows.
What a commit, or a call that was refused, does to the audit rows is in
`ChangesAreAsked` instead.

### Org

`department` and `position` map an id to its row. Ids are fresh for each creation.
An INSERT whose name another transaction holds waits for that transaction: this is
`NameHeld` in the guard of `FlushDepartment`. `Place` stands for the employee
service, which may put any employee in any existing position.

### WebClient

A task is an async function of the tab that awaits one answer: which function,
whom it signs in, which token the interceptor attached, the answer, and whether
its screen is still shown. `Backend` gives answers, any refusal at any time
included; `Continue` is what the tab does with one. `ChangePasswordElsewhere` is a change
of password that commits without the tab awaiting it: a reload gives up the requests in
flight, and the backend goes on with them. `Navigate` is the router:
guards, redirects, a navigation to the shown screen that does nothing, and the
guard of `/login`, which is asynchronous because it asks for the setup status;
`nav` says who asked for that navigation. Loading the code of a screen is
immediate. `/employees` and `/org` are one screen, `app`, that sends requests.

### HrScreens

A task is again an async function: what it saves, which lists it still waits for
(`wait`), what it has got of them (`got`), and whether its screen is still there.
Each list is read by the backend at a moment of its own. A POST or PATCH may be
committed and its answer lost, and the row in the answer to a PATCH, which is read after
the COMMIT, may already be what another user left. The backend is three tables and `Elsewhere`, others
who work on them: `Org` and `Employees` have its detail. `shown` is the employee of
the detail screen, `address` the id in the URL: they differ, because the router
keeps the component when only the id changes, and the component reads it once.
`made` and the `seen` of a task are history, no part of the code.

### Migrations

A statement is a record: what it does, to which object, what it uses. `Applies` and
`Execute` are PostgreSQL's DDL. A command of alembic is the list of statements of
its revisions, each followed by the UPDATE of `alembic_version`, which fails when the
version is no longer the one read. `View` is the schema as the command's open
transaction sees it, `Commit` makes it the schema of all, and a statement waits for
the objects that another open command has touched. The first start of the database makes
the data (`StartPostgres`, one step), then psql commits the statements of `init-db.sh`
one by one: the role (`InitScriptRole`), then two GRANTs (`InitScriptGrants`). When the
server stops before or between them, or the script ends at its checks of two
variables, `volume` stays `"cut"` or `"half"`, and the next start goes on without the rest. The columns of 0004 are two: those
that may be null, and the flags that may not.

## What the runs check

`pass` runs finish without an error; a `violation` run checks one sentence of the
repository that the code does not keep.

| Run | Instance | Checks |
|---|---|---|
| `setup` | 2 calls, 2 tokens, 3 people (two share a username), clock to 2, lifetime 1 | `TypeOK`; `OneAccountPerToken`: a token confirmed twice at once makes one account; `ClosedIsFinal`: once an account exists and the confirms that counted before are over, no wizard account is ever made; `AnswersAreTrue`; `PendingKept`: only expiry, an existing account or a restart ends a setup in progress |
| `setup_one_winner` | the same | violated: "exactly one winner" (`tests/test_setup.py:129`). Two confirms of different tokens both count zero |
| `setup_answered` | the same | violated: the docstring's "or raises" list. The token can be gone after the commit; `KeyError`, 500, with the account made |
| `accounts` | 2 calls, 1 account without an HR role, 2 passwords, 1 reset token, 2 audited commits | `TypeOK`; `DeniedIsRecorded`; `StepsInOrder`: no token, reset or record appears before the step that leads to it; `PasswordChangeGate`; `CredentialsKept`: overlapping changes do not undo each other and each has its audit row; `ResetKept`; `GoneIsFinal`: a deactivated account goes silent; `ImplementsCredentials` |
| `employees` | 2 calls, 2 employees, 2 statuses, 2 positions and one that does not exist, 2 values, 3 commits | `TypeOK`; `LastRowIsState`; `OldValueWasReal`; `DetailExplained`; `ChangesAreAsked`: a PATCH changes only its own columns, and a refused call leaves no audit row or history; `ImplementsFile` |
| `employees_transfer` | 2 calls, 1 employee, 3 positions | violated: "a position change appends an EmploymentHistory row rather than silently overwriting" (`employees/service.py:132`). Two PATCHes load the same row; the later overwrites the position of the earlier and names another one as `old_value` |
| `org` | 2 calls, 2 departments, 2 names, 2 positions, 1 employee | `TypeOK`; `NamesAreFound`; `HierarchyHasTop`; `NamesAreUnique`; `EveryoneIsCounted`; `EveryCallAnswered` |
| `web` | 1 account, 2 calls in flight | `TypeOK`; `FlagIsHonest`: no pending password change is hidden; `ScreensAreAllowed`: no guarded screen comes up that the backend would refuse |
| `screens` | 2 tasks, 1 department, 2 positions, 2 employees | `TypeOK`; `FormCreatesOnce`: one form makes one employee unless an error was shown; `SavesWhatIsShown`; `RefreshKeeps`: a refresh shows what its creation made and takes nothing away that was there when it began; `ButtonsComeBack` |
| `migrations` | the container and 1 operator, 4 revisions | `TypeOK`; `EveryStatementApplies`: from each version up and down; `SchemaIsItsVersion`: no half of a migration stays, no two take effect; `AuditLogIsAppendOnly`; `RoleCanLogIn`: no migration gives or takes the LOGIN that the script gave; `ServesCompleteSchema`: uvicorn starts on all that its code needs, with a role that can log in, but for two named cases |
| `web_flag` | 2 accounts | violated: "only clears the client-side flag once the backend confirms success" (`auth.service.ts:150-151`). The late answer to one account clears the flag of the next |
| `web_error` | 1 account, 1 call | violated: the mfa screen is to show the backend's detail (`mfa-verify.component.ts:103-106`). A wrong code is a 401, and the interceptor leaves the screen |

**Bounds.** Two concurrent calls are enough for every race here: each pairs one
handler between two of its awaits with one other writer, and the script, the
clock, expiry and restarts need no slot. A slot is reused, so the number of calls
is not bounded by it. What is bounded: tokens (ids that can be handed out), rows
(the ids and `MaxWrites`, a guard on commits) and the clock (`MaxTime`). `Setup`
needs a clash of usernames and two people who do not clash; `Employees` three
commits, a hire and two PATCHes that overlap; `Accounts` two audited commits, one
for each of two overlapping changes. The theorems hold for every number of calls,
tokens, accounts, employees and commits: in particular `StepsInOrder` and
`ImplementsCredentials` for accounts that act on each other's tokens, where the run has
one account. `HrScreens` needs two tasks for two refreshes, or a save and a late
answer, that overlap, and two rows for one to hide or name the other; one department
is enough because positions are what a second click repeats. `FormCreatesOnce` is about
a form that has shown no error: one that has, because an answer was lost, may create
the employee a second time, and nothing in the repository says otherwise. `Migrations` has no
bound but the number of operators.

**One account in `web`.** With two accounts `FlagIsHonest` fails, which is
`web_flag`; the run with one account shows that nothing else makes it fail. That the
answer for one account is applied to another is therefore covered by `web_flag` and by the
condition of the theorem `FlagHonest`, not by `web`.

**Deadlock** is checked in every run.

**Fairness.** `FairSpec` of `Org` has weak fairness of `Serve(r)`, the steps of the
event loop and the database for a call that was made: a resumed coroutine runs, a
query is answered. Nobody is obliged to call. It also assumes that from some
moment on the database does not fail: a creation that waits for others of its name
can otherwise lose to them each time they fail and are asked again. Only there does
a call wait for another one. In `Setup`, `Accounts` and `Employees` no step of a
call is ever disabled by another call, so a liveness property would say no more
than the fairness it assumes. `FairSpec` of `HrScreens` has weak fairness of `Answer(s)`
and `Continue(s)`: a browser's request ends, with an answer or with an error, and the
event loop of the tab goes on with it. `WebClient` has no liveness property, and
`Migrations` none either: an operator's command may hold its locks for as long as it
is left open.

## What is proved

TLAPS checks these for every value of the constants, from the `ASSUME`s of the
modules alone: values that mark absence are not real values, sets that are
counted are finite (the calls, tokens and accounts of `Accounts`, the tokens of
`Setup`, the employees of `Org`), bounds are natural numbers.

| Module | Theorems | State |
|---|---|---|
| `SetupProofs` | `TypeCorrect`, `TokenUsedOnce`, `SetupCloses`, `SetupKept`, `AnswersHold` | `TypeOK`, `OneAccountPerToken`, `ClosedIsFinal`, `PendingKept`, `AnswersAreTrue` |
| `AccountsProofs` | `TypeCorrect`, `OrderKept`, `GateHolds`, `CredentialsHold`, `GoneStays`, `ResetsKept`, `DenialsRecorded`, `CredentialsAreImplemented` | `TypeOK`, `StepsInOrder`, `PasswordChangeGate`, `CredentialsKept`, `GoneIsFinal`, `ResetKept`, `DeniedIsRecorded`, `ImplementsCredentials` |
| `EmployeesProofs` | `TypeCorrect`, `HistoryIsFollowed`, `OldValuesWereReal`, `OnlyAskedChanges`, `FilesAreImplemented`, `DetailHolds` | `TypeOK`, `LastRowIsState`, `OldValueWasReal`, `ChangesAreAsked`, `ImplementsFile`, `DetailExplained` |
| `OrgProofs` | `TypeCorrect`, `NamesFound`, `HierarchyKept`, `NamesStayUnique`, `HeadcountAddsUp` | `TypeOK`, `NamesAreFound`, `HierarchyHasTop`, `NamesAreUnique`, `EveryoneIsCounted` |
| `WebClientProofs` | `TypeCorrect`; `FlagHonest`, `ScreensAllowed` under a condition; `OneAccountFlagHonest`, `OneAccountScreensAllowed` | `TypeOK`; `FlagIsHonest`, `ScreensAreAllowed` |
| `HrScreensProofs` | `TypeCorrect`, `OneCreation`, `ShownIsSaved`, `RefreshesKeep` | `TypeOK`, `FormCreatesOnce`, `SavesWhatIsShown`, `RefreshKeeps` |
| `MigrationsProofs` | `TypeCorrect`, `AuditLogKept`, `RoleKeepsLogin`, `StatementsApply`, `SchemaFollowsVersion`, `BackendFindsItsSchema` | `TypeOK`, `AuditLogIsAppendOnly`, `RoleCanLogIn`, `EveryStatementApplies`, `SchemaIsItsVersion`, `ServesCompleteSchema` |

Each of these modules also proves `Spec => []IInv` for its inductive invariant `IInv`.

The arguments:

* **Setup.** `OneAccountPerToken` is not inductive: nothing in the handlers stops a
  second confirm of a token. The invariant adds that rows of the table do not clash
  (the unique keys) and that a wizard's row has the profile of its token; two rows
  of one token would have one profile and clash. For the answers it adds that a
  call that was told "closed", or has committed, sees a row that is still there: no
  code removes one.
* **Accounts.** The gate decides by a copy. The invariant says that a copy in which
  no change is pending is right and stays right, because `must_change_password` is
  never set again; that a handler that reaches a commit saw an active account; and
  that each call in flight presented what it needed. `GoneIsFinal` then looks at
  each way an account can act and finds a handler that saw it active; `ResetKept`
  needs that a handler which takes a token away because its copy is inactive has a
  copy of an account that still is. `DeniedIsRecorded` counts: a denial adds one to
  the sum of the rows, and to the calls that answered it not before. For the
  refinement two more facts are invariant: the secrets of accounts, and those that
  pending resets would give them, are all different (`OwnSecrets`), and a call that is
  about to record a denial has a copy of an account that no HR role allows and
  that was past its password change (`DeniedByRole`). A commit is then one abstract
  act, a token that is issued a climb or, when one was out before, a stutter.
* **Employees.** `LastRowIsState` needs that a hire under way is of an id that has no
  record, and that only records have rows: then the last row is moved only by the
  commit that moves the column. `DetailExplained` rests on it: the status of every
  record has a row, and rows stay, so the row of a status that was loaded is still
  in the history that is read afterwards. For the refinement, a hire is a step
  `Hire`, a committed PATCH is `Amend` or, when it changes neither status nor
  position, a stutter, and every other step is a stutter. For `OldValueWasReal`,
  `PositionWasTaken` says of the position of each record, and `LoadedWasCommitted` of
  each row that a PATCH has loaded, that the employee was there (`WasAt`): a transfer
  led to it, or the first transfer left it, or there is none yet and the record
  still has it. That stays so of a copy for as long as its call runs, because rows
  stay and the first transfer leaves the position the record has.
* **Org.** Rows are only added, so what a call found stays true while it waits. A
  creation past its flush keeps its keys and has its name for itself: the wait at the
  unique index is what `NamesAreReserved` rests on. What was read of the positions
  names departments that existed by then, so the departments, read second, have them
  all. `HierarchyHasTop` survives a new position because nobody reported to it. The
  headcount adds up because each employee is in exactly one position that exists.
* **SumTheorems.** The sums of the community module `Functions` are recursive over
  the subsets of a set. That the recursion has one solution, and what one more in one
  place does to it, is shown by a minimal counterexample among the finite subsets, a
  form of induction that takes a set and no predicate. `MigrationsProofs` has the same for
  the natural numbers.
* **WebClient.** The answers of the backend come late but stay true, because nothing in
  the system sets `must_change_password` again: an answer on its way which says that no
  change is pending is right (`IsTrue`). What can be wrong is whose answer it is.
  `NobodyElseSignsIn` says that while a change of password is on its way the tab has
  the account signed in that asked for it, or nobody; under `[]NobodyElseSignsIn` both
  properties hold for any number of accounts and tasks, and with one account the condition
  always holds. `web_flag` shows that `FlagIsHonest` fails without it.
* **HrScreens.** What makes the screens right is which tasks can be under way together: of
  the tasks of the screen shown at most one submits and at most one loads an employee,
  and none loads any more once the employee is there to be changed. A made employee
  is then being awaited by the one submission of its form. For `RefreshKeeps` a refresh
  that still waits for a list will find there what was there before, since rows stay.
* **Migrations.** No statement of a revision grants the role UPDATE or DELETE on the audit
  log, or takes its LOGIN. So no command does: an induction over the statements it has done,
  of a plan that is put together from revisions by another induction. What the statements
  do one after the other is computed in the proof: each revision leads from the schema of
  one version to that of the next (`UpgradeLeads`, `DowngradeLeads`), and so does every
  plan (`PlansLead`), with the role as it was, or made without LOGIN. That is of use to a
  command only if the version it read is still the one committed. `VersionInv` says so of
  a command that has stamped `alembic_version`: it has the row, no other command has
  (`Exclusive`), and its first stamp could be executed, which is an `UPDATE` of the version
  it read (`FirstStampIsFrom`). A command that finishes without a stamp had nothing to do
  (`MovesStamp`). So the version moves only by a command that read it, and the schema with
  it; what the container finds on the latest version is complete. That the
  role can log in when uvicorn starts follows from `RoleKeepsLogin`, but for the first start
  of the database that was cut off.

**Only model-checked:** liveness (`EveryCallAnswered`, `ButtonsComeBack`), which is
beyond the prover, and the runs that find violations.

## What is not modelled

* The setup wizard screen: two forms, one after the other, that each send one request
  of `Setup` and show its answer. It never clears `setupToken`, so the way back to the
  first form ("Setup session lost", `setup.component.ts:82-86`) is never taken: after its
  pending setup expired, only a reload helps.
* The list of employees and of departments: one SELECT of committed rows.
* The order of the history in an answer (`effective_date`, `created_at`) and the
  dates themselves: the history is in commit order. See the hazard at
  `employees/service.py:108`.
* Validation of shapes by Pydantic, wording of messages, page layout.
* Fernet encryption, bcrypt and TOTP arithmetic (a code is right or it is not; the
  accepted window of neighbouring codes is part of "right"). That a secret cannot be
  decrypted, a 500, is an outcome of `VerifyDone`; that an id of an employee cannot be
  is left out, as it only ends a call that has nothing more to write.
* The three awaits after a creation in `org/service.py:53-58`, the refresh and two reads
  of rows by their keys, are one read (`NameCreated`): rows are only added, so each finds
  what an earlier one would have.
* The finding of `setup_answered` has a twin in `complete_mfa_reset`: `del
  _pending_resets[...]` after the commit. It is in `Accounts` (`DeleteToken`), and the
  hazard at `mfa_reset.py:103` describes it; no run of its own repeats the finding.
* Configuration, which is read once; the container of the frontend, which keeps nothing.
* In `Migrations`: that `pg_isready` also answers during the initialisation of the data
  (a backend started then fails to connect and stays down), a first start that is cut off
  before the database `hris` is there, `alembic stamp`, and columns one by one.
* `core/security.py:44-45` says that an mfa_pending token is only usable for
  verification; `/auth/mfa/reset/init` takes it too, as its own docstring says. The
  model follows the code.

Behaviours the models have, which nothing in the repository says are wrong, and which
are therefore neither a property nor a finding:

* `init-db.sh` runs on the first start of the database alone. When that start is cut off
  after the data was made, or the script ends at its checks (`init-db.sh:8-9`), no later
  start runs it, 0001 makes the role NOLOGIN, and the backend serves without being able to
  reach its database. `ServesCompleteSchema` names the case, `volume' = "cut"`.
* A form of a new employee that showed an error because the answer was lost creates the
  employee again when it is sent again (`employee-form.component.ts:123`).
* Two password changes verify the same current password and both commit
  (`auth/service.py:49`): the second wins, each has its audit row.
* A PATCH that asks for the status its loaded row has writes nothing, though another
  PATCH changed it meanwhile (`employees/service.py:150`); the detail screen sends
  nothing when the position shown is selected (`employee-detail.component.ts:71`).
* The guard of `/login` awaits the setup status; when that fails after a sign-out, the
  tab stays on the screen of the ended session (`setup.guard.ts:11`).
* The field of the organisation page is cleared when the creation is answered, with
  what was typed meanwhile (`org-page.component.ts:69`).
  The refresh after it may fail, and the page then says "Could not create department." of
  one that exists (`org-page.component.ts:70`). The Add buttons stay enabled meanwhile, so
  that a second click makes a second position of the same title
  (`org-page.component.ts:79`), which no constraint forbids.

And one that no model has: `alembic/env.py:11` wants every model module imported for
autogenerate, but those of `employees` and `org` are missing, so that a generated
revision would drop their tables.

## Plan

Done, in this order: `Setup` with its proofs, `Accounts` with its proofs,
`PersonnelFile`, `Employees` with its proofs and the refinement, `Org`, `WebClient`;
then `Credentials` with the proof that `Accounts` implements it, `Migrations`,
`HrScreens`; then the proofs of `Org`, `WebClient`, `HrScreens` and `Migrations`, and
what was left of `Accounts` and `Employees`.

Weighed and left: the time stamps of `Employees`. `created_at` is the start of the
transaction, so the order shown and the order of commits can differ; the order
promises nothing that a doc states, and a clock in the state multiplies it by more
than the run allows.
