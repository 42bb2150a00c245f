------------------------------ MODULE HrScreens ------------------------------
(***************************************************************************)
(* One browser tab of an HR user: features/org/org-page and                *)
(* features/employees.  An async function of a screen is a task.  It       *)
(* awaits the answer to what it saves, or to all of the lists it loads     *)
(* with Promise.all, each read by the backend at a moment of its own, and  *)
(* goes on when they are there, even when its screen was left.             *)
(* Departments are known by their unique names, the other rows by ids.     *)
(* What is typed is chosen when a button is pressed, and the texts of      *)
(* loading() are left out.                                                 *)
(***************************************************************************)
EXTENDS Integers, FiniteSets

CONSTANTS
    Departments, Positions, Employees,  \* rows that can be created
    Slots,                              \* bound on the tasks of the tab
    None

VARIABLES
    department, position,  \* the backend: the departments and positions there are
    employee,              \* employee -> position_id, or None
    page, address,         \* the screen, and the employee that its address names
    departments, positions,  \* the signals: lists on the screen
    shown,                 \* employee(): [id, position], or None
    busy,                  \* saving() or submitting(): the button is disabled
    error,                 \* errorMessage() is set
    made,                  \* employees made by the form shown since its last error
    tasks                  \* slot -> task, or None

backend == <<department, position, employee>>
screen == <<page, address, departments, positions, shown, error, busy>>
vars == <<backend, screen, made, tasks>>

-----------------------------------------------------------------------------
Pages == {"list", "new", "detail", "org"}

Rows == Departments \cup Positions \cup Employees

OrgLists == {"departments", "positions", "headcount"}
Lists == OrgLists \cup {"employees", "employee"}

\* The GETs of each async function: the first four are ngOnInit of a screen.
Gets ==
    [list |-> {"employees"}, new |-> {"positions"},
     detail |-> {"employee", "positions"}, org |-> OrgLists,
     department |-> OrgLists, position |-> OrgLists, create |-> {}, save |-> {}]

Adds == {"department", "position"}
Submits == {"create", "save"}

Task ==
    [fn : DOMAIN Gets,
     of : Employees \cup {None},  \* whom it loads or saves
     asks : Rows \cup {None},    \* what was chosen or typed
     save : {"none", "awaited", "ok"},
     made : Rows \cup {None},    \* what the backend created
     wait : SUBSET Lists,        \* GETs under way
     got : [Lists -> SUBSET Rows],
     seen : SUBSET Rows,         \* what was on the page when its refresh began
     failed : BOOLEAN,
     live : BOOLEAN]             \* its screen is still the one shown

ASSUME NoneAssumption ==
    None \notin Rows \cup Task \cup [id : Employees, position : Positions]

Live(s) == tasks[s] # None /\ tasks[s].live

Employed == {e \in Employees : employee[e] # None}

TypeOK ==
    /\ department \subseteq Departments /\ position \subseteq Positions
    /\ employee \in [Employees -> position \cup {None}]
    /\ page \in Pages \cup {"blank"} /\ address \in Employed \cup {None}
    /\ departments \subseteq department /\ positions \subseteq position
    /\ shown = None \/ shown \in [id : Employed, position : position]
    /\ error \in BOOLEAN /\ made \subseteq Employed
    /\ tasks \in [Slots -> Task \cup {None}]
    /\ busy = \E s \in Slots : Live(s) /\ tasks[s].fn \in Submits
    /\ page = "detail" <=> address # None
    /\ shown # None => page = "detail"

-----------------------------------------------------------------------------
Nothing == [l \in Lists |-> {}]

NewTask(fn, of, asks) ==
    [fn |-> fn, of |-> of, asks |-> asks, made |-> None,
     save |-> IF fn \in Adds \cup Submits THEN "awaited" ELSE "none",
     wait |-> Gets[fn], got |-> Nothing,
     seen |-> {}, failed |-> FALSE, live |-> TRUE]

\* The screen is destroyed, and its tasks go on.  Those that only load set the
\* signals of a component that is gone: they are of no more effect.
Detached(ts) ==
    [s \in Slots |-> IF ts[s] = None \/ ts[s].save = "none" THEN None
                     ELSE [ts[s] EXCEPT !.live = FALSE]]

\* A screen is constructed, and ngOnInit loads what it shows.
Show(p, a, ts) ==
    /\ page' = p /\ address' = a
    /\ departments' = {} /\ positions' = {} /\ shown' = None
    /\ busy' = FALSE /\ error' = FALSE /\ made' = {}
    /\ \E s \in Slots :
         /\ ts[s] = None
         /\ tasks' = [Detached(ts) EXCEPT ![s] = NewTask(p, a, None)]

\* The router keeps the component when only the id of /employees/:id changes,
\* and the component read its id when it was constructed.
Navigate(p, a, ts) ==
    IF page = p
      THEN /\ address' = a /\ tasks' = ts
           /\ UNCHANGED <<page, departments, positions, shown, error, busy, made>>
      ELSE Show(p, a, ts)

Init ==
    /\ department = {} /\ position = {} /\ employee = [e \in Employees |-> None]
    /\ page = "blank" /\ address = None
    /\ departments = {} /\ positions = {} /\ shown = None
    /\ busy = FALSE /\ error = FALSE /\ made = {}
    /\ tasks = [s \in Slots |-> None]

-----------------------------------------------------------------------------
\* Links, and the browser's history, which may hold the address of any employee.
Visit(p, a) ==
    /\ (p = "detail") = (a # None)
    /\ Navigate(p, a, tasks)
    /\ UNCHANGED backend

Press(s, task) ==
    /\ tasks[s] = None
    /\ tasks' = [tasks EXCEPT ![s] = task]
    /\ error' = FALSE
    /\ UNCHANGED <<backend, page, address, departments, positions, shown, made>>

\* onAddDepartment and onAddPosition: their buttons stay enabled meanwhile.
AddDepartment(s, d) ==
    /\ page = "org"
    /\ Press(s, NewTask("department", None, d)) /\ UNCHANGED busy

AddPosition(s, d) ==
    /\ page = "org" /\ d \in departments
    /\ Press(s, NewTask("position", None, d)) /\ UNCHANGED busy

\* Mutant: the button of the form stays enabled.
SubmitFormAgain(s, p) ==
    /\ page = "new" /\ p \in positions
    /\ Press(s, NewTask("create", None, p)) /\ busy' = TRUE

\* EmployeeFormComponent.onSubmit
SubmitForm(s, p) ==
    /\ page = "new" /\ ~busy /\ p \in positions
    /\ Press(s, NewTask("create", None, p)) /\ busy' = TRUE

\* Mutant: the employee is taken from the address.
ChangePositionOfAddress(s, p) ==
    /\ page = "detail" /\ ~busy /\ shown # None
    /\ p \in positions \ {shown.position}
    /\ Press(s, NewTask("save", address, p)) /\ busy' = TRUE

\* onChangePosition, which does nothing when the position shown is selected.
ChangePosition(s, p) ==
    /\ page = "detail" /\ ~busy /\ shown # None
    /\ p \in positions \ {shown.position}
    /\ Press(s, NewTask("save", shown.id, p)) /\ busy' = TRUE

-----------------------------------------------------------------------------
\* The rows of a list.  Of the headcount and the list of employees only that
\* they are loaded matters here.
Table(l, of) ==
    CASE l = "departments" -> department
      [] l = "positions" -> position
      [] l \in {"headcount", "employees"} -> {}
      [] l = "employee" -> {employee[of]}

Awaits(s, save) == tasks[s] # None /\ ~tasks[s].failed /\ tasks[s].save = save

\* Mutant: the lists are asked for along with the creation.
ReadMeanwhile(s, l) ==
    /\ tasks[s] # None /\ ~tasks[s].failed /\ l \in tasks[s].wait
    /\ tasks[s].save # "ok"
    /\ tasks' = [tasks EXCEPT ![s].wait = @ \ {l},
                              ![s].got[l] = Table(l, tasks[s].of)]
    /\ UNCHANGED <<backend, screen, made>>

\* A GET is answered.
Read(s, l) ==
    /\ Awaits(s, "none") /\ l \in tasks[s].wait
    /\ tasks' = [tasks EXCEPT ![s].wait = @ \ {l},
                              ![s].got[l] = Table(l, tasks[s].of)]
    /\ UNCHANGED <<backend, screen, made>>

Fail(s) == tasks' = [tasks EXCEPT ![s].failed = TRUE, ![s].wait = {}, ![s].got = Nothing]

\* A POST or PATCH is committed, and its answer may be lost.
Written(s, row) ==
    /\ \/ tasks' = [tasks EXCEPT ![s].save = "ok", ![s].made = row]
       \/ Fail(s)
    /\ UNCHANGED screen

CreateDepartment(s) ==
    /\ Awaits(s, "awaited") /\ tasks[s].fn = "department"
    /\ tasks[s].asks \notin department
    /\ department' = department \cup {tasks[s].asks}
    /\ Written(s, tasks[s].asks)
    /\ UNCHANGED <<position, employee, made>>

CreatePosition(s) ==
    /\ Awaits(s, "awaited") /\ tasks[s].fn = "position"
    /\ \E p \in Positions \ position :
         /\ position' = position \cup {p}
         /\ Written(s, p)
    /\ UNCHANGED <<department, employee, made>>

CreateEmployee(s) ==
    /\ Awaits(s, "awaited") /\ tasks[s].fn = "create"
    /\ \E e \in Employees \ Employed :
         /\ employee' = [employee EXCEPT ![e] = tasks[s].asks]
         /\ made' = IF tasks[s].live THEN made \cup {e} ELSE made
         /\ Written(s, e)
    /\ UNCHANGED <<department, position>>

\* The row of the answer is read again after the COMMIT.  It holds what was asked,
\* or what the PATCH of another user left: one between the COMMIT and that read, or
\* one since the row was loaded with the position asked for (see Employees).
UpdateEmployee(s) ==
    /\ Awaits(s, "awaited") /\ tasks[s].fn = "save"
    /\ \/ employee' = [employee EXCEPT ![tasks[s].of] = tasks[s].asks]
       \/ \E p \in position : employee' = [employee EXCEPT ![tasks[s].of] = p]
    /\ Written(s, employee'[tasks[s].of])
    /\ UNCHANGED <<department, position, made>>

\* The backend refuses, or the connection is lost before it.
Refuse(s) ==
    /\ tasks[s] # None /\ ~tasks[s].failed
    /\ tasks[s].save = "awaited" \/ (tasks[s].save = "none" /\ tasks[s].wait # {})
    /\ Fail(s)
    /\ UNCHANGED <<backend, screen, made>>

\* Somebody else works on the same data.
Elsewhere ==
    /\ \/ \E d \in Departments \ department :
            department' = department \cup {d} /\ UNCHANGED <<position, employee>>
       \/ \E p \in Positions \ position :
            /\ department # {}
            /\ position' = position \cup {p} /\ UNCHANGED <<department, employee>>
       \/ \E e \in Employees, p \in position :
            /\ employee' = [employee EXCEPT ![e] = p]
            /\ UNCHANGED <<department, position>>
    /\ UNCHANGED <<screen, made, tasks>>

-----------------------------------------------------------------------------
Taken(s) == [tasks EXCEPT ![s] = None]

Loaded(s, fns) == Awaits(s, "none") /\ tasks[s].wait = {} /\ tasks[s].fn \in fns

\* A signal of a destroyed screen is set to no effect.
Set(s, signal, value) == IF tasks[s].live THEN value ELSE signal

\* The creation is answered: the field is cleared and refresh() begins.
Added(s) ==
    /\ Awaits(s, "ok") /\ tasks[s].fn \in Adds
    /\ tasks' = IF tasks[s].live
                  THEN [tasks EXCEPT ![s].save = "none", ![s].seen = departments \cup positions]
                  ELSE Taken(s)
    /\ UNCHANGED <<backend, screen, made>>

\* The lists of the organisation page are set together.
Refreshed(s) ==
    /\ Loaded(s, {"org"} \cup Adds)
    /\ departments' = tasks[s].got["departments"]
    /\ positions' = tasks[s].got["positions"]
    /\ tasks' = Taken(s)
    /\ UNCHANGED <<backend, page, address, shown, error, busy, made>>

\* ngOnInit of the list, the form and the detail screen
Initialised(s) ==
    /\ Loaded(s, {"list", "new", "detail"})
    /\ positions' = tasks[s].got["positions"]
    /\ IF tasks[s].fn = "detail"
         THEN \E p \in tasks[s].got["employee"] :
                shown' = [id |-> tasks[s].of, position |-> p]
         ELSE UNCHANGED shown
    /\ tasks' = Taken(s)
    /\ UNCHANGED <<backend, page, address, departments, error, busy, made>>

\* The form goes to the employee created, also when the form was left.
Created(s) ==
    /\ Awaits(s, "ok") /\ tasks[s].fn = "create"
    /\ Navigate("detail", tasks[s].made, Taken(s))
    /\ UNCHANGED backend

\* Mutant: no finally, the button comes back when the save failed.
SavedForGood(s) ==
    /\ Awaits(s, "ok") /\ tasks[s].fn = "save"
    /\ shown' = Set(s, shown, [id |-> tasks[s].of, position |-> tasks[s].made])
    /\ tasks' = Taken(s)
    /\ UNCHANGED <<backend, page, address, departments, positions, error, made, busy>>

Saved(s) ==
    /\ Awaits(s, "ok") /\ tasks[s].fn = "save"
    /\ shown' = Set(s, shown, [id |-> tasks[s].of, position |-> tasks[s].made])
    /\ busy' = Set(s, busy, FALSE)
    /\ tasks' = Taken(s)
    /\ UNCHANGED <<backend, page, address, departments, positions, error, made>>

\* Mutant: no finally, the button comes back when all went well.
FailedForGood(s) ==
    /\ tasks[s] # None /\ tasks[s].failed
    /\ tasks' = Taken(s)
    /\ error' = Set(s, error, tasks[s].fn \notin {"new", "org"} \/ error)
    /\ made' = Set(s, made, {})
    /\ UNCHANGED <<backend, page, address, departments, positions, shown, busy>>

\* The first failure is caught, unless ngOnInit of the form or the organisation
\* page awaited it.
Failed(s) ==
    /\ tasks[s] # None /\ tasks[s].failed
    /\ tasks' = Taken(s)
    /\ error' = Set(s, error, tasks[s].fn \notin {"new", "org"} \/ error)
    /\ busy' = Set(s, busy, busy /\ tasks[s].fn \notin Submits)
    /\ made' = Set(s, made, {})
    /\ UNCHANGED <<backend, page, address, departments, positions, shown>>

-----------------------------------------------------------------------------
Act ==
    \/ \E p \in Pages, a \in Employed \cup {None} : Visit(p, a)
    \/ \E s \in Slots :
         \/ \E d \in Departments : AddDepartment(s, d) \/ AddPosition(s, d)
         \/ \E p \in Positions : SubmitForm(s, p) \/ ChangePosition(s, p)

Answer(s) ==
    \/ \E l \in Lists : Read(s, l)
    \/ CreateDepartment(s) \/ CreatePosition(s) \/ CreateEmployee(s)
    \/ UpdateEmployee(s) \/ Refuse(s)

Continue(s) ==
    Added(s) \/ Refreshed(s) \/ Initialised(s) \/ Created(s) \/ Saved(s) \/ Failed(s)

Next ==
    \/ Act \/ Elsewhere
    \/ \E s \in Slots : Answer(s) \/ Continue(s)

Spec == Init /\ [][Next]_vars

\* Every request is answered or fails in the end, and the tab goes on with it.
FairSpec == Spec /\ \A s \in Slots : WF_vars(Answer(s)) /\ WF_vars(Continue(s))

-----------------------------------------------------------------------------
(* Properties *)

\* onAddDepartment and onAddPosition: what a creation that ends well made is then
\* on the page, and a refresh, however many overlap with it, takes nothing away
\* that was on the page when it began.
RefreshKeeps ==
    [][\A s \in Slots :
         Live(s) /\ tasks[s].fn \in Adds /\ tasks'[s] = None
           /\ ~tasks[s].failed /\ page' = page
         => tasks[s].seen \cup {tasks[s].made} \subseteq departments' \cup positions']_vars

\* EmployeeFormComponent.onSubmit has no key that makes a retry harmless: a form
\* creates one employee, however often it is submitted, unless it showed an error
\* in between.
FormCreatesOnce == Cardinality(made) <= 1

\* onChangePosition: whatever address the browser's history or a late answer to
\* the form brought, a save changes the employee whose data is on the screen.
SavesWhatIsShown ==
    \A s \in Slots :
      Live(s) /\ tasks[s].fn = "save" => shown # None /\ tasks[s].of = shown.id

\* The buttons that a submission disables come back, unless the screen was left.
ButtonsComeBack == busy ~> ~busy

=============================================================================
