--------------------------- MODULE HrScreensProofs ---------------------------
(***************************************************************************)
(* Proofs about the tab of an HR user, for any rows, tasks and screens.     *)
(*                                                                         *)
(* What makes the screens right is which tasks can be under way together:  *)
(* of the tasks of the screen shown one at most submits, one at most loads *)
(* an employee, and none loads once the employee is there to be changed.   *)
(***************************************************************************)
EXTENDS HrScreens, FiniteSetTheorems, TLAPS

StoreOK ==
    /\ department \subseteq Departments /\ position \subseteq Positions
    /\ employee \in [Employees -> position \cup {None}]

ScreenOK ==
    /\ page \in Pages \cup {"blank"} /\ address \in Employed \cup {None}
    /\ departments \subseteq department /\ positions \subseteq position
    /\ shown = None \/ shown \in [id : Employed, position : position]
    /\ error \in BOOLEAN /\ made \subseteq Employed
    /\ page = "detail" <=> address # None
    /\ shown # None => page = "detail"

-----------------------------------------------------------------------------
\* The screen whose task a function is.
ScreenOf ==
    [list |-> "list", new |-> "new", detail |-> "detail", org |-> "org",
     department |-> "org", position |-> "org", create |-> "new", save |-> "detail"]

\* What was asked for, and what came back, is there.
Asked(t) ==
    /\ t.fn = "department" => t.asks \in Departments
    /\ t.fn \in Submits => t.asks \in position
    /\ t.fn \in {"detail", "save"} => t.of \in Employed

Came(t) ==
    /\ t.save = "ok" =>
         /\ t.fn \in Adds => t.made \in department \cup position
         /\ t.fn = "create" => t.made \in Employed
         /\ t.fn = "save" => t.made \in position
    /\ t.got["departments"] \subseteq department
    /\ t.got["positions"] \subseteq position
    /\ t.got["employee"] \subseteq position

\* What a refresh has read, or will find, of the departments and positions.
WillShow(t) ==
    (IF "departments" \in t.wait THEN department ELSE t.got["departments"])
      \cup (IF "positions" \in t.wait THEN position ELSE t.got["positions"])

\* A refresh asks for its lists after the creation was answered.
ReadsAfter(t) ==
    /\ t.save # "none" /\ ~t.failed => t.wait = Gets[t.fn]
    /\ t.fn \in Adds /\ t.save = "none" /\ ~t.failed => t.seen \cup {t.made} \subseteq WillShow(t)

TaskOK(t) ==
    /\ t \in Task /\ t.wait \subseteq Gets[t.fn]
    /\ t.live => page = ScreenOf[t.fn]
    /\ ~t.live => t.save # "none"
    /\ t.save # "none" => t.fn \in Adds \cup Submits
    /\ t.fn \in Submits => t.save # "none"
    /\ Asked(t) /\ Came(t) /\ ReadsAfter(t)

TasksOK ==
    /\ tasks = [s \in Slots |-> tasks[s]]
    /\ \A s \in Slots : tasks[s] # None => TaskOK(tasks[s])

-----------------------------------------------------------------------------
\* The tasks of the screen shown.
Runs(s, fns) == Live(s) /\ tasks[s].fn \in fns

OneSubmits ==
    /\ \A s, q \in Slots : Runs(s, Submits) /\ Runs(q, Submits) => s = q
    /\ busy = \E s \in Slots : Runs(s, Submits)

OneLoads ==
    /\ \A s, q \in Slots : Runs(s, {"detail"}) /\ Runs(q, {"detail"}) => s = q
    /\ \A s \in Slots : Runs(s, {"detail"}) => shown = None

\* An employee that the form made is being awaited by its one submission.
MadeByOne ==
    /\ \A e, f \in made : e = f
    /\ made # {} =>
         \E s \in Slots :
           Runs(s, {"create"}) /\ (tasks[s].save = "ok" \/ tasks[s].failed)

LiveOK == OneSubmits /\ OneLoads /\ SavesWhatIsShown /\ MadeByOne

IInv == StoreOK /\ ScreenOK /\ TasksOK /\ LiveOK

-----------------------------------------------------------------------------
USE NoneAssumption

LEMMA TheFunctions ==
    /\ DOMAIN Gets = {"list", "new", "detail", "org", "department", "position",
                      "create", "save"}
    /\ Gets["list"] = {"employees"} /\ Gets["new"] = {"positions"}
    /\ Gets["detail"] = {"employee", "positions"} /\ Gets["org"] = OrgLists
    /\ Gets["department"] = OrgLists /\ Gets["position"] = OrgLists
    /\ Gets["create"] = {} /\ Gets["save"] = {}
    /\ ScreenOf["list"] = "list" /\ ScreenOf["new"] = "new"
    /\ ScreenOf["detail"] = "detail" /\ ScreenOf["org"] = "org"
    /\ ScreenOf["department"] = "org" /\ ScreenOf["position"] = "org"
    /\ ScreenOf["create"] = "new" /\ ScreenOf["save"] = "detail"
  BY DEF Gets, ScreenOf

LEMMA GetsAreLists == \A fn \in DOMAIN Gets : Gets[fn] \in SUBSET Lists
  BY TheFunctions DEF Lists, OrgLists

LEMMA TaskFields ==
    ASSUME NEW t \in Task
    PROVE  /\ t # None
           /\ t.fn \in DOMAIN Gets /\ t.of \in Employees \cup {None}
           /\ t.asks \in Rows \cup {None} /\ t.save \in {"none", "awaited", "ok"}
           /\ t.made \in Rows \cup {None} /\ t.wait \in SUBSET Lists
           /\ t.got \in [Lists -> SUBSET Rows] /\ t.seen \in SUBSET Rows
           /\ t.failed \in BOOLEAN /\ t.live \in BOOLEAN
  <1> HIDE DEF Gets
  <1> QED
    BY DEF Task

\* What the backend has is never taken away.
Grows ==
    /\ department \subseteq department' /\ position \subseteq position'
    /\ \A e \in Employees : employee[e] # None => employee'[e] # None

LEMMA WhoIsAsked ==
    ASSUME IInv, NEW s \in Slots, tasks[s] # None
    PROVE  /\ tasks[s] \in Task
           /\ tasks[s].fn = "department" => tasks[s].asks \in Departments
           /\ tasks[s].fn \in Submits => tasks[s].asks \in position
           /\ tasks[s].fn = "save" => tasks[s].of \in Employees
  BY DEF IInv, TasksOK, TaskOK, Asked, Employed

LEMMA StoreGrows ==
    ASSUME IInv, [Next]_vars
    PROVE  StoreOK' /\ Grows
  <1> USE DEF IInv, StoreOK, Grows
  <1>1. CASE UNCHANGED backend
    BY <1>1 DEF backend
  <1>2. CASE Elsewhere
    BY <1>2 DEF Elsewhere, Rows
  <1>3. ASSUME NEW s \in Slots, CreateDepartment(s)
        PROVE  StoreOK' /\ Grows
    BY <1>3, WhoIsAsked DEF CreateDepartment, Awaits
  <1>4. ASSUME NEW s \in Slots, CreatePosition(s)
        PROVE  StoreOK' /\ Grows
    BY <1>4 DEF CreatePosition
  <1>5. ASSUME NEW s \in Slots, CreateEmployee(s)
        PROVE  StoreOK' /\ Grows
    <2>1. tasks[s].asks \in position /\ position' = position /\ department' = department
      BY <1>5, WhoIsAsked DEF CreateEmployee, Awaits, Submits
    <2>2. PICK e \in Employees : employee' = [employee EXCEPT ![e] = tasks[s].asks]
      BY <1>5 DEF CreateEmployee, Employed
    <2> QED
      BY <2>1, <2>2 DEF Rows
  <1>6. ASSUME NEW s \in Slots, UpdateEmployee(s)
        PROVE  StoreOK' /\ Grows
    <2>1. tasks[s].asks \in position /\ position' = position /\ department' = department
      BY <1>6, WhoIsAsked DEF UpdateEmployee, Awaits, Submits
    <2>2. PICK p \in position : employee' = [employee EXCEPT ![tasks[s].of] = p]
      BY <1>6, <2>1 DEF UpdateEmployee
    <2> QED
      BY <2>1, <2>2 DEF Rows
  <1>7. CASE Act
    BY <1>1, <1>7 DEF Act, Visit, AddDepartment, AddPosition, SubmitForm, ChangePosition, Press
  <1>8. ASSUME NEW s \in Slots, Continue(s) \/ Refuse(s) \/ \E l \in Lists : Read(s, l)
        PROVE  StoreOK' /\ Grows
    BY <1>1, <1>8 DEF Continue, Refuse, Read, Added, Refreshed, Initialised, Created, Saved, Failed
  <1> QED
    BY <1>1, <1>2, <1>3, <1>4, <1>5, <1>6, <1>7, <1>8 DEF Next, Answer, vars

-----------------------------------------------------------------------------
\* A task that is left alone stays right while the backend grows under it.
LEMMA TaskStays ==
    ASSUME IInv, Grows, StoreOK', NEW t, TaskOK(t), page' = page \/ ~t.live
    PROVE  TaskOK(t)'
  <1>0. t \in Task /\ t.wait \subseteq Gets[t.fn]
    BY DEF TaskOK
  <1>1. /\ t.live => page' = ScreenOf[t.fn]
        /\ ~t.live => t.save # "none"
        /\ t.save # "none" => t.fn \in Adds \cup Submits
        /\ t.fn \in Submits => t.save # "none"
    BY DEF TaskOK
  <1>2. Asked(t)'
    BY DEF TaskOK, Asked, Grows, Employed
  <1>3. Came(t)'
    BY DEF TaskOK, Came, Grows, Employed
  <1>4. ReadsAfter(t)'
    BY DEF TaskOK, ReadsAfter, WillShow, Grows
  <1> QED
    BY <1>0, <1>1, <1>2, <1>3, <1>4 DEF TaskOK

\* The tasks are right when each of them is.
LEMMA TasksAre ==
    ASSUME tasks' = [s \in Slots |-> tasks'[s]],
           \A s \in Slots : \A t : t = tasks'[s] /\ t # None => TaskOK(t)'
    PROVE  TasksOK'
  BY DEF TasksOK, TaskOK, Asked, Came, ReadsAfter, WillShow, Employed

LEMMA OneTaskChanges ==
    ASSUME IInv, Grows, StoreOK', NEW s \in Slots, NEW u,
           tasks' = [tasks EXCEPT ![s] = u], page' = page, u # None => TaskOK(u)'
    PROVE  TasksOK'
  <1>1. tasks' = [q \in Slots |-> tasks'[q]]
    BY DEF IInv, TasksOK
  <1>2. ASSUME NEW q \in Slots, NEW t, t = tasks'[q], t # None
        PROVE  TaskOK(t)'
    <2>1. CASE q = s
      BY <1>2, <2>1 DEF IInv, TasksOK
    <2>2. CASE q # s
      <3>1. t = tasks[q]
        BY <1>2, <2>2 DEF IInv, TasksOK
      <3>2. TaskOK(t)
        BY <1>2, <3>1 DEF IInv, TasksOK
      <3> QED
        BY <3>2, TaskStays
    <2> QED
      BY <2>1, <2>2
  <1> QED
    BY <1>1, <1>2, TasksAre

LEMMA NewTaskIsTask ==
    ASSUME NEW fn \in DOMAIN Gets, NEW of \in Employees \cup {None},
           NEW asks \in Rows \cup {None}
    PROVE  NewTask(fn, of, asks) \in Task
  <1>1. Gets[fn] \in SUBSET Lists
    BY GetsAreLists
  <1>2. Nothing \in [Lists -> SUBSET Rows]
    BY DEF Nothing
  <1> HIDE DEF Gets
  <1> QED
    BY <1>1, <1>2 DEF NewTask, Task

\* A task that begins.
LEMMA TaskBegins ==
    ASSUME NEW fn \in DOMAIN Gets, NEW of \in Employees \cup {None},
           NEW asks \in Rows \cup {None}, NEW t, t = NewTask(fn, of, asks),
           page' = ScreenOf[fn],
           fn = "department" => asks \in Departments,
           fn \in Submits => asks \in position',
           fn \in {"detail", "save"} => of \in Employees /\ employee'[of] # None
    PROVE  TaskOK(t)'
  <1>1. /\ t.fn = fn /\ t.of = of /\ t.asks = asks /\ t.made = None
        /\ t.save = IF fn \in Adds \cup Submits THEN "awaited" ELSE "none"
        /\ t.wait = Gets[fn] /\ t.got = Nothing
        /\ t.seen = {} /\ t.failed = FALSE /\ t.live = TRUE
    BY DEF NewTask
  <1>2. t \in Task
    BY NewTaskIsTask
  <1>3. /\ t.got["departments"] = {} /\ t.got["positions"] = {} /\ t.got["employee"] = {}
    BY <1>1 DEF Nothing, Lists, OrgLists
  <1>4. Asked(t)'
    BY <1>1 DEF Asked, Employed
  <1>5. Came(t)' /\ ReadsAfter(t)'
    BY <1>1, <1>3 DEF Came, ReadsAfter, Adds
  <1> QED
    BY <1>1, <1>2, <1>4, <1>5 DEF TaskOK

\* A screen comes up with the task that loads it.
LEMMA ShowsTasks ==
    ASSUME IInv, Grows, StoreOK', NEW p \in Pages, NEW a \in Employees \cup {None},
           NEW ts, Show(p, a, ts), page' # page,
           p = "detail" => a # None /\ employee'[a] # None,
           \A s \in Slots : ts[s] = None \/ ts[s] = tasks[s]
    PROVE  TasksOK'
  <1>1. PICK s \in Slots :
          tasks' = [Detached(ts) EXCEPT ![s] = NewTask(p, a, None)]
    BY DEF Show
  <1>2. page' = p
    BY DEF Show
  <1>3. tasks' = [q \in Slots |-> tasks'[q]]
    BY <1>1 DEF Detached
  <1>4. ASSUME NEW q \in Slots, NEW t, t = tasks'[q], t # None
        PROVE  TaskOK(t)'
    <2>1. CASE q = s
      <3>1. t = NewTask(p, a, None)
        BY <1>1, <1>4, <2>1 DEF Detached
      <3>2. p \in DOMAIN Gets /\ page' = ScreenOf[p] /\ p \notin Submits \cup {"department", "save"}
        BY <1>2, TheFunctions DEF Pages, Submits
      <3> QED
        BY <3>1, <3>2, TaskBegins
    <2>2. CASE q # s
      <3>1. /\ tasks[q] # None /\ tasks[q].save # "none"
            /\ t = [tasks[q] EXCEPT !.live = FALSE]
        BY <1>1, <1>4, <2>2 DEF Detached
      <3>2. PICK v : v = tasks[q]
        OBVIOUS
      <3>3. TaskOK(v) /\ v \in Task
        BY <3>1, <3>2 DEF IInv, TasksOK, TaskOK
      <3>4. t = [v EXCEPT !.live = FALSE]
        BY <3>1, <3>2
      <3>5. /\ t \in Task /\ ~t.live
            /\ t.fn = v.fn /\ t.of = v.of /\ t.asks = v.asks /\ t.made = v.made
            /\ t.save = v.save /\ t.wait = v.wait /\ t.got = v.got
            /\ t.seen = v.seen /\ t.failed = v.failed
        <4> HIDE DEF Gets
        <4> QED
          BY <3>3, <3>4 DEF Task
      <3>6. TaskOK(t)
        BY <3>1, <3>2, <3>3, <3>5 DEF TaskOK, Asked, Came, ReadsAfter, WillShow
      <3> QED
        BY <3>5, <3>6, TaskStays
    <2> QED
      BY <2>1, <2>2
  <1> QED
    BY <1>3, <1>4, TasksAre

\* A task goes on as what it was, and the others with it.
Kept(s) ==
    /\ tasks[s] # None /\ tasks'[s] # None
    /\ tasks'[s].fn = tasks[s].fn /\ tasks'[s].of = tasks[s].of
    /\ tasks'[s].live = tasks[s].live
    /\ \A q \in Slots : q # s => tasks'[q] = tasks[q]

\* A GET of a task is answered from what the backend has.
LEMMA ReadKeepsTasks ==
    ASSUME IInv, Grows, StoreOK', NEW s \in Slots, NEW l \in Lists, Read(s, l)
    PROVE  TasksOK' /\ Kept(s)
  <1>1. PICK t, u : /\ t = tasks[s] /\ t # None
                    /\ u = [t EXCEPT !.wait = @ \ {l}, !.got[l] = Table(l, t.of)]
    BY DEF Read, Awaits
  <1>2. /\ ~t.failed /\ t.save = "none" /\ l \in t.wait
        /\ tasks' = [tasks EXCEPT ![s] = u]
        /\ UNCHANGED <<department, position, employee, page>>
    BY <1>1 DEF Read, Awaits, backend, screen
  <1>3. TaskOK(t) /\ t \in Task
    BY <1>1 DEF IInv, TasksOK, TaskOK
  <1>4. /\ l = "departments" => Table(l, t.of) = department
        /\ l = "positions" => Table(l, t.of) = position
        /\ l = "employee" => Table(l, t.of) \subseteq position
        /\ Table(l, t.of) \subseteq Rows
    <2>1. l = "employee" => t.fn = "detail"
      BY <1>2, <1>3, TaskFields, TheFunctions DEF TaskOK, OrgLists
    <2>2. l = "employee" => employee[t.of] \in position
      BY <1>3, <2>1 DEF TaskOK, Asked, Employed, IInv, StoreOK
    <2> QED
      BY <2>2 DEF Table, Lists, OrgLists, IInv, StoreOK, Rows
  <1>5. /\ u \in Task
        /\ u.fn = t.fn /\ u.of = t.of /\ u.asks = t.asks /\ u.made = t.made
        /\ u.save = t.save /\ u.seen = t.seen /\ u.failed = t.failed /\ u.live = t.live
        /\ u.wait = t.wait \ {l} /\ u.got = [t.got EXCEPT ![l] = Table(l, t.of)]
    <2> HIDE DEF Gets
    <2> QED
      BY <1>1, <1>3, <1>4 DEF Task
  <1>6. /\ t.got \in [Lists -> SUBSET Rows]
        /\ "departments" \in Lists /\ "positions" \in Lists /\ "employee" \in Lists
    BY <1>3, TaskFields DEF Lists, OrgLists
  <1>7. \A m \in Lists : u.got[m] = IF m = l THEN Table(l, t.of) ELSE t.got[m]
    BY <1>5, <1>6
  <1>8. Came(u)
    BY <1>3, <1>4, <1>5, <1>6, <1>7 DEF TaskOK, Came
  <1>9. WillShow(u) = WillShow(t)
    BY <1>2, <1>4, <1>5, <1>6, <1>7 DEF WillShow
  <1>10. Asked(u) /\ ReadsAfter(u)
    BY <1>2, <1>3, <1>5, <1>9 DEF TaskOK, Asked, ReadsAfter
  <1>11. TaskOK(u)
    BY <1>3, <1>5, <1>8, <1>10 DEF TaskOK
  <1>12. TaskOK(u)'
    BY <1>2, <1>11, TaskStays
  <1>13. Kept(s)
    BY <1>1, <1>2, <1>5 DEF Kept, IInv, TasksOK
  <1> QED
    BY <1>2, <1>12, <1>13, OneTaskChanges

\* A call fails.
LEMMA FailKeepsTasks ==
    ASSUME IInv, Grows, StoreOK', NEW s \in Slots, tasks[s] # None, Fail(s), page' = page
    PROVE  TasksOK' /\ Kept(s)
  <1>1. PICK t, u : /\ t = tasks[s] /\ t # None
                    /\ u = [t EXCEPT !.failed = TRUE, !.wait = {}, !.got = Nothing]
    OBVIOUS
  <1>2. tasks' = [tasks EXCEPT ![s] = u]
    BY <1>1 DEF Fail
  <1>3. TaskOK(t) /\ t \in Task
    BY <1>1 DEF IInv, TasksOK, TaskOK
  <1>4. /\ Nothing \in [Lists -> SUBSET Rows]
        /\ Nothing["departments"] = {} /\ Nothing["positions"] = {}
        /\ Nothing["employee"] = {}
    BY DEF Nothing, Lists, OrgLists
  <1>5. /\ u \in Task
        /\ u.fn = t.fn /\ u.of = t.of /\ u.asks = t.asks /\ u.made = t.made
        /\ u.save = t.save /\ u.seen = t.seen /\ u.failed = TRUE /\ u.live = t.live
        /\ u.wait = {} /\ u.got = Nothing
    <2> HIDE DEF Gets
    <2> QED
      BY <1>1, <1>3, <1>4 DEF Task
  <1>6. TaskOK(u)
    BY <1>3, <1>4, <1>5 DEF TaskOK, Asked, Came, ReadsAfter
  <1>7. TaskOK(u)'
    BY <1>6, TaskStays
  <1>8. Kept(s)
    BY <1>1, <1>2, <1>5 DEF Kept, IInv, TasksOK
  <1> QED
    BY <1>2, <1>7, <1>8, OneTaskChanges

\* What a POST or PATCH wrote is there when its answer comes.
LEMMA WrittenKeepsTasks ==
    ASSUME IInv, Grows, StoreOK', NEW s \in Slots, Awaits(s, "awaited"),
           NEW row \in Rows, Written(s, row),
           tasks[s].fn \in Adds => row \in department' \cup position',
           tasks[s].fn = "create" => row \in Employees /\ employee'[row] # None,
           tasks[s].fn = "save" => row \in position'
    PROVE  TasksOK' /\ Kept(s)
  <1>0. page' = page /\ tasks[s] # None
    BY DEF Written, screen, Awaits
  <1>1. CASE Fail(s)
    BY <1>0, <1>1, FailKeepsTasks
  <1>2. CASE tasks' = [tasks EXCEPT ![s].save = "ok", ![s].made = row]
    <2>1. PICK t, u : t = tasks[s] /\ u = [t EXCEPT !.save = "ok", !.made = row]
      OBVIOUS
    <2>2. tasks' = [tasks EXCEPT ![s] = u]
      BY <1>2, <2>1
    <2>3. TaskOK(t) /\ t \in Task /\ t.save = "awaited" /\ ~t.failed
      BY <1>0, <2>1 DEF IInv, TasksOK, TaskOK, Awaits
    <2>4. /\ u \in Task
          /\ u.fn = t.fn /\ u.of = t.of /\ u.asks = t.asks /\ u.made = row
          /\ u.save = "ok" /\ u.seen = t.seen /\ u.failed = t.failed /\ u.live = t.live
          /\ u.wait = t.wait /\ u.got = t.got
      <3> HIDE DEF Gets
      <3> QED
        BY <2>1, <2>3 DEF Task
    <2>5. TaskOK(t)'
      BY <1>0, <2>3, TaskStays
    <2>6. Came(u)'
      BY <2>1, <2>4, <2>5 DEF TaskOK, Came, Employed
    <2>7. Asked(u)' /\ ReadsAfter(u)'
      BY <2>3, <2>4, <2>5 DEF TaskOK, Asked, ReadsAfter, Employed
    <2>8. TaskOK(u)'
      BY <2>3, <2>4, <2>5, <2>6, <2>7 DEF TaskOK
    <2>9. Kept(s)
      BY <1>0, <2>1, <2>2, <2>4 DEF Kept, IInv, TasksOK
    <2> QED
      BY <1>0, <2>2, <2>8, <2>9, OneTaskChanges
  <1> QED
    BY <1>1, <1>2 DEF Written

\* A task ends.
LEMMA TakenKeepsTasks ==
    ASSUME IInv, Grows, StoreOK', NEW s \in Slots, tasks' = Taken(s), page' = page
    PROVE  TasksOK'
  BY OneTaskChanges DEF Taken

\* A refresh begins.
LEMMA AddedKeepsTasks ==
    ASSUME IInv, Grows, StoreOK', NEW s \in Slots, Added(s)
    PROVE  TasksOK' /\ (tasks[s].live => Kept(s))
  <1>0. page' = page /\ UNCHANGED <<department, position, employee>>
    BY DEF Added, backend, screen
  <1>1. CASE ~tasks[s].live
    BY <1>0, <1>1, TakenKeepsTasks DEF Added
  <1>2. CASE tasks[s].live
    <2>1. PICK t, u : /\ t = tasks[s] /\ t # None
                      /\ u = [t EXCEPT !.save = "none", !.seen = departments \cup positions]
      BY DEF Added, Awaits
    <2>2. tasks' = [tasks EXCEPT ![s] = u]
      BY <1>2, <2>1 DEF Added
    <2>3. /\ TaskOK(t) /\ t \in Task /\ t.save = "ok" /\ ~t.failed /\ t.live
          /\ t.fn \in Adds
      BY <1>2, <2>1 DEF Added, IInv, TasksOK, TaskOK, Awaits
    <2>4. departments \cup positions \subseteq department \cup position
      BY DEF IInv, ScreenOK
    <2>5. /\ u \in Task
          /\ u.fn = t.fn /\ u.of = t.of /\ u.asks = t.asks /\ u.made = t.made
          /\ u.save = "none" /\ u.seen = departments \cup positions
          /\ u.failed = t.failed /\ u.live = t.live
          /\ u.wait = t.wait /\ u.got = t.got
      <3>1. departments \cup positions \in SUBSET Rows
        BY <2>4 DEF IInv, StoreOK, Rows
      <3> HIDE DEF Gets
      <3> QED
        BY <2>1, <2>3, <3>1 DEF Task
    <2>6. WillShow(u) = department \cup position
      BY <2>3, <2>5, TheFunctions DEF TaskOK, ReadsAfter, WillShow, Adds, OrgLists
    <2>7. ReadsAfter(u)
      BY <2>3, <2>4, <2>5, <2>6 DEF TaskOK, ReadsAfter, Came
    <2>8. TaskOK(u)
      BY <2>3, <2>5, <2>7 DEF TaskOK, Asked, Came, Adds, Submits
    <2>9. TaskOK(u)'
      BY <1>0, <2>8, TaskStays
    <2>10. Kept(s)
      BY <2>1, <2>2, <2>3, <2>5 DEF Kept, IInv, TasksOK
    <2> QED
      BY <1>0, <2>2, <2>9, <2>10, OneTaskChanges
  <1> QED
    BY <1>1, <1>2

-----------------------------------------------------------------------------
\* What navigating does: to the screen shown nothing but its address.
LEMMA NavigateKeepsTasks ==
    ASSUME IInv, Grows, StoreOK', NEW p \in Pages, NEW a \in Employees \cup {None},
           NEW ts, ts = tasks \/ (\E s \in Slots : ts = Taken(s)), Navigate(p, a, ts),
           p = "detail" => a # None /\ employee'[a] # None
    PROVE  TasksOK'
  <1>1. CASE page = p
    <2>1. tasks' = ts /\ page' = page
      BY <1>1 DEF Navigate
    <2>2. CASE ts = tasks
      <3>1. tasks' = [s \in Slots |-> tasks'[s]]
        BY <2>1, <2>2 DEF IInv, TasksOK
      <3>2. \A s \in Slots : \A t : t = tasks'[s] /\ t # None => TaskOK(t)'
        BY <2>1, <2>2, TaskStays DEF IInv, TasksOK
      <3> QED
        BY <3>1, <3>2, TasksAre
    <2> QED
      BY <2>1, <2>2, TakenKeepsTasks
  <1>2. CASE page # p
    <2>1. \A s \in Slots : ts[s] = None \/ ts[s] = tasks[s]
      BY DEF Taken, IInv, TasksOK
    <2>2. Show(p, a, ts) /\ page' # page
      BY <1>2 DEF Navigate, Show
    <2> QED
      BY <2>1, <2>2, ShowsTasks
  <1> QED
    BY <1>1, <1>2

LEMMA PressKeepsTasks ==
    ASSUME IInv, Grows, StoreOK', NEW s \in Slots, NEW fn \in DOMAIN Gets,
           NEW of \in Employees \cup {None}, NEW asks \in Rows \cup {None},
           Press(s, NewTask(fn, of, asks)), page = ScreenOf[fn],
           fn = "department" => asks \in Departments,
           fn \in Submits => asks \in position,
           fn \in {"detail", "save"} => of \in Employees /\ employee[of] # None
    PROVE  TasksOK'
  <1>1. PICK u : u = NewTask(fn, of, asks)
    OBVIOUS
  <1>2. /\ tasks' = [tasks EXCEPT ![s] = u] /\ page' = page
        /\ UNCHANGED <<department, position, employee>>
    BY <1>1 DEF Press, backend
  <1>3. TaskOK(u)'
    <2> HIDE DEF Gets
    <2> QED
      BY <1>1, <1>2, TaskBegins
  <1> QED
    BY <1>2, <1>3, OneTaskChanges

LEMMA ActKeepsTasks ==
    ASSUME IInv, Grows, StoreOK', Act
    PROVE  TasksOK'
  <1> USE TheFunctions
  <1> HIDE DEF Gets, ScreenOf
  <1>1. ASSUME NEW p \in Pages, NEW a \in Employed \cup {None}, Visit(p, a)
        PROVE  TasksOK'
    <2>1. /\ a \in Employees \cup {None}
          /\ p = "detail" => a # None /\ employee'[a] # None
          /\ Navigate(p, a, tasks)
      BY <1>1 DEF Visit, Employed, Grows
    <2> QED
      BY <2>1, NavigateKeepsTasks
  <1>2. ASSUME NEW s \in Slots, NEW d \in Departments, AddDepartment(s, d)
        PROVE  TasksOK'
    BY <1>2, PressKeepsTasks DEF AddDepartment, Rows, Submits
  <1>3. ASSUME NEW s \in Slots, NEW d \in Departments, AddPosition(s, d)
        PROVE  TasksOK'
    BY <1>3, PressKeepsTasks DEF AddPosition, Rows, Submits
  <1>4. ASSUME NEW s \in Slots, NEW p \in Positions, SubmitForm(s, p)
        PROVE  TasksOK'
    <2>1. p \in position
      BY <1>4 DEF SubmitForm, IInv, ScreenOK
    <2> QED
      BY <1>4, <2>1, PressKeepsTasks DEF SubmitForm, Rows
  <1>5. ASSUME NEW s \in Slots, NEW p \in Positions, ChangePosition(s, p)
        PROVE  TasksOK'
    <2>1. p \in position /\ shown.id \in Employees /\ employee[shown.id] # None
      BY <1>5 DEF ChangePosition, IInv, ScreenOK, Employed
    <2>2. PICK of \in Employees : of = shown.id
      BY <2>1
    <2>3. Press(s, NewTask("save", of, p)) /\ page = "detail"
      BY <1>5, <2>2 DEF ChangePosition
    <2> QED
      BY <2>1, <2>2, <2>3, PressKeepsTasks DEF Rows
  <1> QED
    BY <1>1, <1>2, <1>3, <1>4, <1>5 DEF Act

LEMMA AnswerKeepsTasks ==
    ASSUME IInv, Grows, StoreOK', NEW s \in Slots, Answer(s)
    PROVE  TasksOK' /\ Kept(s)
  <1>1. ASSUME CreateDepartment(s) PROVE TasksOK' /\ Kept(s)
    <2>1. PICK d : d = tasks[s].asks
      OBVIOUS
    <2>2. /\ d \in Rows /\ d \in department' /\ Awaits(s, "awaited")
          /\ tasks[s].fn = "department" /\ Written(s, d)
      BY <1>1, <2>1, WhoIsAsked DEF CreateDepartment, Awaits, Rows
    <2> QED
      BY <2>2, WrittenKeepsTasks
  <1>2. ASSUME CreatePosition(s) PROVE TasksOK' /\ Kept(s)
    <2>1. PICK p \in Positions : Written(s, p) /\ p \in position'
      BY <1>2 DEF CreatePosition
    <2>2. p \in Rows /\ Awaits(s, "awaited") /\ tasks[s].fn = "position"
      BY <1>2 DEF CreatePosition, Rows
    <2> QED
      BY <2>1, <2>2, WrittenKeepsTasks
  <1>3. ASSUME CreateEmployee(s) PROVE TasksOK' /\ Kept(s)
    <2>1. PICK e \in Employees : /\ employee' = [employee EXCEPT ![e] = tasks[s].asks]
                                 /\ Written(s, e)
      BY <1>3 DEF CreateEmployee
    <2>2. /\ e \in Rows /\ Awaits(s, "awaited") /\ tasks[s].fn = "create"
          /\ tasks[s].asks \in position
      BY <1>3, WhoIsAsked DEF CreateEmployee, Rows, Awaits, Submits
    <2>3. employee'[e] # None
      BY <2>1, <2>2 DEF IInv, StoreOK, Rows
    <2> QED
      BY <2>1, <2>2, <2>3, WrittenKeepsTasks DEF Adds
  <1>4. ASSUME UpdateEmployee(s) PROVE TasksOK' /\ Kept(s)
    <2>1. PICK p : p = employee'[tasks[s].of]
      OBVIOUS
    <2>2. /\ Awaits(s, "awaited") /\ tasks[s].fn = "save" /\ Written(s, p)
      BY <1>4, <2>1 DEF UpdateEmployee
    <2>3. tasks[s].of \in Employees /\ employee[tasks[s].of] # None
      BY <2>2 DEF Awaits, IInv, TasksOK, TaskOK, Asked, Employed
    <2>4. p \in position' /\ p \in Rows
      BY <2>1, <2>3 DEF StoreOK, Grows, Rows
    <2> QED
      BY <2>2, <2>4, WrittenKeepsTasks DEF Adds
  <1>5. ASSUME Refuse(s) PROVE TasksOK' /\ Kept(s)
    BY <1>5, FailKeepsTasks DEF Refuse, screen
  <1> QED
    BY <1>1, <1>2, <1>3, <1>4, <1>5, ReadKeepsTasks DEF Answer

LEMMA ContinueKeepsTasks ==
    ASSUME IInv, Grows, StoreOK', NEW s \in Slots, Continue(s)
    PROVE  TasksOK'
  <1>1. CASE Created(s)
    <2>1. PICK e : e = tasks[s].made
      OBVIOUS
    <2>2. /\ e \in Employees /\ e # None /\ employee'[e] # None
          /\ Navigate("detail", e, Taken(s))
      BY <1>1, <2>1 DEF Created, Awaits, IInv, TasksOK, TaskOK, Came, Employed, Grows, Rows
    <2>3. PICK ts : ts = Taken(s)
      OBVIOUS
    <2>4. Navigate("detail", e, ts)
      BY <2>2, <2>3
    <2> QED
      BY <2>2, <2>3, <2>4, NavigateKeepsTasks DEF Pages
  <1>2. CASE Refreshed(s) \/ Initialised(s) \/ Saved(s) \/ Failed(s)
    BY <1>2, TakenKeepsTasks DEF Refreshed, Initialised, Saved, Failed
  <1> QED
    BY <1>1, <1>2, AddedKeepsTasks DEF Continue

LEMMA TasksStayOK ==
    ASSUME IInv, [Next]_vars
    PROVE  TasksOK'
  <1>1. Grows /\ StoreOK'
    BY StoreGrows
  <1>2. CASE Elsewhere \/ UNCHANGED vars
    <2>1. tasks' = tasks /\ page' = page
      BY <1>2 DEF Elsewhere, vars, screen
    <2> QED
      BY <1>1, <2>1, TasksAre, TaskStays DEF IInv, TasksOK
  <1> QED
    BY <1>1, <1>2, ActKeepsTasks, AnswerKeepsTasks, ContinueKeepsTasks DEF Next

-----------------------------------------------------------------------------
\* What the screen shows of the backend stays there.
LEMMA ScreenStays ==
    ASSUME IInv, Grows, StoreOK', made' \subseteq Employed',
           UNCHANGED <<page, address, departments, positions, shown>>, error' \in BOOLEAN
    PROVE  ScreenOK'
  <1>1. \A e \in Employed : e \in Employed'
    BY DEF Employed, Grows
  <1>2. shown' = None \/ shown' \in [id : Employed', position : position']
    BY <1>1 DEF IInv, ScreenOK, Grows
  <1> QED
    BY <1>1, <1>2 DEF IInv, ScreenOK, Grows

LEMMA NavigateKeepsScreen ==
    ASSUME IInv, Grows, StoreOK', NEW p \in Pages, NEW a \in Employed' \cup {None},
           NEW ts, Navigate(p, a, ts), (p = "detail") = (a # None)
    PROVE  ScreenOK'
  <1>1. \A e \in Employed : e \in Employed'
    BY DEF Employed, Grows
  <1>2. CASE page = p
    <2>1. /\ address' = a
          /\ UNCHANGED <<page, departments, positions, shown, error, made>>
      BY <1>2 DEF Navigate
    <2>2. shown' = None \/ shown' \in [id : Employed', position : position']
      BY <1>1, <2>1 DEF IInv, ScreenOK, Grows
    <2> QED
      BY <1>1, <1>2, <2>1, <2>2 DEF IInv, ScreenOK, Grows
  <1>3. CASE page # p
    BY <1>3 DEF Navigate, Show, ScreenOK
  <1> QED
    BY <1>2, <1>3

LEMMA ScreenStaysOK ==
    ASSUME IInv, [Next]_vars
    PROVE  ScreenOK'
  <1>1. Grows /\ StoreOK'
    BY StoreGrows
  <1>2. \A e \in Employed : e \in Employed'
    BY <1>1 DEF Employed, Grows
  <1>3. made \subseteq Employed' /\ error \in BOOLEAN
    BY <1>2 DEF IInv, ScreenOK
  <1>4. CASE UNCHANGED <<screen, made>>
    BY <1>1, <1>3, <1>4, ScreenStays DEF screen
  <1>5. CASE Act
    <2>1. ASSUME NEW p \in Pages, NEW a \in Employed \cup {None}, Visit(p, a)
          PROVE  ScreenOK'
      BY <1>1, <1>2, <2>1, NavigateKeepsScreen DEF Visit
    <2>2. ASSUME NEW s, NEW task, Press(s, task)
          PROVE  ScreenOK'
      BY <1>1, <1>3, <2>2, ScreenStays DEF Press
    <2> QED
      BY <1>5, <2>1, <2>2 DEF Act, AddDepartment, AddPosition, SubmitForm, ChangePosition
  <1>6. ASSUME NEW s \in Slots, Answer(s)
        PROVE  ScreenOK'
    <2>1. CASE CreateEmployee(s)
      <3>1. PICK e \in Employees : /\ employee' = [employee EXCEPT ![e] = tasks[s].asks]
                                   /\ made' \subseteq made \cup {e}
        BY <2>1 DEF CreateEmployee
      <3>2. tasks[s].asks \in position
        BY <2>1, WhoIsAsked DEF CreateEmployee, Awaits, Submits
      <3>3. e \in Employed'
        BY <3>1, <3>2 DEF Employed, IInv, StoreOK, Rows
      <3> QED
        BY <1>1, <1>3, <2>1, <3>1, <3>3, ScreenStays DEF CreateEmployee, Written, screen
    <2> QED
      BY <1>4, <1>6, <2>1 DEF Answer, Read, CreateDepartment, CreatePosition,
                              UpdateEmployee, Refuse, Written
  <1>7. ASSUME NEW s \in Slots, Created(s)
        PROVE  ScreenOK'
    <2>1. PICK e, ts : e = tasks[s].made /\ ts = Taken(s)
      OBVIOUS
    <2>2. e \in Employed' /\ e # None /\ Navigate("detail", e, ts)
      BY <1>2, <1>7, <2>1 DEF Created, Awaits, IInv, TasksOK, TaskOK, Came, Employed, Rows
    <2> QED
      BY <1>1, <2>2, NavigateKeepsScreen DEF Pages
  <1>8. ASSUME NEW s \in Slots, Refreshed(s) \/ Initialised(s)
        PROVE  ScreenOK'
    <2>1. /\ UNCHANGED <<department, position, employee, page, address, error, made>>
          /\ tasks[s] # None /\ tasks[s].save = "none"
      BY <1>8 DEF Refreshed, Initialised, backend, Loaded, Awaits
    <2>2. /\ tasks[s].got["departments"] \subseteq department
          /\ tasks[s].got["positions"] \subseteq position
          /\ tasks[s].got["employee"] \subseteq position
          /\ page = ScreenOf[tasks[s].fn]
          /\ tasks[s].fn = "detail" => tasks[s].of \in Employed
      BY <2>1, TaskFields DEF IInv, TasksOK, TaskOK, Came, Asked
    <2>3. departments' \subseteq department /\ positions' \subseteq position
      BY <1>8, <2>2 DEF Refreshed, Initialised, IInv, ScreenOK
    <2>4. \/ shown' = shown
          \/ shown' \in [id : Employed, position : position] /\ page = "detail"
      BY <1>8, <2>2, TheFunctions DEF Refreshed, Initialised
    <2>5. Employed' = Employed
      BY <2>1 DEF Employed
    <2> QED
      BY <2>1, <2>3, <2>4, <2>5 DEF IInv, ScreenOK
  <1>9. ASSUME NEW s \in Slots, Saved(s) \/ Failed(s)
        PROVE  ScreenOK'
    <2>1. /\ UNCHANGED <<department, position, employee, page, address, departments, positions>>
          /\ tasks[s] # None
          /\ made' \subseteq made
      BY <1>9 DEF Saved, Failed, backend, Awaits, Set
    <2>2. error' \in BOOLEAN
      BY <1>3, <1>9 DEF Saved, Failed, Set
    <2>3. \/ shown' = shown
          \/ /\ tasks[s].live /\ tasks[s].fn = "save" /\ tasks[s].save = "ok"
             /\ shown' = [id |-> tasks[s].of, position |-> tasks[s].made]
      BY <1>9 DEF Saved, Failed, Set, Awaits
    <2>4. \/ shown' = shown
          \/ shown' \in [id : Employed, position : position] /\ page = "detail"
      BY <2>1, <2>3, TheFunctions DEF IInv, TasksOK, TaskOK, Came, Asked
    <2>5. Employed' = Employed
      BY <2>1 DEF Employed
    <2> QED
      BY <2>1, <2>2, <2>4, <2>5 DEF IInv, ScreenOK
  <1>10. ASSUME NEW s \in Slots, Added(s)
         PROVE  ScreenOK'
    BY <1>4, <1>10 DEF Added
  <1> QED
    BY <1>4, <1>5, <1>6, <1>7, <1>8, <1>9, <1>10 DEF Next, Elsewhere, Continue, vars

-----------------------------------------------------------------------------
\* A step after which the same tasks of the screen shown run.
SameLive ==
    \A q \in Slots :
      /\ Live(q)' = Live(q)
      /\ Live(q) => tasks'[q].fn = tasks[q].fn /\ tasks'[q].of = tasks[q].of

SameSaves ==
    \A q \in Slots :
      Live(q) /\ tasks[q].fn = "create" /\ (tasks[q].save = "ok" \/ tasks[q].failed)
        => tasks'[q].save = "ok" \/ tasks'[q].failed

LEMMA SameRuns ==
    ASSUME IInv, SameLive, UNCHANGED <<shown, busy>>
    PROVE  OneSubmits' /\ OneLoads' /\ SavesWhatIsShown'
  <1>1. \A q \in Slots : /\ Runs(q, Submits)' = Runs(q, Submits)
                         /\ Runs(q, {"detail"})' = Runs(q, {"detail"})
    BY DEF SameLive, Runs
  <1>2. OneSubmits'
    BY <1>1 DEF IInv, LiveOK, OneSubmits
  <1>3. OneLoads'
    BY <1>1 DEF IInv, LiveOK, OneLoads
  <1>4. SavesWhatIsShown'
    BY DEF IInv, LiveOK, SavesWhatIsShown, SameLive
  <1> QED
    BY <1>2, <1>3, <1>4

LEMMA SameMade ==
    ASSUME IInv, SameLive, SameSaves, made' = made
    PROVE  MadeByOne'
  <1>1. \A e, f \in made : e = f
    BY DEF IInv, LiveOK, MadeByOne
  <1>2. ASSUME made # {}
        PROVE  \E s \in Slots :
                 Runs(s, {"create"})' /\ (tasks'[s].save = "ok" \/ tasks'[s].failed)
    <2>1. PICK s \in Slots : Runs(s, {"create"}) /\ (tasks[s].save = "ok" \/ tasks[s].failed)
      BY <1>2 DEF IInv, LiveOK, MadeByOne
    <2> QED
      BY <2>1 DEF SameLive, SameSaves, Runs
  <1> QED
    BY <1>1, <1>2 DEF MadeByOne

\* After a task is taken the others run on.
LEMMA TakenRuns ==
    ASSUME IInv, NEW s \in Slots, tasks' = Taken(s)
    PROVE  /\ ~Live(s)'
           /\ \A q \in Slots : q # s => tasks'[q] = tasks[q] /\ Live(q)' = Live(q)
           /\ ~Live(s) => SameLive /\ SameSaves
  <1>1. tasks'[s] = None /\ \A q \in Slots : q # s => tasks'[q] = tasks[q]
    BY DEF Taken, IInv, TasksOK
  <1> QED
    BY <1>1 DEF Live, SameLive, SameSaves

\* Of a screen that comes up one task runs, the one that loads it.
LEMMA ShowRuns ==
    ASSUME IInv, NEW p \in Pages, NEW a, NEW ts, Show(p, a, ts),
           \A s \in Slots : ts[s] = None \/ ts[s] = tasks[s]
    PROVE  LiveOK'
  <1>1. PICK s \in Slots :
          tasks' = [Detached(ts) EXCEPT ![s] = NewTask(p, a, None)]
    BY DEF Show
  <1>2. shown' = None /\ busy' = FALSE /\ made' = {}
    BY DEF Show
  <1>3. \A q \in Slots : q # s => ~Live(q)'
    <2> SUFFICES ASSUME NEW q \in Slots, q # s, tasks'[q] # None
                 PROVE  ~tasks'[q].live
      BY DEF Live
    <2>1. tasks[q] # None /\ tasks'[q] = [tasks[q] EXCEPT !.live = FALSE]
      BY <1>1 DEF Detached
    <2>2. tasks[q] \in Task
      BY <2>1 DEF IInv, TasksOK, TaskOK
    <2> HIDE DEF Gets
    <2> QED
      BY <2>1, <2>2 DEF Task
  <1>4. Live(s)' => tasks'[s].fn = p
    BY <1>1 DEF Detached, NewTask
  <1>5. p \notin Submits
    BY DEF Pages, Submits
  <1> QED
    BY <1>2, <1>3, <1>4, <1>5 DEF LiveOK, OneSubmits, OneLoads, SavesWhatIsShown,
                                   MadeByOne, Runs, Submits

LEMMA NavigateKeepsLive ==
    ASSUME IInv, NEW p \in Pages, NEW a, NEW ts, Navigate(p, a, ts),
           \/ ts = tasks
           \/ \E s \in Slots : ts = Taken(s) /\ (page = p => ~Live(s))
    PROVE  LiveOK'
  <1>1. CASE page = p
    <2>1. tasks' = ts /\ UNCHANGED <<shown, busy, made>>
      BY <1>1 DEF Navigate
    <2>2. SameLive /\ SameSaves
      <3>1. CASE ts = tasks
        BY <2>1, <3>1 DEF SameLive, SameSaves, Live
      <3> QED
        BY <1>1, <2>1, <3>1, TakenRuns
    <2> QED
      BY <2>1, <2>2, SameRuns, SameMade DEF LiveOK
  <1>2. CASE page # p
    <2>1. \A s \in Slots : ts[s] = None \/ ts[s] = tasks[s]
      BY DEF Taken, IInv, TasksOK
    <2> QED
      BY <1>2, <2>1, ShowRuns DEF Navigate
  <1> QED
    BY <1>1, <1>2

\* A button was pressed.
LEMMA PressRuns ==
    ASSUME IInv, NEW s \in Slots, NEW fn \in DOMAIN Gets,
           NEW of \in Employees \cup {None}, NEW asks \in Rows \cup {None},
           Press(s, NewTask(fn, of, asks))
    PROVE  /\ tasks[s] = None /\ ~Live(s) /\ Live(s)'
           /\ tasks'[s].fn = fn /\ tasks'[s].of = of
           /\ \A q \in Slots : q # s => tasks'[q] = tasks[q] /\ Live(q)' = Live(q)
           /\ shown' = shown /\ made' = made
  <1>1. /\ tasks' = [tasks EXCEPT ![s] = NewTask(fn, of, asks)] /\ tasks[s] = None
        /\ shown' = shown /\ made' = made
    BY DEF Press
  <1>2. tasks'[s] = NewTask(fn, of, asks) /\ \A q \in Slots : q # s => tasks'[q] = tasks[q]
    BY <1>1 DEF IInv, TasksOK
  <1>3. PICK n : n = NewTask(fn, of, asks)
    OBVIOUS
  <1>4. n.fn = fn /\ n.of = of /\ n.live = TRUE
    BY <1>3 DEF NewTask
  <1>5. n # None
    <2>1. n \in Task
      BY <1>3, NewTaskIsTask
    <2> QED
      BY <2>1, TaskFields
  <1> QED
    BY <1>1, <1>2, <1>3, <1>4, <1>5 DEF Live

LEMMA ActKeepsLive ==
    ASSUME IInv, Act
    PROVE  LiveOK'
  <1>1. ASSUME NEW p \in Pages, NEW a \in Employed \cup {None}, Visit(p, a)
        PROVE  LiveOK'
    BY <1>1, NavigateKeepsLive DEF Visit
  <1> HIDE DEF Gets
  <1>2. ASSUME NEW s \in Slots, NEW fn \in Adds, NEW asks \in Rows,
               Press(s, NewTask(fn, None, asks)), busy' = busy
        PROVE  LiveOK'
    <2>0. fn \in DOMAIN Gets
      BY TheFunctions DEF Adds
    <2>1. fn \notin Submits \cup {"detail", "save", "create"}
      BY DEF Adds, Submits
    <2>2. OneSubmits' /\ OneLoads' /\ SavesWhatIsShown'
      BY <1>2, <2>0, <2>1, PressRuns DEF IInv, LiveOK, OneSubmits, OneLoads, SavesWhatIsShown, Runs
    <2>3. MadeByOne'
      BY <1>2, <2>0, <2>1, PressRuns DEF IInv, LiveOK, MadeByOne, Runs
    <2> QED
      BY <2>2, <2>3 DEF LiveOK
  <1>3. ASSUME NEW s \in Slots, NEW fn \in Submits, NEW of \in Employees \cup {None},
               NEW asks \in Rows, Press(s, NewTask(fn, of, asks)), ~busy, busy' = TRUE,
               fn = "save" => shown # None /\ of = shown.id
        PROVE  LiveOK'
    <2>0. fn \in DOMAIN Gets
      BY TheFunctions DEF Submits
    <2>1. \A q \in Slots : ~Runs(q, Submits)
      BY <1>3 DEF IInv, LiveOK, OneSubmits
    <2>2. made = {}
      BY <2>1 DEF IInv, LiveOK, MadeByOne, Runs, Submits
    <2>3. OneSubmits'
      BY <1>3, <2>0, <2>1, PressRuns DEF OneSubmits, Runs
    <2>4. OneLoads'
      BY <1>3, <2>0, PressRuns DEF IInv, LiveOK, OneLoads, Runs, Submits
    <2>5. SavesWhatIsShown'
      BY <1>3, <2>0, PressRuns DEF IInv, LiveOK, SavesWhatIsShown
    <2>6. MadeByOne'
      BY <1>3, <2>0, <2>2, PressRuns DEF MadeByOne
    <2> QED
      BY <2>3, <2>4, <2>5, <2>6 DEF LiveOK
  <1>4. ASSUME NEW s \in Slots, NEW p \in Positions, ChangePosition(s, p)
        PROVE  LiveOK'
    <2>1. PICK of \in Employees : of = shown.id
      BY <1>4 DEF ChangePosition, IInv, ScreenOK, Employed
    <2>2. /\ Press(s, NewTask("save", of, p)) /\ ~busy /\ busy' = TRUE
          /\ shown # None /\ "save" \in Submits
      BY <1>4, <2>1 DEF ChangePosition, Submits
    <2> QED
      BY <1>3, <2>1, <2>2 DEF Rows
  <1>5. ASSUME NEW s \in Slots, NEW d \in Departments, AddDepartment(s, d) \/ AddPosition(s, d)
        PROVE  LiveOK'
    BY <1>2, <1>5 DEF AddDepartment, AddPosition, Adds, Rows
  <1>6. ASSUME NEW s \in Slots, NEW p \in Positions, SubmitForm(s, p)
        PROVE  LiveOK'
    BY <1>3, <1>6 DEF SubmitForm, Submits, Rows
  <1> QED
    BY <1>1, <1>4, <1>5, <1>6 DEF Act

\* An answer leaves the tasks that run running.
LEMMA AnswerRuns ==
    ASSUME IInv, Grows, StoreOK', NEW s \in Slots, Answer(s)
    PROVE  SameLive /\ SameSaves /\ UNCHANGED <<shown, busy>>
  <1>1. Kept(s)
    BY AnswerKeepsTasks
  <1>2. UNCHANGED <<shown, busy>>
    BY DEF Answer, Read, CreateDepartment, CreatePosition, CreateEmployee, UpdateEmployee,
           Refuse, Written, screen
  <1>3. tasks[s].save # "ok" /\ ~tasks[s].failed
    BY DEF Answer, Read, CreateDepartment, CreatePosition, CreateEmployee, UpdateEmployee,
           Refuse, Awaits
  <1>4. SameLive
    BY <1>1 DEF Kept, SameLive, Live
  <1>5. SameSaves
    BY <1>1, <1>3 DEF Kept, SameSaves
  <1> QED
    BY <1>2, <1>4, <1>5

LEMMA AnswerKeepsLive ==
    ASSUME IInv, Grows, StoreOK', NEW s \in Slots, Answer(s)
    PROVE  LiveOK'
  <1>1. SameLive /\ SameSaves /\ UNCHANGED <<shown, busy>>
    BY AnswerRuns
  <1>2. CASE made' = made
    BY <1>1, <1>2, SameRuns, SameMade DEF LiveOK
  <1>3. CASE CreateEmployee(s) /\ tasks[s].live
    <2>1. /\ Awaits(s, "awaited") /\ Live(s) /\ tasks[s].fn = "create"
      BY <1>3 DEF CreateEmployee, Awaits, Live
    <2>2. made = {}
      <3> SUFFICES ASSUME made # {} PROVE FALSE
        OBVIOUS
      <3>1. PICK q \in Slots : Runs(q, {"create"}) /\ (tasks[q].save = "ok" \/ tasks[q].failed)
        BY DEF IInv, LiveOK, MadeByOne
      <3>2. q = s
        BY <2>1, <3>1 DEF IInv, LiveOK, OneSubmits, Runs, Submits
      <3> QED
        BY <2>1, <3>1, <3>2 DEF Awaits
    <2>3. PICK e \in Employees : made' = made \cup {e} /\ Written(s, e)
      BY <1>3 DEF CreateEmployee
    <2>4. tasks'[s].save = "ok" \/ tasks'[s].failed
      <3>1. tasks[s] \in Task
        BY <2>1 DEF Awaits, IInv, TasksOK, TaskOK
      <3>2. CASE tasks' = [tasks EXCEPT ![s].save = "ok", ![s].made = e]
        <4> HIDE DEF Gets
        <4> QED
          BY <3>1, <3>2 DEF IInv, TasksOK, Task
      <3>3. CASE Fail(s)
        <4> HIDE DEF Gets
        <4> QED
          BY <3>1, <3>3 DEF Fail, IInv, TasksOK, Task
      <3> QED
        BY <2>3, <3>2, <3>3 DEF Written
    <2>5. Runs(s, {"create"})'
      BY <1>1, <2>1 DEF SameLive, Runs
    <2>6. MadeByOne'
      BY <2>2, <2>3, <2>4, <2>5 DEF MadeByOne
    <2> QED
      BY <1>1, <2>6, SameRuns DEF LiveOK
  <1> QED
    BY <1>2, <1>3 DEF Answer, Read, CreateDepartment, CreatePosition, CreateEmployee,
                      UpdateEmployee, Refuse

\* A task that is neither a submission nor the loading of an employee ends.
LEMMA OthersRun ==
    ASSUME IInv, NEW s \in Slots, tasks' = Taken(s), UNCHANGED <<shown, busy, made>>,
           ~(Live(s) /\ tasks[s].fn \in Submits)
    PROVE  LiveOK'
  <1>1. OneSubmits'
    BY TakenRuns DEF IInv, LiveOK, OneSubmits, Runs
  <1>2. OneLoads' /\ SavesWhatIsShown'
    BY TakenRuns DEF IInv, LiveOK, OneLoads, SavesWhatIsShown, Runs
  <1>3. MadeByOne'
    BY TakenRuns DEF IInv, LiveOK, MadeByOne, Runs, Submits
  <1> QED
    BY <1>1, <1>2, <1>3 DEF LiveOK

LEMMA ContinueKeepsLive ==
    ASSUME IInv, Grows, StoreOK', NEW s \in Slots, Continue(s)
    PROVE  LiveOK'
  <1>0. tasks[s] # None /\ TaskOK(tasks[s]) /\ tasks[s] \in Task
    BY DEF Continue, Added, Refreshed, Initialised, Created, Saved, Failed, Loaded, Awaits,
           IInv, TasksOK, TaskOK
  <1>1. CASE Created(s)
    <2>1. PICK e, ts : e = tasks[s].made /\ ts = Taken(s)
      OBVIOUS
    <2>2. Navigate("detail", e, ts) /\ tasks[s].fn = "create"
      BY <1>1, <2>1 DEF Created
    <2>3. page = "detail" => ~Live(s)
      BY <1>0, <2>2, TheFunctions DEF TaskOK, Live
    <2> QED
      BY <2>1, <2>2, <2>3, NavigateKeepsLive DEF Pages
  <1>2. CASE Added(s)
    <2>1. UNCHANGED <<shown, busy, made>> /\ tasks[s].fn \in Adds
      BY <1>2 DEF Added, screen
    <2>2. CASE ~tasks[s].live
      BY <1>2, <2>1, <2>2, OthersRun DEF Added, Live
    <2>3. CASE tasks[s].live
      <3>1. Kept(s)
        BY <1>2, <2>3, AddedKeepsTasks
      <3>2. SameLive /\ SameSaves
        BY <2>1, <3>1 DEF Kept, SameLive, SameSaves, Live, Adds
      <3> QED
        BY <2>1, <3>2, SameRuns, SameMade DEF LiveOK
    <2> QED
      BY <2>2, <2>3
  <1>3. CASE Refreshed(s)
    BY <1>3, OthersRun DEF Refreshed, Loaded, Adds, Submits
  <1>4. CASE Initialised(s)
    <2>1. /\ tasks[s].fn \in {"list", "new", "detail"} /\ tasks' = Taken(s)
          /\ UNCHANGED <<busy, made>> /\ Live(s)
      BY <1>0, <1>4 DEF Initialised, Loaded, Awaits, TaskOK, Live
    <2>2. CASE tasks[s].fn # "detail"
      BY <1>4, <2>1, <2>2, OthersRun DEF Initialised, Submits
    <2>3. CASE tasks[s].fn = "detail"
      <3>1. shown = None /\ \A q \in Slots : q # s => ~Runs(q, {"detail"})
        BY <2>1, <2>3 DEF IInv, LiveOK, OneLoads, Runs
      <3>2. \A q \in Slots : ~(Live(q) /\ tasks[q].fn = "save")
        BY <3>1 DEF IInv, LiveOK, SavesWhatIsShown
      <3>3. OneSubmits'
        BY <2>1, TakenRuns DEF IInv, LiveOK, OneSubmits, Runs, Submits
      <3>4. OneLoads' /\ SavesWhatIsShown'
        BY <2>1, <3>1, <3>2, TakenRuns DEF OneLoads, SavesWhatIsShown, Runs
      <3>5. MadeByOne'
        BY <2>1, TakenRuns DEF IInv, LiveOK, MadeByOne, Runs
      <3> QED
        BY <3>3, <3>4, <3>5 DEF LiveOK
    <2> QED
      BY <2>2, <2>3
  <1>5. CASE Saved(s)
    <2>1. tasks[s].fn = "save" /\ tasks' = Taken(s) /\ made' = made
      BY <1>5 DEF Saved
    <2>2. CASE ~tasks[s].live
      BY <1>5, <2>1, <2>2, OthersRun DEF Saved, Set, Live
    <2>3. CASE tasks[s].live
      <3>1. Live(s) /\ busy' = FALSE /\ shown # None
        BY <1>0, <1>5, <2>1, <2>3 DEF Saved, Set, Live, IInv, LiveOK, SavesWhatIsShown
      <3>2. /\ \A q \in Slots : q # s => ~Runs(q, Submits)
            /\ \A q \in Slots : ~Runs(q, {"detail"})
        BY <2>1, <3>1 DEF IInv, LiveOK, OneSubmits, OneLoads, Runs, Submits
      <3>3. \A q \in Slots : ~Runs(q, Submits)' /\ ~Runs(q, {"detail"})'
        BY <2>1, <3>2, TakenRuns DEF Runs
      <3>4. OneSubmits' /\ OneLoads' /\ SavesWhatIsShown'
        BY <3>1, <3>3 DEF OneSubmits, OneLoads, SavesWhatIsShown, Runs, Submits
      <3>5. MadeByOne'
        <4>1. \A q \in Slots : ~Runs(q, {"create"})
          BY <2>1, <3>2 DEF Runs, Submits
        <4> QED
          BY <2>1, <4>1 DEF IInv, LiveOK, MadeByOne
      <3> QED
        BY <3>4, <3>5 DEF LiveOK
    <2> QED
      BY <2>2, <2>3
  <1>6. CASE Failed(s)
    <2>1. tasks' = Taken(s) /\ shown' = shown
      BY <1>6 DEF Failed
    <2>2. CASE ~tasks[s].live
      BY <1>6, <2>1, <2>2, OthersRun DEF Failed, Set, Live
    <2>3. CASE tasks[s].live
      <3>1. Live(s) /\ made' = {} /\ busy' = (busy /\ tasks[s].fn \notin Submits)
        BY <1>0, <1>6, <2>3 DEF Failed, Set, Live
      <3>2. OneSubmits'
        BY <2>1, <3>1, TakenRuns DEF IInv, LiveOK, OneSubmits, Runs
      <3>3. OneLoads' /\ SavesWhatIsShown'
        BY <2>1, TakenRuns DEF IInv, LiveOK, OneLoads, SavesWhatIsShown, Runs
      <3>4. MadeByOne'
        BY <3>1 DEF MadeByOne
      <3> QED
        BY <3>2, <3>3, <3>4 DEF LiveOK
    <2> QED
      BY <2>2, <2>3
  <1> QED
    BY <1>1, <1>2, <1>3, <1>4, <1>5, <1>6 DEF Continue

-----------------------------------------------------------------------------
LEMMA InitIInv == Init => IInv
  <1> SUFFICES ASSUME Init PROVE IInv
    OBVIOUS
  <1>1. StoreOK /\ ScreenOK
    BY DEF Init, StoreOK, ScreenOK
  <1>2. \A s \in Slots : tasks[s] = None
    BY DEF Init
  <1>3. TasksOK
    BY <1>2 DEF Init, TasksOK
  <1>4. LiveOK
    BY <1>2 DEF Init, LiveOK, OneSubmits, OneLoads, SavesWhatIsShown, MadeByOne, Runs, Live
  <1> QED
    BY <1>1, <1>3, <1>4 DEF IInv

LEMMA IInvStep == IInv /\ [Next]_vars => IInv'
  <1> SUFFICES ASSUME IInv, [Next]_vars PROVE IInv'
    OBVIOUS
  <1>1. StoreOK' /\ Grows /\ ScreenOK' /\ TasksOK'
    BY StoreGrows, ScreenStaysOK, TasksStayOK
  <1>2. CASE Elsewhere \/ UNCHANGED vars
    <2>1. UNCHANGED <<tasks, shown, busy, made>>
      BY <1>2 DEF Elsewhere, vars, screen
    <2>2. SameLive /\ SameSaves
      BY <2>1 DEF SameLive, SameSaves, Live
    <2> QED
      BY <1>1, <2>1, <2>2, SameRuns, SameMade DEF IInv, LiveOK
  <1>3. LiveOK'
    BY <1>1, <1>2, ActKeepsLive, AnswerKeepsLive, ContinueKeepsLive DEF Next, IInv
  <1> QED
    BY <1>1, <1>3 DEF IInv

THEOREM Invariant == Spec => []IInv
  BY InitIInv, IInvStep, PTL DEF Spec

\* The tab, the backend and the tasks between them have their types, the buttons
\* of a screen are disabled exactly while a submission of it is under way, and
\* nothing is shown that the backend does not have.
THEOREM TypeCorrect == Spec => []TypeOK
  <1>1. ASSUME IInv PROVE TypeOK
    <2>1. tasks \in [Slots -> Task \cup {None}]
      BY <1>1 DEF IInv, TasksOK, TaskOK
    <2> QED
      BY <1>1, <2>1 DEF IInv, StoreOK, ScreenOK, LiveOK, OneSubmits, Runs, TypeOK
  <1> QED
    BY <1>1, Invariant, PTL

\* A form creates one employee between two errors, however answers and clicks
\* interleave.
THEOREM OneCreation == Spec => []FormCreatesOnce
  <1>1. ASSUME IInv PROVE FormCreatesOnce
    <2>1. CASE made = {}
      BY <2>1, FS_EmptySet DEF FormCreatesOnce
    <2>2. ASSUME NEW e \in made
          PROVE  FormCreatesOnce
      <3>1. made = {e}
        BY <1>1 DEF IInv, LiveOK, MadeByOne
      <3> QED
        <4>1. Cardinality(made) = 1
          BY <3>1, FS_Singleton
        <4> QED
          BY <4>1 DEF FormCreatesOnce
    <2> QED
      BY <2>1, <2>2
  <1> QED
    BY <1>1, Invariant, PTL

\* A save changes the employee that is on the screen.
THEOREM ShownIsSaved == Spec => []SavesWhatIsShown
  <1>1. IInv => SavesWhatIsShown
    BY DEF IInv, LiveOK
  <1> QED
    BY <1>1, Invariant, PTL

\* What was added is there after the refresh, and nothing that was there is lost.
THEOREM RefreshesKeep == Spec => RefreshKeeps
  <1>1. ASSUME IInv, [Next]_vars, NEW s \in Slots, Live(s), tasks[s].fn \in Adds,
               tasks'[s] = None, ~tasks[s].failed, page' = page
        PROVE  tasks[s].seen \cup {tasks[s].made} \subseteq departments' \cup positions'
    <2>0. tasks[s] # None /\ tasks[s].live /\ TaskOK(tasks[s]) /\ tasks[s] \in Task
      BY <1>1 DEF Live, IInv, TasksOK, TaskOK
    <2>1. CASE Refreshed(s)
      <3>1. /\ tasks[s].wait = {} /\ tasks[s].save = "none"
            /\ departments' = tasks[s].got["departments"]
            /\ positions' = tasks[s].got["positions"]
        BY <2>1 DEF Refreshed, Loaded, Awaits
      <3> QED
        BY <1>1, <2>0, <3>1 DEF TaskOK, ReadsAfter, WillShow
    <2>2. CASE Elsewhere \/ UNCHANGED vars
      BY <1>1, <2>0, <2>2 DEF Elsewhere, vars, screen
    <2>3. CASE Act
      <3>1. ASSUME NEW p \in Pages, NEW a, Visit(p, a)
            PROVE  tasks'[s] # None
        BY <1>1, <2>0, <3>1 DEF Visit, Navigate, Show
      <3>2. ASSUME NEW q \in Slots, NEW t, Press(q, t)
            PROVE  tasks'[s] # None
        BY <2>0, <3>2 DEF Press, IInv, TasksOK
      <3> QED
        BY <1>1, <2>3, <3>1, <3>2 DEF Act, AddDepartment, AddPosition, SubmitForm,
                                      ChangePosition
    <2>4. ASSUME NEW q \in Slots, Answer(q)
          PROVE  FALSE
      <3>1. Kept(q)
        BY <1>1, <2>4, StoreGrows, AnswerKeepsTasks
      <3> QED
        BY <1>1, <2>0, <3>1 DEF Kept
    <2>5. ASSUME NEW q \in Slots, Continue(q), q # s
          PROVE  tasks'[s] # None
      BY <1>1, <2>0, <2>5 DEF Continue, Added, Refreshed, Initialised, Created, Saved, Failed,
                              Taken, Navigate, Show, IInv, TasksOK
    <2>6. CASE Continue(s) /\ ~Refreshed(s)
      <3>1. CASE Added(s)
        BY <1>1, <2>0, <3>1, StoreGrows, AddedKeepsTasks DEF Kept
      <3> QED
        BY <1>1, <2>6, <3>1, <2>0 DEF Continue, Initialised, Created, Saved, Failed, Loaded, Adds
    <2> QED
      BY <1>1, <2>1, <2>2, <2>3, <2>4, <2>5, <2>6 DEF Next
  <1>2. IInv /\ [Next]_vars =>
          \A s \in Slots :
            Live(s) /\ tasks[s].fn \in Adds /\ tasks'[s] = None
              /\ ~tasks[s].failed /\ page' = page
            => tasks[s].seen \cup {tasks[s].made} \subseteq departments' \cup positions'
    BY <1>1
  <1> QED
    BY <1>2, Invariant, PTL DEF Spec, RefreshKeeps

=============================================================================
