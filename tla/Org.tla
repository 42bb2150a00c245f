--------------------------------- MODULE Org ---------------------------------
(***************************************************************************)
(* The organisation chart: backend/app/org/service.py behind router.py.    *)
(* Departments and positions are only ever added.  pc[r] is                *)
(*   "idle"         no call, resp[r] is the outcome of the last one        *)
(*   "flush"        awaiting the INSERT of a creation                      *)
(*   "commit"       inserted, awaiting the audit row and the COMMIT        *)
(*   "named"        committed, awaiting what the answer names              *)
(*   "positions"    awaiting the SELECT of the positions                   *)
(*   "departments"  awaiting the SELECT of the departments                 *)
(*   "headcount"    awaiting the one SELECT of the headcount               *)
(*   "answer"       everything is read, the answer is being built          *)
(***************************************************************************)
EXTENDS Integers, FiniteSets, Functions

CONSTANTS
    Requests,     \* slots for calls served concurrently
    Departments,  \* ids that can be given to new departments
    Names,        \* names of departments
    Positions,    \* ids that can be given to new positions
    Employees,
    None          \* no such row, no manager, nothing read

ASSUME FiniteAssumption == IsFiniteSet(Employees)

VARIABLES
    department,  \* id -> name, or None
    position,    \* id -> [department, reports_to], or None
    employee,    \* employee -> position_id, or None
    audit,       \* the ids that audit_log has a row of
    pc, call, resp,
    read,        \* what the call has read of the positions
    names        \* what the call has read of the departments

vars == <<department, position, employee, audit, pc, call, resp, read, names>>

-----------------------------------------------------------------------------
Position == [department : Departments, reports_to : Positions \cup {None}]

Calls ==
    [kind : {"department"}, id : Departments, name : Names]
      \cup [kind : {"position"}, id : Positions, department : Departments,
            reports_to : Positions \cup {None}]
      \cup [kind : {"positions", "headcount"}]

\* None is not a value of the columns and variables it is the absence of.
ASSUME NoneAssumption ==
    /\ None \notin Names \cup Positions \cup Position \cup Calls
    /\ None \notin [Positions -> Position \cup {None}]
    /\ None \notin [Departments -> Names \cup {None}]

Rows(table) == {x \in DOMAIN table : table[x] # None}

TypeOK ==
    /\ department \in [Departments -> Names \cup {None}]
    /\ position \in [Positions -> Position \cup {None}]
    /\ employee \in [Employees -> Positions \cup {None}]
    /\ audit = Rows(department) \cup Rows(position)
    /\ pc \in [Requests -> {"idle", "flush", "commit", "named", "positions",
                            "departments", "headcount", "answer"}]
    /\ call \in [Requests -> Calls \cup {None}]
    /\ resp \in [Requests -> {"none", "200", "integrity_error", "db_error"}]
    /\ read \in [Requests -> [Positions -> Position \cup {None}] \cup {None}]
    /\ names \in [Requests -> [Departments -> Names \cup {None}] \cup {None}]
    /\ \A p \in Rows(position) :
         /\ department[position[p].department] # None
         /\ position[p].reports_to \in Rows(position) \cup {None}

Init ==
    /\ department = [d \in Departments |-> None]
    /\ position = [p \in Positions |-> None]
    /\ employee = [e \in Employees |-> None]
    /\ audit = {}
    /\ pc = [r \in Requests |-> "idle"]
    /\ call = [r \in Requests |-> None]
    /\ resp = [r \in Requests |-> "none"]
    /\ read = [r \in Requests |-> None]
    /\ names = [r \in Requests |-> None]

-----------------------------------------------------------------------------
Reply(r, outcome) ==
    /\ pc' = [pc EXCEPT ![r] = "idle"]
    /\ call' = [call EXCEPT ![r] = None]
    /\ resp' = [resp EXCEPT ![r] = outcome]
    /\ read' = [read EXCEPT ![r] = None]
    /\ names' = [names EXCEPT ![r] = None]

Call(r, c, at) ==
    /\ pc[r] = "idle"
    /\ pc' = [pc EXCEPT ![r] = at]
    /\ call' = [call EXCEPT ![r] = c]
    /\ resp' = [resp EXCEPT ![r] = "none"]
    /\ UNCHANGED <<department, position, employee, audit, read, names>>

Await(r, at) == pc' = [pc EXCEPT ![r] = at] /\ UNCHANGED <<call, resp>>

Creating(r, kind) == pc[r] \in {"flush", "commit"} /\ call[r].kind = kind

\* The id of a new row is a fresh uuid4.
Fresh(kind, table, id) ==
    /\ table[id] = None
    /\ \A q \in Requests : Creating(q, kind) => call[q].id # id

\* POST /org/departments
PostDepartment(r, d, n) ==
    /\ Fresh("department", department, d)
    /\ Call(r, [kind |-> "department", id |-> d, name |-> n], "flush")

\* POST /org/positions, which may name rows that do not exist.
PostPosition(r, p, d, m) ==
    /\ Fresh("position", position, p)
    /\ Call(r, [kind |-> "position", id |-> p, department |-> d, reports_to |-> m],
            "flush")

GetPositions(r) == Call(r, [kind |-> "positions"], "positions")

GetHeadcount(r) == Call(r, [kind |-> "headcount"], "headcount")

-----------------------------------------------------------------------------
\* Mutant: only committed names are compared.
NameHeldNever(r) == FALSE

\* Mutant: the call waits for itself.
NameHeldByAny(r) ==
    \E q \in Requests : Creating(q, "department") /\ call[q].name = call[r].name

\* An INSERT waits for the transaction that has inserted the same unique name.
NameHeld(r) ==
    \E q \in Requests \ {r} :
      pc[q] = "commit" /\ Creating(q, "department") /\ call[q].name = call[r].name

\* create_department up to the flush.
FlushDepartment(r) ==
    /\ pc[r] = "flush" /\ call[r].kind = "department"
    /\ ~NameHeld(r)
    /\ IF \E d \in Departments : department[d] = call[r].name
         THEN Reply(r, "integrity_error")
         ELSE Await(r, "commit") /\ UNCHANGED <<read, names>>
    /\ UNCHANGED <<department, position, employee, audit>>

\* Mutant: reports_to_position_id has no foreign key.
KeysExistOfDepartment(r) == department[call[r].department] # None

KeysExist(r) ==
    /\ department[call[r].department] # None
    /\ call[r].reports_to \in Rows(position) \cup {None}

\* create_position up to the flush, which checks the foreign keys.
FlushPosition(r) ==
    /\ pc[r] = "flush" /\ call[r].kind = "position"
    /\ IF KeysExist(r)
         THEN Await(r, "commit") /\ UNCHANGED <<read, names>>
         ELSE Reply(r, "integrity_error")
    /\ UNCHANGED <<department, position, employee, audit>>

CommitDepartment(r) ==
    /\ pc[r] = "commit" /\ call[r].kind = "department"
    /\ department' = [department EXCEPT ![call[r].id] = call[r].name]
    /\ audit' = audit \cup {call[r].id}
    /\ Await(r, "named")
    /\ UNCHANGED <<position, employee, read, names>>

CommitPosition(r) ==
    /\ pc[r] = "commit" /\ call[r].kind = "position"
    /\ position' = [position EXCEPT ![call[r].id] =
                     [department |-> call[r].department,
                      reports_to |-> call[r].reports_to]]
    /\ audit' = audit \cup {call[r].id}
    /\ Await(r, "named")
    /\ UNCHANGED <<department, employee, read, names>>

\* The refresh and the gets of a creation's answer.
NameCreated(r) ==
    /\ pc[r] = "named"
    /\ Await(r, "answer")
    /\ read' = [read EXCEPT ![r] = position]
    /\ names' = [names EXCEPT ![r] = department]
    /\ UNCHANGED <<department, position, employee, audit>>

-----------------------------------------------------------------------------
\* Mutant: list_positions reads the departments first.
SelectPositionsLast(r) ==
    \/ /\ pc[r] = "positions" /\ names[r] = None
       /\ names' = [names EXCEPT ![r] = department]
       /\ UNCHANGED <<department, position, employee, audit, pc, call, resp, read>>
    \/ /\ pc[r] = "positions" /\ names[r] # None
       /\ read' = [read EXCEPT ![r] = position]
       /\ Await(r, "answer")
       /\ UNCHANGED <<department, position, employee, audit, names>>

\* list_positions: the positions, ...
SelectPositions(r) ==
    /\ pc[r] = "positions"
    /\ read' = [read EXCEPT ![r] = position]
    /\ Await(r, "departments")
    /\ UNCHANGED <<department, position, employee, audit, names>>

\* ... then the departments.
SelectDepartments(r) ==
    /\ pc[r] = "departments"
    /\ names' = [names EXCEPT ![r] = department]
    /\ Await(r, "answer")
    /\ UNCHANGED <<department, position, employee, audit, read>>

\* Mutant: the positions are joined with their managers on the way.
HeadcountRowsManaged ==
    {p \in Positions : /\ \E e \in Employees : employee[e] = p
                       /\ position[p] # None
                       /\ position[p].reports_to # None}

\* The groups of get_headcount: inner joins from the employees on.
HeadcountRows ==
    {p \in Positions : /\ \E e \in Employees : employee[e] = p
                       /\ position[p] # None
                       /\ department[position[p].department] # None}

Headcount == [p \in HeadcountRows |-> Cardinality({e \in Employees : employee[e] = p})]

SelectHeadcount(r) ==
    /\ pc[r] = "headcount"
    /\ Await(r, "answer")
    /\ UNCHANGED <<department, position, employee, audit, read, names>>

AnswerDone(r) ==
    /\ pc[r] = "answer"
    /\ Reply(r, "200")
    /\ UNCHANGED <<department, position, employee, audit>>

\* The connection to the database fails: what is not committed is rolled back.
DbError(r) ==
    /\ pc[r] \notin {"idle", "answer"}
    /\ Reply(r, "db_error")
    /\ UNCHANGED <<department, position, employee, audit>>

-----------------------------------------------------------------------------
\* The employee service hires and transfers into positions that exist.
Place(e, p) ==
    /\ position[p] # None
    /\ employee' = [employee EXCEPT ![e] = p]
    /\ UNCHANGED <<department, position, audit, pc, call, resp, read, names>>

Ask(r) ==
    \/ \E d \in Departments, n \in Names : PostDepartment(r, d, n)
    \/ \E p \in Positions, d \in Departments, m \in Positions \cup {None} :
         PostPosition(r, p, d, m)
    \/ GetPositions(r)
    \/ GetHeadcount(r)

Serve(r) ==
    \/ FlushDepartment(r)
    \/ FlushPosition(r)
    \/ CommitDepartment(r)
    \/ CommitPosition(r)
    \/ NameCreated(r)
    \/ SelectPositions(r)
    \/ SelectDepartments(r)
    \/ SelectHeadcount(r)
    \/ AnswerDone(r)

Next ==
    \/ \E r \in Requests : Ask(r) \/ Serve(r) \/ DbError(r)
    \/ \E e \in Employees, p \in Positions : Place(e, p)

Spec == Init /\ [][Next]_vars

\* The event loop and the database keep running the calls they have begun, and
\* the database does not fail again and again for ever: a creation that waits for
\* others of its name loses to them only as often as they fail.
FairSpec ==
    /\ Spec
    /\ \A r \in Requests : WF_vars(Serve(r))
    /\ <>[][\A r \in Requests : ~DbError(r)]_vars

-----------------------------------------------------------------------------
\* list_positions and create_position answer from several reads, with commits
\* between them, and fall back to "" and null for names they do not find: they
\* always find them.
NamesAreFound ==
    \A r \in Requests : pc[r] = "answer" /\ read[r] # None =>
      \A p \in Rows(read[r]) :
        /\ names[r][read[r][p].department] # None
        /\ read[r][p].reports_to \in Rows(read[r]) \cup {None}

\* The positions form a hierarchy: whichever of them one takes, one reports to
\* none of the others and not to itself.  A position can only name a manager
\* that was committed before it.
HierarchyHasTop ==
    \A chart \in SUBSET Rows(position) :
      chart # {} => \E p \in chart : position[p].reports_to \notin chart

\* No two departments get one name, however their creations overlap.
NamesAreUnique ==
    \A c, d \in Rows(department) : department[c] = department[d] => c = d

\* get_headcount counts every employee, and each once (AC-04).
EveryoneIsCounted ==
    SumFunction(Headcount) = Cardinality(Rows(employee))

\* A creation that waits for another one of the same name, and every other call,
\* is answered in the end.
EveryCallAnswered == \A r \in Requests : pc[r] # "idle" ~> pc[r] = "idle"

=============================================================================
