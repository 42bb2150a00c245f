------------------------------ MODULE Employees ------------------------------
(***************************************************************************)
(* The employee records and their history: backend/app/employees/          *)
(* service.py behind the routes of router.py.  A PATCH compares and fills   *)
(* in its history rows by the row it loaded, while other calls commit.      *)
(* pc[r] is                                                                *)
(*   "idle"     no call, resp[r] is the outcome of the last one            *)
(*   "insert"   POST: awaiting INSERT INTO employee (the flush), then the   *)
(*              history row, the audit row and the COMMIT                  *)
(*   "load"     GET, PATCH: awaiting the SELECT of the employee            *)
(*   "commit"   PATCH: awaiting UPDATE, INSERTs and COMMIT                 *)
(*   "refresh"  committed, awaiting the SELECT of db.refresh               *)
(*   "history"  awaiting the SELECT of the history                         *)
(*   "detail"   both are read, the answer is being built                   *)
(***************************************************************************)
EXTENDS Integers, Sequences, FiniteSets, Functions

CONSTANTS
    Requests,   \* slots for calls served concurrently
    Employees,  \* ids that can be given to new employees
    Statuses,
    Positions,  \* rows of the position table
    BadPosition,\* an id that is not one of them
    Values,     \* values of a plain field: one stands for each of _PLAIN_FIELDS
    Keep,       \* a field the PATCH leaves out
    NoEmployee, NoCall,
    MaxWrites   \* bound on the committed writes

ASSUME PositionAssumption == BadPosition \notin Positions
ASSUME KeepAssumption == Keep \notin Statuses \cup Positions \cup {BadPosition} \cup Values
ASSUME WritesAssumption == MaxWrites \in Nat

VARIABLES
    emp,      \* the employee table
    history,  \* the employment_history table, in the order of the commits
    audit,    \* employee -> number of its audit_log rows
    pc, call, snap, resp,
    shown     \* how many rows of history the answer can show

vars == <<emp, history, audit, pc, call, snap, resp, shown>>

-----------------------------------------------------------------------------
Employee == [status : Statuses, position : Positions, field : Values]

Rows ==
    [employee : Employees, change_type : {"hire"}, old : {Keep}, new : Statuses]
      \cup [employee : Employees, change_type : {"transfer"},
            old : Positions, new : Positions]
      \cup [employee : Employees, change_type : {"status_change"},
            old : Statuses, new : Statuses]

AnyPosition == Positions \cup {BadPosition}

Hires == [kind : {"post"}, employee : Employees, status : Statuses,
          position : AnyPosition, field : Values]
Patches == [kind : {"patch"}, employee : Employees, status : Statuses \cup {Keep},
            position : AnyPosition \cup {Keep}, field : Values \cup {Keep}]
Calls == Hires \cup Patches \cup [kind : {"get"}, employee : Employees]

ASSUME NoneAssumption ==
    /\ NoEmployee \notin Employee \cup [status : Statuses, position : Positions]
    /\ NoCall \notin Calls

StoreTypes ==
    /\ emp \in [Employees -> Employee \cup {NoEmployee}]
    /\ history \in Seq(Rows)
    /\ audit \in [Employees -> Nat]

CallTypes ==
    /\ pc \in [Requests -> {"idle", "insert", "load", "commit", "refresh",
                            "history", "detail"}]
    /\ call \in [Requests -> Calls \cup {NoCall}]
    /\ snap \in [Requests -> Employee \cup {NoEmployee}]
    /\ resp \in [Requests -> {"none", "200", "404", "integrity_error", "db_error"}]
    /\ shown \in [Requests -> Nat]
    /\ \A r \in Requests :
         /\ pc[r] # "idle" => call[r] \in Calls
         /\ pc[r] = "insert" => call[r].kind = "post"
         /\ pc[r] = "commit" => call[r].kind = "patch"
         /\ pc[r] \in {"commit", "history", "detail"} => snap[r] # NoEmployee
         /\ pc[r] \in {"commit", "refresh", "history", "detail"} =>
              emp[call[r].employee] # NoEmployee

TypeOK == StoreTypes /\ CallTypes

Init ==
    /\ emp = [e \in Employees |-> NoEmployee]
    /\ history = <<>>
    /\ audit = [e \in Employees |-> 0]
    /\ pc = [r \in Requests |-> "idle"]
    /\ call = [r \in Requests |-> NoCall]
    /\ snap = [r \in Requests |-> NoEmployee]
    /\ resp = [r \in Requests |-> "none"]
    /\ shown = [r \in Requests |-> 0]

-----------------------------------------------------------------------------
Reply(r, outcome) ==
    /\ pc' = [pc EXCEPT ![r] = "idle"]
    /\ call' = [call EXCEPT ![r] = NoCall]
    /\ snap' = [snap EXCEPT ![r] = NoEmployee]
    /\ resp' = [resp EXCEPT ![r] = outcome]
    /\ shown' = [shown EXCEPT ![r] = 0]

Call(r, c, at) ==
    /\ pc[r] = "idle"
    /\ pc' = [pc EXCEPT ![r] = at]
    /\ call' = [call EXCEPT ![r] = c]
    /\ resp' = [resp EXCEPT ![r] = "none"]
    /\ UNCHANGED <<emp, history, audit, snap, shown>>

Await(r, at) ==
    /\ pc' = [pc EXCEPT ![r] = at]
    /\ UNCHANGED <<call, snap, resp, shown>>

\* record_audit, in the transaction of the change it records.
RecordAudit(e) == audit' = [audit EXCEPT ![e] = @ + 1]

\* Bound: as many writing calls as there is room for.
Writing == {r \in Requests : pc[r] \in {"insert", "load", "commit"}}
RoomToWrite == FoldFunction(+, Cardinality(Writing), audit) < MaxWrites

-----------------------------------------------------------------------------
\* POST /employees: the id is a fresh uuid4.
PostEmployee(r, e, s, p, v) ==
    /\ RoomToWrite
    /\ emp[e] = NoEmployee
    /\ \A q \in Requests : pc[q] = "insert" => call[q].employee # e
    /\ Call(r, [kind |-> "post", employee |-> e, status |-> s, position |-> p,
                field |-> v], "insert")

\* PATCH /employees/{id}
PatchEmployee(r, e, s, p, v) ==
    /\ RoomToWrite
    /\ Call(r, [kind |-> "patch", employee |-> e, status |-> s, position |-> p,
                field |-> v], "load")

\* GET /employees/{id}
GetEmployeeDetail(r, e) == Call(r, [kind |-> "get", employee |-> e], "load")

-----------------------------------------------------------------------------
\* Mutant: position_id has no foreign key.
CreateEmployeeAnywhere(r) ==
    /\ pc[r] = "insert"
    /\ LET c == call[r] IN
         /\ emp' = [emp EXCEPT ![c.employee] =
                      [status |-> c.status, position |-> c.position, field |-> c.field]]
         /\ history' = Append(history, [employee |-> c.employee,
                         change_type |-> "hire", old |-> Keep, new |-> c.status])
         /\ RecordAudit(c.employee)
         /\ Await(r, "refresh")

\* create_employee: one transaction, which the foreign key on position_id can
\* refuse at the flush.
CreateEmployee(r) ==
    /\ pc[r] = "insert"
    /\ LET c == call[r] IN
         IF c.position \notin Positions
           THEN Reply(r, "integrity_error") /\ UNCHANGED <<emp, history, audit>>
           ELSE /\ emp' = [emp EXCEPT ![c.employee] =
                             [status |-> c.status, position |-> c.position,
                              field |-> c.field]]
                /\ history' = Append(history, [employee |-> c.employee,
                                change_type |-> "hire", old |-> Keep, new |-> c.status])
                /\ RecordAudit(c.employee)
                /\ Await(r, "refresh")

\* get_employee, and for a PATCH the part of update_employee before its awaits
\* to commit, which decides by the loaded row.
LoadEmployee(r) ==
    /\ pc[r] = "load"
    /\ LET e == call[r].employee IN
         IF emp[e] = NoEmployee
           THEN Reply(r, "404")
           ELSE /\ snap' = [snap EXCEPT ![r] = emp[e]]
                /\ pc' = [pc EXCEPT ![r] = IF call[r].kind = "patch"
                                             THEN "commit" ELSE "history"]
                /\ UNCHANGED <<call, resp, shown>>
    /\ UNCHANGED <<emp, history, audit>>

-----------------------------------------------------------------------------
\* A plain column is written only when the PATCH gives it a value other than
\* the loaded one.
Transfers(r) == call[r].position \notin {Keep, snap[r].position}
ChangesStatus(r) == call[r].status \notin {Keep, snap[r].status}
ChangesField(r) == call[r].field \notin {Keep, snap[r].field}

\* What field can be after the UPDATE: it stands for a plain column and for an
\* encrypted id, which is written whenever it is sent, because its new ciphertext
\* is never the loaded one.
FieldsAfter(r, row) ==
    {IF ChangesField(r) THEN call[r].field ELSE row.field,
     IF call[r].field # Keep THEN call[r].field ELSE row.field}

TransferRow(r) ==
    [employee |-> call[r].employee, change_type |-> "transfer",
     old |-> snap[r].position, new |-> call[r].position]

\* Mutant: the column is assigned before the row is filled in.
StatusRowAfter(r) ==
    [employee |-> call[r].employee, change_type |-> "status_change",
     old |-> call[r].status, new |-> call[r].status]

StatusRow(r) ==
    [employee |-> call[r].employee, change_type |-> "status_change",
     old |-> snap[r].status, new |-> call[r].status]

\* Mutant: elif where the code says if.
NewRowsEither(r) ==
    IF Transfers(r) THEN <<TransferRow(r)>>
    ELSE IF ChangesStatus(r) THEN <<StatusRow(r)>> ELSE <<>>

\* The history rows a PATCH appends.
NewRows(r) ==
    (IF Transfers(r) THEN <<TransferRow(r)>> ELSE <<>>)
      \o (IF ChangesStatus(r) THEN <<StatusRow(r)>> ELSE <<>>)

\* Mutant: the UPDATE writes the whole loaded row back.
UpdatedWhole(r, row, field) ==
    [status |-> IF ChangesStatus(r) THEN call[r].status ELSE snap[r].status,
     position |-> IF Transfers(r) THEN call[r].position ELSE snap[r].position,
     field |-> IF ChangesField(r) THEN field ELSE snap[r].field]

\* The row after the UPDATE, which names the changed columns only.
Updated(r, row, field) ==
    [status |-> IF ChangesStatus(r) THEN call[r].status ELSE row.status,
     position |-> IF Transfers(r) THEN call[r].position ELSE row.position,
     field |-> field]

\* Mutant: the history is committed before the UPDATE is tried.
UpdateEmployeeTwice(r) ==
    /\ pc[r] = "commit"
    /\ history' = history \o NewRows(r)
    /\ LET e == call[r].employee IN
         IF Transfers(r) /\ call[r].position \notin Positions
           THEN Reply(r, "integrity_error") /\ UNCHANGED <<emp, audit>>
           ELSE /\ \E field \in FieldsAfter(r, emp[e]) :
                     emp' = [emp EXCEPT ![e] = Updated(r, emp[e], field)]
                /\ RecordAudit(e)
                /\ Await(r, "refresh")

UpdateEmployee(r) ==
    /\ pc[r] = "commit"
    /\ LET e == call[r].employee IN
         IF Transfers(r) /\ call[r].position \notin Positions
           THEN Reply(r, "integrity_error") /\ UNCHANGED <<emp, history, audit>>
           ELSE /\ \E field \in FieldsAfter(r, emp[e]) :
                     emp' = [emp EXCEPT ![e] = Updated(r, emp[e], field)]
                /\ history' = history \o NewRows(r)
                /\ RecordAudit(e)
                /\ Await(r, "refresh")

-----------------------------------------------------------------------------
\* db.refresh: the row as it is now, other calls included.
Refresh(r) ==
    /\ pc[r] = "refresh"
    /\ snap' = [snap EXCEPT ![r] = emp[call[r].employee]]
    /\ pc' = [pc EXCEPT ![r] = "history"]
    /\ UNCHANGED <<emp, history, audit, call, resp, shown>>

\* Mutant: the attributes of the row expire, and load again when the answer
\* reads them.
SelectHistoryThenRow(r) ==
    \/ /\ pc[r] = "history"
       /\ shown' = [shown EXCEPT ![r] = Len(history)]
       /\ pc' = [pc EXCEPT ![r] = "detail"]
       /\ UNCHANGED <<emp, history, audit, call, snap, resp>>
    \/ /\ pc[r] = "detail"
       /\ snap' = [snap EXCEPT ![r] = emp[call[r].employee]]
       /\ UNCHANGED <<emp, history, audit, pc, call, resp, shown>>

\* build_employee_detail reads the history after the row.
SelectHistory(r) ==
    /\ pc[r] = "history"
    /\ shown' = [shown EXCEPT ![r] = Len(history)]
    /\ pc' = [pc EXCEPT ![r] = "detail"]
    /\ UNCHANGED <<emp, history, audit, call, snap, resp>>

DetailDone(r) ==
    /\ pc[r] = "detail"
    /\ Reply(r, "200")
    /\ UNCHANGED <<emp, history, audit>>

\* The connection to the database fails, or the acknowledgement of a commit is
\* lost; a transaction is kept or rolled back as a whole.
DbError(r) ==
    /\ pc[r] \in {"insert", "load", "commit", "refresh", "history"}
    /\ Reply(r, "db_error")
    /\ UNCHANGED <<emp, history, audit>>

-----------------------------------------------------------------------------
Ask(r) ==
    \E e \in Employees :
      \/ \E s \in Statuses, p \in AnyPosition, v \in Values : PostEmployee(r, e, s, p, v)
      \/ \E s \in Statuses \cup {Keep}, p \in AnyPosition \cup {Keep},
            v \in Values \cup {Keep} : PatchEmployee(r, e, s, p, v)
      \/ GetEmployeeDetail(r, e)

Serve(r) ==
    \/ CreateEmployee(r)
    \/ LoadEmployee(r)
    \/ UpdateEmployee(r)
    \/ Refresh(r)
    \/ SelectHistory(r)
    \/ DetailDone(r)

Next == \E r \in Requests : Ask(r) \/ Serve(r) \/ DbError(r)

Spec == Init /\ [][Next]_vars

-----------------------------------------------------------------------------
RowsOf(e, types) ==
    {i \in DOMAIN history : history[i].employee = e /\ history[i].change_type \in types}

StatusTypes == {"hire", "status_change"}

\* What the columns of an employee are is what the last row of the history says
\* of them, in whatever order concurrent PATCHes load and commit: update_employee
\* writes a column exactly when it appends a row, in one transaction.
LastRowIsState ==
    \A e \in Employees :
      /\ \A i \in RowsOf(e, StatusTypes) :
           (\A j \in RowsOf(e, StatusTypes) : j <= i) =>
             emp[e] # NoEmployee /\ emp[e].status = history[i].new
      /\ \A i \in RowsOf(e, {"transfer"}) :
           (\A j \in RowsOf(e, {"transfer"}) : j <= i) =>
             emp[e] # NoEmployee /\ emp[e].position = history[i].new

\* An old_value is never a value the employee did not have: the loaded row of
\* update_employee was committed, so an earlier row of the history says its
\* status, and, past the position of the hire, its position.
OldValueWasReal ==
    \A e \in Employees :
      /\ \A i \in RowsOf(e, {"status_change"}) :
           \E j \in RowsOf(e, StatusTypes) : j < i /\ history[j].new = history[i].old
      /\ \A i \in RowsOf(e, {"transfer"}) :
           \E j \in RowsOf(e, {"transfer"}) :
             \/ j < i /\ history[j].new = history[i].old
             \/ history[j].old = history[i].old /\ \A k \in RowsOf(e, {"transfer"}) : j <= k

\* build_employee_detail answers with a row and a history read one after the
\* other, with commits between them: the history always holds a row that says
\* the status shown, because it is read second.
DetailExplained ==
    \A r \in Requests : pc[r] = "detail" =>
      \E i \in RowsOf(call[r].employee, StatusTypes) :
        i <= shown[r] /\ history[i].new = snap[r].status

\* A PATCH never undoes what another one committed in a column it was not asked
\* to change: a column changes to what a committing call asked, and leaves
\* an audit row.  A call that the foreign key on position_id refuses leaves
\* neither audit row nor history behind, whatever it added to its session.
ChangesAreAsked ==
    [][/\ \A e \in Employees :
            emp[e] # NoEmployee /\ emp'[e] # emp[e] =>
              \E r \in Requests :
                /\ pc[r] = "commit" /\ call[r].employee = e
                /\ emp'[e].status # emp[e].status => emp'[e].status = call[r].status
                /\ emp'[e].position # emp[e].position => emp'[e].position = call[r].position
                /\ emp'[e].field # emp[e].field => emp'[e].field = call[r].field
                /\ audit'[e] = audit[e] + 1
       /\ \A r \in Requests :
            resp[r] # "integrity_error" /\ resp'[r] = "integrity_error" =>
              UNCHANGED <<emp, history, audit>>]_vars

\* The records implement PersonnelFile: a file and its log change together, and
\* for good.
File == INSTANCE PersonnelFile WITH
    NoFile <- NoEmployee,
    file <- [e \in Employees |->
              IF emp[e] = NoEmployee THEN NoEmployee
              ELSE [status |-> emp[e].status, position |-> emp[e].position]],
    log <- [i \in DOMAIN history |->
              [employee |-> history[i].employee, kind |-> history[i].change_type,
               new |-> history[i].new]]

ImplementsFile == File!Spec

\* The docstring of update_employee: "a position change appends an
\* EmploymentHistory row rather than silently overwriting": the last row of a
\* change of position says which position it replaced.
TransferIsRecorded ==
    [][\A e \in Employees :
        emp[e] # NoEmployee /\ emp'[e].position # emp[e].position =>
          \E i \in DOMAIN history' \ DOMAIN history :
            history'[i].change_type = "transfer" /\ history'[i].old = emp[e].position]_vars

=============================================================================
