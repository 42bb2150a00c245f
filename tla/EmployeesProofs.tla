--------------------------- MODULE EmployeesProofs ---------------------------
(***************************************************************************)
(* Proofs about the employee records and their history, for any records,   *)
(* values and concurrent calls.                                            *)
(*                                                                         *)
(* A PATCH commits by a row it loaded, which can be stale; what the proofs  *)
(* rest on is that its history rows and its UPDATE are decided together.    *)
(***************************************************************************)
EXTENDS Employees, SequenceTheorems, TLAPS

\* The record of a POST is its own, and not there yet.
InsertsAreFresh ==
    \A r \in Requests : pc[r] = "insert" =>
      /\ emp[call[r].employee] = NoEmployee
      /\ \A q \in Requests :
           pc[q] = "insert" /\ call[q].employee = call[r].employee => q = r

\* Only records have a history.
RowsAreOfRecords ==
    \A i \in 1..Len(history) : emp[history[i].employee] # NoEmployee

IInv == TypeOK /\ InsertsAreFresh /\ RowsAreOfRecords /\ LastRowIsState

-----------------------------------------------------------------------------
USE PositionAssumption, KeepAssumption, NoneAssumption

\* A call, as the variables see it.
LEMMA CallFields ==
    ASSUME NEW c \in Calls
    PROVE  /\ c.employee \in Employees
           /\ c \in Hires <=> c.kind = "post"
           /\ c \in Patches <=> c.kind = "patch"
           /\ c.kind = "post" => /\ c.status \in Statuses
                                 /\ c.position \in AnyPosition
                                 /\ c.field \in Values
           /\ c.kind = "patch" => /\ c.status \in Statuses \cup {Keep}
                                  /\ c.position \in AnyPosition \cup {Keep}
                                  /\ c.field \in Values \cup {Keep}
  BY DEF Calls, Hires, Patches

\* What a PATCH that commits has at hand.
LEMMA PatchFields ==
    ASSUME TypeOK, NEW r \in Requests, pc[r] = "commit"
    PROVE  /\ call[r] \in Patches
           /\ call[r].employee \in Employees
           /\ emp[call[r].employee] \in Employee
           /\ snap[r] \in Employee
           /\ Transfers(r) => call[r].position \in AnyPosition
           /\ ChangesStatus(r) => call[r].status \in Statuses
           /\ FieldsAfter(r, emp[call[r].employee]) \subseteq Values
  <1>1. call[r] \in Patches /\ call[r] \in Calls
    BY CallFields DEF TypeOK, StoreTypes, CallTypes
  <1>2. /\ call[r].employee \in Employees
        /\ emp[call[r].employee] \in Employee
        /\ snap[r] \in Employee
    BY <1>1, CallFields DEF TypeOK, StoreTypes, CallTypes
  <1>3. FieldsAfter(r, emp[call[r].employee]) \subseteq Values
    BY <1>1, <1>2 DEF FieldsAfter, ChangesField, Patches, Employee
  <1> QED
    BY <1>1, <1>2, <1>3 DEF Patches, Transfers, ChangesStatus

\* The rows of a PATCH that its foreign key lets pass.
LEMMA NewRowsAre ==
    ASSUME TypeOK, NEW r \in Requests, pc[r] = "commit",
           ~(Transfers(r) /\ call[r].position \notin Positions)
    PROVE  /\ Transfers(r) => TransferRow(r) \in Rows
           /\ ChangesStatus(r) => StatusRow(r) \in Rows
           /\ NewRows(r) \in Seq(Rows)
           /\ Transfers(r) /\ ChangesStatus(r) =>
                NewRows(r) = <<TransferRow(r), StatusRow(r)>>
           /\ Transfers(r) /\ ~ChangesStatus(r) => NewRows(r) = <<TransferRow(r)>>
           /\ ~Transfers(r) /\ ChangesStatus(r) => NewRows(r) = <<StatusRow(r)>>
           /\ ~Transfers(r) /\ ~ChangesStatus(r) => NewRows(r) = <<>>
  <1>1. Transfers(r) => TransferRow(r) \in Rows
    BY PatchFields DEF Rows, TransferRow, Employee
  <1>2. ChangesStatus(r) => StatusRow(r) \in Rows
    BY PatchFields DEF Rows, StatusRow, Employee
  <1>3. ASSUME NEW a, NEW b
        PROVE  /\ <<a>> \o <<b>> = <<a, b>>
               /\ <<a>> \o <<>> = <<a>>
               /\ <<>> \o <<b>> = <<b>>
               /\ <<>> \o <<>> = <<>>
    <2>1. <<a>> \in Seq({a, b}) /\ <<b>> \in Seq({a, b}) /\ <<>> \in Seq({a, b})
      OBVIOUS
    <2>2. <<a>> \o <<b>> = <<a, b>>
      <3>1. /\ <<a>> \o <<b>> \in Seq({a, b})
            /\ Len(<<a>> \o <<b>>) = 2
            /\ (<<a>> \o <<b>>)[1] = a
            /\ (<<a>> \o <<b>>)[2] = b
        BY <2>1
      <3>2. \A i \in 1..2 : i = 1 \/ i = 2
        OBVIOUS
      <3>3. /\ <<a, b>> \in Seq({a, b})
            /\ Len(<<a, b>>) = 2
            /\ <<a, b>>[1] = a /\ <<a, b>>[2] = b
        OBVIOUS
      <3>4. \A i \in 1..Len(<<a>> \o <<b>>) : (<<a>> \o <<b>>)[i] = <<a, b>>[i]
        BY <3>1, <3>2, <3>3
      <3> QED
        BY SeqEqual, <3>1, <3>3, <3>4
    <2> QED
      BY <2>1, <2>2, ConcatEmptySeq
  <1>4. /\ Transfers(r) /\ ChangesStatus(r) =>
             NewRows(r) = <<TransferRow(r), StatusRow(r)>>
        /\ Transfers(r) /\ ~ChangesStatus(r) => NewRows(r) = <<TransferRow(r)>>
        /\ ~Transfers(r) /\ ChangesStatus(r) => NewRows(r) = <<StatusRow(r)>>
        /\ ~Transfers(r) /\ ~ChangesStatus(r) => NewRows(r) = <<>>
    BY <1>3 DEF NewRows
  <1>5. /\ \A a, b \in Rows : <<a, b>> \in Seq(Rows)
        /\ \A a \in Rows : <<a>> \in Seq(Rows)
        /\ <<>> \in Seq(Rows)
    OBVIOUS
  <1> QED
    BY <1>1, <1>2, <1>4, <1>5

\* What the history is after a PATCH: as before, then a row for each column
\* changed and no other.
Grown(r) ==
    /\ history' \in Seq(Rows)
    /\ Len(history') \in Nat
    /\ Len(history) <= Len(history')
    /\ \A i \in 1..Len(history) : history'[i] = history[i]
    /\ \A i \in 1..Len(history') : i > Len(history) =>
         \/ Transfers(r) /\ history'[i] = TransferRow(r)
         \/ ChangesStatus(r) /\ history'[i] = StatusRow(r)
    /\ Transfers(r) =>
         \E i \in 1..Len(history') : i > Len(history) /\ history'[i] = TransferRow(r)
    /\ ChangesStatus(r) =>
         \E i \in 1..Len(history') : i > Len(history) /\ history'[i] = StatusRow(r)

LEMMA HistoryGrows ==
    ASSUME TypeOK, NEW r \in Requests, pc[r] = "commit",
           ~(Transfers(r) /\ call[r].position \notin Positions),
           history' = history \o NewRows(r)
    PROVE  Grown(r)
  <1> DEFINE n == Len(history)
  <1>1. history \in Seq(Rows) /\ n \in Nat
    BY LenProperties DEF TypeOK, StoreTypes
  <1>2. NewRows(r) \in Seq(Rows)
    BY NewRowsAre
  <1>3. /\ history' \in Seq(Rows)
        /\ Len(history') = n + Len(NewRows(r))
        /\ \A i \in 1 .. n + Len(NewRows(r)) :
             history'[i] = IF i <= n THEN history[i] ELSE NewRows(r)[i - n]
    BY <1>1, <1>2, ConcatProperties
  <1> HIDE DEF n
  <1>4. CASE Transfers(r) /\ ChangesStatus(r)
    <2>1. /\ Len(NewRows(r)) = 2
          /\ NewRows(r)[1] = TransferRow(r) /\ NewRows(r)[2] = StatusRow(r)
      BY <1>4, NewRowsAre
    <2>2. /\ Len(history') = n + 2
          /\ history'[n + 1] = TransferRow(r) /\ history'[n + 2] = StatusRow(r)
      <3>1. n + 1 \in 1..n+2 /\ n + 2 \in 1..n+2 /\ ~(n + 1 <= n) /\ ~(n + 2 <= n)
        BY <1>1
      <3>2. (n + 1) - n = 1 /\ (n + 2) - n = 2
        BY <1>1
      <3> QED
        BY <1>3, <2>1, <3>1, <3>2
    <2>3. \A i \in 1..n+2 : i > n => i = n + 1 \/ i = n + 2
      BY <1>1
    <2> QED
      BY <1>1, <1>3, <1>4, <2>2, <2>3 DEF Grown, n
  <1>5. CASE Transfers(r) /\ ~ChangesStatus(r)
    <2>1. Len(NewRows(r)) = 1 /\ NewRows(r)[1] = TransferRow(r)
      BY <1>5, NewRowsAre
    <2>2. Len(history') = n + 1 /\ history'[n + 1] = TransferRow(r)
      BY <1>1, <1>3, <2>1
    <2>3. \A i \in 1..n+1 : i > n => i = n + 1
      BY <1>1
    <2> QED
      BY <1>1, <1>3, <1>5, <2>2, <2>3 DEF Grown, n
  <1>6. CASE ~Transfers(r) /\ ChangesStatus(r)
    <2>1. Len(NewRows(r)) = 1 /\ NewRows(r)[1] = StatusRow(r)
      BY <1>6, NewRowsAre
    <2>2. Len(history') = n + 1 /\ history'[n + 1] = StatusRow(r)
      BY <1>1, <1>3, <2>1
    <2>3. \A i \in 1..n+1 : i > n => i = n + 1
      BY <1>1
    <2> QED
      BY <1>1, <1>3, <1>6, <2>2, <2>3 DEF Grown, n
  <1>7. CASE ~Transfers(r) /\ ~ChangesStatus(r)
    <2>1. Len(NewRows(r)) = 0
      BY <1>7, NewRowsAre
    <2>2. Len(history') = n
      BY <1>1, <1>3, <2>1
    <2> QED
      BY <1>1, <1>3, <1>7, <2>2 DEF Grown, n
  <1> QED
    BY <1>4, <1>5, <1>6, <1>7 DEF Transfers, ChangesStatus

-----------------------------------------------------------------------------
LEMMA InitIInv == Init => IInv
  <1> SUFFICES ASSUME Init PROVE IInv
    OBVIOUS
  <1>1. StoreTypes
    BY DEF Init, StoreTypes
  <1>2. CallTypes
    BY DEF Init, CallTypes
  <1>3. InsertsAreFresh /\ RowsAreOfRecords
    BY DEF Init, InsertsAreFresh, RowsAreOfRecords
  <1>4. LastRowIsState
    BY DEF Init, LastRowIsState, RowsOf
  <1> QED
    BY <1>1, <1>2, <1>3, <1>4 DEF IInv, TypeOK

\* A step that leaves the store alone keeps what is said of the store.
LEMMA StoreKept ==
    ASSUME IInv, UNCHANGED <<emp, history, audit>>
    PROVE  StoreTypes' /\ RowsAreOfRecords' /\ LastRowIsState'
  BY DEF IInv, TypeOK, StoreTypes, RowsAreOfRecords, LastRowIsState, RowsOf

\* Accepting a call.
LEMMA CallKeeps ==
    ASSUME IInv, NEW r \in Requests, NEW c \in Calls, NEW at \in {"insert", "load"},
           Call(r, c, at), at = "insert" => c.kind = "post",
           at = "insert" => emp[c.employee] = NoEmployee,
           at = "insert" =>
             \A q \in Requests : pc[q] = "insert" => call[q].employee # c.employee
    PROVE  IInv'
  <1>1. CallTypes'
    BY DEF IInv, TypeOK, CallTypes, Call
  <1>2. InsertsAreFresh'
    BY DEF IInv, TypeOK, CallTypes, InsertsAreFresh, Call
  <1>3. UNCHANGED <<emp, history, audit>>
    BY DEF Call
  <1> QED
    BY <1>1, <1>2, <1>3, StoreKept DEF IInv, TypeOK

LEMMA AskKeeps ==
    ASSUME IInv, NEW r \in Requests, Ask(r)
    PROVE  IInv'
  <1>1. ASSUME NEW e \in Employees, NEW s \in Statuses, NEW p \in AnyPosition,
               NEW v \in Values, PostEmployee(r, e, s, p, v)
        PROVE  IInv'
    <2> DEFINE c == [kind |-> "post", employee |-> e, status |-> s, position |-> p,
                     field |-> v]
    <2>1. c \in Calls /\ c.kind = "post" /\ c.employee = e
      BY DEF Calls, Hires
    <2>2. /\ Call(r, c, "insert")
          /\ emp[e] = NoEmployee
          /\ \A q \in Requests : pc[q] = "insert" => call[q].employee # e
      BY <1>1 DEF PostEmployee
    <2> HIDE DEF c
    <2> QED
      BY <2>1, <2>2, CallKeeps
  <1>2. ASSUME NEW e \in Employees, NEW s \in Statuses \cup {Keep},
               NEW p \in AnyPosition \cup {Keep}, NEW v \in Values \cup {Keep},
               PatchEmployee(r, e, s, p, v)
        PROVE  IInv'
    <2> DEFINE c == [kind |-> "patch", employee |-> e, status |-> s, position |-> p,
                     field |-> v]
    <2>1. c \in Calls
      BY DEF Calls, Patches
    <2>2. Call(r, c, "load")
      BY <1>2 DEF PatchEmployee
    <2> HIDE DEF c
    <2> QED
      BY <2>1, <2>2, CallKeeps
  <1>3. ASSUME NEW e \in Employees, GetEmployeeDetail(r, e)
        PROVE  IInv'
    <2> DEFINE c == [kind |-> "get", employee |-> e]
    <2>1. c \in Calls
      BY DEF Calls
    <2>2. Call(r, c, "load")
      BY <1>3 DEF GetEmployeeDetail
    <2> HIDE DEF c
    <2> QED
      BY <2>1, <2>2, CallKeeps
  <1> QED
    BY <1>1, <1>2, <1>3 DEF Ask

\* Answering a call that wrote nothing in this step.
LEMMA ReplyKeeps ==
    ASSUME IInv, NEW r \in Requests,
           NEW o \in {"200", "404", "integrity_error", "db_error"}, Reply(r, o),
           UNCHANGED <<emp, history, audit>>
    PROVE  IInv'
  <1>1. CallTypes'
    BY DEF IInv, TypeOK, CallTypes, Reply
  <1>2. InsertsAreFresh'
    BY DEF IInv, TypeOK, CallTypes, InsertsAreFresh, Reply
  <1> QED
    BY <1>1, <1>2, StoreKept DEF IInv, TypeOK

\* The steps that only read.
LEMMA LoadKeeps ==
    ASSUME IInv, NEW r \in Requests, LoadEmployee(r)
    PROVE  IInv'
  <1>1. CASE emp[call[r].employee] = NoEmployee
    BY <1>1, ReplyKeeps DEF LoadEmployee
  <1>2. CASE emp[call[r].employee] # NoEmployee
    <2>1. /\ pc[r] = "load"
          /\ snap' = [snap EXCEPT ![r] = emp[call[r].employee]]
          /\ pc' = [pc EXCEPT ![r] = IF call[r].kind = "patch" THEN "commit" ELSE "history"]
          /\ UNCHANGED <<emp, history, audit, call, resp, shown>>
      BY <1>2 DEF LoadEmployee
    <2>2. call[r].employee \in Employees
      BY <2>1, CallFields DEF IInv, TypeOK, CallTypes
    <2>3. emp[call[r].employee] \in Employee
      BY <1>2, <2>2 DEF IInv, TypeOK, StoreTypes
    <2>4. CallTypes'
      BY <1>2, <2>1, <2>3 DEF IInv, TypeOK, CallTypes
    <2>5. InsertsAreFresh'
      BY <2>1 DEF IInv, TypeOK, CallTypes, InsertsAreFresh
    <2> QED
      BY <2>1, <2>4, <2>5, StoreKept DEF IInv, TypeOK
  <1> QED
    BY <1>1, <1>2

LEMMA RefreshKeeps ==
    ASSUME IInv, NEW r \in Requests, Refresh(r)
    PROVE  IInv'
  <1>1. call[r].employee \in Employees
    BY CallFields DEF Refresh, IInv, TypeOK, CallTypes
  <1>2. emp[call[r].employee] \in Employee
    BY <1>1 DEF Refresh, IInv, TypeOK, StoreTypes, CallTypes
  <1>3. CallTypes'
    BY <1>2 DEF Refresh, IInv, TypeOK, CallTypes
  <1>4. InsertsAreFresh'
    BY DEF Refresh, IInv, TypeOK, CallTypes, InsertsAreFresh
  <1>5. UNCHANGED <<emp, history, audit>>
    BY DEF Refresh
  <1> QED
    BY <1>3, <1>4, <1>5, StoreKept DEF IInv, TypeOK

LEMMA SelectKeeps ==
    ASSUME IInv, NEW r \in Requests, SelectHistory(r)
    PROVE  IInv'
  <1>1. Len(history) \in Nat
    BY LenProperties DEF IInv, TypeOK, StoreTypes
  <1>2. CallTypes'
    BY <1>1 DEF SelectHistory, IInv, TypeOK, CallTypes
  <1>3. InsertsAreFresh'
    BY DEF SelectHistory, IInv, TypeOK, CallTypes, InsertsAreFresh
  <1>4. UNCHANGED <<emp, history, audit>>
    BY DEF SelectHistory
  <1> QED
    BY <1>2, <1>3, <1>4, StoreKept DEF IInv, TypeOK

-----------------------------------------------------------------------------
\* The rows of an employee, as a set of indices.
LEMMA RowsAre ==
    ASSUME StoreTypes
    PROVE  /\ Len(history) \in Nat
           /\ DOMAIN history = 1..Len(history)
           /\ \A i \in 1..Len(history) : history[i] \in Rows
           /\ \A types, i : \A e \in Employees :
                i \in RowsOf(e, types) <=>
                  /\ i \in 1..Len(history)
                  /\ history[i].employee = e
                  /\ history[i].change_type \in types
  <1>1. /\ Len(history) \in Nat
        /\ DOMAIN history = 1..Len(history)
        /\ \A i \in 1..Len(history) : history[i] \in Rows
    BY LenProperties DEF StoreTypes
  <1> QED
    BY <1>1 DEF RowsOf

\* Committing a row of the hire.
HireRow(r) ==
    [employee |-> call[r].employee, change_type |-> "hire", old |-> Keep,
     new |-> call[r].status]

LEMMA CreateKeeps ==
    ASSUME IInv, NEW r \in Requests, CreateEmployee(r)
    PROVE  IInv'
  <1> DEFINE n == Len(history)
             e == call[r].employee
  <1>1. CASE call[r].position \notin Positions
    BY <1>1, ReplyKeeps DEF CreateEmployee
  <1>2. CASE call[r].position \in Positions
    <2>1. /\ pc[r] = "insert"
          /\ emp' = [emp EXCEPT ![e] = [status |-> call[r].status,
                       position |-> call[r].position, field |-> call[r].field]]
          /\ history' = Append(history, HireRow(r))
          /\ audit' = [audit EXCEPT ![e] = @ + 1]
          /\ pc' = [pc EXCEPT ![r] = "refresh"]
          /\ UNCHANGED <<call, snap, resp, shown>>
      BY <1>2 DEF CreateEmployee, RecordAudit, Await, HireRow
    <2>2. /\ call[r] \in Calls /\ call[r].kind = "post"
          /\ e \in Employees
          /\ call[r].status \in Statuses /\ call[r].field \in Values
      BY <2>1, CallFields DEF IInv, TypeOK, CallTypes
    <2>3. /\ HireRow(r) \in Rows
          /\ [status |-> call[r].status, position |-> call[r].position,
              field |-> call[r].field] \in Employee
      BY <1>2, <2>2 DEF HireRow, Rows, Employee
    <2>4. StoreTypes
      BY DEF IInv, TypeOK
    <2>5. /\ history' \in Seq(Rows)
          /\ n \in Nat
          /\ Len(history') = n + 1
          /\ \A i \in 1..n : history'[i] = history[i]
          /\ history'[n + 1] = HireRow(r)
      BY <2>1, <2>3, <2>4, AppendProperties, LenProperties DEF StoreTypes
    <2>6. StoreTypes'
      BY <2>1, <2>2, <2>3, <2>4, <2>5 DEF StoreTypes
    <2>7. /\ emp[e] = NoEmployee
          /\ emp'[e] # NoEmployee
          /\ emp'[e].status = call[r].status
          /\ \A f \in Employees : f # e => emp'[f] = emp[f]
      BY <2>1, <2>2, <2>3, <2>4 DEF IInv, InsertsAreFresh, StoreTypes
    <2>8. CallTypes'
      BY <2>1, <2>2, <2>7, CallFields DEF IInv, TypeOK, CallTypes
    <2>9. InsertsAreFresh'
      <3> SUFFICES ASSUME NEW q \in Requests, pc'[q] = "insert"
                   PROVE  /\ emp'[call[q].employee] = NoEmployee
                          /\ \A p \in Requests :
                               pc'[p] = "insert" /\ call[p].employee = call[q].employee
                                 => p = q
        BY <2>1 DEF InsertsAreFresh
      <3>1. q # r /\ pc[q] = "insert" /\ \A p \in Requests : pc'[p] = "insert" => pc[p] = "insert"
        BY <2>1 DEF IInv, TypeOK, CallTypes
      <3>2. call[q].employee # e /\ call[q].employee \in Employees
        BY <2>1, <3>1, CallFields DEF IInv, InsertsAreFresh, TypeOK, CallTypes
      <3> QED
        BY <2>7, <3>1, <3>2 DEF IInv, InsertsAreFresh
    <2>10. RowsAreOfRecords'
      <3> SUFFICES ASSUME NEW i \in 1..n+1
                   PROVE  emp'[history'[i].employee] # NoEmployee
        BY <2>5 DEF RowsAreOfRecords
      <3>1. CASE i = n + 1
        BY <2>5, <2>7, <3>1 DEF HireRow
      <3>2. CASE i \in 1..n
        <4>1. /\ history'[i] = history[i]
              /\ emp[history[i].employee] # NoEmployee
              /\ history[i].employee \in Employees
          BY <2>4, <2>5, <3>2, RowsAre DEF IInv, RowsAreOfRecords, Rows
        <4> QED
          BY <2>7, <4>1
      <3> QED
        BY <2>5, <3>1, <3>2
    <2>11. ASSUME NEW f \in Employees, NEW types
           PROVE  RowsOf(f, types)' =
                    IF f = e /\ "hire" \in types THEN {n + 1}
                    ELSE IF f = e THEN {} ELSE RowsOf(f, types)
      <3>1. \A i \in 1..n : history[i].employee # e
        BY <2>7 DEF IInv, RowsAreOfRecords
      <3>2. HireRow(r).employee = e /\ HireRow(r).change_type = "hire"
        BY DEF HireRow
      <3>3. DOMAIN history = 1..n /\ DOMAIN history' = 1..n+1
        BY <2>4, <2>5, <2>6, RowsAre DEF StoreTypes
      <3>4. \A i \in 1..n+1 : i = n + 1 \/ i \in 1..n
        BY <2>5
      <3>5. n + 1 \in 1..n+1 /\ n + 1 \notin 1..n /\ \A i \in 1..n : i \in 1..n+1
        BY <2>5
      <3> HIDE DEF n, e
      <3> QED
        BY <2>5, <3>1, <3>2, <3>3, <3>4, <3>5 DEF RowsOf
    <2>12. LastRowIsState'
      <3> SUFFICES ASSUME NEW f \in Employees
                   PROVE  /\ \A i \in RowsOf(f, StatusTypes)' :
                               (\A j \in RowsOf(f, StatusTypes)' : j <= i) =>
                                 emp'[f] # NoEmployee /\ emp'[f].status = history'[i].new
                          /\ \A i \in RowsOf(f, {"transfer"})' :
                               (\A j \in RowsOf(f, {"transfer"})' : j <= i) =>
                                 emp'[f] # NoEmployee /\ emp'[f].position = history'[i].new
        BY DEF LastRowIsState, StatusTypes
      <3>1. CASE f = e
        <4>1. RowsOf(f, StatusTypes)' = {n + 1} /\ RowsOf(f, {"transfer"})' = {}
          BY <2>11, <3>1 DEF StatusTypes
        <4>2. emp'[f] # NoEmployee /\ emp'[f].status = history'[n + 1].new
          BY <2>5, <2>7, <3>1 DEF HireRow
        <4> QED
          BY <4>1, <4>2
      <3>2. CASE f # e
        <4>1. /\ RowsOf(f, StatusTypes)' = RowsOf(f, StatusTypes)
              /\ RowsOf(f, {"transfer"})' = RowsOf(f, {"transfer"})
          BY <2>11, <3>2
        <4>2. emp'[f] = emp[f]
          BY <2>7, <3>2
        <4>3. \A types : \A i \in RowsOf(f, types) : history'[i] = history[i]
          BY <2>4, <2>5, RowsAre
        <4> QED
          BY <4>1, <4>2, <4>3 DEF IInv, LastRowIsState
      <3> QED
        BY <3>1, <3>2
    <2> QED
      BY <2>6, <2>8, <2>9, <2>10, <2>12 DEF IInv, TypeOK
  <1> QED
    BY <1>1, <1>2

-----------------------------------------------------------------------------
\* A PATCH that commits, as the variables see it.
LEMMA UpdateFacts ==
    ASSUME IInv, NEW r \in Requests, pc[r] = "commit", UpdateEmployee(r),
           ~(Transfers(r) /\ call[r].position \notin Positions)
    PROVE  /\ Grown(r)
           /\ \E field \in FieldsAfter(r, emp[call[r].employee]) :
                /\ emp' = [emp EXCEPT ![call[r].employee] =
                              Updated(r, emp[call[r].employee], field)]
                /\ Updated(r, emp[call[r].employee], field) \in Employee
           /\ audit' = [audit EXCEPT ![call[r].employee] = @ + 1]
           /\ pc' = [pc EXCEPT ![r] = "refresh"]
           /\ UNCHANGED <<call, snap, resp, shown>>
           /\ call[r].employee \in Employees
           /\ emp[call[r].employee] \in Employee
  <1>1. /\ history' = history \o NewRows(r)
        /\ audit' = [audit EXCEPT ![call[r].employee] = @ + 1]
        /\ pc' = [pc EXCEPT ![r] = "refresh"]
        /\ UNCHANGED <<call, snap, resp, shown>>
    BY DEF UpdateEmployee, RecordAudit, Await
  <1>2. PICK field \in FieldsAfter(r, emp[call[r].employee]) :
          emp' = [emp EXCEPT ![call[r].employee] = Updated(r, emp[call[r].employee], field)]
    BY DEF UpdateEmployee
  <1>3. Grown(r)
    BY <1>1, HistoryGrows DEF IInv
  <1>4. /\ call[r].employee \in Employees
        /\ emp[call[r].employee] \in Employee
        /\ Transfers(r) => call[r].position \in Positions
        /\ ChangesStatus(r) => call[r].status \in Statuses
        /\ field \in Values
    BY <1>2, PatchFields DEF IInv
  <1>5. Updated(r, emp[call[r].employee], field) \in Employee
    BY <1>4 DEF Updated, Employee
  <1> QED
    BY <1>1, <1>3, <1>4, <1>5, <1>2

\* The rows of an employee after a PATCH.
LEMMA RowsGrow ==
    ASSUME StoreTypes, NEW r \in Requests, Grown(r), NEW f \in Employees
    PROVE  /\ \A i \in RowsOf(f, StatusTypes) : i \in RowsOf(f, StatusTypes)'
           /\ \A i \in RowsOf(f, {"transfer"}) : i \in RowsOf(f, {"transfer"})'
           /\ \A i \in RowsOf(f, StatusTypes)' :
                \/ i \in RowsOf(f, StatusTypes) /\ history'[i] = history[i]
                \/ /\ i > Len(history) /\ f = call[r].employee
                   /\ ChangesStatus(r) /\ history'[i] = StatusRow(r)
           /\ \A i \in RowsOf(f, {"transfer"})' :
                \/ i \in RowsOf(f, {"transfer"}) /\ history'[i] = history[i]
                \/ /\ i > Len(history) /\ f = call[r].employee
                   /\ Transfers(r) /\ history'[i] = TransferRow(r)
           /\ f = call[r].employee /\ ChangesStatus(r) =>
                \E k \in RowsOf(f, StatusTypes)' : k > Len(history)
           /\ f = call[r].employee /\ Transfers(r) =>
                \E k \in RowsOf(f, {"transfer"})' : k > Len(history)
           /\ \A i \in RowsOf(f, StatusTypes) \cup RowsOf(f, {"transfer"}) :
                i \in 1..Len(history)
  <1>1. /\ Len(history) \in Nat /\ Len(history') \in Nat
        /\ Len(history) <= Len(history')
        /\ DOMAIN history = 1..Len(history) /\ DOMAIN history' = 1..Len(history')
    BY RowsAre, LenProperties DEF Grown
  <1>2. \A i \in 1..Len(history) : i \in 1..Len(history')
    BY <1>1
  <1>3. /\ TransferRow(r).employee = call[r].employee
        /\ TransferRow(r).change_type = "transfer"
        /\ StatusRow(r).employee = call[r].employee
        /\ StatusRow(r).change_type = "status_change"
    BY DEF TransferRow, StatusRow
  <1>4. \A i \in 1..Len(history') : i \in 1..Len(history) \/ i > Len(history)
    BY <1>1
  <1> QED
    BY <1>1, <1>2, <1>3, <1>4 DEF RowsOf, Grown, StatusTypes

LEMMA UpdateKeeps ==
    ASSUME IInv, NEW r \in Requests, UpdateEmployee(r)
    PROVE  IInv'
  <1> DEFINE e == call[r].employee
  <1>0. pc[r] = "commit"
    BY DEF UpdateEmployee
  <1>1. CASE Transfers(r) /\ call[r].position \notin Positions
    BY <1>1, ReplyKeeps DEF UpdateEmployee
  <1>2. CASE ~(Transfers(r) /\ call[r].position \notin Positions)
    <2> PICK field \in FieldsAfter(r, emp[e]) :
          /\ emp' = [emp EXCEPT ![e] = Updated(r, emp[e], field)]
          /\ Updated(r, emp[e], field) \in Employee
      BY <1>0, <1>2, UpdateFacts
    <2>1. /\ Grown(r)
          /\ emp' = [emp EXCEPT ![e] = Updated(r, emp[e], field)]
          /\ audit' = [audit EXCEPT ![e] = @ + 1]
          /\ pc' = [pc EXCEPT ![r] = "refresh"]
          /\ UNCHANGED <<call, snap, resp, shown>>
          /\ e \in Employees /\ emp[e] \in Employee
          /\ Updated(r, emp[e], field) \in Employee
      BY <1>0, <1>2, UpdateFacts
    <2> HIDE DEF e
    <2>2. StoreTypes /\ StoreTypes'
      BY <2>1 DEF IInv, TypeOK, StoreTypes, Grown
    <2>3. /\ emp'[e] = Updated(r, emp[e], field)
          /\ \A f \in Employees : f # e => emp'[f] = emp[f]
          /\ \A f \in Employees : emp[f] # NoEmployee <=> emp'[f] # NoEmployee
      BY <2>1, <2>2 DEF StoreTypes
    <2>4. CallTypes'
      BY <1>0, <2>1, <2>3, CallFields DEF IInv, TypeOK, CallTypes, e
    <2>5. InsertsAreFresh'
      BY <2>1, <2>3, CallFields DEF IInv, TypeOK, CallTypes, InsertsAreFresh
    <2>6. RowsAreOfRecords'
      <3> SUFFICES ASSUME NEW i \in 1..Len(history')
                   PROVE  emp'[history'[i].employee] # NoEmployee
        BY DEF RowsAreOfRecords
      <3>1. CASE i \in 1..Len(history)
        <4>1. history'[i] = history[i] /\ history[i].employee \in Employees
          BY <2>1, <2>2, <3>1, RowsAre DEF Grown, Rows
        <4> QED
          BY <2>3, <3>1, <4>1 DEF IInv, RowsAreOfRecords
      <3>2. CASE i > Len(history)
        <4>1. history'[i] = TransferRow(r) \/ history'[i] = StatusRow(r)
          BY <2>1, <3>2 DEF Grown
        <4>2. TransferRow(r).employee = e /\ StatusRow(r).employee = e
          BY DEF TransferRow, StatusRow, e
        <4> QED
          BY <2>1, <2>3, <4>1, <4>2
      <3> QED
        BY <2>2, <3>1, <3>2, RowsAre
    <2>7. /\ emp'[e].status = IF ChangesStatus(r) THEN call[r].status ELSE emp[e].status
          /\ emp'[e].position = IF Transfers(r) THEN call[r].position ELSE emp[e].position
      BY <2>3 DEF Updated
    <2>8. StatusRow(r).new = call[r].status /\ TransferRow(r).new = call[r].position
      BY DEF StatusRow, TransferRow
    <2>9. Len(history) \in Nat
      BY <2>2, RowsAre
    <2>10. ASSUME NEW f \in Employees, NEW i \in RowsOf(f, StatusTypes)',
                  \A j \in RowsOf(f, StatusTypes)' : j <= i
           PROVE  emp'[f] # NoEmployee /\ emp'[f].status = history'[i].new
      <3>1. CASE f = e /\ ChangesStatus(r)
        <4>1. i > Len(history)
          <5>1. PICK k \in RowsOf(f, StatusTypes)' : k > Len(history)
            BY <2>1, <2>2, <3>1, RowsGrow DEF e
          <5>2. k <= i
            BY <2>10, <5>1
          <5>3. k \in 1..Len(history') /\ Len(history') \in Nat
            BY <2>2, <5>1, LenProperties DEF RowsOf, StoreTypes
          <5>4. i \in 1..Len(history) \/ i > Len(history)
            BY <2>1, <2>2, RowsGrow
          <5> QED
            BY <2>9, <5>1, <5>2, <5>3, <5>4
        <4>2. history'[i] = StatusRow(r)
          BY <2>1, <2>2, <2>9, <4>1, RowsGrow
        <4> QED
          BY <2>1, <2>3, <2>7, <2>8, <3>1, <4>2
      <3>2. CASE ~(f = e /\ ChangesStatus(r))
        <4>1. i \in RowsOf(f, StatusTypes) /\ history'[i] = history[i]
          BY <2>1, <2>2, <3>2, RowsGrow DEF e
        <4>2. \A j \in RowsOf(f, StatusTypes) : j <= i
          BY <2>1, <2>2, <2>10, RowsGrow
        <4>3. emp[f] # NoEmployee /\ emp[f].status = history[i].new
          BY <4>1, <4>2 DEF IInv, LastRowIsState
        <4> QED
          BY <2>3, <2>7, <3>2, <4>1, <4>3
      <3> QED
        BY <3>1, <3>2
    <2>11. ASSUME NEW f \in Employees, NEW i \in RowsOf(f, {"transfer"})',
                  \A j \in RowsOf(f, {"transfer"})' : j <= i
           PROVE  emp'[f] # NoEmployee /\ emp'[f].position = history'[i].new
      <3>1. CASE f = e /\ Transfers(r)
        <4>1. i > Len(history)
          <5>1. PICK k \in RowsOf(f, {"transfer"})' : k > Len(history)
            BY <2>1, <2>2, <3>1, RowsGrow DEF e
          <5>2. k <= i
            BY <2>11, <5>1
          <5>3. k \in 1..Len(history') /\ Len(history') \in Nat
            BY <2>2, <5>1, LenProperties DEF RowsOf, StoreTypes
          <5>4. i \in 1..Len(history) \/ i > Len(history)
            BY <2>1, <2>2, RowsGrow
          <5> QED
            BY <2>9, <5>1, <5>2, <5>3, <5>4
        <4>2. history'[i] = TransferRow(r)
          BY <2>1, <2>2, <2>9, <4>1, RowsGrow
        <4> QED
          BY <2>1, <2>3, <2>7, <2>8, <3>1, <4>2
      <3>2. CASE ~(f = e /\ Transfers(r))
        <4>1. i \in RowsOf(f, {"transfer"}) /\ history'[i] = history[i]
          BY <2>1, <2>2, <3>2, RowsGrow DEF e
        <4>2. \A j \in RowsOf(f, {"transfer"}) : j <= i
          BY <2>1, <2>2, <2>11, RowsGrow
        <4>3. emp[f] # NoEmployee /\ emp[f].position = history[i].new
          BY <4>1, <4>2 DEF IInv, LastRowIsState
        <4> QED
          BY <2>3, <2>7, <3>2, <4>1, <4>3
      <3> QED
        BY <3>1, <3>2
    <2>12. LastRowIsState'
      BY <2>10, <2>11 DEF LastRowIsState, StatusTypes
    <2> QED
      BY <2>2, <2>4, <2>5, <2>6, <2>12 DEF IInv, TypeOK
  <1> QED
    BY <1>1, <1>2

LEMMA StepKeeps == IInv /\ [Next]_vars => IInv'
  <1> SUFFICES ASSUME IInv, [Next]_vars PROVE IInv'
    OBVIOUS
  <1>1. CASE UNCHANGED vars
    <2>1. CallTypes' /\ InsertsAreFresh'
      BY <1>1 DEF IInv, TypeOK, CallTypes, InsertsAreFresh, vars
    <2> QED
      BY <1>1, <2>1, StoreKept DEF IInv, TypeOK, vars
  <1>2. ASSUME NEW r \in Requests, DetailDone(r) \/ DbError(r)
        PROVE  IInv'
    BY <1>2, ReplyKeeps DEF DetailDone, DbError
  <1> QED
    BY <1>1, <1>2, AskKeeps, CreateKeeps, LoadKeeps, UpdateKeeps, RefreshKeeps,
       SelectKeeps DEF Next, Serve

\* The inductive invariant.
THEOREM Invariant == Spec => []IInv
  BY InitIInv, StepKeeps, PTL DEF Spec

\* Every variable of the employee service keeps its type.
THEOREM TypeCorrect == Spec => []TypeOK
  <1>1. IInv => TypeOK
    BY DEF IInv
  <1> QED
    BY <1>1, Invariant, PTL

\* However PATCHes of an employee interleave, the employee's status and position
\* are what the last rows of the history say.
THEOREM HistoryIsFollowed == Spec => []LastRowIsState
  <1>1. IInv => LastRowIsState
    BY DEF IInv
  <1> QED
    BY <1>1, Invariant, PTL

-----------------------------------------------------------------------------
\* Which steps write, and what.
LEMMA Writers ==
    ASSUME IInv, [Next]_vars
    PROVE  \/ UNCHANGED <<emp, history, audit>>
           \/ \E r \in Requests : /\ CreateEmployee(r)
                                  /\ call[r].position \in Positions
           \/ \E r \in Requests : /\ UpdateEmployee(r)
                                  /\ ~(Transfers(r) /\ call[r].position \notin Positions)
  <1>1. ASSUME NEW r \in Requests, Ask(r) \/ LoadEmployee(r) \/ Refresh(r)
                 \/ SelectHistory(r) \/ DetailDone(r) \/ DbError(r)
        PROVE  UNCHANGED <<emp, history, audit>>
    BY <1>1 DEF Ask, PostEmployee, PatchEmployee, GetEmployeeDetail, Call,
          LoadEmployee, Refresh, SelectHistory, DetailDone, DbError
  <1>2. ASSUME NEW r \in Requests, CreateEmployee(r), call[r].position \notin Positions
        PROVE  UNCHANGED <<emp, history, audit>>
    BY <1>2 DEF CreateEmployee
  <1>3. ASSUME NEW r \in Requests, UpdateEmployee(r),
               Transfers(r) /\ call[r].position \notin Positions
        PROVE  UNCHANGED <<emp, history, audit>>
    BY <1>3 DEF UpdateEmployee
  <1> QED
    BY <1>1, <1>2, <1>3 DEF Next, Serve, vars

\* A PATCH changes the columns it was asked to change and no other, whatever was
\* committed since it loaded the row, and is audited; a hire or a PATCH that the
\* foreign key on position_id refuses leaves nothing behind.
THEOREM OnlyAskedChanges == Spec => ChangesAreAsked
  <1> DEFINE Asked ==
        \A e \in Employees :
          emp[e] # NoEmployee /\ emp'[e] # emp[e] =>
            \E r \in Requests :
              /\ pc[r] = "commit" /\ call[r].employee = e
              /\ emp'[e].status # emp[e].status => emp'[e].status = call[r].status
              /\ emp'[e].position # emp[e].position => emp'[e].position = call[r].position
              /\ emp'[e].field # emp[e].field => emp'[e].field = call[r].field
              /\ audit'[e] = audit[e] + 1
             Refused ==
        \A r \in Requests :
          resp[r] # "integrity_error" /\ resp'[r] = "integrity_error" =>
            UNCHANGED <<emp, history, audit>>
  <1>1. ASSUME IInv, [Next]_vars PROVE Asked
    <2>1. CASE UNCHANGED <<emp, history, audit>>
      BY <2>1
    <2>2. ASSUME NEW r \in Requests, CreateEmployee(r), call[r].position \in Positions
          PROVE  Asked
      <3>1. emp[call[r].employee] = NoEmployee
        BY <1>1, <2>2 DEF CreateEmployee, IInv, InsertsAreFresh
      <3>2. \A e \in Employees : e # call[r].employee => emp'[e] = emp[e]
        BY <1>1, <2>2 DEF CreateEmployee, IInv, TypeOK, StoreTypes
      <3> QED
        BY <3>1, <3>2
    <2>3. ASSUME NEW r \in Requests, UpdateEmployee(r),
                 ~(Transfers(r) /\ call[r].position \notin Positions)
          PROVE  Asked
      <3> DEFINE e == call[r].employee
      <3> PICK field \in FieldsAfter(r, emp[e]) :
            emp' = [emp EXCEPT ![e] = Updated(r, emp[e], field)]
        BY <1>1, <2>3, UpdateFacts DEF UpdateEmployee
      <3>1. /\ pc[r] = "commit"
            /\ emp' = [emp EXCEPT ![e] = Updated(r, emp[e], field)]
            /\ audit' = [audit EXCEPT ![e] = @ + 1]
            /\ e \in Employees
        BY <1>1, <2>3, UpdateFacts DEF UpdateEmployee
      <3>2. /\ emp'[e] = Updated(r, emp[e], field) /\ audit'[e] = audit[e] + 1
            /\ \A f \in Employees : f # e => emp'[f] = emp[f]
        BY <1>1, <3>1 DEF IInv, TypeOK, StoreTypes
      <3>3. /\ emp'[e].status # emp[e].status => emp'[e].status = call[r].status
            /\ emp'[e].position # emp[e].position => emp'[e].position = call[r].position
            /\ emp'[e].field # emp[e].field => emp'[e].field = call[r].field
        BY <3>2 DEF Updated, FieldsAfter
      <3> QED
        BY <3>1, <3>2, <3>3
    <2> QED
      BY <1>1, <2>1, <2>2, <2>3, Writers
  <1>2. ASSUME IInv, [Next]_vars PROVE Refused
    <2> SUFFICES ASSUME NEW r \in Requests, resp[r] # "integrity_error",
                        resp'[r] = "integrity_error"
                 PROVE  UNCHANGED <<emp, history, audit>>
      OBVIOUS
    <2>1. ASSUME NEW q \in Requests, CreateEmployee(q), call[q].position \in Positions
          PROVE  FALSE
      BY <2>1 DEF CreateEmployee, Await
    <2>2. ASSUME NEW q \in Requests, UpdateEmployee(q),
                 ~(Transfers(q) /\ call[q].position \notin Positions)
          PROVE  FALSE
      BY <2>2 DEF UpdateEmployee, Await
    <2> QED
      BY <1>2, <2>1, <2>2, Writers
  <1>3. IInv /\ [Next]_vars => Asked /\ Refused
    BY <1>1, <1>2
  <1> QED
    BY <1>3, Invariant, PTL DEF Spec, ChangesAreAsked

-----------------------------------------------------------------------------
\* The mapping to PersonnelFile: a record as a file, the history as its log.
EntryOf(row) == [employee |-> row.employee, kind |-> row.change_type, new |-> row.new]
LogOf(h) == [i \in DOMAIN h |-> EntryOf(h[i])]
FileOf(row) ==
    IF row = NoEmployee THEN NoEmployee
    ELSE [status |-> row.status, position |-> row.position]
Files == [e \in Employees |-> FileOf(emp[e])]

\* A row more in the history is an entry more in the log.
LEMMA LogAppend ==
    ASSUME NEW h \in Seq(Rows), NEW row \in Rows
    PROVE  /\ Append(h, row) \in Seq(Rows)
           /\ LogOf(Append(h, row)) = Append(LogOf(h), EntryOf(row))
  <1> DEFINE S == {EntryOf(x) : x \in Rows}
             n == Len(h)
             g == Append(h, row)
  <1>1. /\ n \in Nat /\ DOMAIN h = 1..n /\ \A i \in 1..n : h[i] \in Rows
        /\ g \in Seq(Rows) /\ DOMAIN g = 1..n+1
        /\ \A i \in 1..n : g[i] = h[i]
        /\ g[n + 1] = row
    BY LenProperties, AppendProperties
  <1>2. \A m \in Nat : \A f \in [1..m -> S] : f \in Seq(S) /\ Len(f) = m
    OBVIOUS
  <1>3. \A i \in 1..n+1 : i \in 1..n \/ i = n + 1
    BY <1>1
  <1>4. /\ LogOf(h) \in [1..n -> S] /\ \A i \in 1..n : LogOf(h)[i] = EntryOf(h[i])
        /\ LogOf(g) \in [1..n+1 -> S] /\ \A i \in 1..n+1 : LogOf(g)[i] = EntryOf(g[i])
    <2> HIDE DEF g, n
    <2>1. \A i \in 1..n+1 : g[i] \in Rows
      BY <1>1, <1>3
    <2> QED
      BY <1>1, <2>1 DEF LogOf
  <1>5. EntryOf(row) \in S
    OBVIOUS
  <1> HIDE DEF S, n, g
  <1>6. /\ LogOf(h) \in Seq(S) /\ Len(LogOf(h)) = n
        /\ LogOf(g) \in Seq(S) /\ Len(LogOf(g)) = n + 1
    BY <1>1, <1>2, <1>4
  <1>7. /\ Append(LogOf(h), EntryOf(row)) \in Seq(S)
        /\ Len(Append(LogOf(h), EntryOf(row))) = n + 1
        /\ \A i \in 1..n : Append(LogOf(h), EntryOf(row))[i] = LogOf(h)[i]
        /\ Append(LogOf(h), EntryOf(row))[n + 1] = EntryOf(row)
    BY <1>5, <1>6, AppendProperties
  <1>8. \A i \in 1..n+1 : LogOf(g)[i] = Append(LogOf(h), EntryOf(row))[i]
    BY <1>1, <1>3, <1>4, <1>7
  <1>9. LogOf(g) = Append(LogOf(h), EntryOf(row))
    BY <1>6, <1>7, <1>8, SeqEqual
  <1> QED
    BY <1>1, <1>9 DEF g

\* The history after a PATCH, one row at a time.
LEMMA RowsAppended ==
    ASSUME TypeOK, NEW r \in Requests, pc[r] = "commit",
           ~(Transfers(r) /\ call[r].position \notin Positions)
    PROVE  /\ Transfers(r) /\ ChangesStatus(r) =>
                history \o NewRows(r) = Append(Append(history, TransferRow(r)), StatusRow(r))
           /\ Transfers(r) /\ ~ChangesStatus(r) =>
                history \o NewRows(r) = Append(history, TransferRow(r))
           /\ ~Transfers(r) /\ ChangesStatus(r) =>
                history \o NewRows(r) = Append(history, StatusRow(r))
           /\ ~Transfers(r) /\ ~ChangesStatus(r) => history \o NewRows(r) = history
  <1>1. history \in Seq(Rows)
    BY DEF TypeOK, StoreTypes
  <1>2. ASSUME NEW h \in Seq(Rows), NEW a \in Rows
        PROVE  h \o <<a>> = Append(h, a) /\ h \o <<a>> \in Seq(Rows)
    BY AppendIsConcat, ConcatProperties
  <1>3. ASSUME NEW a \in Rows, NEW b \in Rows
        PROVE  history \o <<a, b>> = Append(Append(history, a), b)
    <2> DEFINE left == history \o <<a, b>>
               right == Append(Append(history, a), b)
               n == Len(history)
    <2>1. /\ n \in Nat
          /\ left \in Seq(Rows) /\ Len(left) = n + 2
          /\ \A i \in 1 .. n + 2 : left[i] = IF i <= n THEN history[i] ELSE <<a, b>>[i - n]
      <3>1. <<a, b>> \in Seq(Rows) /\ Len(<<a, b>>) = 2
        OBVIOUS
      <3> QED
        BY <1>1, <3>1, ConcatProperties, LenProperties
    <2>2. /\ right \in Seq(Rows) /\ Len(right) = n + 2
          /\ \A i \in 1..n : right[i] = history[i]
          /\ right[n + 1] = a /\ right[n + 2] = b
      <3> DEFINE mid == Append(history, a)
      <3>1. /\ mid \in Seq(Rows) /\ Len(mid) = n + 1
            /\ \A i \in 1..n : mid[i] = history[i]
            /\ mid[n + 1] = a
        BY <1>1, AppendProperties
      <3> HIDE DEF mid
      <3>2. /\ Append(mid, b) \in Seq(Rows) /\ Len(Append(mid, b)) = (n + 1) + 1
            /\ \A i \in 1..n+1 : Append(mid, b)[i] = mid[i]
            /\ Append(mid, b)[(n + 1) + 1] = b
        BY <3>1, AppendProperties
      <3>3. n + 1 \in 1..n+1 /\ (n + 1) + 1 = n + 2 /\ \A i \in 1..n : i \in 1..n+1
        BY <2>1
      <3> QED
        BY <3>1, <3>2, <3>3 DEF mid
    <2> HIDE DEF left, right, n
    <2>3. \A i \in 1..n+2 : (i \in 1..n /\ i <= n) \/ (i = n + 1 /\ ~(i <= n) /\ i - n = 1)
                              \/ (i = n + 2 /\ ~(i <= n) /\ i - n = 2)
      BY <2>1
    <2>4. \A i \in 1..n+2 : left[i] = right[i]
      <3>1. <<a, b>>[1] = a /\ <<a, b>>[2] = b
        OBVIOUS
      <3> QED
        BY <2>1, <2>2, <2>3, <3>1
    <2>5. left = right
      BY <2>1, <2>2, <2>4, SeqEqual
    <2> QED
      BY <2>5 DEF left, right
  <1> QED
    BY <1>1, <1>2, <1>3, NewRowsAre, ConcatEmptySeq

\* The mapped variables are the ones of File.
LEMMA Mapping ==
    /\ Files = [e \in Employees |->
                 IF emp[e] = NoEmployee THEN NoEmployee
                 ELSE [status |-> emp[e].status, position |-> emp[e].position]]
    /\ LogOf(history) = [i \in DOMAIN history |->
                 [employee |-> history[i].employee, kind |-> history[i].change_type,
                  new |-> history[i].new]]
  BY DEF Files, FileOf, LogOf, EntryOf

FileHire(e, s, p) ==
    /\ Files[e] = NoEmployee
    /\ Files' = [Files EXCEPT ![e] = [status |-> s, position |-> p]]
    /\ LogOf(history)' = Append(LogOf(history), [employee |-> e, kind |-> "hire", new |-> s])

FileAmend(e) ==
    /\ Files[e] # NoEmployee
    /\ \/ UNCHANGED <<Files, LogOf(history)>>
       \/ \E p \in Positions :
            /\ Files' = [Files EXCEPT ![e] = [@ EXCEPT !.position = p]]
            /\ LogOf(history)' =
                 Append(LogOf(history), [employee |-> e, kind |-> "transfer", new |-> p])
       \/ \E s \in Statuses :
            /\ Files' = [Files EXCEPT ![e] = [@ EXCEPT !.status = s]]
            /\ LogOf(history)' =
                 Append(LogOf(history), [employee |-> e, kind |-> "status_change", new |-> s])
       \/ \E p \in Positions, s \in Statuses :
            /\ Files' = [Files EXCEPT ![e] = [status |-> s, position |-> p]]
            /\ LogOf(history)' =
                 Append(Append(LogOf(history),
                               [employee |-> e, kind |-> "transfer", new |-> p]),
                        [employee |-> e, kind |-> "status_change", new |-> s])

\* A POST that commits is a Hire.
LEMMA CreateIsHire ==
    ASSUME IInv, NEW r \in Requests, CreateEmployee(r), call[r].position \in Positions
    PROVE  \E e \in Employees, s \in Statuses, p \in Positions : FileHire(e, s, p)
  <1> DEFINE c == call[r]
             e == c.employee
             row == [status |-> c.status, position |-> c.position, field |-> c.field]
  <1>1. /\ pc[r] = "insert"
        /\ emp' = [emp EXCEPT ![e] = row]
        /\ history' = Append(history, HireRow(r))
    BY DEF CreateEmployee, HireRow
  <1>2. /\ e \in Employees /\ c.status \in Statuses /\ c.field \in Values
        /\ emp[e] = NoEmployee
    BY <1>1, CallFields DEF IInv, InsertsAreFresh, TypeOK, CallTypes
  <1>3. /\ row \in Employee /\ HireRow(r) \in Rows
        /\ EntryOf(HireRow(r)) = [employee |-> e, kind |-> "hire", new |-> c.status]
        /\ row.status = c.status /\ row.position = c.position
    BY <1>2 DEF Employee, HireRow, Rows, EntryOf
  <1>4. history \in Seq(Rows) /\ emp \in [Employees -> Employee \cup {NoEmployee}]
    BY DEF IInv, TypeOK, StoreTypes
  <1>5. LogOf(history)' = Append(LogOf(history), EntryOf(HireRow(r)))
    BY <1>1, <1>3, <1>4, LogAppend
  <1>6. Files[e] = NoEmployee
    BY <1>2 DEF Files, FileOf
  <1> HIDE DEF row, e, c
  <1>7. Files' = [Files EXCEPT ![e] = [status |-> c.status, position |-> c.position]]
    BY <1>1, <1>2, <1>3, <1>4 DEF Files, FileOf
  <1> QED
    BY <1>2, <1>3, <1>5, <1>6, <1>7 DEF FileHire, c

\* A PATCH that commits is an Amend.
LEMMA UpdateIsAmend ==
    ASSUME IInv, NEW r \in Requests, UpdateEmployee(r),
           ~(Transfers(r) /\ call[r].position \notin Positions)
    PROVE  \E e \in Employees : FileAmend(e)
  <1>0. pc[r] = "commit" /\ TypeOK
    BY DEF UpdateEmployee, IInv
  <1>f. PICK field \in FieldsAfter(r, emp[call[r].employee]) :
        /\ emp' = [emp EXCEPT ![call[r].employee] =
                      Updated(r, emp[call[r].employee], field)]
        /\ Updated(r, emp[call[r].employee], field) \in Employee
    BY <1>0, UpdateFacts
  <1> DEFINE e == call[r].employee
             row == Updated(r, emp[e], field)
             s == call[r].status
             p == call[r].position
  <1>1. /\ emp' = [emp EXCEPT ![e] = row]
        /\ e \in Employees /\ emp[e] \in Employee /\ row \in Employee
        /\ history' = history \o NewRows(r)
    BY <1>0, <1>f, UpdateFacts DEF UpdateEmployee
  <1>2. /\ Transfers(r) => p \in Positions
        /\ ChangesStatus(r) => s \in Statuses
    BY <1>0, PatchFields
  <1>3. /\ row.status = IF ChangesStatus(r) THEN s ELSE emp[e].status
        /\ row.position = IF Transfers(r) THEN p ELSE emp[e].position
    BY DEF Updated
  <1>4. history \in Seq(Rows) /\ emp \in [Employees -> Employee \cup {NoEmployee}]
    BY DEF IInv, TypeOK, StoreTypes
  <1>5. /\ EntryOf(TransferRow(r)) = [employee |-> e, kind |-> "transfer", new |-> p]
        /\ EntryOf(StatusRow(r)) = [employee |-> e, kind |-> "status_change", new |-> s]
        /\ Transfers(r) => TransferRow(r) \in Rows
        /\ ChangesStatus(r) => StatusRow(r) \in Rows
    BY <1>0, NewRowsAre DEF EntryOf, TransferRow, StatusRow
  <1> HIDE DEF e, row, s, p
  <1>6. Files[e] = [status |-> emp[e].status, position |-> emp[e].position]
    BY <1>1 DEF Files, FileOf
  <1>7. Files' = [Files EXCEPT ![e] = [status |-> row.status, position |-> row.position]]
    BY <1>1, <1>4 DEF Files, FileOf
  <1>8. Files[e] # NoEmployee
    <2>1. Files[e] \in [status : Statuses, position : Positions]
      BY <1>1, <1>6 DEF Employee
    <2> QED
      BY <2>1, NoneAssumption
  <1>9. /\ Files = [f \in Employees |-> Files[f]]
        /\ Files[e].status = emp[e].status /\ Files[e].position = emp[e].position
        /\ [Files[e] EXCEPT !.status = row.status]
             = [status |-> row.status, position |-> emp[e].position]
        /\ [Files[e] EXCEPT !.position = row.position]
             = [status |-> emp[e].status, position |-> row.position]
    BY <1>6 DEF Files
  <1>10. CASE Transfers(r) /\ ChangesStatus(r)
    <2>1. Append(history, TransferRow(r)) \in Seq(Rows)
      BY <1>4, <1>5, <1>10, LogAppend
    <2>2. history' = Append(Append(history, TransferRow(r)), StatusRow(r))
      BY <1>0, <1>1, <1>2, <1>10, RowsAppended DEF p
    <2>3. LogOf(history)' =
            Append(Append(LogOf(history), EntryOf(TransferRow(r))), EntryOf(StatusRow(r)))
      BY <1>4, <1>5, <1>10, <2>1, <2>2, LogAppend
    <2>4. row.status = s /\ row.position = p
      BY <1>3, <1>10
    <2>5. Files' = [Files EXCEPT ![e] = [status |-> s, position |-> p]]
      BY <1>7, <2>4
    <2> QED
      BY <1>1, <1>2, <1>5, <1>8, <1>10, <2>3, <2>5 DEF FileAmend
  <1>11. CASE Transfers(r) /\ ~ChangesStatus(r)
    <2>1. history' = Append(history, TransferRow(r))
      BY <1>0, <1>1, <1>2, <1>11, RowsAppended DEF p
    <2>2. LogOf(history)' = Append(LogOf(history), EntryOf(TransferRow(r)))
      BY <1>4, <1>5, <1>11, <2>1, LogAppend
    <2>3. Files' = [Files EXCEPT ![e] = [Files[e] EXCEPT !.position = p]]
      BY <1>3, <1>7, <1>9, <1>11
    <2>4. Files' = [Files EXCEPT ![e] = [@ EXCEPT !.position = p]]
      BY <2>3
    <2> QED
      BY <1>1, <1>2, <1>5, <1>8, <1>11, <2>2, <2>4 DEF FileAmend
  <1>12. CASE ~Transfers(r) /\ ChangesStatus(r)
    <2>1. history' = Append(history, StatusRow(r))
      BY <1>0, <1>1, <1>2, <1>12, RowsAppended DEF p
    <2>2. LogOf(history)' = Append(LogOf(history), EntryOf(StatusRow(r)))
      BY <1>4, <1>5, <1>12, <2>1, LogAppend
    <2>3. Files' = [Files EXCEPT ![e] = [Files[e] EXCEPT !.status = s]]
      BY <1>3, <1>7, <1>9, <1>12
    <2>4. Files' = [Files EXCEPT ![e] = [@ EXCEPT !.status = s]]
      BY <2>3
    <2> QED
      BY <1>1, <1>2, <1>5, <1>8, <1>12, <2>2, <2>4 DEF FileAmend
  <1>13. CASE ~Transfers(r) /\ ~ChangesStatus(r)
    <2>1. history' = history
      BY <1>0, <1>1, <1>2, <1>13, RowsAppended DEF p
    <2>2. LogOf(history)' = LogOf(history)
      BY <2>1
    <2>3. Files' = [Files EXCEPT ![e] = Files[e]]
      BY <1>3, <1>6, <1>7, <1>13
    <2>4. Files' = Files
      BY <1>9, <2>3
    <2> QED
      BY <1>1, <1>8, <2>2, <2>4 DEF FileAmend
  <1> QED
    BY <1>10, <1>11, <1>12, <1>13 DEF Transfers, ChangesStatus

\* The employee records implement PersonnelFile: each commit is one Hire or one
\* Amend of the files and the log, everything else stutters.
THEOREM FilesAreImplemented == Spec => ImplementsFile
  <1>1. Init => File!Init
    <2> SUFFICES ASSUME Init PROVE File!Init
      OBVIOUS
    <2>1. /\ emp = [e \in Employees |-> NoEmployee]
          /\ history = <<>> /\ DOMAIN history = 1..0
      BY DEF Init
    <2>2. [i \in DOMAIN history |->
             [employee |-> history[i].employee, kind |-> history[i].change_type,
              new |-> history[i].new]] = <<>>
      BY <2>1
    <2> QED
      BY <2>1, <2>2 DEF File!Init
  <1>2. ASSUME IInv, [Next]_vars PROVE [File!Next]_(File!vars)
    <2>1. CASE UNCHANGED <<emp, history, audit>>
      BY <2>1 DEF File!vars
    <2>2. ASSUME NEW r \in Requests, CreateEmployee(r), call[r].position \in Positions
          PROVE  File!Next
      <3>1. PICK e \in Employees, s \in Statuses, p \in Positions : FileHire(e, s, p)
        BY <1>2, <2>2, CreateIsHire
      <3>2. File!Hire(e, s, p)
        BY <3>1, Mapping DEF FileHire, File!Hire, File!Entry, Files, FileOf, LogOf, EntryOf
      <3> QED
        BY <3>1, <3>2 DEF File!Next
    <2>3. ASSUME NEW r \in Requests, UpdateEmployee(r),
                 ~(Transfers(r) /\ call[r].position \notin Positions)
          PROVE  File!Next
      <3>1. PICK e \in Employees : FileAmend(e)
        BY <1>2, <2>3, UpdateIsAmend
      <3>2. File!Amend(e)
        BY <3>1 DEF FileAmend, File!Amend, File!Entry, File!vars, Files, FileOf, LogOf, EntryOf
      <3> QED
        BY <3>1, <3>2 DEF File!Next
    <2> QED
      BY <1>2, <2>1, <2>2, <2>3, Writers
  <1>3. IInv /\ [Next]_vars => [File!Next]_(File!vars)
    BY <1>2
  <1> QED
    BY <1>1, <1>3, Invariant, PTL DEF Spec, ImplementsFile, File!Spec

-----------------------------------------------------------------------------
\* What an answer shows rests on two facts: a record's status has a row, and a
\* row that was loaded still has its row when the history is read.
Explained(e, status) ==
    \E i \in RowsOf(e, StatusTypes) : history[i].new = status

StatusHasRow ==
    \A e \in Employees : emp[e] # NoEmployee => Explained(e, emp[e].status)

LoadedHasRow ==
    \A r \in Requests :
      pc[r] = "history" => Explained(call[r].employee, snap[r].status)

DetailInv == StatusHasRow /\ LoadedHasRow /\ DetailExplained

\* No step takes a row away.
LEMMA RowsStay ==
    ASSUME IInv, [Next]_vars, NEW e \in Employees, NEW i \in RowsOf(e, StatusTypes)
    PROVE  i \in RowsOf(e, StatusTypes)' /\ history'[i] = history[i]
  <1>1. StoreTypes /\ StoreTypes'
    BY StepKeeps DEF IInv, TypeOK
  <1>2. i \in 1..Len(history) /\ Len(history) \in Nat
    BY <1>1, RowsAre
  <1>3. CASE UNCHANGED <<emp, history, audit>>
    BY <1>3 DEF RowsOf, StatusTypes
  <1>4. ASSUME NEW r \in Requests, CreateEmployee(r), call[r].position \in Positions
        PROVE  i \in RowsOf(e, StatusTypes)' /\ history'[i] = history[i]
    <2>1. history' = Append(history, HireRow(r))
      BY <1>4 DEF CreateEmployee, HireRow
    <2>2. HireRow(r) \in Rows
      <3>1. call[r].employee \in Employees /\ call[r].status \in Statuses
        BY <1>4, CallFields DEF CreateEmployee, IInv, TypeOK, CallTypes
      <3> QED
        BY <3>1 DEF HireRow, Rows
    <2>3. history'[i] = history[i] /\ i \in 1..Len(history')
      BY <1>1, <1>2, <2>1, <2>2, AppendProperties DEF StoreTypes
    <2> QED
      BY <1>1, <1>2, <2>3, LenProperties DEF RowsOf, StatusTypes, StoreTypes
  <1>5. ASSUME NEW r \in Requests, UpdateEmployee(r),
               ~(Transfers(r) /\ call[r].position \notin Positions)
        PROVE  i \in RowsOf(e, StatusTypes)' /\ history'[i] = history[i]
    <2>1. Grown(r)
      BY <1>5, UpdateFacts DEF UpdateEmployee
    <2> QED
      BY <1>1, <1>2, <2>1, RowsGrow DEF Grown
  <1> QED
    BY <1>3, <1>4, <1>5, Writers

LEMMA ExplainedStays ==
    ASSUME IInv, [Next]_vars, NEW e \in Employees, NEW status, Explained(e, status)
    PROVE  \E i \in RowsOf(e, StatusTypes)' : history'[i].new = status
  BY RowsStay DEF Explained

LEMMA StatusKeepsRow ==
    ASSUME IInv, [Next]_vars, StatusHasRow
    PROVE  StatusHasRow'
  <1>0. StoreTypes /\ StoreTypes'
    BY StepKeeps DEF IInv, TypeOK
  <1> SUFFICES ASSUME NEW e \in Employees, emp'[e] # NoEmployee
               PROVE  \E i \in RowsOf(e, StatusTypes)' : history'[i].new = emp'[e].status
    BY DEF StatusHasRow, Explained
  <1>1. CASE emp'[e] = emp[e]
    BY <1>1, ExplainedStays DEF StatusHasRow
  <1>2. ASSUME NEW r \in Requests, CreateEmployee(r), call[r].position \in Positions,
               emp'[e] # emp[e]
        PROVE  \E i \in RowsOf(e, StatusTypes)' : history'[i].new = emp'[e].status
    <2>1. /\ history' = Append(history, HireRow(r))
          /\ emp' = [emp EXCEPT ![call[r].employee] =
                       [status |-> call[r].status, position |-> call[r].position,
                        field |-> call[r].field]]
      BY <1>2 DEF CreateEmployee, HireRow
    <2>2. call[r].employee = e /\ emp'[e].status = call[r].status
      BY <1>0, <1>2, <2>1 DEF StoreTypes
    <2>3. HireRow(r) \in Rows
      <3>1. call[r].employee \in Employees /\ call[r].status \in Statuses
        BY <1>2, CallFields DEF CreateEmployee, IInv, TypeOK, CallTypes
      <3> QED
        BY <3>1 DEF HireRow, Rows
    <2> DEFINE k == Len(history) + 1
    <2>4. history'[k] = HireRow(r) /\ k \in 1..Len(history')
      BY <1>0, <2>1, <2>3, AppendProperties, LenProperties DEF StoreTypes
    <2>5. HireRow(r).employee = e /\ HireRow(r).change_type = "hire"
          /\ HireRow(r).new = call[r].status
      BY <2>2 DEF HireRow
    <2>6. k \in RowsOf(e, StatusTypes)'
      BY <1>0, <2>4, <2>5, LenProperties DEF RowsOf, StatusTypes, StoreTypes
    <2> QED
      BY <2>2, <2>4, <2>5, <2>6
  <1>3. ASSUME NEW r \in Requests, UpdateEmployee(r),
               ~(Transfers(r) /\ call[r].position \notin Positions),
               emp'[e] # emp[e]
        PROVE  \E i \in RowsOf(e, StatusTypes)' : history'[i].new = emp'[e].status
    <2> PICK field \in FieldsAfter(r, emp[call[r].employee]) :
          emp' = [emp EXCEPT ![call[r].employee] =
                    Updated(r, emp[call[r].employee], field)]
      BY <1>3, UpdateFacts DEF UpdateEmployee
    <2>1. Grown(r) /\ emp[call[r].employee] \in Employee
      BY <1>3, UpdateFacts DEF UpdateEmployee
    <2>2. call[r].employee = e /\ emp'[e] = Updated(r, emp[e], field)
      BY <1>0, <1>3, <2>1 DEF StoreTypes
    <2>3. emp'[e].status = IF ChangesStatus(r) THEN call[r].status ELSE emp[e].status
      BY <2>2 DEF Updated
    <2>4. CASE ChangesStatus(r)
      <3>1. PICK k \in RowsOf(e, StatusTypes)' : k > Len(history)
        BY <1>0, <2>1, <2>2, <2>4, RowsGrow
      <3>2. k \in 1..Len(history') /\ Len(history) \in Nat
        BY <1>0, <3>1, LenProperties DEF RowsOf, StoreTypes
      <3>3. history'[k] = StatusRow(r)
        <4>1. k \notin RowsOf(e, StatusTypes)
          BY <1>0, <3>1, <3>2, RowsAre
        <4> QED
          BY <1>0, <2>1, <3>1, <4>1, RowsGrow
      <3> QED
        BY <2>3, <2>4, <3>1, <3>3 DEF StatusRow
    <2>5. CASE ~ChangesStatus(r)
      <3>1. Explained(e, emp[e].status)
        BY <2>1, <2>2, NoneAssumption DEF StatusHasRow
      <3> QED
        BY <2>3, <2>5, <3>1, ExplainedStays
    <2> QED
      BY <2>4, <2>5
  <1> QED
    BY <1>1, <1>2, <1>3, Writers

\* Which steps change what a call has loaded and shows.
LEMMA DetailSteps ==
    ASSUME IInv, [Next]_vars, NEW r \in Requests
    PROVE  /\ pc'[r] = "history" =>
                \/ pc[r] = "history" /\ call'[r] = call[r] /\ snap'[r] = snap[r]
                \/ /\ call'[r] = call[r] /\ call[r].employee \in Employees
                   /\ emp[call[r].employee] # NoEmployee
                   /\ snap'[r] = emp[call[r].employee]
           /\ pc'[r] = "detail" =>
                \/ /\ pc[r] = "detail" /\ call'[r] = call[r] /\ snap'[r] = snap[r]
                   /\ shown'[r] = shown[r]
                \/ /\ pc[r] = "history" /\ call'[r] = call[r] /\ snap'[r] = snap[r]
                   /\ shown'[r] = Len(history)
  <1> USE DEF IInv, TypeOK, CallTypes
  <1>0. pc[r] # "idle" => call[r].employee \in Employees
    BY CallFields
  <1>1. CASE UNCHANGED vars
    BY <1>1 DEF vars
  <1>2. ASSUME NEW q \in Requests, Ask(q)
        PROVE  (pc'[r] = "history" \/ pc'[r] = "detail") => UNCHANGED <<pc[r], call[r], snap[r], shown[r]>>
    BY <1>2 DEF Ask, PostEmployee, PatchEmployee, GetEmployeeDetail, Call
  <1>3. ASSUME NEW q \in Requests, DetailDone(q) \/ DbError(q)
        PROVE  (pc'[r] = "history" \/ pc'[r] = "detail") => UNCHANGED <<pc[r], call[r], snap[r], shown[r]>>
    BY <1>3 DEF DetailDone, DbError, Reply
  <1>4. ASSUME NEW q \in Requests, CreateEmployee(q) \/ UpdateEmployee(q)
        PROVE  (pc'[r] = "history" \/ pc'[r] = "detail") => UNCHANGED <<pc[r], call[r], snap[r], shown[r]>>
    BY <1>4 DEF CreateEmployee, UpdateEmployee, Reply, Await
  <1>5. ASSUME NEW q \in Requests, LoadEmployee(q)
        PROVE  /\ pc'[r] = "detail" => UNCHANGED <<pc[r], call[r], snap[r], shown[r]>>
               /\ pc'[r] = "history" =>
                    \/ UNCHANGED <<pc[r], call[r], snap[r]>>
                    \/ /\ r = q /\ pc[r] # "idle" /\ call'[r] = call[r]
                       /\ emp[call[r].employee] # NoEmployee
                       /\ snap'[r] = emp[call[r].employee]
    BY <1>5 DEF LoadEmployee, Reply
  <1>6. ASSUME NEW q \in Requests, Refresh(q)
        PROVE  /\ pc'[r] = "detail" => UNCHANGED <<pc[r], call[r], snap[r], shown[r]>>
               /\ pc'[r] = "history" =>
                    \/ UNCHANGED <<pc[r], call[r], snap[r]>>
                    \/ /\ r = q /\ pc[r] # "idle" /\ call'[r] = call[r]
                       /\ emp[call[r].employee] # NoEmployee
                       /\ snap'[r] = emp[call[r].employee]
    BY <1>6 DEF Refresh
  <1>7. ASSUME NEW q \in Requests, SelectHistory(q)
        PROVE  /\ pc'[r] = "history" => UNCHANGED <<pc[r], call[r], snap[r]>>
               /\ pc'[r] = "detail" =>
                    \/ UNCHANGED <<pc[r], call[r], snap[r], shown[r]>>
                    \/ /\ pc[r] = "history" /\ call'[r] = call[r] /\ snap'[r] = snap[r]
                       /\ shown'[r] = Len(history)
    BY <1>7 DEF SelectHistory
  <1> QED
    BY <1>0, <1>1, <1>2, <1>3, <1>4, <1>5, <1>6, <1>7 DEF Next, Serve

\* Whatever commits between the two reads of an answer, the history it shows says
\* the status it shows.
THEOREM DetailHolds == Spec => []DetailExplained
  <1>1. Init => DetailInv
    BY DEF Init, DetailInv, StatusHasRow, LoadedHasRow, DetailExplained
  <1>2. ASSUME IInv, [Next]_vars, DetailInv PROVE DetailInv'
    <2>1. StatusHasRow'
      BY <1>2, StatusKeepsRow DEF DetailInv
    <2>2. LoadedHasRow'
      <3> SUFFICES ASSUME NEW r \in Requests, pc'[r] = "history"
                   PROVE  Explained(call[r].employee, snap[r].status)'
        BY DEF LoadedHasRow
      <3>1. Explained(call'[r].employee, snap'[r].status) /\ call'[r].employee \in Employees
        <4>1. CASE pc[r] = "history" /\ call'[r] = call[r] /\ snap'[r] = snap[r]
          BY <1>2, <4>1, CallFields DEF DetailInv, LoadedHasRow, IInv, TypeOK, CallTypes
        <4>2. CASE /\ call'[r] = call[r] /\ call[r].employee \in Employees
                   /\ emp[call[r].employee] # NoEmployee
                   /\ snap'[r] = emp[call[r].employee]
          BY <1>2, <4>2 DEF DetailInv, StatusHasRow
        <4> QED
          BY <1>2, <4>1, <4>2, DetailSteps
      <3> QED
        BY <1>2, <3>1, ExplainedStays DEF Explained
    <2>3. DetailExplained'
      <3> SUFFICES ASSUME NEW r \in Requests, pc'[r] = "detail"
                   PROVE  \E i \in RowsOf(call[r].employee, StatusTypes)' :
                            i <= shown'[r] /\ history'[i].new = snap'[r].status
        BY DEF DetailExplained, StatusTypes
      <3>1. call'[r] = call[r] /\ snap'[r] = snap[r] /\ call[r].employee \in Employees
        BY <1>2, DetailSteps, CallFields DEF IInv, TypeOK, CallTypes
      <3>2. PICK i \in RowsOf(call[r].employee, StatusTypes) :
              i <= shown'[r] /\ history[i].new = snap[r].status
        <4>1. CASE pc[r] = "detail" /\ shown'[r] = shown[r]
          BY <1>2, <4>1 DEF DetailInv, DetailExplained
        <4>2. CASE pc[r] = "history" /\ shown'[r] = Len(history)
          <5>1. PICK i \in RowsOf(call[r].employee, StatusTypes) :
                  history[i].new = snap[r].status
            BY <1>2, <4>2 DEF DetailInv, LoadedHasRow, Explained
          <5>2. i \in 1..Len(history) /\ Len(history) \in Nat
            BY <1>2, <3>1, <5>1, RowsAre DEF IInv, TypeOK
          <5> QED
            BY <4>2, <5>1, <5>2
        <4> QED
          BY <1>2, <4>1, <4>2, DetailSteps
      <3>3. i \in RowsOf(call[r].employee, StatusTypes)' /\ history'[i] = history[i]
        <4>1. PICK f \in Employees : f = call[r].employee
          BY <3>1
        <4>2. i \in RowsOf(f, StatusTypes)' /\ history'[i] = history[i]
          BY <1>2, <3>2, <4>1, RowsStay
        <4> QED
          BY <3>1, <4>1, <4>2 DEF RowsOf
      <3> QED
        BY <3>1, <3>2, <3>3
    <2> QED
      BY <2>1, <2>2, <2>3 DEF DetailInv
  <1>3. IInv /\ [Next]_vars /\ DetailInv => DetailInv'
    BY <1>2
  <1>4. DetailInv => DetailExplained
    BY DEF DetailInv
  <1> QED
    BY <1>1, <1>3, <1>4, Invariant, PTL DEF Spec

-----------------------------------------------------------------------------
\* What the position of a record was: the one it was hired at, which is its
\* position still or the old value of its first transfer, or the new value of a
\* transfer.
Transferred == {"transfer"}

WasAt(e, p) ==
    \/ RowsOf(e, Transferred) = {} /\ emp[e].position = p
    \/ \E j \in RowsOf(e, Transferred) : history[j].new = p
    \/ \E j \in RowsOf(e, Transferred) :
         history[j].old = p /\ \A k \in RowsOf(e, Transferred) : j <= k

PositionWasTaken == \A e \in Employees : emp[e] # NoEmployee => WasAt(e, emp[e].position)

\* The row a PATCH decides by was committed once.
LoadedWasCommitted ==
    \A r \in Requests : pc[r] = "commit" =>
      /\ Explained(call[r].employee, snap[r].status)
      /\ WasAt(call[r].employee, snap[r].position)

OldInv == StatusHasRow /\ PositionWasTaken /\ LoadedWasCommitted /\ OldValueWasReal

\* The transfer is the first row a PATCH appends.
LEMMA TransferFirst ==
    ASSUME IInv, NEW r \in Requests, UpdateEmployee(r), Transfers(r),
           call[r].position \in Positions, NEW e \in Employees, e = call[r].employee
    PROVE  /\ history'[Len(history) + 1] = TransferRow(r)
           /\ Len(history) + 1 \in RowsOf(e, Transferred)'
  <1>1. /\ pc[r] = "commit"
        /\ history' = history \o NewRows(r)
    BY DEF UpdateEmployee
  <1>2. /\ history \in Seq(Rows) /\ Len(history) \in Nat
        /\ NewRows(r) \in Seq(Rows)
        /\ Len(NewRows(r)) >= 1 /\ Len(NewRows(r)) \in Nat
        /\ NewRows(r)[1] = TransferRow(r)
    <2>1. NewRows(r) = <<TransferRow(r), StatusRow(r)>> \/ NewRows(r) = <<TransferRow(r)>>
      BY <1>1, NewRowsAre DEF IInv
    <2> QED
      BY <1>1, <2>1, NewRowsAre, LenProperties DEF IInv, TypeOK, StoreTypes
  <1>3. Len(history) + 1 \in 1..Len(history) + Len(NewRows(r))
    BY <1>2
  <1>4. /\ history' \in Seq(Rows)
        /\ Len(history') = Len(history) + Len(NewRows(r))
        /\ history'[Len(history) + 1] = NewRows(r)[Len(history) + 1 - Len(history)]
    BY <1>1, <1>2, <1>3, ConcatProperties
  <1>5. Len(history) + 1 - Len(history) = 1
    BY <1>2
  <1>6. history'[Len(history) + 1] = TransferRow(r)
    BY <1>2, <1>4, <1>5
  <1> QED
    BY <1>3, <1>4, <1>6, LenProperties DEF RowsOf, Transferred, TransferRow

\* A hire is the record's first row: it has no other.
LEMMA HireRows ==
    ASSUME IInv, NEW r \in Requests, CreateEmployee(r), call[r].position \in Positions,
           NEW e \in Employees
    PROVE  /\ e = call[r].employee =>
                /\ emp[e] = NoEmployee /\ RowsOf(e, Transferred)' = {}
                /\ RowsOf(e, {"status_change"})' = {}
           /\ e # call[r].employee =>
                /\ emp'[e] = emp[e]
                /\ \A types : /\ RowsOf(e, types)' = RowsOf(e, types)
                              /\ \A i \in RowsOf(e, types) : history'[i] = history[i]
  <1> DEFINE n == Len(history)
  <1>1. /\ history' = Append(history, HireRow(r))
        /\ emp' = [emp EXCEPT ![call[r].employee] =
                     [status |-> call[r].status, position |-> call[r].position,
                      field |-> call[r].field]]
        /\ pc[r] = "insert"
    BY DEF CreateEmployee, HireRow
  <1>2. call[r].employee \in Employees /\ call[r].status \in Statuses
    BY <1>1, CallFields DEF IInv, TypeOK, CallTypes
  <1>3. HireRow(r) \in Rows /\ HireRow(r).employee = call[r].employee
        /\ HireRow(r).change_type = "hire"
    BY <1>2 DEF HireRow, Rows
  <1>4. /\ history \in Seq(Rows) /\ history' \in Seq(Rows) /\ n \in Nat
        /\ Len(history') = n + 1
        /\ \A i \in 1..n : history'[i] = history[i]
        /\ history'[n + 1] = HireRow(r)
    BY <1>1, <1>3, AppendProperties, LenProperties DEF IInv, TypeOK, StoreTypes
  <1>5. /\ DOMAIN history = 1..n /\ DOMAIN history' = 1..n+1
        /\ \A i \in 1..n+1 : i = n + 1 \/ i \in 1..n
        /\ n + 1 \notin 1..n /\ \A i \in 1..n : i \in 1..n+1
    BY <1>4, LenProperties
  <1>6. emp[call[r].employee] = NoEmployee
    BY <1>1 DEF IInv, InsertsAreFresh
  <1>7. \A i \in 1..n : history[i].employee # call[r].employee
    BY <1>6 DEF IInv, RowsAreOfRecords
  <1>8. CASE e = call[r].employee
    <2>1. \A types : "hire" \notin types => RowsOf(e, types)' = {}
      BY <1>3, <1>4, <1>5, <1>7, <1>8 DEF RowsOf
    <2> QED
      BY <1>6, <1>8, <2>1 DEF Transferred
  <1>9. CASE e # call[r].employee
    <2>1. emp'[e] = emp[e]
      BY <1>1, <1>9 DEF IInv, TypeOK, StoreTypes
    <2>2. ASSUME NEW types
          PROVE  /\ RowsOf(e, types)' = RowsOf(e, types)
                 /\ \A i \in RowsOf(e, types) : history'[i] = history[i]
      <3> HIDE DEF n
      <3> QED
        BY <1>3, <1>4, <1>5, <1>9 DEF RowsOf
    <2> QED
      BY <1>9, <2>1, <2>2
  <1> QED
    BY <1>8, <1>9

\* A position that was taken stays one: a first transfer leaves from the one the
\* record was hired at, because the row it decided by was committed.
LEMMA WasAtStays ==
    ASSUME IInv, [Next]_vars, PositionWasTaken, LoadedWasCommitted,
           NEW e \in Employees, emp[e] # NoEmployee, NEW p, WasAt(e, p)
    PROVE  WasAt(e, p)'
  <1>0. StoreTypes /\ StoreTypes'
    BY StepKeeps DEF IInv, TypeOK
  <1>1. CASE UNCHANGED <<emp, history, audit>>
    BY <1>1 DEF WasAt, RowsOf
  <1>2. ASSUME NEW r \in Requests, CreateEmployee(r), call[r].position \in Positions
        PROVE  WasAt(e, p)'
    <2>1. e # call[r].employee
      BY <1>2, HireRows
    <2>2. /\ emp'[e] = emp[e]
          /\ RowsOf(e, Transferred)' = RowsOf(e, Transferred)
          /\ \A i \in RowsOf(e, Transferred) : history'[i] = history[i]
      BY <1>2, <2>1, HireRows
    <2> QED
      BY <2>2 DEF WasAt, Transferred
  <1>3. ASSUME NEW r \in Requests, UpdateEmployee(r),
               ~(Transfers(r) /\ call[r].position \notin Positions)
        PROVE  WasAt(e, p)'
    <2> PICK field \in FieldsAfter(r, emp[call[r].employee]) :
          emp' = [emp EXCEPT ![call[r].employee] =
                    Updated(r, emp[call[r].employee], field)]
      BY <1>3, UpdateFacts DEF UpdateEmployee
    <2>1. Grown(r) /\ pc[r] = "commit"
      BY <1>3, UpdateFacts DEF UpdateEmployee
    <2>2. /\ \A i \in RowsOf(e, Transferred) :
               i \in RowsOf(e, Transferred)' /\ i \in 1..Len(history)
          /\ \A i \in RowsOf(e, Transferred)' :
               \/ i \in RowsOf(e, Transferred)
               \/ /\ i > Len(history) /\ e = call[r].employee
                  /\ Transfers(r) /\ history'[i] = TransferRow(r)
      BY <1>0, <2>1, RowsGrow DEF Transferred
    <2>3. /\ Len(history) \in Nat /\ Len(history') \in Nat
          /\ \A i \in RowsOf(e, Transferred) : history'[i] = history[i]
          /\ \A i \in RowsOf(e, Transferred)' : i \in 1..Len(history')
      BY <1>0, <2>1, <2>2, RowsAre, LenProperties DEF Grown, RowsOf, StoreTypes
    <2>4. CASE \E j \in RowsOf(e, Transferred) : history[j].new = p
      BY <2>2, <2>3, <2>4 DEF WasAt, Transferred
    <2>5. CASE \E j \in RowsOf(e, Transferred) :
                 history[j].old = p /\ \A k \in RowsOf(e, Transferred) : j <= k
      <3>1. PICK j \in RowsOf(e, Transferred) :
              history[j].old = p /\ \A k \in RowsOf(e, Transferred) : j <= k
        BY <2>5
      <3>2. j \in RowsOf(e, Transferred)' /\ history'[j] = history[j] /\ j \in 1..Len(history)
        BY <2>2, <2>3, <3>1
      <3>3. \A k \in RowsOf(e, Transferred)' : j <= k
        BY <2>2, <2>3, <3>1, <3>2
      <3> QED
        BY <3>1, <3>2, <3>3 DEF WasAt, Transferred
    <2>6. CASE RowsOf(e, Transferred) = {} /\ emp[e].position = p
      <3>1. CASE ~(Transfers(r) /\ e = call[r].employee)
        <4>1. RowsOf(e, Transferred)' = {}
          BY <2>2, <2>6, <3>1
        <4>2. emp'[e].position = emp[e].position
          <5>1. CASE e # call[r].employee
            BY <1>0, <2>1, <5>1 DEF StoreTypes
          <5>2. CASE e = call[r].employee
            BY <1>0, <2>1, <3>1, <5>2 DEF StoreTypes, Updated
          <5> QED
            BY <5>1, <5>2
        <4> QED
          BY <2>6, <4>1, <4>2 DEF WasAt, Transferred
      <3>2. CASE Transfers(r) /\ e = call[r].employee
        <4>1. snap[r].position = p
          BY <2>1, <2>6, <3>2 DEF LoadedWasCommitted, WasAt
        <4>2. /\ history'[Len(history) + 1] = TransferRow(r)
              /\ Len(history) + 1 \in RowsOf(e, Transferred)'
          BY <1>3, <3>2, TransferFirst
        <4>3. TransferRow(r).old = p
          BY <4>1 DEF TransferRow
        <4>4. \A k \in RowsOf(e, Transferred)' : Len(history) + 1 <= k
          BY <2>2, <2>3, <2>6
        <4> QED
          BY <4>2, <4>3, <4>4 DEF WasAt, Transferred
      <3> QED
        BY <3>1, <3>2
    <2> QED
      BY <2>4, <2>5, <2>6 DEF WasAt
  <1> QED
    BY <1>1, <1>2, <1>3, Writers

LEMMA PositionStaysTaken ==
    ASSUME IInv, [Next]_vars, PositionWasTaken, LoadedWasCommitted
    PROVE  PositionWasTaken'
  <1>0. StoreTypes /\ StoreTypes'
    BY StepKeeps DEF IInv, TypeOK
  <1> SUFFICES ASSUME NEW e \in Employees, emp'[e] # NoEmployee,
                      NEW p, p = emp'[e].position
               PROVE  WasAt(e, p)'
    BY DEF PositionWasTaken, WasAt
  <1>1. CASE emp[e] # NoEmployee /\ emp[e].position = p
    BY <1>1, WasAtStays DEF PositionWasTaken
  <1>2. ASSUME NEW r \in Requests, CreateEmployee(r), call[r].position \in Positions
        PROVE  WasAt(e, p)'
    <2>1. CASE e = call[r].employee
      BY <1>2, <2>1, HireRows DEF WasAt
    <2>2. CASE e # call[r].employee
      BY <1>1, <1>2, <2>2, HireRows
    <2> QED
      BY <2>1, <2>2
  <1>3. ASSUME NEW r \in Requests, UpdateEmployee(r),
               ~(Transfers(r) /\ call[r].position \notin Positions)
        PROVE  WasAt(e, p)'
    <2>1. emp[call[r].employee] \in Employee
      BY <1>3, UpdateFacts DEF UpdateEmployee
    <2> PICK field \in FieldsAfter(r, emp[call[r].employee]) :
          emp' = [emp EXCEPT ![call[r].employee] =
                    Updated(r, emp[call[r].employee], field)]
      BY <1>3, UpdateFacts DEF UpdateEmployee
    <2>2. CASE e # call[r].employee \/ ~Transfers(r)
      <3>1. emp[e] # NoEmployee /\ emp[e].position = p
        BY <1>0, <2>1, <2>2, NoneAssumption DEF StoreTypes, Updated
      <3> QED
        BY <1>1, <3>1
    <2>3. CASE e = call[r].employee /\ Transfers(r)
      <3>1. p = call[r].position
        BY <1>0, <2>1, <2>3 DEF StoreTypes, Updated
      <3>2. /\ history'[Len(history) + 1] = TransferRow(r)
            /\ Len(history) + 1 \in RowsOf(e, Transferred)'
        BY <1>3, <2>3, TransferFirst
      <3>3. TransferRow(r).new = p
        BY <3>1 DEF TransferRow
      <3> QED
        BY <3>2, <3>3 DEF WasAt, Transferred
    <2> QED
      BY <2>2, <2>3
  <1> QED
    BY <1>1, <1>2, <1>3, Writers

\* Which steps give a PATCH the row it decides by.
LEMMA CommitSteps ==
    ASSUME IInv, [Next]_vars, NEW r \in Requests, pc'[r] = "commit"
    PROVE  /\ call'[r] = call[r] /\ call[r].employee \in Employees
           /\ emp[call[r].employee] # NoEmployee
           /\ \/ pc[r] = "commit" /\ snap'[r] = snap[r]
              \/ snap'[r] = emp[call[r].employee]
  <1> USE DEF IInv, TypeOK, CallTypes
  <1>0. pc[r] # "idle" => call[r].employee \in Employees
    BY CallFields
  <1>1. CASE UNCHANGED vars
    BY <1>0, <1>1 DEF vars
  <1>2. ASSUME NEW q \in Requests, Ask(q)
        PROVE  UNCHANGED <<pc[r], call[r], snap[r]>>
    BY <1>2 DEF Ask, PostEmployee, PatchEmployee, GetEmployeeDetail, Call
  <1>3. ASSUME NEW q \in Requests, \/ DetailDone(q) \/ DbError(q) \/ Refresh(q)
                                   \/ SelectHistory(q)
        PROVE  UNCHANGED <<pc[r], call[r], snap[r]>>
    BY <1>3 DEF DetailDone, DbError, Reply, Refresh, SelectHistory
  <1>4. ASSUME NEW q \in Requests, CreateEmployee(q) \/ UpdateEmployee(q)
        PROVE  UNCHANGED <<pc[r], call[r], snap[r]>>
    BY <1>4 DEF CreateEmployee, UpdateEmployee, Reply, Await
  <1>5. ASSUME NEW q \in Requests, LoadEmployee(q)
        PROVE  \/ UNCHANGED <<pc[r], call[r], snap[r]>>
               \/ /\ pc[r] # "idle" /\ call'[r] = call[r]
                  /\ emp[call[r].employee] # NoEmployee
                  /\ snap'[r] = emp[call[r].employee]
    BY <1>5 DEF LoadEmployee, Reply
  <1> QED
    BY <1>0, <1>1, <1>2, <1>3, <1>4, <1>5 DEF Next, Serve

LEMMA LoadedStaysCommitted ==
    ASSUME IInv, [Next]_vars, OldInv
    PROVE  LoadedWasCommitted'
  <1> SUFFICES ASSUME NEW r \in Requests, pc'[r] = "commit"
               PROVE  /\ Explained(call[r].employee, snap[r].status)'
                      /\ WasAt(call[r].employee, snap[r].position)'
    BY DEF LoadedWasCommitted
  <1>1. PICK e \in Employees : e = call[r].employee /\ e = call'[r].employee
    BY CommitSteps
  <1>2. PICK s, p : s = snap'[r].status /\ p = snap'[r].position
    OBVIOUS
  <1>3. emp[e] # NoEmployee /\ Explained(e, s) /\ WasAt(e, p)
    <2>1. CASE pc[r] = "commit" /\ snap'[r] = snap[r]
      BY <1>1, <1>2, <2>1, CommitSteps DEF OldInv, LoadedWasCommitted
    <2>2. CASE snap'[r] = emp[e]
      BY <1>1, <1>2, <2>2, CommitSteps DEF OldInv, StatusHasRow, PositionWasTaken
    <2> QED
      BY <1>1, <2>1, <2>2, CommitSteps
  <1>4. WasAt(e, p)'
    BY <1>3, WasAtStays DEF OldInv
  <1>5. \E i \in RowsOf(e, StatusTypes)' : history'[i].new = s
    BY <1>3, ExplainedStays
  <1> QED
    BY <1>1, <1>2, <1>4, <1>5 DEF Explained, WasAt

LEMMA OldValueStaysReal ==
    ASSUME IInv, [Next]_vars, OldInv
    PROVE  OldValueWasReal'
  <1>0. StoreTypes /\ StoreTypes'
    BY StepKeeps DEF IInv, TypeOK
  <1> SUFFICES ASSUME NEW e \in Employees
               PROVE  /\ \A i \in RowsOf(e, {"status_change"})' :
                           \E j \in RowsOf(e, StatusTypes)' :
                             j < i /\ history'[j].new = history'[i].old
                      /\ \A i \in RowsOf(e, Transferred)' :
                           \E j \in RowsOf(e, Transferred)' :
                             \/ j < i /\ history'[j].new = history'[i].old
                             \/ /\ history'[j].old = history'[i].old
                                /\ \A k \in RowsOf(e, Transferred)' : j <= k
    BY DEF OldValueWasReal, StatusTypes, Transferred
  <1>1. CASE UNCHANGED <<emp, history, audit>>
    BY <1>1 DEF OldInv, OldValueWasReal, RowsOf, StatusTypes, Transferred
  <1>2. ASSUME NEW r \in Requests, CreateEmployee(r), call[r].position \in Positions
        PROVE  /\ \A i \in RowsOf(e, {"status_change"})' :
                    \E j \in RowsOf(e, StatusTypes)' :
                      j < i /\ history'[j].new = history'[i].old
               /\ \A i \in RowsOf(e, Transferred)' :
                    \E j \in RowsOf(e, Transferred)' :
                      \/ j < i /\ history'[j].new = history'[i].old
                      \/ /\ history'[j].old = history'[i].old
                         /\ \A k \in RowsOf(e, Transferred)' : j <= k
    <2>1. CASE e = call[r].employee
      BY <1>2, <2>1, HireRows
    <2>2. CASE e # call[r].employee
      <3>1. \A types : /\ RowsOf(e, types)' = RowsOf(e, types)
                       /\ \A i \in RowsOf(e, types) : history'[i] = history[i]
        BY <1>2, <2>2, HireRows
      <3>2. RowsOf(e, StatusTypes)' = RowsOf(e, StatusTypes)
        BY <3>1 DEF StatusTypes
      <3>3. RowsOf(e, Transferred)' = RowsOf(e, Transferred)
        BY <3>1 DEF Transferred
      <3> QED
        BY <3>1, <3>2, <3>3 DEF OldInv, OldValueWasReal, Transferred
    <2> QED
      BY <2>1, <2>2
  <1>3. ASSUME NEW r \in Requests, UpdateEmployee(r),
               ~(Transfers(r) /\ call[r].position \notin Positions)
        PROVE  /\ \A i \in RowsOf(e, {"status_change"})' :
                    \E j \in RowsOf(e, StatusTypes)' :
                      j < i /\ history'[j].new = history'[i].old
               /\ \A i \in RowsOf(e, Transferred)' :
                    \E j \in RowsOf(e, Transferred)' :
                      \/ j < i /\ history'[j].new = history'[i].old
                      \/ /\ history'[j].old = history'[i].old
                         /\ \A k \in RowsOf(e, Transferred)' : j <= k
    <2>1. Grown(r) /\ pc[r] = "commit"
      BY <1>3, UpdateFacts DEF UpdateEmployee
    <2>2. /\ Len(history) \in Nat /\ Len(history') \in Nat
          /\ \A i \in 1..Len(history) : history'[i] = history[i]
          /\ \A i \in RowsOf(e, StatusTypes)' \cup RowsOf(e, Transferred)' :
               i \in 1..Len(history')
          /\ \A i \in RowsOf(e, StatusTypes) \cup RowsOf(e, Transferred) :
               i \in 1..Len(history)
      BY <1>0, <2>1, RowsAre, LenProperties, RowsGrow DEF Grown, RowsOf, StoreTypes, Transferred
    <2>3. ASSUME NEW i \in RowsOf(e, {"status_change"})'
          PROVE  \E j \in RowsOf(e, StatusTypes)' :
                   j < i /\ history'[j].new = history'[i].old
      <3>1. i \in RowsOf(e, StatusTypes)' /\ history'[i].change_type = "status_change"
        BY DEF RowsOf, StatusTypes
      <3>2. PICK j \in RowsOf(e, StatusTypes) :
              j < i /\ history[j].new = history'[i].old
        <4>1. CASE i \in RowsOf(e, StatusTypes) /\ history'[i] = history[i]
          <5>1. i \in RowsOf(e, {"status_change"})
            BY <3>1, <4>1 DEF RowsOf
          <5> QED
            BY <4>1, <5>1 DEF OldInv, OldValueWasReal
        <4>2. CASE /\ i > Len(history) /\ e = call[r].employee
                   /\ history'[i] = StatusRow(r)
          <5>1. PICK j \in RowsOf(e, StatusTypes) : history[j].new = snap[r].status
            BY <2>1, <4>2 DEF OldInv, LoadedWasCommitted, Explained
          <5>2. history'[i].old = snap[r].status
            BY <4>2 DEF StatusRow
          <5>3. j < i
            BY <2>2, <3>1, <4>2, <5>1
          <5> QED
            BY <5>1, <5>2, <5>3
        <4> QED
          BY <1>0, <2>1, <3>1, <4>1, <4>2, RowsGrow
      <3>3. j \in RowsOf(e, StatusTypes)'
        BY <1>0, <2>1, <3>2, RowsGrow
      <3> QED
        BY <2>2, <3>2, <3>3
    <2>4. ASSUME NEW i \in RowsOf(e, Transferred)'
          PROVE  \E j \in RowsOf(e, Transferred)' :
                   \/ j < i /\ history'[j].new = history'[i].old
                   \/ /\ history'[j].old = history'[i].old
                      /\ \A k \in RowsOf(e, Transferred)' : j <= k
      <3>0. /\ \A k \in RowsOf(e, Transferred) : k \in RowsOf(e, Transferred)'
            /\ \A k \in RowsOf(e, Transferred)' :
                 \/ k \in RowsOf(e, Transferred) /\ history'[k] = history[k]
                 \/ /\ k > Len(history) /\ e = call[r].employee
                    /\ Transfers(r) /\ history'[k] = TransferRow(r)
        BY <1>0, <2>1, RowsGrow DEF Transferred
      <3>1. CASE i \in RowsOf(e, Transferred) /\ history'[i] = history[i]
        <4>1. PICK j \in RowsOf(e, Transferred) :
                \/ j < i /\ history[j].new = history[i].old
                \/ history[j].old = history[i].old /\ \A k \in RowsOf(e, Transferred) : j <= k
          BY <3>1 DEF OldInv, OldValueWasReal, Transferred
        <4>2. (\A k \in RowsOf(e, Transferred) : j <= k) =>
                \A k \in RowsOf(e, Transferred)' : j <= k
          BY <2>2, <3>0, <4>1
        <4> QED
          BY <2>2, <3>0, <3>1, <4>1, <4>2
      <3>2. CASE /\ i > Len(history) /\ e = call[r].employee
                 /\ Transfers(r) /\ history'[i] = TransferRow(r)
        <4>1. history'[i].old = snap[r].position /\ WasAt(e, snap[r].position)
          BY <2>1, <3>2 DEF OldInv, LoadedWasCommitted, TransferRow
        <4>2. CASE RowsOf(e, Transferred) = {}
          <5>1. /\ history'[Len(history) + 1] = TransferRow(r)
                /\ Len(history) + 1 \in RowsOf(e, Transferred)'
            BY <1>3, <3>2, TransferFirst
          <5>2. \A k \in RowsOf(e, Transferred)' : Len(history) + 1 <= k
            BY <2>2, <3>0, <4>2
          <5> QED
            BY <3>2, <5>1, <5>2
        <4>3. CASE \E j \in RowsOf(e, Transferred) : history[j].new = snap[r].position
          <5>1. PICK j \in RowsOf(e, Transferred) : history[j].new = snap[r].position
            BY <4>3
          <5>2. j < i /\ history'[j] = history[j] /\ j \in RowsOf(e, Transferred)'
            BY <2>2, <3>0, <3>2, <5>1
          <5> QED
            BY <4>1, <5>1, <5>2
        <4>4. CASE \E j \in RowsOf(e, Transferred) :
                     /\ history[j].old = snap[r].position
                     /\ \A k \in RowsOf(e, Transferred) : j <= k
          <5>1. PICK j \in RowsOf(e, Transferred) :
                  /\ history[j].old = snap[r].position
                  /\ \A k \in RowsOf(e, Transferred) : j <= k
            BY <4>4
          <5>2. history'[j] = history[j] /\ j \in RowsOf(e, Transferred)'
            BY <2>2, <3>0, <5>1
          <5>3. \A k \in RowsOf(e, Transferred)' : j <= k
            BY <2>2, <3>0, <5>1
          <5> QED
            BY <4>1, <5>1, <5>2, <5>3
        <4> QED
          BY <4>1, <4>2, <4>3, <4>4 DEF WasAt
      <3> QED
        BY <3>0, <3>1, <3>2
    <2> QED
      BY <2>3, <2>4
  <1> QED
    BY <1>1, <1>2, <1>3, Writers

\* However stale the row a PATCH decides by, the old value it records is one the
\* employee had: the history is a chain that starts at the hire.
THEOREM OldValuesWereReal == Spec => []OldValueWasReal
  <1>1. Init => OldInv
    <2> SUFFICES ASSUME Init PROVE OldInv
      OBVIOUS
    <2>1. \A e, types : RowsOf(e, types) = {}
      BY DEF Init, RowsOf
    <2> QED
      BY <2>1 DEF Init, OldInv, StatusHasRow, PositionWasTaken, LoadedWasCommitted,
                  OldValueWasReal
  <1>2. ASSUME IInv, [Next]_vars, OldInv
        PROVE  OldInv'
    BY <1>2, StatusKeepsRow, PositionStaysTaken, LoadedStaysCommitted,
       OldValueStaysReal DEF OldInv
  <1>3. IInv /\ [Next]_vars /\ OldInv => OldInv'
    BY <1>2
  <1>4. OldInv => OldValueWasReal
    BY DEF OldInv
  <1> QED
    BY <1>1, <1>3, <1>4, Invariant, PTL DEF Spec

=============================================================================
