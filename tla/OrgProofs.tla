------------------------------ MODULE OrgProofs ------------------------------
(***************************************************************************)
(* Proofs about the organisation chart, for any rows, names and concurrent *)
(* calls.                                                                  *)
(*                                                                         *)
(* The argument: rows are only added, so what a call has found stays true  *)
(* while it waits.  A creation past its flush still has its keys           *)
(* (KeysAreKept), and its name to itself (NamesAreReserved); one that is   *)
(* not committed has an id that no row and no other call uses              *)
(* (InsertsAreFresh); what list_positions has read of the positions only   *)
(* names departments that were there by then (ReadsAreClosed).             *)
(***************************************************************************)
EXTENDS Org, SumTheorems, TLAPS

\* A creation is a call to create something.
CreationsAreCalled ==
    \A r \in Requests : pc[r] \in {"flush", "commit"} =>
      call[r] \in Calls /\ call[r].kind \in {"department", "position"}

\* The id of a creation that is not committed is its own.
InsertsAreFresh ==
    \A r \in Requests :
      /\ Creating(r, "department") =>
           /\ department[call[r].id] = None
           /\ \A q \in Requests \ {r} : Creating(q, "department") => call[q].id # call[r].id
      /\ Creating(r, "position") =>
           /\ position[call[r].id] = None
           /\ \A q \in Requests \ {r} : Creating(q, "position") => call[q].id # call[r].id

\* So is the name of a department that is inserted and not committed.
NamesAreReserved ==
    \A r \in Requests : pc[r] = "commit" /\ call[r].kind = "department" =>
      /\ \A d \in Departments : department[d] # call[r].name
      /\ \A q \in Requests \ {r} :
           pc[q] = "commit" /\ call[q].kind = "department" => call[q].name # call[r].name

\* The foreign keys of a position that is inserted and not committed hold.
KeysAreKept ==
    \A r \in Requests : pc[r] = "commit" /\ call[r].kind = "position" => KeysExist(r)

\* What a call has read of the positions names rows of its own and departments
\* that exist.
ReadsAreClosed ==
    \A r \in Requests : read[r] # None =>
      /\ pc[r] \in {"departments", "answer"}
      /\ \A p \in Rows(read[r]) :
           /\ department[read[r][p].department] # None
           /\ read[r][p].reports_to \in Rows(read[r]) \cup {None}

\* Whoever has a position has one that exists.
EmployeesArePlaced == \A e \in Rows(employee) : employee[e] \in Rows(position)

Creations == CreationsAreCalled /\ InsertsAreFresh /\ NamesAreReserved /\ KeysAreKept

IInv ==
    /\ TypeOK /\ Creations /\ ReadsAreClosed /\ EmployeesArePlaced
    /\ NamesAreFound /\ HierarchyHasTop /\ NamesAreUnique

LEMMA InitIInv == Init => IInv
  <1> SUFFICES ASSUME Init PROVE IInv
    OBVIOUS
  <1>1. Rows(department) = {} /\ Rows(position) = {} /\ Rows(employee) = {}
    BY DEF Init, Rows
  <1>2. TypeOK
    BY <1>1 DEF Init, TypeOK
  <1>3. Creations /\ ReadsAreClosed
    BY DEF Init, Creations, CreationsAreCalled, InsertsAreFresh, NamesAreReserved,
           KeysAreKept, Creating, ReadsAreClosed
  <1>4. NamesAreFound /\ HierarchyHasTop /\ NamesAreUnique /\ EmployeesArePlaced
    BY <1>1 DEF Init, NamesAreFound, HierarchyHasTop, NamesAreUnique, EmployeesArePlaced
  <1> QED
    BY <1>2, <1>3, <1>4 DEF IInv

-----------------------------------------------------------------------------
\* What the records of calls are made of.
LEMMA CallFields ==
    ASSUME NEW c \in Calls
    PROVE  /\ c.kind \in {"department", "position", "positions", "headcount"}
           /\ c.kind = "department" => c.id \in Departments /\ c.name \in Names
           /\ c.kind = "position" =>
                /\ c.id \in Positions /\ c.department \in Departments
                /\ c.reports_to \in Positions \cup {None}
  BY DEF Calls

\* TypeOK in its two halves: what is stored, and what the calls hold.
Stored ==
    /\ department \in [Departments -> Names \cup {None}]
    /\ position \in [Positions -> Position \cup {None}]
    /\ employee \in [Employees -> Positions \cup {None}]
    /\ audit = Rows(department) \cup Rows(position)
    /\ \A p \in Rows(position) :
         /\ department[position[p].department] # None
         /\ position[p].reports_to \in Rows(position) \cup {None}

Held ==
    /\ pc \in [Requests -> {"idle", "flush", "commit", "named", "positions",
                            "departments", "headcount", "answer"}]
    /\ call \in [Requests -> Calls \cup {None}]
    /\ resp \in [Requests -> {"none", "200", "integrity_error", "db_error"}]
    /\ read \in [Requests -> [Positions -> Position \cup {None}] \cup {None}]
    /\ names \in [Requests -> [Departments -> Names \cup {None}] \cup {None}]

LEMMA Halves == (TypeOK <=> Stored /\ Held) /\ (TypeOK' <=> Stored' /\ Held')
  BY DEF TypeOK, Stored, Held

\* The steps of the other calls leave a call alone.
LEMMA OneCallMoves ==
    ASSUME TypeOK, NEW r \in Requests, Ask(r) \/ Serve(r) \/ DbError(r),
           NEW q \in Requests \ {r}
    PROVE  /\ pc'[q] = pc[q] /\ call'[q] = call[q] /\ resp'[q] = resp[q]
           /\ read'[q] = read[q] /\ names'[q] = names[q]
  BY DEF TypeOK, Ask, Serve, DbError, Call, Reply, Await, PostDepartment, PostPosition,
         GetPositions, GetHeadcount, FlushDepartment, FlushPosition, CommitDepartment,
         CommitPosition, NameCreated, SelectPositions, SelectDepartments,
         SelectHeadcount, AnswerDone

\* Rows are only added: a department or position that is there stays as it is.
LEMMA RowsStay ==
    ASSUME IInv, [Next]_vars
    PROVE  /\ \A d \in Departments : department[d] # None => department'[d] = department[d]
           /\ \A p \in Positions : position[p] # None => position'[p] = position[p]
  <1>1. ASSUME NEW r \in Requests, CommitDepartment(r) \/ CommitPosition(r)
        PROVE  /\ \A d \in Departments : department[d] # None => department'[d] = department[d]
               /\ \A p \in Positions : position[p] # None => position'[p] = position[p]
    BY <1>1 DEF IInv, TypeOK, Creations, InsertsAreFresh, Creating, CommitDepartment,
                CommitPosition
  <1> QED
    BY <1>1 DEF Next, vars, Ask, Serve, DbError, Call, PostDepartment, PostPosition,
         GetPositions, GetHeadcount, FlushDepartment, FlushPosition, NameCreated,
         SelectPositions, SelectDepartments, SelectHeadcount, AnswerDone, Place

-----------------------------------------------------------------------------
(* Types *)

LEMMA HeldStep ==
    ASSUME TypeOK, NEW r \in Requests, Ask(r) \/ Serve(r) \/ DbError(r)
    PROVE  Held'
  <1> USE DEF TypeOK, Held
  <1>1. CASE Ask(r)
    <2>1. \A d \in Departments, n \in Names :
            [kind |-> "department", id |-> d, name |-> n] \in Calls
      BY DEF Calls
    <2>2. \A p \in Positions, d \in Departments, m \in Positions \cup {None} :
            [kind |-> "position", id |-> p, department |-> d, reports_to |-> m] \in Calls
      BY DEF Calls
    <2>3. [kind |-> "positions"] \in Calls /\ [kind |-> "headcount"] \in Calls
      BY DEF Calls
    <2>4. ASSUME NEW c \in Calls, NEW at \in {"flush", "positions", "headcount"},
                 Call(r, c, at)
          PROVE  Held'
      BY <2>4 DEF Call
    <2> QED
      BY <1>1, <2>1, <2>2, <2>3, <2>4
      DEF Ask, PostDepartment, PostPosition, GetPositions, GetHeadcount
  <1>2. CASE Serve(r) \/ DbError(r)
    BY <1>2 DEF Serve, DbError, Reply, Await, FlushDepartment, FlushPosition,
       CommitDepartment, CommitPosition, NameCreated, SelectPositions,
       SelectDepartments, SelectHeadcount, AnswerDone
  <1> QED
    BY <1>1, <1>2

\* The three steps that store something.
LEMMA CommitDepartmentStored ==
    ASSUME IInv, NEW r \in Requests, CommitDepartment(r)
    PROVE  Stored'
  <1>1. /\ call[r] \in Calls /\ call[r].id \in Departments /\ call[r].name \in Names
        /\ department[call[r].id] = None
    BY CallFields DEF IInv, Creations, CreationsAreCalled, InsertsAreFresh, Creating,
                      CommitDepartment
  <1>2. Rows(department') = Rows(department) \cup {call[r].id}
    BY <1>1, NoneAssumption DEF CommitDepartment, IInv, TypeOK, Rows
  <1>3. \A p \in Rows(position) : position[p].department \in Departments
    BY DEF IInv, TypeOK, Rows, Position
  <1> QED
    BY <1>1, <1>2, <1>3, NoneAssumption DEF CommitDepartment, Stored, IInv, TypeOK

LEMMA CommitPositionStored ==
    ASSUME IInv, NEW r \in Requests, CommitPosition(r)
    PROVE  Stored'
  <1> DEFINE p == call[r].id
             row == [department |-> call[r].department, reports_to |-> call[r].reports_to]
  <1>1. /\ p \in Positions /\ call[r].department \in Departments
        /\ call[r].reports_to \in Positions \cup {None}
        /\ position[p] = None /\ KeysExist(r)
    BY CallFields DEF IInv, Creations, CreationsAreCalled, InsertsAreFresh, KeysAreKept,
                      Creating, CommitPosition
  <1>2. row \in Position /\ row # None
    BY <1>1, NoneAssumption DEF Position
  <1>3. position' = [position EXCEPT ![p] = row] /\ position' \in [Positions -> Position \cup {None}]
    BY <1>1, <1>2 DEF CommitPosition, IInv, TypeOK
  <1>4. Rows(position') = Rows(position) \cup {p}
    BY <1>1, <1>2, <1>3 DEF IInv, TypeOK, Rows
  <1>5. \A q \in Rows(position') :
          /\ department'[position'[q].department] # None
          /\ position'[q].reports_to \in Rows(position') \cup {None}
    BY <1>1, <1>3, <1>4 DEF CommitPosition, IInv, TypeOK, KeysExist, Rows
  <1> QED
    BY <1>3, <1>4, <1>5 DEF CommitPosition, Stored, IInv, TypeOK

LEMMA PlaceStored ==
    ASSUME TypeOK, NEW e \in Employees, NEW p \in Positions, Place(e, p)
    PROVE  Stored'
  BY DEF Place, TypeOK, Stored

LEMMA TypeStep == IInv /\ [Next]_vars => TypeOK'
  <1> SUFFICES ASSUME IInv, [Next]_vars PROVE TypeOK'
    OBVIOUS
  <1>0. TypeOK
    BY DEF IInv
  <1>1. CASE \E r \in Requests : Ask(r) \/ Serve(r) \/ DbError(r)
    <2> PICK r \in Requests : Ask(r) \/ Serve(r) \/ DbError(r)
      BY <1>1
    <2>1. CASE CommitDepartment(r) \/ CommitPosition(r)
      BY <2>1, CommitDepartmentStored, CommitPositionStored, HeldStep, Halves, <1>0
    <2>2. CASE UNCHANGED <<department, position, employee, audit>>
      BY <2>2, <1>0, HeldStep, Halves DEF Stored
    <2> QED
      BY <2>1, <2>2 DEF Ask, Serve, DbError, Call, PostDepartment, PostPosition,
         GetPositions, GetHeadcount, FlushDepartment, FlushPosition, NameCreated,
         SelectPositions, SelectDepartments, SelectHeadcount, AnswerDone
  <1>2. CASE \E e \in Employees, p \in Positions : Place(e, p)
    BY <1>0, <1>2, PlaceStored, Halves DEF Place, Held
  <1>3. CASE UNCHANGED vars
    BY <1>0, <1>3 DEF vars, TypeOK
  <1> QED
    BY <1>1, <1>2, <1>3 DEF Next

-----------------------------------------------------------------------------
(* Creations that are under way *)

\* The other steps of a call begin or go on with no creation.
LEMMA NotCreating ==
    ASSUME TypeOK, NEW r \in Requests,
           \/ GetPositions(r) \/ GetHeadcount(r) \/ NameCreated(r) \/ SelectPositions(r)
           \/ SelectDepartments(r) \/ SelectHeadcount(r) \/ AnswerDone(r) \/ DbError(r)
    PROVE  pc'[r] \notin {"flush", "commit"} /\ UNCHANGED <<department, position>>
  BY DEF TypeOK, GetPositions, GetHeadcount, NameCreated, SelectPositions,
         SelectDepartments, SelectHeadcount, AnswerDone, DbError, Call, Reply, Await

\* What a step does to the creation of the call that takes it.
Begun(r) ==
    /\ pc[r] = "idle" /\ pc'[r] = "flush" /\ call'[r] \in Calls
    /\ UNCHANGED <<department, position>>
    /\ \/ call'[r].kind = "department" /\ Fresh("department", department, call'[r].id)
       \/ call'[r].kind = "position" /\ Fresh("position", position, call'[r].id)

Flushed(r) ==
    /\ pc[r] = "flush" /\ pc'[r] = "commit" /\ call'[r] = call[r]
    /\ UNCHANGED <<department, position>>
    /\ call[r].kind = "department" =>
         ~NameHeld(r) /\ \A d \in Departments : department[d] # call[r].name
    /\ call[r].kind = "position" => KeysExist(r)

Committed(r) == CommitDepartment(r) \/ CommitPosition(r)

Ended(r) == pc'[r] \notin {"flush", "commit"} /\ UNCHANGED <<department, position>>

LEMMA CreationSteps ==
    ASSUME IInv, NEW r \in Requests, Ask(r) \/ Serve(r) \/ DbError(r)
    PROVE  Begun(r) \/ Flushed(r) \/ Committed(r) \/ Ended(r)
  <1>0. TypeOK
    BY DEF IInv
  <1>1. ASSUME FlushDepartment(r) \/ FlushPosition(r)
        PROVE  Flushed(r) \/ Ended(r)
    BY <1>0, <1>1 DEF TypeOK, FlushDepartment, FlushPosition, Flushed, Ended, Reply, Await
  <1>2. ASSUME NEW d \in Departments, NEW n \in Names, PostDepartment(r, d, n)
        PROVE  Begun(r)
    <2>1. [kind |-> "department", id |-> d, name |-> n] \in Calls
      BY DEF Calls
    <2> QED
      BY <1>0, <1>2, <2>1 DEF TypeOK, PostDepartment, Call, Begun
  <1>3. ASSUME NEW p \in Positions, NEW d \in Departments, NEW m \in Positions \cup {None},
               PostPosition(r, p, d, m)
        PROVE  Begun(r)
    <2>1. [kind |-> "position", id |-> p, department |-> d, reports_to |-> m] \in Calls
      BY DEF Calls
    <2> QED
      BY <1>0, <1>3, <2>1 DEF TypeOK, PostPosition, Call, Begun
  <1> QED
    BY <1>0, <1>1, <1>2, <1>3, NotCreating DEF Ask, Serve, Committed, Ended

LEMMA CreationsStep == IInv /\ [Next]_vars => Creations'
  <1> SUFFICES ASSUME IInv, [Next]_vars PROVE Creations'
    OBVIOUS
  <1> USE DEF Creations
  <1>1. CASE \E r \in Requests : Ask(r) \/ Serve(r) \/ DbError(r)
    <2> PICK r \in Requests : Ask(r) \/ Serve(r) \/ DbError(r)
      BY <1>1
    <2>0. TypeOK /\ TypeOK'
      BY TypeStep DEF IInv
    <2>1. \A q \in Requests \ {r} : pc'[q] = pc[q] /\ call'[q] = call[q]
      BY <2>0, OneCallMoves
    <2>2. CreationsAreCalled'
      <3>1. pc'[r] \in {"flush", "commit"} =>
              call'[r] \in Calls /\ call'[r].kind \in {"department", "position"}
        BY <2>0, CreationSteps
        DEF Begun, Flushed, Committed, Ended, IInv, CreationsAreCalled, TypeOK,
            CommitDepartment, CommitPosition, Await
      <3> QED
        BY <2>1, <3>1 DEF IInv, CreationsAreCalled
    <2>3. InsertsAreFresh'
      <3>1. CASE Begun(r)
        BY <2>1, <3>1 DEF Begun, Fresh, IInv, InsertsAreFresh, Creating
      <3>2. CASE Flushed(r) \/ Ended(r)
        BY <2>1, <3>2 DEF Flushed, Ended, IInv, InsertsAreFresh, Creating
      <3>3. CASE Committed(r)
        <4>1. pc'[r] = "named"
          BY <2>0, <3>3 DEF Committed, CommitDepartment, CommitPosition, Await, TypeOK
        <4>2. ASSUME NEW q \in Requests \ {r}, Creating(q, "department")
              PROVE  department'[call[q].id] = None
          BY <2>0, <3>3, <4>2, CallFields
          DEF Committed, CommitDepartment, CommitPosition, IInv, InsertsAreFresh,
              CreationsAreCalled, Creating, TypeOK
        <4>3. ASSUME NEW q \in Requests \ {r}, Creating(q, "position")
              PROVE  position'[call[q].id] = None
          BY <2>0, <3>3, <4>3, CallFields
          DEF Committed, CommitDepartment, CommitPosition, IInv, InsertsAreFresh,
              CreationsAreCalled, Creating, TypeOK
        <4> QED
          BY <2>1, <4>1, <4>2, <4>3 DEF IInv, InsertsAreFresh, Creating
      <3> QED
        BY <3>1, <3>2, <3>3, CreationSteps
    <2>4. NamesAreReserved'
      <3>1. CASE Begun(r) \/ Ended(r)
        <4>1. pc'[r] # "commit" /\ UNCHANGED department
          BY <3>1 DEF Begun, Ended
        <4> QED
          BY <2>1, <4>1 DEF IInv, NamesAreReserved
      <3>2. CASE Flushed(r)
        BY <2>1, <3>2 DEF Flushed, NameHeld, Creating, IInv, NamesAreReserved
      <3>3. CASE Committed(r)
        <4>1. pc'[r] = "named"
          BY <2>0, <3>3 DEF Committed, CommitDepartment, CommitPosition, Await, TypeOK
        <4>2. ASSUME NEW q \in Requests \ {r}, pc[q] = "commit", call[q].kind = "department",
                     NEW d \in Departments
              PROVE  department'[d] # call[q].name
          BY <2>0, <3>3, <4>2
          DEF Committed, CommitDepartment, CommitPosition, IInv, NamesAreReserved, TypeOK
        <4> QED
          BY <2>1, <4>1, <4>2 DEF IInv, NamesAreReserved
      <3> QED
        BY <3>1, <3>2, <3>3, CreationSteps
    <2>5. KeysAreKept'
      <3>1. ASSUME NEW q \in Requests, pc[q] \in {"flush", "commit"},
                   call[q].kind = "position", KeysExist(q), call'[q] = call[q]
            PROVE  KeysExist(q)'
        <4>1. call[q].department \in Departments
          BY <3>1, CallFields DEF IInv, CreationsAreCalled
        <4> QED
          BY <2>0, <3>1, <4>1, RowsStay DEF KeysExist, Rows, TypeOK
      <3>2. pc'[r] = "commit" /\ call'[r].kind = "position" =>
              pc[r] = "flush" /\ call'[r] = call[r] /\ KeysExist(r)
        BY <2>0, CreationSteps
        DEF Begun, Flushed, Committed, Ended, CommitDepartment, CommitPosition, Await,
            TypeOK
      <3> QED
        BY <2>1, <3>1, <3>2 DEF IInv, KeysAreKept
    <2> QED
      BY <2>2, <2>3, <2>4, <2>5
  <1>2. CASE (\E e \in Employees, p \in Positions : Place(e, p)) \/ UNCHANGED vars
    BY <1>2 DEF Place, vars, IInv, CreationsAreCalled, InsertsAreFresh, NamesAreReserved,
                KeysAreKept, KeysExist, Creating
  <1> QED
    BY <1>1, <1>2 DEF Next

-----------------------------------------------------------------------------
(* What is read, and the two properties of the tables *)

LEMMA ReadsStep == IInv /\ [Next]_vars => ReadsAreClosed' /\ NamesAreFound'
  <1> SUFFICES ASSUME IInv, [Next]_vars PROVE ReadsAreClosed' /\ NamesAreFound'
    OBVIOUS
  <1>0. TypeOK /\ TypeOK'
    BY TypeStep DEF IInv
  <1>1. \A t \in [Positions -> Position \cup {None}] : \A p \in Rows(t) :
          t[p].department \in Departments
    BY DEF Rows, Position
  <1>2. ASSUME NEW q \in Requests, read'[q] = read[q], read[q] # None, NEW p \in Rows(read[q])
        PROVE  department'[read'[q][p].department] # None
    <2>1. read[q] \in [Positions -> Position \cup {None}]
      BY <1>0, <1>2 DEF TypeOK
    <2> QED
      BY <1>1, <1>2, <2>1, RowsStay DEF IInv, ReadsAreClosed
  <1>3. ASSUME NEW q \in Requests, pc'[q] = pc[q], read'[q] = read[q], names'[q] = names[q]
        PROVE  /\ read'[q] # None =>
                    /\ pc'[q] \in {"departments", "answer"}
                    /\ \A p \in Rows(read'[q]) :
                         /\ department'[read'[q][p].department] # None
                         /\ read'[q][p].reports_to \in Rows(read'[q]) \cup {None}
               /\ pc'[q] = "answer" /\ read'[q] # None =>
                    \A p \in Rows(read'[q]) :
                      /\ names'[q][read'[q][p].department] # None
                      /\ read'[q][p].reports_to \in Rows(read'[q]) \cup {None}
    BY <1>2, <1>3 DEF IInv, ReadsAreClosed, NamesAreFound
  <1>4. CASE \E r \in Requests : Ask(r) \/ Serve(r) \/ DbError(r)
    <2> PICK r \in Requests : Ask(r) \/ Serve(r) \/ DbError(r)
      BY <1>4
    <2>1. \A q \in Requests \ {r} :
            pc'[q] = pc[q] /\ read'[q] = read[q] /\ names'[q] = names[q]
      BY <1>0, OneCallMoves
    <2>2. CASE NameCreated(r) \/ SelectPositions(r)
      <3>1. /\ read'[r] = position /\ pc'[r] \in {"departments", "answer"}
            /\ pc'[r] = "answer" => names'[r] = department
            /\ UNCHANGED <<position, department>>
        BY <1>0, <2>2 DEF TypeOK, NameCreated, SelectPositions, Await
      <3> QED
        BY <1>0, <1>3, <2>1, <3>1 DEF TypeOK, ReadsAreClosed, NamesAreFound
    <2>3. CASE SelectDepartments(r)
      <3>1. /\ read'[r] = read[r] /\ pc[r] = "departments" /\ pc'[r] = "answer"
            /\ names'[r] = department /\ UNCHANGED <<position, department>>
        BY <1>0, <2>3 DEF TypeOK, SelectDepartments, Await
      <3> QED
        BY <1>3, <2>1, <3>1 DEF IInv, ReadsAreClosed, NamesAreFound
    <2>4. CASE ~(NameCreated(r) \/ SelectPositions(r) \/ SelectDepartments(r))
      <3>1. read'[r] = None
        BY <1>0, <2>4
        DEF TypeOK, IInv, ReadsAreClosed, Ask, Serve, DbError, Call, Reply, Await,
            PostDepartment, PostPosition, GetPositions, GetHeadcount, FlushDepartment,
            FlushPosition, CommitDepartment, CommitPosition, SelectHeadcount, AnswerDone
      <3> QED
        BY <1>3, <2>1, <3>1 DEF ReadsAreClosed, NamesAreFound
    <2> QED
      BY <2>2, <2>3, <2>4
  <1>5. CASE UNCHANGED <<pc, read, names>>
    BY <1>3, <1>5 DEF ReadsAreClosed, NamesAreFound
  <1> QED
    BY <1>4, <1>5 DEF Next, Place, vars

\* Only a commit changes the tables.
LEMMA Writers ==
    ASSUME IInv, [Next]_vars
    PROVE  \/ \E r \in Requests : CommitDepartment(r) \/ CommitPosition(r)
           \/ UNCHANGED <<department, position>>
  <1>1. ASSUME NEW r \in Requests, Ask(r) \/ Serve(r) \/ DbError(r)
        PROVE  Committed(r) \/ UNCHANGED <<department, position>>
    BY <1>1, CreationSteps DEF Begun, Flushed, Ended
  <1> QED
    BY <1>1 DEF Next, Place, vars, Committed

\* A new position cannot be its own manager, nor that of one made before it, so
\* a set of positions that it joins keeps the top it had.
LEMMA HierarchyStep == IInv /\ [Next]_vars => HierarchyHasTop'
  <1> SUFFICES ASSUME IInv, [Next]_vars, NEW chart \in SUBSET Rows(position'), chart # {}
               PROVE  \E p \in chart : position'[p].reports_to \notin chart
    BY DEF HierarchyHasTop
  <1>1. ASSUME NEW r \in Requests, CommitPosition(r)
        PROVE  \E p \in chart : position'[p].reports_to \notin chart
    <2> DEFINE new == call[r].id
               row == [department |-> call[r].department, reports_to |-> call[r].reports_to]
    <2>1. /\ new \in Positions /\ position[new] = None
          /\ call[r].reports_to \in Rows(position) \cup {None}
      BY <1>1, CallFields DEF IInv, Creations, CreationsAreCalled, InsertsAreFresh,
                              KeysAreKept, KeysExist, Creating, CommitPosition
    <2>2. position' = [position EXCEPT ![new] = row] /\ position \in [Positions -> Position \cup {None}]
      BY <1>1 DEF CommitPosition, IInv, TypeOK
    <2>3. new \notin Rows(position) \cup {None}
      BY <2>1, NoneAssumption DEF Rows
    <2>4. chart \ {new} \in SUBSET Rows(position)
      BY <2>1, <2>2 DEF Rows
    <2>5. CASE chart = {new}
      BY <2>1, <2>2, <2>3, <2>5
    <2>6. CASE chart # {new}
      <3>1. chart \ {new} # {}
        BY <2>6
      <3>2. PICK p \in chart \ {new} : position[p].reports_to \notin chart \ {new}
        BY <2>4, <3>1 DEF IInv, HierarchyHasTop
      <3>3. position[p].reports_to # new /\ position'[p] = position[p]
        BY <2>2, <2>3, <2>4 DEF IInv, TypeOK, Rows
      <3> QED
        BY <3>2, <3>3
    <2> QED
      BY <2>5, <2>6
  <1>2. CASE UNCHANGED position
    BY <1>2 DEF IInv, HierarchyHasTop
  <1> QED
    BY <1>1, <1>2, Writers DEF CommitDepartment

LEMMA UniqueStep == IInv /\ [Next]_vars => NamesAreUnique'
  <1> SUFFICES ASSUME IInv, [Next]_vars PROVE NamesAreUnique'
    OBVIOUS
  <1>1. ASSUME NEW r \in Requests, CommitDepartment(r)
        PROVE  NamesAreUnique'
    BY <1>1 DEF CommitDepartment, IInv, TypeOK, Creations, NamesAreReserved,
                NamesAreUnique, Rows
  <1>2. CASE UNCHANGED department
    BY <1>2 DEF IInv, NamesAreUnique
  <1> QED
    BY <1>1, <1>2, Writers DEF CommitPosition

LEMMA PlacedStep == IInv /\ [Next]_vars => EmployeesArePlaced'
  <1> SUFFICES ASSUME IInv, [Next]_vars PROVE EmployeesArePlaced'
    OBVIOUS
  <1>1. \A p \in Rows(position) : p \in Rows(position')
    BY RowsStay, TypeStep DEF IInv, TypeOK, Rows
  <1>2. ASSUME NEW e \in Employees, NEW p \in Positions, Place(e, p)
        PROVE  EmployeesArePlaced'
    BY <1>1, <1>2 DEF Place, IInv, TypeOK, EmployeesArePlaced, Rows
  <1>3. CASE UNCHANGED employee
    BY <1>1, <1>3 DEF IInv, EmployeesArePlaced
  <1> QED
    BY <1>2, <1>3
    DEF Next, vars, Ask, Serve, DbError, Call, PostDepartment, PostPosition,
        GetPositions, GetHeadcount, FlushDepartment, FlushPosition, CommitDepartment,
        CommitPosition, NameCreated, SelectPositions, SelectDepartments,
        SelectHeadcount, AnswerDone

-----------------------------------------------------------------------------
LEMMA IInvStep == IInv /\ [Next]_vars => IInv'
  BY TypeStep, CreationsStep, ReadsStep, HierarchyStep, UniqueStep, PlacedStep DEF IInv

\* The inductive invariant holds of every behaviour of the organisation chart.
THEOREM Invariant == Spec => []IInv
  BY InitIInv, IInvStep, PTL DEF Spec

\* Every variable keeps its type, the audit log has a row of each creation, and
\* the foreign keys hold.
THEOREM TypeCorrect == Spec => []TypeOK
  <1>1. IInv => TypeOK
    BY DEF IInv
  <1> QED
    BY <1>1, Invariant, PTL

\* The answers of list_positions and create_position name every department and
\* manager, whatever is committed between their reads.
THEOREM NamesFound == Spec => []NamesAreFound
  <1>1. IInv => NamesAreFound
    BY DEF IInv
  <1> QED
    BY <1>1, Invariant, PTL

\* However many positions are created side by side, they form a hierarchy: no
\* set of them is managed only from within.
THEOREM HierarchyKept == Spec => []HierarchyHasTop
  <1>1. IInv => HierarchyHasTop
    BY DEF IInv
  <1> QED
    BY <1>1, Invariant, PTL

\* No two departments get one name, however many creations of it overlap.
THEOREM NamesStayUnique == Spec => []NamesAreUnique
  <1>1. IInv => NamesAreUnique
    BY DEF IInv
  <1> QED
    BY <1>1, Invariant, PTL

-----------------------------------------------------------------------------
\* The headcount is right whenever it is asked for: its joins lose no employee
\* who has a position, and count none twice.
THEOREM HeadcountAddsUp == Spec => []EveryoneIsCounted
  <1>1. ASSUME IInv
        PROVE  EveryoneIsCounted
    <2> USE <1>1 DEF IInv
    <2>1. \A p \in Rows(position) : department[position[p].department] # None
      BY DEF TypeOK
    <2>2. \A p \in Positions :
            p \in HeadcountRows <=> \E e \in Employees : employee[e] = p
      BY <2>1, NoneAssumption DEF TypeOK, HeadcountRows, EmployeesArePlaced, Rows
    <2>3. GroupsIn(employee, Employees, HeadcountRows) = Rows(employee)
      BY <2>2, NoneAssumption DEF TypeOK, GroupsIn, Rows, HeadcountRows
    <2>4. IsFiniteSet(HeadcountRows)
      <3> DEFINE f == [e \in Rows(employee) |-> employee[e]]
      <3>1. Rows(employee) \in SUBSET Employees
        BY DEF TypeOK, Rows
      <3>2. f \in Surjection(Rows(employee), HeadcountRows)
        BY <2>2, NoneAssumption DEF TypeOK, Surjection, Rows, HeadcountRows
      <3>3. IsFiniteSet(Rows(employee))
        BY <3>1, FS_Subset, FiniteAssumption
      <3> QED
        BY <3>2, <3>3, FS_Surjection
    <2>5. SumFunction([p \in HeadcountRows |-> Cardinality(Group(employee, Employees, p))])
            = Cardinality(GroupsIn(employee, Employees, HeadcountRows))
      BY <2>4, GroupSum, FiniteAssumption
    <2> QED
      BY <2>3, <2>5 DEF EveryoneIsCounted, Headcount, Group
  <1> QED
    BY <1>1, Invariant, PTL

=============================================================================
