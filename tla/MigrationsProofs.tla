-------------------------- MODULE MigrationsProofs --------------------------
(***************************************************************************)
(* Proofs about the database, for any number of alembic processes.         *)
(*                                                                         *)
(* What no statement of any revision does, no command does, whatever it is *)
(* asked and wherever it is cut off: the schema that a command sees is     *)
(* shown to stay within Schemas and to keep the LOGIN of the role, by an   *)
(* induction over its statements that takes a set of numbers and no        *)
(* predicate as its parameter.                                             *)
(*                                                                         *)
(* What the statements of each revision lead to is computed in the proof,  *)
(* statement by statement (Upgrade1Leads to Downgrade4Leads), and that of  *)
(* a plan by induction over its revisions (PlansLead).  Commands that      *)
(* overlap are held apart by the one row of alembic_version.               *)
(***************************************************************************)
EXTENDS Migrations, WellFoundedInduction, NaturalsInduction, TLAPS

LEMMA Numbers ==
    ASSUME NEW S, 0 \in S, \A n \in Nat : n \in S => n + 1 \in S
    PROVE  Nat \subseteq S
  <1> SUFFICES ASSUME Nat \ S # {} PROVE FALSE
    OBVIOUS
  <1> DEFINE Less == {pair \in Nat \X Nat : pair[1] < pair[2]}
  <1>1. IsWellFoundedOn(Less, Nat)
    BY NatLessThanWellFounded DEF OpToRel
  <1>2. PICK m \in Nat \ S : \A k \in Nat \ S : <<k, m>> \notin Less
    <2> HIDE DEF Less
    <2> QED
      BY <1>1, WFMin
  <1>3. m # 0 /\ m - 1 \in Nat /\ m - 1 < m
    BY <1>2
  <1>4. <<m - 1, m>> \in Less
    BY <1>2, <1>3
  <1>5. m - 1 \in S
    BY <1>2, <1>3, <1>4
  <1>6. (m - 1) + 1 = m
    BY <1>2
  <1> QED
    BY <1>2, <1>3, <1>5, <1>6

-----------------------------------------------------------------------------
(* The schema after some statements *)

\* f is the schema after each of the first n statements.
Runs(f, s, statements, n) ==
    f = [i \in 0..n |-> IF i = 0 THEN s ELSE Execute(f[i - 1], statements[i])]

LEMMA RunsExist ==
    ASSUME NEW s, NEW statements, NEW n \in Nat
    PROVE  \E f : Runs(f, s, statements, n)
  <1> DEFINE S == {k \in Nat : \E f : Runs(f, s, statements, k)}
  <1>1. 0 \in S
    <2>1. Runs([i \in 0..0 |-> s], s, statements, 0)
      BY DEF Runs
    <2> QED
      BY <2>1
  <1>2. ASSUME NEW k \in Nat, k \in S
        PROVE  k + 1 \in S
    <2>1. PICK f : Runs(f, s, statements, k)
      BY <1>2
    <2> DEFINE g == [i \in 0..(k + 1) |->
                       IF i = k + 1 THEN Execute(f[k], statements[k + 1]) ELSE f[i]]
    <2>2. ASSUME NEW i \in 0..(k + 1)
          PROVE  g[i] = IF i = 0 THEN s ELSE Execute(g[i - 1], statements[i])
      <3>1. CASE i = 0
        BY <2>1, <3>1 DEF Runs
      <3>2. CASE i = k + 1
        <4>1. g[i] = Execute(f[k], statements[k + 1])
          BY <3>2
        <4>2. i - 1 = k /\ k \in 0..(k + 1) /\ k # k + 1 /\ i # 0
          BY <3>2
        <4>3. g[k] = f[k]
          BY <4>2
        <4> HIDE DEF g
        <4> QED
          BY <3>2, <4>1, <4>2, <4>3
      <3>3. CASE i # 0 /\ i # k + 1
        <4>1. i \in 0..k /\ i - 1 \in 0..k /\ i - 1 # k + 1 /\ i - 1 \in 0..(k + 1)
          BY <3>3
        <4>2. g[i] = f[i] /\ g[i - 1] = f[i - 1]
          BY <3>3, <4>1
        <4>3. f[i] = Execute(f[i - 1], statements[i])
          BY <2>1, <3>3, <4>1 DEF Runs
        <4> HIDE DEF g
        <4> QED
          BY <3>3, <4>2, <4>3
      <3> QED
        BY <3>1, <3>2, <3>3
    <2>3. g = [i \in 0..(k + 1) |->
                 IF i = 0 THEN s ELSE Execute(g[i - 1], statements[i])]
      BY <2>2
    <2>4. Runs(g, s, statements, k + 1)
      BY <2>3 DEF Runs
    <2> QED
      BY <2>4
  <1> HIDE DEF S
  <1>3. n \in S
    BY <1>1, <1>2, Numbers
  <1> QED
    BY <1>3 DEF S

LEMMA ThroughRuns ==
    ASSUME NEW s, NEW statements, NEW n \in Nat
    PROVE  \E f : Runs(f, s, statements, n) /\ Through(s, statements, n) = f[n]
  <1>1. Through(s, statements, n) = (CHOOSE f : Runs(f, s, statements, n))[n]
    BY DEF Through, Runs
  <1> QED
    BY <1>1, RunsExist

\* What every statement keeps, a command keeps that has done some of its own.
LEMMA ThroughKeeps ==
    ASSUME NEW K, NEW s \in K, NEW X, NEW statements \in Seq(X),
           \A k \in K : \A x \in X : Execute(k, x) \in K,
           NEW n \in 0..Len(statements)
    PROVE  Through(s, statements, n) \in K
  <1>0. n \in Nat
    OBVIOUS
  <1>1. PICK f : Runs(f, s, statements, n) /\ Through(s, statements, n) = f[n]
    BY <1>0, ThroughRuns
  <1> DEFINE S == {k \in Nat : k <= n => f[k] \in K}
  <1>2. 0 \in S
    BY <1>1 DEF Runs
  <1>3. ASSUME NEW k \in Nat, k \in S
        PROVE  k + 1 \in S
    <2> SUFFICES ASSUME k + 1 <= n PROVE f[k + 1] \in K
      OBVIOUS
    <2>1. k + 1 \in 0..n /\ k + 1 # 0 /\ (k + 1) - 1 = k /\ k + 1 \in 1..Len(statements)
      OBVIOUS
    <2>2. f[k + 1] = Execute(f[k], statements[k + 1])
      BY <1>1, <2>1 DEF Runs
    <2>3. f[k] \in K /\ statements[k + 1] \in X
      BY <1>3, <2>1
    <2> QED
      BY <2>2, <2>3
  <1> HIDE DEF S
  <1>4. n \in S
    BY <1>2, <1>3, Numbers
  <1> QED
    BY <1>1, <1>4 DEF S

-----------------------------------------------------------------------------
(* The statements of a command *)

\* f is what the first sequences of q are, one after the other.
Flattens(f, q, n) ==
    f = [i \in 1..n |-> IF i = 1 THEN q[i] ELSE f[i - 1] \o q[i]]

LEMMA FlattensExist ==
    ASSUME NEW q, NEW n \in Nat
    PROVE  \E f : Flattens(f, q, n)
  <1> DEFINE S == {k \in Nat : \E f : Flattens(f, q, k)}
  <1>1. 0 \in S
    <2>1. Flattens([i \in 1..0 |-> q], q, 0)
      BY DEF Flattens
    <2> QED
      BY <2>1
  <1>2. ASSUME NEW k \in Nat, k \in S
        PROVE  k + 1 \in S
    <2>1. PICK f : Flattens(f, q, k)
      BY <1>2
    <2> DEFINE g == [i \in 1..(k + 1) |->
                       IF i # k + 1 THEN f[i]
                       ELSE IF i = 1 THEN q[i] ELSE f[i - 1] \o q[i]]
    <2>2. ASSUME NEW i \in 1..(k + 1)
          PROVE  g[i] = IF i = 1 THEN q[i] ELSE g[i - 1] \o q[i]
      <3>1. CASE i = 1
        <4>1. CASE k = 0
          BY <3>1, <4>1
        <4>2. CASE k # 0
          <5>1. i \in 1..k /\ i # k + 1
            BY <3>1, <4>2
          <5> QED
            BY <2>1, <3>1, <5>1 DEF Flattens
        <4> QED
          BY <4>1, <4>2
      <3>2. CASE i # 1
        <4>1. i - 1 \in 1..k /\ i - 1 # k + 1 /\ i - 1 \in 1..(k + 1)
          BY <3>2
        <4>2. g[i - 1] = f[i - 1]
          BY <4>1
        <4>3. g[i] = f[i - 1] \o q[i]
          <5>1. CASE i = k + 1
            BY <3>2, <5>1
          <5>2. CASE i # k + 1
            <6>1. i \in 1..k
              BY <5>2
            <6>2. f[i] = f[i - 1] \o q[i]
              BY <2>1, <3>2, <6>1 DEF Flattens
            <6> QED
              BY <5>2, <6>2
          <5> QED
            BY <5>1, <5>2
        <4> HIDE DEF g
        <4> QED
          BY <3>2, <4>2, <4>3
      <3> QED
        BY <3>1, <3>2
    <2>3. g = [i \in 1..(k + 1) |-> IF i = 1 THEN q[i] ELSE g[i - 1] \o q[i]]
      BY <2>2
    <2>4. Flattens(g, q, k + 1)
      BY <2>3 DEF Flattens
    <2> QED
      BY <2>4
  <1> HIDE DEF S
  <1>3. n \in S
    BY <1>1, <1>2, Numbers
  <1> QED
    BY <1>3 DEF S

LEMMA FlattenKeeps ==
    ASSUME NEW X, NEW q \in Seq(Seq(X))
    PROVE  FlattenSeq(q) \in Seq(X)
  <1>1. CASE Len(q) = 0
    BY <1>1 DEF FlattenSeq
  <1>2. CASE Len(q) # 0
    <2>1. PICK n : n = Len(q)
      OBVIOUS
    <2>2. n \in Nat /\ n # 0
      BY <1>2, <2>1
    <2>3. FlattenSeq(q) = (CHOOSE f : Flattens(f, q, n))[n]
      BY <1>2, <2>1 DEF FlattenSeq, Flattens
    <2>4. PICK f : Flattens(f, q, n) /\ FlattenSeq(q) = f[n]
      BY <2>2, <2>3, FlattensExist
    <2> DEFINE S == {k \in Nat : k < n => f[k + 1] \in Seq(X)}
    <2>5. 0 \in S
      <3>1. f[1] = q[1]
        BY <2>2, <2>4 DEF Flattens
      <3> QED
        BY <2>1, <2>2, <3>1
    <2>6. ASSUME NEW k \in Nat, k \in S
          PROVE  k + 1 \in S
      <3> SUFFICES ASSUME k + 1 < n PROVE f[(k + 1) + 1] \in Seq(X)
        OBVIOUS
      <3>1. PICK i : i = (k + 1) + 1
        OBVIOUS
      <3>2. i \in 1..n /\ i # 1 /\ i - 1 = k + 1
        BY <2>2, <3>1
      <3>3. f[i] = f[i - 1] \o q[i]
        BY <2>4, <3>2 DEF Flattens
      <3>4. f[i - 1] \in Seq(X) /\ q[i] \in Seq(X)
        BY <2>1, <2>2, <2>6, <3>2
      <3> QED
        BY <3>1, <3>3, <3>4
    <2> HIDE DEF S
    <2>7. n - 1 \in S
      BY <2>2, <2>5, <2>6, Numbers
    <2> QED
      BY <2>2, <2>4, <2>7 DEF S
  <1> QED
    BY <1>1, <1>2

Columns == {"must_change_password", "personal_info", "flags"}

\* What a revision may let the program's role do.
Granted == (Tables \X AllPrivileges) \ ({"audit_log"} \X {"UPDATE", "DELETE"})

Schemas ==
    [version : 0..Latest,
     objects : SUBSET (Tables \cup EnumTypes),
     columns : SUBSET (Tables \X Columns),
     uses : SUBSET (Tables \X (Tables \cup EnumTypes)),
     grants : SUBSET Granted,
     role : {"absent", "nologin", "login"}]

\* The kinds of statements that the revisions have.
AllStatements ==
    [do : {"create"}, object : Tables, uses : SUBSET (Tables \cup EnumTypes)]
    \cup [do : {"create_type"}, object : EnumTypes]
    \cup [do : {"drop"}, object : Tables \cup EnumTypes]
    \cup [do : {"add"}, object : Tables, column : Columns, filled : BOOLEAN]
    \cup [do : {"drop_column"}, object : Tables, column : Columns]
    \cup [do : {"grant"}, object : Tables \ {"audit_log"}, privileges : SUBSET AllPrivileges]
    \cup [do : {"grant"}, object : Tables, privileges : SUBSET {"SELECT", "INSERT"}]
    \cup [do : {"revoke"}, object : Tables, privileges : SUBSET AllPrivileges]
    \cup [do : {"role"}, object : {"role"}]
    \cup [do : {"stamp"}, object : {"version"}, from : 0..Latest, to : 0..Latest]

LEMMA RevisionsHaveStatements ==
    ASSUME NEW v \in 1..Latest
    PROVE  Upgrades[v] \in Seq(AllStatements) /\ Downgrades[v] \in Seq(AllStatements)
  <1>1. /\ \A t \in Tables : \A uses \in SUBSET (Tables \cup EnumTypes) :
             CreateTable(t, uses) \in AllStatements
        /\ \A t \in EnumTypes : CreateType(t) \in AllStatements
        /\ \A o \in Tables \cup EnumTypes : Drop(o) \in AllStatements
    BY DEF CreateTable, CreateType, Drop, AllStatements
  <1>2. /\ \A t \in Tables : \A c \in Columns :
             AddColumn(t, c, TRUE) \in AllStatements /\ DropColumn(t, c) \in AllStatements
        /\ CreateRole \in AllStatements
    BY DEF AddColumn, DropColumn, CreateRole, AllStatements
  <1>3. /\ \A t \in Tables \ {"audit_log"} : Grant(t, AllPrivileges) \in AllStatements
        /\ Grant("audit_log", {"SELECT", "INSERT"}) \in AllStatements
        /\ \A t \in Tables : /\ Revoke(t, AllPrivileges) \in AllStatements
                             /\ Revoke(t, {"UPDATE", "DELETE"}) \in AllStatements
    BY DEF Grant, Revoke, AllStatements, AllPrivileges, Tables
  <1>4. Upgrade1 \in Seq(AllStatements) /\ Downgrade1 \in Seq(AllStatements)
    <2>1. CreateType("user_role") \in AllStatements /\ CreateTable("users", {"user_role"}) \in AllStatements
          /\ CreateTable("audit_log", {}) \in AllStatements
      BY <1>1 DEF Tables, EnumTypes
    <2>2. /\ Grant("users", AllPrivileges) \in AllStatements
          /\ Revoke("audit_log", {"UPDATE", "DELETE"}) \in AllStatements
          /\ Revoke("audit_log", AllPrivileges) \in AllStatements
          /\ Revoke("users", AllPrivileges) \in AllStatements
      BY <1>3 DEF Tables
    <2>3. /\ Drop("audit_log") \in AllStatements /\ Drop("users") \in AllStatements
          /\ Drop("user_role") \in AllStatements
      BY <1>1 DEF Tables, EnumTypes
    <2> QED
      BY <1>2, <1>3, <2>1, <2>2, <2>3 DEF Upgrade1, Downgrade1
  <1>5. Upgrade2 \in Seq(AllStatements) /\ Downgrade2 \in Seq(AllStatements)
    <2>1. /\ AddColumn("users", "must_change_password", TRUE) \in AllStatements
          /\ DropColumn("users", "must_change_password") \in AllStatements
      BY <1>2 DEF Tables, Columns
    <2>2. \A x \in AllStatements : <<x>> \in Seq(AllStatements)
      OBVIOUS
    <2> QED
      BY <2>1, <2>2, Zenon DEF Upgrade2, Downgrade2
  <1>6. Upgrade3 \in Seq(AllStatements)
    <2>1. /\ CreateTable("department", {}) \in AllStatements
          /\ CreateTable("position", {"department", "position"}) \in AllStatements
          /\ CreateTable("employee", {"position", "employment_status"}) \in AllStatements
          /\ CreateTable("employment_history", {"employee", "employment_change_type"})
               \in AllStatements
      BY <1>1 DEF Tables, EnumTypes
    <2>2. /\ CreateType("employment_status") \in AllStatements
          /\ CreateType("employment_change_type") \in AllStatements
      BY <1>1 DEF EnumTypes
    <2>3. \A t \in {"department", "position", "employee", "employment_history"} :
            Grant(t, AllPrivileges) \in AllStatements
      BY <1>3 DEF Tables
    <2> QED
      BY <2>1, <2>2, <2>3 DEF Upgrade3
  <1>7. Downgrade3 \in Seq(AllStatements)
    <2>1. \A t \in {"department", "position", "employee", "employment_history"} :
            Revoke(t, AllPrivileges) \in AllStatements /\ Drop(t) \in AllStatements
      BY <1>1, <1>3 DEF Tables
    <2>2. \A t \in {"employment_status", "employment_change_type"} : Drop(t) \in AllStatements
      BY <1>1 DEF EnumTypes
    <2> QED
      BY <2>1, <2>2 DEF Downgrade3
  <1>8. Upgrade4 \in Seq(AllStatements) /\ Downgrade4 \in Seq(AllStatements)
    <2>1. \A c \in {"personal_info", "flags"} :
            /\ AddColumn("employee", c, TRUE) \in AllStatements
            /\ DropColumn("employee", c) \in AllStatements
      BY <1>2 DEF Tables, Columns
    <2>2. \A x, y \in AllStatements : <<x, y>> \in Seq(AllStatements)
      OBVIOUS
    <2> QED
      BY <2>1, <2>2, Zenon DEF Upgrade4, Downgrade4
  <1>9. v \in {1, 2, 3, 4}
    BY DEF Latest
  <1> QED
    BY <1>4, <1>5, <1>6, <1>7, <1>8, <1>9 DEF Upgrades, Downgrades

LEMMA PlansHaveStatements ==
    ASSUME NEW from \in 0..Latest, NEW to \in 0..Latest
    PROVE  Plans[<<from, to>>] \in Seq(AllStatements)
  <1>1. \A v, w \in 0..Latest : Stamp(v, w) \in AllStatements
    BY DEF Stamp, AllStatements
  <1>2. CASE from <= to
    <2> DEFINE q == [i \in 1..(to - from) |->
                       Append(Upgrades[from + i], Stamp(from + i - 1, from + i))]
    <2>1. ASSUME NEW i \in 1..(to - from)
          PROVE  Append(Upgrades[from + i], Stamp(from + i - 1, from + i)) \in Seq(AllStatements)
      <3>1. /\ from + i \in 1..Latest /\ from + i \in 0..Latest /\ from + i - 1 \in 0..Latest
        BY DEF Latest
      <3>2. /\ Upgrades[from + i] \in Seq(AllStatements)
            /\ Stamp(from + i - 1, from + i) \in AllStatements
        BY <1>1, <3>1, RevisionsHaveStatements
      <3> QED
        BY <3>2
    <2>2. q \in Seq(Seq(AllStatements))
      <3>1. to - from \in Nat
        BY <1>2 DEF Latest
      <3>2. q \in [1..(to - from) -> Seq(AllStatements)]
        BY <2>1
      <3> HIDE DEF q
      <3> QED
        BY <3>1, <3>2
    <2>3. Plans[<<from, to>>] = FlattenSeq(q)
      BY <1>2 DEF Plans, Plan
    <2> HIDE DEF q
    <2> QED
      BY <2>2, <2>3, FlattenKeeps
  <1>3. CASE ~(from <= to)
    <2> DEFINE q == [i \in 1..(from - to) |->
                       Append(Downgrades[from - i + 1], Stamp(from - i + 1, from - i))]
    <2>1. ASSUME NEW i \in 1..(from - to)
          PROVE  Append(Downgrades[from - i + 1], Stamp(from - i + 1, from - i))
                   \in Seq(AllStatements)
      <3>1. /\ from - i + 1 \in 1..Latest /\ from - i + 1 \in 0..Latest /\ from - i \in 0..Latest
        BY DEF Latest
      <3>2. /\ Downgrades[from - i + 1] \in Seq(AllStatements)
            /\ Stamp(from - i + 1, from - i) \in AllStatements
        BY <1>1, <3>1, RevisionsHaveStatements
      <3> QED
        BY <3>2
    <2>2. q \in Seq(Seq(AllStatements))
      <3>1. from - to \in Nat
        BY <1>3 DEF Latest
      <3>2. q \in [1..(from - to) -> Seq(AllStatements)]
        BY <2>1
      <3> HIDE DEF q
      <3> QED
        BY <3>1, <3>2
    <2>3. Plans[<<from, to>>] = FlattenSeq(q)
      BY <1>3 DEF Plans, Plan
    <2> HIDE DEF q
    <2> QED
      BY <2>2, <2>3, FlattenKeeps
  <1> QED
    BY <1>2, <1>3

LEMMA ExecuteKeeps ==
    ASSUME NEW s \in Schemas, NEW x \in AllStatements
    PROVE  Execute(s, x) \in Schemas /\ (Execute(s, x).role = "login") = (s.role = "login")
  <1>1. CASE x \in [do : {"create"}, object : Tables, uses : SUBSET (Tables \cup EnumTypes)]
    <2>1. Execute(s, x) = [s EXCEPT !.objects = @ \cup {x.object},
                                    !.uses = @ \cup ({x.object} \X x.uses)]
      BY <1>1 DEF Execute
    <2>2. /\ s.objects \cup {x.object} \in SUBSET (Tables \cup EnumTypes)
          /\ s.uses \cup ({x.object} \X x.uses) \in SUBSET (Tables \X (Tables \cup EnumTypes))
      BY <1>1 DEF Schemas
    <2> QED
      BY <2>1, <2>2 DEF Schemas
  <1>2. CASE x \in [do : {"create_type"}, object : EnumTypes]
    <2>1. Execute(s, x) = [s EXCEPT !.objects = @ \cup {x.object}]
      BY <1>2 DEF Execute
    <2> QED
      BY <1>2, <2>1 DEF Schemas
  <1>3. CASE x \in [do : {"drop"}, object : Tables \cup EnumTypes]
    <2>1. Execute(s, x) = [s EXCEPT !.objects = @ \ {x.object},
                                    !.uses = {use \in @ : use[1] # x.object},
                                    !.columns = {c \in @ : c[1] # x.object},
                                    !.grants = {g \in @ : g[1] # x.object}]
      BY <1>3 DEF Execute
    <2>2. /\ s.objects \ {x.object} \in SUBSET (Tables \cup EnumTypes)
          /\ {use \in s.uses : use[1] # x.object} \in SUBSET (Tables \X (Tables \cup EnumTypes))
          /\ {c \in s.columns : c[1] # x.object} \in SUBSET (Tables \X Columns)
          /\ {g \in s.grants : g[1] # x.object} \in SUBSET Granted
      BY DEF Schemas
    <2> QED
      BY <2>1, <2>2 DEF Schemas
  <1>4. CASE x \in [do : {"add"}, object : Tables, column : Columns, filled : BOOLEAN]
    <2>1. Execute(s, x) = [s EXCEPT !.columns = @ \cup {<<x.object, x.column>>}]
      BY <1>4 DEF Execute
    <2> QED
      BY <1>4, <2>1 DEF Schemas
  <1>5. CASE x \in [do : {"drop_column"}, object : Tables, column : Columns]
    <2>1. Execute(s, x) = [s EXCEPT !.columns = @ \ {<<x.object, x.column>>}]
      BY <1>5 DEF Execute
    <2> QED
      BY <1>5, <2>1 DEF Schemas
  <1>6. CASE x \in [do : {"grant"}, object : Tables \ {"audit_log"},
                    privileges : SUBSET AllPrivileges]
             \cup [do : {"grant"}, object : Tables, privileges : SUBSET {"SELECT", "INSERT"}]
    <2>1. Execute(s, x) = [s EXCEPT !.grants = @ \cup ({x.object} \X x.privileges)]
      BY <1>6 DEF Execute
    <2>2. {x.object} \X x.privileges \subseteq Granted
      BY <1>6 DEF Granted, AllPrivileges
    <2> QED
      BY <1>6, <2>1, <2>2 DEF Schemas
  <1>7. CASE x \in [do : {"revoke"}, object : Tables, privileges : SUBSET AllPrivileges]
    <2>1. Execute(s, x) = [s EXCEPT !.grants = @ \ ({x.object} \X x.privileges)]
      BY <1>7 DEF Execute
    <2> QED
      BY <1>7, <2>1 DEF Schemas
  <1>8. CASE x \in [do : {"role"}, object : {"role"}]
    <2>1. Execute(s, x) = [s EXCEPT !.role = NoLoginIfAbsent(@)]
      BY <1>8 DEF Execute
    <2> QED
      BY <1>8, <2>1 DEF Schemas, NoLoginIfAbsent
  <1>9. CASE x \in [do : {"stamp"}, object : {"version"}, from : 0..Latest, to : 0..Latest]
    <2>1. Execute(s, x) = [s EXCEPT !.version = x.to]
      BY <1>9 DEF Execute
    <2> QED
      BY <1>9, <2>1 DEF Schemas
  <1> QED
    BY <1>1, <1>2, <1>3, <1>4, <1>5, <1>6, <1>7, <1>8, <1>9 DEF AllStatements

-----------------------------------------------------------------------------
(* The deployment *)

CommandsOK ==
    /\ command \in [Commands -> [on : BOOLEAN, from : 0..Latest, to : 0..Latest, done : Nat]]
    /\ \A c \in Commands : command[c].done <= Len(Statements(c))

IInv ==
    /\ db \in Schemas
    /\ CommandsOK
    /\ command[Container].on <=> backend = "migrating"
    /\ \A c \in Commands : command[c].on => postgres = "up"
    /\ volume \in {"fresh", "cut", "half", "scripted"}
    /\ volume = "fresh" => postgres = "down"
    /\ postgres = "init" => volume \in {"cut", "half"}
    /\ RoleCanLogIn

\* What a command sees, it has not spoilt.
LEMMA ViewKeeps ==
    ASSUME IInv, NEW c \in Commands
    PROVE  View(c) \in Schemas /\ (View(c).role = "login") = (db.role = "login")
  <1>1. PICK st, n, s : st = Statements(c) /\ n = command[c].done /\ s = db
    OBVIOUS
  <1>2. s \in Schemas /\ st \in Seq(AllStatements) /\ n \in 0..Len(st)
    <2>1. /\ command[c].from \in 0..Latest /\ command[c].to \in 0..Latest
          /\ command[c].done \in Nat /\ command[c].done <= Len(Statements(c))
      BY DEF IInv, CommandsOK
    <2>2. st \in Seq(AllStatements)
      BY <1>1, <2>1, PlansHaveStatements DEF Statements
    <2> QED
      BY <1>1, <2>1, <2>2 DEF IInv
  <1> DEFINE K == {k \in Schemas : (k.role = "login") = (s.role = "login")}
  <1>3. \A k \in K : \A x \in AllStatements : Execute(k, x) \in K
    BY ExecuteKeeps
  <1>4. s \in K
    BY <1>2
  <1> HIDE DEF K
  <1>5. Through(s, st, n) \in K
    BY <1>2, <1>3, <1>4, ThroughKeeps
  <1> QED
    BY <1>1, <1>5 DEF View, K

LEMMA IdleOK ==
    /\ Idle \in [on : BOOLEAN, from : 0..Latest, to : 0..Latest, done : Nat]
    /\ ~Idle.on
    /\ Idle.done <= Len(Plans[<<Idle.from, Idle.to>>])
  <1>1. /\ Idle \in [on : BOOLEAN, from : 0..Latest, to : 0..Latest, done : Nat]
        /\ ~Idle.on /\ Idle.from = 0 /\ Idle.to = 0 /\ Idle.done = 0
    BY DEF Idle, Latest
  <1>2. Plans[<<Idle.from, Idle.to>>] \in Seq(AllStatements)
    BY <1>1, PlansHaveStatements
  <1>3. Len(Plans[<<Idle.from, Idle.to>>]) \in Nat
    BY <1>2
  <1> QED
    BY <1>1, <1>3

LEMMA IInvInit == Init => IInv
  <1> SUFFICES ASSUME Init PROVE IInv
    OBVIOUS
  <1>1. db \in Schemas
    BY DEF Init, Empty, Schemas, Latest
  <1>2. CommandsOK
    BY IdleOK DEF Init, CommandsOK, Statements
  <1> QED
    BY <1>1, <1>2, IdleOK, ContainerAssumption DEF Init, IInv, Empty, RoleCanLogIn

\* One command goes on, begins or ends.
LEMMA CommandChanges ==
    ASSUME CommandsOK, NEW c \in Commands,
           NEW r \in [on : BOOLEAN, from : 0..Latest, to : 0..Latest, done : Nat],
           r.done <= Len(Plans[<<r.from, r.to>>]), command' = [command EXCEPT ![c] = r]
    PROVE  CommandsOK'
  <1>1. command' \in [Commands -> [on : BOOLEAN, from : 0..Latest, to : 0..Latest, done : Nat]]
    BY DEF CommandsOK
  <1>2. ASSUME NEW d \in Commands
        PROVE  command'[d].done <= Len(Plans[<<command'[d].from, command'[d].to>>])
    <2>1. CASE d = c
      BY <2>1 DEF CommandsOK
    <2>2. CASE d # c
      <3>1. command'[d] = command[d]
        BY <2>2 DEF CommandsOK
      <3> QED
        BY <3>1 DEF CommandsOK, Statements
    <2> QED
      BY <2>1, <2>2
  <1> QED
    BY <1>1, <1>2 DEF CommandsOK, Statements

LEMMA CommandBegins ==
    ASSUME CommandsOK, NEW c \in Commands, NEW on \in BOOLEAN,
           NEW from \in 0..Latest, NEW to \in 0..Latest,
           command' = [command EXCEPT ![c] =
                         [on |-> on, from |-> from, to |-> to, done |-> 0]]
    PROVE  CommandsOK'
  <1>1. PICK r : r = [on |-> on, from |-> from, to |-> to, done |-> 0]
    OBVIOUS
  <1>2. /\ r \in [on : BOOLEAN, from : 0..Latest, to : 0..Latest, done : Nat]
        /\ r.done = 0 /\ r.from = from /\ r.to = to
    BY <1>1
  <1>3. Plans[<<r.from, r.to>>] \in Seq(AllStatements)
    BY <1>2, PlansHaveStatements
  <1>4. r.done <= Len(Plans[<<r.from, r.to>>])
    <2>1. Len(Plans[<<r.from, r.to>>]) \in Nat
      BY <1>3
    <2> QED
      BY <1>2, <2>1
  <1> QED
    BY <1>1, <1>2, <1>4, CommandChanges

LEMMA EndKeeps ==
    ASSUME IInv, NEW c \in Commands, NEW then \in {"down", "serving"}, End(c, then)
    PROVE  /\ CommandsOK'
           /\ command'[Container].on <=> backend' = "migrating"
           /\ \A d \in Commands : command'[d].on => command[d].on
  <1>1. CommandsOK'
    BY IdleOK, CommandChanges DEF End, IInv
  <1>2. \A d \in Commands : command'[d] = IF d = c THEN Idle ELSE command[d]
    BY DEF End, IInv, CommandsOK
  <1>3. \A d \in Commands : command'[d].on => command[d].on /\ d # c
    BY <1>2, IdleOK
  <1>4. command'[Container].on <=> backend' = "migrating"
    <2>1. CASE c = Container
      BY <1>3, <2>1, ContainerAssumption DEF End, BackendGoesOn
    <2>2. CASE c # Container
      BY <1>2, <2>2, ContainerAssumption DEF End, BackendGoesOn, IInv
    <2> QED
      BY <2>1, <2>2
  <1> QED
    BY <1>1, <1>3, <1>4

LEMMA IInvStep == IInv /\ [Next]_vars => IInv'
  <1> SUFFICES ASSUME IInv, [Next]_vars PROVE IInv'
    OBVIOUS
  <1>1. ASSUME command' = command
        PROVE  CommandsOK'
    BY <1>1 DEF IInv, CommandsOK, Statements
  <1>2. CASE UNCHANGED vars
    BY <1>1, <1>2 DEF vars, IInv, RoleCanLogIn
  <1>3. CASE StartPostgres
    BY <1>1, <1>3 DEF StartPostgres, IInv, RoleCanLogIn
  <1>4. CASE InitScriptRole \/ InitScriptGrants
    <2>1. CASE InitScriptRole
      <3>1. db' \in Schemas /\ db'.role = "login"
        BY <2>1 DEF InitScriptRole, IInv, Schemas
      <3> QED
        BY <1>1, <2>1, <3>1 DEF InitScriptRole, IInv, RoleCanLogIn
    <2>2. CASE InitScriptGrants
      BY <1>1, <2>2 DEF InitScriptGrants, IInv, RoleCanLogIn
    <2> QED
      BY <1>4, <2>1, <2>2
  <1>5. CASE StopPostgres
    <2>1. CommandsOK'
      BY <1>5, IdleOK DEF StopPostgres, CommandsOK, Statements
    <2>2. \A c \in Commands : ~command'[c].on
      BY <1>5, IdleOK DEF StopPostgres
    <2> QED
      BY <1>5, <2>1, <2>2, ContainerAssumption DEF StopPostgres, IInv, RoleCanLogIn
  <1>6. CASE StartBackend
    <2>1. PICK on, v, w : on = TRUE /\ v = db.version /\ w = Latest
      OBVIOUS
    <2>2. /\ command' = [command EXCEPT ![Container] =
                           [on |-> on, from |-> v, to |-> w, done |-> 0]]
          /\ on \in BOOLEAN /\ v \in 0..Latest /\ w \in 0..Latest
      BY <1>6, <2>1 DEF StartBackend, IInv, Schemas, Latest
    <2>3. CommandsOK'
      BY <2>2, CommandBegins, ContainerAssumption DEF IInv
    <2>4. command'[Container].on
      BY <2>1, <2>2, ContainerAssumption DEF IInv, CommandsOK
    <2> QED
      BY <1>6, <2>3, <2>4 DEF StartBackend, IInv, RoleCanLogIn
  <1>7. CASE StopBackend
    <2>1. End(Container, "down") /\ UNCHANGED <<db, postgres, volume>>
      BY <1>7 DEF StopBackend
    <2> QED
      BY <2>1, EndKeeps, ContainerAssumption DEF IInv, RoleCanLogIn
  <1>8. ASSUME NEW c \in Commands, NEW to \in 0..Latest, Operate(c, to)
        PROVE  IInv'
    <2>1. PICK on, v : on = TRUE /\ v = db.version
      OBVIOUS
    <2>2. /\ command' = [command EXCEPT ![c] =
                           [on |-> on, from |-> v, to |-> to, done |-> 0]]
          /\ on \in BOOLEAN /\ v \in 0..Latest
      BY <1>8, <2>1 DEF Operate, IInv, Schemas
    <2>3. CommandsOK'
      BY <2>2, CommandBegins DEF IInv
    <2>4. command'[Container] = command[Container]
      BY <1>8, <2>2, ContainerAssumption DEF Operate, IInv, CommandsOK
    <2> QED
      BY <1>8, <2>3, <2>4 DEF Operate, IInv, RoleCanLogIn
  <1>9. ASSUME NEW c \in Commands, RunStatement(c)
        PROVE  IInv'
    <2>1. PICK q : q = command[c]
      OBVIOUS
    <2>2. PICK r : r = [q EXCEPT !.done = @ + 1]
      OBVIOUS
    <2>3. /\ q \in [on : BOOLEAN, from : 0..Latest, to : 0..Latest, done : Nat]
          /\ q.on /\ q.done <= Len(Plans[<<q.from, q.to>>])
          /\ q.done # Len(Plans[<<q.from, q.to>>])
      BY <1>9, <2>1 DEF RunStatement, Finished, Statements, IInv, CommandsOK
    <2>4. /\ r \in [on : BOOLEAN, from : 0..Latest, to : 0..Latest, done : Nat]
          /\ r.on /\ r.from = q.from /\ r.to = q.to /\ r.done = q.done + 1
      BY <2>2, <2>3
    <2>5. Len(Plans[<<q.from, q.to>>]) \in Nat
      BY <2>3, PlansHaveStatements
    <2>6. command' = [command EXCEPT ![c] = r]
      BY <1>9, <2>1, <2>2 DEF RunStatement
    <2>7. CommandsOK'
      <3>1. Plans[<<r.from, r.to>>] = Plans[<<q.from, q.to>>]
        BY <2>4
      <3>2. r.done <= Len(Plans[<<r.from, r.to>>])
        BY <2>3, <2>4, <2>5, <3>1
      <3> QED
        BY <2>4, <2>6, <3>2, CommandChanges DEF IInv
    <2>8. \A d \in Commands : command'[d].on = command[d].on
      BY <2>1, <2>3, <2>4, <2>6 DEF IInv, CommandsOK
    <2> QED
      BY <1>9, <2>7, <2>8, ContainerAssumption DEF RunStatement, IInv, RoleCanLogIn
  <1>10. ASSUME NEW c \in Commands, FailStatement(c) \/ Abort(c)
         PROVE  IInv'
    <2>1. End(c, "down") /\ UNCHANGED <<db, postgres, volume>>
      BY <1>10 DEF FailStatement, Abort
    <2> QED
      BY <2>1, EndKeeps DEF IInv, RoleCanLogIn
  <1>11. ASSUME NEW c \in Commands, Commit(c)
         PROVE  IInv'
    <2>1. End(c, "serving") /\ db' = View(c) /\ UNCHANGED <<postgres, volume>>
      BY <1>11 DEF Commit
    <2>2. db' \in Schemas /\ (db'.role = "login") = (db.role = "login")
      BY <2>1, ViewKeeps
    <2> QED
      BY <2>1, <2>2, EndKeeps DEF IInv, RoleCanLogIn
  <1> QED
    BY <1>2, <1>3, <1>4, <1>5, <1>6, <1>7, <1>8, <1>9, <1>10, <1>11 DEF Next

\* The database stays within Schemas: nothing but the tables and types of the
\* revisions, and the privileges they grant; a command is where its plan has it.
THEOREM Invariant == Spec => []IInv
  BY IInvInit, IInvStep, PTL DEF Spec

\* Every variable of the deployment keeps its type, a command runs only against a
\* server that is up, and the backend migrates while its command runs
\* (docker-compose.yml:33-35).
THEOREM TypeCorrect == Spec => []TypeOK
  <1>1. IInv => TypeOK
    <2> SUFFICES ASSUME IInv PROVE TypeOK
      OBVIOUS
    <2>1. /\ db.version \in 0..Latest /\ db.objects \subseteq Tables \cup EnumTypes
          /\ db.uses \subseteq Tables \X (Tables \cup EnumTypes)
          /\ db.columns \subseteq Tables \X {"must_change_password", "personal_info", "flags"}
          /\ db.grants \subseteq Tables \X AllPrivileges
          /\ db.role \in {"absent", "nologin", "login"}
      BY DEF IInv, Schemas, Granted, Columns
    <2>2. ASSUME NEW c \in Commands
          PROVE  /\ command[c].from \in 0..Latest /\ command[c].to \in 0..Latest
                 /\ command[c].done \in 0..Len(Statements(c))
      <3>1. /\ command[c].from \in 0..Latest /\ command[c].to \in 0..Latest
            /\ command[c].done \in Nat /\ command[c].done <= Len(Statements(c))
        BY DEF IInv, CommandsOK
      <3>2. Len(Statements(c)) \in Nat
        BY <3>1, PlansHaveStatements DEF Statements
      <3> QED
        BY <3>1, <3>2
    <2>3. (backend = "migrating") = command[Container].on
      <3>1. command[Container].on \in BOOLEAN
        BY ContainerAssumption DEF IInv, CommandsOK
      <3> QED
        BY <3>1 DEF IInv
    <2> QED
      BY <2>1, <2>2, <2>3 DEF TypeOK, IInv
  <1> QED
    BY <1>1, Invariant, PTL

\* 0001:93-96: in no state, and in the view of no command however far it is, may
\* the program's role change or delete a row of the audit log.
THEOREM AuditLogKept == Spec => []AuditLogIsAppendOnly
  <1>1. IInv => AuditLogIsAppendOnly
    <2> SUFFICES ASSUME IInv, NEW privilege \in {"UPDATE", "DELETE"}
                 PROVE  /\ <<"audit_log", privilege>> \notin db.grants
                        /\ \A c \in Commands : <<"audit_log", privilege>> \notin View(c).grants
      BY DEF AuditLogIsAppendOnly
    <2>1. \A s \in Schemas : <<"audit_log", privilege>> \notin s.grants
      BY DEF Schemas, Granted
    <2> QED
      BY <2>1, ViewKeeps DEF IInv
  <1> QED
    BY <1>1, Invariant, PTL

\* 0001:75-89: whatever is migrated, the role has its LOGIN just when init-db.sh
\* has come to make it.
THEOREM RoleKeepsLogin == Spec => []RoleCanLogIn
  <1>1. IInv => RoleCanLogIn
    BY DEF IInv
  <1> QED
    BY <1>1, Invariant, PTL

-----------------------------------------------------------------------------
(* What the statements of the revisions lead to *)

LEMMA RunsAgree ==
    ASSUME NEW s, NEW statements, NEW n \in Nat, NEW m \in Nat, n <= m,
           NEW f, NEW g, Runs(f, s, statements, n), Runs(g, s, statements, m)
    PROVE  \A i \in 0..n : f[i] = g[i]
  <1> DEFINE S == {k \in Nat : k <= n => f[k] = g[k]}
  <1>1. 0 \in S
    BY DEF Runs
  <1>2. ASSUME NEW k \in Nat, k \in S
        PROVE  k + 1 \in S
    <2> SUFFICES ASSUME k + 1 <= n PROVE f[k + 1] = g[k + 1]
      OBVIOUS
    <2>1. /\ k + 1 \in 0..n /\ k + 1 \in 0..m /\ k + 1 # 0 /\ (k + 1) - 1 = k
      OBVIOUS
    <2>2. /\ f[k + 1] = Execute(f[k], statements[k + 1])
          /\ g[k + 1] = Execute(g[k], statements[k + 1])
      BY <2>1 DEF Runs
    <2> QED
      BY <1>2, <2>2
  <1> HIDE DEF S
  <1>3. Nat \subseteq S
    BY <1>1, <1>2, Numbers
  <1> QED
    BY <1>3 DEF S

LEMMA ThroughNone ==
    ASSUME NEW s, NEW statements
    PROVE  Through(s, statements, 0) = s
  <1>1. PICK f : Runs(f, s, statements, 0) /\ Through(s, statements, 0) = f[0]
    BY ThroughRuns
  <1> QED
    BY <1>1 DEF Runs

LEMMA ThroughNext ==
    ASSUME NEW s, NEW statements, NEW n \in Nat
    PROVE  Through(s, statements, n + 1) =
             Execute(Through(s, statements, n), statements[n + 1])
  <1>1. PICK f : Runs(f, s, statements, n) /\ Through(s, statements, n) = f[n]
    BY ThroughRuns
  <1>2. PICK g : Runs(g, s, statements, n + 1) /\ Through(s, statements, n + 1) = g[n + 1]
    BY ThroughRuns
  <1>3. f[n] = g[n]
    BY <1>1, <1>2, RunsAgree
  <1>4. n + 1 \in 0..(n + 1) /\ n + 1 # 0 /\ (n + 1) - 1 = n
    OBVIOUS
  <1>5. g[n + 1] = Execute(g[n], statements[n + 1])
    BY <1>2, <1>4 DEF Runs
  <1> QED
    BY <1>1, <1>2, <1>3, <1>5

\* Each of the statements can be executed, and in the end the schema is t.
Leads(s, statements, t) ==
    /\ \A n \in 0..(Len(statements) - 1) :
         Applies(Through(s, statements, n), statements[n + 1])
    /\ Through(s, statements, Len(statements)) = t

\* f[i] is the schema before the i-th statement.
LEMMA Walk ==
    ASSUME NEW statements, NEW n \in Nat, Len(statements) = n, NEW f,
           \A i \in 1..n : /\ Applies(f[i], statements[i])
                           /\ f[i + 1] = Execute(f[i], statements[i])
    PROVE  Leads(f[1], statements, f[n + 1])
  <1> DEFINE S == {k \in Nat : k <= n => Through(f[1], statements, k) = f[k + 1]}
  <1>1. 0 \in S
    BY ThroughNone
  <1>2. ASSUME NEW k \in Nat, k \in S
        PROVE  k + 1 \in S
    <2> SUFFICES ASSUME k + 1 <= n
                 PROVE  Through(f[1], statements, k + 1) = f[(k + 1) + 1]
      OBVIOUS
    <2>1. Through(f[1], statements, k + 1) = Execute(f[k + 1], statements[k + 1])
      BY <1>2, ThroughNext
    <2>2. k + 1 \in 1..n
      OBVIOUS
    <2> QED
      BY <2>1, <2>2
  <1> HIDE DEF S
  <1>3. Nat \subseteq S
    BY <1>1, <1>2, Numbers
  <1>4. ASSUME NEW k \in 0..n
        PROVE  Through(f[1], statements, k) = f[k + 1]
    BY <1>3 DEF S
  <1>5. ASSUME NEW k \in 0..(Len(statements) - 1)
        PROVE  Applies(Through(f[1], statements, k), statements[k + 1])
    <2>1. k \in 0..n /\ k + 1 \in 1..n
      OBVIOUS
    <2> QED
      BY <1>4, <2>1
  <1> QED
    BY <1>4, <1>5 DEF Leads

LEMMA LeadsOn ==
    ASSUME NEW X, NEW a \in Seq(X), NEW b \in Seq(X), NEW s, NEW t, NEW u,
           Leads(s, a, t), Leads(t, b, u)
    PROVE  Leads(s, a \o b, u)
  <1>1. PICK m, n : m = Len(a) /\ n = Len(b)
    OBVIOUS
  <1>2. m \in Nat /\ n \in Nat
    BY <1>1
  <1> DEFINE f == [i \in 1..(m + n + 1) |->
                     IF i <= m THEN Through(s, a, i - 1) ELSE Through(t, b, i - 1 - m)]
             c == a \o b
  <1>3. Len(c) = m + n /\ m + n \in Nat
    BY <1>1, <1>2
  <1>4. ASSUME NEW i \in 1..(m + n)
        PROVE  Applies(f[i], c[i]) /\ f[i + 1] = Execute(f[i], c[i])
    <2>0. i + 1 \in 1..(m + n + 1) /\ i \in 1..(m + n + 1)
      BY <1>2
    <2>1. CASE i <= m
      <3>1. PICK k : k = i - 1
        OBVIOUS
      <3>2. k \in 0..(m - 1) /\ k \in Nat /\ i = k + 1
        BY <1>2, <2>1, <3>1
      <3>3. f[i] = Through(s, a, k) /\ c[i] = a[k + 1]
        BY <1>1, <1>2, <2>0, <2>1, <3>1, <3>2
      <3>4. Applies(f[i], c[i])
        BY <1>1, <3>2, <3>3 DEF Leads
      <3>5. Through(s, a, i) = Execute(f[i], c[i])
        BY <3>2, <3>3, ThroughNext
      <3>6. f[i + 1] = Through(s, a, i)
        <4>1. CASE i + 1 <= m
          <5>1. (i + 1) - 1 = i
            BY <1>2
          <5> QED
            BY <2>0, <4>1, <5>1
        <4>2. CASE ~(i + 1 <= m)
          <5>1. i = m /\ (i + 1) - 1 - m = 0
            BY <1>2, <2>1, <4>2
          <5>2. f[i + 1] = Through(t, b, 0)
            BY <2>0, <4>2, <5>1
          <5> HIDE DEF f
          <5> QED
            BY <1>1, <5>1, <5>2, ThroughNone DEF Leads
        <4> QED
          BY <4>1, <4>2
      <3> HIDE DEF f, c
      <3> QED
        BY <3>4, <3>5, <3>6
    <2>2. CASE ~(i <= m)
      <3>1. PICK k : k = i - 1 - m
        OBVIOUS
      <3>2. /\ k \in 0..(n - 1) /\ k \in Nat /\ k + 1 = i - m /\ (i + 1) - 1 - m = k + 1
            /\ ~(i + 1 <= m)
        BY <1>2, <2>2, <3>1
      <3>3. f[i] = Through(t, b, k) /\ f[i + 1] = Through(t, b, k + 1)
        BY <2>0, <2>2, <3>1, <3>2
      <3>4. c[i] = b[k + 1]
        BY <1>1, <1>2, <2>2, <3>2
      <3> HIDE DEF f, c
      <3>5. Applies(f[i], c[i])
        BY <1>1, <3>2, <3>3, <3>4 DEF Leads
      <3> QED
        BY <3>2, <3>3, <3>4, <3>5, ThroughNext
    <2> QED
      BY <2>1, <2>2
  <1>5. Leads(f[1], c, f[m + n + 1])
    <2> HIDE DEF f, c
    <2> QED
      BY <1>3, <1>4, Walk
  <1>6. f[1] = s
    <2>1. CASE m = 0
      <3>1. f[1] = Through(t, b, 0)
        BY <1>2, <2>1
      <3> HIDE DEF f
      <3>2. Through(s, a, 0) = t
        BY <1>1, <2>1 DEF Leads
      <3> QED
        BY <3>1, <3>2, ThroughNone
    <2>2. CASE m # 0
      <3>1. f[1] = Through(s, a, 0)
        BY <1>2, <2>2
      <3> HIDE DEF f
      <3> QED
        BY <3>1, ThroughNone
    <2> QED
      BY <2>1, <2>2
  <1>7. f[m + n + 1] = u
    <2>1. (m + n + 1) - 1 - m = n /\ ~(m + n + 1 <= m) /\ m + n + 1 \in 1..(m + n + 1)
      BY <1>2
    <2>2. f[m + n + 1] = Through(t, b, n)
      BY <2>1
    <2> HIDE DEF f
    <2> QED
      BY <1>1, <2>2 DEF Leads
  <1> HIDE DEF f
  <1> QED
    BY <1>5, <1>6, <1>7

Schema(v, objects, columns, uses, grants, role) ==
    [version |-> v, objects |-> objects, columns |-> columns, uses |-> uses,
     grants |-> grants, role |-> role]

\* The statement can be executed, and the schema is then t.
Does(s, x, t) == Applies(s, x) /\ Execute(s, x) = t

\* What DROP leaves of the uses, columns and grants.
Without(S, t) == {k \in S : k[1] # t}

LEMMA TablesAndTypes ==
    ASSUME NEW v, NEW o, NEW c, NEW u, NEW g, NEW r, NEW t
    PROVE  /\ \A uses : t \notin o /\ uses \subseteq o \cup {t} =>
                Does(Schema(v, o, c, u, g, r), CreateTable(t, uses),
                     Schema(v, o \cup {t}, c, u \cup ({t} \X uses), g, r))
           /\ Does(Schema(v, o, c, u, g, r), CreateType(t), Schema(v, o \cup {t}, c, u, g, r))
           /\ t \in o /\ (\A use \in u : use[2] = t => use[1] = t) =>
                Does(Schema(v, o, c, u, g, r), Drop(t),
                     Schema(v, o \ {t}, Without(c, t), Without(u, t), Without(g, t), r))
  <1> DEFINE s == Schema(v, o, c, u, g, r)
  <1>1. /\ s.version = v /\ s.objects = o /\ s.columns = c /\ s.uses = u /\ s.grants = g
        /\ s.role = r
    BY DEF Schema
  <1>2. ASSUME NEW uses, t \notin o, uses \subseteq o \cup {t}
        PROVE  Does(s, CreateTable(t, uses),
                    Schema(v, o \cup {t}, c, u \cup ({t} \X uses), g, r))
    BY <1>2 DEF CreateTable, Does, Applies, Execute, Schema
  <1>3. Does(s, CreateType(t), Schema(v, o \cup {t}, c, u, g, r))
    BY DEF CreateType, Does, Applies, Execute, Schema
  <1>4. ASSUME t \in o, \A use \in u : use[2] = t => use[1] = t
        PROVE  Does(s, Drop(t),
                    Schema(v, o \ {t}, Without(c, t), Without(u, t), Without(g, t), r))
    <2>1. Execute(s, Drop(t)) = [s EXCEPT !.objects = @ \ {t},
                                          !.uses = {use \in @ : use[1] # t},
                                          !.columns = {k \in @ : k[1] # t},
                                          !.grants = {k \in @ : k[1] # t}]
      BY DEF Drop, Execute
    <2>2. Execute(s, Drop(t)) = Schema(v, o \ {t}, Without(c, t), Without(u, t), Without(g, t), r)
      BY <2>1 DEF Schema, Without
    <2>3. Applies(s, Drop(t))
      BY <1>1, <1>4 DEF Drop, Applies
    <2> QED
      BY <2>2, <2>3 DEF Does
  <1> QED
    BY <1>2, <1>3, <1>4

LEMMA Rights ==
    ASSUME NEW v, NEW o, NEW c, NEW u, NEW g, NEW r, NEW t, NEW p
    PROVE  /\ t \in o /\ r # "absent" =>
                /\ Does(Schema(v, o, c, u, g, r), Grant(t, p),
                        Schema(v, o, c, u, g \cup ({t} \X p), r))
                /\ Does(Schema(v, o, c, u, g, r), Revoke(t, p),
                        Schema(v, o, c, u, g \ ({t} \X p), r))
           /\ Does(Schema(v, o, c, u, g, r), CreateRole,
                   Schema(v, o, c, u, g, NoLoginIfAbsent(r)))
  <1>1. ASSUME t \in o, r # "absent"
        PROVE  Does(Schema(v, o, c, u, g, r), Grant(t, p),
                    Schema(v, o, c, u, g \cup ({t} \X p), r))
    BY <1>1 DEF Grant, Does, Applies, Execute, Schema
  <1>2. ASSUME t \in o, r # "absent"
        PROVE  Does(Schema(v, o, c, u, g, r), Revoke(t, p),
                    Schema(v, o, c, u, g \ ({t} \X p), r))
    BY <1>2 DEF Revoke, Does, Applies, Execute, Schema
  <1>3. Does(Schema(v, o, c, u, g, r), CreateRole, Schema(v, o, c, u, g, NoLoginIfAbsent(r)))
    BY DEF CreateRole, Does, Applies, Execute, Schema
  <1> QED
    BY <1>1, <1>2, <1>3

LEMMA AddedColumns ==
    ASSUME NEW v, NEW o, NEW c, NEW u, NEW g, NEW r, NEW t, NEW k
    PROVE  /\ t \in o /\ <<t, k>> \notin c =>
                Does(Schema(v, o, c, u, g, r), AddColumn(t, k, TRUE),
                     Schema(v, o, c \cup {<<t, k>>}, u, g, r))
           /\ <<t, k>> \in c =>
                Does(Schema(v, o, c, u, g, r), DropColumn(t, k),
                     Schema(v, o, c \ {<<t, k>>}, u, g, r))
  <1>1. ASSUME t \in o, <<t, k>> \notin c
        PROVE  Does(Schema(v, o, c, u, g, r), AddColumn(t, k, TRUE),
                    Schema(v, o, c \cup {<<t, k>>}, u, g, r))
    <2>1. PICK filled \in BOOLEAN : filled = TRUE
      OBVIOUS
    <2>2. Does(Schema(v, o, c, u, g, r), AddColumn(t, k, filled),
               Schema(v, o, c \cup {<<t, k>>}, u, g, r))
      BY <1>1, <2>1 DEF AddColumn, Does, Applies, Execute, Schema
    <2> QED
      BY <2>1, <2>2, Zenon
  <1>2. ASSUME <<t, k>> \in c
        PROVE  Does(Schema(v, o, c, u, g, r), DropColumn(t, k),
                    Schema(v, o, c \ {<<t, k>>}, u, g, r))
    BY <1>2 DEF DropColumn, Does, Applies, Execute, Schema
  <1> QED
    BY <1>1, <1>2, Zenon

LEMMA Stamps ==
    ASSUME NEW v, NEW w, NEW o, NEW c, NEW u, NEW g, NEW r
    PROVE  Does(Schema(v, o, c, u, g, r), Stamp(v, w), Schema(w, o, c, u, g, r))
  BY DEF Stamp, Does, Applies, Execute, Schema

-----------------------------------------------------------------------------
\* The schema at each version.
ObjectsAt ==
    << {"user_role", "users", "audit_log"}, {"user_role", "users", "audit_log"},
       Tables \cup EnumTypes, Tables \cup EnumTypes >>

UsesAt ==
    << {"users"} \X {"user_role"}, {"users"} \X {"user_role"},
       ({"users"} \X {"user_role"}) \cup ({"position"} \X {"department", "position"})
         \cup ({"employee"} \X {"position", "employment_status"})
         \cup ({"employment_history"} \X {"employee", "employment_change_type"}),
       ({"users"} \X {"user_role"}) \cup ({"position"} \X {"department", "position"})
         \cup ({"employee"} \X {"position", "employment_status"})
         \cup ({"employment_history"} \X {"employee", "employment_change_type"}) >>

ColumnsAt ==
    << {}, {<<"users", "must_change_password">>}, {<<"users", "must_change_password">>},
       {<<"users", "must_change_password">>, <<"employee", "personal_info">>,
        <<"employee", "flags">>} >>

GrantsAt ==
    << ({"users"} \X AllPrivileges) \cup ({"audit_log"} \X {"SELECT", "INSERT"}),
       ({"users"} \X AllPrivileges) \cup ({"audit_log"} \X {"SELECT", "INSERT"}),
       Granted, Granted >>

Stage(v, r) ==
    IF v = 0 THEN Schema(0, {}, {}, {}, {}, r)
    ELSE Schema(v, ObjectsAt[v], ColumnsAt[v], UsesAt[v], GrantsAt[v], r)

-----------------------------------------------------------------------------
(* Each revision, statement by statement, leads from the schema of one     *)
(* version to that of the next, but for the number in alembic_version.     *)

LEMMA Upgrade1Leads ==
    ASSUME NEW r
    PROVE  Leads(Schema(0, {}, {}, {}, {}, r), Upgrade1,
                 Schema(0, ObjectsAt[1], ColumnsAt[1], UsesAt[1], GrantsAt[1],
                        NoLoginIfAbsent(r)))
  <1> DEFINE o0 == {}
             c0 == {}
             u0 == {}
             g0 == {}
             o1 == o0 \cup {"user_role"}
             o2 == o1 \cup {"users"}
             u2 == u0 \cup ({"users"} \X {"user_role"})
             o3 == o2 \cup {"audit_log"}
             u3 == u2 \cup ({"audit_log"} \X {})
             n == NoLoginIfAbsent(r)
             g5 == g0 \cup ({"users"} \X AllPrivileges)
             g6 == g5 \cup ({"audit_log"} \X {"SELECT", "INSERT"})
             g7 == g6 \ ({"audit_log"} \X {"UPDATE", "DELETE"})
             s0 == Schema(0, o0, c0, u0, g0, r)
             s1 == Schema(0, o1, c0, u0, g0, r)
             s2 == Schema(0, o2, c0, u2, g0, r)
             s3 == Schema(0, o3, c0, u3, g0, r)
             s4 == Schema(0, o3, c0, u3, g0, n)
             s5 == Schema(0, o3, c0, u3, g5, n)
             s6 == Schema(0, o3, c0, u3, g6, n)
             s7 == Schema(0, o3, c0, u3, g7, n)
  <1>1. "users" \notin o1 /\ {"user_role"} \subseteq o1 \cup {"users"}
    OBVIOUS
  <1>2. "audit_log" \notin o2 /\ {} \subseteq o2 \cup {"audit_log"}
    OBVIOUS
  <1>3. n # "absent"
    BY DEF NoLoginIfAbsent
  <1>4. "users" \in o3
    OBVIOUS
  <1>5. "audit_log" \in o3
    OBVIOUS
  <1>6. "audit_log" \in o3
    OBVIOUS
  <1>7. o3 = ObjectsAt[1]
    BY DEF ObjectsAt
  <1>8. c0 = ColumnsAt[1]
    BY DEF ColumnsAt
  <1>9. u3 = UsesAt[1]
    BY DEF UsesAt
  <1>10. g7 = GrantsAt[1]
    BY DEF GrantsAt, AllPrivileges
  <1> HIDE DEF o0, c0, u0, g0, o1, o2, u2, o3, u3, n, g5, g6, g7
  <1>11. Does(s0, CreateType("user_role"), s1)
    BY TablesAndTypes DEF o1
  <1>12. Does(s1, CreateTable("users", {"user_role"}), s2)
    BY <1>1, TablesAndTypes DEF o2, u2
  <1>13. Does(s2, CreateTable("audit_log", {}), s3)
    BY <1>2, TablesAndTypes DEF o3, u3
  <1>14. Does(s3, CreateRole, s4)
    BY Rights DEF n
  <1>15. Does(s4, Grant("users", AllPrivileges), s5)
    BY <1>4, <1>3, Rights DEF g5
  <1>16. Does(s5, Grant("audit_log", {"SELECT", "INSERT"}), s6)
    BY <1>5, <1>3, Rights DEF g6
  <1>17. Does(s6, Revoke("audit_log", {"UPDATE", "DELETE"}), s7)
    BY <1>6, <1>3, Rights DEF g7
  <1> HIDE DEF s0, s1, s2, s3, s4, s5, s6, s7
  <1> DEFINE f == <<s0, s1, s2, s3, s4, s5, s6, s7>>
  <1>18. ASSUME NEW i \in 1..7
        PROVE  Applies(f[i], Upgrade1[i]) /\ f[i + 1] = Execute(f[i], Upgrade1[i])
    BY <1>11, <1>12, <1>13, <1>14, <1>15, <1>16, <1>17 DEF Does, Upgrade1
  <1>19. Len(Upgrade1) = 7 /\ f[1] = s0 /\ f[7 + 1] = s7
    BY DEF Upgrade1
  <1> HIDE DEF f
  <1>20. Leads(s0, Upgrade1, s7)
    BY <1>18, <1>19, Walk
  <1> QED
    BY <1>20, <1>7, <1>8, <1>9, <1>10 DEF o0, c0, u0, g0, s0, s7, n

LEMMA Downgrade1Leads ==
    ASSUME NEW r, r # "absent"
    PROVE  Leads(Schema(1, ObjectsAt[1], ColumnsAt[1], UsesAt[1], GrantsAt[1], r),
                 Downgrade1,
                 Schema(1, {}, {}, {}, {}, r))
  <1> DEFINE o0 == ObjectsAt[1]
             c0 == ColumnsAt[1]
             u0 == UsesAt[1]
             g0 == GrantsAt[1]
             g1 == g0 \ ({"audit_log"} \X AllPrivileges)
             g2 == g1 \ ({"users"} \X AllPrivileges)
             o3 == o0 \ {"audit_log"}
             c3 == Without(c0, "audit_log")
             u3 == Without(u0, "audit_log")
             g3 == Without(g2, "audit_log")
             o4 == o3 \ {"users"}
             c4 == Without(c3, "users")
             u4 == Without(u3, "users")
             g4 == Without(g3, "users")
             o5 == o4 \ {"user_role"}
             c5 == Without(c4, "user_role")
             u5 == Without(u4, "user_role")
             g5 == Without(g4, "user_role")
             s0 == Schema(1, o0, c0, u0, g0, r)
             s1 == Schema(1, o0, c0, u0, g1, r)
             s2 == Schema(1, o0, c0, u0, g2, r)
             s3 == Schema(1, o3, c3, u3, g3, r)
             s4 == Schema(1, o4, c4, u4, g4, r)
             s5 == Schema(1, o5, c5, u5, g5, r)
  <1>1. "audit_log" \in o0
    BY DEF ObjectsAt
  <1>2. "users" \in o0
    BY DEF ObjectsAt
  <1>3. /\ "audit_log" \in o0
        /\ \A use \in u0 : use[2] = "audit_log" => use[1] = "audit_log"
    BY DEF ObjectsAt, UsesAt, Without
  <1>4. "users" \in o3 /\ \A use \in u3 : use[2] = "users" => use[1] = "users"
    BY DEF ObjectsAt, UsesAt, Without
  <1>5. /\ "user_role" \in o4
        /\ \A use \in u4 : use[2] = "user_role" => use[1] = "user_role"
    BY DEF ObjectsAt, UsesAt, Without
  <1>6. o5 = {}
    BY DEF ObjectsAt
  <1>7. c5 = {}
    BY DEF ColumnsAt, Without
  <1>8. u5 = {}
    BY DEF UsesAt, Without
  <1>9. g5 = {}
    BY DEF GrantsAt, AllPrivileges, Without
  <1> HIDE DEF o0, c0, u0, g0, g1, g2, o3, c3, u3, g3, o4, c4, u4, g4, o5, c5, u5, g5
  <1>10. Does(s0, Revoke("audit_log", AllPrivileges), s1)
    BY <1>1, Rights DEF g1
  <1>11. Does(s1, Revoke("users", AllPrivileges), s2)
    BY <1>2, Rights DEF g2
  <1>12. Does(s2, Drop("audit_log"), s3)
    BY <1>3, TablesAndTypes DEF o3, c3, u3, g3
  <1>13. Does(s3, Drop("users"), s4)
    BY <1>4, TablesAndTypes DEF o4, c4, u4, g4
  <1>14. Does(s4, Drop("user_role"), s5)
    BY <1>5, TablesAndTypes DEF o5, c5, u5, g5
  <1> HIDE DEF s0, s1, s2, s3, s4, s5
  <1> DEFINE f == <<s0, s1, s2, s3, s4, s5>>
  <1>15. ASSUME NEW i \in 1..5
        PROVE  Applies(f[i], Downgrade1[i]) /\ f[i + 1] = Execute(f[i], Downgrade1[i])
    BY <1>10, <1>11, <1>12, <1>13, <1>14 DEF Does, Downgrade1
  <1>16. Len(Downgrade1) = 5 /\ f[1] = s0 /\ f[5 + 1] = s5
    BY DEF Downgrade1
  <1> HIDE DEF f
  <1>17. Leads(s0, Downgrade1, s5)
    BY <1>15, <1>16, Walk
  <1> QED
    BY <1>17, <1>6, <1>7, <1>8, <1>9 DEF o0, c0, u0, g0, s0, s5

LEMMA Upgrade2Leads ==
    ASSUME NEW r, r # "absent"
    PROVE  Leads(Schema(1, ObjectsAt[1], ColumnsAt[1], UsesAt[1], GrantsAt[1], r),
                 Upgrade2,
                 Schema(1, ObjectsAt[2], ColumnsAt[2], UsesAt[2], GrantsAt[2], r))
  <1> DEFINE o0 == ObjectsAt[1]
             c0 == ColumnsAt[1]
             u0 == UsesAt[1]
             g0 == GrantsAt[1]
             c1 == c0 \cup {<<"users", "must_change_password">>}
             s0 == Schema(1, o0, c0, u0, g0, r)
             s1 == Schema(1, o0, c1, u0, g0, r)
  <1>1. "users" \in o0 /\ <<"users", "must_change_password">> \notin c0
    BY DEF ColumnsAt, ObjectsAt
  <1>2. o0 = ObjectsAt[2]
    BY DEF ObjectsAt
  <1>3. c1 = ColumnsAt[2]
    BY DEF ColumnsAt
  <1>4. u0 = UsesAt[2]
    BY DEF UsesAt
  <1>5. g0 = GrantsAt[2]
    BY DEF GrantsAt, AllPrivileges
  <1> HIDE DEF o0, c0, u0, g0, c1
  <1> DEFINE x1 == AddColumn("users", "must_change_password", TRUE)
  <1>6. Does(s0, x1, s1)
    BY <1>1, AddedColumns DEF c1
  <1>7. Upgrade2 = <<x1>>
    BY Zenon DEF Upgrade2
  <1> HIDE DEF s0, s1, x1
  <1> DEFINE f == <<s0, s1>>
  <1>8. ASSUME NEW i \in 1..1
        PROVE  Applies(f[i], Upgrade2[i]) /\ f[i + 1] = Execute(f[i], Upgrade2[i])
    BY <1>6, <1>7 DEF Does
  <1>9. Len(Upgrade2) = 1 /\ f[1] = s0 /\ f[1 + 1] = s1
    BY DEF Upgrade2
  <1> HIDE DEF f
  <1>10. Leads(s0, Upgrade2, s1)
    BY <1>8, <1>9, Walk
  <1> QED
    BY <1>10, <1>2, <1>3, <1>4, <1>5 DEF o0, c0, u0, g0, s0, s1

LEMMA Downgrade2Leads ==
    ASSUME NEW r, r # "absent"
    PROVE  Leads(Schema(2, ObjectsAt[2], ColumnsAt[2], UsesAt[2], GrantsAt[2], r),
                 Downgrade2,
                 Schema(2, ObjectsAt[1], ColumnsAt[1], UsesAt[1], GrantsAt[1], r))
  <1> DEFINE o0 == ObjectsAt[2]
             c0 == ColumnsAt[2]
             u0 == UsesAt[2]
             g0 == GrantsAt[2]
             c1 == c0 \ {<<"users", "must_change_password">>}
             s0 == Schema(2, o0, c0, u0, g0, r)
             s1 == Schema(2, o0, c1, u0, g0, r)
  <1>1. <<"users", "must_change_password">> \in c0
    BY DEF ColumnsAt
  <1>2. o0 = ObjectsAt[1]
    BY DEF ObjectsAt
  <1>3. c1 = ColumnsAt[1]
    BY DEF ColumnsAt
  <1>4. u0 = UsesAt[1]
    BY DEF UsesAt
  <1>5. g0 = GrantsAt[1]
    BY DEF GrantsAt, AllPrivileges
  <1> HIDE DEF o0, c0, u0, g0, c1
  <1>6. Does(s0, DropColumn("users", "must_change_password"), s1)
    BY <1>1, AddedColumns DEF c1
  <1> HIDE DEF s0, s1
  <1> DEFINE f == <<s0, s1>>
  <1>7. ASSUME NEW i \in 1..1
        PROVE  Applies(f[i], Downgrade2[i]) /\ f[i + 1] = Execute(f[i], Downgrade2[i])
    BY <1>6 DEF Does, Downgrade2
  <1>8. Len(Downgrade2) = 1 /\ f[1] = s0 /\ f[1 + 1] = s1
    BY DEF Downgrade2
  <1> HIDE DEF f
  <1>9. Leads(s0, Downgrade2, s1)
    BY <1>7, <1>8, Walk
  <1> QED
    BY <1>9, <1>2, <1>3, <1>4, <1>5 DEF o0, c0, u0, g0, s0, s1

LEMMA Upgrade3Leads ==
    ASSUME NEW r, r # "absent"
    PROVE  Leads(Schema(2, ObjectsAt[2], ColumnsAt[2], UsesAt[2], GrantsAt[2], r),
                 Upgrade3,
                 Schema(2, ObjectsAt[3], ColumnsAt[3], UsesAt[3], GrantsAt[3], r))
  <1> DEFINE o0 == ObjectsAt[2]
             c0 == ColumnsAt[2]
             u0 == UsesAt[2]
             g0 == GrantsAt[2]
             o1 == o0 \cup {"department"}
             u1 == u0 \cup ({"department"} \X {})
             o2 == o1 \cup {"position"}
             u2 == u1 \cup ({"position"} \X {"department", "position"})
             o3 == o2 \cup {"employment_status"}
             o4 == o3 \cup {"employee"}
             u4 == u2 \cup ({"employee"} \X {"position", "employment_status"})
             o5 == o4 \cup {"employment_change_type"}
             o6 == o5 \cup {"employment_history"}
             u6 == u4 \cup ({"employment_history"} \X {"employee",
                    "employment_change_type"})
             g7 == g0 \cup ({"department"} \X AllPrivileges)
             g8 == g7 \cup ({"position"} \X AllPrivileges)
             g9 == g8 \cup ({"employee"} \X AllPrivileges)
             g10 == g9 \cup ({"employment_history"} \X AllPrivileges)
             s0 == Schema(2, o0, c0, u0, g0, r)
             s1 == Schema(2, o1, c0, u1, g0, r)
             s2 == Schema(2, o2, c0, u2, g0, r)
             s3 == Schema(2, o3, c0, u2, g0, r)
             s4 == Schema(2, o4, c0, u4, g0, r)
             s5 == Schema(2, o5, c0, u4, g0, r)
             s6 == Schema(2, o6, c0, u6, g0, r)
             s7 == Schema(2, o6, c0, u6, g7, r)
             s8 == Schema(2, o6, c0, u6, g8, r)
             s9 == Schema(2, o6, c0, u6, g9, r)
             s10 == Schema(2, o6, c0, u6, g10, r)
  <1>1. "department" \notin o0 /\ {} \subseteq o0 \cup {"department"}
    BY DEF ObjectsAt
  <1>2. /\ "position" \notin o1
        /\ {"department", "position"} \subseteq o1 \cup {"position"}
    BY DEF ObjectsAt
  <1>3. /\ "employee" \notin o3
        /\ {"position", "employment_status"} \subseteq o3 \cup {"employee"}
    BY DEF ObjectsAt
  <1>4. /\ "employment_history" \notin o5
        /\ {"employee", "employment_change_type"} \subseteq o5 \cup {"employment_history"}
    BY DEF ObjectsAt
  <1>5. "department" \in o6
    BY DEF ObjectsAt
  <1>6. "position" \in o6
    BY DEF ObjectsAt
  <1>7. "employee" \in o6
    BY DEF ObjectsAt
  <1>8. "employment_history" \in o6
    BY DEF ObjectsAt
  <1>9. o6 = ObjectsAt[3]
    BY DEF ObjectsAt, Tables, EnumTypes
  <1>10. c0 = ColumnsAt[3]
    BY DEF ColumnsAt
  <1>11. u6 = UsesAt[3]
    BY DEF UsesAt
  <1>12. g10 = GrantsAt[3]
    BY DEF GrantsAt, Granted, Tables, AllPrivileges
  <1> HIDE DEF o0, c0, u0, g0, o1, u1, o2, u2, o3, o4, u4, o5, o6, u6, g7, g8, g9, g10
  <1>13. Does(s0, CreateTable("department", {}), s1)
    BY <1>1, TablesAndTypes DEF o1, u1
  <1>14. Does(s1, CreateTable("position", {"department", "position"}), s2)
    BY <1>2, TablesAndTypes DEF o2, u2
  <1>15. Does(s2, CreateType("employment_status"), s3)
    BY TablesAndTypes DEF o3
  <1>16. Does(s3, CreateTable("employee", {"position", "employment_status"}), s4)
    BY <1>3, TablesAndTypes DEF o4, u4
  <1>17. Does(s4, CreateType("employment_change_type"), s5)
    BY TablesAndTypes DEF o5
  <1>18. Does(s5, CreateTable("employment_history", {"employee",
                        "employment_change_type"}), s6)
    BY <1>4, TablesAndTypes DEF o6, u6
  <1>19. Does(s6, Grant("department", AllPrivileges), s7)
    BY <1>5, Rights DEF g7
  <1>20. Does(s7, Grant("position", AllPrivileges), s8)
    BY <1>6, Rights DEF g8
  <1>21. Does(s8, Grant("employee", AllPrivileges), s9)
    BY <1>7, Rights DEF g9
  <1>22. Does(s9, Grant("employment_history", AllPrivileges), s10)
    BY <1>8, Rights DEF g10
  <1> HIDE DEF s0, s1, s2, s3, s4, s5, s6, s7, s8, s9, s10
  <1> DEFINE f == <<s0, s1, s2, s3, s4, s5, s6, s7, s8, s9, s10>>
  <1>23. ASSUME NEW i \in 1..10
        PROVE  Applies(f[i], Upgrade3[i]) /\ f[i + 1] = Execute(f[i], Upgrade3[i])
    BY <1>13, <1>14, <1>15, <1>16, <1>17, <1>18, <1>19, <1>20, <1>21, <1>22 DEF Does,
       Upgrade3
  <1>24. Len(Upgrade3) = 10 /\ f[1] = s0 /\ f[10 + 1] = s10
    BY DEF Upgrade3
  <1> HIDE DEF f
  <1>25. Leads(s0, Upgrade3, s10)
    BY <1>23, <1>24, Walk
  <1> QED
    BY <1>25, <1>9, <1>10, <1>11, <1>12 DEF o0, c0, u0, g0, s0, s10

LEMMA Downgrade3Leads ==
    ASSUME NEW r, r # "absent"
    PROVE  Leads(Schema(3, ObjectsAt[3], ColumnsAt[3], UsesAt[3], GrantsAt[3], r),
                 Downgrade3,
                 Schema(3, ObjectsAt[2], ColumnsAt[2], UsesAt[2], GrantsAt[2], r))
  <1> DEFINE o0 == ObjectsAt[3]
             c0 == ColumnsAt[3]
             u0 == UsesAt[3]
             g0 == GrantsAt[3]
             g1 == g0 \ ({"employment_history"} \X AllPrivileges)
             g2 == g1 \ ({"employee"} \X AllPrivileges)
             g3 == g2 \ ({"position"} \X AllPrivileges)
             g4 == g3 \ ({"department"} \X AllPrivileges)
             o5 == o0 \ {"employment_history"}
             c5 == Without(c0, "employment_history")
             u5 == Without(u0, "employment_history")
             g5 == Without(g4, "employment_history")
             o6 == o5 \ {"employment_change_type"}
             c6 == Without(c5, "employment_change_type")
             u6 == Without(u5, "employment_change_type")
             g6 == Without(g5, "employment_change_type")
             o7 == o6 \ {"employee"}
             c7 == Without(c6, "employee")
             u7 == Without(u6, "employee")
             g7 == Without(g6, "employee")
             o8 == o7 \ {"employment_status"}
             c8 == Without(c7, "employment_status")
             u8 == Without(u7, "employment_status")
             g8 == Without(g7, "employment_status")
             o9 == o8 \ {"position"}
             c9 == Without(c8, "position")
             u9 == Without(u8, "position")
             g9 == Without(g8, "position")
             o10 == o9 \ {"department"}
             c10 == Without(c9, "department")
             u10 == Without(u9, "department")
             g10 == Without(g9, "department")
             s0 == Schema(3, o0, c0, u0, g0, r)
             s1 == Schema(3, o0, c0, u0, g1, r)
             s2 == Schema(3, o0, c0, u0, g2, r)
             s3 == Schema(3, o0, c0, u0, g3, r)
             s4 == Schema(3, o0, c0, u0, g4, r)
             s5 == Schema(3, o5, c5, u5, g5, r)
             s6 == Schema(3, o6, c6, u6, g6, r)
             s7 == Schema(3, o7, c7, u7, g7, r)
             s8 == Schema(3, o8, c8, u8, g8, r)
             s9 == Schema(3, o9, c9, u9, g9, r)
             s10 == Schema(3, o10, c10, u10, g10, r)
  <1>1. "employment_history" \in o0
    BY DEF ObjectsAt, Tables, EnumTypes
  <1>2. "employee" \in o0
    BY DEF ObjectsAt, Tables, EnumTypes
  <1>3. "position" \in o0
    BY DEF ObjectsAt, Tables, EnumTypes
  <1>4. "department" \in o0
    BY DEF ObjectsAt, Tables, EnumTypes
  <1>5. /\ "employment_history" \in o0
        /\ \A use \in u0 : use[2] = "employment_history" => use[1] = "employment_history"
    BY DEF ObjectsAt, UsesAt, Tables, EnumTypes, Without
  <1>6. /\ "employment_change_type" \in o5
        /\ \A use \in u5 : use[2] = "employment_change_type" => use[1] = "employment_change_type"
    BY DEF ObjectsAt, UsesAt, Tables, EnumTypes, Without
  <1>7. "employee" \in o6 /\ \A use \in u6 : use[2] = "employee" => use[1] = "employee"
    BY DEF ObjectsAt, UsesAt, Tables, EnumTypes, Without
  <1>8. /\ "employment_status" \in o7
        /\ \A use \in u7 : use[2] = "employment_status" => use[1] = "employment_status"
    BY DEF ObjectsAt, UsesAt, Tables, EnumTypes, Without
  <1>9. "position" \in o8 /\ \A use \in u8 : use[2] = "position" => use[1] = "position"
    BY DEF ObjectsAt, UsesAt, Tables, EnumTypes, Without
  <1>10. /\ "department" \in o9
         /\ \A use \in u9 : use[2] = "department" => use[1] = "department"
    BY DEF ObjectsAt, UsesAt, Tables, EnumTypes, Without
  <1>11. o10 = ObjectsAt[2]
    BY DEF ObjectsAt, Tables, EnumTypes
  <1>12. c10 = ColumnsAt[2]
    BY DEF ColumnsAt, Without
  <1>13. u10 = UsesAt[2]
    BY DEF UsesAt, Without
  <1>14. g10 = GrantsAt[2]
    BY DEF GrantsAt, Granted, Tables, AllPrivileges, Without
  <1> HIDE DEF o0, c0, u0, g0, g1, g2, g3, g4, o5, c5, u5, g5, o6, c6, u6, g6, o7, c7,
               u7, g7, o8, c8, u8, g8, o9, c9, u9, g9, o10, c10, u10, g10
  <1>15. Does(s0, Revoke("employment_history", AllPrivileges), s1)
    BY <1>1, Rights DEF g1
  <1>16. Does(s1, Revoke("employee", AllPrivileges), s2)
    BY <1>2, Rights DEF g2
  <1>17. Does(s2, Revoke("position", AllPrivileges), s3)
    BY <1>3, Rights DEF g3
  <1>18. Does(s3, Revoke("department", AllPrivileges), s4)
    BY <1>4, Rights DEF g4
  <1>19. Does(s4, Drop("employment_history"), s5)
    BY <1>5, TablesAndTypes DEF o5, c5, u5, g5
  <1>20. Does(s5, Drop("employment_change_type"), s6)
    BY <1>6, TablesAndTypes DEF o6, c6, u6, g6
  <1>21. Does(s6, Drop("employee"), s7)
    BY <1>7, TablesAndTypes DEF o7, c7, u7, g7
  <1>22. Does(s7, Drop("employment_status"), s8)
    BY <1>8, TablesAndTypes DEF o8, c8, u8, g8
  <1>23. Does(s8, Drop("position"), s9)
    BY <1>9, TablesAndTypes DEF o9, c9, u9, g9
  <1>24. Does(s9, Drop("department"), s10)
    BY <1>10, TablesAndTypes DEF o10, c10, u10, g10
  <1> HIDE DEF s0, s1, s2, s3, s4, s5, s6, s7, s8, s9, s10
  <1> DEFINE f == <<s0, s1, s2, s3, s4, s5, s6, s7, s8, s9, s10>>
  <1>25. ASSUME NEW i \in 1..10
        PROVE  Applies(f[i], Downgrade3[i]) /\ f[i + 1] = Execute(f[i], Downgrade3[i])
    BY <1>15, <1>16, <1>17, <1>18, <1>19, <1>20, <1>21, <1>22, <1>23, <1>24 DEF Does,
       Downgrade3
  <1>26. Len(Downgrade3) = 10 /\ f[1] = s0 /\ f[10 + 1] = s10
    BY DEF Downgrade3
  <1> HIDE DEF f
  <1>27. Leads(s0, Downgrade3, s10)
    BY <1>25, <1>26, Walk
  <1> QED
    BY <1>27, <1>11, <1>12, <1>13, <1>14 DEF o0, c0, u0, g0, s0, s10

LEMMA Upgrade4Leads ==
    ASSUME NEW r, r # "absent"
    PROVE  Leads(Schema(3, ObjectsAt[3], ColumnsAt[3], UsesAt[3], GrantsAt[3], r),
                 Upgrade4,
                 Schema(3, ObjectsAt[4], ColumnsAt[4], UsesAt[4], GrantsAt[4], r))
  <1> DEFINE o0 == ObjectsAt[3]
             c0 == ColumnsAt[3]
             u0 == UsesAt[3]
             g0 == GrantsAt[3]
             c1 == c0 \cup {<<"employee", "personal_info">>}
             c2 == c1 \cup {<<"employee", "flags">>}
             s0 == Schema(3, o0, c0, u0, g0, r)
             s1 == Schema(3, o0, c1, u0, g0, r)
             s2 == Schema(3, o0, c2, u0, g0, r)
  <1>1. "employee" \in o0 /\ <<"employee", "personal_info">> \notin c0
    BY DEF ColumnsAt, ObjectsAt, Tables, EnumTypes
  <1>2. "employee" \in o0 /\ <<"employee", "flags">> \notin c1
    BY DEF ColumnsAt, ObjectsAt, Tables, EnumTypes
  <1>3. o0 = ObjectsAt[4]
    BY DEF ObjectsAt, Tables, EnumTypes
  <1>4. c2 = ColumnsAt[4]
    BY DEF ColumnsAt
  <1>5. u0 = UsesAt[4]
    BY DEF UsesAt
  <1>6. g0 = GrantsAt[4]
    BY DEF GrantsAt, Granted, Tables, AllPrivileges
  <1> HIDE DEF o0, c0, u0, g0, c1, c2
  <1> DEFINE x1 == AddColumn("employee", "personal_info", TRUE)
             x2 == AddColumn("employee", "flags", TRUE)
  <1>7. Does(s0, x1, s1)
    BY <1>1, AddedColumns DEF c1
  <1>8. Does(s1, x2, s2)
    BY <1>2, AddedColumns DEF c2
  <1>9. Upgrade4 = <<x1, x2>>
    BY Zenon DEF Upgrade4
  <1> HIDE DEF s0, s1, s2, x1, x2
  <1> DEFINE f == <<s0, s1, s2>>
  <1>10. ASSUME NEW i \in 1..2
        PROVE  Applies(f[i], Upgrade4[i]) /\ f[i + 1] = Execute(f[i], Upgrade4[i])
    BY <1>7, <1>8, <1>9 DEF Does
  <1>11. Len(Upgrade4) = 2 /\ f[1] = s0 /\ f[2 + 1] = s2
    BY DEF Upgrade4
  <1> HIDE DEF f
  <1>12. Leads(s0, Upgrade4, s2)
    BY <1>10, <1>11, Walk
  <1> QED
    BY <1>12, <1>3, <1>4, <1>5, <1>6 DEF o0, c0, u0, g0, s0, s2

LEMMA Downgrade4Leads ==
    ASSUME NEW r, r # "absent"
    PROVE  Leads(Schema(4, ObjectsAt[4], ColumnsAt[4], UsesAt[4], GrantsAt[4], r),
                 Downgrade4,
                 Schema(4, ObjectsAt[3], ColumnsAt[3], UsesAt[3], GrantsAt[3], r))
  <1> DEFINE o0 == ObjectsAt[4]
             c0 == ColumnsAt[4]
             u0 == UsesAt[4]
             g0 == GrantsAt[4]
             c1 == c0 \ {<<"employee", "flags">>}
             c2 == c1 \ {<<"employee", "personal_info">>}
             s0 == Schema(4, o0, c0, u0, g0, r)
             s1 == Schema(4, o0, c1, u0, g0, r)
             s2 == Schema(4, o0, c2, u0, g0, r)
  <1>1. <<"employee", "flags">> \in c0
    BY DEF ColumnsAt
  <1>2. <<"employee", "personal_info">> \in c1
    BY DEF ColumnsAt
  <1>3. o0 = ObjectsAt[3]
    BY DEF ObjectsAt, Tables, EnumTypes
  <1>4. c2 = ColumnsAt[3]
    BY DEF ColumnsAt
  <1>5. u0 = UsesAt[3]
    BY DEF UsesAt
  <1>6. g0 = GrantsAt[3]
    BY DEF GrantsAt, Granted, Tables, AllPrivileges
  <1> HIDE DEF o0, c0, u0, g0, c1, c2
  <1>7. Does(s0, DropColumn("employee", "flags"), s1)
    BY <1>1, AddedColumns DEF c1
  <1>8. Does(s1, DropColumn("employee", "personal_info"), s2)
    BY <1>2, AddedColumns DEF c2
  <1> HIDE DEF s0, s1, s2
  <1> DEFINE f == <<s0, s1, s2>>
  <1>9. ASSUME NEW i \in 1..2
        PROVE  Applies(f[i], Downgrade4[i]) /\ f[i + 1] = Execute(f[i], Downgrade4[i])
    BY <1>7, <1>8 DEF Does, Downgrade4
  <1>10. Len(Downgrade4) = 2 /\ f[1] = s0 /\ f[2 + 1] = s2
    BY DEF Downgrade4
  <1> HIDE DEF f
  <1>11. Leads(s0, Downgrade4, s2)
    BY <1>9, <1>10, Walk
  <1> QED
    BY <1>11, <1>3, <1>4, <1>5, <1>6 DEF o0, c0, u0, g0, s0, s2

-----------------------------------------------------------------------------
(* What a command leads to *)

LEMMA LeadsOnce ==
    ASSUME NEW X, NEW a \in Seq(X), NEW x \in X, NEW s, NEW t, NEW u,
           Leads(s, a, t), Does(t, x, u)
    PROVE  Leads(s, Append(a, x), u)
  <1>1. Through(t, <<x>>, 0) = t
    BY ThroughNone
  <1>2. Through(t, <<x>>, 0 + 1) = Execute(Through(t, <<x>>, 0), <<x>>[0 + 1])
    BY ThroughNext
  <1>3. Len(<<x>>) = 1 /\ <<x>>[1] = x /\ 0..(1 - 1) = {0}
    OBVIOUS
  <1>4. Leads(t, <<x>>, u)
    BY <1>1, <1>2, <1>3 DEF Does, Leads
  <1>5. <<x>> \in Seq(X) /\ Append(a, x) = a \o <<x>>
    OBVIOUS
  <1> QED
    BY <1>4, <1>5, LeadsOn

\* The statements of one revision, up and down, with the UPDATE of alembic_version.
LEMMA UpgradeLeads ==
    ASSUME NEW v \in 1..Latest, NEW r, v # 1 => r # "absent"
    PROVE  Leads(Stage(v - 1, r), Append(Upgrades[v], Stamp(v - 1, v)),
                 Stage(v, NoLoginIfAbsent(r)))
  <1>1. PICK w : w = v - 1
    OBVIOUS
  <1>2. w \in 0..Latest /\ v \in 0..Latest /\ v # 0
    BY <1>1 DEF Latest
  <1> DEFINE t == Schema(w, ObjectsAt[v], ColumnsAt[v], UsesAt[v], GrantsAt[v],
                         NoLoginIfAbsent(r))
  <1>3. Leads(Stage(w, r), Upgrades[v], t)
    <2>1. CASE v = 1
      <3>1. w = 0 /\ Upgrades[v] = Upgrade1
        BY <1>1, <2>1 DEF Upgrades
      <3> QED
        BY <2>1, <3>1, Upgrade1Leads DEF Stage
    <2>2. CASE v # 1
      <3>1. r # "absent" /\ NoLoginIfAbsent(r) = r
        BY <2>2 DEF NoLoginIfAbsent
      <3>2. CASE v = 2
        <4>1. w = 1 /\ Upgrades[v] = Upgrade2
          BY <1>1, <3>2 DEF Upgrades
        <4> QED
          BY <3>1, <3>2, <4>1, Upgrade2Leads DEF Stage
      <3>3. CASE v = 3
        <4>1. w = 2 /\ Upgrades[v] = Upgrade3
          BY <1>1, <3>3 DEF Upgrades
        <4> QED
          BY <3>1, <3>3, <4>1, Upgrade3Leads DEF Stage
      <3>4. CASE v = 4
        <4>1. w = 3 /\ Upgrades[v] = Upgrade4
          BY <1>1, <3>4 DEF Upgrades
        <4> QED
          BY <3>1, <3>4, <4>1, Upgrade4Leads DEF Stage
      <3>5. v \in {2, 3, 4}
        BY <2>2 DEF Latest
      <3> QED
        BY <3>2, <3>3, <3>4, <3>5
    <2> QED
      BY <2>1, <2>2
  <1>4. Does(t, Stamp(w, v), Stage(v, NoLoginIfAbsent(r)))
    <2>1. Stage(v, NoLoginIfAbsent(r)) =
            Schema(v, ObjectsAt[v], ColumnsAt[v], UsesAt[v], GrantsAt[v], NoLoginIfAbsent(r))
      BY <1>2 DEF Stage
    <2> QED
      BY <2>1, Stamps
  <1> HIDE DEF t
  <1>5. Upgrades[v] \in Seq(AllStatements)
    BY RevisionsHaveStatements
  <1>6. Stamp(w, v) \in AllStatements
    BY <1>2 DEF Stamp, AllStatements
  <1> QED
    BY <1>1, <1>3, <1>4, <1>5, <1>6, LeadsOnce

LEMMA DowngradeLeads ==
    ASSUME NEW v \in 1..Latest, NEW r, r # "absent"
    PROVE  Leads(Stage(v, r), Append(Downgrades[v], Stamp(v, v - 1)), Stage(v - 1, r))
  <1>1. PICK w : w = v - 1
    OBVIOUS
  <1>2. w \in 0..Latest /\ v \in 0..Latest /\ v # 0
    BY <1>1 DEF Latest
  <1>3. PICK o, c, u, g : Stage(w, r) = Schema(w, o, c, u, g, r)
                          /\ Leads(Stage(v, r), Downgrades[v], Schema(v, o, c, u, g, r))
    <2>1. CASE v = 1
      <3>1. w = 0 /\ Downgrades[v] = Downgrade1
        BY <1>1, <2>1 DEF Downgrades
      <3>2. Stage(w, r) = Schema(w, {}, {}, {}, {}, r)
        BY <3>1 DEF Stage
      <3>3. Leads(Stage(v, r), Downgrades[v], Schema(v, {}, {}, {}, {}, r))
        BY <2>1, <3>1, Downgrade1Leads DEF Stage
      <3> QED
        BY <3>2, <3>3
    <2>2. CASE v # 1
      <3>1. Stage(w, r) = Schema(w, ObjectsAt[w], ColumnsAt[w], UsesAt[w], GrantsAt[w], r)
        BY <1>1, <2>2 DEF Stage
      <3>2. Leads(Stage(v, r), Downgrades[v],
                  Schema(v, ObjectsAt[w], ColumnsAt[w], UsesAt[w], GrantsAt[w], r))
        <4>1. CASE v = 2
          <5>1. w = 1 /\ Downgrades[v] = Downgrade2
            BY <1>1, <4>1 DEF Downgrades
          <5> QED
            BY <4>1, <5>1, Downgrade2Leads DEF Stage
        <4>2. CASE v = 3
          <5>1. w = 2 /\ Downgrades[v] = Downgrade3
            BY <1>1, <4>2 DEF Downgrades
          <5> QED
            BY <4>2, <5>1, Downgrade3Leads DEF Stage
        <4>3. CASE v = 4
          <5>1. w = 3 /\ Downgrades[v] = Downgrade4
            BY <1>1, <4>3 DEF Downgrades
          <5> QED
            BY <4>3, <5>1, Downgrade4Leads DEF Stage
        <4>4. v \in {2, 3, 4}
          BY <2>2 DEF Latest
        <4> QED
          BY <4>1, <4>2, <4>3, <4>4
      <3> QED
        BY <3>1, <3>2
    <2> QED
      BY <2>1, <2>2
  <1>4. Does(Schema(v, o, c, u, g, r), Stamp(v, w), Stage(w, r))
    BY <1>3, Stamps
  <1>5. Downgrades[v] \in Seq(AllStatements)
    BY RevisionsHaveStatements
  <1>6. Stamp(v, w) \in AllStatements
    BY <1>2 DEF Stamp, AllStatements
  <1> QED
    BY <1>1, <1>3, <1>4, <1>5, <1>6, LeadsOnce

\* g[i] is the schema before the i-th sequence.
LEMMA FlattenLeads ==
    ASSUME NEW X, NEW q \in Seq(Seq(X)), NEW n \in Nat, n = Len(q), NEW g,
           \A i \in 1..n : Leads(g[i], q[i], g[i + 1])
    PROVE  Leads(g[1], FlattenSeq(q), g[n + 1])
  <1>1. CASE n = 0
    <2>1. FlattenSeq(q) = q /\ Len(q) = 0
      BY <1>1 DEF FlattenSeq
    <2> QED
      BY <1>1, <2>1, ThroughNone DEF Leads
  <1>2. CASE n # 0
    <2>1. FlattenSeq(q) = (CHOOSE f : Flattens(f, q, n))[n]
      BY <1>2 DEF FlattenSeq, Flattens
    <2>2. PICK f : Flattens(f, q, n) /\ FlattenSeq(q) = f[n]
      BY <2>1, FlattensExist
    <2> DEFINE S == {k \in Nat : k < n => /\ f[k + 1] \in Seq(X)
                                          /\ Leads(g[1], f[k + 1], g[(k + 1) + 1])}
    <2>3. 0 \in S
      <3>1. f[1] = q[1] /\ 1 \in 1..n
        BY <1>2, <2>2 DEF Flattens
      <3> QED
        BY <3>1
    <2>4. ASSUME NEW k \in Nat, k \in S
          PROVE  k + 1 \in S
      <3> SUFFICES ASSUME k + 1 < n
                   PROVE  /\ f[(k + 1) + 1] \in Seq(X)
                          /\ Leads(g[1], f[(k + 1) + 1], g[((k + 1) + 1) + 1])
        OBVIOUS
      <3>1. PICK i : i = (k + 1) + 1
        OBVIOUS
      <3>2. i \in 1..n /\ i # 1 /\ i - 1 = k + 1
        BY <3>1
      <3>3. f[i] = f[i - 1] \o q[i]
        BY <2>2, <3>2 DEF Flattens
      <3>4. f[i - 1] \in Seq(X) /\ q[i] \in Seq(X) /\ Leads(g[1], f[i - 1], g[i])
        BY <2>4, <3>1, <3>2
      <3>5. f[i] \in Seq(X)
        BY <3>3, <3>4
      <3>6. Leads(g[i], q[i], g[i + 1])
        BY <3>2
      <3>7. Leads(g[1], f[i], g[i + 1])
        BY <3>3, <3>4, <3>6, LeadsOn
      <3> QED
        BY <3>1, <3>5, <3>7
    <2> HIDE DEF S
    <2>5. n - 1 \in S
      <3>1. Nat \subseteq S
        BY <2>3, <2>4, Numbers
      <3> QED
        BY <1>2, <3>1
    <2>6. (n - 1) + 1 = n /\ n - 1 < n
      OBVIOUS
    <2> QED
      BY <2>2, <2>5, <2>6 DEF S
  <1> QED
    BY <1>1, <1>2

\* The role after a command: an upgrade makes it when it is absent.
RoleAfter(from, to, r) == IF from < to THEN NoLoginIfAbsent(r) ELSE r

LEMMA PlansLead ==
    ASSUME NEW from \in 0..Latest, NEW to \in 0..Latest, NEW r, from # 0 => r # "absent"
    PROVE  Leads(Stage(from, r), Plans[<<from, to>>], Stage(to, RoleAfter(from, to, r)))
  <1>1. CASE from <= to
    <2>1. PICK n : n = to - from
      OBVIOUS
    <2>2. n \in Nat
      BY <1>1, <2>1 DEF Latest
    <2> DEFINE q == [i \in 1..(to - from) |->
                       Append(Upgrades[from + i], Stamp(from + i - 1, from + i))]
               g == [i \in 1..(n + 1) |->
                       Stage(from + i - 1, IF i = 1 THEN r ELSE NoLoginIfAbsent(r))]
    <2>3. ASSUME NEW i \in 1..n
          PROVE  q[i] \in Seq(AllStatements) /\ Leads(g[i], q[i], g[i + 1])
      <3>1. PICK v : v = from + i
        OBVIOUS
      <3>2. /\ v \in 1..Latest /\ v \in 0..Latest /\ v - 1 \in 0..Latest
            /\ from + i - 1 = v - 1 /\ from + (i + 1) - 1 = v /\ i + 1 # 1
            /\ i \in 1..(to - from) /\ i \in 1..(n + 1) /\ i + 1 \in 1..(n + 1)
        BY <2>1, <2>2, <3>1 DEF Latest
      <3>3. PICK w : w = IF i = 1 THEN r ELSE NoLoginIfAbsent(r)
        OBVIOUS
      <3>4. (v # 1 => w # "absent") /\ NoLoginIfAbsent(w) = NoLoginIfAbsent(r)
        BY <3>1, <3>3 DEF NoLoginIfAbsent
      <3>5. q[i] = Append(Upgrades[v], Stamp(v - 1, v))
        BY <3>1, <3>2
      <3>6. g[i] = Stage(v - 1, w) /\ g[i + 1] = Stage(v, NoLoginIfAbsent(r))
        BY <3>2, <3>3
      <3> HIDE DEF q, g
      <3>7. Leads(g[i], q[i], g[i + 1])
        BY <3>2, <3>4, <3>5, <3>6, UpgradeLeads
      <3>8. Upgrades[v] \in Seq(AllStatements) /\ Stamp(v - 1, v) \in AllStatements
        BY <3>2, RevisionsHaveStatements DEF Stamp, AllStatements
      <3> QED
        BY <3>5, <3>7, <3>8
    <2>4. q \in Seq(Seq(AllStatements)) /\ Len(q) = n
      <3>1. q \in [1..n -> Seq(AllStatements)]
        BY <2>1, <2>3
      <3> HIDE DEF q
      <3> QED
        BY <2>2, <3>1
    <2>5. g[1] = Stage(from, r)
      <3>1. 1 \in 1..(n + 1) /\ from + 1 - 1 = from
        BY <2>2
      <3> QED
        BY <3>1
    <2>6. g[n + 1] = Stage(to, RoleAfter(from, to, r))
      <3>1. n + 1 \in 1..(n + 1) /\ from + (n + 1) - 1 = to /\ (n + 1 = 1 <=> ~(from < to))
        BY <1>1, <2>1, <2>2
      <3> QED
        BY <3>1 DEF RoleAfter
    <2>7. Plans[<<from, to>>] = FlattenSeq(q)
      BY <1>1 DEF Plans, Plan
    <2> HIDE DEF q, g
    <2> QED
      BY <2>2, <2>3, <2>4, <2>5, <2>6, <2>7, FlattenLeads
  <1>2. CASE ~(from <= to)
    <2>1. PICK n : n = from - to
      OBVIOUS
    <2>2. n \in Nat
      BY <1>2, <2>1 DEF Latest
    <2>3. r # "absent" /\ RoleAfter(from, to, r) = r
      BY <1>2 DEF RoleAfter
    <2> DEFINE q == [i \in 1..(from - to) |->
                       Append(Downgrades[from - i + 1], Stamp(from - i + 1, from - i))]
               g == [i \in 1..(n + 1) |-> Stage(from - i + 1, r)]
    <2>4. ASSUME NEW i \in 1..n
          PROVE  q[i] \in Seq(AllStatements) /\ Leads(g[i], q[i], g[i + 1])
      <3>1. PICK v : v = from - i + 1
        OBVIOUS
      <3>2. /\ v \in 1..Latest /\ v \in 0..Latest /\ v - 1 \in 0..Latest
            /\ from - i = v - 1 /\ from - (i + 1) + 1 = v - 1
            /\ i \in 1..(from - to) /\ i \in 1..(n + 1) /\ i + 1 \in 1..(n + 1)
        BY <2>1, <2>2, <3>1 DEF Latest
      <3>3. q[i] = Append(Downgrades[v], Stamp(v, v - 1))
        BY <3>1, <3>2
      <3>4. g[i] = Stage(v, r) /\ g[i + 1] = Stage(v - 1, r)
        BY <3>1, <3>2
      <3> HIDE DEF q, g
      <3>5. Leads(g[i], q[i], g[i + 1])
        BY <2>3, <3>2, <3>3, <3>4, DowngradeLeads
      <3>6. Downgrades[v] \in Seq(AllStatements) /\ Stamp(v, v - 1) \in AllStatements
        BY <3>2, RevisionsHaveStatements DEF Stamp, AllStatements
      <3> QED
        BY <3>3, <3>5, <3>6
    <2>5. q \in Seq(Seq(AllStatements)) /\ Len(q) = n
      <3>1. q \in [1..n -> Seq(AllStatements)]
        BY <2>1, <2>4
      <3> HIDE DEF q
      <3> QED
        BY <2>2, <3>1
    <2>6. g[1] = Stage(from, r)
      <3>1. 1 \in 1..(n + 1) /\ from - 1 + 1 = from
        BY <2>2
      <3> QED
        BY <3>1
    <2>7. g[n + 1] = Stage(to, RoleAfter(from, to, r))
      <3>1. n + 1 \in 1..(n + 1) /\ from - (n + 1) + 1 = to
        BY <2>1, <2>2
      <3> QED
        BY <2>3, <3>1
    <2>8. Plans[<<from, to>>] = FlattenSeq(q)
      BY <1>2 DEF Plans, Plan
    <2> HIDE DEF q, g
    <2> QED
      BY <2>2, <2>4, <2>5, <2>6, <2>7, <2>8, FlattenLeads
  <1> QED
    BY <1>1, <1>2

LEMMA NothingToDo ==
    ASSUME NEW v \in 0..Latest
    PROVE  Len(Plans[<<v, v>>]) = 0
  <1>1. Plans[<<v, v>>] = Plan(v, v) /\ v - v = 0 /\ v <= v
    BY DEF Plans
  <1> DEFINE q == [i \in 1..(v - v) |-> Append(Upgrades[v + i], Stamp(v + i - 1, v + i))]
  <1>2. Plans[<<v, v>>] = FlattenSeq(q)
    BY <1>1 DEF Plan
  <1>3. q = <<>>
    BY <1>1
  <1> HIDE DEF q
  <1>4. FlattenSeq(q) = q
    BY <1>3 DEF FlattenSeq
  <1> QED
    BY <1>2, <1>3, <1>4

-----------------------------------------------------------------------------
(* Who may change the version *)

LEMMA OnlyStamps ==
    ASSUME NEW s \in Schemas, NEW x \in AllStatements
    PROVE  /\ "version" \in Touches(x) /\ Applies(s, x) => s.version = x.from
           /\ "version" \notin Touches(x) => Execute(s, x).version = s.version
  <1>1. "version" \notin Tables \cup EnumTypes
    BY DEF Tables, EnumTypes
  <1>2. CASE x.do = "stamp"
    <2>1. x.object = "version"
      BY <1>2 DEF AllStatements
    <2>2. Applies(s, x) => s.version = x.from
      BY <1>2 DEF Applies
    <2> QED
      BY <2>1, <2>2 DEF Touches
  <1>3. CASE x.do # "stamp"
    <2>1. "version" \notin Touches(x)
      <3>1. x.object # "version"
        BY <1>1, <1>3 DEF AllStatements
      <3>2. x.do = "create" => "version" \notin x.uses
        BY <1>1 DEF AllStatements
      <3> QED
        BY <3>1, <3>2 DEF Touches
    <2>2. x.do \in {"create", "create_type", "drop", "add", "drop_column", "grant", "revoke",
                    "role"}
      BY <1>3 DEF AllStatements
    <2>3. Execute(s, x).version = s.version
      BY <2>2 DEF Execute, Schemas
    <2> QED
      BY <2>1, <2>3
  <1> QED
    BY <1>2, <1>3

LEMMA VersionStands ==
    ASSUME NEW s \in Schemas, NEW statements \in Seq(AllStatements),
           NEW n \in 0..Len(statements),
           \A i \in 1..n : "version" \notin Touches(statements[i])
    PROVE  /\ Through(s, statements, n) \in Schemas
           /\ Through(s, statements, n).version = s.version
  <1> DEFINE S == {k \in Nat : k <= n => /\ Through(s, statements, k) \in Schemas
                                         /\ Through(s, statements, k).version = s.version}
  <1>1. 0 \in S
    BY ThroughNone
  <1>2. ASSUME NEW k \in Nat, k \in S
        PROVE  k + 1 \in S
    <2> SUFFICES ASSUME k + 1 <= n
                 PROVE  /\ Through(s, statements, k + 1) \in Schemas
                        /\ Through(s, statements, k + 1).version = s.version
      OBVIOUS
    <2>1. PICK t, x : t = Through(s, statements, k) /\ x = statements[k + 1]
      OBVIOUS
    <2>2. k + 1 \in 1..n /\ k + 1 \in 1..Len(statements)
      OBVIOUS
    <2>3. /\ t \in Schemas /\ t.version = s.version
          /\ x \in AllStatements /\ "version" \notin Touches(x)
      BY <1>2, <2>1, <2>2
    <2>4. Through(s, statements, k + 1) = Execute(t, x)
      BY <2>1, ThroughNext
    <2> QED
      BY <2>3, <2>4, OnlyStamps, ExecuteKeeps
  <1> HIDE DEF S
  <1>3. Nat \subseteq S
    BY <1>1, <1>2, Numbers
  <1>4. n \in Nat /\ n <= n
    OBVIOUS
  <1> QED
    BY <1>3, <1>4 DEF S

LEMMA StageIsSchema ==
    ASSUME NEW v \in 0..Latest, NEW r \in {"absent", "nologin", "login"}
    PROVE  Stage(v, r) \in Schemas /\ Stage(v, r).version = v /\ Stage(v, r).role = r
  <1>1. CASE v = 0
    BY <1>1 DEF Stage, Schema, Schemas
  <1>2. CASE v # 0
    <2>1. v \in {1, 2, 3, 4}
      BY <1>2 DEF Latest
    <2>2. ObjectsAt[v] \in SUBSET (Tables \cup EnumTypes)
      BY <2>1 DEF ObjectsAt, Tables, EnumTypes
    <2>3. ColumnsAt[v] \in SUBSET (Tables \X Columns)
      BY <2>1 DEF ColumnsAt, Tables, Columns
    <2>4. UsesAt[v] \in SUBSET (Tables \X (Tables \cup EnumTypes))
      BY <2>1 DEF UsesAt, Tables, EnumTypes
    <2>5. GrantsAt[v] \in SUBSET Granted
      BY <2>1 DEF GrantsAt, Granted, Tables, AllPrivileges
    <2> QED
      BY <1>2, <2>2, <2>3, <2>4, <2>5 DEF Stage, Schema, Schemas
  <1> QED
    BY <1>1, <1>2

\* The first UPDATE of alembic_version in a plan is that of the version it is for.
LEMMA FirstStampIsFrom ==
    ASSUME NEW from \in 0..Latest, NEW to \in 0..Latest,
           NEW n \in 0..(Len(Plans[<<from, to>>]) - 1),
           "version" \in Touches(Plans[<<from, to>>][n + 1]),
           \A i \in 1..n : "version" \notin Touches(Plans[<<from, to>>][i])
    PROVE  Plans[<<from, to>>][n + 1].from = from
  <1>1. PICK p : p = Plans[<<from, to>>]
    OBVIOUS
  <1>2. p \in Seq(AllStatements)
    BY <1>1, PlansHaveStatements
  <1>3. PICK s : s = Stage(from, "login")
    OBVIOUS
  <1>4. s \in Schemas /\ s.version = from
    BY <1>3, StageIsSchema
  <1>5. n \in 0..Len(p) /\ n + 1 \in 1..Len(p) /\ n \in 0..(Len(p) - 1)
    BY <1>1, <1>2
  <1>6. Applies(Through(s, p, n), p[n + 1])
    BY <1>1, <1>3, <1>5, PlansLead DEF Leads
  <1>7. Through(s, p, n) \in Schemas /\ Through(s, p, n).version = from
    BY <1>1, <1>2, <1>4, <1>5, VersionStands
  <1>8. p[n + 1] \in AllStatements
    BY <1>2, <1>5
  <1> QED
    BY <1>1, <1>6, <1>7, <1>8, OnlyStamps

LEMMA MovesStamp ==
    ASSUME NEW from \in 0..Latest, NEW to \in 0..Latest, from # to
    PROVE  \E i \in 1..Len(Plans[<<from, to>>]) : "version" \in Touches(Plans[<<from, to>>][i])
  <1> SUFFICES ASSUME \A i \in 1..Len(Plans[<<from, to>>]) :
                        "version" \notin Touches(Plans[<<from, to>>][i])
               PROVE  FALSE
    OBVIOUS
  <1>1. PICK p : p = Plans[<<from, to>>]
    OBVIOUS
  <1>2. p \in Seq(AllStatements) /\ Len(p) \in 0..Len(p)
    BY <1>1, PlansHaveStatements
  <1>3. Stage(from, "login") \in Schemas /\ Stage(from, "login").version = from
    BY StageIsSchema
  <1>4. Through(Stage(from, "login"), p, Len(p)).version = from
    BY <1>1, <1>2, <1>3, VersionStands
  <1>5. RoleAfter(from, to, "login") = "login"
    BY DEF RoleAfter, NoLoginIfAbsent
  <1>6. Through(Stage(from, "login"), p, Len(p)) = Stage(to, "login")
    BY <1>1, <1>5, PlansLead DEF Leads
  <1> QED
    BY <1>4, <1>6, StageIsSchema

-----------------------------------------------------------------------------
(* Commands that overlap *)

Exclusive ==
    \A c, d \in Commands :
      c # d /\ command[c].on /\ command[d].on => Locked(c) \cap Locked(d) = {}

\* Whoever has changed the version, in its own transaction, read the one that is
\* committed.
VersionIsRead ==
    \A c \in Commands :
      command[c].on /\ "version" \in Locked(c) => db.version = command[c].from

VersionInv ==
    /\ IInv
    /\ db = Stage(db.version, db.role)
    /\ db.version # 0 => db.role # "absent"
    /\ Exclusive
    /\ VersionIsRead
    /\ command[Container].on => command[Container].to = Latest

\* The locks of a command, by its record.
Taken(q) == UNION {Touches(Plans[<<q.from, q.to>>][i]) : i \in 1..q.done}

LEMMA LockedIsTaken ==
    ASSUME NEW c \in Commands
    PROVE  Locked(c) = Taken(command[c]) /\ Locked(c)' = Taken(command'[c])
  BY DEF Locked, Statements, Taken

LEMMA NothingTaken ==
    ASSUME NEW q, q.done = 0
    PROVE  Taken(q) = {}
  BY DEF Taken

\* Commands that go on are as they were, or have just begun.
LEMMA LocksKeep ==
    ASSUME Exclusive,
           \A d \in Commands : command'[d].on => \/ command'[d] = command[d]
                                                 \/ command'[d].done = 0
    PROVE  Exclusive' /\ (VersionIsRead /\ db'.version = db.version => VersionIsRead')
  <1>1. ASSUME NEW d \in Commands, command'[d].on
        PROVE  \/ Locked(d)' = {}
               \/ command[d].on /\ command'[d] = command[d] /\ Locked(d)' = Locked(d)
    BY <1>1, LockedIsTaken, NothingTaken
  <1>2. Exclusive'
    BY <1>1 DEF Exclusive
  <1>3. ASSUME VersionIsRead, db'.version = db.version
        PROVE  VersionIsRead'
    BY <1>1, <1>3 DEF VersionIsRead
  <1> QED
    BY <1>2, <1>3

LEMMA CommandOK ==
    ASSUME IInv, NEW c \in Commands
    PROVE  /\ command[c].from \in 0..Latest /\ command[c].to \in 0..Latest
           /\ Statements(c) \in Seq(AllStatements)
           /\ command[c].done \in 0..Len(Statements(c))
           /\ ~Finished(c) => command[c].done \in 0..(Len(Statements(c)) - 1)
  <1>1. /\ command[c].from \in 0..Latest /\ command[c].to \in 0..Latest
        /\ command[c].done \in Nat /\ command[c].done <= Len(Statements(c))
    BY DEF IInv, CommandsOK
  <1>2. Statements(c) \in Seq(AllStatements)
    BY <1>1, PlansHaveStatements DEF Statements
  <1>3. Len(Statements(c)) \in Nat
    BY <1>2
  <1> QED
    BY <1>1, <1>2, <1>3 DEF Finished

LEMMA RoleThere ==
    ASSUME NEW from \in 0..Latest, NEW to \in 0..Latest, NEW r, from # 0 => r # "absent",
           to # 0
    PROVE  RoleAfter(from, to, r) # "absent"
  BY DEF RoleAfter, NoLoginIfAbsent, Latest

\* A command that commits has changed the version that it read, or nothing.
LEMMA CommitLeads ==
    ASSUME VersionInv, NEW c \in Commands, command[c].on, Finished(c)
    PROVE  \/ /\ "version" \in Locked(c)
              /\ db.version = command[c].from
              /\ View(c) = Stage(command[c].to,
                                 RoleAfter(command[c].from, command[c].to, db.role))
           \/ command[c].from = command[c].to /\ View(c) = db
  <1>1. PICK from, to : from = command[c].from /\ to = command[c].to
    OBVIOUS
  <1>2. from \in 0..Latest /\ to \in 0..Latest /\ Statements(c) = Plans[<<from, to>>]
    BY <1>1, CommandOK DEF VersionInv, Statements
  <1>3. command[c].done = Len(Plans[<<from, to>>])
    BY <1>2 DEF Finished
  <1>4. CASE "version" \in Locked(c)
    <2>1. db.version = from
      BY <1>1, <1>4 DEF VersionInv, VersionIsRead
    <2>2. db = Stage(from, db.role) /\ (from # 0 => db.role # "absent")
      BY <2>1 DEF VersionInv
    <2>3. Through(db, Plans[<<from, to>>], Len(Plans[<<from, to>>]))
            = Stage(to, RoleAfter(from, to, db.role))
      BY <1>2, <2>2, PlansLead DEF Leads
    <2> QED
      BY <1>1, <1>2, <1>3, <1>4, <2>1, <2>3 DEF View
  <1>5. CASE "version" \notin Locked(c)
    <2>1. \A i \in 1..Len(Plans[<<from, to>>]) : "version" \notin Touches(Plans[<<from, to>>][i])
      BY <1>2, <1>3, <1>5 DEF Locked
    <2>2. from = to
      BY <1>2, <2>1, MovesStamp
    <2>3. command[c].done = 0
      BY <1>2, <1>3, <2>2, NothingToDo
    <2> QED
      BY <1>1, <2>2, <2>3, ThroughNone DEF View
  <1> QED
    BY <1>4, <1>5

LEMMA RunKeeps ==
    ASSUME VersionInv, NEW c \in Commands, RunStatement(c)
    PROVE  Exclusive' /\ VersionIsRead'
  <1>1. PICK q, r : q = command[c] /\ r = [q EXCEPT !.done = @ + 1]
    OBVIOUS
  <1>2. q \in [on : BOOLEAN, from : 0..Latest, to : 0..Latest, done : Nat] /\ q.on
    BY <1>1 DEF RunStatement, VersionInv, IInv, CommandsOK
  <1>3. r.on /\ r.from = q.from /\ r.to = q.to /\ r.done = q.done + 1
    BY <1>1, <1>2
  <1>4. \A d \in Commands : command'[d] = IF d = c THEN r ELSE command[d]
    BY <1>1 DEF RunStatement, VersionInv, IInv, CommandsOK
  <1>5. db' = db
    BY DEF RunStatement
  <1>6. Taken(r) = Taken(q) \cup Touches(NextOf(c))
    <2>1. PICK p : p = Plans[<<q.from, q.to>>]
      OBVIOUS
    <2>2. 1..(q.done + 1) = (1..q.done) \cup {q.done + 1}
      BY <1>2
    <2>3. NextOf(c) = p[q.done + 1]
      BY <1>1, <2>1 DEF NextOf, Statements
    <2>4. Taken(q) = UNION {Touches(p[i]) : i \in 1..q.done}
      BY <2>1 DEF Taken
    <2>5. Taken(r) = UNION {Touches(p[i]) : i \in 1..(q.done + 1)}
      BY <1>3, <2>1 DEF Taken
    <2> QED
      BY <2>2, <2>3, <2>4, <2>5
  <1>7. Locked(c)' = Locked(c) \cup Touches(NextOf(c))
    BY <1>1, <1>4, <1>6, LockedIsTaken
  <1>8. \A d \in Commands \ {c} : Locked(d)' = Locked(d) /\ command'[d] = command[d]
    BY <1>4, LockedIsTaken
  <1>9. \A d \in Commands \ {c} : command[d].on => Touches(NextOf(c)) \cap Locked(d) = {}
    BY DEF RunStatement, Waits
  <1>10. Exclusive'
    <2> SUFFICES ASSUME NEW d \in Commands, NEW e \in Commands, d # e,
                        command'[d].on, command'[e].on
                 PROVE  Locked(d)' \cap Locked(e)' = {}
      BY DEF Exclusive
    <2>1. \A x \in Commands : command'[x].on => command[x].on
      BY <1>1, <1>2, <1>4
    <2>2. Locked(d) \cap Locked(e) = {}
      BY <2>1 DEF VersionInv, Exclusive
    <2>3. CASE d = c
      BY <1>7, <1>8, <1>9, <2>1, <2>2, <2>3
    <2>4. CASE e = c
      BY <1>7, <1>8, <1>9, <2>1, <2>2, <2>4
    <2>5. CASE d # c /\ e # c
      BY <1>8, <2>2, <2>5
    <2> QED
      BY <2>3, <2>4, <2>5
  <1>11. VersionIsRead'
    <2>1. ASSUME NEW d \in Commands \ {c}, command'[d].on, "version" \in Locked(d)'
          PROVE  db'.version = command'[d].from
      BY <1>5, <1>8, <2>1 DEF VersionInv, VersionIsRead
    <2>2. ASSUME "version" \in Locked(c)'
          PROVE  db'.version = command'[c].from
      <3>1. command'[c].from = command[c].from
        BY <1>1, <1>3, <1>4
      <3>2. CASE "version" \in Locked(c)
        BY <1>1, <1>2, <1>5, <3>1, <3>2 DEF VersionInv, VersionIsRead
      <3>3. CASE "version" \notin Locked(c)
        <4>1. PICK from, to, n, p, s : /\ from = command[c].from /\ to = command[c].to
                                       /\ n = command[c].done /\ p = Statements(c) /\ s = db
          OBVIOUS
        <4>2. /\ from \in 0..Latest /\ to \in 0..Latest /\ p = Plans[<<from, to>>]
              /\ p \in Seq(AllStatements) /\ n \in 0..(Len(p) - 1) /\ n \in 0..Len(p)
              /\ s \in Schemas
          BY <4>1, CommandOK DEF RunStatement, VersionInv, IInv, Statements
        <4>3. \A i \in 1..n : "version" \notin Touches(p[i])
          BY <3>3, <4>1 DEF Locked
        <4>4. NextOf(c) = p[n + 1]
          BY <4>1 DEF NextOf
        <4>5. "version" \in Touches(p[n + 1]) /\ p[n + 1] \in AllStatements
          BY <1>7, <2>2, <3>3, <4>2, <4>4
        <4>6. p[n + 1].from = from
          BY <4>2, <4>3, <4>5, FirstStampIsFrom
        <4>7. Applies(Through(s, p, n), p[n + 1])
          BY <4>1, <4>4 DEF RunStatement, View
        <4>8. Through(s, p, n) \in Schemas /\ Through(s, p, n).version = s.version
          BY <4>2, <4>3, VersionStands
        <4>9. s.version = from
          BY <4>5, <4>6, <4>7, <4>8, OnlyStamps
        <4> QED
          BY <1>5, <3>1, <4>1, <4>9
      <3> QED
        BY <3>2, <3>3
    <2> QED
      BY <2>1, <2>2 DEF VersionIsRead
  <1> QED
    BY <1>10, <1>11

LEMMA VersionInvInit == Init => VersionInv
  <1> SUFFICES ASSUME Init PROVE VersionInv
    OBVIOUS
  <1>1. \A c \in Commands : ~command[c].on
    BY IdleOK DEF Init
  <1>2. db = Stage(db.version, db.role) /\ db.version = 0
    BY DEF Init, Empty, Stage, Schema
  <1> QED
    BY <1>1, <1>2, IInvInit, ContainerAssumption DEF VersionInv, Exclusive, VersionIsRead

LEMMA VersionInvStep == VersionInv /\ [Next]_vars => VersionInv'
  <1> SUFFICES ASSUME VersionInv, [Next]_vars PROVE VersionInv'
    OBVIOUS
  <1>1. IInv'
    BY IInvStep DEF VersionInv
  <1>2. ASSUME NEW c \in Commands, NEW then, End(c, then)
        PROVE  /\ \A d \in Commands : command'[d] = IF d = c THEN Idle ELSE command[d]
               /\ \A d \in Commands : command'[d].on => d # c /\ command'[d] = command[d]
    BY <1>2, IdleOK DEF End, VersionInv, IInv, CommandsOK
  <1>3. ASSUME \A d \in Commands : command'[d].on => \/ command'[d] = command[d]
                                                     \/ /\ command'[d].done = 0
                                                        /\ d = Container =>
                                                             command'[d].to = Latest,
               db' = db
        PROVE  VersionInv'
    <2>1. Exclusive' /\ VersionIsRead'
      BY <1>3, LocksKeep DEF VersionInv
    <2> QED
      BY <1>1, <1>3, <2>1, ContainerAssumption DEF VersionInv
  <1>4. CASE UNCHANGED vars \/ StartPostgres \/ InitScriptGrants
    BY <1>3, <1>4 DEF vars, StartPostgres, InitScriptGrants
  <1>5. CASE InitScriptRole
    <2>1. db' = [db EXCEPT !.role = "login"] /\ command' = command
      BY <1>5 DEF InitScriptRole
    <2>2. db'.version = db.version /\ db'.role = "login" /\ db.version \in 0..Latest
      BY <2>1 DEF VersionInv, IInv, Schemas
    <2>3. db' = Stage(db'.version, db'.role)
      <3>1. CASE db.version = 0
        BY <2>1, <2>2, <3>1 DEF VersionInv, Stage, Schema
      <3>2. CASE db.version # 0
        BY <2>1, <2>2, <3>2 DEF VersionInv, Stage, Schema
      <3> QED
        BY <3>1, <3>2
    <2>4. Exclusive' /\ VersionIsRead'
      BY <2>1, <2>2, LocksKeep DEF VersionInv
    <2> QED
      BY <1>1, <2>1, <2>2, <2>3, <2>4 DEF VersionInv
  <1>6. CASE StopPostgres
    <2>1. \A c \in Commands : ~command'[c].on
      BY <1>6, IdleOK DEF StopPostgres
    <2> QED
      BY <1>3, <1>6, <2>1 DEF StopPostgres
  <1>7. CASE StopBackend
    BY <1>2, <1>3, <1>7, ContainerAssumption DEF StopBackend
  <1>8. CASE StartBackend
    <2>1. PICK r : r = [on |-> TRUE, from |-> db.version, to |-> Latest, done |-> 0]
      OBVIOUS
    <2>2. r.done = 0 /\ r.to = Latest
      BY <2>1
    <2>3. \A d \in Commands : command'[d] = IF d = Container THEN r ELSE command[d]
      BY <1>8, <2>1 DEF StartBackend, VersionInv, IInv, CommandsOK
    <2> QED
      BY <1>3, <1>8, <2>2, <2>3 DEF StartBackend
  <1>9. ASSUME NEW c \in Commands, NEW to \in 0..Latest, Operate(c, to)
        PROVE  VersionInv'
    <2>1. PICK r : r = [on |-> TRUE, from |-> db.version, to |-> to, done |-> 0]
      OBVIOUS
    <2>2. r.done = 0
      BY <2>1
    <2>3. \A d \in Commands : command'[d] = IF d = c THEN r ELSE command[d]
      BY <1>9, <2>1 DEF Operate, VersionInv, IInv, CommandsOK
    <2> QED
      BY <1>3, <1>9, <2>2, <2>3 DEF Operate
  <1>10. ASSUME NEW c \in Commands, RunStatement(c)
         PROVE  VersionInv'
    <2>1. command'[Container].on => command'[Container].to = Latest
      <3>1. /\ command'[Container].on = command[Container].on
            /\ command'[Container].to = command[Container].to
        BY <1>10, ContainerAssumption DEF RunStatement, VersionInv, IInv, CommandsOK
      <3> QED
        BY <3>1 DEF VersionInv
    <2> QED
      BY <1>1, <1>10, <2>1, RunKeeps DEF VersionInv, RunStatement
  <1>11. ASSUME NEW c \in Commands, FailStatement(c) \/ Abort(c)
         PROVE  VersionInv'
    BY <1>2, <1>3, <1>11 DEF FailStatement, Abort
  <1>12. ASSUME NEW c \in Commands, Commit(c)
         PROVE  VersionInv'
    <2>1. db' = View(c) /\ End(c, "serving") /\ command[c].on /\ Finished(c)
      BY <1>12 DEF Commit
    <2>2. \A d \in Commands : command'[d].on => d # c /\ command'[d] = command[d]
      BY <1>2, <2>1
    <2>3. CASE View(c) = db
      BY <1>3, <2>1, <2>2, <2>3
    <2>4. CASE View(c) # db
      <3>1. PICK from, to, r : /\ from = command[c].from /\ to = command[c].to
                               /\ r = RoleAfter(from, to, db.role)
        OBVIOUS
      <3>2. "version" \in Locked(c) /\ db.version = from /\ db' = Stage(to, r)
        BY <2>1, <2>4, <3>1, CommitLeads
      <3>3. /\ from \in 0..Latest /\ to \in 0..Latest
            /\ db.role \in {"absent", "nologin", "login"}
            /\ (from # 0 => db.role # "absent")
        BY <3>1, <3>2, CommandOK DEF VersionInv, IInv, Schemas
      <3>4. r \in {"absent", "nologin", "login"} /\ (to # 0 => r # "absent")
        BY <3>1, <3>3, RoleThere DEF RoleAfter, NoLoginIfAbsent
      <3>5. db'.version = to /\ db'.role = r
        BY <3>2, <3>3, <3>4, StageIsSchema
      <3>6. Exclusive'
        BY <2>2, LocksKeep DEF VersionInv
      <3>7. VersionIsRead'
        <4>1. ASSUME NEW d \in Commands, command'[d].on
              PROVE  "version" \notin Locked(d)'
          <5>1. d # c /\ command'[d] = command[d] /\ command[d].on
            BY <2>2, <4>1
          <5>2. Locked(d)' = Locked(d)
            BY <5>1, LockedIsTaken
          <5>3. Locked(c) \cap Locked(d) = {}
            BY <2>1, <5>1 DEF VersionInv, Exclusive
          <5> QED
            BY <3>2, <5>2, <5>3
        <4> QED
          BY <4>1 DEF VersionIsRead
      <3>8. command'[Container].on => command'[Container].to = Latest
        BY <2>2, ContainerAssumption DEF VersionInv
      <3> QED
        BY <1>1, <3>2, <3>4, <3>5, <3>6, <3>7, <3>8 DEF VersionInv
    <2> QED
      BY <2>3, <2>4
  <1> QED
    BY <1>4, <1>5, <1>6, <1>7, <1>8, <1>9, <1>10, <1>11, <1>12 DEF Next

\* Of alembic processes that overlap, any number of them, at most one has changed
\* the version, and it is one that read the version that is committed: so the
\* schema stays one of the five that the revisions make.
THEOREM VersionInvariant == Spec => []VersionInv
  BY VersionInvInit, VersionInvStep, PTL DEF Spec

\* alembic/versions: each statement of each command, in either direction and
\* however many revisions it takes, is one the database can execute, unless
\* another command has committed since it read the version.
THEOREM StatementsApply == Spec => []EveryStatementApplies
  <1>1. VersionInv => EveryStatementApplies
    <2> SUFFICES ASSUME VersionInv, NEW c \in Commands, ~Finished(c),
                        db.version = command[c].from
                 PROVE  Applies(View(c), NextOf(c))
      BY DEF EveryStatementApplies
    <2>1. PICK from, to, n : /\ from = command[c].from /\ to = command[c].to
                             /\ n = command[c].done
      OBVIOUS
    <2>2. /\ from \in 0..Latest /\ to \in 0..Latest
          /\ Statements(c) = Plans[<<from, to>>]
          /\ n \in 0..(Len(Plans[<<from, to>>]) - 1)
      BY <2>1, CommandOK DEF VersionInv, Statements
    <2>3. db = Stage(from, db.role) /\ (from # 0 => db.role # "absent")
      BY <2>1 DEF VersionInv
    <2>4. Leads(db, Plans[<<from, to>>], Stage(to, RoleAfter(from, to, db.role)))
      BY <2>2, <2>3, PlansLead
    <2>5. Applies(Through(db, Plans[<<from, to>>], n), Plans[<<from, to>>][n + 1])
      BY <2>2, <2>4 DEF Leads
    <2> QED
      BY <2>1, <2>2, <2>5 DEF View, NextOf
  <1> QED
    BY <1>1, VersionInvariant, PTL

\* alembic/versions: whatever ran, failed, was cut off or overlapped, up or down,
\* the schema is the one that a fresh database has when it is upgraded to the same
\* version.
THEOREM SchemaFollowsVersion == Spec => []SchemaIsItsVersion
  <1>1. VersionInv => SchemaIsItsVersion
    <2> SUFFICES ASSUME VersionInv PROVE SchemaIsItsVersion
      OBVIOUS
    <2>1. PICK v, r : v = db.version /\ r = db.role
      OBVIOUS
    <2>2. v \in 0..Latest /\ 0 \in 0..Latest /\ db = Stage(v, r)
      BY <2>1 DEF VersionInv, IInv, Schemas, Latest
    <2>3. Empty = Stage(0, "absent")
      BY DEF Empty, Stage, Schema
    <2>4. PICK w : w = RoleAfter(0, v, "absent")
      OBVIOUS
    <2>5. Leads(Empty, Plans[<<0, v>>], Stage(v, w))
      BY <2>2, <2>3, <2>4, PlansLead
    <2>6. SchemaAt[v] = Stage(v, w)
      BY <2>2, <2>5 DEF SchemaAt, Leads
    <2>7. [Stage(v, w) EXCEPT !.role = r] = Stage(v, r)
      <3>1. CASE v = 0
        BY <3>1 DEF Stage, Schema
      <3>2. CASE v # 0
        BY <3>2 DEF Stage, Schema
      <3> QED
        BY <3>1, <3>2
    <2> QED
      BY <2>1, <2>2, <2>6, <2>7 DEF SchemaIsItsVersion
  <1> QED
    BY <1>1, VersionInvariant, PTL

LEMMA LatestIsComplete ==
    ASSUME NEW r, r # "absent"
    PROVE  Complete(Stage(Latest, r))
  <1>1. Stage(Latest, r) = Schema(4, Tables \cup EnumTypes, ColumnsAt[4], UsesAt[4], Granted, r)
    BY DEF Stage, Latest, ObjectsAt, GrantsAt
  <1>2. ColumnsAt[4] = {<<"users", "must_change_password">>, <<"employee", "personal_info">>,
                        <<"employee", "flags">>}
    BY DEF ColumnsAt
  <1>3. Tables \X {"SELECT", "INSERT"} \subseteq Granted
    BY DEF Granted, AllPrivileges
  <1>4. {"users", "employee"} \X {"UPDATE"} \subseteq Granted
    BY DEF Granted, AllPrivileges, Tables
  <1> QED
    BY <1>1, <1>2, <1>3, <1>4 DEF Complete, Schema

\* docker-compose.yml:33-35: uvicorn starts on a schema that has all it needs, but
\* for an operator who went down after the container's command had found the
\* latest version, and with a role that can log in, but for a first start of the
\* database that was cut off before init-db.sh made it.
THEOREM BackendFindsItsSchema == Spec => ServesCompleteSchema
  <1>1. ASSUME VersionInv, [Next]_vars, backend' = "serving", backend # "serving"
        PROVE  Commit(Container)
    <2>1. ASSUME NEW c \in Commands, NEW then, End(c, then)
          PROVE  c = Container /\ then = "serving"
      BY <1>1, <2>1 DEF End, BackendGoesOn
    <2>2. /\ ~UNCHANGED vars /\ ~StartPostgres /\ ~InitScriptRole /\ ~InitScriptGrants
          /\ ~StopPostgres /\ ~StartBackend
      BY <1>1 DEF vars, StartPostgres, InitScriptRole, InitScriptGrants, StopPostgres, StartBackend
    <2>3. ~StopBackend
      BY <2>1, ContainerAssumption DEF StopBackend
    <2>4. ASSUME NEW c \in Commands
          PROVE  /\ \A to \in 0..Latest : ~Operate(c, to)
                 /\ ~RunStatement(c) /\ ~FailStatement(c) /\ ~Abort(c)
                 /\ Commit(c) => c = Container
      BY <1>1, <2>1 DEF Operate, RunStatement, FailStatement, Abort, Commit
    <2> QED
      BY <1>1, <2>2, <2>3, <2>4 DEF Next
  <1>2. ASSUME VersionInv, [Next]_vars, backend' = "serving", backend # "serving",
               ~(command[Container].from = Latest /\ db.version # Latest)
        PROVE  Complete(db')
    <2>1. Commit(Container)
      BY <1>1, <1>2
    <2>2. /\ command[Container].on /\ Finished(Container) /\ db' = View(Container)
          /\ command[Container].to = Latest
      BY <1>2, <2>1 DEF Commit, VersionInv
    <2>3. CASE /\ db.version = command[Container].from
               /\ View(Container) = Stage(Latest, RoleAfter(command[Container].from, Latest,
                                                            db.role))
      <3>1. PICK from : from = command[Container].from
        OBVIOUS
      <3>2. /\ from \in 0..Latest /\ Latest \in 0..Latest /\ Latest # 0
            /\ (from # 0 => db.role # "absent")
        BY <1>2, <2>3, <3>1, CommandOK, ContainerAssumption DEF VersionInv, Latest
      <3>3. RoleAfter(from, Latest, db.role) # "absent"
        BY <3>2, RoleThere
      <3> QED
        BY <2>2, <2>3, <3>1, <3>3, LatestIsComplete
    <2>4. CASE command[Container].from = Latest /\ View(Container) = db
      <3>1. db.version = Latest /\ db = Stage(Latest, db.role) /\ db.role # "absent"
        BY <1>2, <2>4 DEF VersionInv, Latest
      <3> QED
        BY <2>2, <2>4, <3>1, LatestIsComplete
    <2> QED
      BY <1>2, <2>2, <2>3, <2>4, CommitLeads, ContainerAssumption
  <1>3. ASSUME VersionInv, [Next]_vars, backend' = "serving", backend # "serving"
        PROVE  db'.role = "login" \/ volume' = "cut"
    <2>1. Commit(Container)
      BY <1>1, <1>3
    <2>2. volume' = volume /\ volume # "fresh"
      BY <1>3, <2>1, ContainerAssumption DEF Commit, VersionInv, IInv
    <2>3. RoleCanLogIn' /\ volume' \in {"fresh", "cut", "half", "scripted"}
      BY <1>3, IInvStep DEF VersionInv, IInv
    <2> QED
      BY <2>2, <2>3 DEF RoleCanLogIn
  <1>4. VersionInv /\ [Next]_vars =>
          (backend' = "serving" /\ backend # "serving" =>
             /\ \/ Complete(db')
                \/ command[Container].from = Latest /\ db.version # Latest
             /\ db'.role = "login" \/ volume' = "cut")
    BY <1>2, <1>3
  <1> QED
    BY <1>4, VersionInvariant, PTL DEF Spec, ServesCompleteSchema

=============================================================================
