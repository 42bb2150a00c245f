----------------------------- MODULE SumTheorems -----------------------------
(***************************************************************************)
(* Sums over finite sets that are defined by recursion on the set: the     *)
(* definition has at most one solution, and the sum of the sizes of the    *)
(* groups of a classification is the number of what is classified.         *)
(*                                                                         *)
(* The induction goes by a minimal counterexample (WFMin), which needs no   *)
(* predicate as a parameter.                                               *)
(***************************************************************************)
EXTENDS Integers, FiniteSets, Functions, FiniteSetTheorems, WellFoundedInduction, TLAPS

\* f sums F over each subset of S, taking one element after the other.
Sums(f, F, S) ==
    f = [s \in SUBSET S |->
           IF s = {} THEN 0
           ELSE F[CHOOSE x \in s : TRUE] + f[s \ {CHOOSE x \in s : TRUE}]]

LEMMA SumsUnique ==
    ASSUME NEW S, IsFiniteSet(S), NEW F, NEW f, NEW g, Sums(f, F, S), Sums(g, F, S)
    PROVE  f = g
  <1> DEFINE Differ == {s \in SUBSET S : f[s] # g[s]}
  <1>1. ASSUME Differ # {}
        PROVE  FALSE
    <2>1. IsWellFoundedOn(StrictSubsetOrdering(S), SUBSET S)
      BY FS_StrictSubsetOrderingWellFounded, FS_FiniteSubsetsOfFinite
    <2>2. PICK s \in Differ : \A t \in Differ : <<t, s>> \notin StrictSubsetOrdering(S)
      BY <1>1, <2>1, WFMin
    <2>3. s # {}
      BY DEF Sums
    <2> DEFINE x == CHOOSE x \in s : TRUE
    <2>4. x \in s
      BY <2>3
    <2>5. s \ {x} \in SUBSET S /\ <<s \ {x}, s>> \in StrictSubsetOrdering(S)
      BY <2>4 DEF StrictSubsetOrdering
    <2>6. f[s \ {x}] = g[s \ {x}]
      BY <2>2, <2>5
    <2>7. f[s] = F[x] + f[s \ {x}] /\ g[s] = F[x] + g[s \ {x}]
      BY <2>3 DEF Sums
    <2> QED
      BY <2>6, <2>7
  <1> QED
    BY <1>1 DEF Sums

\* A sum by the operator of module Functions is one that is defined so.
LEMMA SumsAreSum ==
    ASSUME NEW S, IsFiniteSet(S), NEW F, DOMAIN F = S, NEW f, Sums(f, F, S)
    PROVE  SumFunction(F) = f[S]
  <1>1. SumFunction(F) = (CHOOSE g : Sums(g, F, S))[S]
    BY DEF SumFunction, SumFunctionOnSet, FoldFunctionOnSet, MapThenFoldSet, Sums
  <1>2. Sums(CHOOSE g : Sums(g, F, S), F, S)
    OBVIOUS
  <1> QED
    BY <1>1, <1>2, SumsUnique

\* The sum of zeros.
LEMMA SumsOfZeros ==
    ASSUME NEW S, NEW F, \A x \in S : F[x] = 0
    PROVE  Sums([s \in SUBSET S |-> 0], F, S)
  <1>1. \A s \in SUBSET S : s # {} =>
          (CHOOSE x \in s : TRUE) \in S /\ s \ {CHOOSE x \in s : TRUE} \in SUBSET S
    OBVIOUS
  <1> QED
    BY <1>1 DEF Sums

\* One more in one place makes a sum one larger.
LEMMA SumsAfterIncrement ==
    ASSUME NEW S, NEW F \in [S -> Nat], NEW f \in [SUBSET S -> Nat], Sums(f, F, S),
           NEW y \in S
    PROVE  Sums([s \in SUBSET S |-> IF y \in s THEN f[s] + 1 ELSE f[s]],
                [F EXCEPT ![y] = @ + 1], S)
  <1> DEFINE g == [s \in SUBSET S |-> IF y \in s THEN f[s] + 1 ELSE f[s]]
             G == [F EXCEPT ![y] = @ + 1]
  <1>1. ASSUME NEW s \in SUBSET S, s # {}
        PROVE  g[s] = G[CHOOSE x \in s : TRUE] + g[s \ {CHOOSE x \in s : TRUE}]
    <2> DEFINE x == CHOOSE x \in s : TRUE
    <2>1. x \in s /\ x \in S /\ s \ {x} \in SUBSET S
      BY <1>1
    <2>2. f[s] = F[x] + f[s \ {x}]
      BY <1>1 DEF Sums
    <2>3. F[x] \in Nat /\ f[s \ {x}] \in Nat
      BY <2>1
    <2>4. G[x] = IF x = y THEN F[x] + 1 ELSE F[x]
      BY <2>1
    <2>5. /\ g[s] = IF y \in s THEN f[s] + 1 ELSE f[s]
          /\ g[s \ {x}] = IF y \in s \ {x} THEN f[s \ {x}] + 1 ELSE f[s \ {x}]
      BY <2>1
    <2> HIDE DEF x, g, G
    <2>6. g[s] = G[x] + g[s \ {x}]
      BY <2>1, <2>2, <2>3, <2>4, <2>5
    <2> QED
      BY <2>6 DEF x
  <1>2. g[{}] = 0 /\ g = [s \in SUBSET S |-> g[s]]
    BY DEF Sums
  <1> HIDE DEF g, G
  <1>3. Sums(g, G, S)
    BY <1>1, <1>2 DEF Sums
  <1> QED
    BY <1>3 DEF g, G

\* at[e] is the group of e.
Group(at, E, p) == {e \in E : at[e] = p}

GroupsIn(at, E, s) == {e \in E : at[e] \in s}

LEMMA GroupSum ==
    ASSUME NEW E, IsFiniteSet(E), NEW at, NEW S, IsFiniteSet(S)
    PROVE  SumFunction([p \in S |-> Cardinality(Group(at, E, p))])
             = Cardinality(GroupsIn(at, E, S))
  <1> DEFINE F == [p \in S |-> Cardinality(Group(at, E, p))]
             g == [s \in SUBSET S |-> Cardinality(GroupsIn(at, E, s))]
  <1>1. Sums(g, F, S)
    <2>1. GroupsIn(at, E, {}) = {}
      BY DEF GroupsIn
    <2>2. ASSUME NEW s \in SUBSET S, s # {}, NEW x \in s
          PROVE  Cardinality(GroupsIn(at, E, s))
                   = Cardinality(Group(at, E, x)) + Cardinality(GroupsIn(at, E, s \ {x}))
      <3>1. /\ GroupsIn(at, E, s) = Group(at, E, x) \cup GroupsIn(at, E, s \ {x})
            /\ Group(at, E, x) \cap GroupsIn(at, E, s \ {x}) = {}
            /\ Group(at, E, x) \in SUBSET E /\ GroupsIn(at, E, s \ {x}) \in SUBSET E
        BY <2>2 DEF GroupsIn, Group
      <3>2. IsFiniteSet(Group(at, E, x)) /\ IsFiniteSet(GroupsIn(at, E, s \ {x}))
        BY <3>1, FS_Subset
      <3>3. /\ Cardinality(Group(at, E, x)) \in Nat
            /\ Cardinality(GroupsIn(at, E, s \ {x})) \in Nat
        BY <3>2, FS_CardinalityType
      <3>4. Cardinality(Group(at, E, x) \cap GroupsIn(at, E, s \ {x})) = 0
        BY <3>1, FS_EmptySet
      <3>5. Cardinality(Group(at, E, x) \cup GroupsIn(at, E, s \ {x}))
              = Cardinality(Group(at, E, x)) + Cardinality(GroupsIn(at, E, s \ {x}))
                  - Cardinality(Group(at, E, x) \cap GroupsIn(at, E, s \ {x}))
        BY <3>2, FS_Union
      <3>6. Cardinality(GroupsIn(at, E, s))
              = Cardinality(Group(at, E, x) \cup GroupsIn(at, E, s \ {x}))
        BY <3>1, Zenon
      <3> HIDE DEF F, g
      <3> QED
        BY <3>3, <3>4, <3>5, <3>6
    <2>3. ASSUME NEW s \in SUBSET S, s # {}
          PROVE  g[s] = F[CHOOSE x \in s : TRUE] + g[s \ {CHOOSE x \in s : TRUE}]
      <3> DEFINE x == CHOOSE x \in s : TRUE
      <3>1. x \in s
        BY <2>3
      <3>2. s \ {x} \in SUBSET S /\ x \in S
        BY <3>1
      <3> QED
        BY <2>2, <2>3, <3>1, <3>2
    <2>4. g[{}] = 0
      BY <2>1, FS_EmptySet
    <2>5. g = [s \in SUBSET S |-> g[s]]
      OBVIOUS
    <2> HIDE DEF F, g
    <2> QED
      BY <2>3, <2>4, <2>5 DEF Sums
  <1>2. DOMAIN F = S /\ g[S] = Cardinality(GroupsIn(at, E, S))
    OBVIOUS
  <1> QED
    BY <1>1, <1>2, SumsAreSum

=============================================================================
