-------------------------------- MODULE MCOrg --------------------------------
(***************************************************************************)
(* Small instances of Org for TLC.                                         *)
(***************************************************************************)
EXTENDS Org, TLC

Symmetry == Permutations(Requests) \cup Permutations(Departments)
              \cup Permutations(Names) \cup Permutations(Positions)
              \cup Permutations(Employees)
=============================================================================
