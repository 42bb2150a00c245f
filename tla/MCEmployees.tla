----------------------------- MODULE MCEmployees -----------------------------
(***************************************************************************)
(* Small instances of Employees for TLC.                                   *)
(***************************************************************************)
EXTENDS Employees, TLC

Symmetry == Permutations(Requests) \cup Permutations(Employees)
              \cup Permutations(Statuses) \cup Permutations(Positions)
=============================================================================
