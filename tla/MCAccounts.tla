----------------------------- MODULE MCAccounts -----------------------------
(* Instances of the account endpoints that TLC checks. *)
EXTENDS Accounts, TLC

Symmetry == Permutations(Requests) \cup Permutations(ResetTokens)

=============================================================================
