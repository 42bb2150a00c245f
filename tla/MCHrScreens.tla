----------------------------- MODULE MCHrScreens -----------------------------
(* The instance of one tab that TLC checks. *)
EXTENDS HrScreens, TLC

=============================================================================
