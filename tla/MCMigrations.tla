---------------------------- MODULE MCMigrations ----------------------------
(* The instance of the deployment that TLC checks. *)
EXTENDS Migrations

=============================================================================
