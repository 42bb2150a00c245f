------------------------------ MODULE MCSetup ------------------------------
(* Instances of the first-run wizard that TLC checks. *)
EXTENDS Setup, TLC

CONSTANTS u1, u2, e1, e2, e3

\* Two people with nothing in common, and one who shares a username with the
\* first and an email with nobody.
People == {[username |-> u1, email |-> e1], [username |-> u2, email |-> e2],
           [username |-> u1, email |-> e3]}

Symmetry == Permutations(Requests) \cup Permutations(Tokens)

=============================================================================
