--------------------------- MODULE PersonnelFile ---------------------------
(***************************************************************************)
(* What the employment history promises, whatever the calls do that write  *)
(* it: a file per employee and one log, changed together and at once, the   *)
(* log only ever growing, so that a file says what the last entries of its *)
(* employee say.                                                           *)
(***************************************************************************)
EXTENDS Sequences, Naturals

CONSTANTS Employees, Statuses, Positions, NoFile

VARIABLES
    file,  \* employee -> [status, position], or NoFile
    log    \* entries [employee, kind, new], in the order they were made

vars == <<file, log>>

Files == [status : Statuses, position : Positions]

Init == file = [e \in Employees |-> NoFile] /\ log = <<>>

Entry(e, kind, new) == [employee |-> e, kind |-> kind, new |-> new]

Hire(e, s, p) ==
    /\ file[e] = NoFile
    /\ file' = [file EXCEPT ![e] = [status |-> s, position |-> p]]
    /\ log' = Append(log, Entry(e, "hire", s))

\* One entry for a position, one for a status, both or neither: what is entered
\* is what the file says afterwards, and the rest of the file stays.
Amend(e) ==
    /\ file[e] # NoFile
    /\ \/ UNCHANGED vars
       \/ \E p \in Positions :
            /\ file' = [file EXCEPT ![e].position = p]
            /\ log' = Append(log, Entry(e, "transfer", p))
       \/ \E s \in Statuses :
            /\ file' = [file EXCEPT ![e].status = s]
            /\ log' = Append(log, Entry(e, "status_change", s))
       \/ \E p \in Positions, s \in Statuses :
            /\ file' = [file EXCEPT ![e] = [status |-> s, position |-> p]]
            /\ log' = Append(Append(log, Entry(e, "transfer", p)),
                             Entry(e, "status_change", s))

Next ==
    \E e \in Employees :
      \/ \E s \in Statuses, p \in Positions : Hire(e, s, p)
      \/ Amend(e)

Spec == Init /\ [][Next]_vars

=============================================================================
