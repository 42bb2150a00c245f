----------------------------- MODULE Migrations -----------------------------
(***************************************************************************)
(* The database the program is deployed on: docker-compose.yml and         *)
(* docker/init-db.sh, alembic/env.py and the four revisions under          *)
(* alembic/versions, run by the backend's container each time it starts    *)
(* and by operators, up or down.                                           *)
(*                                                                         *)
(* One alembic command is one transaction: its statements take effect      *)
(* together at COMMIT, each waits for the objects that another uncommitted *)
(* command has touched, and the first that fails undoes all.               *)
(***************************************************************************)
EXTENDS Integers, Sequences, SequencesExt

CONSTANTS
    Commands,    \* alembic processes that may run at the same time
    Container    \* the one that the backend's container starts with

ASSUME ContainerAssumption == Container \in Commands

VARIABLES
    db,        \* the committed schema
    command,   \* process -> what alembic was asked and how far it is
    postgres,  \* "down", "init" (only local connections) or "up"
    volume,    \* the data: "fresh", "cut" (made, init-db.sh not run on it), "half"
               \* (cut off between its statements) or "scripted"
    backend    \* "down", "migrating" or "serving"

vars == <<db, command, postgres, volume, backend>>

-----------------------------------------------------------------------------
(* Statements *)

AllPrivileges == {"SELECT", "INSERT", "UPDATE", "DELETE"}

CreateTable(t, uses) == [do |-> "create", object |-> t, uses |-> uses]
CreateType(t) == [do |-> "create_type", object |-> t]
Drop(o) == [do |-> "drop", object |-> o]
AddColumn(t, c, filled) == [do |-> "add", object |-> t, column |-> c, filled |-> filled]
DropColumn(t, c) == [do |-> "drop_column", object |-> t, column |-> c]
Grant(t, privileges) == [do |-> "grant", object |-> t, privileges |-> privileges]
Revoke(t, privileges) == [do |-> "revoke", object |-> t, privileges |-> privileges]
CreateRole == [do |-> "role", object |-> "role"]

\* UPDATE alembic_version, which from base is an INSERT and to base a DELETE.
Stamp(v, w) == [do |-> "stamp", object |-> "version", from |-> v, to |-> w]

\* What a statement needs; any table may hold rows, so a new column must be
\* nullable or have a default to fill them.
Applies(s, x) ==
    CASE x.do = "create" -> x.object \notin s.objects /\ x.uses \subseteq s.objects \cup {x.object}
      [] x.do \in {"create_type", "role"} -> TRUE
      [] x.do = "drop" -> /\ x.object \in s.objects
                          /\ \A use \in s.uses : use[2] = x.object => use[1] = x.object
      [] x.do = "add" -> /\ x.object \in s.objects /\ x.filled
                         /\ <<x.object, x.column>> \notin s.columns
      [] x.do = "drop_column" -> <<x.object, x.column>> \in s.columns
      [] x.do \in {"grant", "revoke"} -> x.object \in s.objects /\ s.role # "absent"
      [] x.do = "stamp" -> s.version = x.from

\* Mutant: the role is made anew, without LOGIN.
NoLoginAnew(role) == "nologin"
NoLoginIfAbsent(role) == IF role = "absent" THEN "nologin" ELSE role

\* What it does.  CREATE TYPE is with checkfirst, CREATE ROLE within IF NOT EXISTS.
Execute(s, x) ==
    CASE x.do = "create" -> [s EXCEPT !.objects = @ \cup {x.object},
                                      !.uses = @ \cup ({x.object} \X x.uses)]
      [] x.do = "create_type" -> [s EXCEPT !.objects = @ \cup {x.object}]
      [] x.do = "drop" -> [s EXCEPT !.objects = @ \ {x.object},
                                    !.uses = {use \in @ : use[1] # x.object},
                                    !.columns = {c \in @ : c[1] # x.object},
                                    !.grants = {g \in @ : g[1] # x.object}]
      [] x.do = "add" -> [s EXCEPT !.columns = @ \cup {<<x.object, x.column>>}]
      [] x.do = "drop_column" -> [s EXCEPT !.columns = @ \ {<<x.object, x.column>>}]
      [] x.do = "grant" -> [s EXCEPT !.grants = @ \cup ({x.object} \X x.privileges)]
      [] x.do = "revoke" -> [s EXCEPT !.grants = @ \ ({x.object} \X x.privileges)]
      [] x.do = "role" -> [s EXCEPT !.role = NoLoginIfAbsent(@)]
      [] x.do = "stamp" -> [s EXCEPT !.version = x.to]

\* The objects it locks, or waits for: a foreign key reaches the other table.
Touches(x) == {x.object} \cup (IF x.do = "create" THEN x.uses ELSE {})

-----------------------------------------------------------------------------
(* Revisions *)

\* Mutant: GRANT ALL, which is TRUNCATE too.
Upgrade1GrantsTruncate ==
    << CreateType("user_role"), CreateTable("users", {"user_role"}),
       CreateTable("audit_log", {}), CreateRole,
       Grant("users", AllPrivileges \cup {"TRUNCATE"}),
       Grant("audit_log", {"SELECT", "INSERT"}), Revoke("audit_log", {"UPDATE", "DELETE"}) >>

Upgrade1 ==
    << CreateType("user_role"), CreateTable("users", {"user_role"}),
       CreateTable("audit_log", {}), CreateRole, Grant("users", AllPrivileges),
       Grant("audit_log", {"SELECT", "INSERT"}), Revoke("audit_log", {"UPDATE", "DELETE"}) >>

Downgrade1 ==
    << Revoke("audit_log", AllPrivileges), Revoke("users", AllPrivileges),
       Drop("audit_log"), Drop("users"), Drop("user_role") >>

Upgrade2 == << AddColumn("users", "must_change_password", TRUE) >>
Downgrade2 == << DropColumn("users", "must_change_password") >>

\* Mutant: the grants are for every table there is.
Upgrade3GrantsAll ==
    << CreateTable("department", {}), CreateTable("position", {"department", "position"}),
       CreateType("employment_status"),
       CreateTable("employee", {"position", "employment_status"}),
       CreateType("employment_change_type"),
       CreateTable("employment_history", {"employee", "employment_change_type"}),
       Grant("department", AllPrivileges), Grant("position", AllPrivileges),
       Grant("employee", AllPrivileges), Grant("employment_history", AllPrivileges),
       Grant("audit_log", AllPrivileges) >>

Upgrade3 ==
    << CreateTable("department", {}), CreateTable("position", {"department", "position"}),
       CreateType("employment_status"),
       CreateTable("employee", {"position", "employment_status"}),
       CreateType("employment_change_type"),
       CreateTable("employment_history", {"employee", "employment_change_type"}),
       Grant("department", AllPrivileges), Grant("position", AllPrivileges),
       Grant("employee", AllPrivileges), Grant("employment_history", AllPrivileges) >>

\* Mutants: a type goes before the table that uses it; a type is forgotten.
Downgrade3TypeFirst ==
    << Drop("employment_history"), Drop("employment_change_type"), Drop("employment_status"),
       Drop("employee"), Drop("position"), Drop("department") >>
Downgrade3KeepsType ==
    << Drop("employment_history"), Drop("employee"), Drop("employment_status"),
       Drop("position"), Drop("department") >>

Downgrade3 ==
    << Revoke("employment_history", AllPrivileges), Revoke("employee", AllPrivileges),
       Revoke("position", AllPrivileges), Revoke("department", AllPrivileges),
       Drop("employment_history"), Drop("employment_change_type"), Drop("employee"),
       Drop("employment_status"), Drop("position"), Drop("department") >>

\* Eighteen nullable columns, and two flags that are not.
Upgrade4 == << AddColumn("employee", "personal_info", TRUE), AddColumn("employee", "flags", TRUE) >>
Downgrade4 == << DropColumn("employee", "flags"), DropColumn("employee", "personal_info") >>

Latest == 4
Upgrades == << Upgrade1, Upgrade2, Upgrade3, Upgrade4 >>
Downgrades == << Downgrade1, Downgrade2, Downgrade3, Downgrade4 >>

\* All of a command's statements, each revision followed by its UPDATE of
\* alembic_version.
Plan(from, to) ==
    IF from <= to
    THEN FlattenSeq([i \in 1..(to - from) |->
                       Append(Upgrades[from + i], Stamp(from + i - 1, from + i))])
    ELSE FlattenSeq([i \in 1..(from - to) |->
                       Append(Downgrades[from - i + 1], Stamp(from - i + 1, from - i))])

Plans == [p \in (0..Latest) \X (0..Latest) |-> Plan(p[1], p[2])]

Through(s, statements, n) ==
    LET after[i \in 0..n] == IF i = 0 THEN s ELSE Execute(after[i - 1], statements[i])
    IN  after[n]

Empty == [version |-> 0, objects |-> {}, columns |-> {}, uses |-> {}, grants |-> {},
          role |-> "absent"]

SchemaAt == [v \in 0..Latest |-> Through(Empty, Plans[<<0, v>>], Len(Plans[<<0, v>>]))]

-----------------------------------------------------------------------------
Idle == [on |-> FALSE, from |-> 0, to |-> 0, done |-> 0]

Init ==
    /\ db = Empty
    /\ command = [c \in Commands |-> Idle]
    /\ postgres = "down"
    /\ volume = "fresh"
    /\ backend = "down"

Statements(c) == Plans[<<command[c].from, command[c].to>>]
Finished(c) == command[c].done = Len(Statements(c))
NextOf(c) == Statements(c)[command[c].done + 1]

\* The schema as a command's own transaction sees it.
View(c) == Through(db, Statements(c), command[c].done)

Locked(c) == UNION {Touches(Statements(c)[i]) : i \in 1..command[c].done}

Waits(c) == \E d \in Commands \ {c} :
              command[d].on /\ Touches(NextOf(c)) \cap Locked(d) # {}

\* A command ends: that of the container takes the container with it, or lets
\* uvicorn start.
BackendStartsAnyway(c, then) == backend' = IF c = Container THEN "serving" ELSE backend  \* mutant
BackendGoesOn(c, then) == backend' = IF c = Container THEN then ELSE backend

End(c, then) ==
    /\ command' = [command EXCEPT ![c] = Idle]
    /\ BackendGoesOn(c, then)

-----------------------------------------------------------------------------
\* The image creates the data, then runs init-db.sh on a server that listens
\* locally only.  Data that is there already is used as it is: what the script has
\* not done by then, because the server stopped or a variable it needs is not set,
\* is not done any more.
StartPostgres ==
    /\ postgres = "down"
    /\ IF volume = "fresh" THEN postgres' = "init" /\ volume' = "cut"
                           ELSE postgres' = "up" /\ UNCHANGED volume
    /\ UNCHANGED <<db, command, backend>>

\* psql commits each statement of the script: first the block that makes the role ...
InitScriptRole ==
    /\ postgres = "init" /\ volume = "cut"
    /\ db' = [db EXCEPT !.role = "login"]
    /\ volume' = "half"
    /\ UNCHANGED <<command, postgres, backend>>

\* ... then two GRANTs, of what PostgreSQL lets every role do anyhow, and the image
\* starts the server that others can reach.
InitScriptGrants ==
    /\ postgres = "init" /\ volume = "half"
    /\ volume' = "scripted"
    /\ postgres' = "up"
    /\ UNCHANGED <<db, command, backend>>

\* Every open transaction is rolled back.  The serving process reconnects.
StopPostgres ==
    /\ postgres # "down"
    /\ postgres' = "down"
    /\ command' = [c \in Commands |-> Idle]
    /\ backend' = IF backend = "migrating" THEN "down" ELSE backend
    /\ UNCHANGED <<db, volume>>

\* service_healthy is pg_isready inside the container, which the local server
\* of the initialisation answers too: a backend started then cannot connect and
\* stays down.
StartBackend ==
    /\ backend = "down"
    /\ postgres = "up"
    /\ command' = [command EXCEPT ![Container] =
                     [on |-> TRUE, from |-> db.version, to |-> Latest, done |-> 0]]
    /\ backend' = "migrating"
    /\ UNCHANGED <<db, postgres, volume>>

StopBackend ==
    /\ backend # "down"
    /\ End(Container, "down")
    /\ UNCHANGED <<db, postgres, volume>>

\* An operator's "alembic upgrade" or "alembic downgrade".
Operate(c, to) ==
    /\ c # Container
    /\ postgres = "up"
    /\ ~command[c].on
    /\ command' = [command EXCEPT ![c] =
                     [on |-> TRUE, from |-> db.version, to |-> to, done |-> 0]]
    /\ UNCHANGED <<db, postgres, volume, backend>>

RunStatement(c) ==
    /\ command[c].on /\ ~Finished(c) /\ ~Waits(c)
    /\ Applies(View(c), NextOf(c))
    /\ command' = [command EXCEPT ![c].done = @ + 1]
    /\ UNCHANGED <<db, postgres, volume, backend>>

FailStatement(c) ==
    /\ command[c].on /\ ~Finished(c) /\ ~Waits(c)
    /\ ~Applies(View(c), NextOf(c))
    /\ End(c, "down")
    /\ UNCHANGED <<db, postgres, volume>>

Commit(c) ==
    /\ command[c].on /\ Finished(c)
    /\ db' = View(c)
    /\ End(c, "serving")
    /\ UNCHANGED <<postgres, volume>>

\* Killed, cut off or chosen as the victim of a deadlock.
Abort(c) ==
    /\ command[c].on
    /\ End(c, "down")
    /\ UNCHANGED <<db, postgres, volume>>

Next ==
    \/ StartPostgres \/ InitScriptRole \/ InitScriptGrants \/ StopPostgres
    \/ StartBackend \/ StopBackend
    \/ \E c \in Commands :
         \/ \E to \in 0..Latest : Operate(c, to)
         \/ RunStatement(c) \/ FailStatement(c) \/ Commit(c) \/ Abort(c)

Spec == Init /\ [][Next]_vars

-----------------------------------------------------------------------------
(* Properties *)

Tables == {"users", "audit_log", "department", "position", "employee", "employment_history"}
EnumTypes == {"user_role", "employment_status", "employment_change_type"}

\* Every variable has its type.
TypeOK ==
    /\ db.version \in 0..Latest
    /\ db.objects \subseteq Tables \cup EnumTypes
    /\ db.uses \subseteq Tables \X (Tables \cup EnumTypes)
    /\ db.columns \subseteq Tables \X {"must_change_password", "personal_info", "flags"}
    /\ db.grants \subseteq Tables \X AllPrivileges
    /\ db.role \in {"absent", "nologin", "login"}
    /\ \A c \in Commands :
         /\ command[c].from \in 0..Latest /\ command[c].to \in 0..Latest
         /\ command[c].done \in 0..Len(Statements(c))
    /\ (backend = "migrating") = command[Container].on
    /\ \A c \in Commands : command[c].on => postgres = "up"

\* alembic/versions: from whatever version, in either direction, a command's next
\* statement is one the database can execute, unless another command committed
\* since it read the version.
EveryStatementApplies ==
    \A c \in Commands :
      command[c].on /\ ~Finished(c) /\ ~Waits(c) /\ db.version = command[c].from
        => Applies(View(c), NextOf(c))

\* alembic/versions: the schema is a function of its version.  A downgrade undoes
\* its upgrade, nothing is left of a command that failed, and of two commands
\* that overlap at most one takes effect.
SchemaIsItsVersion == db = [SchemaAt[db.version] EXCEPT !.role = db.role]

\* 0001:93-96, "even a bug or a compromised app credential cannot rewrite
\* history": no revision, up or down, lets the program's role change or delete
\* a row of the audit log.
AuditLogIsAppendOnly ==
    \A privilege \in {"UPDATE", "DELETE"} :
      /\ <<"audit_log", privilege>> \notin db.grants
      /\ \A c \in Commands : <<"audit_log", privilege>> \notin View(c).grants

\* 0001:75-89: the role that init-db.sh made for the program keeps its LOGIN,
\* whatever is migrated, and when the script did not come to it, it never has one.
RoleCanLogIn == (volume \in {"half", "scripted"}) = (db.role = "login")

\* docker-compose.yml:33-35: uvicorn starts on a schema with all that the models
\* of app/*/models.py name and the statements of the services need, unless an
\* operator went down after the container found nothing to do.  The role that it
\* connects as can log in, unless the first start of the database was cut off before
\* init-db.sh came to make it: no later start does.
Complete(s) ==
    /\ Tables \cup EnumTypes \subseteq s.objects
    /\ {<<"users", "must_change_password">>, <<"employee", "personal_info">>,
        <<"employee", "flags">>} \subseteq s.columns
    /\ Tables \X {"SELECT", "INSERT"} \subseteq s.grants
    /\ {"users", "employee"} \X {"UPDATE"} \subseteq s.grants
    /\ s.role # "absent"

ServesCompleteSchema ==
    [][backend' = "serving" /\ backend # "serving" =>
         /\ \/ Complete(db')
            \/ command[Container].from = Latest /\ db.version # Latest
         /\ db'.role = "login" \/ volume' = "cut"]_vars

=============================================================================
