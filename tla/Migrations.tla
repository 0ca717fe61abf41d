----------------------------- MODULE Migrations -----------------------------
(***************************************************************************)
(* The schema migration: alembic/env.py and its one revision, run by hand  *)
(* ("alembic upgrade head", "alembic downgrade -1") against MySQL, perhaps *)
(* twice at the same time, and perhaps killed half-way.                    *)
(*                                                                         *)
(* MySQL's DDL is not transactional: each statement of upgrade() or        *)
(* downgrade() takes effect at once, and begin_transaction() in env.py     *)
(* covers only the last step, the row of alembic_version.                  *)
(***************************************************************************)
EXTENDS Naturals, Sequences

CONSTANT Runs    \* commands that operators give

VARIABLES
  schema,    \* database: the tables and indexes there are
  version,   \* database: the row of alembic_version, base if there is none
  command,   \* what each run is to do
  run,       \* how far each run is
  step       \* how many statements it has executed

db == <<schema, version>>
vars == <<schema, version, command, run, step>>

Objects == {"users", "ix_users_email", "jobs", "ix_jobs_user_id"}

Create(o) == [op |-> "create", object |-> o]
Drop(o) == [op |-> "drop", object |-> o]

\* upgrade() and downgrade() of revision 89cc93b7e46d.
Statements ==
  [upgrade |-> <<Create("users"), Create("ix_users_email"),
                 Create("jobs"), Create("ix_jobs_user_id")>>,
   downgrade |-> <<Drop("ix_jobs_user_id"), Drop("jobs"),
                   Drop("ix_users_email"), Drop("users")>>]

\* The version a command starts from, and the one it ends at.
From == [upgrade |-> "base", downgrade |-> "head"]

\* Fault: the row names the revision by its message.
ToMessage == [upgrade |-> "initial", downgrade |-> "base"]

To == [upgrade |-> "head", downgrade |-> "base"]

Init ==
  /\ schema = {} /\ version = "base"
  /\ command \in [Runs -> {"upgrade", "downgrade"}]
  /\ run = [r \in Runs |-> "idle"] /\ step = [r \in Runs |-> 0]

-----------------------------------------------------------------------------
\* The run reads alembic_version and plans.  An upgrade at the head has
\* nothing to do; at the base there is no step to go down, an error.
Start(r) ==
  /\ run[r] = "idle"
  /\ run' = [run EXCEPT ![r] =
       IF version = From[command[r]] THEN "working"
       ELSE IF command[r] = "upgrade" THEN "done" ELSE "failed"]
  /\ UNCHANGED <<db, command, step>>

\* MySQL: what exists cannot be created, an index or a foreign key needs its
\* table, and neither a table that a foreign key refers to nor the only index
\* under a foreign key can be dropped.
Accepts(s) ==
  LET o == s.object IN
  IF s.op = "create"
  THEN /\ o \notin schema
       /\ o \in {"ix_users_email", "jobs"} => "users" \in schema
       /\ o = "ix_jobs_user_id" => "jobs" \in schema
  ELSE /\ o \in schema
       /\ o \in {"users", "ix_jobs_user_id"} => "jobs" \notin schema

\* Dropping a table drops its indexes.
After(s) ==
  IF s.op = "create" THEN schema \cup {s.object}
  ELSE schema \ (CASE s.object = "users" -> {"users", "ix_users_email"}
                   [] s.object = "jobs" -> {"jobs", "ix_jobs_user_id"}
                   [] OTHER -> {s.object})

Statement(r) == Statements[command[r]][step[r] + 1]

Apply(r) ==
  /\ schema' = After(Statement(r))
  /\ step' = [step EXCEPT ![r] = @ + 1]
  /\ UNCHANGED run

Stop(r) ==
  /\ run' = [run EXCEPT ![r] = "failed"]
  /\ UNCHANGED <<schema, step>>

\* Fault: errors are ignored, as with IF NOT EXISTS and IF EXISTS.
ExecuteAnyway(r) ==
  /\ run[r] = "working" /\ step[r] < 4
  /\ Apply(r)
  /\ UNCHANGED <<version, command>>

\* One statement; an error ends the run, whatever it has done so far.
Execute(r) ==
  /\ run[r] = "working" /\ step[r] < 4
  /\ IF Accepts(Statement(r)) THEN Apply(r) ELSE Stop(r)
  /\ UNCHANGED <<version, command>>

StampAt(r, n) ==
  /\ run[r] = "working" /\ step[r] = n
  /\ version' = To[command[r]]
  /\ run' = [run EXCEPT ![r] = "done"]
  /\ UNCHANGED <<schema, command, step>>

\* Fault: the row is written with statements left.
StampEarly(r) == \E n \in 0..4 : StampAt(r, n)

\* The row of alembic_version is written and committed, after the statements.
Stamp(r) == StampAt(r, 4)

\* The process or its connection dies; MySQL keeps what was executed.
Die(r) ==
  /\ run[r] = "working"
  /\ Stop(r)
  /\ UNCHANGED <<version, command>>

Next == \E r \in Runs : Start(r) \/ Execute(r) \/ Stamp(r) \/ Die(r)

Spec == Init /\ [][Next]_vars

-----------------------------------------------------------------------------
TypeOK ==
  /\ schema \subseteq Objects /\ version \in {"base", "head"}
  /\ command \in [Runs -> {"upgrade", "downgrade"}]
  /\ run \in [Runs -> {"idle", "working", "done", "failed"}]
  /\ step \in [Runs -> 0..4]

\* alembic_version never promises a table or an index that is not there,
\* although its row and the statements are not one transaction.
VersionTruthful == version = "head" => schema = Objects

\* Whatever is started twice, only one run ever changes the schema: the
\* others fail at their first statement, before they have done harm.
OneMigrates == \A r, q \in Runs : step[r] > 0 /\ step[q] > 0 => r = q

\* The price: what a run that died half-way leaves behind, no later upgrade
\* completes and no downgrade takes away.  It has to be repaired by hand.
HalfMigratedStays ==
  [][\A r \in Runs : run[r] = "failed" /\ step[r] > 0 => UNCHANGED db]_vars

\* At the head nothing ever changes again: downgrade() is written to take it
\* back and never does, alone or against any number of other commands.
HeadIsFinal == [][version = "head" => UNCHANGED db]_vars
=============================================================================
