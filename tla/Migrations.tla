----------------------------- MODULE Migrations -----------------------------
(***************************************************************************)
(* `alembic upgrade` and `alembic downgrade` (alembic/env.py, `make        *)
(* migrate`) on a database that the API processes are using.               *)
(*                                                                         *)
(* A migrator reads the revision, then runs the scripts up or down to its  *)
(* target in ONE transaction: env.py opens it around run_migrations and    *)
(* PostgreSQL's DDL is transactional.  After each script Alembic moves the *)
(* row of alembic_version, by an UPDATE that must find the old revision.   *)
(* An API call is a transaction of its own that uses one table after the   *)
(* other and keeps its locks to the end; a migrator's locks exclude        *)
(* everybody else, those of calls only exclude migrators.                  *)
(*                                                                         *)
(* A statement sees the committed schema, changed by its own transaction.  *)
(* Nothing but the locks and that UPDATE keeps two commands apart.         *)
(***************************************************************************)
EXTENDS Schema, Integers

CONSTANTS
  Up, Down,           \* the upgrade and downgrade script of each revision
  Schemas,            \* the schemas a database of each revision can have
  Targets,            \* the revisions operators migrate to
  Migrators,          \* migration commands that may run at the same time
  Calls,              \* API calls
  Plan                \* the statements of each call

Newest == Len(Up)

Lockable == Names \cup {VersionTable}

Tx == Migrators \cup Calls

\* A script leads from each schema of its revision to one of the next.
LeadsTo(script, from, to) ==
  \A S \in from :
    LET passed == Through(script, S) IN
    /\ passed[0] = S
    /\ \A i \in 1..Len(script) : passed[i] = After(script[i], passed[i - 1])
    /\ passed[Len(script)] \in to

ASSUME HistoryAssumption ==
  /\ Up \in Seq(Seq(Statements)) /\ Down \in Seq(Seq(Statements))
  /\ Len(Down) = Len(Up)
  /\ Schemas \in [0..Newest -> SUBSET SUBSET Objects]
  /\ \A r \in 1..Newest : /\ LeadsTo(Up[r], Schemas[r - 1], Schemas[r])
                        /\ LeadsTo(Down[r], Schemas[r], Schemas[r - 1])

\* Python builds the statement before it is sent, and pgvector is no longer a
\* dependency of the project.
Buildable(s) == ~s.needsPgvector

\* The first script cannot be built, so no database leaves revision 0 any more.
ASSUME BaseAssumption ==
  Newest > 0 => \E i \in 1..Len(Up[1]) : ~Buildable(Up[1][i])

ASSUME UseAssumption ==
  /\ Migrators \cap Calls = {} /\ Targets \subseteq 0..Newest
  /\ Plan \in [Calls -> Seq(CallStatements)]

VARIABLES
  schema,    \* committed
  revision,  \* alembic_version, committed
  running,   \* transactions in progress
  locks,     \* the tables each of them has locked
  step,      \* the statements each has done: of its script, or of its plan
  target,    \* where each migrator is going,
  at,        \* ... the revision it has reached,
  gone,      \* ... the objects it has dropped
  made       \* ... and those it has created

vars == <<schema, revision, running, locks, step, target, at, gone, made>>

Upgrading(m) == target[m] > at[m]

Script(m) == IF Upgrading(m) THEN Up[at[m] + 1] ELSE Down[at[m]]

Towards(m) == IF Upgrading(m) THEN at[m] + 1 ELSE at[m] - 1

\* The schema as a migrator's own statements see it.
Seen(m) == (schema \ gone[m]) \cup made[m]

\* x waits for y, which holds one of the tables x needs.
WaitsFor(x, tables, y) ==
  /\ y # x /\ {x, y} \cap Migrators # {}
  /\ tables \cap locks[y] # {}

Free(x, tables) == \A y \in Tx : ~WaitsFor(x, tables, y)

\* Locks are kept until the transaction ends.
Lock(x, tables) == Free(x, tables) /\ locks' = [locks EXCEPT ![x] = @ \cup tables]

MutantEnd(x) ==
  /\ running' = running \ {x} /\ step' = [step EXCEPT ![x] = 0]
  /\ UNCHANGED <<locks, target, at, gone, made>>

\* A command's process is gone afterwards; a call's session too.
End(x) ==
  /\ running' = running \ {x}
  /\ locks' = [locks EXCEPT ![x] = {}]
  /\ step' = [step EXCEPT ![x] = 0]
  /\ target' = [m \in Migrators |-> IF m = x THEN 0 ELSE target[m]]
  /\ at' = [m \in Migrators |-> IF m = x THEN 0 ELSE at[m]]
  /\ gone' = [m \in Migrators |-> IF m = x THEN {} ELSE gone[m]]
  /\ made' = [m \in Migrators |-> IF m = x THEN {} ELSE made[m]]

Rollback(x) == End(x) /\ UNCHANGED <<schema, revision>>

Start(x) == x \notin running /\ running' = running \cup {x}

-----------------------------------------------------------------------------
(* A migration command *)

StartMigration(m) ==
  /\ m \in Migrators /\ Start(m)
  /\ \E t \in Targets \ {revision} : target' = [target EXCEPT ![m] = t]
  /\ at' = [at EXCEPT ![m] = revision]
  /\ UNCHANGED <<schema, revision, locks, step, gone, made>>

Moving(m) == m \in running \cap Migrators /\ at[m] # target[m]

InScript(m) == Moving(m) /\ step[m] < Len(Script(m))

NextStatement(m) == Script(m)[step[m] + 1]

Needs(m) == Locked(NextStatement(m), Seen(m))

\* The catalog is read once the locks are there.
MutantRunStatement(m) ==
  /\ InScript(m)
  /\ Buildable(NextStatement(m)) /\ Possible(NextStatement(m), Seen(m))
  /\ Lock(m, Needs(m))
  /\ schema' = After(NextStatement(m), schema)
  /\ step' = [step EXCEPT ![m] = @ + 1]
  /\ UNCHANGED <<revision, running, target, at, gone, made>>

RunStatement(m) ==
  /\ InScript(m)
  /\ Buildable(NextStatement(m)) /\ Possible(NextStatement(m), Seen(m))
  /\ Lock(m, Needs(m))
  /\ gone' = [gone EXCEPT ![m] = @ \cup Dropped(NextStatement(m), Seen(m))]
  /\ made' = [made EXCEPT ![m] = (@ \ Dropped(NextStatement(m), Seen(m)))
                                    \cup Created(NextStatement(m))]
  /\ step' = [step EXCEPT ![m] = @ + 1]
  /\ UNCHANGED <<schema, revision, running, target, at>>

\* The script raises, and with it everything since the command's start is
\* rolled back.
ScriptRaises(m) ==
  /\ InScript(m)
  /\ Buildable(NextStatement(m)) =>
       Free(m, Needs(m)) /\ ~Possible(NextStatement(m), Seen(m))
  /\ Rollback(m)

OwnsVersion(m) == VersionTable \in locks[m]

\* Another command has moved the revision this one started from.
Overtaken(m) == ~OwnsVersion(m) /\ at[m] # revision

MutantVersionFound(m) == TRUE
VersionFound(m) == ~Overtaken(m)

ScriptDone(m) == Moving(m) /\ step[m] = Len(Script(m))

\* UPDATE alembic_version SET version_num = new WHERE version_num = old, or the
\* DELETE of that row.  From revision 0 it would be an INSERT, which locks no
\* row that another command looks for: BaseAssumption says it never comes to it.
MoveVersion(m) ==
  /\ ScriptDone(m) /\ at[m] # 0
  /\ Lock(m, {VersionTable})
  /\ VersionFound(m)
  /\ at' = [at EXCEPT ![m] = Towards(m)]
  /\ step' = [step EXCEPT ![m] = 0]
  /\ UNCHANGED <<schema, revision, running, target, gone, made>>

\* The UPDATE matches no row, and Alembic raises.
VersionMissed(m) ==
  /\ ScriptDone(m)
  /\ Free(m, {VersionTable})
  /\ ~VersionFound(m)
  /\ Rollback(m)

CommitMigration(m) ==
  /\ m \in running \cap Migrators /\ at[m] = target[m]
  /\ schema' = Seen(m)
  /\ revision' = at[m]
  /\ End(m)

-----------------------------------------------------------------------------
(* An API call *)

StartCall(c) ==
  /\ c \in Calls /\ Start(c)
  /\ UNCHANGED <<schema, revision, locks, step, target, at, gone, made>>

InPlan(c) == c \in running \cap Calls /\ step[c] < Len(Plan[c])

Use(c) == Plan[c][step[c] + 1]

\* The lock is taken first: what a migrator leaves is what a call sees.
MutantRunUse(c) ==
  /\ InPlan(c)
  /\ Free(c, {Use(c).table})
  /\ Serves(schema, Use(c).table, Use(c).names)
  /\ step' = [step EXCEPT ![c] = @ + 1]
  /\ UNCHANGED <<schema, revision, running, locks, target, at, gone, made>>

RunUse(c) ==
  /\ InPlan(c)
  /\ Lock(c, {Use(c).table})
  /\ Serves(schema, Use(c).table, Use(c).names)
  /\ step' = [step EXCEPT ![c] = @ + 1]
  /\ UNCHANGED <<schema, revision, running, target, at, gone, made>>

\* No such table or column: get_db rolls back and the client gets a 500.
UseRaises(c) ==
  /\ InPlan(c)
  /\ Free(c, {Use(c).table})
  /\ ~Serves(schema, Use(c).table, Use(c).names)
  /\ Rollback(c)

CommitCall(c) ==
  /\ c \in running \cap Calls /\ step[c] = Len(Plan[c])
  /\ End(c)
  /\ UNCHANGED <<schema, revision>>

-----------------------------------------------------------------------------
(* Failures *)

\* A crash, a lost connection, or for a call an error of its own.
Abort(x) == x \in running /\ Rollback(x)

\* The tables the next statement of a transaction needs.
Wanted(x) ==
  CASE InPlan(x)     -> {Use(x).table}
    [] InScript(x)   -> Needs(x)
    [] ScriptDone(x) -> {VersionTable}
    [] OTHER         -> {}

\* PostgreSQL ends one of the transactions that wait for each other.
BreakDeadlock(x) ==
  /\ x \in running
  /\ \E K \in SUBSET running :
       /\ x \in K
       /\ \A a \in K : \E b \in K : WaitsFor(a, Wanted(a), b)
  /\ Rollback(x)

Progress(x) ==
  \/ RunStatement(x) \/ ScriptRaises(x) \/ MoveVersion(x) \/ VersionMissed(x)
  \/ CommitMigration(x)
  \/ RunUse(x) \/ UseRaises(x) \/ CommitCall(x)
  \/ BreakDeadlock(x)

Next ==
  \E x \in Tx : StartMigration(x) \/ StartCall(x) \/ Progress(x) \/ Abort(x)

Init ==
  /\ revision \in 0..Newest /\ schema \in Schemas[revision]
  /\ running = {}
  /\ locks = [x \in Tx |-> {}] /\ step = [x \in Tx |-> 0]
  /\ target = [m \in Migrators |-> 0] /\ at = [m \in Migrators |-> 0]
  /\ gone = [m \in Migrators |-> {}] /\ made = [m \in Migrators |-> {}]

\* Locks are granted in the order they were asked for, so whoever waits for a
\* table that is free again and again gets it: strong fairness.
Fairness == \A x \in Tx : SF_vars(Progress(x))

Spec == Init /\ [][Next]_vars /\ Fairness

-----------------------------------------------------------------------------
(* Properties *)

\* Type correctness; a transaction that has ended holds no lock.
TypeOK ==
  /\ revision \in 0..Newest /\ schema \subseteq Objects
  /\ running \subseteq Tx /\ locks \in [Tx -> SUBSET Lockable]
  /\ step \in [Tx -> Nat]
  /\ target \in [Migrators -> 0..Newest] /\ at \in [Migrators -> 0..Newest]
  /\ gone \in [Migrators -> SUBSET Objects] /\ made \in [Migrators -> SUBSET Objects]
  /\ \A x \in Tx \ running : locks[x] = {}

\* The database is always one of its revision's: whatever was upgraded, taken
\* back, aborted or overtaken, no half of a script and no mixture of two
\* commands is ever left in it.
SchemaOfRevision == schema \in Schemas[revision]

\* On every way up and down the history PostgreSQL carries out every statement
\* of every script: only what Python cannot build, another command, a
\* deadlock or a crash stops a migration.
ScriptsApply ==
  [][\A m \in Migrators :
       ScriptRaises(m) => ~Buildable(NextStatement(m)) \/ Overtaken(m)]_vars

\* The tables an API call has used in its transaction stay as the call found
\* them until it ends, whatever is migrated meanwhile.
TablesStay ==
  \A c \in running \cap Calls : \A i \in 1..step[c] :
    Serves(schema, Plan[c][i].table, Plan[c][i].names)

\* At the newest revision no call fails on a missing table or column, or on
\* one it does not fill: the ORM classes and the scripts agree.
NewestServesCode ==
  [][\A c \in Calls : UseRaises(c) => revision # Newest]_vars

\* A migration and the calls it waits for, and that wait for it, all end.
EveryTransactionEnds == \A x \in Tx : x \in running ~> x \notin running

\* README.md:67-70: a new checkout is set up with `uv sync`, `docker compose
\* up -d` and `make migrate`.  No script stops `make migrate`.
MigrateSucceeds == [][\A m \in Migrators : ~ScriptRaises(m)]_vars
=============================================================================
