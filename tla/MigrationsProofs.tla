-------------------------- MODULE MigrationsProofs --------------------------
(***************************************************************************)
(* Proofs about Migrations, for every history of scripts and any number of *)
(* commands and calls.                                                     *)
(***************************************************************************)
EXTENDS Migrations, TLAPS

Part(S, t) == {o \in S : o.table = t}

SameParts(S, T, tables) == \A t \in tables : Part(S, t) = Part(T, t)

\* A schema with the changes of m.
Changed(S, m) == (S \ gone[m]) \cup made[m]

\* Locks exclude, and whoever changed a part of the schema holds its lock.
Exclusive ==
  /\ \A m \in Migrators, x \in Tx : x # m => locks[m] \cap locks[x] = {}
  /\ \A m \in Migrators : \A o \in gone[m] \cup made[m] : o.table \in locks[m]

\* A transaction that is not in progress has done nothing.
Idle ==
  /\ \A x \in Tx \ running : step[x] = 0
  /\ \A m \in Migrators \ running : gone[m] = {} /\ made[m] = {}

\* Only an owner of the version row has reached its target.
InBounds(m) == IF at[m] = target[m] THEN OwnsVersion(m) ELSE step[m] <= Len(Script(m))

\* A command that does not own the version row yet would have done the same to
\* any schema of its revision that has the parts it has locked.
Early(m) ==
  ~OwnsVersion(m) =>
    \A S \in Schemas[at[m]] :
      SameParts(S, schema, locks[m]) => Changed(S, m) = Through(Script(m), S)[step[m]]

\* An owner has done its script so far to some schema of its revision.
Late(m) ==
  OwnsVersion(m) =>
    IF at[m] = target[m] THEN Seen(m) \in Schemas[at[m]]
    ELSE \E S \in Schemas[at[m]] : Seen(m) = Through(Script(m), S)[step[m]]

Placed(m) == InBounds(m) /\ Early(m) /\ Late(m)

Serial ==
  /\ Exclusive /\ Idle /\ SchemaOfRevision
  /\ \A m \in running \cap Migrators : Placed(m)

\* A call holds the locks of the tables it has used.
UsedLocked ==
  \A c \in running \cap Calls :
    /\ step[c] <= Len(Plan[c])
    /\ \A i \in 1..step[c] : Plan[c][i].table \in locks[c]

-----------------------------------------------------------------------------
(* Statements *)

LEMMA StatementEffects ==
  ASSUME NEW s \in Statements, NEW S \in SUBSET Objects
  PROVE  /\ Dropped(s, S) \subseteq Objects /\ Created(s) \subseteq Objects
         /\ \A o \in Dropped(s, S) \cup Created(s) : o.table = s.table
         /\ Locked(s, S) \subseteq Names
         /\ s.table \in Locked(s, S)
<1>1. /\ s.objects \subseteq Objects /\ s.table \in Names
      /\ \A o \in s.objects : o.table = s.table
  BY DEF Statements
<1>2. /\ Dropped(s, S) \subseteq Objects
      /\ \A o \in Dropped(s, S) : o.table = s.table
  <2>1. CASE s.op = "drop_table"
    BY <2>1 DEF Dropped
  <2>2. CASE s.op \in {"drop", "drop_if_present"}
    BY <1>1, <2>2 DEF Dropped
  <2>3. CASE s.op \notin {"drop_table", "drop", "drop_if_present"}
    BY <2>3 DEF Dropped
  <2> QED BY <2>1, <2>2, <2>3
<1>3. /\ Created(s) \subseteq Objects
      /\ \A o \in Created(s) : o.table = s.table
  BY <1>1 DEF Created
<1>4. \A o \in Objects : o.name \in Names
  BY DEF Objects
<1>5. Locked(s, S) \subseteq Names
  BY <1>1, <1>2, <1>3, <1>4 DEF Locked
<1> QED BY <1>2, <1>3, <1>5 DEF Locked

\* What a statement drops depends on its own part of the schema only.
LEMMA DroppedLocal ==
  ASSUME NEW s, NEW S, NEW T, Part(S, s.table) = Part(T, s.table)
  PROVE  Dropped(s, S) = Dropped(s, T)
<1>1. CASE s.op = "drop_table"
  BY <1>1 DEF Dropped, Part
<1>2. CASE s.op \in {"drop", "drop_if_present"}
  BY <1>2 DEF Dropped
<1>3. CASE s.op \notin {"drop_table", "drop", "drop_if_present"}
  BY <1>3 DEF Dropped
<1> QED BY <1>1, <1>2, <1>3

\* So do the statements of a call.
LEMMA ServesLocal ==
  ASSUME NEW S, NEW T, NEW t, NEW names, Part(S, t) = Part(T, t), Serves(S, t, names)
  PROVE  Serves(T, t, names)
<1>1. \A o : o.table = t => (o \in S <=> o \in T)
  BY DEF Part
<1>2. \A c, k : Object(k, t, c).table = t
  BY DEF Object
<1>3. \A c \in names : \E k \in ColumnKinds : Object(k, t, c) \in T
  BY <1>1, <1>2 DEF Serves
<1>4. \A o \in T : o.kind = "required" /\ o.table = t => o.name \in names
  BY <1>1 DEF Serves
<1> QED BY <1>3, <1>4 DEF Serves

LEMMA ScriptFrom ==
  ASSUME NEW a \in 0..Newest, NEW t \in 0..Newest, a # t,
         NEW script, script = IF t > a THEN Up[a + 1] ELSE Down[a],
         NEW b, b = IF t > a THEN a + 1 ELSE a - 1
  PROVE  /\ script \in Seq(Statements)
         /\ b \in 0..Newest
         /\ LeadsTo(script, Schemas[a], Schemas[b])
<1>1. Newest \in Nat /\ Len(Up) = Newest /\ Len(Down) = Newest
  BY HistoryAssumption DEF Newest
<1>2. CASE t > a
  <2>1. a + 1 \in 1..Newest /\ script = Up[a + 1] /\ b = a + 1 /\ (a + 1) - 1 = a
    BY <1>1, <1>2
  <2>2. Up[a + 1] \in Seq(Statements)
    BY <1>1, <2>1, HistoryAssumption
  <2>3. LeadsTo(Up[a + 1], Schemas[(a + 1) - 1], Schemas[a + 1])
    BY <2>1, HistoryAssumption
  <2> QED BY <1>1, <2>1, <2>2, <2>3
<1>3. CASE ~(t > a)
  <2>1. a \in 1..Newest /\ script = Down[a] /\ b = a - 1
    BY <1>1, <1>3
  <2>2. Down[a] \in Seq(Statements)
    BY <1>1, <2>1, HistoryAssumption
  <2>3. LeadsTo(Down[a], Schemas[a], Schemas[a - 1])
    BY <2>1, HistoryAssumption
  <2> QED BY <1>1, <2>1, <2>2, <2>3
<1> QED BY <1>2, <1>3

LEMMA ScriptLeads ==
  ASSUME TypeOK, NEW m \in Migrators, at[m] # target[m]
  PROVE  /\ Script(m) \in Seq(Statements)
         /\ Towards(m) \in 0..Newest
         /\ LeadsTo(Script(m), Schemas[at[m]], Schemas[Towards(m)])
<1>1. at[m] \in 0..Newest /\ target[m] \in 0..Newest
  BY DEF TypeOK
<1>2. /\ Script(m) = IF target[m] > at[m] THEN Up[at[m] + 1] ELSE Down[at[m]]
      /\ Towards(m) = IF target[m] > at[m] THEN at[m] + 1 ELSE at[m] - 1
  BY DEF Script, Towards, Upgrading
<1> QED BY <1>1, <1>2, ScriptFrom

LEMMA NextScriptLeads ==
  ASSUME TypeOK', NEW m \in Migrators, at'[m] # target'[m]
  PROVE  /\ Script(m)' \in Seq(Statements)
         /\ \A S \in Schemas[at'[m]] : Through(Script(m)', S)[0] = S
<1>1. at'[m] \in 0..Newest /\ target'[m] \in 0..Newest
  BY DEF TypeOK, Newest
<1>2. Script(m)' = IF target'[m] > at'[m] THEN Up[at'[m] + 1] ELSE Down[at'[m]]
  BY DEF Script, Upgrading
<1>3. PICK b : b = IF target'[m] > at'[m] THEN at'[m] + 1 ELSE at'[m] - 1
  OBVIOUS
<1>4. Script(m)' \in Seq(Statements) /\ LeadsTo(Script(m)', Schemas[at'[m]], Schemas[b])
  BY <1>1, <1>2, <1>3, ScriptFrom
<1> QED BY <1>4 DEF LeadsTo

-----------------------------------------------------------------------------
(* Types *)

\* What RunStatement's locals are.
LEMMA NextStatementType ==
  ASSUME TypeOK, NEW m, InScript(m)
  PROVE  /\ m \in Migrators /\ m \in running /\ m \in Tx
         /\ step[m] \in Nat /\ step[m] + 1 \in 1..Len(Script(m))
         /\ NextStatement(m) \in Statements
         /\ Seen(m) \in SUBSET Objects
<1>1. /\ m \in Migrators /\ m \in running /\ m \in Tx /\ at[m] # target[m]
      /\ step[m] \in Nat /\ step[m] < Len(Script(m))
  BY DEF InScript, Moving, TypeOK, Tx
<1>2. Script(m) \in Seq(Statements)
  BY <1>1, ScriptLeads
<1>3. step[m] + 1 \in 1..Len(Script(m))
  BY <1>1, <1>2
<1>4. NextStatement(m) \in Statements
  BY <1>2, <1>3 DEF NextStatement
<1>5. Seen(m) \in SUBSET Objects
  BY <1>1 DEF Seen, TypeOK
<1> QED BY <1>1, <1>3, <1>4, <1>5

LEMMA EndType ==
  ASSUME TypeOK, NEW x \in Tx, End(x), schema' \subseteq Objects, revision' \in 0..Newest
  PROVE  TypeOK'
<1>1. 0 \in 0..Newest
  BY HistoryAssumption DEF Newest
<1>2. /\ running' \subseteq Tx /\ locks' \in [Tx -> SUBSET Lockable] /\ step' \in [Tx -> Nat]
  BY DEF End, TypeOK
<1>3. /\ target' \in [Migrators -> 0..Newest] /\ at' \in [Migrators -> 0..Newest]
  BY <1>1 DEF End, TypeOK
<1>4. /\ gone' \in [Migrators -> SUBSET Objects] /\ made' \in [Migrators -> SUBSET Objects]
  BY DEF End, TypeOK
<1>5. \A y \in Tx \ running' : locks'[y] = {}
  BY DEF End, TypeOK
<1> QED BY <1>2, <1>3, <1>4, <1>5 DEF TypeOK, Newest

LEMMA LockType ==
  ASSUME TypeOK, NEW x \in running, NEW tables \in SUBSET Lockable, Lock(x, tables), UNCHANGED running
  PROVE  /\ locks' \in [Tx -> SUBSET Lockable]
         /\ \A y \in Tx \ running' : locks'[y] = {}
BY DEF TypeOK, Lock

LEMMA TypeStep ==
  ASSUME TypeOK, [Next]_vars
  PROVE  TypeOK'
<1> USE DEF Newest
<1>1. CASE UNCHANGED vars
  BY <1>1 DEF TypeOK, vars
<1>2. ASSUME NEW x \in Tx, StartMigration(x)
      PROVE  TypeOK'
  <2>1. revision \in 0..Newest /\ Targets \subseteq 0..Newest
    BY UseAssumption DEF TypeOK
  <2>2. /\ target' \in [Migrators -> 0..Newest] /\ at' \in [Migrators -> 0..Newest]
    BY <1>2, <2>1 DEF StartMigration, TypeOK
  <2> QED BY <1>2, <2>2 DEF StartMigration, Start, TypeOK
<1>3. ASSUME NEW x \in Tx, StartCall(x)
      PROVE  TypeOK'
  BY <1>3 DEF StartCall, Start, TypeOK
<1>4. ASSUME NEW x \in Tx, Rollback(x)
      PROVE  TypeOK'
  BY <1>4, EndType DEF Rollback, TypeOK
<1>5. ASSUME NEW x \in Tx, RunStatement(x)
      PROVE  TypeOK'
  <2> DEFINE s == NextStatement(x)
             D == Dropped(s, Seen(x))
  <2>1. InScript(x) /\ x \in Migrators /\ x \in running /\ step[x] \in Nat
    BY <1>5, NextStatementType DEF RunStatement
  <2>2. s \in Statements /\ Seen(x) \in SUBSET Objects
    BY <2>1, NextStatementType
  <2>3. D \subseteq Objects /\ Created(s) \subseteq Objects /\ Locked(s, Seen(x)) \subseteq Names
    BY <2>2, StatementEffects
  <2>4. Needs(x) \in SUBSET Lockable
    BY <2>3 DEF Needs, Lockable
  <2>5. /\ locks' \in [Tx -> SUBSET Lockable] /\ \A y \in Tx \ running' : locks'[y] = {}
    BY <1>5, <2>1, <2>4, LockType DEF RunStatement
  <2>6. /\ gone' = [gone EXCEPT ![x] = @ \cup D]
        /\ made' = [made EXCEPT ![x] = (@ \ D) \cup Created(s)]
    BY <1>5 DEF RunStatement
  <2>7. gone' \in [Migrators -> SUBSET Objects] /\ made' \in [Migrators -> SUBSET Objects]
    <3> HIDE DEF D, s
    <3> QED BY <2>3, <2>6 DEF TypeOK
  <2>8. step' \in [Tx -> Nat] /\ UNCHANGED <<schema, revision, running, target, at>>
    BY <1>5, <2>1 DEF RunStatement, TypeOK
  <2> QED BY <2>5, <2>7, <2>8 DEF TypeOK
<1>6. ASSUME NEW x \in Tx, MoveVersion(x)
      PROVE  TypeOK'
  <2>1. x \in Migrators /\ x \in running /\ at[x] # target[x]
    BY <1>6 DEF MoveVersion, ScriptDone, Moving
  <2>2. Towards(x) \in 0..Newest
    BY <2>1, ScriptLeads
  <2>3. {VersionTable} \in SUBSET Lockable
    BY DEF Lockable
  <2>4. /\ locks' \in [Tx -> SUBSET Lockable] /\ \A y \in Tx \ running' : locks'[y] = {}
    BY <1>6, <2>1, <2>3, LockType DEF MoveVersion
  <2> QED BY <1>6, <2>1, <2>2, <2>4 DEF MoveVersion, TypeOK
<1>7. ASSUME NEW x \in Tx, CommitMigration(x)
      PROVE  TypeOK'
  <2>1. Seen(x) \subseteq Objects /\ at[x] \in 0..Newest
    BY <1>7 DEF CommitMigration, Seen, TypeOK
  <2> QED BY <1>7, <2>1, EndType DEF CommitMigration
<1>8. ASSUME NEW x \in Tx, RunUse(x)
      PROVE  TypeOK'
  <2>1. x \in Calls /\ x \in running /\ step[x] \in Nat /\ step[x] < Len(Plan[x])
    BY <1>8 DEF RunUse, InPlan, TypeOK
  <2>2. Use(x) \in CallStatements
    <3>1. Plan[x] \in Seq(CallStatements)
      BY <2>1, UseAssumption
    <3>2. step[x] + 1 \in 1..Len(Plan[x])
      BY <2>1, <3>1
    <3> QED BY <3>1, <3>2 DEF Use
  <2>3. {Use(x).table} \in SUBSET Lockable
    BY <2>2 DEF CallStatements, Lockable
  <2>4. /\ locks' \in [Tx -> SUBSET Lockable] /\ \A y \in Tx \ running' : locks'[y] = {}
    BY <1>8, <2>1, <2>3, LockType DEF RunUse
  <2>5. step' \in [Tx -> Nat] /\ UNCHANGED <<schema, revision, running, target, at, gone, made>>
    BY <1>8, <2>1 DEF RunUse, TypeOK
  <2> QED BY <2>4, <2>5 DEF TypeOK
<1>9. ASSUME NEW x \in Tx, CommitCall(x)
      PROVE  TypeOK'
  BY <1>9, EndType DEF CommitCall, TypeOK
<1>10. ASSUME NEW x \in Tx, Progress(x)
       PROVE  TypeOK'
  <2>1. Rollback(x) \/ RunStatement(x) \/ MoveVersion(x) \/ CommitMigration(x)
          \/ RunUse(x) \/ CommitCall(x)
    BY <1>10 DEF Progress, ScriptRaises, VersionMissed, UseRaises, BreakDeadlock
  <2> QED BY <1>4, <1>5, <1>6, <1>7, <1>8, <1>9, <2>1
<1> QED BY <1>1, <1>2, <1>3, <1>4, <1>10 DEF Next, Abort

\* TypeOK, for any history, any number of commands and calls.
THEOREM TypeCorrect == Spec => []TypeOK
<1>1. Init => TypeOK
  BY HistoryAssumption DEF Init, TypeOK, Newest
<1> QED BY <1>1, TypeStep, PTL DEF Spec

-----------------------------------------------------------------------------
(* Commands one after the other *)

LEMMA LockExclusive ==
  ASSUME TypeOK, Exclusive, NEW x \in Tx, NEW tables, Lock(x, tables)
  PROVE  /\ locks'[x] = locks[x] \cup tables
         /\ \A y \in Tx : y # x => locks'[y] = locks[y]
         /\ \A m \in Migrators, y \in Tx : y # m => locks'[m] \cap locks'[y] = {}
<1>1. /\ locks'[x] = locks[x] \cup tables
      /\ \A y \in Tx : y # x => locks'[y] = locks[y]
  BY DEF Lock, TypeOK
<1>2. ASSUME NEW m \in Migrators, NEW y \in Tx, y # m
      PROVE  locks'[m] \cap locks'[y] = {}
  <2>1. m \in Tx /\ locks[m] \cap locks[y] = {}
    BY <1>2 DEF Exclusive, Tx
  <2>2. CASE m = x
    <3>1. tables \cap locks[y] = {}
      BY <1>2, <2>2 DEF Lock, Free, WaitsFor
    <3> QED BY <1>1, <1>2, <2>1, <2>2, <3>1
  <2>3. CASE y = x
    <3>1. tables \cap locks[m] = {}
      BY <1>2, <2>1, <2>3 DEF Lock, Free, WaitsFor
    <3> QED BY <1>1, <1>2, <2>1, <2>3, <3>1
  <2>4. CASE m # x /\ y # x
    BY <1>1, <2>1, <2>4
  <2> QED BY <2>2, <2>3, <2>4
<1> QED BY <1>1, <1>2

\* What a step leaves of a command it does not belong to.
Untouched(m) ==
  /\ m \in running /\ locks'[m] = locks[m] /\ step'[m] = step[m]
  /\ target'[m] = target[m] /\ at'[m] = at[m]
  /\ gone'[m] = gone[m] /\ made'[m] = made[m]

LEMMA OthersPlaced ==
  ASSUME NEW m \in Migrators, Placed(m), Untouched(m),
         schema' = schema \/ (~OwnsVersion(m) /\ SameParts(schema', schema, locks[m]))
  PROVE  Placed(m)'
<1>1. /\ Script(m)' = Script(m) /\ OwnsVersion(m)' = OwnsVersion(m)
      /\ \A S : Changed(S, m)' = Changed(S, m)
  BY DEF Untouched, Script, Upgrading, OwnsVersion, Changed
<1>2. InBounds(m)'
  BY <1>1 DEF Placed, InBounds, Untouched
<1>3. SameParts(schema', schema, locks[m])
  BY DEF SameParts
<1>4. Early(m)'
  <2> SUFFICES ASSUME ~OwnsVersion(m), NEW S \in Schemas[at[m]], SameParts(S, schema', locks[m])
               PROVE  Changed(S, m) = Through(Script(m), S)[step[m]]
    BY <1>1 DEF Early, Untouched
  <2>1. SameParts(S, schema, locks[m])
    BY <1>3 DEF SameParts
  <2> QED BY <2>1 DEF Placed, Early
<1>5. Late(m)'
  <2> SUFFICES ASSUME OwnsVersion(m)
               PROVE  Late(m)'
    BY <1>1 DEF Late
  <2>1. Seen(m)' = Seen(m)
    BY DEF Seen, Untouched
  <2> QED BY <1>1, <2>1 DEF Placed, Late, Untouched
<1> QED BY <1>2, <1>4, <1>5 DEF Placed

\* The end of a transaction, apart from what it does to the schema.
LEMMA EndUntouched ==
  ASSUME TypeOK, Exclusive, Idle, NEW x \in Tx, End(x)
  PROVE  /\ Exclusive' /\ Idle'
         /\ \A m \in running' \cap Migrators : m # x /\ m \in running /\ Untouched(m)
<1>1. /\ locks'[x] = {} /\ step'[x] = 0
      /\ \A y \in Tx : y # x => locks'[y] = locks[y] /\ step'[y] = step[y]
  BY DEF End, TypeOK
<1>2. \A m \in Migrators :
        /\ m = x => gone'[m] = {} /\ made'[m] = {}
        /\ m # x => /\ target'[m] = target[m] /\ at'[m] = at[m]
                    /\ gone'[m] = gone[m] /\ made'[m] = made[m]
  BY DEF End
<1>3. running' = running \ {x} /\ Migrators \subseteq Tx
  BY DEF End, Tx
<1>4. Exclusive'
  <2>1. \A m \in Migrators, y \in Tx : y # m => locks'[m] \cap locks'[y] = {}
    BY <1>1, <1>3 DEF Exclusive
  <2>2. \A m \in Migrators : \A o \in gone'[m] \cup made'[m] : o.table \in locks'[m]
    BY <1>1, <1>2, <1>3 DEF Exclusive
  <2> QED BY <2>1, <2>2 DEF Exclusive
<1>5. Idle'
  BY <1>1, <1>2, <1>3 DEF Idle
<1>6. \A m \in running' \cap Migrators : m # x /\ m \in running /\ Untouched(m)
  BY <1>1, <1>2, <1>3 DEF Untouched
<1> QED BY <1>4, <1>5, <1>6

LEMMA StartPlaced ==
  ASSUME TypeOK, TypeOK', Serial, NEW x \in Tx, StartMigration(x)
  PROVE  Placed(x)'
<1>1. /\ x \in Migrators /\ x \notin running /\ revision \in 0..Newest
      /\ locks[x] = {} /\ step[x] = 0 /\ gone[x] = {} /\ made[x] = {}
  BY DEF StartMigration, Start, Serial, Idle, TypeOK
<1>2. /\ at'[x] = revision /\ target'[x] # revision
      /\ UNCHANGED <<schema, revision, locks, step, gone, made>>
  BY <1>1 DEF StartMigration, TypeOK
<1>3. /\ Script(x)' \in Seq(Statements)
      /\ \A S \in Schemas[at'[x]] : Through(Script(x)', S)[0] = S
  BY <1>1, <1>2, NextScriptLeads
<1>4. InBounds(x)'
  <2>1. Len(Script(x)') \in Nat
    BY <1>3
  <2> QED BY <1>1, <1>2, <2>1 DEF InBounds
<1>5. Early(x)'
  BY <1>1, <1>2, <1>3 DEF Early, Changed
<1>6. Late(x)'
  BY <1>1, <1>2 DEF Late, OwnsVersion
<1> QED BY <1>4, <1>5, <1>6 DEF Placed

LEMMA MovePlaced ==
  ASSUME TypeOK, TypeOK', Serial, NEW x \in Tx, MoveVersion(x)
  PROVE  Placed(x)'
<1>1. /\ x \in Migrators /\ x \in running /\ at[x] # target[x]
      /\ step[x] = Len(Script(x)) /\ VersionFound(x) /\ Placed(x)
      /\ schema \in Schemas[revision] /\ Lock(x, {VersionTable})
  BY DEF MoveVersion, ScriptDone, Moving, Serial, SchemaOfRevision
<1>2. /\ at'[x] = Towards(x) /\ step'[x] = 0
      /\ UNCHANGED <<schema, running, target, gone, made>>
  BY <1>1 DEF MoveVersion, TypeOK
<1>3. LeadsTo(Script(x), Schemas[at[x]], Schemas[Towards(x)])
  BY <1>1, ScriptLeads
<1>4. Seen(x) \in Schemas[Towards(x)]
  <2>1. CASE OwnsVersion(x)
    <3>1. PICK S \in Schemas[at[x]] : Seen(x) = Through(Script(x), S)[step[x]]
      BY <1>1, <2>1 DEF Placed, Late
    <3> QED BY <1>1, <1>3, <3>1 DEF LeadsTo
  <2>2. CASE ~OwnsVersion(x)
    <3>1. schema \in Schemas[at[x]]
      BY <1>1, <2>2 DEF VersionFound, Overtaken
    <3>2. SameParts(schema, schema, locks[x])
      BY DEF SameParts
    <3>3. Changed(schema, x) = Through(Script(x), schema)[step[x]]
      BY <1>1, <2>2, <3>1, <3>2 DEF Placed, Early
    <3>4. Seen(x) = Through(Script(x), schema)[Len(Script(x))]
      BY <1>1, <3>3 DEF Seen, Changed
    <3> QED BY <1>3, <3>1, <3>4 DEF LeadsTo
  <2> QED BY <2>1, <2>2
<1>5. OwnsVersion(x)'
  BY <1>1, LockExclusive DEF OwnsVersion, Serial
<1>6. Seen(x)' = Seen(x)
  BY <1>2 DEF Seen
<1>7. ASSUME at'[x] # target'[x]
      PROVE  /\ step'[x] <= Len(Script(x)')
             /\ Through(Script(x)', Seen(x))[0] = Seen(x)
  <2>1. /\ Script(x)' \in Seq(Statements)
        /\ \A S \in Schemas[at'[x]] : Through(Script(x)', S)[0] = S
    BY <1>1, <1>7, NextScriptLeads
  <2>2. Len(Script(x)') \in Nat
    BY <2>1
  <2> QED BY <1>2, <1>4, <2>1, <2>2
<1>8. InBounds(x)'
  BY <1>5, <1>7 DEF InBounds
<1>9. Late(x)'
  <2>1. CASE at'[x] = target'[x]
    BY <1>2, <1>4, <1>6, <2>1 DEF Late
  <2>2. CASE at'[x] # target'[x]
    BY <1>2, <1>4, <1>6, <1>7, <2>2 DEF Late
  <2> QED BY <2>1, <2>2
<1>10. Early(x)'
  BY <1>5 DEF Early
<1> QED BY <1>8, <1>9, <1>10 DEF Placed

\* A statement changes every schema of the revision alike, as far as the
\* schemas agree on what the command has locked.
LEMMA StatementPlaced ==
  ASSUME TypeOK, Serial, NEW x \in Tx, RunStatement(x)
  PROVE  /\ Placed(x)'
         /\ \A o \in gone'[x] \cup made'[x] : o.table \in locks'[x]
<1> DEFINE s == NextStatement(x)
           D == Dropped(s, Seen(x))
<1>1. /\ InScript(x) /\ x \in Migrators /\ x \in running /\ at[x] # target[x]
      /\ step[x] \in Nat /\ step[x] + 1 \in 1..Len(Script(x)) /\ Placed(x)
      /\ s \in Statements /\ Seen(x) \in SUBSET Objects /\ Lock(x, Needs(x))
  BY NextStatementType DEF RunStatement, Serial, InScript, Moving
<1>2. /\ \A o \in D \cup Created(s) : o.table = s.table
      /\ Needs(x) \subseteq Names /\ s.table \in Needs(x)
  BY <1>1, StatementEffects DEF Needs
<1>3. /\ gone' = [gone EXCEPT ![x] = @ \cup D]
      /\ made' = [made EXCEPT ![x] = (@ \ D) \cup Created(s)]
      /\ step' = [step EXCEPT ![x] = @ + 1]
      /\ UNCHANGED <<schema, revision, running, target, at>>
  BY DEF RunStatement
<1>4. /\ gone'[x] = gone[x] \cup D /\ made'[x] = (made[x] \ D) \cup Created(s)
      /\ step'[x] = step[x] + 1
  <2> HIDE DEF D, s
  <2> QED BY <1>1, <1>3 DEF TypeOK
<1>5. locks'[x] = locks[x] \cup Needs(x)
  BY <1>1, LockExclusive DEF Serial
<1>6. /\ Script(x)' = Script(x) /\ at'[x] = at[x] /\ target'[x] = target[x]
      /\ OwnsVersion(x)' = OwnsVersion(x)
  BY <1>2, <1>3, <1>5 DEF Script, Upgrading, OwnsVersion, Names
<1>7. LeadsTo(Script(x), Schemas[at[x]], Schemas[Towards(x)])
  BY <1>1, ScriptLeads
<1>8. ASSUME NEW S \in Schemas[at[x]]
      PROVE  Through(Script(x), S)[step[x] + 1] = After(s, Through(Script(x), S)[step[x]])
  <2>1. (step[x] + 1) - 1 = step[x]
    BY <1>1
  <2> QED BY <1>1, <1>7, <2>1 DEF LeadsTo, NextStatement
<1>9. Seen(x)' = After(s, Seen(x))
  <2>1. Seen(x)' = (schema \ (gone[x] \cup D)) \cup ((made[x] \ D) \cup Created(s))
    BY <1>3, <1>4 DEF Seen
  <2>2. After(s, Seen(x)) = (((schema \ gone[x]) \cup made[x]) \ D) \cup Created(s)
    BY DEF After, Seen
  <2> HIDE DEF D, s
  <2> QED BY <2>1, <2>2
<1>10. InBounds(x)'
  BY <1>1, <1>4, <1>6 DEF InBounds
<1>11. Early(x)'
  <2> SUFFICES ASSUME ~OwnsVersion(x), NEW S \in Schemas[at[x]],
                      SameParts(S, schema, locks'[x])
               PROVE  Changed(S, x)' = Through(Script(x), S)[step[x] + 1]
    BY <1>3, <1>4, <1>6 DEF Early
  <2>1. SameParts(S, schema, locks[x]) /\ Part(S, s.table) = Part(schema, s.table)
    BY <1>2, <1>5 DEF SameParts
  <2>2. Changed(S, x) = Through(Script(x), S)[step[x]]
    BY <1>1, <2>1 DEF Placed, Early
  <2>3. Part(Changed(S, x), s.table) = Part(Seen(x), s.table)
    BY <2>1 DEF Part, Changed, Seen
  <2>4. Dropped(s, Changed(S, x)) = D
    BY <2>3, DroppedLocal
  <2>5. Changed(S, x)' = (S \ (gone[x] \cup D)) \cup ((made[x] \ D) \cup Created(s))
    BY <1>4 DEF Changed
  <2>6. After(s, Changed(S, x)) = (((S \ gone[x]) \cup made[x]) \ D) \cup Created(s)
    BY <2>4 DEF After, Changed
  <2>7. Changed(S, x)' = After(s, Changed(S, x))
    <3> HIDE DEF D, s
    <3> QED BY <2>5, <2>6
  <2> QED BY <1>8, <2>2, <2>7
<1>12. Late(x)'
  <2> SUFFICES ASSUME OwnsVersion(x)
               PROVE  Late(x)'
    BY <1>6 DEF Late
  <2>1. PICK S \in Schemas[at[x]] : Seen(x) = Through(Script(x), S)[step[x]]
    BY <1>1 DEF Placed, Late
  <2>2. Seen(x)' = Through(Script(x), S)[step[x] + 1]
    BY <1>8, <1>9, <2>1
  <2> QED BY <1>1, <1>4, <1>6, <2>2 DEF Late
<1>13. \A o \in gone'[x] \cup made'[x] : o.table \in locks'[x]
  <2>1. \A o \in gone[x] \cup made[x] : o.table \in locks[x]
    BY <1>1 DEF Serial, Exclusive
  <2> HIDE DEF D, s
  <2> QED BY <1>2, <1>4, <1>5, <2>1
<1> QED BY <1>10, <1>11, <1>12, <1>13 DEF Placed

\* A commit changes what the command has locked, and nothing else.
LEMMA CommitParts ==
  ASSUME Exclusive, NEW x \in Migrators, NEW y \in Tx, y # x, schema' = Seen(x)
  PROVE  SameParts(schema', schema, locks[y])
<1> SUFFICES ASSUME NEW t \in locks[y], NEW o, o.table = t
             PROVE  o \in schema' <=> o \in schema
  BY DEF SameParts, Part
<1>1. t \notin locks[x]
  BY DEF Exclusive
<1>2. o \notin gone[x] /\ o \notin made[x]
  BY <1>1 DEF Exclusive
<1> QED BY <1>2 DEF Seen

LEMMA SerialStep ==
  ASSUME TypeOK, TypeOK', Serial, [Next]_vars
  PROVE  Serial'
<1> DEFINE Others(x) == \A m \in (running \cap Migrators) \ {x} : Untouched(m)
<1>1. CASE UNCHANGED vars
  BY <1>1 DEF vars, Serial, Exclusive, Idle, SchemaOfRevision, Placed, InBounds, Early, Late,
              OwnsVersion, Script, Upgrading, Seen, Changed
<1>2. ASSUME NEW x \in Tx, Rollback(x)
      PROVE  Serial'
  <2>1. /\ Exclusive' /\ Idle' /\ schema' = schema /\ revision' = revision
        /\ \A m \in running' \cap Migrators : m # x /\ m \in running /\ Untouched(m)
    BY <1>2, EndUntouched DEF Rollback, Serial
  <2>2. \A m \in running' \cap Migrators : Placed(m)'
    BY <2>1, OthersPlaced DEF Serial
  <2> QED BY <2>1, <2>2 DEF Serial, SchemaOfRevision
<1>3. ASSUME NEW x \in Tx, Others(x), Exclusive', Idle', UNCHANGED <<schema, revision>>,
             running' \subseteq running \cup {x},
             x \in running' \cap Migrators => Placed(x)'
      PROVE  Serial'
  <2>1. ASSUME NEW m \in running' \cap Migrators, m # x
        PROVE  Placed(m)'
    <3>1. m \in running /\ Untouched(m) /\ Placed(m)
      BY <1>3, <2>1 DEF Serial
    <3> QED BY <1>3, <2>1, <3>1, OthersPlaced
  <2> QED BY <1>3, <2>1 DEF Serial, SchemaOfRevision
<1>4. ASSUME NEW x \in Tx, StartMigration(x)
      PROVE  Serial'
  <2>1. Placed(x)'
    BY <1>4, StartPlaced
  <2>2. Exclusive' /\ Idle' /\ Others(x)
    BY <1>4 DEF StartMigration, Start, Serial, Exclusive, Idle, Untouched, TypeOK
  <2> QED BY <1>3, <1>4, <2>1, <2>2 DEF StartMigration, Start
<1>5. ASSUME NEW x \in Tx, StartCall(x)
      PROVE  Serial'
  <2>1. x \notin Migrators
    BY <1>5, UseAssumption DEF StartCall
  <2>2. Exclusive' /\ Idle' /\ Others(x)
    BY <1>5 DEF StartCall, Start, Serial, Exclusive, Idle, Untouched
  <2> QED BY <1>3, <1>5, <2>1, <2>2 DEF StartCall, Start
<1>6. ASSUME NEW x \in Tx, RunStatement(x)
      PROVE  Serial'
  <2>1. /\ Placed(x)' /\ \A o \in gone'[x] \cup made'[x] : o.table \in locks'[x]
    BY <1>6, StatementPlaced
  <2>2. /\ \A y \in Tx : y # x => locks'[y] = locks[y]
        /\ \A m \in Migrators, y \in Tx : y # m => locks'[m] \cap locks'[y] = {}
    BY <1>6, LockExclusive DEF RunStatement, Serial
  <2>3. /\ x \in running /\ x \in Migrators /\ Migrators \subseteq Tx
        /\ UNCHANGED <<schema, revision, running, target, at>>
    BY <1>6 DEF RunStatement, InScript, Moving, Tx
  <2>4. \A m \in Tx : m # x => step'[m] = step[m]
    BY <1>6 DEF RunStatement, TypeOK
  <2>5. \A m \in Migrators : m # x => gone'[m] = gone[m] /\ made'[m] = made[m]
    BY <1>6 DEF RunStatement, TypeOK
  <2>6. Exclusive'
    BY <2>1, <2>2, <2>3, <2>5 DEF Serial, Exclusive
  <2>7. Idle' /\ Others(x)
    BY <2>2, <2>3, <2>4, <2>5 DEF Serial, Idle, Untouched
  <2> QED BY <1>3, <2>1, <2>3, <2>6, <2>7
<1>7. ASSUME NEW x \in Tx, MoveVersion(x)
      PROVE  Serial'
  <2>1. Placed(x)'
    BY <1>7, MovePlaced
  <2>2. /\ locks'[x] = locks[x] \cup {VersionTable}
        /\ \A y \in Tx : y # x => locks'[y] = locks[y]
        /\ \A m \in Migrators, y \in Tx : y # m => locks'[m] \cap locks'[y] = {}
    BY <1>7, LockExclusive DEF MoveVersion, Serial
  <2>3. /\ x \in running /\ x \in Migrators /\ Migrators \subseteq Tx
        /\ UNCHANGED <<schema, revision, running, target, gone, made>>
    BY <1>7 DEF MoveVersion, ScriptDone, Moving, Tx
  <2>4. \A m \in Tx : m # x => step'[m] = step[m]
    BY <1>7 DEF MoveVersion, TypeOK
  <2>5. \A m \in Migrators : m # x => at'[m] = at[m]
    BY <1>7 DEF MoveVersion, TypeOK
  <2>6. Exclusive'
    BY <2>2, <2>3 DEF Serial, Exclusive
  <2>7. Idle' /\ Others(x)
    BY <2>2, <2>3, <2>4, <2>5 DEF Serial, Idle, Untouched
  <2> QED BY <1>3, <2>1, <2>3, <2>6, <2>7
<1>8. ASSUME NEW x \in Tx, CommitMigration(x)
      PROVE  Serial'
  <2>1. /\ x \in running /\ x \in Migrators /\ at[x] = target[x] /\ Placed(x)
        /\ schema' = Seen(x) /\ revision' = at[x] /\ End(x)
    BY <1>8 DEF CommitMigration, Serial
  <2>2. OwnsVersion(x) /\ Seen(x) \in Schemas[at[x]]
    BY <2>1 DEF Placed, InBounds, Late
  <2>3. /\ Exclusive' /\ Idle'
        /\ \A m \in running' \cap Migrators : m # x /\ m \in running /\ Untouched(m)
    BY <2>1, EndUntouched DEF Serial
  <2>4. ASSUME NEW m \in running' \cap Migrators
        PROVE  Placed(m)'
    <3>1. m # x /\ m \in Tx /\ Untouched(m) /\ Placed(m)
      BY <2>3, <2>4 DEF Serial, Tx
    <3>2. ~OwnsVersion(m)
      BY <2>1, <2>2, <3>1 DEF OwnsVersion, Serial, Exclusive
    <3>3. SameParts(schema', schema, locks[m])
      BY <2>1, <3>1, CommitParts DEF Serial
    <3> QED BY <2>4, <3>1, <3>2, <3>3, OthersPlaced
  <2> QED BY <2>1, <2>2, <2>3, <2>4 DEF Serial, SchemaOfRevision
<1>9. ASSUME NEW x \in Tx, RunUse(x)
      PROVE  Serial'
  <2>1. /\ x \in Calls /\ x \in running /\ x \notin Migrators /\ Migrators \subseteq Tx
        /\ UNCHANGED <<schema, revision, running, target, at, gone, made>>
    BY <1>9, UseAssumption DEF RunUse, InPlan, Tx
  <2>2. /\ \A y \in Tx : y # x => locks'[y] = locks[y]
        /\ \A m \in Migrators, y \in Tx : y # m => locks'[m] \cap locks'[y] = {}
    BY <1>9, LockExclusive DEF RunUse, Serial
  <2>3. \A m \in Tx : m # x => step'[m] = step[m]
    BY <1>9 DEF RunUse, TypeOK
  <2>4. Exclusive'
    BY <2>1, <2>2 DEF Serial, Exclusive
  <2>5. Idle' /\ Others(x)
    BY <2>1, <2>2, <2>3 DEF Serial, Idle, Untouched
  <2> QED BY <1>3, <2>1, <2>4, <2>5
<1>10. ASSUME NEW x \in Tx, CommitCall(x)
       PROVE  Serial'
  BY <1>2, <1>10 DEF CommitCall, Rollback
<1>11. ASSUME NEW x \in Tx, Progress(x)
       PROVE  Serial'
  <2>1. Rollback(x) \/ RunStatement(x) \/ MoveVersion(x) \/ CommitMigration(x)
          \/ RunUse(x) \/ CommitCall(x)
    BY <1>11 DEF Progress, ScriptRaises, VersionMissed, UseRaises, BreakDeadlock
  <2> QED BY <1>2, <1>6, <1>7, <1>8, <1>9, <1>10, <2>1
<1> QED BY <1>1, <1>2, <1>4, <1>5, <1>11 DEF Next, Abort

LEMMA SerialInvariant == Spec => []Serial
<1>1. Init => Serial
  BY DEF Init, Serial, Exclusive, Idle, SchemaOfRevision, Tx
<1> QED BY <1>1, SerialStep, TypeCorrect, PTL DEF Spec

\* SchemaOfRevision: table locks and the version row keep any number of
\* commands, up or down, from mixing their changes.
THEOREM SchemaOfRevisionCorrect == Spec => []SchemaOfRevision
<1>1. Serial => SchemaOfRevision
  BY DEF Serial
<1> QED BY <1>1, SerialInvariant, PTL

-----------------------------------------------------------------------------
(* Calls beside commands *)

CallsServed == UsedLocked /\ TablesStay

\* A step that leaves a call where it is, and the parts it has locked.
LEMMA CallKept ==
  ASSUME CallsServed, NEW c \in running \cap Calls, locks'[c] = locks[c], step'[c] = step[c],
         SameParts(schema', schema, locks[c])
  PROVE  /\ step'[c] <= Len(Plan[c])
         /\ \A i \in 1..step'[c] : /\ Plan[c][i].table \in locks'[c]
                                  /\ Serves(schema', Plan[c][i].table, Plan[c][i].names)
<1>1. step'[c] <= Len(Plan[c])
  BY DEF CallsServed, UsedLocked
<1>2. ASSUME NEW i \in 1..step'[c]
      PROVE  /\ Plan[c][i].table \in locks'[c]
             /\ Serves(schema', Plan[c][i].table, Plan[c][i].names)
  <2>1. /\ Plan[c][i].table \in locks[c]
        /\ Serves(schema, Plan[c][i].table, Plan[c][i].names)
    BY DEF CallsServed, UsedLocked, TablesStay
  <2>2. Part(schema, Plan[c][i].table) = Part(schema', Plan[c][i].table)
    BY <2>1 DEF SameParts
  <2> QED BY <2>1, <2>2, ServesLocal
<1> QED BY <1>1, <1>2

LEMMA CallsServedStep ==
  ASSUME TypeOK, Serial, CallsServed, [Next]_vars
  PROVE  CallsServed'
<1> DEFINE Served(c) ==
      /\ step[c] <= Len(Plan[c])
      /\ \A i \in 1..step[c] : /\ Plan[c][i].table \in locks[c]
                              /\ Serves(schema, Plan[c][i].table, Plan[c][i].names)
<1>1. (\A c \in running' \cap Calls : Served(c)') => CallsServed'
  BY DEF CallsServed, UsedLocked, TablesStay
<1>2. ASSUME NEW x \in Tx, running' \subseteq running \cup {x},
             \A y \in Tx : y # x => locks'[y] = locks[y] /\ step'[y] = step[y],
             x \in running' \cap Calls => Served(x)',
             \A y \in Tx : y # x => SameParts(schema', schema, locks[y])
      PROVE  CallsServed'
  <2>1. ASSUME NEW c \in running' \cap Calls, c # x
        PROVE  Served(c)'
    <3>1. c \in running \cap Calls /\ c \in Tx
      BY <1>2, <2>1 DEF Tx
    <3> QED BY <1>2, <2>1, <3>1, CallKept
  <2> QED BY <1>1, <1>2, <2>1
<1>3. schema' = schema => \A y \in Tx : SameParts(schema', schema, locks[y])
  BY DEF SameParts
<1>4. CASE UNCHANGED vars
  BY <1>4 DEF vars, CallsServed, UsedLocked, TablesStay
<1>5. ASSUME NEW x \in Tx, End(x), \A y \in Tx : y # x => SameParts(schema', schema, locks[y])
      PROVE  CallsServed'
  <2>1. /\ running' = running \ {x}
        /\ \A y \in Tx : y # x => locks'[y] = locks[y] /\ step'[y] = step[y]
    BY <1>5 DEF End, TypeOK
  <2> QED BY <1>2, <1>5, <2>1
<1>6. ASSUME NEW x \in Tx, StartMigration(x)
      PROVE  CallsServed'
  <2>1. /\ running' = running \cup {x} /\ x \notin Calls /\ schema' = schema
        /\ locks' = locks /\ step' = step
    BY <1>6, UseAssumption DEF StartMigration, Start
  <2> QED BY <1>2, <1>3, <2>1
<1>7. ASSUME NEW x \in Tx, StartCall(x)
      PROVE  CallsServed'
  <2>1. /\ running' = running \cup {x} /\ x \in Calls /\ step[x] = 0 /\ schema' = schema
        /\ locks' = locks /\ step' = step
    BY <1>7 DEF StartCall, Start, Serial, Idle
  <2>2. Len(Plan[x]) \in Nat
    BY <2>1, UseAssumption
  <2>3. Served(x)'
    BY <2>1, <2>2
  <2> QED BY <1>2, <1>3, <2>1, <2>3
<1>8. ASSUME NEW x \in Tx, RunStatement(x)
      PROVE  CallsServed'
  <2>1. /\ x \notin Calls /\ UNCHANGED <<schema, running>>
        /\ \A y \in Tx : y # x => step'[y] = step[y]
    BY <1>8, UseAssumption DEF RunStatement, InScript, Moving, TypeOK
  <2>2. \A y \in Tx : y # x => locks'[y] = locks[y]
    BY <1>8, LockExclusive DEF RunStatement, Serial
  <2> QED BY <1>2, <1>3, <2>1, <2>2
<1>9. ASSUME NEW x \in Tx, MoveVersion(x)
      PROVE  CallsServed'
  <2>1. /\ x \notin Calls /\ UNCHANGED <<schema, running>>
        /\ \A y \in Tx : y # x => step'[y] = step[y]
    BY <1>9, UseAssumption DEF MoveVersion, ScriptDone, Moving, TypeOK
  <2>2. \A y \in Tx : y # x => locks'[y] = locks[y]
    BY <1>9, LockExclusive DEF MoveVersion, Serial
  <2> QED BY <1>2, <1>3, <2>1, <2>2
<1>10. ASSUME NEW x \in Tx, CommitMigration(x)
       PROVE  CallsServed'
  BY <1>5, <1>10, CommitParts DEF CommitMigration, Serial
<1>11. ASSUME NEW x \in Tx, RunUse(x)
       PROVE  CallsServed'
  <2>1. /\ x \in Calls /\ x \in running /\ step[x] < Len(Plan[x]) /\ step[x] \in Nat
        /\ Serves(schema, Use(x).table, Use(x).names) /\ UNCHANGED <<schema, running>>
    BY <1>11 DEF RunUse, InPlan, TypeOK
  <2>2. /\ step'[x] = step[x] + 1
        /\ \A y \in Tx : y # x => step'[y] = step[y]
    BY <1>11 DEF RunUse, TypeOK
  <2>3. /\ locks'[x] = locks[x] \cup {Use(x).table}
        /\ \A y \in Tx : y # x => locks'[y] = locks[y]
    BY <1>11, LockExclusive DEF RunUse, Serial
  <2>4. Len(Plan[x]) \in Nat
    BY <2>1, UseAssumption
  <2>5. ASSUME NEW i \in 1..step'[x]
        PROVE  /\ Plan[x][i].table \in locks'[x]
               /\ Serves(schema', Plan[x][i].table, Plan[x][i].names)
    <3>1. CASE i = step[x] + 1
      BY <2>1, <2>3, <3>1 DEF Use
    <3>2. CASE i # step[x] + 1
      <4>1. i \in 1..step[x]
        BY <2>1, <2>2, <3>2
      <4> QED BY <2>1, <2>3, <4>1 DEF CallsServed, UsedLocked, TablesStay
    <3> QED BY <3>1, <3>2
  <2>6. Served(x)'
    <3>1. step'[x] <= Len(Plan[x])
      BY <2>1, <2>2, <2>4
    <3> QED BY <2>5, <3>1
  <2> QED BY <1>2, <1>3, <2>1, <2>2, <2>3, <2>6
<1>12. ASSUME NEW x \in Tx, Rollback(x) \/ CommitCall(x)
       PROVE  CallsServed'
  <2>1. End(x) /\ schema' = schema
    BY <1>12 DEF Rollback, CommitCall
  <2> QED BY <1>3, <1>5, <2>1
<1>13. ASSUME NEW x \in Tx, Progress(x)
       PROVE  CallsServed'
  <2>1. Rollback(x) \/ RunStatement(x) \/ MoveVersion(x) \/ CommitMigration(x)
          \/ RunUse(x) \/ CommitCall(x)
    BY <1>13 DEF Progress, ScriptRaises, VersionMissed, UseRaises, BreakDeadlock
  <2> QED BY <1>8, <1>9, <1>10, <1>11, <1>12, <2>1
<1> QED BY <1>4, <1>6, <1>7, <1>12, <1>13 DEF Next, Abort

\* TablesStay: what a call has used of the schema stays until the call ends.
THEOREM TablesStayCorrect == Spec => []TablesStay
<1>1. Init => CallsServed
  BY DEF Init, CallsServed, UsedLocked, TablesStay
<1>2. CallsServed => TablesStay
  BY DEF CallsServed
<1> QED BY <1>1, <1>2, CallsServedStep, TypeCorrect, SerialInvariant, PTL DEF Spec

-----------------------------------------------------------------------------
(* Statements that fail *)

\* Run on its own, a script gets through from every schema of its revision...
Carried(script, from) ==
  \A S \in from : \A i \in 1..Len(script) : Possible(script[i], Through(script, S)[i - 1])

ScriptsCarried ==
  \A r \in 1..Newest : Carried(Up[r], Schemas[r - 1]) /\ Carried(Down[r], Schemas[r])

\* ... and the newest schema has what the calls name.
CallsKnown ==
  \A S \in Schemas[Newest], c \in Calls : \A i \in 1..Len(Plan[c]) :
    Serves(S, Plan[c][i].table, Plan[c][i].names)

LEMMA ScriptCarried ==
  ASSUME ScriptsCarried, TypeOK, NEW m \in Migrators, at[m] # target[m]
  PROVE  Carried(Script(m), Schemas[at[m]])
<1>1. at[m] \in 0..Newest /\ target[m] \in 0..Newest /\ Newest \in Nat
  BY HistoryAssumption DEF TypeOK, Newest
<1>2. CASE target[m] > at[m]
  <2>1. at[m] + 1 \in 1..Newest /\ (at[m] + 1) - 1 = at[m]
    BY <1>1, <1>2
  <2>2. Carried(Up[at[m] + 1], Schemas[(at[m] + 1) - 1])
    BY <2>1 DEF ScriptsCarried
  <2>3. Script(m) = Up[at[m] + 1]
    BY <1>2 DEF Script, Upgrading
  <2> QED BY <2>1, <2>2, <2>3
<1>3. CASE ~(target[m] > at[m])
  <2>1. at[m] \in 1..Newest
    BY <1>1, <1>3
  <2> QED BY <1>3, <2>1 DEF ScriptsCarried, Script, Upgrading
<1> QED BY <1>2, <1>3

\* What a command sees is where its script, run on its own, would have got to,
\* unless another command has moved the revision.
LEMMA SeenOnItsOwn ==
  ASSUME TypeOK, Serial, NEW m, InScript(m), ~Overtaken(m)
  PROVE  \E S \in Schemas[at[m]] : Seen(m) = Through(Script(m), S)[step[m]]
<1>1. m \in running \cap Migrators /\ at[m] # target[m] /\ Placed(m) /\ SchemaOfRevision
  BY DEF InScript, Moving, Serial
<1>2. CASE OwnsVersion(m)
  BY <1>1, <1>2 DEF Placed, Late
<1>3. CASE ~OwnsVersion(m)
  <2>1. schema \in Schemas[at[m]]
    BY <1>1, <1>3 DEF Overtaken, SchemaOfRevision
  <2>2. Changed(schema, m) = Through(Script(m), schema)[step[m]]
    BY <1>1, <1>3, <2>1 DEF Placed, Early, SameParts
  <2> QED BY <2>1, <2>2 DEF Seen, Changed
<1> QED BY <1>2, <1>3

LEMMA StatementsApply ==
  ASSUME ScriptsCarried, TypeOK, Serial, NEW m \in Migrators, ScriptRaises(m)
  PROVE  ~Buildable(NextStatement(m)) \/ Overtaken(m)
<1> SUFFICES ASSUME ~Overtaken(m)
             PROVE  ~Buildable(NextStatement(m)) \/ Possible(NextStatement(m), Seen(m))
  BY DEF ScriptRaises
<1>1. InScript(m) /\ at[m] # target[m]
  BY DEF ScriptRaises, InScript, Moving
<1>2. PICK S \in Schemas[at[m]] : Seen(m) = Through(Script(m), S)[step[m]]
  BY <1>1, SeenOnItsOwn
<1>3. step[m] + 1 \in 1..Len(Script(m)) /\ (step[m] + 1) - 1 = step[m]
  BY <1>1, NextStatementType
<1>4. Possible(Script(m)[step[m] + 1], Through(Script(m), S)[(step[m] + 1) - 1])
  BY <1>1, <1>3, ScriptCarried DEF Carried
<1> QED BY <1>2, <1>3, <1>4 DEF NextStatement

\* ScriptsApply: scripts that get through on their own also do beside any other
\* commands and calls, up or down; what is left to stop them is what Python
\* cannot build and a command that came first.
THEOREM ScriptsApplyCorrect ==
  ASSUME ScriptsCarried
  PROVE  Spec => ScriptsApply
<1>1. TypeOK /\ Serial /\ [Next]_vars =>
        [\A m \in Migrators :
           ScriptRaises(m) => ~Buildable(NextStatement(m)) \/ Overtaken(m)]_vars
  BY StatementsApply
<1> QED BY <1>1, TypeCorrect, SerialInvariant, PTL DEF Spec, ScriptsApply

LEMMA UsesServed ==
  ASSUME CallsKnown, TypeOK, Serial, NEW c \in Calls, UseRaises(c)
  PROVE  revision # Newest
<1>1. /\ InPlan(c) /\ ~Serves(schema, Use(c).table, Use(c).names)
      /\ schema \in Schemas[revision] /\ step[c] \in Nat
  BY DEF UseRaises, Serial, SchemaOfRevision, TypeOK, Tx
<1>2. step[c] + 1 \in 1..Len(Plan[c])
  <2>1. Len(Plan[c]) \in Nat
    BY UseAssumption
  <2> QED BY <1>1, <2>1 DEF InPlan
<1> QED BY <1>1, <1>2 DEF CallsKnown, Use

\* NewestServesCode: when the newest schema has what the calls name, no call
\* fails on it whatever commands are at work.
THEOREM NewestServesCodeCorrect ==
  ASSUME CallsKnown
  PROVE  Spec => NewestServesCode
<1>1. TypeOK /\ Serial /\ [Next]_vars => [\A c \in Calls : UseRaises(c) => revision # Newest]_vars
  BY UsesServed
<1> QED BY <1>1, TypeCorrect, SerialInvariant, PTL DEF Spec, NewestServesCode
=============================================================================
