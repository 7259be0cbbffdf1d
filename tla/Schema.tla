------------------------------- MODULE Schema -------------------------------
(***************************************************************************)
(* A PostgreSQL schema and the statements of a migration script, as far as *)
(* alembic/versions uses them.                                             *)
(*                                                                         *)
(* A schema is a set of objects [kind, table, name].  A column's kind says *)
(* what an INSERT that leaves it out gets: an error ("required"), a value  *)
(* ("defaulted") or NULL ("optional"); "vector" is a required column of    *)
(* the pgvector extension.  Lengths and types of the other columns are     *)
(* left out.  An index is named by its column; a reference, by the table   *)
(* it refers to.  An extension or a schema has its own name for a table.   *)
(***************************************************************************)
EXTENDS Naturals, Sequences

Object(kind, t, name) == [kind |-> kind, table |-> t, name |-> name]

Table(t)     == Object("table", t, t)
Index(t, c)  == Object("index", t, c)
Reference(t, to) == Object("reference", t, to)
Extension    == Object("extension", "vector", "vector")
AuditSchema  == Object("schema", "audit", "audit")

ColumnKinds == {"required", "defaulted", "optional", "vector"}

Columns(t, kind, names) == {Object(kind, t, c) : c \in names}

AuditEvents == "audit.audit_events"

-----------------------------------------------------------------------------
(* Statements *)

Statement(op, t, objects) ==
  [op |-> op, table |-> t, objects |-> objects, needsPgvector |-> FALSE]

CreateTable(t, objects) == Statement("create_table", t, {Table(t)} \cup objects)
DropTable(t)            == Statement("drop_table", t, {})
Add(object)             == Statement("add", object.table, {object})
Drop(object)            == Statement("drop", object.table, {object})
CreateIfMissing(object) == Statement("create_if_missing", object.table, {object})
DropIfPresent(object)   == Statement("drop_if_present", object.table, {object})

Dropped(s, S) ==
  IF s.op = "drop_table" THEN {o \in S : o.table = s.table}
  ELSE IF s.op \in {"drop", "drop_if_present"} THEN s.objects
  ELSE {}

Created(s) ==
  IF s.op \in {"create_table", "add", "create_if_missing"} THEN s.objects ELSE {}

\* The schema after a statement that PostgreSQL carries out.
After(s, S) == (S \ Dropped(s, S)) \cup Created(s)

\* What each object needs to exist.
NeedsMet(o, S) ==
  /\ o.kind \in ColumnKinds \cup {"index", "reference"} => Table(o.table) \in S
  /\ o.kind = "index" => \E k \in ColumnKinds : Object(k, o.table, o.name) \in S
  /\ o.kind = "reference" => Table(o.name) \in S
  /\ o.kind = "vector" => Extension \in S
  /\ o = Table(AuditEvents) => AuditSchema \in S

\* PostgreSQL refuses to create what exists, to drop what does not, and to
\* drop what others need (no script says CASCADE).
Possible(s, S) ==
  LET T == After(s, S) IN
  /\ s.op \in {"create_table", "add"} => s.objects \cap S = {}
  /\ s.op = "drop" => s.objects \subseteq S
  /\ s.op = "drop_table" => Table(s.table) \in S
  /\ \A o \in Created(s) : NeedsMet(o, T)
  /\ Dropped(s, S) # {} => \A o \in T : NeedsMet(o, T)

\* What a statement locks: its own table, extension or schema, and the tables
\* its foreign keys refer to.
Locked(s, S) ==
  {s.table} \cup {o.name : o \in {r \in Dropped(s, S) \cup Created(s) : r.kind = "reference"}}

\* A statement that names the given columns of table t finds them all, and
\* leaves out none that an INSERT must give.
Serves(S, t, names) ==
  /\ \A c \in names : \E k \in ColumnKinds : Object(k, t, c) \in S
  /\ \A o \in S : o.kind = "required" /\ o.table = t => o.name \in names

-----------------------------------------------------------------------------
(* Scripts *)

\* The schemas a script passes through, from S on.
Through(script, S) ==
  LET passed[i \in 0..Len(script)] ==
        IF i = 0 THEN S ELSE After(script[i], passed[i - 1])
  IN  passed

\* alembic_version is Alembic's own: no script names it.
VersionTable == "alembic_version"
Names        == STRING \ {VersionTable}

Objects ==
  [kind : ColumnKinds \cup {"table", "index", "reference", "extension", "schema"},
   table : Names, name : Names]

Statements ==
  {s \in [op : STRING, table : Names, objects : SUBSET Objects, needsPgvector : BOOLEAN] :
     \A o \in s.objects : o.table = s.table}

\* A SELECT or INSERT of the agent.
CallStatements == [table : Names, names : SUBSET Names]
=============================================================================
