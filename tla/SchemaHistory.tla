---------------------------- MODULE SchemaHistory ----------------------------
(***************************************************************************)
(* The database schema as the migration scripts of alembic/versions make   *)
(* it, revision by revision, and as the ORM classes of app/models expect   *)
(* it.                                                                     *)
(***************************************************************************)
EXTENDS Schema

-----------------------------------------------------------------------------
(* The tables of the removed RAG feature *)

RagDocuments ==
  CreateTable("rag_documents",
    Columns("rag_documents", "required", {"id", "source_url", "title", "content_hash"})
      \cup Columns("rag_documents", "defaulted", {"last_crawled_at", "created_at"}))

RagChunks ==
  CreateTable("rag_chunks",
    Columns("rag_chunks", "required", {"id", "document_id", "chunk_index", "content"})
      \cup Columns("rag_chunks", "vector", {"embedding"})
      \cup Columns("rag_chunks", "defaulted", {"created_at"})
      \cup {Reference("rag_chunks", "rag_documents")})

RagConversations ==
  CreateTable("rag_conversations",
    Columns("rag_conversations", "required", {"id", "client_identifier"})
      \cup Columns("rag_conversations", "defaulted", {"created_at", "last_active_at"}))

RagMessages ==
  CreateTable("rag_messages",
    Columns("rag_messages", "required", {"id", "conversation_id", "role", "content"})
      \cup Columns("rag_messages", "optional", {"citations"})
      \cup Columns("rag_messages", "defaulted", {"created_at"})
      \cup {Reference("rag_messages", "rag_conversations")})

SourceType == Object("defaulted", "rag_documents", "source_type")

\* 7db1985defdf.  Vector(...) is called when the column list of rag_chunks is
\* built, and is None unless the pgvector package can be imported.
AddRagTables ==
  <<CreateIfMissing(Extension),
    RagDocuments, Add(Index("rag_documents", "source_url")),
    [RagChunks EXCEPT !.needsPgvector = TRUE],
    Add(Index("rag_chunks", "document_id")), Add(Index("rag_chunks", "embedding"))>>

RemoveRagTables ==
  <<Drop(Index("rag_chunks", "embedding")), Drop(Index("rag_chunks", "document_id")),
    DropTable("rag_chunks"),
    Drop(Index("rag_documents", "source_url")), DropTable("rag_documents")>>

\* 2653374f8e2e
AddConversations ==
  <<Add(SourceType), RagConversations, RagMessages,
    Add(Index("rag_messages", "conversation_id"))>>

RemoveConversations ==
  <<Drop(Index("rag_messages", "conversation_id")), DropTable("rag_messages"),
    DropTable("rag_conversations"), Drop(SourceType)>>

\* 373f9dfc6dfc
DropSourceType    == <<Drop(SourceType)>>
RestoreSourceType == <<Add(SourceType)>>

\* aa5155dd0a1a; its downgrade() is written in SQL and needs no package.
MutantDropRagTables ==
  <<DropTable("rag_messages"), DropTable("rag_conversations"),
    DropTable("rag_documents"), DropTable("rag_chunks"), DropIfPresent(Extension)>>

DropRagTables ==
  <<DropTable("rag_messages"), DropTable("rag_conversations"),
    DropTable("rag_chunks"), DropTable("rag_documents"), DropIfPresent(Extension)>>

RestoreRagTables ==
  <<CreateIfMissing(Extension),
    RagDocuments, Add(Index("rag_documents", "source_url")),
    RagChunks,
    Add(Index("rag_chunks", "document_id")), Add(Index("rag_chunks", "embedding")),
    RagConversations, RagMessages, Add(Index("rag_messages", "conversation_id"))>>

-----------------------------------------------------------------------------
(* The tables of the agent *)

AuditTable ==
  CreateTable(AuditEvents,
    Columns(AuditEvents, "required",
            {"id", "correlation_id", "requester_sub", "diagnostic_subject_sub",
             "event_type", "visibility_tier", "payload"})
      \cup Columns(AuditEvents, "defaulted", {"occurred_at"}))

RequestTable ==
  CreateTable("diagnostic_requests",
    Columns("diagnostic_requests", "required",
            {"id", "correlation_id", "requester_sub", "subject_sub", "system_id",
             "raw_complaint_text", "parsed_draft"})
      \cup Columns("diagnostic_requests", "defaulted", {"created_at"}))

RunTable ==
  CreateTable("diagnostic_runs",
    Columns("diagnostic_runs", "required",
            {"id", "request_id", "correlation_id", "step_verdicts", "outcome", "escalated"})
      \cup Columns("diagnostic_runs", "defaulted", {"started_at"})
      \cup Columns("diagnostic_runs", "optional", {"completed_at"})
      \cup {Reference("diagnostic_runs", "diagnostic_requests")})

ActionTable ==
  CreateTable("remediation_actions",
    Columns("remediation_actions", "required",
            {"id", "diagnostic_run_id", "playbook_id", "tier"})
      \cup Columns("remediation_actions", "defaulted", {"status", "created_at"})
      \cup Columns("remediation_actions", "optional",
                   {"approval_id", "rollback_data", "executed_at"})
      \cup {Reference("remediation_actions", "diagnostic_runs")})

MutantResetUrl == Object("optional", "diagnostic_runs", "reset_url")

ResetUrl == Object("optional", "diagnostic_runs", "password_reset_url")

\* a8ea2cc3213a
AddAgentTables ==
  <<CreateIfMissing(AuditSchema),
    AuditTable, Add(Index(AuditEvents, "correlation_id")),
    RequestTable, Add(Index("diagnostic_requests", "correlation_id")),
    RunTable, Add(Index("diagnostic_runs", "correlation_id")),
    ActionTable>>

RemoveAgentTables ==
  <<DropTable("remediation_actions"),
    Drop(Index("diagnostic_runs", "correlation_id")), DropTable("diagnostic_runs"),
    Drop(Index("diagnostic_requests", "correlation_id")), DropTable("diagnostic_requests"),
    Drop(Index(AuditEvents, "correlation_id")), DropTable(AuditEvents),
    DropIfPresent(AuditSchema)>>

\* 9708c0a66ee1
AddResetUrl    == <<Add(ResetUrl)>>
RemoveResetUrl == <<Drop(ResetUrl)>>

\* What app/models declares.  Every statement of the agent names all columns
\* of the class, whether it reads rows or inserts one.
ModelColumns ==
  [audit |-> {"id", "correlation_id", "requester_sub", "diagnostic_subject_sub",
              "event_type", "visibility_tier", "payload", "occurred_at"},
   requests |-> {"id", "correlation_id", "requester_sub", "subject_sub", "system_id",
                 "raw_complaint_text", "parsed_draft", "created_at"},
   runs |-> {"id", "request_id", "correlation_id", "step_verdicts", "outcome",
             "escalated", "password_reset_url", "started_at", "completed_at"}]

Uses(t, names) == [table |-> t, names |-> names]

UsesAudit   == Uses(AuditEvents, ModelColumns.audit)
UsesRequests == Uses("diagnostic_requests", ModelColumns.requests)
UsesRuns     == Uses("diagnostic_runs", ModelColumns.runs)

\* The statements of POST /intake in order.
ComplaintPlan == <<UsesRequests, UsesAudit, UsesRuns, UsesAudit>>

-----------------------------------------------------------------------------
(* The chain of revisions: revision r is what script r leaves, 0 is an     *)
(* empty database.                                                         *)

Upgrades ==
  <<AddRagTables, AddConversations, DropSourceType, DropRagTables, AddAgentTables, AddResetUrl>>

Downgrades ==
  <<RemoveRagTables, RemoveConversations, RestoreSourceType, RestoreRagTables,
    RemoveAgentTables, RemoveResetUrl>>

UpgradedTo[r \in 0..Len(Upgrades)] ==
  IF r = 0 THEN {}
  ELSE Through(Upgrades[r], UpgradedTo[r - 1])[Len(Upgrades[r])]

\* 7db1985defdf leaves the extension installed when it is taken back.
SchemasAt ==
  [r \in 0..Len(Upgrades) |->
     IF r = 0 THEN {UpgradedTo[0], {Extension}} ELSE {UpgradedTo[r]}]
=============================================================================
