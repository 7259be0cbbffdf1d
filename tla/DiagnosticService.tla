-------------------------- MODULE DiagnosticService --------------------------
(***************************************************************************)
(* The HTTP calls that submit and escalate complaints, the transaction     *)
(* each of them runs in and the database they share: app/api/intake.py,    *)
(* services/intake_service.py, services/diagnostic_service.py, the audit   *)
(* service, the repositories and db/session.py.                            *)
(*                                                                         *)
(* A call has one session for all its services, because get_db is resolved *)
(* once per request.  The session takes a connection from the pool of its  *)
(* process at its first statement.  The code after get_db's yield runs     *)
(* when the response has been sent, and before an error response is.       *)
(***************************************************************************)
EXTENDS CaseRows, FiniteSets

CONSTANTS
  Intakes,      \* POST /intake calls; each has its own request and correlation id
  Escalations,  \* POST /intake/{id}/escalate calls
  Target,       \* the request each escalation is about
  Processes,    \* API processes
  Home,         \* the process that serves each call
  Users,        \* OpenIAM user ids a login can resolve to
  Login,        \* the login id each intake names
  Results,      \* the results the funnel can return
  PoolSize,     \* connections a process may open
  MaxCrashes    \* bound on process crashes

Calls == Intakes \cup Escalations

ASSUME ServiceAssumption ==
  /\ Intakes \cap Escalations = {}
  /\ Target \in [Escalations -> Intakes]
  /\ Home \in [Calls -> Processes]
  /\ NoUser \notin Users
  /\ PoolSize \in Nat \ {0} /\ MaxCrashes \in Nat
  /\ \A res \in Results : res.verdicts # <<>> /\ res.escalated \in BOOLEAN

VARIABLES
  db,       \* committed rows
  session,  \* rows each call has flushed and not committed
  held,     \* calls that hold a connection
  pc,       \* where each call is
  subject,  \* the user a call is about
  found,    \* the run a call has made or read back
  answer,   \* what the client has been answered
  switch,   \* AGENT_KILL_SWITCH_ENABLED in the environment
  killed,   \* ... as each process read it when it started
  crashes   \* crashes so far

locals == <<subject, found>>
system == <<switch, killed, crashes>>
vars   == <<db, session, held, pc, locals, answer, system>>

NoAnswer == [kind |-> "none", result |-> NoResult]

Refusals == {"killed", "not_found", "error"}

Goto(c, label) == pc' = [pc EXCEPT ![c] = label]

Reply(c, kind, res) ==
  answer' = [answer EXCEPT ![c] = [kind |-> kind, result |-> res]]

\* flush(): visible to the call's own session only.
MutantFlush(c, row) == db' = db \cup {row} /\ UNCHANGED session

Flush(c, row) ==
  session' = [session EXCEPT ![c] = @ \cup {row}] /\ UNCHANGED db

Connected(p) == {c \in held : Home[c] = p}

\* The first statement of a session waits for a connection of the pool.
Connect(c) == Cardinality(Connected(Home[c])) < PoolSize /\ held' = held \cup {c}

\* get_db's `except`: nothing of the call is kept, the connection goes back.
MutantRollback(c) ==
  /\ session' = [session EXCEPT ![c] = {}]
  /\ UNCHANGED <<db, held>>
MutantKeepingRollback(c) ==
  /\ session' = [session EXCEPT ![c] = {}]
  /\ db' = db \cup session[c]
  /\ held' = held \ {c}

Rollback(c) ==
  /\ session' = [session EXCEPT ![c] = {}]
  /\ held' = held \ {c}
  /\ UNCHANGED db

\* An exception in the handler: roll back, then answer.
Fail(c, kind) ==
  /\ Rollback(c)
  /\ Reply(c, kind, NoResult)
  /\ Goto(c, "done")
  /\ UNCHANGED <<locals, system>>

-----------------------------------------------------------------------------
(* POST /intake *)

MutantKilled(c) == FALSE

Killed(c) == killed[Home[c]]

\* A call begins with the kill switch, before anything else.
Begin(c, label) ==
  /\ pc[c] = "idle"
  /\ \/ Killed(c) /\ Fail(c, "killed")
     \/ /\ ~Killed(c)
        /\ Goto(c, label)
        /\ UNCHANGED <<db, session, held, locals, answer, system>>

Submit(c) == c \in Intakes /\ Begin(c, "resolve")

\* An unknown system, or resolve_subject_sub: the first hit of OpenIAM's
\* search, none, or an exception.
Resolve(c) ==
  /\ pc[c] = "resolve"
  /\ \/ /\ subject' \in {[subject EXCEPT ![c] = u] : u \in Users}
        /\ Goto(c, "parse")
        /\ UNCHANGED <<db, session, held, found, answer, system>>
     \/ Fail(c, "not_found")
     \/ Fail(c, "error")

\* parse_complaint: the language model's answer, or an exception.
Parse(c) ==
  /\ pc[c] = "parse"
  /\ \/ Goto(c, "create") /\ UNCHANGED <<db, session, held, locals, answer, system>>
     \/ Fail(c, "error")

CreateRequest(c) ==
  /\ pc[c] = "create"
  /\ Connect(c)
  /\ Flush(c, RequestRow(c, subject[c]))
  /\ Goto(c, "received")
  /\ UNCHANGED <<locals, answer, system>>

\* A statement of a call that has its connection.
Store(c, row, from, to) ==
  /\ pc[c] = from
  /\ Flush(c, row)
  /\ Goto(c, to)
  /\ UNCHANGED <<held, locals, answer, system>>

RecordReceived(c) == Store(c, ReceivedRow(c, subject[c]), "received", "funnel")

\* orchestrator.run: slow, and the connection is held meanwhile.
RunFunnel(c) ==
  /\ pc[c] = "funnel"
  /\ found' \in {[found EXCEPT ![c] = res] : res \in Results}
  /\ Goto(c, "run")
  /\ UNCHANGED <<db, session, held, subject, answer, system>>

CreateRun(c) == Store(c, RunRow(c, subject[c], found[c]), "run", "completed")

RecordCompleted(c) ==
  Store(c, CompletedRow(c, subject[c], found[c]), "completed",
        IF found[c].escalated THEN "notify" ELSE "answer")

RecordEscalation(c) ==
  Store(c, EscalationRow(c, subject[c], found[c]), "notify", "answer")

-----------------------------------------------------------------------------
(* POST /intake/{id}/escalate *)

\* The client knows the id from the answer to its complaint.
Escalate(e) ==
  /\ e \in Escalations
  /\ answer[Target[e]].kind = "diagnosis"
  /\ Begin(e, "lookup")

\* get_request: committed rows only.
FindRequest(e) ==
  /\ pc[e] = "lookup"
  /\ \/ /\ Connect(e)
        /\ \E row \in db :
             /\ row.kind = "request" /\ row.request = Target[e]
             /\ subject' = [subject EXCEPT ![e] = row.subject]
        /\ Goto(e, "runs")
        /\ UNCHANGED <<db, session, found, answer, system>>
     \/ /\ Cardinality(Connected(Home[e])) < PoolSize
        /\ \A row \in db : ~(row.kind = "request" /\ row.request = Target[e])
        /\ Fail(e, "not_found")

MutantRunsFor(r) == {row \in db : row.kind = "run"}

\* list_runs_for_request, a statement of its own.
RunsFor(r) == {row \in db : row.kind = "run" /\ row.request = r}

ListRuns(e) ==
  /\ pc[e] = "runs"
  /\ \/ \E row \in RunsFor(Target[e]) : found' = [found EXCEPT ![e] = row.result]
     \/ RunsFor(Target[e]) = {} /\ UNCHANGED found
  /\ Goto(e, "note")
  /\ UNCHANGED <<db, session, held, subject, answer, system>>

RecordUserEscalation(e) ==
  Store(e, UserEscalationRow(e, Target[e], subject[e], found[e]), "note", "answer")

-----------------------------------------------------------------------------
(* Answers, commits and failures *)

\* The response leaves first ...
Answer(c) ==
  /\ pc[c] = "answer"
  /\ Reply(c, IF c \in Intakes THEN "diagnosis" ELSE "escalated", found[c])
  /\ Goto(c, "commit")
  /\ UNCHANGED <<db, session, held, locals, system>>

\* ... then the code after the yield commits and closes the session ...
Commit(c) ==
  /\ pc[c] = "commit"
  /\ db' = db \cup session[c]
  /\ session' = [session EXCEPT ![c] = {}]
  /\ held' = held \ {c}
  /\ Goto(c, "done")
  /\ UNCHANGED <<locals, answer, system>>

\* ... or fails to, which nobody can be told any more.
CommitFails(c) ==
  /\ pc[c] = "commit"
  /\ Rollback(c)
  /\ Goto(c, "done")
  /\ UNCHANGED <<locals, answer, system>>

Waiting == {"create", "lookup"}
Storing == {"received", "run", "completed", "notify", "runs", "note"}

\* The pool gives up on a call that has waited too long.
PoolTimeout(c) ==
  /\ pc[c] \in Waiting
  /\ Cardinality(Connected(Home[c])) >= PoolSize
  /\ Fail(c, "error")

\* The database refuses a connection or a statement.
DatabaseError(c) == pc[c] \in Waiting \cup Storing /\ Fail(c, "error")

\* A process dies, or is restarted: its transactions end, its calls are not
\* answered any more, and it reads its settings again.
Crash(p) ==
  LET mine == {c \in Calls : Home[c] = p /\ pc[c] # "idle"} IN
  /\ crashes < MaxCrashes
  /\ crashes' = crashes + 1
  /\ killed' = [killed EXCEPT ![p] = switch]
  /\ session' = [c \in Calls |-> IF c \in mine THEN {} ELSE session[c]]
  /\ held' = held \ mine
  /\ pc' = [c \in Calls |-> IF c \in mine THEN "done" ELSE pc[c]]
  /\ UNCHANGED <<db, locals, answer, switch>>

FlipSwitch ==
  /\ switch' = ~switch
  /\ UNCHANGED <<db, session, held, pc, locals, answer, killed, crashes>>

\* What a call that has begun does without anybody's help.
Continue(c) ==
  \/ Resolve(c) \/ Parse(c) \/ CreateRequest(c) \/ RecordReceived(c)
  \/ RunFunnel(c) \/ CreateRun(c) \/ RecordCompleted(c) \/ RecordEscalation(c)
  \/ FindRequest(c) \/ ListRuns(c) \/ RecordUserEscalation(c)
  \/ Answer(c) \/ Commit(c)

Next ==
  \/ \E c \in Calls :
       \/ Submit(c) \/ Escalate(c) \/ Continue(c)
       \/ CommitFails(c) \/ PoolTimeout(c) \/ DatabaseError(c)
  \/ \E p \in Processes : Crash(p)
  \/ FlipSwitch

Init ==
  /\ db = {} /\ session = [c \in Calls |-> {}] /\ held = {}
  /\ pc = [c \in Calls |-> "idle"]
  /\ subject = [c \in Calls |-> NoUser] /\ found = [c \in Calls |-> NoResult]
  /\ answer = [c \in Calls |-> NoAnswer]
  /\ switch \in BOOLEAN /\ killed = [p \in Processes |-> switch] /\ crashes = 0

\* OpenIAM, the language model and the database answer or time out.  The
\* pool's own timeout is not among what keeps a call going.
Fairness == \A c \in Calls : WF_vars(Continue(c))

Spec == Init /\ [][Next]_vars /\ Fairness

-----------------------------------------------------------------------------
(* Properties *)

Kinds == {"request", "run"} \cup AuditKinds

Rows == [kind : Kinds, request : Intakes, by : Calls, subject : Users,
         result : Results \cup {NoResult}]

\* Type correctness.
TypeOK ==
  /\ db \subseteq Rows
  /\ session \in [Calls -> SUBSET Rows]
  /\ held \subseteq Calls
  /\ pc \in [Calls -> {"idle", "resolve", "parse", "funnel", "answer", "commit", "done"}
                        \cup Waiting \cup Storing]
  /\ subject \in [Calls -> Users \cup {NoUser}]
  /\ found \in [Calls -> Results \cup {NoResult}]
  /\ answer \in [Calls -> [kind : Refusals \cup {"none", "diagnosis", "escalated"},
                           result : Results \cup {NoResult}]]
  /\ switch \in BOOLEAN /\ killed \in [Processes -> BOOLEAN] /\ crashes \in Nat

\* The database keeps what CaseFile promises: cases are stored whole or not
\* at all and escalations quote a stored case, though each is written by
\* several statements among those of other calls and any of them may fail.
Promised == INSTANCE CaseFile

ImplementsCaseFile == Promised!Spec

\* A client that is told its call failed can send it again: nothing of a
\* refused call is in the database, then or later.
RefusedLeavesNothing ==
  \A c \in Calls : answer[c].kind \in Refusals =>
    session[c] = {} /\ \A row \in db : row.by # c

\* A user who escalates hands over the run whose diagnosis they were given,
\* is told about the step it ended at, never the generic sentence, and is
\* offered a reset link exactly if that diagnosis offered one.
EscalationCarriesRun ==
  \A e \in Escalations : answer[e].kind = "escalated" =>
    LET told   == answer[Target[e]]
        quoted == answer[e].result
    IN  /\ told.kind = "diagnosis" /\ quoted = told.result
        /\ EscalationScenario(quoted) = Last(told.result.verdicts).step
        /\ EscalationLink(quoted) = MessageLink(told.result)

\* A process that was started under the kill switch does nothing for a call
\* but refuse it, whatever was in flight when it restarted.
KillSwitchHolds ==
  \A c \in Calls : killed[Home[c]] => pc[c] \in {"idle", "done"}

\* A call that has begun ends and gives its connection back, although it may
\* have to wait for the connection of a call that waits for OpenIAM.
EveryCallEnds ==
  \A c \in Calls : pc[c] # "idle" ~> pc[c] = "done" /\ c \notin held

\* api/intake.py:68-69: an outcome that did not help can be escalated.  A
\* client that uses the id it was answered is not told that it is unknown.
EscalationFindsRequest ==
  \A e \in Escalations : answer[e].kind # "not_found"

\* AuditRepository.query, by the subject of an event.
AuditEventsAbout(who) == {row \in db : row.kind \in AuditKinds /\ row.subject = who}

\* AuditService.query: without a role, and no caller has one, the reader's own
\* identity replaces any subject asked for.  It is the login of X-Login-Id.
Visible(login) == AuditEventsAbout(login)

\* audit/service.py:33-35: a self-service user reads about their own subject.
\* Whoever submitted a complaint finds what was recorded about it.
OwnEventsVisible ==
  \A c \in Intakes : (\E row \in db : row.by = c) => Visible(Login[c]) # {}
=============================================================================
