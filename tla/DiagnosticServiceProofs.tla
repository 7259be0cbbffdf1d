----------------------- MODULE DiagnosticServiceProofs -----------------------
(***************************************************************************)
(* What holds of DiagnosticService for any number of calls, processes and  *)
(* connections: the database implements CaseFile, a refused call leaves    *)
(* nothing behind, an escalation quotes the run its user was told of, and  *)
(* the kill switch stops everything.                                       *)
(***************************************************************************)
EXTENDS DiagnosticService, TLAPS

-----------------------------------------------------------------------------
(* Rows *)

LEMMA RowFacts ==
  ASSUME NEW r \in Intakes, NEW e \in Calls, NEW who \in Users,
         NEW res \in Results
  PROVE  /\ Case(r, who, res) \subseteq Rows
         /\ UserEscalationRow(e, r, who, res) \in Rows
  BY DEF Case, RequestRow, ReceivedRow, RunRow, CompletedRow, EscalationRow,
     UserEscalationRow, Row, Rows, Kinds, AuditKinds, Calls

\* Who wrote a row, what it is about and which kind it has.
LEMMA CaseFields ==
  ASSUME NEW r, NEW who, NEW res, NEW row \in Case(r, who, res)
  PROVE  row.request = r /\ row.by = r /\ row.subject = who
  BY DEF Case, RequestRow, ReceivedRow, RunRow, CompletedRow, EscalationRow, Row

LEMMA EscalationFields ==
  ASSUME NEW e, NEW r, NEW who, NEW res
  PROVE  LET row == UserEscalationRow(e, r, who, res) IN
         /\ row.request = r /\ row.by = e /\ row.subject = who
         /\ row.kind = "user_escalation" /\ row.result = res
  BY DEF UserEscalationRow, Row

LEMMA CaseKinds ==
  ASSUME NEW r, NEW who, NEW res, NEW row \in Case(r, who, res)
  PROVE  /\ row.kind = "request" => row.subject = who
         /\ row.kind = "run" => row.result = res
         /\ row.kind # "user_escalation"
  BY DEF Case, RequestRow, ReceivedRow, RunRow, CompletedRow, EscalationRow, Row

LEMMA CaseHasRequestAndRun ==
  ASSUME NEW r, NEW who, NEW res
  PROVE  /\ RequestRow(r, who) \in Case(r, who, res)
         /\ RunRow(r, who, res) \in Case(r, who, res)
         /\ RequestRow(r, who).kind = "request"
         /\ RunRow(r, who, res).kind = "run"
  BY DEF Case, RequestRow, RunRow, Row

-----------------------------------------------------------------------------
(* The inductive invariant *)

\* What a call knows: the subject once it is resolved, the run once it is
\* made, and for an escalation those of the stored case.
Resolved ==
  {"parse", "create", "received", "funnel", "run", "completed", "notify", "answer",
   "commit"}

Diagnosed == {"completed", "notify", "answer", "commit"}

Knows(c) ==
  /\ pc[c] \in Resolved => subject[c] \in Users
  /\ pc[c] \in Diagnosed \cup {"run"} => found[c] \in Results
  /\ pc[c] = "notify" => found[c].escalated
  /\ pc[c] \notin {"lookup", "runs", "note"}

\* The rows an intake has flushed when it is at a step.
Written(c) ==
  LET who == subject[c]
      res == found[c]
      at  == pc[c]
  IN
  CASE at = "received"         -> {RequestRow(c, who)}
    [] at \in {"funnel", "run"} -> {RequestRow(c, who), ReceivedRow(c, who)}
    [] at = "completed"        -> {RequestRow(c, who), ReceivedRow(c, who),
                                   RunRow(c, who, res)}
    [] at = "notify"           -> {RequestRow(c, who), ReceivedRow(c, who),
                                   RunRow(c, who, res), CompletedRow(c, who, res)}
    [] at \in {"answer", "commit"} -> Case(c, who, res)
    [] OTHER                   -> {}

IntakeInv == \A c \in Intakes : Knows(c) /\ session[c] = Written(c)

\* What the database holds about a request is its case and its users'
\* escalations, and the calls that wrote them are over.
Stored(r) == Case(r, subject[r], found[r])

Quote(e) == UserEscalationRow(e, Target[e], subject[Target[e]], found[Target[e]])

\* The request of a row that is stored.
Filed(r) ==
  /\ r \in Intakes /\ pc[r] = "done"
  /\ subject[r] \in Users /\ found[r] \in Results
  /\ answer[r] = [kind |-> "diagnosis", result |-> found[r]]
  /\ Stored(r) \subseteq db

Traced(row) ==
  /\ Filed(row.request)
  /\ \/ row \in Stored(row.request)
     \/ \E e \in Escalations :
          /\ row = Quote(e) /\ Target[e] = row.request
          /\ pc[e] = "done" /\ answer[e].kind = "escalated"

DbInv == \A row \in db : Traced(row)

\* An escalation works on a stored case and quotes it.
Escalates(e) ==
  /\ pc[e] \in {"idle", "lookup", "runs", "note", "answer", "commit", "done"}
  /\ pc[e] \in {"runs", "note", "answer", "commit"} =>
       Filed(Target[e]) /\ subject[e] = subject[Target[e]]
  /\ pc[e] \in {"note", "answer", "commit"} => found[e] = found[Target[e]]
  /\ session[e] = IF pc[e] \in {"answer", "commit"} THEN {Quote(e)} ELSE {}
  /\ answer[e].kind = "escalated" =>
       Filed(Target[e]) /\ answer[e].result = found[Target[e]]

EscalationInv == \A e \in Escalations : Escalates(e)

\* Who has been answered what.
Answered(c) ==
  /\ answer[c].kind \in Refusals => pc[c] = "done"
  /\ answer[c].kind = "diagnosis" => c \in Intakes /\ answer[c].result = found[c]
  /\ answer[c].kind = "escalated" => c \in Escalations
  /\ pc[c] = "commit" =>
       answer[c].kind = IF c \in Intakes THEN "diagnosis" ELSE "escalated"
  /\ pc[c] \in {"commit", "done"} \/ answer[c] = NoAnswer

AnswerInv == \A c \in Calls : Answered(c)

Inv == TypeOK /\ IntakeInv /\ DbInv /\ EscalationInv /\ AnswerInv

-----------------------------------------------------------------------------
(* Types *)

LEMMA GotoType ==
  ASSUME TypeOK, NEW c \in Calls, NEW label, Goto(c, label),
         label \in {"idle", "resolve", "parse", "funnel", "answer", "commit", "done"}
                     \cup Waiting \cup Storing
  PROVE  pc' \in [Calls -> {"idle", "resolve", "parse", "funnel", "answer",
                            "commit", "done"} \cup Waiting \cup Storing]
  BY DEF Goto, TypeOK

LEMMA FailType ==
  ASSUME TypeOK, NEW c \in Calls, NEW kind \in Refusals, Fail(c, kind)
  PROVE  TypeOK'
  <1>1. pc' \in [Calls -> {"idle", "resolve", "parse", "funnel", "answer",
                           "commit", "done"} \cup Waiting \cup Storing]
    BY GotoType DEF Fail
  <1>2. session' \in [Calls -> SUBSET Rows]
    BY DEF Fail, Rollback, TypeOK
  <1>3. answer' \in [Calls -> [kind : Refusals \cup {"none", "diagnosis", "escalated"},
                               result : Results \cup {NoResult}]]
    BY DEF Fail, Reply, TypeOK
  <1> QED
    BY <1>1, <1>2, <1>3 DEF Fail, Rollback, TypeOK, locals, system

LEMMA StoreType ==
  ASSUME TypeOK, NEW c \in Calls, NEW row \in Rows, NEW from, NEW to,
         Store(c, row, from, to),
         to \in {"funnel", "answer"} \cup Storing
  PROVE  TypeOK'
  <1>1. pc' \in [Calls -> {"idle", "resolve", "parse", "funnel", "answer",
                           "commit", "done"} \cup Waiting \cup Storing]
    BY GotoType DEF Store
  <1>2. session' \in [Calls -> SUBSET Rows]
    BY DEF Store, Flush, TypeOK
  <1> QED
    BY <1>1, <1>2 DEF Store, Flush, TypeOK, locals, system

\* Which endpoint a call belongs to is clear from the step it is at.
LEMMA IntakeSteps ==
  ASSUME EscalationInv, NEW c \in Calls,
         pc[c] \in {"resolve", "parse", "create", "received", "funnel", "run",
                    "completed", "notify"}
  PROVE  c \in Intakes
  BY DEF EscalationInv, Escalates, Calls

LEMMA EscalationSteps ==
  ASSUME IntakeInv, NEW c \in Calls, pc[c] \in {"lookup", "runs", "note"}
  PROVE  c \in Escalations
  BY DEF IntakeInv, Knows, Calls

\* The steps of one call.
CallStep(c) ==
  \/ Submit(c) \/ Escalate(c) \/ Continue(c)
  \/ CommitFails(c) \/ PoolTimeout(c) \/ DatabaseError(c)

LEMMA TypeStep ==
  ASSUME Inv, NEW c \in Calls, CallStep(c)
  PROVE  TypeOK'
  <1> USE DEF Inv
  <1> DEFINE Labels == {"idle", "resolve", "parse", "funnel", "answer", "commit",
                        "done"} \cup Waiting \cup Storing
  <1>1. CASE \E label \in {"resolve", "lookup"} : Begin(c, label)
    <2> PICK label \in {"resolve", "lookup"} : Begin(c, label)
      BY <1>1
    <2>1. CASE Fail(c, "killed")
      BY <2>1, FailType DEF Refusals
    <2>2. CASE ~Killed(c) /\ Goto(c, label)
               /\ UNCHANGED <<db, session, held, locals, answer, system>>
      <3>1. pc' \in [Calls -> Labels]
        BY <2>2, GotoType DEF Waiting
      <3> QED
        BY <2>2, <3>1 DEF TypeOK, locals, system
    <2> QED
      BY <2>1, <2>2 DEF Begin
  <1>2. CASE \E kind \in Refusals : Fail(c, kind)
    BY <1>2, FailType
  <1>3. CASE Resolve(c) /\ ~\E kind \in Refusals : Fail(c, kind)
    <2>1. pc' \in [Calls -> Labels]
      BY <1>3, GotoType DEF Resolve, Refusals
    <2>2. subject' \in [Calls -> Users \cup {NoUser}]
      BY <1>3 DEF Resolve, TypeOK, Refusals
    <2> QED
      BY <1>3, <2>1, <2>2 DEF Resolve, Refusals, TypeOK, locals, system
  <1>4. CASE Parse(c) /\ ~\E kind \in Refusals : Fail(c, kind)
    <2>1. pc' \in [Calls -> Labels]
      BY <1>4, GotoType DEF Parse, Refusals, Waiting
    <2> QED
      BY <1>4, <2>1 DEF Parse, Refusals, TypeOK, locals, system
  <1>5. CASE CreateRequest(c)
    <2>1. RequestRow(c, subject[c]) \in Rows
      BY <1>5, IntakeSteps
         DEF CreateRequest, IntakeInv, Knows, Resolved, RequestRow, Row, Rows, Kinds,
             Calls
    <2>2. pc' \in [Calls -> Labels]
      BY <1>5, GotoType DEF CreateRequest, Storing
    <2>3. session' \in [Calls -> SUBSET Rows]
      BY <1>5, <2>1 DEF CreateRequest, Flush, TypeOK
    <2> QED
      BY <1>5, <2>2, <2>3 DEF CreateRequest, Flush, Connect, TypeOK, locals, system
  <1>6. CASE RecordReceived(c)
    <2>1. ReceivedRow(c, subject[c]) \in Rows
      BY <1>6, IntakeSteps
         DEF RecordReceived, Store, IntakeInv, Knows, Resolved, ReceivedRow, Row,
             Rows, Kinds, AuditKinds, Calls
    <2> QED
      BY <1>6, <2>1, StoreType DEF RecordReceived
  <1>7. CASE RunFunnel(c)
    <2>1. pc' \in [Calls -> Labels]
      BY <1>7, GotoType DEF RunFunnel, Storing
    <2>2. found' \in [Calls -> Results \cup {NoResult}]
      BY <1>7 DEF RunFunnel, TypeOK
    <2> QED
      BY <1>7, <2>1, <2>2 DEF RunFunnel, TypeOK, system
  <1>8. CASE CreateRun(c) \/ RecordCompleted(c) \/ RecordEscalation(c)
    <2>1. /\ pc[c] \in {"run", "completed", "notify"}
          /\ c \in Intakes /\ subject[c] \in Users /\ found[c] \in Results
      BY <1>8, IntakeSteps
         DEF CreateRun, RecordCompleted, RecordEscalation, Store, IntakeInv, Knows,
             Resolved, Diagnosed
    <2>2. /\ RunRow(c, subject[c], found[c]) \in Rows
          /\ CompletedRow(c, subject[c], found[c]) \in Rows
          /\ EscalationRow(c, subject[c], found[c]) \in Rows
      BY <2>1 DEF RunRow, CompletedRow, EscalationRow, Row, Rows, Kinds, AuditKinds,
                  Calls
    <2>3. CASE CreateRun(c)
      BY <2>2, <2>3, StoreType DEF CreateRun, Storing
    <2>4. CASE RecordCompleted(c)
      <3>1. (IF found[c].escalated THEN "notify" ELSE "answer")
              \in {"funnel", "answer"} \cup Storing
        BY DEF Storing
      <3> QED
        BY <2>2, <2>4, <3>1, StoreType DEF RecordCompleted
    <2>5. CASE RecordEscalation(c)
      BY <2>2, <2>5, StoreType DEF RecordEscalation
    <2> QED
      BY <1>8, <2>3, <2>4, <2>5
  <1>9. CASE FindRequest(c) /\ ~\E kind \in Refusals : Fail(c, kind)
    <2>1. PICK row \in db : subject' = [subject EXCEPT ![c] = row.subject]
      BY <1>9 DEF FindRequest, Refusals
    <2>2. subject' \in [Calls -> Users \cup {NoUser}]
      BY <2>1 DEF TypeOK, Rows
    <2>3. pc' \in [Calls -> Labels]
      BY <1>9, GotoType DEF FindRequest, Refusals, Storing
    <2> QED
      BY <1>9, <2>2, <2>3 DEF FindRequest, Refusals, Connect, TypeOK, system
  <1>10. CASE ListRuns(c)
    <2>1. found' \in [Calls -> Results \cup {NoResult}]
      BY <1>10 DEF ListRuns, RunsFor, TypeOK, Rows
    <2>2. pc' \in [Calls -> Labels]
      BY <1>10, GotoType DEF ListRuns, Storing
    <2> QED
      BY <1>10, <2>1, <2>2 DEF ListRuns, TypeOK, system
  <1>11. CASE RecordUserEscalation(c)
    <2>1. c \in Escalations /\ Filed(Target[c]) /\ subject[c] = subject[Target[c]]
          /\ found[c] = found[Target[c]]
      BY <1>11, EscalationSteps
         DEF RecordUserEscalation, Store, EscalationInv, Escalates
    <2>2. UserEscalationRow(c, Target[c], subject[c], found[c]) \in Rows
      BY <2>1, RowFacts DEF Filed
    <2> QED
      BY <1>11, <2>2, StoreType DEF RecordUserEscalation
  <1>12. CASE Answer(c)
    <2>1. pc' \in [Calls -> Labels]
      BY <1>12, GotoType DEF Answer
    <2>2. answer' \in [Calls -> [kind : Refusals \cup {"none", "diagnosis", "escalated"},
                                 result : Results \cup {NoResult}]]
      BY <1>12 DEF Answer, Reply, TypeOK
    <2> QED
      BY <1>12, <2>1, <2>2 DEF Answer, TypeOK, locals, system
  <1>13. CASE Commit(c) \/ CommitFails(c)
    <2>1. pc' \in [Calls -> Labels]
      BY <1>13, GotoType DEF Commit, CommitFails
    <2>2. session' \in [Calls -> SUBSET Rows] /\ db' \subseteq Rows
      BY <1>13 DEF Commit, CommitFails, Rollback, TypeOK
    <2> QED
      BY <1>13, <2>1, <2>2 DEF Commit, CommitFails, Rollback, TypeOK, locals, system
  <1>14. CASE PoolTimeout(c) \/ DatabaseError(c)
    BY <1>14, FailType DEF PoolTimeout, DatabaseError, Refusals
  <1> QED
    BY <1>1, <1>2, <1>3, <1>4, <1>5, <1>6, <1>7, <1>8, <1>9, <1>10, <1>11, <1>12,
       <1>13, <1>14
       DEF CallStep, Submit, Escalate, Continue

-----------------------------------------------------------------------------
(* What a step of one call leaves alone *)

\* The other calls, and every row that is committed.
Frame(c) ==
  /\ \A d \in Calls \ {c} :
       /\ session'[d] = session[d] /\ pc'[d] = pc[d] /\ subject'[d] = subject[d]
       /\ found'[d] = found[d] /\ answer'[d] = answer[d]
  /\ db \subseteq db'

\* What the actions' own operators do to the call and to the others.
LEMMA GotoAt ==
  ASSUME TypeOK, NEW c \in Calls, NEW label, Goto(c, label)
  PROVE  pc'[c] = label /\ \A d \in Calls \ {c} : pc'[d] = pc[d]
  BY DEF Goto, TypeOK

LEMMA FailAt ==
  ASSUME TypeOK, NEW c \in Calls, NEW kind, Fail(c, kind)
  PROVE  /\ pc'[c] = "done" /\ session'[c] = {} /\ answer'[c].kind = kind
         /\ db' = db /\ Frame(c)
  <1>1. pc'[c] = "done" /\ \A d \in Calls \ {c} : pc'[d] = pc[d]
    BY GotoAt DEF Fail
  <1>2. session'[c] = {} /\ \A d \in Calls \ {c} : session'[d] = session[d]
    BY DEF Fail, Rollback, TypeOK
  <1>3. /\ answer'[c].kind = kind
        /\ \A d \in Calls \ {c} : answer'[d] = answer[d]
    BY DEF Fail, Reply, TypeOK
  <1> QED
    BY <1>1, <1>2, <1>3 DEF Fail, Rollback, Frame, locals

LEMMA StoreAt ==
  ASSUME TypeOK, NEW c \in Calls, NEW row, NEW from, NEW to, Store(c, row, from, to)
  PROVE  /\ pc[c] = from /\ pc'[c] = to
         /\ session'[c] = session[c] \cup {row}
         /\ UNCHANGED <<db, subject, found, answer>> /\ Frame(c)
  <1>1. pc'[c] = to /\ \A d \in Calls \ {c} : pc'[d] = pc[d]
    BY GotoAt DEF Store
  <1>2. /\ session'[c] = session[c] \cup {row}
        /\ \A d \in Calls \ {c} : session'[d] = session[d]
    BY DEF Store, Flush, TypeOK
  <1> QED
    BY <1>1, <1>2 DEF Store, Flush, Frame, locals

\* A filed request stays as it is, whatever another call does.
LEMMA FiledStays ==
  ASSUME TypeOK, NEW c \in Calls, Frame(c), pc[c] # "done",
         NEW r, Filed(r)
  PROVE  Filed(r)' /\ r # c /\ subject'[r] = subject[r] /\ found'[r] = found[r]
  <1>1. r \in Calls \ {c}
    BY DEF Filed, Calls
  <1>2. UNCHANGED <<pc[r], subject[r], found[r], answer[r]>>
    BY <1>1 DEF Frame
  <1>3. Stored(r)' = Stored(r)
    BY <1>2 DEF Stored
  <1> QED
    BY <1>1, <1>2, <1>3 DEF Filed, Frame

\* The other calls keep their parts of the invariant.
LEMMA OthersKeep ==
  ASSUME Inv, NEW c \in Calls, Frame(c), pc[c] # "done"
  PROVE  /\ \A d \in Intakes \ {c} : Knows(d)' /\ session'[d] = Written(d)'
         /\ \A e \in Escalations \ {c} : Escalates(e)'
         /\ \A d \in Calls \ {c} : Answered(d)'
  <1> USE DEF Inv
  <1>1. ASSUME NEW d \in Intakes \ {c}
        PROVE  Knows(d)' /\ session'[d] = Written(d)'
    <2>1. UNCHANGED <<session[d], pc[d], subject[d], found[d]>>
      BY DEF Frame, Calls
    <2>2. Knows(d) /\ session[d] = Written(d)
      BY DEF IntakeInv
    <2>3. Knows(d)'
      BY <2>1, <2>2 DEF Knows
    <2>4. Written(d)' = Written(d)
      BY <2>1 DEF Written
    <2> QED
      BY <2>1, <2>2, <2>3, <2>4
  <1>2. ASSUME NEW e \in Escalations \ {c}
        PROVE  Escalates(e)'
    <2>1. UNCHANGED <<session[e], pc[e], subject[e], found[e], answer[e]>>
      BY DEF Frame, Calls
    <2>2. Escalates(e)
      BY DEF EscalationInv
    <2>3. Filed(Target[e]) =>
            /\ Filed(Target[e])' /\ Quote(e)' = Quote(e)
            /\ subject'[Target[e]] = subject[Target[e]]
            /\ found'[Target[e]] = found[Target[e]]
      BY FiledStays DEF Quote
    <2> QED
      BY <2>1, <2>2, <2>3 DEF Escalates
  <1>3. ASSUME NEW d \in Calls \ {c}
        PROVE  Answered(d)'
    <2>1. UNCHANGED <<pc[d], found[d], answer[d]>>
      BY DEF Frame
    <2> QED
      BY <2>1 DEF AnswerInv, Answered
  <1> QED
    BY <1>1, <1>2, <1>3

\* So do the rows that are committed.
LEMMA RowsKeep ==
  ASSUME Inv, NEW c \in Calls, Frame(c), pc[c] # "done", NEW row \in db
  PROVE  Traced(row)'
  <1>1. Traced(row)
    BY DEF Inv, DbInv
  <1>2. /\ Filed(row.request)' /\ subject'[row.request] = subject[row.request]
        /\ found'[row.request] = found[row.request]
    BY <1>1, FiledStays DEF Inv, Traced
  <1>3. CASE row \in Stored(row.request)
    BY <1>2, <1>3 DEF Stored, Traced
  <1>4. CASE \E e \in Escalations :
               /\ row = Quote(e) /\ Target[e] = row.request
               /\ pc[e] = "done" /\ answer[e].kind = "escalated"
    <2> PICK e \in Escalations :
               /\ row = Quote(e) /\ Target[e] = row.request
               /\ pc[e] = "done" /\ answer[e].kind = "escalated"
      BY <1>4
    <2>1. e \in Calls \ {c}
      BY DEF Calls
    <2>2. UNCHANGED <<pc[e], answer[e]>>
      BY <2>1 DEF Frame
    <2>3. /\ subject'[Target[e]] = subject[Target[e]]
          /\ found'[Target[e]] = found[Target[e]]
      BY <1>2
    <2>4. Quote(e)' = Quote(e)
      BY <2>3 DEF Quote
    <2> QED
      BY <1>2, <2>2, <2>4 DEF Traced
  <1> QED
    BY <1>1, <1>3, <1>4 DEF Traced

\* What remains to be shown of a step of one call.
LEMMA StepKeeps ==
  ASSUME Inv, NEW c \in Calls, CallStep(c), Frame(c), pc[c] # "done",
         \A row \in db' \ db : Traced(row)',
         c \in Intakes => Knows(c)' /\ session'[c] = Written(c)',
         c \in Escalations => Escalates(c)',
         Answered(c)'
  PROVE  Inv'
  <1>1. TypeOK'
    BY TypeStep
  <1>2. IntakeInv' /\ EscalationInv' /\ AnswerInv'
    BY OthersKeep DEF IntakeInv, EscalationInv, AnswerInv
  <1>3. DbInv'
    BY RowsKeep DEF DbInv
  <1> QED
    BY <1>1, <1>2, <1>3 DEF Inv

-----------------------------------------------------------------------------
(* Each step preserves the invariant *)

\* A refused call.
LEMMA FailKeeps ==
  ASSUME Inv, NEW c \in Calls, CallStep(c), pc[c] # "done",
         pc[c] \notin {"answer", "commit"},
         NEW kind \in Refusals, Fail(c, kind)
  PROVE  Inv'
  <1>1. /\ pc'[c] = "done" /\ session'[c] = {} /\ answer'[c].kind = kind
        /\ db' = db /\ Frame(c)
    BY FailAt DEF Inv
  <1>2. c \in Intakes => Knows(c)' /\ session'[c] = Written(c)'
    BY <1>1 DEF Knows, Written, Resolved, Diagnosed
  <1>3. c \in Escalations => Escalates(c)'
    BY <1>1 DEF Escalates, Refusals
  <1>4. Answered(c)'
    BY <1>1 DEF Answered, Refusals
  <1> QED
    BY <1>1, <1>2, <1>3, <1>4, StepKeeps

\* A call begins.
LEMMA BeginKeeps ==
  ASSUME Inv, NEW c \in Calls, CallStep(c), NEW label \in {"resolve", "lookup"},
         Begin(c, label), label = "resolve" <=> c \in Intakes
  PROVE  Inv'
  <1>1. CASE Fail(c, "killed")
    BY <1>1, FailKeeps DEF Begin, Refusals
  <1>2. CASE Goto(c, label) /\ UNCHANGED <<db, session, held, locals, answer, system>>
    <2>1. pc[c] = "idle" /\ pc'[c] = label /\ Frame(c)
          /\ UNCHANGED <<db, session, subject, found, answer>>
      BY <1>2, GotoAt DEF Begin, Inv, Frame, locals
    <2>2. c \in Intakes => Knows(c)' /\ session'[c] = Written(c)'
      BY <2>1 DEF Knows, Written, Resolved, Diagnosed, Inv, IntakeInv
    <2>3. ASSUME c \in Escalations PROVE Escalates(c)'
      <3>1. label = "lookup" /\ session[c] = {} /\ answer[c] = NoAnswer
        BY <2>1, <2>3, ServiceAssumption
           DEF Escalates, Inv, EscalationInv, AnswerInv, Answered
      <3> QED
        BY <2>1, <3>1 DEF Escalates, NoAnswer
    <2>4. Answered(c)'
      BY <2>1 DEF Answered, Inv, AnswerInv, NoAnswer, Refusals
    <2> QED
      BY <2>1, <2>2, <2>3, <2>4, StepKeeps
  <1> QED
    BY <1>1, <1>2 DEF Begin

\* A step of an intake that does not commit and keeps its answer.
LEMMA IntakeKeeps ==
  ASSUME Inv, NEW c \in Calls, CallStep(c), Frame(c), c \in Intakes,
         pc[c] \notin {"commit", "done"}, pc'[c] \notin {"commit"},
         UNCHANGED <<db, answer>>,
         Knows(c)', session'[c] = Written(c)'
  PROVE  Inv'
  <1>1. answer[c] = NoAnswer
    BY DEF Inv, AnswerInv, Answered
  <1>2. Answered(c)'
    BY <1>1 DEF Answered, NoAnswer, Refusals
  <1> QED
    BY <1>2, StepKeeps, ServiceAssumption

LEMMA EscalationKeeps ==
  ASSUME Inv, NEW c \in Calls, CallStep(c), Frame(c), c \in Escalations,
         pc[c] \notin {"commit", "done"}, pc'[c] \notin {"commit"},
         UNCHANGED <<db, answer>>,
         answer[c].kind # "escalated" => Escalates(c)'
  PROVE  Inv'
  <1>1. answer[c] = NoAnswer
    BY DEF Inv, AnswerInv, Answered
  <1>2. Answered(c)' /\ answer[c].kind # "escalated"
    BY <1>1 DEF Answered, NoAnswer, Refusals
  <1> QED
    BY <1>2, StepKeeps, ServiceAssumption

\* The steps of a complaint up to its answer.
LEMMA IntakeStep ==
  ASSUME Inv, NEW c \in Calls, CallStep(c),
         \/ Resolve(c) \/ Parse(c) \/ CreateRequest(c) \/ RecordReceived(c)
         \/ RunFunnel(c) \/ CreateRun(c) \/ RecordCompleted(c) \/ RecordEscalation(c)
  PROVE  Inv'
  <1>1. /\ c \in Intakes /\ TypeOK
        /\ Knows(c) /\ session[c] = Written(c)
        /\ pc[c] \in {"resolve", "parse", "create", "received", "funnel", "run",
                      "completed", "notify"}
    BY IntakeSteps
       DEF Inv, IntakeInv, Resolve, Parse, CreateRequest, RecordReceived, RunFunnel,
           CreateRun, RecordCompleted, RecordEscalation, Store
  <1>2. CASE \E kind \in Refusals : Fail(c, kind)
    BY <1>1, <1>2, FailKeeps
  <1>3. CASE Resolve(c) /\ ~\E kind \in Refusals : Fail(c, kind)
    <2>1. /\ pc[c] = "resolve" /\ pc'[c] = "parse" /\ subject'[c] \in Users
          /\ Frame(c) /\ UNCHANGED <<db, session, answer>>
      <3>1. PICK u \in Users : subject' = [subject EXCEPT ![c] = u]
        BY <1>3 DEF Resolve, Refusals
      <3>2. subject'[c] = u /\ \A d \in Calls \ {c} : subject'[d] = subject[d]
        BY <1>1, <3>1 DEF TypeOK
      <3> QED
        BY <1>1, <1>3, <3>2, GotoAt DEF Resolve, Refusals, Frame
    <2>2. Knows(c)' /\ session'[c] = Written(c)'
      BY <1>1, <2>1 DEF Knows, Written, Resolved, Diagnosed
    <2> QED
      BY <1>1, <2>1, <2>2, IntakeKeeps
  <1>4. CASE Parse(c) /\ ~\E kind \in Refusals : Fail(c, kind)
    <2>1. /\ pc[c] = "parse" /\ pc'[c] = "create" /\ Frame(c)
          /\ UNCHANGED <<db, session, answer, subject, found>>
      BY <1>1, <1>4, GotoAt DEF Parse, Refusals, Frame, locals
    <2>2. Knows(c)' /\ session'[c] = Written(c)'
      BY <1>1, <2>1 DEF Knows, Written, Resolved, Diagnosed
    <2> QED
      BY <1>1, <2>1, <2>2, IntakeKeeps
  <1>5. CASE CreateRequest(c)
    <2>1. /\ pc[c] = "create" /\ pc'[c] = "received" /\ Frame(c)
          /\ session'[c] = session[c] \cup {RequestRow(c, subject[c])}
          /\ UNCHANGED <<db, answer, subject, found>>
      BY <1>1, <1>5, GotoAt DEF CreateRequest, Flush, Frame, locals, TypeOK
    <2>2. Knows(c)' /\ session'[c] = Written(c)'
      BY <1>1, <2>1 DEF Knows, Written, Resolved, Diagnosed
    <2> QED
      BY <1>1, <2>1, <2>2, IntakeKeeps
  <1>6. CASE RecordReceived(c)
    <2>1. /\ pc[c] = "received" /\ pc'[c] = "funnel" /\ Frame(c)
          /\ session'[c] = session[c] \cup {ReceivedRow(c, subject[c])}
          /\ UNCHANGED <<db, answer, subject, found>>
      BY <1>1, <1>6, StoreAt DEF RecordReceived
    <2>2. Knows(c)' /\ session'[c] = Written(c)'
      BY <1>1, <2>1 DEF Knows, Written, Resolved, Diagnosed
    <2> QED
      BY <1>1, <2>1, <2>2, IntakeKeeps
  <1>7. CASE RunFunnel(c)
    <2>1. /\ pc[c] = "funnel" /\ pc'[c] = "run"
          /\ Frame(c) /\ UNCHANGED <<db, session, answer, subject>>
          /\ found'[c] \in Results
      <3>1. PICK res \in Results : found' = [found EXCEPT ![c] = res]
        BY <1>7 DEF RunFunnel
      <3>2. found'[c] \in Results /\ \A d \in Calls \ {c} : found'[d] = found[d]
        BY <1>1, <3>1 DEF TypeOK
      <3> QED
        BY <1>1, <1>7, <3>2, GotoAt DEF RunFunnel, Frame
    <2>2. Knows(c)' /\ session'[c] = Written(c)'
      BY <1>1, <2>1 DEF Knows, Written, Resolved, Diagnosed
    <2> QED
      BY <1>1, <2>1, <2>2, IntakeKeeps
  <1>8. CASE CreateRun(c)
    <2>1. /\ pc[c] = "run" /\ pc'[c] = "completed" /\ Frame(c)
          /\ session'[c] = session[c] \cup {RunRow(c, subject[c], found[c])}
          /\ UNCHANGED <<db, answer, subject, found>>
      BY <1>1, <1>8, StoreAt DEF CreateRun
    <2>2. Knows(c)' /\ session'[c] = Written(c)'
      BY <1>1, <2>1 DEF Knows, Written, Resolved, Diagnosed
    <2> QED
      BY <1>1, <2>1, <2>2, IntakeKeeps
  <1>9. CASE RecordCompleted(c)
    <2>1. /\ pc[c] = "completed" /\ Frame(c)
          /\ pc'[c] = IF found[c].escalated THEN "notify" ELSE "answer"
          /\ session'[c] = session[c] \cup {CompletedRow(c, subject[c], found[c])}
          /\ UNCHANGED <<db, answer, subject, found>>
      BY <1>1, <1>9, StoreAt DEF RecordCompleted
    <2>2. Knows(c)'
      BY <1>1, <2>1 DEF Knows, Resolved, Diagnosed
    <2>3. session'[c] = Written(c)'
      BY <1>1, <2>1 DEF Written, Case
    <2> QED
      BY <1>1, <2>1, <2>2, <2>3, IntakeKeeps
  <1>10. CASE RecordEscalation(c)
    <2>1. /\ pc[c] = "notify" /\ pc'[c] = "answer" /\ Frame(c)
          /\ session'[c] = session[c] \cup {EscalationRow(c, subject[c], found[c])}
          /\ UNCHANGED <<db, answer, subject, found>>
      BY <1>1, <1>10, StoreAt DEF RecordEscalation
    <2>2. Knows(c)' /\ found[c].escalated
      BY <1>1, <2>1 DEF Knows, Resolved, Diagnosed
    <2>3. session'[c] = Written(c)'
      BY <1>1, <2>1, <2>2 DEF Written, Case
    <2> QED
      BY <1>1, <2>1, <2>2, <2>3, IntakeKeeps
  <1> QED
    BY <1>2, <1>3, <1>4, <1>5, <1>6, <1>7, <1>8, <1>9, <1>10

\* What the database says of a request is what its call knew.
LEMMA RowOfFiled ==
  ASSUME Inv, NEW row \in db
  PROVE  /\ Filed(row.request)
         /\ row.subject = subject[row.request]
         /\ row.kind = "run" => row.result = found[row.request]
  <1>1. Traced(row)
    BY DEF Inv, DbInv
  <1> DEFINE r == row.request
  <1>2. CASE row \in Stored(r)
    <2>1. row \in Case(r, subject[r], found[r])
      BY <1>2 DEF Stored
    <2> HIDE DEF r
    <2>2. row.subject = subject[r] /\ (row.kind = "run" => row.result = found[r])
      BY <2>1, CaseFields, CaseKinds
    <2> QED
      BY <1>1, <2>2 DEF r, Traced
  <1>3. CASE \E e \in Escalations : row = Quote(e) /\ Target[e] = row.request
    <2> PICK e \in Escalations : row = Quote(e) /\ Target[e] = row.request
      BY <1>3
    <2>1. row.subject = subject[Target[e]] /\ row.kind = "user_escalation"
      BY EscalationFields DEF Quote
    <2> QED
      BY <1>1, <2>1 DEF Traced
  <1> QED
    BY <1>1, <1>2, <1>3 DEF Traced

\* The steps of an escalation up to its answer.
LEMMA EscalationStep ==
  ASSUME Inv, NEW c \in Calls, CallStep(c),
         FindRequest(c) \/ ListRuns(c) \/ RecordUserEscalation(c)
  PROVE  Inv'
  <1>1. /\ c \in Escalations /\ TypeOK /\ Escalates(c)
        /\ pc[c] \in {"lookup", "runs", "note"}
    BY EscalationSteps
       DEF Inv, EscalationInv, FindRequest, ListRuns, RecordUserEscalation, Store
  <1>2. CASE \E kind \in Refusals : Fail(c, kind)
    BY <1>1, <1>2, FailKeeps
  <1>3. CASE FindRequest(c) /\ ~\E kind \in Refusals : Fail(c, kind)
    <2>1. PICK row \in db :
            /\ row.request = Target[c]
            /\ subject' = [subject EXCEPT ![c] = row.subject]
      BY <1>3 DEF FindRequest, Refusals
    <2>2. /\ pc[c] = "lookup" /\ pc'[c] = "runs"
          /\ subject'[c] = row.subject
          /\ Frame(c) /\ UNCHANGED <<db, session, answer, found>>
      <3>1. subject'[c] = row.subject /\ \A d \in Calls \ {c} : subject'[d] = subject[d]
        BY <1>1, <2>1 DEF TypeOK
      <3> QED
        BY <1>1, <1>3, <3>1, GotoAt DEF FindRequest, Refusals, Frame
    <2>3. Filed(Target[c]) /\ row.subject = subject[Target[c]]
      BY <2>1, RowOfFiled
    <2>4. Filed(Target[c])' /\ subject'[Target[c]] = subject[Target[c]]
      BY <1>1, <2>2, <2>3, FiledStays
    <2>5. answer[c].kind # "escalated" => Escalates(c)'
      BY <1>1, <2>2, <2>3, <2>4 DEF Escalates
    <2> QED
      BY <1>1, <2>2, <2>5, EscalationKeeps
  <1>4. CASE ListRuns(c)
    <2>1. Filed(Target[c]) /\ RunsFor(Target[c]) # {}
      <3>1. Filed(Target[c])
        BY <1>1, <1>4 DEF Escalates, ListRuns
      <3>2. RunRow(Target[c], subject[Target[c]], found[Target[c]]) \in db
        BY <3>1, CaseHasRequestAndRun DEF Filed, Stored
      <3> QED
        BY <3>1, <3>2 DEF RunsFor, RunRow, Row
    <2>2. PICK row \in RunsFor(Target[c]) : found' = [found EXCEPT ![c] = row.result]
      BY <1>4, <2>1 DEF ListRuns
    <2>3. row.result = found[Target[c]]
      BY <2>2, RowOfFiled DEF RunsFor
    <2>4. /\ pc[c] = "runs" /\ pc'[c] = "note"
          /\ found'[c] = row.result
          /\ Frame(c) /\ UNCHANGED <<db, session, answer, subject>>
      <3>1. found'[c] = row.result /\ \A d \in Calls \ {c} : found'[d] = found[d]
        BY <1>1, <2>2 DEF TypeOK
      <3> QED
        BY <1>1, <1>4, <3>1, GotoAt DEF ListRuns, Frame
    <2>5. /\ Filed(Target[c])' /\ found'[Target[c]] = found[Target[c]]
      BY <1>1, <2>1, <2>4, FiledStays
    <2>6. answer[c].kind # "escalated" => Escalates(c)'
      BY <1>1, <2>3, <2>4, <2>5 DEF Escalates
    <2> QED
      BY <1>1, <2>4, <2>6, EscalationKeeps
  <1>5. CASE RecordUserEscalation(c)
    <2>1. /\ pc[c] = "note" /\ pc'[c] = "answer" /\ Frame(c)
          /\ session'[c] = session[c]
                \cup {UserEscalationRow(c, Target[c], subject[c], found[c])}
          /\ UNCHANGED <<db, answer, subject, found>>
      BY <1>1, <1>5, StoreAt DEF RecordUserEscalation
    <2>2. /\ Filed(Target[c]) /\ session[c] = {}
          /\ subject[c] = subject[Target[c]] /\ found[c] = found[Target[c]]
      BY <1>1, <2>1 DEF Escalates
    <2>3. Filed(Target[c])' /\ session'[c] = {Quote(c)'}
      BY <1>1, <2>1, <2>2, FiledStays DEF Quote
    <2>4. answer[c].kind # "escalated" => Escalates(c)'
      BY <1>1, <2>1, <2>2, <2>3 DEF Escalates
    <2> QED
      BY <1>1, <2>1, <2>4, EscalationKeeps
  <1> QED
    BY <1>2, <1>3, <1>4, <1>5

\* A response leaves.
LEMMA AnswerStep ==
  ASSUME Inv, NEW c \in Calls, CallStep(c), Answer(c)
  PROVE  Inv'
  <1>1. /\ pc[c] = "answer" /\ pc'[c] = "commit" /\ Frame(c)
        /\ answer'[c] = [kind |-> IF c \in Intakes THEN "diagnosis" ELSE "escalated",
                         result |-> found[c]]
        /\ UNCHANGED <<db, session, subject, found>>
    <2>1. /\ answer'[c] = [kind |-> IF c \in Intakes THEN "diagnosis" ELSE "escalated",
                           result |-> found[c]]
          /\ \A d \in Calls \ {c} : answer'[d] = answer[d]
      BY DEF Answer, Reply, Inv, TypeOK
    <2> QED
      BY <2>1, GotoAt DEF Answer, Inv, Frame, locals
  <1>2. c \in Intakes => Knows(c)' /\ session'[c] = Written(c)'
    BY <1>1 DEF Inv, IntakeInv, Knows, Written, Resolved, Diagnosed
  <1>3. ASSUME c \in Escalations PROVE Escalates(c)'
    <2>1. Escalates(c) /\ c \notin Intakes
      BY <1>3, ServiceAssumption DEF Inv, EscalationInv
    <2>2. /\ Filed(Target[c])' /\ subject'[Target[c]] = subject[Target[c]]
          /\ found'[Target[c]] = found[Target[c]]
      BY <1>1, <2>1, FiledStays DEF Escalates, Inv
    <2>3. Quote(c)' = Quote(c)
      BY <2>2 DEF Quote
    <2> QED
      BY <1>1, <2>1, <2>2, <2>3 DEF Escalates
  <1>4. Answered(c)'
    BY <1>1 DEF Answered, Refusals, Calls
  <1> QED
    BY <1>1, <1>2, <1>3, <1>4, StepKeeps

\* A transaction ends after the response has left, kept or not.
LEMMA CommitStep ==
  ASSUME Inv, NEW c \in Calls, CallStep(c), Commit(c) \/ CommitFails(c)
  PROVE  Inv'
  <1>1. /\ pc[c] = "commit" /\ pc'[c] = "done" /\ session'[c] = {}
        /\ db' = db \/ db' = db \cup session[c]
        /\ Frame(c) /\ UNCHANGED <<answer, subject, found>>
    <2>1. session'[c] = {} /\ \A d \in Calls \ {c} : session'[d] = session[d]
      BY DEF Commit, CommitFails, Rollback, Inv, TypeOK
    <2> QED
      BY <2>1, GotoAt DEF Commit, CommitFails, Rollback, Inv, Frame, locals
  <1>2. c \in Intakes => Knows(c)' /\ session'[c] = Written(c)'
    BY <1>1 DEF Knows, Written, Resolved, Diagnosed
  <1>3. ASSUME c \in Escalations
        PROVE  /\ Escalates(c)' /\ Filed(Target[c])' /\ Quote(c)' = Quote(c)
               /\ Target[c] # c /\ answer[c].kind = "escalated" /\ session[c] = {Quote(c)}
    <2>1. Escalates(c) /\ Answered(c) /\ c \notin Intakes
      BY <1>3, ServiceAssumption DEF Inv, EscalationInv, AnswerInv
    <2>2. /\ Filed(Target[c])' /\ subject'[Target[c]] = subject[Target[c]]
          /\ found'[Target[c]] = found[Target[c]] /\ Target[c] # c
      BY <1>1, <2>1, FiledStays DEF Escalates, Inv
    <2>3. Quote(c)' = Quote(c)
      BY <2>2 DEF Quote
    <2> QED
      BY <1>1, <2>1, <2>2, <2>3 DEF Escalates, Answered
  <1>4. Answered(c)'
    BY <1>1 DEF Answered, Inv, AnswerInv
  <1>5. ASSUME NEW row \in db' \ db PROVE Traced(row)'
    <2>1. row \in session[c] /\ db' = db \cup session[c]
      BY <1>1, <1>5
    <2>2. CASE c \in Escalations
      <3>1. row = Quote(c)'
        BY <1>3, <2>1, <2>2
      <3>2. row.request = Target[c]
        BY <3>1, EscalationFields DEF Quote
      <3> QED
        BY <1>1, <1>3, <2>2, <3>1, <3>2 DEF Traced
    <2>3. CASE c \in Intakes
      <3>1. /\ session[c] = Case(c, subject[c], found[c])
            /\ subject[c] \in Users /\ found[c] \in Results
            /\ answer[c] = [kind |-> "diagnosis", result |-> found[c]]
        <4>1. Knows(c) /\ session[c] = Written(c) /\ Answered(c)
          BY <2>3 DEF Inv, IntakeInv, AnswerInv
        <4>2. answer[c].kind = "diagnosis" /\ answer[c].result = found[c]
          BY <1>1, <2>3, <4>1 DEF Answered
        <4>3. answer[c] \in [kind : Refusals \cup {"none", "diagnosis", "escalated"},
                            result : Results \cup {NoResult}]
          BY DEF Inv, TypeOK
        <4> QED
          BY <1>1, <4>1, <4>2, <4>3 DEF Knows, Written, Resolved, Diagnosed
      <3>2. Filed(c)' /\ Stored(c)' = session[c]
        BY <1>1, <2>1, <2>3, <3>1 DEF Filed, Stored
      <3>3. row.request = c
        BY <2>1, <3>1, CaseFields
      <3> QED
        BY <2>1, <3>2, <3>3 DEF Traced
    <2> QED
      BY <2>2, <2>3 DEF Calls
  <1> QED
    BY <1>1, <1>2, <1>3, <1>4, <1>5, StepKeeps

\* A process dies: its calls end where they are and keep nothing.
LEMMA CrashStep ==
  ASSUME Inv, NEW p \in Processes, Crash(p)
  PROVE  Inv'
  <1> USE DEF Inv
  <1>1. /\ UNCHANGED <<db, subject, found, answer>>
        /\ \A c \in Calls : \/ UNCHANGED <<pc[c], session[c]>>
                            \/ pc'[c] = "done" /\ session'[c] = {}
    BY DEF Crash, locals
  <1>2. TypeOK'
    <2>1. pc' \in [Calls -> {"idle", "resolve", "parse", "funnel", "answer", "commit",
                             "done"} \cup Waiting \cup Storing]
      BY DEF Crash, TypeOK
    <2>2. session' \in [Calls -> SUBSET Rows]
      BY DEF Crash, TypeOK
    <2>3. killed' \in [Processes -> BOOLEAN] /\ crashes' \in Nat
      BY DEF Crash, TypeOK
    <2> QED
      BY <2>1, <2>2, <2>3 DEF Crash, TypeOK, locals
  <1>3. ASSUME NEW r, Filed(r) PROVE Filed(r)'
    BY <1>1, <1>3 DEF Filed, Stored, Calls
  <1>4. IntakeInv'
    <2> SUFFICES ASSUME NEW c \in Intakes PROVE Knows(c)' /\ session'[c] = Written(c)'
      BY DEF IntakeInv
    <2>1. Knows(c) /\ session[c] = Written(c) /\ c \in Calls
      BY DEF IntakeInv, Calls
    <2>2. CASE UNCHANGED <<pc[c], session[c]>>
      BY <1>1, <2>1, <2>2 DEF Knows, Written
    <2>3. CASE pc'[c] = "done" /\ session'[c] = {}
      BY <2>3 DEF Knows, Written, Resolved, Diagnosed
    <2> QED
      BY <1>1, <2>1, <2>2, <2>3
  <1>5. DbInv'
    <2> SUFFICES ASSUME NEW row \in db PROVE Traced(row)'
      BY <1>1 DEF DbInv
    <2>1. Traced(row)
      BY DEF DbInv
    <2>2. /\ Stored(row.request)' = Stored(row.request)
          /\ \A e \in Escalations : Quote(e)' = Quote(e)
          /\ \A e \in Escalations : pc[e] = "done" => pc'[e] = "done"
      BY <1>1 DEF Stored, Quote, Calls
    <2> QED
      BY <1>1, <1>3, <2>1, <2>2 DEF Traced
  <1>6. EscalationInv'
    <2> SUFFICES ASSUME NEW e \in Escalations PROVE Escalates(e)'
      BY DEF EscalationInv
    <2>1. Escalates(e) /\ e \in Calls /\ Quote(e)' = Quote(e)
      BY <1>1 DEF EscalationInv, Quote, Calls
    <2> QED
      BY <1>1, <1>3, <2>1 DEF Escalates
  <1>7. AnswerInv'
    BY <1>1 DEF AnswerInv, Answered
  <1> QED
    BY <1>2, <1>4, <1>5, <1>6, <1>7

\* Nothing of the invariant depends on the kill switch.
LEMMA QuietStep ==
  ASSUME Inv, FlipSwitch \/ UNCHANGED vars
  PROVE  Inv'
  <1>1. UNCHANGED <<db, session, pc, subject, found, answer>> /\ TypeOK'
    BY DEF Inv, FlipSwitch, vars, locals, system, TypeOK
  <1>2. \A r : Filed(r)' = Filed(r) /\ Stored(r)' = Stored(r)
    BY <1>1 DEF Filed, Stored
  <1>3. \A e \in Escalations : Quote(e)' = Quote(e)
    BY <1>1 DEF Quote
  <1>4. IntakeInv'
    BY <1>1 DEF Inv, IntakeInv, Knows, Written
  <1>5. DbInv' /\ EscalationInv'
    BY <1>1, <1>2, <1>3 DEF Inv, DbInv, Traced, EscalationInv, Escalates
  <1>6. AnswerInv'
    BY <1>1 DEF Inv, AnswerInv, Answered
  <1> QED
    BY <1>1, <1>4, <1>5, <1>6 DEF Inv

LEMMA InitInv == Init => Inv
  <1> SUFFICES ASSUME Init PROVE Inv
    OBVIOUS
  <1>1. TypeOK
    BY DEF Init, TypeOK, Refusals, NoAnswer
  <1>2. IntakeInv /\ DbInv /\ EscalationInv /\ AnswerInv
    BY DEF Init, IntakeInv, Knows, Written, Resolved, Diagnosed, DbInv, EscalationInv,
       Escalates, AnswerInv, Answered, NoAnswer, Refusals, Calls
  <1> QED
    BY <1>1, <1>2 DEF Inv

LEMMA NextInv == Inv /\ [Next]_vars => Inv'
  <1> SUFFICES ASSUME Inv, [Next]_vars PROVE Inv'
    OBVIOUS
  <1>1. ASSUME NEW c \in Calls, Submit(c) PROVE Inv'
    BY <1>1, BeginKeeps DEF Submit, CallStep
  <1>2. ASSUME NEW c \in Calls, Escalate(c) PROVE Inv'
    BY <1>2, BeginKeeps, ServiceAssumption DEF Escalate, CallStep
  <1>3. ASSUME NEW c \in Calls, Continue(c) PROVE Inv'
    BY <1>3, IntakeStep, EscalationStep, AnswerStep, CommitStep DEF Continue, CallStep
  <1>4. ASSUME NEW c \in Calls, CommitFails(c) PROVE Inv'
    BY <1>4, CommitStep DEF CallStep
  <1>5. ASSUME NEW c \in Calls, PoolTimeout(c) \/ DatabaseError(c) PROVE Inv'
    <2>1. Fail(c, "error") /\ pc[c] \in Waiting \cup Storing /\ CallStep(c)
      BY <1>5 DEF PoolTimeout, DatabaseError, CallStep
    <2> QED
      BY <2>1, FailKeeps DEF Waiting, Storing, Refusals
  <1>6. ASSUME NEW p \in Processes, Crash(p) PROVE Inv'
    BY <1>6, CrashStep
  <1> QED
    BY <1>1, <1>2, <1>3, <1>4, <1>5, <1>6, QuietStep DEF Next

-----------------------------------------------------------------------------
(* What follows *)

LEMMA Invariance == Spec => []Inv
  BY InitInv, NextInv, PTL DEF Spec

\* Every variable of the service keeps its type, for any number of calls,
\* processes, users and results.
THEOREM TypeCorrect == Spec => []TypeOK
  BY Invariance, PTL DEF Inv

\* What a user is told of their escalation, and the reset link in it, come
\* from the run whose diagnosis they were given.
THEOREM EscalationCarriesRunCorrect == Spec => []EscalationCarriesRun
  <1>1. ASSUME Inv PROVE EscalationCarriesRun
    <2> SUFFICES ASSUME NEW e \in Escalations, answer[e].kind = "escalated"
                 PROVE  /\ answer[Target[e]].kind = "diagnosis"
                        /\ answer[e].result = answer[Target[e]].result
                        /\ answer[e].result.verdicts # <<>>
      BY DEF EscalationCarriesRun, EscalationScenario, EscalationLink, MessageLink
    <2>1. Filed(Target[e]) /\ answer[e].result = found[Target[e]]
      BY <1>1 DEF Inv, EscalationInv, Escalates
    <2> QED
      BY <2>1, ServiceAssumption DEF Filed
  <1> QED
    BY <1>1, Invariance, PTL

\* Nothing of a refused call stays: every stored row was written by a call
\* that was answered with a diagnosis or an escalation.
THEOREM RefusedLeavesNothingCorrect == Spec => []RefusedLeavesNothing
  <1>1. ASSUME Inv PROVE RefusedLeavesNothing
    <2> SUFFICES ASSUME NEW c \in Calls, answer[c].kind \in Refusals
                 PROVE  session[c] = {} /\ \A row \in db : row.by # c
      BY DEF RefusedLeavesNothing
    <2>1. pc[c] = "done"
      BY <1>1 DEF Inv, AnswerInv, Answered
    <2>2. session[c] = {}
      BY <1>1, <2>1 DEF Inv, IntakeInv, Written, EscalationInv, Escalates, Calls
    <2>3. ASSUME NEW row \in db, row.by = c PROVE FALSE
      <3>1. Traced(row)
        BY <1>1 DEF Inv, DbInv
      <3>2. CASE row \in Stored(row.request)
        <4>1. row.by = row.request
          BY <3>2, CaseFields DEF Stored
        <4> QED
          BY <2>3, <3>1, <4>1 DEF Traced, Filed, Refusals
      <3>3. CASE \E e \in Escalations : row = Quote(e) /\ answer[e].kind = "escalated"
        BY <2>3, <3>3, EscalationFields DEF Quote, Refusals
      <3> QED
        BY <3>1, <3>2, <3>3 DEF Traced
    <2> QED
      BY <2>2, <2>3
  <1> QED
    BY <1>1, Invariance, PTL

\* A process that runs under the kill switch has no call in progress: only a
\* restart can set it, and a restart ends every call.
THEOREM KillSwitchHoldsCorrect == Spec => []KillSwitchHolds
  <1>1. Init => KillSwitchHolds
    BY DEF Init, KillSwitchHolds
  <1>2. TypeOK /\ KillSwitchHolds /\ [Next]_vars => KillSwitchHolds'
    <2> SUFFICES ASSUME TypeOK, KillSwitchHolds, [Next]_vars
                 PROVE  KillSwitchHolds'
      OBVIOUS
    <2>1. ASSUME NEW c \in Calls, CallStep(c) PROVE KillSwitchHolds'
      <3>1. UNCHANGED killed
        BY <2>1 DEF CallStep, Submit, Escalate, Begin, Continue, Fail, Store, Resolve,
           Parse, CreateRequest, RecordReceived, RunFunnel, CreateRun, RecordCompleted,
           RecordEscalation, FindRequest, ListRuns, RecordUserEscalation, Answer, Commit,
           CommitFails, PoolTimeout, DatabaseError, system
      <3>2. \E label : Goto(c, label)
        BY <2>1 DEF CallStep, Submit, Escalate, Begin, Continue, Fail, Store, Resolve,
           Parse, CreateRequest, RecordReceived, RunFunnel, CreateRun, RecordCompleted,
           RecordEscalation, FindRequest, ListRuns, RecordUserEscalation, Answer, Commit,
           CommitFails, PoolTimeout, DatabaseError
      <3>3. \A d \in Calls \ {c} : pc'[d] = pc[d]
        BY <3>2, GotoAt
      <3>4. pc[c] \in {"idle", "done"} => pc'[c] \in {"idle", "done"} \/ ~killed[Home[c]]
        <4>1. CASE pc[c] = "idle"
          <5>1. \E label : Begin(c, label)
            BY <2>1, <4>1 DEF CallStep, Submit, Escalate, Continue, Store, Resolve,
               Parse, CreateRequest, RecordReceived, RunFunnel, CreateRun,
               RecordCompleted, RecordEscalation, FindRequest, ListRuns,
               RecordUserEscalation, Answer, Commit, CommitFails, PoolTimeout,
               DatabaseError, Waiting, Storing
          <5> QED
            BY <5>1, GotoAt DEF Begin, Fail, Killed
        <4>2. pc[c] # "done"
          BY <2>1 DEF CallStep, Submit, Escalate, Begin, Continue, Store, Resolve,
             Parse, CreateRequest, RecordReceived, RunFunnel, CreateRun,
             RecordCompleted, RecordEscalation, FindRequest, ListRuns,
             RecordUserEscalation, Answer, Commit, CommitFails, PoolTimeout,
             DatabaseError, Waiting, Storing
        <4> QED
          BY <4>1, <4>2
      <3> QED
        BY <3>1, <3>3, <3>4 DEF KillSwitchHolds
    <2>2. ASSUME NEW p \in Processes, Crash(p) PROVE KillSwitchHolds'
      <3> SUFFICES ASSUME NEW c \in Calls, killed'[Home[c]]
                   PROVE  pc'[c] \in {"idle", "done"}
        BY DEF KillSwitchHolds
      <3>1. CASE Home[c] = p
        BY <2>2, <3>1 DEF Crash
      <3>2. CASE Home[c] # p
        <4>1. killed[Home[c]] /\ pc'[c] = pc[c]
          BY <2>2, <3>2, ServiceAssumption DEF Crash, TypeOK
        <4> QED
          BY <4>1 DEF KillSwitchHolds
      <3> QED
        BY <3>1, <3>2
    <2>3. CASE FlipSwitch \/ UNCHANGED vars
      BY <2>3 DEF FlipSwitch, vars, system, KillSwitchHolds
    <2> QED
      BY <2>1, <2>2, <2>3 DEF Next, CallStep
  <1> QED
    BY <1>1, <1>2, TypeCorrect, PTL DEF Spec

-----------------------------------------------------------------------------
(* The service implements CaseFile *)

LEMMA SameRows ==
  ASSUME NEW e, NEW r, NEW who, NEW res
  PROVE  /\ Promised!Case(r, who, res) = Case(r, who, res)
         /\ Promised!UserEscalationRow(e, r, who, res) = UserEscalationRow(e, r, who, res)
  BY DEF Promised!Case, Promised!RequestRow, Promised!ReceivedRow, Promised!RunRow,
     Promised!CompletedRow, Promised!EscalationRow, Promised!UserEscalationRow,
     Promised!Row, Promised!NoResult, Promised!None, Case, RequestRow, ReceivedRow,
     RunRow, CompletedRow, EscalationRow, UserEscalationRow, Row, NoResult, None

\* A commit stores one case or one escalation, and no other step touches
\* what is stored.
LEMMA CommitStores ==
  ASSUME Inv, NEW c \in Calls, Commit(c)
  PROVE  Promised!Next
  <1>1. pc[c] = "commit" /\ db' = db \cup session[c]
    BY DEF Commit
  <1>2. CASE c \in Intakes
    <2>1. /\ session[c] = Case(c, subject[c], found[c])
          /\ subject[c] \in Users /\ found[c] \in Results
      BY <1>1, <1>2 DEF Inv, IntakeInv, Knows, Written, Resolved, Diagnosed
    <2>2. \A row \in db : row.request # c
      BY <1>1 DEF Inv, DbInv, Traced, Filed
    <2>3. db' = db \cup Promised!Case(c, subject[c], found[c])
      BY <1>1, <2>1, SameRows
    <2> QED
      BY <1>2, <2>1, <2>2, <2>3 DEF Promised!Next, Promised!StoreCase
  <1>3. CASE c \in Escalations
    <2>1. Filed(Target[c]) /\ session[c] = {Quote(c)}
      BY <1>1, <1>3 DEF Inv, EscalationInv, Escalates
    <2>2. ASSUME NEW row \in db PROVE row.by # c
      <3>1. Traced(row)
        BY DEF Inv, DbInv
      <3>2. CASE row \in Stored(row.request)
        <4>1. row.by = row.request
          BY <3>2, CaseFields DEF Stored
        <4> QED
          BY <1>1, <3>1, <4>1 DEF Traced, Filed
      <3>3. CASE \E e \in Escalations : row = Quote(e) /\ pc[e] = "done"
        BY <1>1, <3>3, EscalationFields DEF Quote
      <3> QED
        BY <3>1, <3>2, <3>3 DEF Traced
    <2> DEFINE r == Target[c]
    <2>3. /\ Promised!Case(r, subject[r], found[r]) \subseteq db
          /\ db' = db \cup {Promised!UserEscalationRow(c, r, subject[r], found[r])}
      BY <1>1, <2>1, SameRows DEF Filed, Stored, Quote
    <2> QED
      BY <1>3, <2>1, <2>2, <2>3 DEF Promised!Next, Promised!StoreEscalation, Filed
  <1> QED
    BY <1>2, <1>3 DEF Calls

\* Whatever fails, and in whatever order calls run, the database only ever
\* gains whole cases and escalations of stored cases.
THEOREM ServiceImplementsCaseFile == Spec => ImplementsCaseFile
  <1>1. Init => Promised!Init
    BY DEF Init, Promised!Init
  <1>2. Inv /\ [Next]_vars => [Promised!Next]_db
    <2> SUFFICES ASSUME Inv, [Next]_vars PROVE Promised!Next \/ UNCHANGED db
      OBVIOUS
    <2>1. ASSUME NEW c \in Calls, CallStep(c), ~Commit(c) PROVE UNCHANGED db
      BY <2>1 DEF CallStep, Submit, Escalate, Begin, Continue, Fail, Rollback, Store,
         Flush, Resolve, Parse, CreateRequest, RecordReceived, RunFunnel, CreateRun,
         RecordCompleted, RecordEscalation, FindRequest, ListRuns,
         RecordUserEscalation, Answer, CommitFails, PoolTimeout, DatabaseError
    <2>2. ASSUME NEW c \in Calls, CallStep(c) PROVE Promised!Next \/ UNCHANGED db
      BY <2>1, <2>2, CommitStores
    <2>3. ASSUME NEW p \in Processes, Crash(p) PROVE UNCHANGED db
      BY <2>3 DEF Crash
    <2>4. CASE FlipSwitch \/ UNCHANGED vars
      BY <2>4 DEF FlipSwitch, vars
    <2> QED
      BY <2>2, <2>3, <2>4 DEF Next, CallStep
  <1> QED
    BY <1>1, <1>2, Invariance, PTL DEF Spec, ImplementsCaseFile, Promised!Spec
=============================================================================
