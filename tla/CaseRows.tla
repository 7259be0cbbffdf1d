------------------------------ MODULE CaseRows ------------------------------
(***************************************************************************)
(* The rows the agent stores: diagnostic_requests, diagnostic_runs and     *)
(* audit_events, told apart by their kind.                                 *)
(*                                                                         *)
(* A row is [kind, request, by, subject, result]: the request it is about  *)
(* (its correlation id), the HTTP call that wrote it (its requester and    *)
(* its key), the OpenIAM user it is about, and the run it quotes.          *)
(***************************************************************************)
EXTENDS Verdicts

NoResult == [verdicts |-> <<>>, outcome |-> None, escalated |-> FALSE, link |-> None]

NoUser == "no user"

Row(kind, r, who, res) ==
  [kind |-> kind, request |-> r, by |-> r, subject |-> who, result |-> res]

\* IntakeService.submit: the request, and that it was received.
RequestRow(r, who)  == Row("request", r, who, NoResult)
ReceivedRow(r, who) == Row("received", r, who, NoResult)

\* DiagnosticService.run_diagnostic: the run, that it completed, and the
\* escalation of a run that nobody can act upon but support.
RunRow(r, who, res)        == Row("run", r, who, res)
CompletedRow(r, who, res)  == Row("completed", r, who, res)
EscalationRow(r, who, res) == Row("escalation", r, who, res)

\* DiagnosticService.escalate_request: a user hands the stored run to support.
MutantUserEscalationRow(e, r, who, res) ==
  [Row("user_escalation", r, who, res) EXCEPT !.request = e]

UserEscalationRow(e, r, who, res) ==
  [Row("user_escalation", r, who, res) EXCEPT !.by = e]

\* Everything the agent stores about one diagnosed complaint.
Case(r, who, res) ==
  {RequestRow(r, who), ReceivedRow(r, who), RunRow(r, who, res),
   CompletedRow(r, who, res)}
    \cup IF res.escalated THEN {EscalationRow(r, who, res)} ELSE {}

AuditKinds == {"received", "completed", "escalation", "user_escalation"}
=============================================================================
