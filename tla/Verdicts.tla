------------------------------ MODULE Verdicts ------------------------------
(***************************************************************************)
(* The vocabulary of a diagnosis: the verdict of one funnel step, the      *)
(* result of a run, how the orchestrator turns the last verdict into an    *)
(* outcome, and what the templated message then tells the user.            *)
(*                                                                         *)
(* app/orchestrator/verdicts.py, the tables and _finalize of               *)
(* state_machine.py, and verdict_messages.py.                              *)
(***************************************************************************)
EXTENDS Naturals, Sequences

\* The order in which every run walks the funnel (step 5 is never walked).
StepNames ==
  <<"system_availability", "account_status", "auth_events", "authorization">>

Steps == {StepNames[i] : i \in 1..4}

VerdictStatus == {"pass", "fail", "inconclusive"}

Outcome ==
  {"self_service_fix", "remediation_pending", "access_gap", "escalation"}

\* "none" stands for Python's None: no cause, no link.
None == "none"

\* The cause codes a step can report; an auth_events cause is whatever audit
\* action the directory recorded, "auth_failed" when it recorded none.
Causes ==
  {"system_down", "system_degraded",
   "locked", "password_expired", "disabled", "deprovisioned", "not_found",
   "auth_failed", "LOGIN", "DO_LOGIN",
   "missing_role", "access_expired", "access_revoked",
   "step_error", None}

Verdict == [step : Steps, status : VerdictStatus, cause : Causes]

Last(s) == s[Len(s)]

-----------------------------------------------------------------------------
(* Outcomes *)

MutantAccountStatusOutcome(cause) ==
  CASE cause \in {"locked", "password_expired"}  -> "self_service_fix"
    [] cause \in {"deprovisioned", "not_found"}  -> "access_gap"
    [] OTHER                                     -> None

AccountStatusOutcome(cause) ==
  CASE cause \in {"locked", "password_expired"}  -> "self_service_fix"
    [] cause \in {"deprovisioned", "not_found"}  -> "access_gap"
    [] OTHER                                     -> "escalation"

MutantAuthorizationOutcome(cause) == "access_gap"

AuthorizationOutcome(cause) ==
  IF cause = "access_revoked" THEN "escalation" ELSE "access_gap"

ResolveFailOutcome(v) ==
  CASE v.step = "account_status" -> AccountStatusOutcome(v.cause)
    [] v.step = "auth_events"    -> "self_service_fix"
    [] v.step = "authorization"  -> AuthorizationOutcome(v.cause)
    [] OTHER                     -> "escalation"

\* An all-pass run explains nothing, so it escalates like an inconclusive one.
OutcomeOf(v) ==
  IF v.status = "fail" THEN ResolveFailOutcome(v) ELSE "escalation"

MutantResetEligible(v) == v.step = "account_status"

\* PASSWORD_RESET_ELIGIBLE_CAUSES.
ResetEligible(v) ==
  v.step = "account_status" /\ v.cause = "password_expired"

Finalize(verdicts, link) ==
  LET last == Last(verdicts) IN
  [verdicts  |-> verdicts,
   outcome   |-> OutcomeOf(last),
   escalated |-> OutcomeOf(last) = "escalation",
   link      |-> IF ResetEligible(last) THEN link ELSE None]

-----------------------------------------------------------------------------
(* Messages: what each template asks of the user or says was done. *)

AccountMessage(cause) ==
  CASE cause = "locked"                         -> "contact_admin"
    [] cause = "password_expired"               -> "reset_password"
    [] cause \in {"not_found", "deprovisioned"} -> "request_access"
    [] OTHER                                    -> "escalated"

FailMessage(v) ==
  CASE v.step = "account_status" -> AccountMessage(v.cause)
    [] v.step = "auth_events"    -> "retry_login"
    [] v.step = "authorization"  ->
         IF v.cause = "access_revoked" THEN "escalated" ELSE "request_access"
    [] OTHER                     -> "escalated"

VerdictMessage(result) ==
  IF Last(result.verdicts).status = "fail"
    THEN FailMessage(Last(result.verdicts))
    ELSE "escalated"

\* The message carries the link only for a reset-eligible cause that has one.
MessageLink(result) ==
  IF ResetEligible(Last(result.verdicts)) THEN result.link ELSE None
-----------------------------------------------------------------------------
(* What a user-triggered escalation of a stored run says.                  *)

\* _ESCALATION_MESSAGES: the scenario is the step the stored run ended at;
\* without a run the message is generic.
EscalationScenario(result) ==
  IF result.verdicts = <<>> THEN "generic" ELSE Last(result.verdicts).step

\* build_escalation_message offers the stored link for the same causes.
EscalationLink(result) ==
  IF result.verdicts # <<>> /\ ResetEligible(Last(result.verdicts))
    THEN result.link
    ELSE None
=============================================================================
