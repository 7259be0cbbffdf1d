------------------------------ MODULE Diagnosis ------------------------------
(***************************************************************************)
(* What a diagnostic run promises to whoever reads its result, without the *)
(* connector, the directory or the funnel's calls: verdicts appear one at  *)
(* a time in the funnel's order, the first that is not a pass is the last, *)
(* the result is published once, and it is never more reassuring than the  *)
(* verdict it rests on.                                                    *)
(***************************************************************************)
EXTENDS Verdicts

CONSTANT Links   \* the reset links a result may carry

VARIABLES phase, verdicts, result

vars == <<phase, verdicts, result>>

NoResult == [verdicts |-> <<>>, outcome |-> None, escalated |-> FALSE, link |-> None]

Init == phase = "idle" /\ verdicts = <<>> /\ result = NoResult

Begin ==
  /\ phase # "running"
  /\ phase' = "running" /\ verdicts' = <<>> /\ result' = NoResult

\* The outcomes a final verdict allows: only a failed step with a cause the
\* user can act on spares support the case.
Allowed(v) ==
  IF v.status # "fail" \/ v.step = "system_availability"
    THEN {"escalation"}
    ELSE {"self_service_fix", "access_gap", "escalation"}

Publish(v, outcome, l) ==
  /\ outcome \in Allowed(v)
  /\ l # None => v.cause = "password_expired"
  /\ result' = [verdicts  |-> verdicts',
                outcome   |-> outcome,
                escalated |-> outcome = "escalation",
                link      |-> l]

Judge(status, cause) ==
  LET v == [step |-> StepNames[Len(verdicts) + 1], status |-> status, cause |-> cause]
  IN
  /\ phase = "running"
  /\ verdicts' = Append(verdicts, v)
  /\ \/ /\ status = "pass" /\ Len(verdicts) + 1 < Len(StepNames)
        /\ UNCHANGED <<phase, result>>
     \/ /\ status # "pass" \/ Len(verdicts) + 1 = Len(StepNames)
        /\ phase' = "done"
        /\ \E outcome \in Outcome, l \in Links \cup {None} : Publish(v, outcome, l)

Next ==
  \/ Begin
  \/ \E status \in VerdictStatus, cause \in Causes : Judge(status, cause)

Spec == Init /\ [][Next]_vars
=============================================================================
