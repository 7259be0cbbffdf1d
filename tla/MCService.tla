------------------------------ MODULE MCService ------------------------------
(***************************************************************************)
(* A small instance of DiagnosticService: two complaints and an escalation *)
(* of one or of each, on processes that share the database.                *)
(***************************************************************************)
EXTENDS DiagnosticService

CONSTANTS i1, i2, e1, e2, p1, p2, u1, u2

V(step, status, cause) == [step |-> step, status |-> status, cause |-> cause]

Up == V("system_availability", "pass", None)

Expired == Finalize(<<Up, V("account_status", "fail", "password_expired")>>, "OPENIAM")
Locked  == Finalize(<<Up, V("account_status", "fail", "locked")>>, None)
Unknown == Finalize(<<V("system_availability", "inconclusive", "step_error")>>, None)

MCResults == {Expired, Locked, Unknown}

\* One process, which handles two complaints and an escalation of the first.
OneProcess == {p1}
OneHome    == [c \in {i1, i2, e1} |-> p1]
OneTarget  == [e \in {e1} |-> i1]

\* A second process escalates the second complaint.
TwoProcesses == {p1, p2}
TwoHome      == [c \in {i1, i2, e1, e2} |-> IF c = e2 THEN p2 ELSE p1]
TwoTarget    == [e \in {e1, e2} |-> IF e = e1 THEN i1 ELSE i2]

MCLogin == [c \in {i1, i2} |-> IF c = i1 THEN "login 1" ELSE "login 2"]
=============================================================================
