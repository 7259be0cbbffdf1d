---------------------------- MODULE MCTokenClient ----------------------------
(***************************************************************************)
(* Small instances of TokenClient: one process with several concurrent     *)
(* requests, and two processes with one request each.                      *)
(***************************************************************************)
EXTENDS TokenClient

CONSTANTS p1, p2, t1, t2, t3

OneProcess  == {p1}
OneTasks    == {t1, t2}
OneHome     == [t \in OneTasks |-> p1]

TwoProcesses == {p1, p2}
TwoTasks     == {t1, t3}
TwoHome      == [t \in TwoTasks |-> IF t = t3 THEN p2 ELSE p1]
=============================================================================
