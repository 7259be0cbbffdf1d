------------------------------ MODULE CaseFile ------------------------------
(***************************************************************************)
(* What the database promises to whoever audits it, without transactions,  *)
(* calls or processes: a diagnosed complaint is stored whole or not at     *)
(* all, a user's escalation quotes the run of a stored case, and nothing   *)
(* is ever changed or removed.                                             *)
(***************************************************************************)
EXTENDS CaseRows

CONSTANTS
  Intakes,      \* complaints
  Escalations,  \* escalations by users
  Users,        \* OpenIAM users a complaint can be about
  Results       \* results a run can have

VARIABLE db

Init == db = {}

\* A complaint is stored once, with its run.
StoreCase(r) ==
  /\ \A row \in db : row.request # r
  /\ \E who \in Users, res \in Results : db' = db \cup Case(r, who, res)

\* An escalation is stored once, with the run of its case.
StoreEscalation(e) ==
  /\ \A row \in db : row.by # e
  /\ \E r \in Intakes, who \in Users, res \in Results :
       /\ Case(r, who, res) \subseteq db
       /\ db' = db \cup {UserEscalationRow(e, r, who, res)}

Next ==
  \/ \E r \in Intakes : StoreCase(r)
  \/ \E e \in Escalations : StoreEscalation(e)

Spec == Init /\ [][Next]_db
=============================================================================
