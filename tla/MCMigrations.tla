---------------------------- MODULE MCMigrations ----------------------------
(***************************************************************************)
(* The six scripts of alembic/versions, run by up to two commands while a  *)
(* complaint is submitted.                                                 *)
(***************************************************************************)
EXTENDS Migrations, SchemaHistory

CONSTANTS m1, m2, c1

MCPlan == [c \in Calls |-> ComplaintPlan]
=============================================================================
