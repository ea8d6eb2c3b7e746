----------------------------- MODULE MCMysqlPhase -----------------------------
(* Two tasks on two services, with one connection or two for them, so that *)
(* the pool may be empty and the tasks may share a service.                *)
EXTENDS MysqlPhase
=============================================================================
