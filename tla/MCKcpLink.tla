------------------------------ MODULE MCKcpLink ------------------------------
(* One client and one session, two messages a side, and one second of age.  *)
EXTENDS KcpLink
=============================================================================
