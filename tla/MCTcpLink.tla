------------------------------ MODULE MCTcpLink ------------------------------
(* Two sessions under one key, whose sockets belong to two workers, so     *)
(* that two answers can be counted at once; the client of one is the       *)
(* library's, the other's does as it pleases.                              *)
EXTENDS TcpLink, TLC

CONSTANTS s1, s2, w1, w2

MCHomes == (s1 :> w1) @@ (s2 :> w2)
=============================================================================
