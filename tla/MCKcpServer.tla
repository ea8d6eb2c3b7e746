----------------------------- MODULE MCKcpServer -----------------------------
(* Two sessions of a client that connects twice from one address: they are *)
(* given one worker or two, and find the same serial number in their       *)
(* memory or not.                                                          *)
EXTENDS KcpServer
=============================================================================
