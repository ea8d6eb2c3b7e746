------------------------------ MODULE MCTcpSend ------------------------------
(* Four messages around the batching limits: two that share a batch, one   *)
(* that fills what a third leaves, one larger than the array, one empty.   *)
EXTENDS TcpSend, TLC

CONSTANTS small1, small2, large, null

MCSize == (small1 :> 6) @@ (small2 :> 8) @@ (large :> 20) @@ (null :> 0)
MCMessage == {small1, small2, large, null}
=============================================================================
