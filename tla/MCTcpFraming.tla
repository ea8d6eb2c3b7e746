----------------------------- MODULE MCTcpFraming -----------------------------
(* Streams of up to three messages, from the smallest one to one over the  *)
(* limit, and reads that end inside a length, inside a body, at the end of *)
(* a message and inside the message after the next.                        *)
EXTENDS TcpFraming

MCSizes == {6, 7, 18, 19}
MCStreams == {<<a, a+b, a+b+c>> : a \in MCSizes, b \in MCSizes, c \in MCSizes}
MCCommands == {1, 3}
=============================================================================
