--------------------------- MODULE OrderedChannel ---------------------------
(***************************************************************************)
(* What one direction of a nicenet session promises its users: messages    *)
(* are accepted in some order, and the other side is given them in that    *)
(* order, each once, until the session breaks.  TcpSend implements it from *)
(* sendMessage to the wire.                                                *)
(***************************************************************************)
EXTENDS Naturals, Sequences

CONSTANT Message           \* the messages users send

VARIABLES
  accepted,                \* messages accepted so far, in order
  delivered,               \* messages that have reached the other side
  closed                   \* TRUE once the session has broken

vars == <<accepted, delivered, closed>>

TypeOK == /\ accepted \in Seq(Message)
          /\ delivered \in Seq(Message)
          /\ closed \in BOOLEAN

Init == accepted = <<>> /\ delivered = <<>> /\ closed = FALSE

(* A user hands a message over; a broken session still swallows it. *)
Accept(m) == /\ accepted' = Append(accepted, m)
             /\ UNCHANGED <<delivered, closed>>

(* The next n accepted messages reach the other side. *)
Deliver(n) == /\ ~closed
              /\ Len(delivered) + n <= Len(accepted)
              /\ delivered' = SubSeq(accepted, 1, Len(delivered) + n)
              /\ UNCHANGED <<accepted, closed>>

Break == closed' = TRUE /\ UNCHANGED <<accepted, delivered>>

Next == \/ \E m \in Message : Accept(m)
        \/ \E n \in 1 .. Len(accepted) : Deliver(n)
        \/ Break

Spec == Init /\ [][Next]_vars
=============================================================================
