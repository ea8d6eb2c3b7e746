------------------------------- MODULE TcpSend -------------------------------
(***************************************************************************)
(* The sending half of a TCP session (src/Tcp.cpp, TcpSession::doSend).    *)
(*                                                                         *)
(* sendMessage may be called on any thread.  It moves the message's buffer *)
(* into a closure and posts the closure to the session's io_context, whose *)
(* only thread (the session's worker) owns m_SendList and m_IsSending.     *)
(* At most one asynchronous write is meant to be outstanding: it is either *)
(* a batch of small messages copied into an array on the stack of          *)
(* doSend(), or the front message of the list, written in place.           *)
(*                                                                         *)
(* asio's async_write first writes, inside the call, what the kernel will  *)
(* take at once; the rest is written from the same buffer by the worker's  *)
(* event loop, after doSend() has returned.  The stack array is dead by    *)
(* then, so those bytes may be anything: the messages they belong to are   *)
(* recorded in torn.                                                       *)
(***************************************************************************)
EXTENDS Naturals, Sequences

CONSTANTS
  Message,                 \* the messages users send, each at most once
  Size,                    \* getSize() of each one
  NETWORK_BUF_SIZE         \* capacity of the stack array

(* A message is either empty (m_buff null, size 0) or a header of 6 bytes  *)
(* and its body.                                                           *)
ASSUME SizeAssumption == Size \in [Message -> Nat]
ASSUME BufAssumption == NETWORK_BUF_SIZE \in Nat

VARIABLES
  sent,                    \* history: messages in the order they were posted
  posted,                  \* closures queued in the worker's io_context
  sendList,                \* m_SendList
  isSending,               \* m_IsSending
  write,                   \* the asynchronous write in progress
  wire,                    \* history: messages handed to the kernel
  torn,                    \* those whose bytes came from the dead stack array
  broken                   \* a write failed and removeSelf() was called

vars == <<sent, posted, sendList, isSending, write, wire, torn, broken>>

Elements(s) == {s[i] : i \in DOMAIN s}

(* buf says which memory the write reads, msgs the messages it was started *)
(* with, left those of them it has still to write.                         *)
NoWrite == [buf |-> "none", msgs |-> <<>>, left |-> <<>>]

TypeOK ==
  /\ sent \in Seq(Message)
  /\ posted \in Seq(Message)
  /\ sendList \in Seq(Message)
  /\ isSending \in BOOLEAN
  /\ write \in [buf : {"none", "stack", "front"}, msgs : Seq(Message), left : Seq(Message)]
  /\ wire \in Seq(Message)
  /\ torn \subseteq Message
  /\ broken \in BOOLEAN

Init ==
  /\ sent = <<>> /\ posted = <<>> /\ sendList = <<>>
  /\ isSending = FALSE /\ write = NoWrite
  /\ wire = <<>> /\ torn = {} /\ broken = FALSE

IsNull(m) == Size[m] = 0

(* Bytes in the first n messages of a list. *)
Bytes(list) ==
  LET upTo[n \in 0 .. Len(list)] == IF n = 0 THEN 0 ELSE upTo[n-1] + Size[list[n]]
  IN  upTo

(* doSend(Message&), on the caller's thread: move the buffer, post it. *)
SendMessage(m) ==
  /\ m \notin Elements(sent)
  /\ sent' = Append(sent, m)
  /\ posted' = Append(posted, m)
  /\ UNCHANGED <<sendList, isSending, write, wire, torn, broken>>

(* The loop that pops null buffers off the front removes d messages. *)
LeadingNulls(list, d) ==
  /\ \A i \in 1 .. d : IsNull(list[i])
  /\ d < Len(list) => ~IsNull(list[d+1])

(* Mutant: the loop looks at the size only after it copied the message. *)
BatchLenChecksLate(list, n) ==
  /\ Bytes(list)[n-1] <= NETWORK_BUF_SIZE
  /\ n < Len(list) => Bytes(list)[n] > NETWORK_BUF_SIZE

(* The batching loop stops at the first message that does not fit. *)
BatchLen(list, n) ==
  /\ Bytes(list)[n] <= NETWORK_BUF_SIZE
  /\ n < Len(list) => Bytes(list)[n+1] > NETWORK_BUF_SIZE

(* More than one message waits and the front one is small: batch. *)
Batches(list) == Len(list) > 1 /\ Size[Head(list)] <= NETWORK_BUF_SIZE

(* doSend() with the given list: d null messages leave it without a byte.  *)
(* The kernel takes k messages of a batch, or nothing or all of a single   *)
(* message, before the call returns.                                       *)
DoSend(list) ==
  \E d \in 0 .. Len(list) :
    LET rest    == SubSeq(list, d+1, Len(list))
        dropped == wire \o SubSeq(list, 1, d)
    IN
    /\ LeadingNulls(list, d)
    /\ \/ /\ rest = <<>>
          /\ sendList' = <<>>
          /\ isSending' = FALSE
          /\ write' = NoWrite
          /\ wire' = dropped
       \/ /\ rest # <<>> /\ Batches(rest)
          /\ isSending' = TRUE
          /\ \E n \in 1 .. Len(rest) :
               /\ BatchLen(rest, n)
               /\ sendList' = SubSeq(rest, n+1, Len(rest))
               /\ \E k \in 0 .. n :
                    /\ wire' = dropped \o SubSeq(rest, 1, k)
                    /\ write' = [buf |-> "stack", msgs |-> SubSeq(rest, 1, n),
                                 left |-> SubSeq(rest, k+1, n)]
       \/ /\ rest # <<>> /\ ~Batches(rest)
          /\ isSending' = TRUE
          /\ sendList' = rest
          /\ \/ /\ wire' = dropped \o <<Head(rest)>>
                /\ write' = [buf |-> "front", msgs |-> <<Head(rest)>>, left |-> <<>>]
             \/ /\ wire' = dropped
                /\ write' = [buf |-> "front", msgs |-> <<Head(rest)>>,
                             left |-> <<Head(rest)>>]

(* Mutant: the flag is looked at before the message joins the list. *)
RunPostedFlagFirst ==
  /\ posted # <<>>
  /\ posted' = Tail(posted)
  /\ \/ isSending /\ UNCHANGED <<sendList, isSending, write, wire>>
     \/ ~isSending /\ DoSend(Append(sendList, Head(posted)))
  /\ UNCHANGED <<sent, torn, broken>>

(* Mutant: doSend() is called whatever the flag says. *)
RunPostedNoFlag ==
  /\ posted # <<>>
  /\ posted' = Tail(posted)
  /\ DoSend(Append(sendList, Head(posted)))
  /\ UNCHANGED <<sent, torn, broken>>

(* Mutant: the closure puts its message at the front of the list. *)
RunPostedInFront ==
  /\ posted # <<>>
  /\ posted' = Tail(posted)
  /\ LET list == <<Head(posted)>> \o sendList IN
       \/ isSending /\ sendList' = list /\ UNCHANGED <<isSending, write, wire>>
       \/ ~isSending /\ DoSend(list)
  /\ UNCHANGED <<sent, torn, broken>>

(* The posted closure, on the worker. *)
RunPosted ==
  /\ posted # <<>>
  /\ posted' = Tail(posted)
  /\ LET list == Append(sendList, Head(posted)) IN
       \/ /\ isSending
          /\ sendList' = list
          /\ UNCHANGED <<isSending, write, wire>>
       \/ ~isSending /\ DoSend(list)
  /\ UNCHANGED <<sent, torn, broken>>

(* The event loop writes the next message of an unfinished write. *)
Transfer ==
  /\ write.left # <<>>
  /\ LET m == Head(write.left) IN
       /\ wire' = Append(wire, m)
       /\ torn' \in IF write.buf = "stack" THEN {torn, torn \cup {m}} ELSE {torn}
  /\ write' = [write EXCEPT !.left = Tail(write.left)]
  /\ UNCHANGED <<sent, posted, sendList, isSending, broken>>

(* Mutant: a completed single message is not popped. *)
WriteDoneNoPop ==
  /\ write.buf # "none" /\ write.left = <<>>
  /\ \/ sendList # <<>> /\ DoSend(sendList)
     \/ sendList = <<>> /\ isSending' = FALSE /\ write' = NoWrite
        /\ UNCHANGED <<sendList, wire>>
  /\ UNCHANGED <<sent, posted, torn, broken>>

(* Mutant: the handler lowers the flag without a look at the list. *)
WriteDoneNoRestart ==
  /\ write.buf # "none" /\ write.left = <<>>
  /\ sendList' = IF write.buf = "front" THEN Tail(sendList) ELSE sendList
  /\ isSending' = FALSE /\ write' = NoWrite
  /\ UNCHANGED <<sent, posted, wire, torn, broken>>

(* Mutant: the handler leaves the flag up when the list is empty. *)
WriteDoneFlagUp ==
  /\ write.buf # "none" /\ write.left = <<>>
  /\ LET list == IF write.buf = "front" THEN Tail(sendList) ELSE sendList IN
       \/ list # <<>> /\ DoSend(list)
       \/ list = <<>> /\ sendList' = list /\ write' = NoWrite
          /\ UNCHANGED <<isSending, wire>>
  /\ UNCHANGED <<sent, posted, torn, broken>>

(* The completion handlers, on success; only the one of a single message   *)
(* still has the message to pop.                                           *)
WriteDone ==
  /\ write.buf # "none" /\ write.left = <<>>
  /\ LET list == IF write.buf = "front" THEN Tail(sendList) ELSE sendList IN
       \/ list # <<>> /\ DoSend(list)
       \/ /\ list = <<>>
          /\ sendList' = list
          /\ isSending' = FALSE
          /\ write' = NoWrite
          /\ UNCHANGED wire
  /\ UNCHANGED <<sent, posted, torn, broken>>

(* The completion handlers, on an error (then bytes are left, so           *)
(* s < size_ holds only here): removeSelf(), and m_IsSending stays raised. *)
WriteFails ==
  /\ write.left # <<>>
  /\ write' = NoWrite
  /\ broken' = TRUE
  /\ UNCHANGED <<sent, posted, sendList, isSending, wire, torn>>

Next ==
  \/ \E m \in Message : SendMessage(m)
  \/ RunPosted
  \/ Transfer
  \/ WriteDone
  \/ WriteFails

(* The worker's thread runs its handlers, and a connection that has not    *)
(* failed makes progress; users need not send and writes need not fail.    *)
Fairness == WF_vars(RunPosted) /\ WF_vars(Transfer) /\ WF_vars(WriteDone)

Spec == Init /\ [][Next]_vars
FairSpec == Spec /\ Fairness

-----------------------------------------------------------------------------
(* What the worker holds and has not written, in order: what is left of a  *)
(* batch, then the list, whose front a write may have written already.     *)
Held == CASE write.buf = "stack" -> write.left \o sendList
          [] write.buf = "front" /\ write.left = <<>> -> Tail(sendList)
          [] OTHER -> sendList

(* Whatever the batching, the sequence of messages users sent is what the  *)
(* kernel has, followed by what the session still holds: none is lost,     *)
(* repeated or overtaken, while the session works.                         *)
Conservation == ~broken => (wire \o Held) \o posted = sent

(* m_IsSending is raised exactly while a completion handler is due that    *)
(* will lower it, until a write fails: no message can sit in the list with *)
(* nobody left to write it.                                                *)
FlagHasOwner ==
  /\ ~broken => (isSending <=> write.buf # "none")
  /\ ~isSending => sendList = <<>> /\ write = NoWrite

(* A write in place reads the front of the list until it completes: the    *)
(* buffer it reads is not freed or replaced under it.                      *)
FrontStaysPut ==
  write.buf = "front" =>
    /\ sendList # <<>>
    /\ write.left \in {<<>>, <<Head(sendList)>>}

(* Only a message small enough for a batch can be torn by the dead array.  *)
LargeMessagesIntact == \A m \in torn : Size[m] <= NETWORK_BUF_SIZE

(* No write is started, and none forgotten, while one has bytes to write:  *)
(* the kernel never gets two messages' bytes interleaved.                  *)
OneWriteAtATime ==
  [][write.left # <<>> /\ ~broken' =>
       /\ write'.buf = write.buf
       /\ write'.left \in {write.left, Tail(write.left)}]_vars

(* Every message sent reaches the kernel unless the session fails. *)
EventuallyWritten ==
  \A m \in Message : m \in Elements(sent) ~> (m \in Elements(wire) \/ broken)

(* The session's sending half is an ordered channel. *)
Channel == INSTANCE OrderedChannel
             WITH accepted <- sent, delivered <- wire, closed <- broken
ImplementsChannel == Channel!Spec
=============================================================================
