------------------------------ MODULE TcpFraming ------------------------------
(***************************************************************************)
(* The receiving half of a TCP session (src/Tcp.cpp, doRead and parseMsg;  *)
(* src/Kcp.cpp holds the same parser): the worker reads chunks of the byte *)
(* stream, cuts it into messages by the 4-byte length each begins with,    *)
(* and posts the messages to the main thread, which looks up and calls     *)
(* their handlers.                                                         *)
(*                                                                         *)
(* A byte is its position in the stream, so a buffer shows which bytes it  *)
(* holds and in which order.  The peer's stream is a sequence of messages; *)
(* cut[i] is the position of the last byte of the i-th one.                *)
(*                                                                         *)
(* A message that arrives in several reads is moved out of the session     *)
(* with "auto recvMsg = MessagePtr(); recvMsg->swap(prevMsg)" (l. 382).    *)
(* A default-constructed CopyablePtr holds no Message (CopyablePtr.hpp:14, *)
(* 51), so swap's virtual call to serialize() goes through a null pointer  *)
(* and the process traps.  defaultPtr = "null" is the code as built;       *)
(* "message" is the code with the value the comment on that constructor    *)
(* speaks of, so that the rest of the parser can be checked too.           *)
(***************************************************************************)
EXTENDS Naturals, Sequences, FiniteSets

CONSTANTS
  Streams,                 \* the streams a peer may send, as their cuts
  Commands,                \* numbers of the messages whose id has a handler
  NETWORK_BUF_SIZE,        \* most bytes one read returns
  MSG_SIZE,                \* longest message the parser accepts
  DefaultPtr               \* the values of defaultPtr to consider

(* A length field, and the header every message begins with.               *)
LENGTH == 4
HEADER == 6

ASSUME StreamsAssumption ==
  \A c \in Streams : c \in Seq(Nat) /\ \A i \in DOMAIN c :
    c[i] >= (IF i = 1 THEN 0 ELSE c[i-1]) + HEADER
ASSUME SizesAssumption ==
  /\ NETWORK_BUF_SIZE \in Nat \ {0} /\ MSG_SIZE \in Nat
  /\ DefaultPtr \subseteq {"null", "message"}

VARIABLES
  defaultPtr,              \* what MessagePtr() holds, see above
  cut,                     \* the stream being received
  taken,                   \* bytes of it read from the socket
  data,                    \* bytes of the current read not yet parsed
  prev,                    \* m_PreMsg: an incomplete message, kept between reads
  posted,                  \* messages queued for the main thread
  done,                    \* how many the main thread has taken
  called,                  \* those it called a handler with
  status                   \* what the worker does next

vars == <<defaultPtr, cut, taken, data, prev, posted, done, called, status>>

(* m_buff null; pointing at m_writePoint itself, with the first bytes of a *)
(* length there; or a heap buffer of the message's length.  bytes stands   *)
(* for the bytes kept, so m_readPoint or m_writePoint is their number.     *)
NoMsg == [buff |-> "null", bytes |-> <<>>]

TypeOK ==
  /\ defaultPtr \in DefaultPtr
  /\ cut \in Streams
  /\ taken \in Nat
  /\ data \in Seq(Nat)
  /\ prev \in [buff : {"null", "length", "heap"}, bytes : Seq(Nat)]
  /\ posted \in Seq(Seq(Nat))
  /\ done \in Nat
  /\ called \in Seq(Seq(Nat))
  /\ status \in {"reading", "removed", "refused", "trapped"}

Init ==
  /\ defaultPtr \in DefaultPtr
  /\ cut \in Streams
  /\ taken = 0 /\ data = <<>> /\ prev = NoMsg
  /\ posted = <<>> /\ done = 0 /\ called = <<>> /\ status = "reading"

Begin(i) == IF i = 1 THEN 1 ELSE cut[i-1] + 1
Total == IF cut = <<>> THEN 0 ELSE cut[Len(cut)]

(* The bytes of the i-th message. *)
MessageBytes(i) == [j \in 1 .. cut[i] + 1 - Begin(i) |-> Begin(i) + j - 1]

(* The length a buffer begins with: what the peer wrote if its first four  *)
(* bytes are the first four of a message, otherwise some other number.     *)
LengthOf(b) ==
  IF \E i \in DOMAIN cut : SubSeq(b, 1, LENGTH) = SubSeq(MessageBytes(i), 1, LENGTH)
  THEN LET i == CHOOSE i \in DOMAIN cut : b[1] = Begin(i) IN cut[i] + 1 - Begin(i)
  ELSE 0

(* Mutant: the limit itself is refused. *)
OverLimitInclusive(b) == LengthOf(b) >= MSG_SIZE

OverLimit(b) == LengthOf(b) > MSG_SIZE

Take(s, n) == SubSeq(s, 1, n)
Drop(s, n) == SubSeq(s, n+1, Len(s))

Idle == status = "reading" /\ data = <<>>
Parsing == status = "reading" /\ data # <<>>

-----------------------------------------------------------------------------
(* doRead: the socket is readable and gives n bytes. *)
Read(n) ==
  /\ Idle
  /\ n <= Total - taken
  /\ data' = [j \in 1 .. n |-> taken + j]
  /\ taken' = taken + n
  /\ UNCHANGED <<defaultPtr, cut, prev, posted, done, called, status>>

(* doRead: async_wait or read_some reports an error, the end of the stream *)
(* included; removeSelf().                                                 *)
ReadFails ==
  /\ Idle
  /\ status' = "removed"
  /\ UNCHANGED <<defaultPtr, cut, taken, data, prev, posted, done, called>>

(* parseMsg with nothing kept.  Fewer than four bytes: keep them. *)
KeepLength ==
  /\ Parsing /\ prev.buff = "null" /\ Len(data) < LENGTH
  /\ prev' = [buff |-> "length", bytes |-> data]
  /\ data' = <<>>
  /\ UNCHANGED <<defaultPtr, cut, taken, posted, done, called, status>>

(* The whole message is there: post it and parse what follows. *)
WholeMessage ==
  /\ Parsing /\ prev.buff = "null" /\ Len(data) >= LENGTH
  /\ ~OverLimit(data) /\ LengthOf(data) <= Len(data)
  /\ posted' = Append(posted, Take(data, LengthOf(data)))
  /\ data' = Drop(data, LengthOf(data))
  /\ UNCHANGED <<defaultPtr, cut, taken, prev, done, called, status>>

(* Only its beginning is there: keep that in a buffer of its length. *)
StartBody ==
  /\ Parsing /\ prev.buff = "null" /\ Len(data) >= LENGTH
  /\ ~OverLimit(data) /\ LengthOf(data) > Len(data)
  /\ prev' = [buff |-> "heap", bytes |-> data]
  /\ data' = <<>>
  /\ UNCHANGED <<defaultPtr, cut, taken, posted, done, called, status>>

(* parseMsg with a piece of a length kept, which stays a piece. *)
ExtendLength ==
  /\ Parsing /\ prev.buff = "length" /\ Len(prev.bytes) + Len(data) < LENGTH
  /\ prev' = [prev EXCEPT !.bytes = @ \o data]
  /\ data' = <<>>
  /\ UNCHANGED <<defaultPtr, cut, taken, posted, done, called, status>>

(* The kept bytes once the length in front of them is complete, and how    *)
(* many bytes of data that took.                                           *)
CutSize == IF prev.buff = "length" THEN LENGTH - Len(prev.bytes) ELSE 0
WithLength == prev.bytes \o Take(data, CutSize)
LengthKnown == \/ prev.buff = "heap"
               \/ prev.buff = "length" /\ Len(prev.bytes) + Len(data) >= LENGTH

Missing == LengthOf(WithLength) - Len(WithLength)

(* Mutant: a body that ends with the chunk is not seen to be complete. *)
BodyCompleteStrict == Len(data) > CutSize + Missing

BodyComplete == Len(data) >= CutSize + Missing

(* The length is over MSG_SIZE: parseMsg returns false and doRead removes  *)
(* the session.                                                            *)
TooLong ==
  /\ Parsing
  /\ \/ prev.buff = "null" /\ Len(data) >= LENGTH /\ OverLimit(data)
        /\ UNCHANGED prev
     \/ LengthKnown /\ OverLimit(WithLength)
        /\ prev' = [buff |-> "heap", bytes |-> WithLength]
  /\ status' = "refused"
  /\ data' = <<>>
  /\ UNCHANGED <<defaultPtr, cut, taken, posted, done, called>>

(* The rest of the kept message is there: swap it out of the session, post *)
(* it and parse what follows.                                              *)
CompleteBody ==
  /\ Parsing /\ LengthKnown
  /\ ~OverLimit(WithLength)
  /\ BodyComplete
  /\ \/ /\ defaultPtr = "message"
        /\ posted' = Append(posted, WithLength \o SubSeq(data, CutSize+1, CutSize+Missing))
        /\ data' = Drop(data, CutSize + Missing)
        /\ prev' = NoMsg
        /\ UNCHANGED status
     \/ /\ defaultPtr = "null"
        /\ status' = "trapped"
        /\ UNCHANGED <<data, prev, posted>>
  /\ UNCHANGED <<defaultPtr, cut, taken, done, called>>

(* Mutant: the chunk is appended from its first byte. *)
ExtendBodyTwice ==
  /\ Parsing /\ LengthKnown
  /\ ~OverLimit(WithLength)
  /\ ~BodyComplete
  /\ prev' = [buff |-> "heap", bytes |-> WithLength \o data]
  /\ data' = <<>>
  /\ UNCHANGED <<defaultPtr, cut, taken, posted, done, called, status>>

(* The rest is not all there: append what is. *)
ExtendBody ==
  /\ Parsing /\ LengthKnown
  /\ ~OverLimit(WithLength)
  /\ ~BodyComplete
  /\ prev' = [buff |-> "heap", bytes |-> WithLength \o Drop(data, CutSize)]
  /\ data' = <<>>
  /\ UNCHANGED <<defaultPtr, cut, taken, posted, done, called, status>>

(* Mutant: a message without a handler is given to another one. *)
HandleMessageAny ==
  /\ posted # <<>> /\ status # "trapped"
  /\ posted' = Tail(posted)
  /\ done' = done + 1
  /\ called' = Append(called, Head(posted))
  /\ UNCHANGED <<defaultPtr, cut, taken, data, prev, status>>

(* handleMessage, on the main thread: call the handler of the message's    *)
(* id, if one is registered.                                               *)
HandleMessage ==
  /\ posted # <<>> /\ status # "trapped"
  /\ posted' = Tail(posted)
  /\ done' = done + 1
  /\ called' = IF \E i \in Commands \cap DOMAIN cut : Head(posted)[1] = Begin(i)
               THEN Append(called, Head(posted)) ELSE called
  /\ UNCHANGED <<defaultPtr, cut, taken, data, prev, status>>

ParseMsg == \/ KeepLength \/ WholeMessage \/ StartBody \/ ExtendLength
            \/ TooLong \/ CompleteBody \/ ExtendBody

Next ==
  \/ \E n \in 1 .. NETWORK_BUF_SIZE : Read(n)
  \/ ReadFails
  \/ ParseMsg
  \/ HandleMessage

(* Bytes that were sent arrive, the worker parses what it has read and the *)
(* main thread takes what was posted; reads need not fail.                 *)
Fairness ==
  /\ WF_vars(\E n \in 1 .. NETWORK_BUF_SIZE : Read(n))
  /\ WF_vars(ParseMsg)
  /\ WF_vars(HandleMessage)

Spec == Init /\ [][Next]_vars
FairSpec == Spec /\ Fairness

-----------------------------------------------------------------------------
(* Messages cut out of the stream so far. *)
Cut == done + Len(posted)

(* The messages the main thread has taken and has a handler for, and how   *)
(* many of them are no later than the i-th message.                        *)
Known == Commands \cap 1 .. done
Rank(i) == Cardinality(Commands \cap 1 .. i)

(* What the main thread is given is the peer's messages, each with exactly *)
(* its own bytes, once, in the order sent, however the reads fall; those   *)
(* whose id has a handler have been handled, each once and in order.       *)
InOrder ==
  /\ Cut <= Len(cut)
  /\ \A i \in DOMAIN posted : posted[i] = MessageBytes(done + i)
  /\ Len(called) = Cardinality(Known)
  /\ \A i \in Known : called[Rank(i)] = MessageBytes(i)

(* Every byte read is in a message already cut out, kept in m_PreMsg or    *)
(* still to be parsed: none is dropped or used twice.                      *)
BytesAccounted ==
  status = "reading" =>
    prev.bytes \o data = [j \in 1 .. taken + 1 - Begin(Cut+1) |-> Begin(Cut+1) + j - 1]

(* A session is refused only for a message over MSG_SIZE, and only after   *)
(* every message before it has been posted.                                *)
RefusedForLength ==
  status = "refused" => /\ Cut < Len(cut)
                        /\ Len(MessageBytes(Cut+1)) > MSG_SIZE

(* Every message of the stream reaches the main thread unless reading      *)
(* stops; nothing is left to wait for a read that never comes.             *)
AllTaken == <>(done = Len(cut) \/ status # "reading")

(* "If value can be default-constructed, why not? Then we don't have to    *)
(* move it in" (CopyablePtr.hpp:12): the pointer parseMsg moves a split    *)
(* message into has a value to swap with.                                  *)
NeverTraps == status # "trapped"
=============================================================================
