--------------------------- MODULE TcpFramingProofs ---------------------------
(***************************************************************************)
(* Proofs about the receiving half of a TCP session, for every stream of   *)
(* messages, every size of the reads and every limit on a message.  As a   *)
(* byte is its position in the stream, what a buffer holds is a window on  *)
(* the stream; the parser cuts, joins and drops windows.                   *)
(***************************************************************************)
EXTENDS TcpFraming, TLAPS, SequenceTheorems, FiniteSetTheorems, WellFoundedInduction

(* Every set of natural numbers that is not empty has a least member.      *)
LEMMA Least ==
  ASSUME NEW B, B \subseteq Nat, B # {}
  PROVE  \E n \in B : \A k \in B : n <= k
<1> DEFINE R == {ss \in Nat \X Nat : ss[1] < ss[2]}
<1>1. IsWellFoundedOn(R, Nat)
  BY NatLessThanWellFounded DEF OpToRel
<1>2. \A x, y \in Nat : <<y, x>> \in R <=> y < x
  OBVIOUS
<1>3. PICK n \in B : \A k \in B : ~ (<<k, n>> \in R)
  <2> HIDE DEF R
  <2> QED BY <1>1, WFMin
<1>4. \A k \in B : ~ (k < n)
  BY <1>2, <1>3
<1> QED BY <1>4

(* n bytes of the stream, from the a-th on. *)
Window(a, n) == [j \in 1 .. n |-> a + j - 1]

LEMMA WindowProperties ==
  ASSUME NEW a \in Nat, NEW n \in Nat
  PROVE  /\ Window(a, n) \in Seq(Nat) /\ Len(Window(a, n)) = n
         /\ \A j \in 1 .. n : Window(a, n)[j] = a + j - 1
         /\ Window(a, n) = <<>> <=> n = 0
<1>1. \A j \in 1 .. n : a + j - 1 \in Nat
  OBVIOUS
<1>2. Window(a, n) \in Seq(Nat)
  BY <1>1, IsASeq DEF Window
<1>3. Len(Window(a, n)) = n
  BY <1>2, LenProperties DEF Window
<1> QED BY <1>2, <1>3, EmptySeq DEF Window

(* A part of a window is a window ...                                      *)
LEMMA WindowPart ==
  ASSUME NEW a \in Nat, NEW n \in Nat, NEW p \in 0 .. n, NEW q \in p .. n
  PROVE  SubSeq(Window(a, n), p+1, q) = Window(a+p, q-p)
<1> DEFINE s == SubSeq(Window(a, n), p+1, q)
           w == Window(a+p, q-p)
<1>1. \A i \in p+1 .. q : Window(a, n)[i] \in Nat /\ Window(a, n)[i] = a + i - 1
  BY DEF Window
<1>2. /\ s \in Seq(Nat) /\ Len(s) = q - p
      /\ \A i \in 1 .. q-p : s[i] = Window(a, n)[p+1+i-1]
  BY <1>1, SubSeqProperties
<1>3. w \in Seq(Nat) /\ Len(w) = q-p /\ \A i \in 1 .. q-p : w[i] = a+p+i-1
  <2>1. a+p \in Nat /\ q-p \in Nat
    OBVIOUS
  <2> QED BY <2>1, WindowProperties
<1>4. \A i \in 1 .. q-p : s[i] = w[i]
  <2> SUFFICES ASSUME NEW i \in 1 .. q-p PROVE s[i] = w[i]
    OBVIOUS
  <2>1. p+1+i-1 \in p+1 .. q /\ p+1+i-1 = p+i
    OBVIOUS
  <2>2. s[i] = a + (p+i) - 1
    BY <1>1, <1>2, <2>1
  <2>3. w[i] = a+p+i-1
    BY <1>3
  <2> QED BY <2>2, <2>3
<1> HIDE DEF s, w
<1>5. s = w
  BY <1>2, <1>3, <1>4, SeqEqual
<1> QED BY <1>5 DEF s, w

(* ... and so are two windows of which one follows the other.              *)
LEMMA WindowJoin ==
  ASSUME NEW a \in Nat, NEW n \in Nat, NEW m \in Nat
  PROVE  Window(a, n) \o Window(a+n, m) = Window(a, n+m)
<1> DEFINE l == Window(a, n)
           r == Window(a+n, m)
           s == l \o r
           w == Window(a, n+m)
<1>1. l \in Seq(Nat) /\ Len(l) = n /\ \A i \in 1 .. n : l[i] = a+i-1
  BY WindowProperties
<1>2. r \in Seq(Nat) /\ Len(r) = m /\ \A i \in 1 .. m : r[i] = a+n+i-1
  <2>1. a+n \in Nat
    OBVIOUS
  <2> QED BY <2>1, WindowProperties
<1>3. w \in Seq(Nat) /\ Len(w) = n+m /\ \A i \in 1 .. n+m : w[i] = a+i-1
  BY WindowProperties
<1> HIDE DEF l, r, w
<1>4. /\ s \in Seq(Nat) /\ Len(s) = n+m
      /\ \A i \in 1 .. n+m : s[i] = IF i <= n THEN l[i] ELSE r[i-n]
  <2>1. l \in Seq(Nat) /\ r \in Seq(Nat)
    BY <1>1, <1>2
  <2>2. /\ s \in Seq(Nat) /\ Len(s) = Len(l) + Len(r)
        /\ \A i \in 1 .. Len(l) + Len(r) : s[i] = IF i <= Len(l) THEN l[i] ELSE r[i - Len(l)]
    BY <2>1, ConcatProperties
  <2>3. Len(l) = n /\ Len(r) = m
    BY <1>1, <1>2
  <2> QED BY <2>2, <2>3
<1> HIDE DEF s
<1>5. ASSUME NEW i \in 1 .. n+m PROVE s[i] = w[i]
  <2>1. CASE i <= n
    <3>1. i \in 1 .. n
      BY <2>1
    <3> QED BY <1>1, <1>3, <1>4, <2>1, <3>1
  <2>2. CASE ~ (i <= n)
    <3>1. i-n \in 1 .. m /\ a+n+(i-n)-1 = a+i-1
      BY <2>2
    <3>2. s[i] = r[i-n] /\ r[i-n] = a+n+(i-n)-1
      BY <1>2, <1>4, <2>2, <3>1
    <3> QED BY <1>3, <3>1, <3>2
  <2> QED BY <2>1, <2>2
<1>6. s = w
  BY <1>3, <1>4, <1>5, SeqEqual
<1> QED BY <1>6 DEF s, l, r, w

(* take and drop of a window.                                              *)
LEMMA WindowTakeDrop ==
  ASSUME NEW a \in Nat, NEW n \in Nat, NEW k \in 0 .. n
  PROVE  /\ Take(Window(a, n), k) = Window(a, k)
         /\ Drop(Window(a, n), k) = Window(a+k, n-k)
<1>1. SubSeq(Window(a, n), 1, k) = Window(a, k)
  <2>1. 0 \in 0 .. n /\ k \in 0 .. n
    OBVIOUS
  <2>2. SubSeq(Window(a, n), 0+1, k) = Window(a+0, k-0)
    BY <2>1, WindowPart
  <2>3. 0+1 = 1 /\ a+0 = a /\ k-0 = k
    OBVIOUS
  <2> QED BY <2>2, <2>3
<1>2. SubSeq(Window(a, n), k+1, n) = Window(a+k, n-k)
  <2>1. n \in k .. n
    OBVIOUS
  <2> QED BY <2>1, WindowPart
<1> QED BY <1>1, <1>2, WindowProperties DEF Take, Drop

-----------------------------------------------------------------------------
(* The messages of the stream lie one after the other in it.               *)
Size(i) == cut[i] + 1 - Begin(i)

LEMMA CutTypes ==
  ASSUME cut \in Streams
  PROVE  /\ cut \in Seq(Nat) /\ Len(cut) \in Nat /\ DOMAIN cut = 1 .. Len(cut)
         /\ \A i \in 1 .. Len(cut) : cut[i] \in Nat
         /\ \A i \in 1 .. Len(cut) + 1 : Begin(i) \in Nat \ {0}
         /\ \A i \in 1 .. Len(cut) : /\ Begin(i+1) = cut[i] + 1
                                     /\ Size(i) \in Nat /\ Size(i) >= HEADER
                                     /\ Begin(i+1) = Begin(i) + Size(i)
                                     /\ MessageBytes(i) = Window(Begin(i), Size(i))
         /\ Total \in Nat /\ Begin(Len(cut) + 1) = Total + 1
<1>1. cut \in Seq(Nat) /\ Len(cut) \in Nat /\ DOMAIN cut = 1 .. Len(cut)
  BY StreamsAssumption, LenProperties
<1>2. \A i \in 1 .. Len(cut) : cut[i] \in Nat
  BY <1>1, ElementOfSeq
<1>3. \A i \in 1 .. Len(cut) + 1 : Begin(i) \in Nat \ {0}
  <2> SUFFICES ASSUME NEW i \in 1 .. Len(cut) + 1 PROVE Begin(i) \in Nat \ {0}
    OBVIOUS
  <2>1. CASE i = 1
    BY <2>1 DEF Begin
  <2>2. CASE i # 1
    <3>1. i-1 \in 1 .. Len(cut)
      BY <1>1, <2>2
    <3> QED BY <1>2, <2>2, <3>1 DEF Begin
  <2> QED BY <2>1, <2>2
<1>4. ASSUME NEW i \in 1 .. Len(cut)
      PROVE  /\ Begin(i+1) = cut[i] + 1
             /\ Size(i) \in Nat /\ Size(i) >= HEADER
             /\ Begin(i+1) = Begin(i) + Size(i)
             /\ MessageBytes(i) = Window(Begin(i), Size(i))
  <2>1. Begin(i+1) = cut[i] + 1
    BY <1>1 DEF Begin
  <2>2. cut[i] >= (IF i = 1 THEN 0 ELSE cut[i-1]) + HEADER
    BY <1>1, StreamsAssumption
  <2>3. Begin(i) = (IF i = 1 THEN 0 ELSE cut[i-1]) + 1
    BY DEF Begin
  <2>4. Begin(i) \in Nat /\ cut[i] \in Nat /\ cut[i] >= Begin(i) - 1 + HEADER
    <3>1. i # 1 => cut[i-1] \in Nat
      BY <1>1, <1>2
    <3> QED BY <1>1, <1>2, <1>3, <2>2, <2>3, <3>1 DEF HEADER
  <2> QED BY <2>1, <2>4 DEF Size, MessageBytes, Window, HEADER
<1>5. Total \in Nat /\ Begin(Len(cut) + 1) = Total + 1
  <2>1. CASE cut = <<>>
    BY <2>1 DEF Total, Begin
  <2>2. CASE cut # <<>>
    <3>1. Len(cut) \in 1 .. Len(cut)
      BY <1>1, <2>2, EmptySeq
    <3> QED BY <1>2, <1>4, <2>2, <3>1 DEF Total
  <2> QED BY <2>1, <2>2
<1> QED BY <1>1, <1>2, <1>3, <1>4, <1>5

(* ... and what it says of one message.                                    *)
LEMMA MessageFacts ==
  ASSUME cut \in Streams, NEW i \in 1 .. Len(cut)
  PROVE  /\ Begin(i) \in Nat /\ Size(i) \in Nat /\ Size(i) >= 6
         /\ Begin(i+1) = Begin(i) + Size(i)
         /\ MessageBytes(i) = Window(Begin(i), Size(i))
<1>1. Len(cut) \in Nat /\ \A k \in 1 .. Len(cut) + 1 : Begin(k) \in Nat
  BY CutTypes
<1>2. i \in 1 .. Len(cut) + 1
  BY <1>1
<1>3. \A k \in 1 .. Len(cut) : /\ Size(k) \in Nat /\ Size(k) >= HEADER
                               /\ Begin(k+1) = Begin(k) + Size(k)
                               /\ MessageBytes(k) = Window(Begin(k), Size(k))
  BY CutTypes
<1> QED BY <1>1, <1>2, <1>3 DEF HEADER

LEMMA BeginsIncrease ==
  ASSUME cut \in Streams, NEW i \in 1 .. Len(cut) + 1, NEW j \in 1 .. Len(cut) + 1, i < j
  PROVE  Begin(i) < Begin(j)
<1> DEFINE B == {m \in i+1 .. Len(cut) + 1 : ~ (Begin(i) < Begin(m))}
<1>0. Len(cut) \in Nat /\ \A m \in 1 .. Len(cut) + 1 : Begin(m) \in Nat
  BY CutTypes
<1> SUFFICES ASSUME B # {} PROVE FALSE
  BY <1>0
<1>1. PICK m \in B : \A k \in B : m <= k
  <2>1. B \subseteq Nat
    BY <1>0
  <2> HIDE DEF B
  <2> QED BY <2>1, Least
<1>2. /\ m-1 \in 1 .. Len(cut) /\ m-1+1 = m /\ m-1 >= i /\ m-1 \notin B
  BY <1>0, <1>1
<1>3. Begin(m) = Begin(m-1) + Size(m-1) /\ Size(m-1) \in Nat /\ Size(m-1) >= 6
  <2>1. Begin(m-1+1) = Begin(m-1) + Size(m-1) /\ Size(m-1) \in Nat /\ Size(m-1) >= 6
    BY <1>2, MessageFacts
  <2> QED BY <1>2, <2>1
<1>4. m-1 = i \/ Begin(i) < Begin(m-1)
  BY <1>0, <1>2
<1>5. Begin(i) < Begin(m)
  BY SMTT(30), <1>0, <1>2, <1>3, <1>4
<1> QED BY <1>1, <1>5

LEMMA BeginsDiffer ==
  ASSUME cut \in Streams, NEW i \in 1 .. Len(cut), NEW j \in 1 .. Len(cut), Begin(i) = Begin(j)
  PROVE  i = j
<1>1. i \in 1 .. Len(cut) + 1 /\ j \in 1 .. Len(cut) + 1 /\ Begin(i) \in Nat
  <2>1. Len(cut) \in Nat
    BY CutTypes
  <2>2. i \in 1 .. Len(cut) + 1 /\ j \in 1 .. Len(cut) + 1
    BY <2>1
  <2>3. \A k \in 1 .. Len(cut) + 1 : Begin(k) \in Nat \ {0}
    BY CutTypes
  <2> HIDE DEF Begin
  <2> QED BY <2>2, <2>3
<1>2. ~ (i < j) /\ ~ (j < i)
  BY <1>1, BeginsIncrease
<1> QED BY <1>2

(* The parser reads the length of a message where the message begins.      *)
LEMMA LengthRead ==
  ASSUME cut \in Streams, NEW i \in 1 .. Len(cut), NEW n \in Nat, n >= LENGTH
  PROVE  LengthOf(Window(Begin(i), n)) = Size(i)
<1> DEFINE b == Window(Begin(i), n)
<1>1. Begin(i) \in Nat /\ Size(i) \in Nat /\ Size(i) >= LENGTH /\ DOMAIN cut = 1 .. Len(cut)
  BY CutTypes DEF HEADER, LENGTH
<1>2. SubSeq(b, 1, LENGTH) = SubSeq(MessageBytes(i), 1, LENGTH)
  <2>0. LENGTH \in 0 .. n /\ LENGTH \in 0 .. Size(i)
    BY <1>1 DEF LENGTH
  <2>1. Take(b, LENGTH) = Window(Begin(i), LENGTH)
    BY <1>1, <2>0, WindowTakeDrop
  <2>2. Take(Window(Begin(i), Size(i)), LENGTH) = Window(Begin(i), LENGTH)
    BY <1>1, <2>0, WindowTakeDrop
  <2> QED BY <2>1, <2>2, CutTypes DEF Take
<1>3. b[1] = Begin(i)
  <2>1. 1 \in 1 .. n
    BY DEF LENGTH
  <2>2. b[1] = Begin(i) + 1 - 1
    BY <1>1, <2>1, WindowProperties
  <2> QED BY <1>1, <2>2
<1>4. (CHOOSE k \in DOMAIN cut : b[1] = Begin(k)) = i
  BY <1>1, <1>3, BeginsDiffer
<1> HIDE DEF b
<1>5. LengthOf(b) = Size(i)
  BY <1>1, <1>2, <1>4 DEF LengthOf, Size
<1> QED BY <1>5 DEF b

-----------------------------------------------------------------------------
(* The invariant.  The parser has cut the first messages of the stream and *)
(* is at the beginning of the next: what it keeps is the first bytes of    *)
(* that message, fewer than four of them or fewer than the message has,    *)
(* and what it has read and not parsed is the bytes that follow.           *)
Next1 == Begin(Cut + 1)
Kept == Len(prev.bytes)

Reading ==
  status = "reading" =>
    /\ taken <= Total /\ Next1 + Kept <= taken + 1
    /\ prev.bytes = Window(Next1, Kept)
    /\ data = Window(Next1 + Kept, taken + 1 - (Next1 + Kept))
    /\ prev.buff = "null" => Kept = 0
    /\ prev.buff = "length" => Kept < LENGTH
    /\ prev.buff = "heap" => /\ Cut < Len(cut) /\ LENGTH <= Kept /\ Kept < Size(Cut + 1)

(* The messages cut are those of the stream, first queued, then taken by   *)
(* the main thread, which calls a handler for the known ones.              *)
Posting ==
  /\ Cut <= Len(cut)
  /\ \A i \in 1 .. Len(posted) : posted[i] = MessageBytes(done + i)

Calling ==
  /\ Len(called) = Cardinality(Known)
  /\ \A i \in Known : called[Rank(i)] = MessageBytes(i)

FramingInv == TypeOK /\ Reading /\ Posting /\ Calling /\ RefusedForLength

LEMMA TypeFacts ==
  ASSUME TypeOK
  PROVE  /\ posted \in Seq(Seq(Nat)) /\ Len(posted) \in Nat /\ DOMAIN posted = 1 .. Len(posted)
         /\ done \in Nat /\ Cut \in Nat /\ taken \in Nat
         /\ prev.bytes \in Seq(Nat) /\ Kept \in Nat /\ prev.buff \in {"null", "length", "heap"}
         /\ data \in Seq(Nat) /\ Len(data) \in Nat /\ (data = <<>> <=> Len(data) = 0)
BY LenProperties, EmptySeq DEF TypeOK, Cut, Kept

LEMMA InitFramingInv == Init => FramingInv
<1> SUFFICES ASSUME Init PROVE FramingInv
  OBVIOUS
<1>1. TypeOK
  BY EmptySeq DEF Init, TypeOK, NoMsg
<1>2. Cut = 0 /\ Kept = 0 /\ Next1 = 1 /\ cut \in Streams
  BY EmptySeq DEF Init, Cut, Kept, NoMsg, Next1, Begin
<1>3. Reading
  <2>1. Window(1, 0) = <<>>
    BY WindowProperties
  <2>2. taken = 0 /\ prev = NoMsg /\ data = <<>> /\ Total \in Nat
    BY <1>2, CutTypes DEF Init
  <2> QED BY <1>2, <2>1, <2>2 DEF Reading, NoMsg
<1>4. Posting
  BY <1>2, CutTypes, EmptySeq DEF Posting, Init
<1>5. Calling
  <2>1. Known = {}
    BY DEF Init, Known
  <2> QED BY <2>1, FS_EmptySet, EmptySeq DEF Init, Calling
<1>6. RefusedForLength
  BY DEF Init, RefusedForLength
<1> QED BY <1>1, <1>3, <1>4, <1>5, <1>6 DEF FramingInv

(* What the worker parses is of the message that comes next.               *)
LEMMA ParsingFacts ==
  ASSUME FramingInv, Parsing
  PROVE  /\ Cut + 1 \in 1 .. Len(cut) /\ Cut < Len(cut)
         /\ Next1 \in Nat \ {0} /\ Size(Cut + 1) \in Nat /\ Size(Cut + 1) >= HEADER
         /\ Begin(Cut + 2) = Next1 + Size(Cut + 1)
         /\ MessageBytes(Cut + 1) = Window(Next1, Size(Cut + 1))
         /\ Next1 + Kept + Len(data) = taken + 1
         /\ prev.bytes = Window(Next1, Kept) /\ data = Window(Next1 + Kept, Len(data))
         /\ Len(data) > 0 /\ taken <= Total
<1>0. /\ cut \in Streams /\ Len(cut) \in Nat /\ Cut \in Nat /\ Kept \in Nat /\ taken \in Nat
      /\ Cut <= Len(cut) /\ Total \in Nat /\ Len(data) \in Nat /\ Len(data) > 0
  BY TypeFacts, CutTypes DEF FramingInv, TypeOK, Posting, Parsing
<1>1. Cut + 1 \in 1 .. Len(cut) + 1
  BY <1>0
<1>2. Next1 \in Nat \ {0}
  BY <1>0, <1>1, CutTypes DEF Next1
<1>3. /\ taken <= Total /\ Next1 + Kept <= taken + 1
      /\ prev.bytes = Window(Next1, Kept)
      /\ data = Window(Next1 + Kept, taken + 1 - (Next1 + Kept))
  BY DEF FramingInv, Reading, Parsing
<1>4. Len(data) = taken + 1 - (Next1 + Kept)
  <2>1. Next1 + Kept \in Nat /\ taken + 1 - (Next1 + Kept) \in Nat
    BY <1>0, <1>2, <1>3
  <2> QED BY <1>3, <2>1, WindowProperties
<1>5. Cut < Len(cut)
  <2> SUFFICES ASSUME Cut = Len(cut) PROVE FALSE
    BY <1>0
  <2>1. Next1 = Total + 1
    BY <1>0, CutTypes DEF Next1
  <2> QED BY <1>0, <1>3, <1>4, <2>1
<1>6. Cut + 1 \in 1 .. Len(cut) /\ Cut + 1 + 1 = Cut + 2
  BY <1>0, <1>5
<1>7. /\ Size(Cut + 1) \in Nat /\ Size(Cut + 1) >= HEADER
      /\ Begin(Cut + 2) = Next1 + Size(Cut + 1)
      /\ MessageBytes(Cut + 1) = Window(Next1, Size(Cut + 1))
  BY <1>0, <1>6, CutTypes DEF Next1
<1>8. Next1 + Kept + Len(data) = taken + 1
  BY <1>0, <1>2, <1>4
<1> QED BY <1>0, <1>2, <1>3, <1>4, <1>5, <1>6, <1>7, <1>8

(* Nothing kept: the length is read from the chunk.                        *)
LEMMA LengthInData ==
  ASSUME FramingInv, Parsing, prev.buff = "null", Len(data) >= LENGTH
  PROVE  LengthOf(data) = Size(Cut + 1) /\ Kept = 0 /\ data = Window(Next1, Len(data))
<1>1. Kept = 0
  BY DEF FramingInv, Reading, Parsing
<1>2. data = Window(Next1, Len(data)) /\ Len(data) \in Nat
  BY <1>1, ParsingFacts, TypeFacts DEF FramingInv
<1> QED BY <1>1, <1>2, ParsingFacts, LengthRead DEF FramingInv, TypeOK, Next1

(* A length or part of a body kept: the length is read from what is kept   *)
(* and the bytes that complete it.                                         *)
LEMMA LengthInPrev ==
  ASSUME FramingInv, Parsing, LengthKnown
  PROVE  /\ CutSize \in 0 .. Len(data) /\ Kept + CutSize >= LENGTH
         /\ Kept + CutSize < Size(Cut + 1)
         /\ WithLength = Window(Next1, Kept + CutSize)
         /\ Len(WithLength) = Kept + CutSize
         /\ LengthOf(WithLength) = Size(Cut + 1)
         /\ Missing = Size(Cut + 1) - (Kept + CutSize)
<1>0. /\ Kept \in Nat /\ Len(data) \in Nat /\ Size(Cut + 1) \in Nat /\ Size(Cut + 1) >= 6
      /\ Next1 \in Nat
  BY ParsingFacts, TypeFacts DEF FramingInv, HEADER
<1>1. CutSize \in 0 .. Len(data) /\ Kept + CutSize >= LENGTH /\ Kept + CutSize < Size(Cut + 1)
  <2>1. CASE prev.buff = "length"
    <3>1. Kept < LENGTH /\ CutSize = LENGTH - Kept /\ Kept + Len(data) >= LENGTH
      BY <2>1 DEF FramingInv, Reading, Parsing, CutSize, Kept, LengthKnown
    <3> QED BY <1>0, <3>1 DEF LENGTH
  <2>2. CASE prev.buff = "heap"
    <3>1. LENGTH <= Kept /\ Kept < Size(Cut + 1) /\ CutSize = 0
      BY <2>2 DEF FramingInv, Reading, Parsing, CutSize
    <3> QED BY <1>0, <3>1 DEF LENGTH
  <2> QED BY <2>1, <2>2 DEF LengthKnown
<1>2. WithLength = Window(Next1, Kept + CutSize)
  <2>1. Take(data, CutSize) = Window(Next1 + Kept, CutSize)
    <3>1. Next1 + Kept \in Nat
      BY <1>0
    <3> QED BY <1>0, <1>1, <3>1, ParsingFacts, WindowTakeDrop
  <2>2. CutSize \in Nat
    BY <1>0, <1>1
  <2>3. Window(Next1, Kept) \o Window(Next1 + Kept, CutSize) = Window(Next1, Kept + CutSize)
    BY <1>0, <2>2, WindowJoin
  <2>4. prev.bytes = Window(Next1, Kept)
    BY ParsingFacts
  <2> QED BY <2>1, <2>3, <2>4 DEF WithLength
<1>3. Len(WithLength) = Kept + CutSize
  <2>1. Kept + CutSize \in Nat
    BY <1>0, <1>1
  <2> QED BY <1>0, <1>2, <2>1, WindowProperties
<1>4. LengthOf(WithLength) = Size(Cut + 1)
  <2>1. Kept + CutSize \in Nat /\ Cut + 1 \in 1 .. Len(cut)
    BY <1>0, <1>1, ParsingFacts
  <2> QED BY <1>1, <1>2, <2>1, LengthRead DEF FramingInv, TypeOK, Next1
<1> QED BY <1>1, <1>2, <1>3, <1>4 DEF Missing

(* Nothing changes for what was cut while nothing is cut.                  *)
LEMMA NothingCut ==
  ASSUME FramingInv, UNCHANGED <<cut, posted, done, called>>
  PROVE  Posting' /\ Calling' /\ Cut' = Cut /\ Next1' = Next1 /\ Size(Cut + 1)' = Size(Cut + 1)
         /\ Total' = Total
<1>1. Cut' = Cut /\ Total' = Total
  BY DEF Cut, Total
<1>2. Next1' = Next1 /\ Size(Cut + 1)' = Size(Cut + 1)
  BY <1>1 DEF Next1, Begin, Size
<1>3. Posting'
  BY <1>1 DEF FramingInv, Posting, MessageBytes, Begin
<1>4. Calling'
  BY DEF FramingInv, Calling, Known, Rank, MessageBytes, Begin
<1> QED BY <1>1, <1>2, <1>3, <1>4

LEMMA ReadInv == ASSUME FramingInv, NEW n \in 1 .. NETWORK_BUF_SIZE, Read(n) PROVE FramingInv'
<1>0. /\ n \in Nat /\ taken \in Nat /\ Total \in Nat /\ cut \in Streams /\ Kept \in Nat
      /\ Next1 \in Nat /\ data = <<>> /\ status = "reading" /\ n <= Total - taken
      /\ data' = [j \in 1 .. n |-> taken + j] /\ taken' = taken + n
      /\ UNCHANGED <<defaultPtr, cut, prev, posted, done, called, status>>
  <2>1. Cut + 1 \in 1 .. Len(cut) + 1
    <3>1. Cut \in Nat /\ Cut <= Len(cut) /\ Len(cut) \in Nat
      BY TypeFacts, CutTypes DEF FramingInv, TypeOK, Posting
    <3> QED BY <3>1
  <2> QED BY <2>1, SizesAssumption, TypeFacts, CutTypes DEF Read, Idle, FramingInv, TypeOK, Next1
<1>1. Posting' /\ Calling' /\ Cut' = Cut /\ Next1' = Next1 /\ Size(Cut + 1)' = Size(Cut + 1)
      /\ Total' = Total /\ Kept' = Kept
  BY <1>0, NothingCut DEF Kept
<1>2. data' = Window(taken + 1, n)
  <2>1. \A j \in 1 .. n : taken + j = taken + 1 + j - 1
    BY <1>0
  <2> QED BY <1>0, <2>1 DEF Window
<1>3. TypeOK'
  <2>1. data' \in Seq(Nat)
    <3>1. taken + 1 \in Nat
      BY <1>0
    <3> QED BY <1>0, <1>2, <3>1, WindowProperties
  <2> QED BY <1>0, <2>1 DEF FramingInv, TypeOK
<1>4. Reading'
  <2>1. Next1 + Kept = taken + 1
    <3>1. /\ Next1 + Kept <= taken + 1 /\ data = Window(Next1 + Kept, taken + 1 - (Next1 + Kept))
      BY <1>0 DEF FramingInv, Reading
    <3>2. Next1 + Kept \in Nat /\ taken + 1 - (Next1 + Kept) \in Nat
      BY <1>0, <3>1
    <3>3. taken + 1 - (Next1 + Kept) = 0
      BY <1>0, <3>1, <3>2, WindowProperties
    <3> QED BY <1>0, <3>3
  <2>2. n = taken' + 1 - (Next1 + Kept) /\ taken' <= Total /\ Next1 + Kept <= taken' + 1
    BY <1>0, <2>1
  <2> QED BY <1>0, <1>1, <1>2, <2>1, <2>2 DEF FramingInv, Reading
<1>5. RefusedForLength'
  BY <1>0 DEF RefusedForLength
<1> QED BY <1>1, <1>3, <1>4, <1>5 DEF FramingInv

LEMMA ReadFailsInv == ASSUME FramingInv, ReadFails PROVE FramingInv'
<1>1. Posting' /\ Calling'
  BY NothingCut DEF ReadFails
<1> QED BY <1>1 DEF ReadFails, FramingInv, TypeOK, Reading, RefusedForLength

(* A chunk kept entirely: fewer than four bytes of a length in all ...     *)
LEMMA KeepInv ==
  ASSUME FramingInv, Parsing, prev'.buff \in {"length", "heap"}, data' = <<>>,
         prev' \in [buff : {"null", "length", "heap"}, bytes : Seq(Nat)],
         prev'.bytes = Window(Next1, Kept + Len(data)),
         prev'.buff = "length" => Kept + Len(data) < LENGTH,
         prev'.buff = "heap" => LENGTH <= Kept + Len(data) /\ Kept + Len(data) < Size(Cut + 1),
         UNCHANGED <<defaultPtr, cut, taken, posted, done, called, status>>
  PROVE  FramingInv'
<1>0. /\ taken \in Nat /\ Kept \in Nat /\ Next1 \in Nat /\ Len(data) \in Nat
      /\ Next1 + Kept + Len(data) = taken + 1 /\ taken <= Total
  BY TypeFacts, ParsingFacts DEF FramingInv
<1>1. Posting' /\ Calling' /\ Cut' = Cut /\ Next1' = Next1 /\ Size(Cut + 1)' = Size(Cut + 1)
      /\ Total' = Total
  BY NothingCut
<1>2. Kept' = Kept + Len(data)
  <2>1. Kept + Len(data) \in Nat
    BY <1>0
  <2>2. Len(Window(Next1, Kept + Len(data))) = Kept + Len(data)
    BY <1>0, <2>1, WindowProperties
  <2>3. Kept' = Len(prev'.bytes)
    BY DEF Kept
  <2> QED BY <2>2, <2>3
<1>3. data' = Window(Next1' + Kept', taken' + 1 - (Next1' + Kept'))
  <2>1. Next1' + Kept' \in Nat /\ taken' + 1 - (Next1' + Kept') = 0
    BY <1>0, <1>1, <1>2
  <2> QED BY <2>1, WindowProperties
<1>4. TypeOK'
  BY EmptySeq DEF FramingInv, TypeOK
<1>5. Reading'
  <2>1. Next1' + Kept' <= taken' + 1 /\ taken' <= Total'
    BY <1>0, <1>1, <1>2
  <2>2. prev'.buff = "heap" => Cut' < Len(cut') /\ LENGTH <= Kept' /\ Kept' < Size(Cut + 1)'
    BY <1>1, <1>2, ParsingFacts
  <2> QED BY <1>1, <1>2, <1>3, <2>1, <2>2 DEF Reading
<1>6. RefusedForLength'
  BY DEF Parsing, RefusedForLength
<1> QED BY <1>1, <1>4, <1>5, <1>6 DEF FramingInv

LEMMA KeepLengthInv == ASSUME FramingInv, KeepLength PROVE FramingInv'
<1>1. Parsing /\ Kept = 0 /\ data \in Seq(Nat) /\ Len(data) \in Nat
  BY TypeFacts DEF KeepLength, FramingInv, Reading, Parsing
<1>2. data = Window(Next1, Kept + Len(data))
  BY <1>1, ParsingFacts
<1> QED BY <1>1, <1>2, KeepInv DEF KeepLength

LEMMA StartBodyInv == ASSUME FramingInv, StartBody PROVE FramingInv'
<1>1. Parsing /\ data \in Seq(Nat) /\ Len(data) \in Nat
  BY TypeFacts DEF StartBody, FramingInv
<1>2. LengthOf(data) = Size(Cut + 1) /\ Kept = 0 /\ data = Window(Next1, Len(data))
  BY LengthInData DEF StartBody
<1>3. Size(Cut + 1) \in Nat
  BY <1>1, ParsingFacts
<1> QED BY <1>1, <1>2, <1>3, KeepInv DEF StartBody

LEMMA ExtendLengthInv == ASSUME FramingInv, ExtendLength PROVE FramingInv'
<1>1. Parsing /\ Len(data) \in Nat /\ Kept \in Nat /\ Next1 \in Nat
  BY TypeFacts, ParsingFacts DEF ExtendLength, FramingInv
<1>2. prev.bytes \o data = Window(Next1, Kept + Len(data))
  <2>1. Window(Next1, Kept) \o Window(Next1 + Kept, Len(data)) = Window(Next1, Kept + Len(data))
    BY <1>1, WindowJoin
  <2> QED BY <1>1, <2>1, ParsingFacts
<1>3. prev' = [buff |-> "length", bytes |-> prev.bytes \o data]
  BY DEF ExtendLength, FramingInv, TypeOK
<1>4. prev.bytes \o data \in Seq(Nat)
  <2>1. Kept + Len(data) \in Nat
    BY <1>1
  <2> QED BY <1>1, <1>2, <2>1, WindowProperties
<1> QED BY <1>1, <1>2, <1>3, <1>4, KeepInv DEF ExtendLength, Kept

LEMMA ExtendBodyInv == ASSUME FramingInv, ExtendBody PROVE FramingInv'
<1>0. Parsing /\ LengthKnown
  BY DEF ExtendBody
<1>1. /\ Len(data) \in Nat /\ Kept \in Nat /\ Next1 \in Nat /\ Size(Cut + 1) \in Nat
      /\ data = Window(Next1 + Kept, Len(data))
  BY <1>0, TypeFacts, ParsingFacts DEF FramingInv
<1>2. /\ CutSize \in 0 .. Len(data) /\ Kept + CutSize >= LENGTH
      /\ WithLength = Window(Next1, Kept + CutSize)
      /\ Missing = Size(Cut + 1) - (Kept + CutSize)
  BY <1>0, LengthInPrev
<1>3. Drop(data, CutSize) = Window(Next1 + Kept + CutSize, Len(data) - CutSize)
  <2>1. Next1 + Kept \in Nat
    BY <1>1
  <2> QED BY <1>1, <1>2, <2>1, WindowTakeDrop
<1>4. WithLength \o Drop(data, CutSize) = Window(Next1, Kept + Len(data))
  <2>1. Kept + CutSize \in Nat /\ Len(data) - CutSize \in Nat
        /\ Next1 + Kept + CutSize = Next1 + (Kept + CutSize)
        /\ Kept + CutSize + (Len(data) - CutSize) = Kept + Len(data)
    BY <1>1, <1>2
  <2>2. Window(Next1, Kept + CutSize) \o Window(Next1 + (Kept + CutSize), Len(data) - CutSize)
          = Window(Next1, Kept + CutSize + (Len(data) - CutSize))
    BY <1>1, <2>1, WindowJoin
  <2> QED BY <1>2, <1>3, <2>1, <2>2
<1>5. Kept + Len(data) < Size(Cut + 1) /\ LENGTH <= Kept + Len(data)
  BY <1>1, <1>2 DEF ExtendBody, BodyComplete, LENGTH
<1>6. prev' = [buff |-> "heap", bytes |-> Window(Next1, Kept + Len(data))]
  BY <1>4 DEF ExtendBody
<1>7. Window(Next1, Kept + Len(data)) \in Seq(Nat)
  <2>1. Kept + Len(data) \in Nat
    BY <1>1
  <2> QED BY <1>1, <2>1, WindowProperties
<1>8. /\ prev' \in [buff : {"null", "length", "heap"}, bytes : Seq(Nat)]
      /\ prev'.buff = "heap" /\ prev'.bytes = Window(Next1, Kept + Len(data))
  BY <1>6, <1>7
<1>9. data' = <<>> /\ UNCHANGED <<defaultPtr, cut, taken, posted, done, called, status>>
  BY DEF ExtendBody
<1> QED BY <1>0, <1>5, <1>8, <1>9, KeepInv

(* A message cut: it is the next one of the stream, and what follows it is *)
(* parsed next.                                                            *)
LEMMA CutInv ==
  ASSUME FramingInv, Parsing, Kept + Len(data) >= Size(Cut + 1),
         posted' = Append(posted, Window(Next1, Size(Cut + 1))),
         data' = Window(Next1 + Size(Cut + 1), Kept + Len(data) - Size(Cut + 1)),
         prev' = NoMsg,
         UNCHANGED <<defaultPtr, cut, taken, done, called, status>>
  PROVE  FramingInv'
<1>0. /\ taken \in Nat /\ Kept \in Nat /\ Next1 \in Nat \ {0} /\ Len(data) \in Nat /\ Cut < Len(cut)
      /\ Next1 + Kept + Len(data) = taken + 1 /\ taken <= Total /\ Size(Cut + 1) \in Nat
      /\ Begin(Cut + 2) = Next1 + Size(Cut + 1) /\ Len(cut) \in Nat
      /\ MessageBytes(Cut + 1) = Window(Next1, Size(Cut + 1))
      /\ posted \in Seq(Seq(Nat)) /\ Len(posted) \in Nat /\ done \in Nat
      /\ cut \in Streams /\ status = "reading"
  BY TypeFacts, ParsingFacts, CutTypes DEF FramingInv, TypeOK, Parsing
<1>1. /\ posted' \in Seq(Seq(Nat)) /\ Len(posted') = Len(posted) + 1
      /\ \A i \in 1 .. Len(posted) : posted'[i] = posted[i]
      /\ posted'[Len(posted) + 1] = Window(Next1, Size(Cut + 1))
  <2>1. Window(Next1, Size(Cut + 1)) \in Seq(Nat)
    BY <1>0, WindowProperties
  <2> QED BY <1>0, <2>1, AppendProperties
<1>2. Cut' = Cut + 1
  BY <1>0, <1>1 DEF Cut
<1>3. Next1' = Next1 + Size(Cut + 1) /\ Kept' = 0 /\ Total' = Total
  <2>1. Next1' = Begin(Cut + 2)
    <3>1. Cut' + 1 = Cut + 2
      BY <1>0, <1>2 DEF Cut
    <3> QED BY <3>1 DEF Next1, Begin
  <2> QED BY <1>0, <2>1, EmptySeq DEF Kept, NoMsg, Total
<1>4. Posting'
  <2>1. Cut' <= Len(cut')
    BY <1>0, <1>2, TypeFacts DEF FramingInv
  <2>2. ASSUME NEW i \in 1 .. Len(posted') PROVE posted'[i] = MessageBytes(done + i)
    <3>1. CASE i \in 1 .. Len(posted)
      <4>1. \A k \in 1 .. Len(posted) : posted[k] = MessageBytes(done + k)
        BY DEF FramingInv, Posting
      <4> QED BY <1>1, <3>1, <4>1
    <3>2. CASE i = Len(posted) + 1
      <4>1. done + i = Cut + 1
        BY <1>0, <3>2 DEF Cut
      <4>2. posted'[i] = Window(Next1, Size(Cut + 1))
        BY <1>1, <3>2
      <4> QED BY <1>0, <4>1, <4>2
    <3>3. i \in 1 .. Len(posted) \/ i = Len(posted) + 1
      BY SMTT(30), <1>0, <1>1
    <3> QED BY <3>1, <3>2, <3>3
  <2> QED BY <2>1, <2>2 DEF Posting, MessageBytes, Begin
<1>5. Calling'
  BY ZenonT(30) DEF FramingInv, Calling, Known, Rank, MessageBytes, Begin
<1>6. TypeOK'
  <2>1. data' \in Seq(Nat)
    <3>1. Next1 + Size(Cut + 1) \in Nat /\ Kept + Len(data) - Size(Cut + 1) \in Nat
      BY <1>0
    <3> QED BY <3>1, WindowProperties
  <2> QED BY <1>1, <2>1, EmptySeq DEF FramingInv, TypeOK, NoMsg
<1>7. Reading'
  <2>1. /\ taken' + 1 - (Next1' + Kept') = Kept + Len(data) - Size(Cut + 1)
        /\ Next1' + Kept' = Next1 + Size(Cut + 1) /\ Next1' + Kept' <= taken' + 1
        /\ Next1' \in Nat
    <3>2. taken' = taken /\ Next1' + Kept' = Next1 + Size(Cut + 1)
      BY <1>0, <1>3
    <3>3. /\ taken + 1 - (Next1 + Size(Cut + 1)) = Kept + Len(data) - Size(Cut + 1)
          /\ Next1 + Size(Cut + 1) <= taken + 1
      <4>1. ASSUME NEW at \in Nat, NEW kept \in Nat, NEW fresh \in Nat, NEW size \in Nat,
                   at + kept + fresh = taken + 1, kept + fresh >= size
            PROVE  taken + 1 - (at + size) = kept + fresh - size /\ at + size <= taken + 1
        BY <1>0, <4>1
      <4>2. Next1 \in Nat
        BY <1>0
      <4> QED BY <1>0, <4>1, <4>2
    <3>4. Next1' \in Nat
      BY <1>0, <1>3
    <3> QED BY <3>2, <3>3, <3>4
  <2>2. prev'.bytes = Window(Next1', Kept')
    BY <1>3, <2>1, WindowProperties DEF NoMsg
  <2> QED BY <1>0, <1>3, <2>1, <2>2 DEF Reading, NoMsg
<1>8. RefusedForLength'
  BY <1>0 DEF RefusedForLength
<1> QED BY <1>4, <1>5, <1>6, <1>7, <1>8 DEF FramingInv

LEMMA WholeMessageInv == ASSUME FramingInv, WholeMessage PROVE FramingInv'
<1>0. Parsing /\ prev.buff = "null" /\ Len(data) >= LENGTH
  BY DEF WholeMessage
<1>1. /\ LengthOf(data) = Size(Cut + 1) /\ Kept = 0 /\ data = Window(Next1, Len(data))
      /\ Next1 \in Nat /\ Len(data) \in Nat /\ Size(Cut + 1) \in 0 .. Len(data)
  <2>1. LengthOf(data) = Size(Cut + 1) /\ Kept = 0 /\ data = Window(Next1, Len(data))
    BY <1>0, LengthInData
  <2>2. Size(Cut + 1) \in Nat /\ Next1 \in Nat /\ Len(data) \in Nat
    BY <1>0, ParsingFacts, TypeFacts DEF FramingInv
  <2> QED BY <2>1, <2>2 DEF WholeMessage
<1>2. /\ Take(data, Size(Cut + 1)) = Window(Next1, Size(Cut + 1))
      /\ Drop(data, Size(Cut + 1)) = Window(Next1 + Size(Cut + 1), Len(data) - Size(Cut + 1))
  BY <1>1, WindowTakeDrop
<1>3. prev = NoMsg
  BY <1>0, <1>1, EmptySeq DEF FramingInv, TypeOK, NoMsg, Kept
<1>4. Kept + Len(data) = Len(data)
  BY <1>1
<1> QED BY <1>0, <1>1, <1>2, <1>3, <1>4, CutInv DEF WholeMessage

LEMMA CompleteBodyInv == ASSUME FramingInv, CompleteBody PROVE FramingInv'
<1>0. Parsing /\ LengthKnown
  BY DEF CompleteBody
<1>1. CASE /\ defaultPtr = "null" /\ status' = "trapped" /\ UNCHANGED <<data, prev, posted>>
  <2>1. Posting' /\ Calling'
    BY <1>1, NothingCut DEF CompleteBody
  <2> QED BY <1>1, <2>1 DEF CompleteBody, FramingInv, TypeOK, Reading, RefusedForLength
<1>2. CASE /\ posted' = Append(posted, WithLength \o SubSeq(data, CutSize+1, CutSize+Missing))
           /\ data' = Drop(data, CutSize + Missing)
           /\ prev' = NoMsg /\ UNCHANGED status
  <2>1. /\ Len(data) \in Nat /\ Kept \in Nat /\ Next1 \in Nat /\ Size(Cut + 1) \in Nat
        /\ data = Window(Next1 + Kept, Len(data))
    BY <1>0, TypeFacts, ParsingFacts DEF FramingInv
  <2>2. /\ CutSize \in 0 .. Len(data) /\ Kept + CutSize < Size(Cut + 1)
        /\ WithLength = Window(Next1, Kept + CutSize)
        /\ Missing = Size(Cut + 1) - (Kept + CutSize)
    BY <1>0, LengthInPrev
  <2>3. CutSize + Missing \in CutSize .. Len(data) /\ CutSize + Missing = Size(Cut + 1) - Kept
        /\ CutSize + Missing - CutSize = Missing /\ Missing \in Nat /\ Next1 + Kept \in Nat
    BY <2>1, <2>2 DEF CompleteBody, BodyComplete
  <2>4. SubSeq(data, CutSize+1, CutSize+Missing) = Window(Next1 + Kept + CutSize, Missing)
    <3> SUFFICES ASSUME NEW q, q = CutSize + Missing
                 PROVE  SubSeq(data, CutSize+1, q) = Window(Next1 + Kept + CutSize, Missing)
      OBVIOUS
    <3>1. q \in CutSize .. Len(data) /\ q - CutSize = Missing
      BY <2>1, <2>2, <2>3
    <3>2. SubSeq(Window(Next1 + Kept, Len(data)), CutSize+1, q)
            = Window(Next1 + Kept + CutSize, q - CutSize)
      BY <2>1, <2>2, <2>3, <3>1, WindowPart
    <3> QED BY <2>1, <3>1, <3>2
  <2>5. WithLength \o SubSeq(data, CutSize+1, CutSize+Missing) = Window(Next1, Size(Cut + 1))
    <3>1. Next1 + Kept + CutSize = Next1 + (Kept + CutSize) /\ Kept + CutSize \in Nat
          /\ Kept + CutSize + Missing = Size(Cut + 1)
      BY <2>1, <2>2
    <3>2. Window(Next1, Kept + CutSize) \o Window(Next1 + (Kept + CutSize), Missing)
            = Window(Next1, Kept + CutSize + Missing)
      <4>1. Next1 \in Nat /\ Missing \in Nat
        BY <2>1, <2>3
      <4>2. ASSUME NEW a \in Nat, NEW k \in Nat, NEW m \in Nat
            PROVE  Window(a, k) \o Window(a+k, m) = Window(a, k+m)
        BY WindowJoin
      <4> QED BY <3>1, <4>1, <4>2
    <3> QED BY <2>2, <2>4, <3>1, <3>2
  <2>6. Drop(data, CutSize + Missing)
          = Window(Next1 + Size(Cut + 1), Kept + Len(data) - Size(Cut + 1))
    <3>1. CutSize + Missing \in 0 .. Len(data)
          /\ Next1 + Kept + (CutSize + Missing) = Next1 + Size(Cut + 1)
          /\ Len(data) - (CutSize + Missing) = Kept + Len(data) - Size(Cut + 1)
      <4> DEFINE n == CutSize + Missing
                 l == Len(data)
                 z == Size(Cut + 1)
      <4>1. n \in Nat /\ n <= l /\ n = z - Kept /\ l \in Nat /\ z \in Nat
        BY <2>1, <2>2, <2>3
      <4> HIDE DEF n, l, z
      <4>2. n \in 0 .. l /\ Next1 + Kept + n = Next1 + z /\ l - n = Kept + l - z
        BY <2>1, <4>1
      <4> QED BY <4>2 DEF n, l, z
    <3>2. Drop(Window(Next1 + Kept, Len(data)), CutSize + Missing)
            = Window(Next1 + Kept + (CutSize + Missing), Len(data) - (CutSize + Missing))
      BY <2>1, <2>3, <3>1, WindowTakeDrop
    <3> QED BY <2>1, <3>1, <3>2
  <2>7. Kept + Len(data) >= Size(Cut + 1)
    BY <2>1, <2>2, <2>3
  <2> QED BY <1>0, <1>2, <2>5, <2>6, <2>7, CutInv DEF CompleteBody
<1> QED BY <1>1, <1>2 DEF CompleteBody

LEMMA TooLongInv == ASSUME FramingInv, TooLong PROVE FramingInv'
<1>0. Parsing
  BY DEF TooLong
<1>1. Posting' /\ Calling' /\ Cut' = Cut /\ Size(Cut + 1)' = Size(Cut + 1)
  BY NothingCut DEF TooLong
<1>2. Size(Cut + 1) > MSG_SIZE /\ Cut < Len(cut)
  <2>1. CASE prev.buff = "null" /\ Len(data) >= LENGTH /\ OverLimit(data)
    BY <1>0, <2>1, LengthInData, ParsingFacts DEF OverLimit
  <2>2. CASE LengthKnown /\ OverLimit(WithLength)
    BY <1>0, <2>2, LengthInPrev, ParsingFacts DEF OverLimit
  <2> QED BY <2>1, <2>2 DEF TooLong
<1>3. RefusedForLength'
  <2>1. MessageBytes(Cut + 1)' = MessageBytes(Cut + 1)
    BY <1>1 DEF TooLong, MessageBytes, Begin
  <2>2. Len(MessageBytes(Cut + 1)) = Size(Cut + 1)
    BY <1>0, ParsingFacts, WindowProperties
  <2> QED BY <1>1, <1>2, <2>1, <2>2 DEF RefusedForLength, TooLong
<1>4. TypeOK'
  <2>1. prev' \in [buff : {"null", "length", "heap"}, bytes : Seq(Nat)]
    <3>1. CASE UNCHANGED prev
      BY <3>1 DEF FramingInv, TypeOK
    <3>2. CASE LengthKnown /\ prev' = [buff |-> "heap", bytes |-> WithLength]
      <4>1. Kept + CutSize \in Nat /\ Next1 \in Nat
        BY <1>0, <3>2, LengthInPrev, ParsingFacts, TypeFacts DEF FramingInv
      <4>2. WithLength \in Seq(Nat)
        BY <1>0, <3>2, <4>1, LengthInPrev, WindowProperties
      <4> QED BY <3>2, <4>2
    <3> QED BY <3>1, <3>2 DEF TooLong
  <2> QED BY <2>1, EmptySeq DEF TooLong, FramingInv, TypeOK
<1>5. Reading'
  BY DEF TooLong, Reading
<1> QED BY <1>1, <1>3, <1>4, <1>5 DEF FramingInv

(* The main thread takes the next message of the stream, and calls its     *)
(* handler if its number is a known one.                                   *)
LEMMA HandleMessageInv == ASSUME FramingInv, HandleMessage PROVE FramingInv'
<1>0. /\ posted \in Seq(Seq(Nat)) /\ posted # <<>> /\ posted' = Tail(posted) /\ Len(posted) \in Nat
      /\ done' = done + 1 /\ done \in Nat /\ cut \in Streams /\ Len(cut) \in Nat
      /\ called \in Seq(Seq(Nat)) /\ Len(called) \in Nat
      /\ UNCHANGED <<defaultPtr, cut, taken, data, prev, status>>
  BY TypeFacts, CutTypes, LenProperties DEF HandleMessage, FramingInv, TypeOK
<1>1. /\ Head(posted) \in Seq(Nat) /\ posted' \in Seq(Seq(Nat))
      /\ Len(posted') = Len(posted) - 1 /\ Len(posted) >= 1
      /\ \A i \in 1 .. Len(posted') : posted'[i] = posted[i+1]
      /\ Head(posted) = posted[1]
  BY <1>0, HeadTailProperties, EmptySeq
<1>2. Cut' = Cut
  BY <1>0, <1>1 DEF Cut
<1>3. done + 1 \in 1 .. Len(cut) /\ Head(posted) = MessageBytes(done + 1)
  <2>1. done + 1 <= Cut /\ Cut <= Len(cut)
    BY <1>0, <1>1 DEF Cut, FramingInv, Posting
  <2>2. 1 \in 1 .. Len(posted)
    BY <1>0, <1>1
  <2> QED BY <1>0, <1>1, <2>1, <2>2 DEF Cut, FramingInv, Posting
<1>4. Posting'
  <2>1. ASSUME NEW i \in 1 .. Len(posted') PROVE posted'[i] = MessageBytes(done' + i)
    <3>1. i+1 \in 1 .. Len(posted) /\ done' + i = done + (i+1)
      BY <1>0, <1>1
    <3>2. \A k \in 1 .. Len(posted) : posted[k] = MessageBytes(done + k)
      BY DEF FramingInv, Posting
    <3>3. posted[i+1] = MessageBytes(done + (i+1))
      BY <3>1, <3>2
    <3>4. posted'[i] = posted[i+1]
      BY <1>1
    <3> QED BY <3>1, <3>3, <3>4
  <2>3. ASSUME NEW i \in 1 .. Len(posted') PROVE posted'[i] = MessageBytes(done + i)'
    <3>1. MessageBytes(done + i)' = MessageBytes(done' + i)
      BY <1>0 DEF MessageBytes, Begin
    <3> QED BY <2>1, <3>1
  <2>4. Cut' <= Len(cut')
    BY <1>0, <1>2 DEF FramingInv, Posting
  <2> QED BY <2>3, <2>4 DEF Posting
<1>5. Reading' /\ RefusedForLength'
  <2>1. Next1' = Next1 /\ Kept' = Kept /\ Size(Cut + 1)' = Size(Cut + 1) /\ Total' = Total
        /\ MessageBytes(Cut + 1)' = MessageBytes(Cut + 1)
    BY <1>0, <1>2 DEF Next1, Begin, Kept, Size, Total, MessageBytes
  <2>2. Reading'
    BY <1>0, <1>2, <2>1 DEF FramingInv, Reading
  <2>3. RefusedForLength'
    BY <1>0, <1>2, <2>1 DEF FramingInv, RefusedForLength
  <2> QED BY <2>2, <2>3
<1>6. (\E i \in Commands \cap DOMAIN cut : Head(posted)[1] = Begin(i)) <=> done + 1 \in Commands
  <2>1. Head(posted)[1] = Begin(done + 1)
    <3>1. /\ MessageBytes(done + 1) = Window(Begin(done + 1), Size(done + 1))
          /\ Begin(done + 1) \in Nat /\ Size(done + 1) \in Nat /\ Size(done + 1) >= 6
      BY <1>0, <1>3, MessageFacts
    <3>2. 1 \in 1 .. Size(done + 1)
      BY <3>1
    <3>3. \A k \in 1 .. Size(done + 1) :
            Window(Begin(done + 1), Size(done + 1))[k] = Begin(done + 1) + k - 1
      BY <3>1, WindowProperties
    <3>4. Window(Begin(done + 1), Size(done + 1))[1] = Begin(done + 1) + 1 - 1
      BY <3>2, <3>3
    <3>5. Begin(done + 1) + 1 - 1 = Begin(done + 1)
      BY <3>1
    <3> QED BY <1>3, <3>1, <3>4, <3>5
  <2>2. DOMAIN cut = 1 .. Len(cut)
    BY <1>0, CutTypes
  <2> QED BY <1>0, <1>3, <2>1, <2>2, BeginsDiffer
<1>7. Calling' /\ called' \in Seq(Seq(Nat))
  <2>0. /\ \A i \in Nat : IsFiniteSet(Commands \cap 1 .. i)
        /\ \A i \in Nat : Rank(i) \in Nat
        /\ \A i \in Nat, j \in Nat : i <= j => Rank(i) <= Rank(j)
    <3>1. ASSUME NEW i \in Nat PROVE IsFiniteSet(Commands \cap 1 .. i)
      <4>1. IsFiniteSet(1 .. i) /\ Commands \cap 1 .. i \in SUBSET (1 .. i)
        BY FS_Interval
      <4> QED BY <4>1, FS_Subset
    <3>2. ASSUME NEW i \in Nat, NEW j \in Nat, i <= j PROVE Rank(i) <= Rank(j)
      <4>1. Commands \cap 1 .. i \in SUBSET (Commands \cap 1 .. j)
        BY <3>2
      <4> QED BY <3>1, <4>1, FS_Subset DEF Rank
    <3> QED BY <3>1, <3>2, FS_CardinalityType DEF Rank
  <2>1. Len(called) = Rank(done) /\ \A i \in Known : called[Rank(i)] = MessageBytes(i)
    BY DEF FramingInv, Calling, Known, Rank
  <2>2. MessageBytes(done + 1) \in Seq(Nat)
    BY <1>1, <1>3
  <2>3. ASSUME NEW i \in Known PROVE Rank(i) \in 1 .. Len(called)
    <3>1. i \in Commands \cap 1 .. i /\ i \in Nat /\ i <= done
      BY <1>0 DEF Known
    <3>2. Rank(i) # 0
      BY <2>0, <3>1, FS_EmptySet DEF Rank
    <3> QED BY <1>0, <2>0, <2>1, <3>1, <3>2
  <2>4. CASE done + 1 \in Commands
    <3>1. Known' = Known \cup {done + 1} /\ done + 1 \notin Known
      BY <1>0, <2>4 DEF Known
    <3>2. Rank(done + 1) = Rank(done) + 1
      <4>1. Commands \cap 1 .. done + 1 = (Commands \cap 1 .. done) \cup {done + 1}
        BY <1>0, <2>4
      <4>2. done + 1 \notin Commands \cap 1 .. done
        BY <1>0
      <4> QED BY <1>0, <2>0, <4>1, <4>2, FS_AddElement DEF Rank
    <3>3. called' = Append(called, MessageBytes(done + 1))
      BY <1>3, <1>6, <2>4 DEF HandleMessage
    <3>4. /\ called' \in Seq(Seq(Nat)) /\ Len(called') = Len(called) + 1
          /\ \A k \in 1 .. Len(called) : called'[k] = called[k]
          /\ called'[Len(called) + 1] = MessageBytes(done + 1)
      BY <1>0, <2>2, <3>3, AppendProperties
    <3>5. Len(called') = Cardinality(Known')
      BY <1>0, <2>1, <3>2, <3>4 DEF Known, Rank
    <3>6. ASSUME NEW i \in Known' PROVE called'[Rank(i)] = MessageBytes(i)
      <4>1. CASE i \in Known
        <5>1. Rank(i) \in 1 .. Len(called) /\ called[Rank(i)] = MessageBytes(i)
          BY <2>1, <2>3, <4>1
        <5> QED BY <3>4, <5>1
      <4>2. CASE i = done + 1
        BY <2>1, <3>2, <3>4, <4>2
      <4> QED BY <3>1, <4>1, <4>2
    <3>7. ASSUME NEW i \in Known' PROVE called'[Rank(i)'] = MessageBytes(i)'
      BY ZenonT(30), <1>0, <3>6 DEF Rank, MessageBytes, Begin
    <3> QED BY <3>4, <3>5, <3>7 DEF Calling
  <2>5. CASE done + 1 \notin Commands
    <3>1. Known' = Known
      BY <1>0, <2>5 DEF Known
    <3>2. called' = called
      BY <1>6, <2>5 DEF HandleMessage
    <3> QED BY ZenonT(30), <1>0, <3>1, <3>2 DEF FramingInv, Calling, Rank, MessageBytes, Begin
  <2> QED BY <2>4, <2>5
<1>8. TypeOK'
  BY <1>0, <1>1, <1>7 DEF FramingInv, TypeOK
<1> QED BY <1>4, <1>5, <1>7, <1>8 DEF FramingInv

LEMMA FramingInvStep == FramingInv /\ [Next]_vars => FramingInv'
<1> SUFFICES ASSUME FramingInv, [Next]_vars PROVE FramingInv'
  OBVIOUS
<1>1. CASE UNCHANGED vars
  <2>1. Posting' /\ Calling' /\ Cut' = Cut /\ Next1' = Next1 /\ Size(Cut + 1)' = Size(Cut + 1)
        /\ Total' = Total
    BY <1>1, NothingCut DEF vars
  <2>2. TypeOK'
    BY <1>1 DEF vars, FramingInv, TypeOK
  <2>3. Reading'
    BY <1>1, <2>1 DEF vars, FramingInv, Reading, Kept
  <2>4. RefusedForLength'
    BY <1>1, <2>1 DEF vars, FramingInv, RefusedForLength, MessageBytes, Begin
  <2> QED BY <2>1, <2>2, <2>3, <2>4 DEF FramingInv
<1>2. ASSUME NEW n \in 1 .. NETWORK_BUF_SIZE, Read(n) PROVE FramingInv'
  BY <1>2, ReadInv
<1>3. CASE ReadFails
  BY <1>3, ReadFailsInv
<1>4. CASE ParseMsg
  BY <1>4, KeepLengthInv, WholeMessageInv, StartBodyInv, ExtendLengthInv, TooLongInv,
     CompleteBodyInv, ExtendBodyInv DEF ParseMsg
<1>5. CASE HandleMessage
  BY <1>5, HandleMessageInv
<1> QED BY <1>1, <1>2, <1>3, <1>4, <1>5 DEF Next

LEMMA FramingInvariant == Spec => []FramingInv
BY InitFramingInv, FramingInvStep, PTL DEF Spec

(* Every variable of the receiving session has its type.                   *)
THEOREM FramingTypeCorrect == Spec => []TypeOK
<1>1. FramingInv => TypeOK
  BY DEF FramingInv
<1> QED BY <1>1, FramingInvariant, PTL

(* However the reads fall, the main thread is given the messages the peer  *)
(* sent, each with its own bytes, once and in order, and has called the    *)
(* handlers of those it knows.                                             *)
THEOREM FramingInOrder == Spec => []InOrder
<1>1. FramingInv => InOrder
  BY TypeFacts DEF FramingInv, InOrder, Posting, Calling
<1> QED BY <1>1, FramingInvariant, PTL

(* No byte of the stream is dropped or used twice.                         *)
THEOREM FramingBytesAccounted == Spec => []BytesAccounted
<1>1. FramingInv => BytesAccounted
  <2> SUFFICES ASSUME FramingInv, status = "reading"
               PROVE  prev.bytes \o data = Window(Next1, taken + 1 - Next1)
    BY DEF BytesAccounted, Window, Next1
  <2>1. /\ Next1 + Kept <= taken + 1 /\ prev.bytes = Window(Next1, Kept)
        /\ data = Window(Next1 + Kept, taken + 1 - (Next1 + Kept))
    BY DEF FramingInv, Reading
  <2>2. Next1 \in Nat /\ Kept \in Nat /\ taken \in Nat
    <3>1. Cut + 1 \in 1 .. Len(cut) + 1
      BY TypeFacts, CutTypes DEF FramingInv, TypeOK, Posting
    <3> QED BY <3>1, TypeFacts, CutTypes DEF FramingInv, TypeOK, Next1
  <2>3. taken + 1 - (Next1 + Kept) \in Nat
        /\ Kept + (taken + 1 - (Next1 + Kept)) = taken + 1 - Next1
    BY <2>1, <2>2
  <2>4. Window(Next1, Kept) \o Window(Next1 + Kept, taken + 1 - (Next1 + Kept))
          = Window(Next1, Kept + (taken + 1 - (Next1 + Kept)))
    BY <2>2, <2>3, WindowJoin
  <2> QED BY <2>1, <2>3, <2>4
<1> QED BY <1>1, FramingInvariant, PTL

(* Only the length of a message makes the parser refuse a session, and     *)
(* only once every message before that one has been posted.                *)
THEOREM FramingRefusedForLength == Spec => []RefusedForLength
<1>1. FramingInv => RefusedForLength
  BY DEF FramingInv
<1> QED BY <1>1, FramingInvariant, PTL
=============================================================================
