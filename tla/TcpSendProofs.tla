---------------------------- MODULE TcpSendProofs ----------------------------
(***************************************************************************)
(* Proofs about the sending half of a TCP session, for every set of        *)
(* messages, every size of each and every size of the batching array.      *)
(*                                                                         *)
(* Everything a handler does to the list it does in DoSend, so the         *)
(* argument is one lemma about DoSend (it only moves messages between the  *)
(* list, the write and the wire) and one short case per action.            *)
(***************************************************************************)
EXTENDS TcpSend, TLAPS, SequenceTheorems, WellFoundedInduction

(* Every set of natural numbers that is not empty has a least member.      *)
LEMMA Least ==
  ASSUME NEW B, B \subseteq Nat, B # {}
  PROVE  \E n \in B : \A k \in B : n <= k
<1> DEFINE R == {ss \in Nat \X Nat : ss[1] < ss[2]}
<1>1. IsWellFoundedOn(R, Nat)
  BY NatLessThanWellFounded DEF OpToRel
<1>2. \A x, y \in Nat : <<y, x>> \in R <=> y < x
  OBVIOUS
<1>3. PICK n \in B : \A k \in B : ~ (<<k, n>> \in R)
  <2> HIDE DEF R
  <2> QED BY <1>1, WFMin
<1>4. \A k \in B : ~ (k < n)
  BY <1>2, <1>3
<1> QED BY <1>4

(* A sum of natural numbers: the members of a bag are numbered 1 .. n, w   *)
(* gives their weights, and S the sums up to each of them.                 *)
PartialSums(S, w, n) ==
  /\ S \in [0 .. n -> Int] /\ S[0] = 0
  /\ \A t \in 1 .. n : S[t] = S[t-1] + w[t]

(* Sums of natural numbers are natural numbers ...                         *)
LEMMA SumNonNegative ==
  ASSUME NEW n \in Nat, NEW S, NEW w, PartialSums(S, w, n), \A t \in 1 .. n : w[t] \in Nat
  PROVE  \A m \in 0 .. n : S[m] \in Nat
<1> DEFINE B == {m \in 0 .. n : S[m] \notin Nat}
<1> SUFFICES ASSUME B # {} PROVE FALSE
  OBVIOUS
<1>1. PICK m \in B : \A k \in B : m <= k
  <2>1. B \subseteq Nat
    OBVIOUS
  <2> HIDE DEF B
  <2> QED BY <2>1, Least
<1>2. m # 0 /\ m \in 1 .. n /\ m-1 \in 0 .. n /\ m-1 \notin B
  BY <1>1 DEF PartialSums
<1>3. S[m] = S[m-1] + w[m]
  BY <1>2 DEF PartialSums
<1> QED BY <1>1, <1>2, <1>3

(* ... and only grow ...                                                   *)
LEMMA SumGrows ==
  ASSUME NEW n \in Nat, NEW S, NEW w, PartialSums(S, w, n), \A t \in 1 .. n : w[t] \in Nat,
         NEW a \in 0 .. n, NEW b \in a .. n
  PROVE  S[a] <= S[b]
<1> DEFINE B == {m \in a .. n : S[m] < S[a]}
<1>0. S \in [0 .. n -> Int]
  BY DEF PartialSums
<1> SUFFICES ASSUME B # {} PROVE FALSE
  BY SMTT(30), <1>0
<1>1. PICK m \in B : \A k \in B : m <= k
  <2>1. B \subseteq Nat
    OBVIOUS
  <2> HIDE DEF B
  <2> QED BY <2>1, Least
<1>2. m # a /\ m \in 1 .. n /\ m-1 \in a .. n /\ m-1 \notin B
  BY <1>0, <1>1
<1>3. S[m] = S[m-1] + w[m] /\ S[m] < S[a] /\ S[m-1] >= S[a]
  BY <1>0, <1>1, <1>2 DEF PartialSums
<1> QED BY <1>0, <1>2, <1>3

(* There are sums of any terms.                                            *)
LEMMA SumsExist ==
  ASSUME NEW n \in Nat, NEW w, \A t \in 1 .. n : w[t] \in Int
  PROVE  \E S : PartialSums(S, w, n)
<1> DEFINE B == {m \in 0 .. n : ~ \E S : PartialSums(S, w, m)}
<1> SUFFICES ASSUME B # {} PROVE FALSE
  <2>1. n \in 0 .. n
    OBVIOUS
  <2> QED BY <2>1
<1>1. PICK m \in B : \A k \in B : m <= k
  <2>1. B \subseteq Nat
    OBVIOUS
  <2> HIDE DEF B
  <2> QED BY <2>1, Least
<1>2. m \in 0 .. n /\ ~ \E S : PartialSums(S, w, m)
  OBVIOUS
<1>3. m # 0
  <2>1. CASE m = 0
    <3> DEFINE S == [k \in 0 .. 0 |-> 0]
    <3>1. S \in [0 .. 0 -> Int] /\ S[0] = 0 /\ \A t \in 1 .. 0 : S[t] = S[t-1] + w[t]
      OBVIOUS
    <3>2. PartialSums(S, w, 0)
      BY <3>1 DEF PartialSums
    <3> QED BY <1>2, <2>1, <3>2
  <2> QED BY <2>1
<1>4. m - 1 \in 0 .. n /\ m \in 1 .. n
  BY <1>2, <1>3
<1>5. m - 1 \notin B
  BY <1>1, <1>4
<1>6. PICK P : PartialSums(P, w, m - 1)
  BY <1>4, <1>5
<1> HIDE DEF B
<1> DEFINE S == [k \in 0 .. m |-> IF k = m THEN P[m-1] + w[m] ELSE P[k]]
<1>7. /\ P \in [0 .. m - 1 -> Int] /\ P[0] = 0
      /\ \A t \in 1 .. m - 1 : P[t] = P[t-1] + w[t]
      /\ w[m] \in Int /\ P[m-1] \in Int
  BY <1>4, <1>6 DEF PartialSums
<1>8. S \in [0 .. m -> Int] /\ S[0] = 0
  BY <1>4, <1>7
<1>9. ASSUME NEW t \in 1 .. m PROVE S[t] = S[t-1] + w[t]
  <2>1. t - 1 \in 0 .. m - 1 /\ t - 1 # m /\ t - 1 \in 0 .. m /\ t \in 0 .. m
    BY <1>4
  <2>2. S[t-1] = P[t-1]
    BY <2>1
  <2>3. CASE t = m
    BY <2>1, <2>2, <2>3
  <2>4. CASE t # m
    BY <1>4, <1>7, <2>1, <2>2, <2>4
  <2> QED BY <2>3, <2>4
<1> HIDE DEF S
<1>10. PartialSums(S, w, m)
  BY <1>8, <1>9 DEF PartialSums
<1> QED BY <1>2, <1>10

(* The part of the type invariant that DoSend can disturb. *)
DoSendTypes ==
  /\ sendList \in Seq(Message)
  /\ isSending \in BOOLEAN
  /\ write \in [buf : {"none", "stack", "front"}, msgs : Seq(Message), left : Seq(Message)]
  /\ wire \in Seq(Message)

(* A failed session keeps its flag up, so that no handler starts a write.  *)
BrokenIsQuiet == broken => isSending /\ write = NoWrite

(* After a failure the kernel has a prefix of what was sent, without holes. *)
WireIsPrefix ==
  /\ Len(wire) <= Len(sent)
  /\ wire = SubSeq(sent, 1, Len(wire))

(* The inductive invariant. Conservation alone is not inductive: a write   *)
(* in place must be writing the front of the list (FrontStaysPut), and the *)
(* closure may call DoSend only when no write is pending (FlagHasOwner).   *)
IInv ==
  /\ TypeOK
  /\ FlagHasOwner
  /\ FrontStaysPut
  /\ BrokenIsQuiet
  /\ Conservation
  /\ WireIsPrefix

-----------------------------------------------------------------------------
(* A sequence is its prefix of length d followed by the rest. *)
LEMMA SplitSeq ==
  ASSUME NEW S, NEW s \in Seq(S), NEW d \in 0 .. Len(s)
  PROVE  /\ SubSeq(s, 1, d) \in Seq(S)
         /\ SubSeq(s, d+1, Len(s)) \in Seq(S)
         /\ s = SubSeq(s, 1, d) \o SubSeq(s, d+1, Len(s))
         /\ Len(SubSeq(s, 1, d)) = d
         /\ Len(SubSeq(s, d+1, Len(s))) = Len(s) - d
<1>1. SubSeq(s, 1, d) \in Seq(S) /\ Len(SubSeq(s, 1, d)) = d
  BY SubSeqProperties, ElementOfSeq, LenProperties
<1>2. SubSeq(s, d+1, Len(s)) \in Seq(S) /\ Len(SubSeq(s, d+1, Len(s))) = Len(s) - d
  BY SubSeqProperties, ElementOfSeq, LenProperties
<1>3. s = SubSeq(s, 1, d) \o SubSeq(s, d+1, Len(s))
  <2>1. Len(s) \in Nat /\ 1 \in 1 .. Len(s)+1 /\ d \in 1-1 .. Len(s) /\ Len(s) \in d .. Len(s)
    BY LenProperties
  <2>2. SubSeq(s, 1, d) \o SubSeq(s, d+1, Len(s)) = SubSeq(s, 1, Len(s))
    BY <2>1, ConcatAdjacentSubSeq
  <2> QED BY <2>2, SubSeqFull
<1> QED BY <1>1, <1>2, <1>3

(* A non-empty sequence is its head followed by its tail. *)
LEMMA HeadThenTail ==
  ASSUME NEW S, NEW s \in Seq(S), s # <<>>
  PROVE  /\ Head(s) \in S
         /\ Tail(s) \in Seq(S)
         /\ <<Head(s)>> \in Seq(S)
         /\ s = <<Head(s)>> \o Tail(s)
<1>1. Head(s) \in S /\ Tail(s) \in Seq(S) /\ <<Head(s)>> \in Seq(S)
  BY HeadTailProperties
<1>2. s = <<Head(s)>> \o Tail(s)
  BY <1>1, HeadTailProperties, LenProperties, ConcatProperties, SeqEqual
<1> QED BY <1>1, <1>2

(* A prefix stays a prefix when the sequence grows at its end. *)
LEMMA PrefixOfConcat ==
  ASSUME NEW S, NEW s \in Seq(S), NEW t \in Seq(S)
  PROVE  /\ Len(s) <= Len(s \o t)
         /\ s = SubSeq(s \o t, 1, Len(s))
<1>1. /\ Len(s \o t) = Len(s) + Len(t) /\ s \o t \in Seq(S)
      /\ \A i \in 1 .. Len(s) : (s \o t)[i] = s[i]
  BY ConcatProperties, LenProperties
<1>2. Len(s) \in Nat /\ Len(t) \in Nat
  BY LenProperties
<1>3. /\ SubSeq(s \o t, 1, Len(s)) \in Seq(S)
      /\ Len(SubSeq(s \o t, 1, Len(s))) = Len(s)
      /\ \A i \in 1 .. Len(s) : SubSeq(s \o t, 1, Len(s))[i] = (s \o t)[i]
  BY <1>1, <1>2, SubSeqProperties, ElementOfSeq
<1> QED BY <1>1, <1>2, <1>3, SeqEqual

(* Concatenation of three sequences of messages, in a form the provers     *)
(* instantiate without searching for the set S.                            *)
LEMMA Assoc ==
  \A s, t, u \in Seq(Message) :
    /\ s \o t \in Seq(Message)
    /\ (s \o t) \o u = s \o (t \o u)
  BY ConcatProperties, ConcatAssociative

(* The same with one of the three a single message. *)
LEMMA AssocOne ==
  \A s, t \in Seq(Message), m \in Message :
    /\ <<m>> \in Seq(Message)
    /\ s \o <<m>> \in Seq(Message)
    /\ (s \o t) \o <<m>> = s \o (t \o <<m>>)
    /\ (s \o <<m>>) \o t = s \o (<<m>> \o t)
    /\ (<<m>> \o s) \o t = <<m>> \o (s \o t)
<1> TAKE s, t \in Seq(Message), m \in Message
<1> DEFINE u == <<m>>
<1>1. u \in Seq(Message)
  OBVIOUS
<1> HIDE DEF u
<1>2. /\ s \o u \in Seq(Message)
      /\ (s \o t) \o u = s \o (t \o u)
      /\ (s \o u) \o t = s \o (u \o t)
      /\ (u \o s) \o t = u \o (s \o t)
  <2>1. s \o u \in Seq(Message)
    BY <1>1, ConcatProperties
  <2>2. (s \o t) \o u = s \o (t \o u)
    BY <1>1, Assoc, ZenonT(30)
  <2>3. (s \o u) \o t = s \o (u \o t)
    BY <1>1, Assoc, ZenonT(30)
  <2>4. (u \o s) \o t = u \o (s \o t)
    BY <1>1, Assoc, ZenonT(30)
  <2> QED BY <2>1, <2>2, <2>3, <2>4
<1> QED BY <1>1, <1>2 DEF u

(* Adding the head of one sequence to the end of another, then the tail. *)
LEMMA MoveHead ==
  ASSUME NEW S, NEW s \in Seq(S), NEW t \in Seq(S), t # <<>>
  PROVE  Append(s, Head(t)) \o Tail(t) = s \o t
<1>1. Append(s, Head(t)) = s \o <<Head(t)>>
  BY HeadThenTail, AppendIsConcat
<1> QED BY <1>1, HeadThenTail, ConcatAssociative

-----------------------------------------------------------------------------
(* doSend() moves the messages of the list it is given: to the wire, to    *)
(* the write or back to the list, in order.  The flag is up afterwards     *)
(* exactly if a write was started, and a single message stays in front.    *)
LEMMA DoSendMoves ==
  ASSUME NEW list \in Seq(Message), wire \in Seq(Message), DoSend(list)
  PROVE  /\ DoSendTypes'
         /\ FrontStaysPut'
         /\ isSending' <=> write'.buf # "none"
         /\ ~isSending' => sendList' = <<>> /\ write' = NoWrite
         /\ Held' \in Seq(Message)
         /\ wire' \o Held' = wire \o list
         /\ Len(wire') >= Len(wire)
<1>1. PICK d \in 0 .. Len(list) :
        LET rest    == SubSeq(list, d+1, Len(list))
            dropped == wire \o SubSeq(list, 1, d)
        IN
        \/ /\ rest = <<>> /\ sendList' = <<>> /\ isSending' = FALSE
           /\ write' = NoWrite /\ wire' = dropped
        \/ /\ rest # <<>> /\ isSending' = TRUE
           /\ \E n \in 1 .. Len(rest) :
                /\ sendList' = SubSeq(rest, n+1, Len(rest))
                /\ \E k \in 0 .. n :
                     /\ wire' = dropped \o SubSeq(rest, 1, k)
                     /\ write' = [buf |-> "stack", msgs |-> SubSeq(rest, 1, n),
                                  left |-> SubSeq(rest, k+1, n)]
        \/ /\ rest # <<>> /\ isSending' = TRUE /\ sendList' = rest
           /\ \/ /\ wire' = dropped \o <<Head(rest)>>
                 /\ write' = [buf |-> "front", msgs |-> <<Head(rest)>>, left |-> <<>>]
              \/ /\ wire' = dropped
                 /\ write' = [buf |-> "front", msgs |-> <<Head(rest)>>,
                              left |-> <<Head(rest)>>]
  BY DEF DoSend
<1> DEFINE rest == SubSeq(list, d+1, Len(list))
           head == SubSeq(list, 1, d)
           dropped == wire \o head
<1>2. /\ rest \in Seq(Message) /\ head \in Seq(Message)
      /\ list = head \o rest
  BY SplitSeq
<1> HIDE DEF rest, head
<1>3. /\ dropped \in Seq(Message) /\ dropped \o rest = wire \o list
      /\ Len(dropped) \in Nat /\ Len(wire) \in Nat /\ Len(dropped) >= Len(wire)
  <2>0. /\ Len(dropped) = Len(wire) + Len(head)
        /\ Len(wire) \in Nat /\ Len(head) \in Nat
    BY <1>2, ConcatProperties, LenProperties
  <2>1. /\ wire \o head \in Seq(Message)
        /\ (wire \o head) \o rest = wire \o (head \o rest)
    BY <1>2, Assoc
  <2>2. dropped \in Seq(Message) /\ dropped \o rest = wire \o list
    BY <1>2, <2>1, Zenon
  <2> QED BY <2>0, <2>2
<1> HIDE DEF dropped
<1>4. CASE /\ rest = <<>> /\ sendList' = <<>> /\ isSending' = FALSE
           /\ write' = NoWrite /\ wire' = dropped
  <2>1. Held' = <<>> /\ rest = <<>>
    BY <1>4 DEF Held, NoWrite
  <2>2. wire' \o Held' = wire \o list
    BY <1>3, <1>4, <2>1
  <2> QED BY <1>2, <1>3, <1>4, <2>1, <2>2 DEF DoSendTypes, FrontStaysPut, NoWrite
<1>5. ASSUME rest # <<>>, isSending' = TRUE,
             NEW n \in 1 .. Len(rest), NEW k \in 0 .. n,
             sendList' = SubSeq(rest, n+1, Len(rest)),
             wire' = dropped \o SubSeq(rest, 1, k),
             write' = [buf |-> "stack", msgs |-> SubSeq(rest, 1, n),
                       left |-> SubSeq(rest, k+1, n)]
      PROVE  /\ DoSendTypes' /\ FrontStaysPut'
             /\ isSending' <=> write'.buf # "none"
             /\ ~isSending' => sendList' = <<>> /\ write' = NoWrite
             /\ Held' \in Seq(Message)
             /\ wire' \o Held' = wire \o list
             /\ Len(wire') >= Len(wire)
  <2>1. Len(rest) \in Nat /\ k \in 0 .. Len(rest) /\ n \in 0 .. Len(rest) /\ n \in Nat /\ k \in Nat
    BY <1>2, LenProperties, <1>5
  <2>2. /\ SubSeq(rest, 1, k) \in Seq(Message) /\ SubSeq(rest, k+1, Len(rest)) \in Seq(Message)
        /\ rest = SubSeq(rest, 1, k) \o SubSeq(rest, k+1, Len(rest))
    BY <1>2, <2>1, SplitSeq
  <2>3. /\ SubSeq(rest, 1, n) \in Seq(Message)
        /\ SubSeq(rest, n+1, Len(rest)) \in Seq(Message)
    BY <1>2, <2>1, SplitSeq
  <2>4. SubSeq(rest, k+1, n) \in Seq(Message)
    <3>1. \A i \in k+1 .. n : i \in 1 .. Len(rest) /\ rest[i] \in Message
      <4>1. \A i \in k+1 .. n : i \in 1 .. Len(rest)
        BY <2>1
      <4> QED BY <1>2, <4>1, ElementOfSeq
    <3> QED BY <1>2, <2>1, <3>1, SubSeqProperties
  <2>5. SubSeq(rest, k+1, n) \o SubSeq(rest, n+1, Len(rest)) = SubSeq(rest, k+1, Len(rest))
    <3>1. /\ k+1 \in 1 .. Len(rest)+1 /\ n \in (k+1)-1 .. Len(rest)
          /\ Len(rest) \in n .. Len(rest)
      BY <2>1, <1>5
    <3> QED BY <3>1, <1>2, ConcatAdjacentSubSeq
  <2>6. Held' = SubSeq(rest, k+1, Len(rest))
    BY <1>5, <2>5 DEF Held
  <2>7. wire' \o Held' = dropped \o rest
    <3>1. (dropped \o SubSeq(rest, 1, k)) \o SubSeq(rest, k+1, Len(rest))
          = dropped \o (SubSeq(rest, 1, k) \o SubSeq(rest, k+1, Len(rest)))
      <4>1. dropped \in Seq(Message)
        BY <1>3
      <4>2. SubSeq(rest, 1, k) \in Seq(Message) /\ SubSeq(rest, k+1, Len(rest)) \in Seq(Message)
        BY <2>2
      <4> QED BY <4>1, <4>2, Assoc, ZenonT(30)
    <3>2. wire' \o Held' = (dropped \o SubSeq(rest, 1, k)) \o SubSeq(rest, k+1, Len(rest))
      BY <1>5, <2>6, Zenon
    <3> QED BY <3>1, <3>2, <2>2, Zenon
  <2>8. wire' \in Seq(Message)
    BY <1>3, <1>5, <2>2, ConcatProperties
  <2>9. DoSendTypes'
    BY <1>5, <2>3, <2>4, <2>8 DEF DoSendTypes
  <2>10. Len(wire') >= Len(wire)
    <3>1. /\ Len(wire') = Len(dropped) + Len(SubSeq(rest, 1, k))
          /\ Len(SubSeq(rest, 1, k)) \in Nat
      BY <1>3, <1>5, <2>2, ConcatProperties, LenProperties
    <3> QED BY <1>3, <3>1
  <2> QED BY <1>3, <1>5, <2>2, <2>6, <2>7, <2>9, <2>10 DEF FrontStaysPut
<1>6. ASSUME rest # <<>>, isSending' = TRUE, sendList' = rest,
             wire' = dropped \o <<Head(rest)>>,
             write' = [buf |-> "front", msgs |-> <<Head(rest)>>, left |-> <<>>]
      PROVE  /\ DoSendTypes' /\ FrontStaysPut'
             /\ isSending' <=> write'.buf # "none"
             /\ ~isSending' => sendList' = <<>> /\ write' = NoWrite
             /\ Held' \in Seq(Message)
             /\ wire' \o Held' = wire \o list
             /\ Len(wire') >= Len(wire)
  <2>1. /\ <<Head(rest)>> \in Seq(Message) /\ Tail(rest) \in Seq(Message)
        /\ rest = <<Head(rest)>> \o Tail(rest)
    BY <1>2, <1>6, HeadThenTail
  <2>2. Held' = Tail(rest)
    BY <1>6 DEF Held
  <2>3. wire' \o Held' = dropped \o rest
    <3>1. (dropped \o <<Head(rest)>>) \o Tail(rest)
          = dropped \o (<<Head(rest)>> \o Tail(rest))
      <4>1. dropped \in Seq(Message)
        BY <1>3
      <4>2. <<Head(rest)>> \in Seq(Message) /\ Tail(rest) \in Seq(Message)
        BY <2>1
      <4> QED BY <4>1, <4>2, Assoc, ZenonT(30)
    <3>2. wire' \o Held' = (dropped \o <<Head(rest)>>) \o Tail(rest)
      BY <1>6, <2>2, Zenon
    <3> QED BY <3>1, <3>2, <2>1, Zenon
  <2>4. wire' \in Seq(Message) /\ <<>> \in Seq(Message)
    BY <1>3, <1>6, <2>1, ConcatProperties, EmptySeq
  <2>5. Len(wire') >= Len(wire)
    <3>1. /\ Len(wire') = Len(dropped) + Len(<<Head(rest)>>)
          /\ Len(<<Head(rest)>>) \in Nat
      BY <1>3, <1>6, <2>1, ConcatProperties, LenProperties
    <3> QED BY <1>3, <3>1
  <2> QED BY <1>2, <1>3, <1>6, <2>1, <2>2, <2>3, <2>4, <2>5 DEF DoSendTypes, FrontStaysPut
<1>7. ASSUME rest # <<>>, isSending' = TRUE, sendList' = rest,
             wire' = dropped,
             write' = [buf |-> "front", msgs |-> <<Head(rest)>>, left |-> <<Head(rest)>>]
      PROVE  /\ DoSendTypes' /\ FrontStaysPut'
             /\ isSending' <=> write'.buf # "none"
             /\ ~isSending' => sendList' = <<>> /\ write' = NoWrite
             /\ Held' \in Seq(Message)
             /\ wire' \o Held' = wire \o list
             /\ Len(wire') >= Len(wire)
  <2>1. <<Head(rest)>> \in Seq(Message)
    BY <1>2, <1>7, HeadThenTail
  <2>2. Held' = rest
    BY <1>7 DEF Held
  <2>3. Len(wire') >= Len(wire)
    BY <1>3, <1>7
  <2> QED BY <1>2, <1>3, <1>7, <2>1, <2>2, <2>3 DEF DoSendTypes, FrontStaysPut
<1> QED BY <1>1, <1>4, <1>5, <1>6, <1>7 DEF rest, head, dropped

-----------------------------------------------------------------------------
(* The first of three concatenated sequences is a prefix of the whole. *)
LEMMA PrefixOfParts ==
  \A w, h, p \in Seq(Message) :
    /\ Len(w) <= Len((w \o h) \o p)
    /\ w = SubSeq((w \o h) \o p, 1, Len(w))
<1> TAKE w, h, p \in Seq(Message)
<1>1. h \o p \in Seq(Message) /\ (w \o h) \o p = w \o (h \o p)
  BY Assoc
<1> QED BY <1>1, PrefixOfConcat

LEMMA HeldIsSeq ==
  ASSUME TypeOK, FrontStaysPut
  PROVE  Held \in Seq(Message)
<1>1. CASE write.buf = "stack"
  BY <1>1, ConcatProperties DEF Held, TypeOK
<1>2. CASE write.buf = "front" /\ write.left = <<>>
  <2>1. sendList # <<>> /\ sendList \in Seq(Message)
    BY <1>2 DEF FrontStaysPut, TypeOK
  <2>2. Held = Tail(sendList)
    BY <1>2 DEF Held
  <2> QED BY <2>1, <2>2, HeadTailProperties
<1>3. CASE write.buf # "stack" /\ ~(write.buf = "front" /\ write.left = <<>>)
  <2>1. Held = sendList
    BY <1>3 DEF Held
  <2> QED BY <2>1 DEF TypeOK
<1> QED BY <1>1, <1>2, <1>3

LEMMA InitIInv == Init => IInv
<1> SUFFICES ASSUME Init PROVE IInv
  OBVIOUS
<1>1. /\ sent = <<>> /\ posted = <<>> /\ sendList = <<>> /\ wire = <<>>
      /\ isSending = FALSE /\ broken = FALSE /\ torn = {} /\ write = NoWrite
  BY DEF Init
<1>2. TypeOK
  BY <1>1, EmptySeq DEF TypeOK, NoWrite
<1>3. FlagHasOwner /\ FrontStaysPut /\ BrokenIsQuiet
  BY <1>1 DEF FlagHasOwner, FrontStaysPut, BrokenIsQuiet, NoWrite
<1>4. Held = <<>>
  BY <1>1 DEF Held, NoWrite
<1>5. Conservation
  BY <1>1, <1>4, EmptySeq, ConcatEmptySeq DEF Conservation
<1>6. WireIsPrefix
  BY <1>1, <1>2, <1>4, <1>5, PrefixOfParts DEF Conservation, TypeOK, WireIsPrefix
<1> QED BY <1>2, <1>3, <1>5, <1>6 DEF IInv

LEMMA SendMessageIInv ==
  ASSUME IInv, NEW m \in Message, SendMessage(m)
  PROVE  IInv'
<1>1. /\ sent' = Append(sent, m) /\ posted' = Append(posted, m)
      /\ UNCHANGED <<sendList, isSending, write, wire, torn, broken>>
  BY DEF SendMessage
<1>2. /\ sent \in Seq(Message) /\ posted \in Seq(Message) /\ wire \in Seq(Message)
      /\ Held \in Seq(Message)
  BY HeldIsSeq DEF IInv, TypeOK
<1>3. /\ sent' \in Seq(Message) /\ posted' \in Seq(Message) /\ <<m>> \in Seq(Message)
      /\ sent' = sent \o <<m>> /\ posted' = posted \o <<m>>
  BY <1>1, <1>2, AppendProperties, AppendIsConcat
<1>4. TypeOK' /\ FlagHasOwner' /\ FrontStaysPut' /\ BrokenIsQuiet'
  BY <1>1, <1>3 DEF IInv, TypeOK, FlagHasOwner, FrontStaysPut, BrokenIsQuiet
<1>5. Held' = Held
  BY <1>1 DEF Held
<1>6. Conservation'
  <2> SUFFICES ASSUME ~broken PROVE (wire \o Held) \o posted' = sent'
    BY <1>1, <1>5 DEF Conservation
  <2>1. (wire \o Held) \o posted = sent
    BY DEF IInv, Conservation
  <2>2. ((wire \o Held) \o posted) \o <<m>> = (wire \o Held) \o (posted \o <<m>>)
    <3>1. wire \o Held \in Seq(Message)
      <4>1. wire \in Seq(Message) /\ Held \in Seq(Message)
        BY <1>2
      <4> QED BY <4>1, Assoc, ZenonT(30)
    <3>2. posted \in Seq(Message) /\ <<m>> \in Seq(Message)
      BY <1>2, <1>3
    <3> QED BY <3>1, <3>2, Assoc, ZenonT(30)
  <2> QED BY <1>3, <2>1, <2>2, Zenon
<1>7. WireIsPrefix'
  <2>1. /\ Len(sent') = Len(sent) + 1
        /\ \A i \in 1 .. Len(sent) : sent'[i] = sent[i]
    BY <1>1, <1>2, AppendProperties
  <2>2. Len(wire) <= Len(sent) /\ wire = SubSeq(sent, 1, Len(wire))
    BY DEF IInv, WireIsPrefix
  <2>3. Len(wire) \in Nat /\ Len(sent) \in Nat
    BY <1>2, LenProperties
  <2>4. /\ \A i \in 1 .. Len(wire) : sent[i] \in Message /\ sent'[i] \in Message
        /\ \A i \in 1 .. Len(wire) : wire[i] = sent[i]
    BY <1>2, <2>1, <2>2, <2>3, ElementOfSeq, SubSeqProperties
  <2>5. /\ SubSeq(sent', 1, Len(wire)) \in Seq(Message)
        /\ Len(SubSeq(sent', 1, Len(wire))) = Len(wire)
        /\ \A i \in 1 .. Len(wire) : SubSeq(sent', 1, Len(wire))[i] = sent'[i]
    BY <2>3, <2>4, SubSeqProperties
  <2>6. wire = SubSeq(sent', 1, Len(wire))
    <3>1. \A i \in 1 .. Len(wire) : wire[i] = SubSeq(sent', 1, Len(wire))[i]
      <4>1. \A i \in 1 .. Len(wire) : i \in 1 .. Len(sent)
        BY <2>2, <2>3
      <4> QED BY <2>1, <2>4, <2>5, <4>1
    <3>2. wire \in Seq(Message)
      BY <1>2
    <3> QED BY <2>5, <3>1, <3>2, SeqEqual
  <2> QED BY <1>1, <2>1, <2>2, <2>3, <2>6 DEF WireIsPrefix
<1> QED BY <1>4, <1>6, <1>7 DEF IInv

LEMMA RunPostedIInv ==
  ASSUME IInv, RunPosted
  PROVE  IInv'
<1> DEFINE list == Append(sendList, Head(posted))
<1>1. /\ posted # <<>> /\ posted' = Tail(posted)
      /\ \/ isSending /\ sendList' = list /\ UNCHANGED <<isSending, write, wire>>
         \/ ~isSending /\ DoSend(list)
      /\ UNCHANGED <<sent, torn, broken>>
  BY DEF RunPosted
<1>2. /\ sendList \in Seq(Message) /\ posted \in Seq(Message) /\ wire \in Seq(Message)
      /\ Held \in Seq(Message)
  BY HeldIsSeq DEF IInv, TypeOK
<1>3. /\ Head(posted) \in Message /\ <<Head(posted)>> \in Seq(Message)
      /\ posted' \in Seq(Message)
      /\ posted = <<Head(posted)>> \o posted'
  BY <1>1, <1>2, HeadThenTail
<1>4. list \in Seq(Message) /\ list = sendList \o <<Head(posted)>> /\ list # <<>>
  BY <1>2, <1>3, AppendProperties, AppendIsConcat
<1> HIDE DEF list
(* In both cases the message moves from posted to the end of what is held. *)
<1>5. SUFFICES /\ DoSendTypes' /\ FlagHasOwner' /\ FrontStaysPut' /\ BrokenIsQuiet'
               /\ ~broken => /\ Held' \in Seq(Message)
                             /\ wire' \o Held' = (wire \o Held) \o <<Head(posted)>>
               /\ broken => wire' = wire
  <2>1. TypeOK'
    BY <1>1, <1>3, <1>5 DEF IInv, TypeOK, DoSendTypes
  <2>2. ASSUME ~broken
        PROVE  (wire' \o Held') \o posted' = sent' /\ WireIsPrefix'
    <3> DEFINE w == wire \o Held
    <3>1. w \in Seq(Message)
      BY <1>2, Assoc
    <3>2. w \o posted = sent
      BY <2>2 DEF IInv, Conservation
    <3> HIDE DEF w
    <3>3. (w \o <<Head(posted)>>) \o posted' = w \o posted
      <4>1. (w \o <<Head(posted)>>) \o posted' = w \o (<<Head(posted)>> \o posted')
        BY <1>3, <3>1, AssocOne, ZenonT(30)
      <4> QED BY <1>3, <4>1, Zenon
    <3>4. wire' \o Held' = w \o <<Head(posted)>>
      BY <1>5, <2>2 DEF w
    <3>5. (wire' \o Held') \o posted' = sent'
      BY <1>1, <3>2, <3>3, <3>4
    <3>6. wire' \in Seq(Message) /\ Held' \in Seq(Message)
      BY <1>5, <2>2 DEF DoSendTypes
    <3>7. WireIsPrefix'
      BY <1>3, <3>5, <3>6, PrefixOfParts, Zenon DEF WireIsPrefix
    <3> QED BY <3>5, <3>7
  <2>3. broken => WireIsPrefix'
    BY <1>1, <1>5 DEF IInv, WireIsPrefix
  <2> QED BY <1>1, <1>5, <2>1, <2>2, <2>3 DEF IInv, Conservation
<1>6. CASE isSending /\ sendList' = list /\ UNCHANGED <<isSending, write, wire>>
  <2>1. DoSendTypes' /\ BrokenIsQuiet' /\ FlagHasOwner'
    BY <1>1, <1>4, <1>6 DEF IInv, TypeOK, DoSendTypes, BrokenIsQuiet, FlagHasOwner
  <2>2. sendList # <<>> => Head(list) = Head(sendList) /\ Tail(list) = Tail(sendList) \o <<Head(posted)>>
    <3> SUFFICES ASSUME sendList # <<>> PROVE Head(list) = Head(sendList)
                   /\ Tail(list) = Tail(sendList) \o <<Head(posted)>>
      OBVIOUS
    <3>1. Tail(sendList) \in Seq(Message)
      BY <1>2, HeadThenTail
    <3>2. Head(list) = Head(sendList) /\ Tail(list) = Append(Tail(sendList), Head(posted))
      BY <1>2, <1>3, HeadTailAppend DEF list
    <3> QED BY <1>3, <3>1, <3>2, AppendIsConcat
  <2>3. FrontStaysPut'
    BY <1>4, <1>6, <2>2 DEF IInv, FrontStaysPut
  <2>4. Held' \in Seq(Message) /\ Held' = Held \o <<Head(posted)>>
    <3>1. CASE write.buf = "stack"
      <4>1. write.left \in Seq(Message)
        BY DEF IInv, TypeOK
      <4>2. Held' = write.left \o list /\ Held = write.left \o sendList
        BY <1>6, <3>1 DEF Held
      <4>3. write.left \o list = (write.left \o sendList) \o <<Head(posted)>>
        BY <1>2, <1>3, <1>4, <4>1, AssocOne, ZenonT(30)
      <4>4. write.left \o list \in Seq(Message)
        BY <1>4, <4>1, Assoc, ZenonT(30)
      <4> QED BY <4>2, <4>3, <4>4, Zenon
    <3>2. CASE write.buf = "front" /\ write.left = <<>>
      <4>1. sendList # <<>>
        BY <3>2 DEF IInv, FrontStaysPut
      <4>2. Held' = Tail(list) /\ Held = Tail(sendList)
        BY <1>6, <3>2 DEF Held
      <4>3. Tail(sendList) \in Seq(Message)
        BY <1>2, <4>1, HeadThenTail
      <4> QED BY <1>3, <2>2, <4>1, <4>2, <4>3, AssocOne, ZenonT(30)
    <3>3. CASE write.buf # "stack" /\ ~(write.buf = "front" /\ write.left = <<>>)
      <4>1. Held' = list /\ Held = sendList
        BY <1>6, <3>3 DEF Held
      <4> QED BY <1>4, <4>1
    <3> QED BY <3>1, <3>2, <3>3
  <2>5. wire' \o Held' = (wire \o Held) \o <<Head(posted)>>
    BY <1>2, <1>3, <1>6, <2>4, AssocOne, ZenonT(30)
  <2> QED BY <1>6, <2>1, <2>3, <2>4, <2>5
<1>7. CASE ~isSending /\ DoSend(list)
  <2>1. /\ DoSendTypes' /\ FrontStaysPut' /\ Held' \in Seq(Message)
        /\ isSending' <=> write'.buf # "none"
        /\ ~isSending' => sendList' = <<>> /\ write' = NoWrite
        /\ wire' \o Held' = wire \o list
    BY <1>2, <1>4, <1>7, DoSendMoves
  <2>2. sendList = <<>> /\ write = NoWrite /\ ~broken
    BY <1>7 DEF IInv, FlagHasOwner, BrokenIsQuiet
  <2>3. FlagHasOwner' /\ BrokenIsQuiet'
    BY <1>1, <2>1, <2>2 DEF FlagHasOwner, BrokenIsQuiet
  <2>4. Held = sendList
    BY <2>2 DEF Held, NoWrite
  <2>5. wire \o list = (wire \o Held) \o <<Head(posted)>>
    BY <1>2, <1>3, <1>4, <2>4, AssocOne, ZenonT(30)
  <2> QED BY <2>1, <2>2, <2>3, <2>5
<1> QED BY <1>1, <1>6, <1>7

LEMMA TransferIInv ==
  ASSUME IInv, Transfer
  PROVE  IInv'
<1> DEFINE m == Head(write.left)
           tl == Tail(write.left)
<1>1. /\ write.left # <<>>
      /\ wire' = Append(wire, m)
      /\ torn' \in IF write.buf = "stack" THEN {torn, torn \cup {m}} ELSE {torn}
      /\ write' = [write EXCEPT !.left = tl]
      /\ UNCHANGED <<sent, posted, sendList, isSending, broken>>
  BY DEF Transfer
<1>2. /\ sendList \in Seq(Message) /\ posted \in Seq(Message) /\ wire \in Seq(Message)
      /\ write \in [buf : {"none", "stack", "front"}, msgs : Seq(Message), left : Seq(Message)]
      /\ write.left \in Seq(Message) /\ torn \subseteq Message
      /\ Held \in Seq(Message)
  BY HeldIsSeq DEF IInv, TypeOK
<1>3. /\ m \in Message /\ tl \in Seq(Message)
      /\ wire' \in Seq(Message) /\ wire' = wire \o <<m>>
  BY <1>1, <1>2, HeadThenTail, AppendProperties, AppendIsConcat
<1>3a. write.left # <<>> => /\ write.left = <<m>> \o tl
                         /\ m = write.left[1]
                         /\ Len(tl) = Len(write.left) - 1
  BY <1>2, HeadThenTail, HeadTailProperties
<1> HIDE DEF m, tl
<1>3b. m \in Message /\ <<m>> \in Seq(Message) /\ tl \in Seq(Message)
       /\ wire \in Seq(Message) /\ sendList \in Seq(Message)
  BY <1>2, <1>3
<1>4. /\ write'.buf = write.buf /\ write'.left = tl
      /\ write' \in [buf : {"none", "stack", "front"}, msgs : Seq(Message), left : Seq(Message)]
  BY <1>1, <1>2, <1>3
<1>5. torn' \subseteq Message
  BY <1>1, <1>2, <1>3
<1>6. TypeOK'
  BY <1>1, <1>3, <1>4, <1>5 DEF IInv, TypeOK
<1>7. write # NoWrite /\ ~broken
  BY <1>1 DEF IInv, BrokenIsQuiet, NoWrite
<1>8. FlagHasOwner' /\ BrokenIsQuiet'
  BY <1>1, <1>4, <1>7 DEF IInv, FlagHasOwner, BrokenIsQuiet
<1>9. CASE write.buf = "stack"
  <2>1. Held' = tl \o sendList /\ Held = write.left \o sendList
    BY <1>1, <1>4, <1>9 DEF Held
  <2>2. write.left = <<m>> \o tl
    BY <1>1, <1>3a
  <2>3. wire' \o Held' = wire \o (<<m>> \o (tl \o sendList))
    <3>1. tl \o sendList \in Seq(Message)
      BY <1>2, <1>3, Assoc, ZenonT(30)
    <3>2. (wire \o <<m>>) \o (tl \o sendList)
          = wire \o (<<m>> \o (tl \o sendList))
      BY <1>3b, <3>1, AssocOne, ZenonT(30)
    <3> QED BY <1>3, <2>1, <3>2, Zenon
  <2>4. <<m>> \o (tl \o sendList) = write.left \o sendList
    <3>1. (<<m>> \o tl) \o sendList = <<m>> \o (tl \o sendList)
      BY <1>3b, AssocOne, ZenonT(30)
    <3> QED BY <2>2, <3>1, Zenon
  <2>5. wire' \o Held' = wire \o Held
    BY <2>1, <2>3, <2>4, Zenon
  <2>6. FrontStaysPut'
    BY <1>4, <1>9 DEF FrontStaysPut
  <2>7. Held' \in Seq(Message)
    BY <1>2, <1>3, <2>1, Assoc, ZenonT(30)
  <2>8. (wire' \o Held') \o posted' = sent'
    BY <1>1, <1>7, <2>5 DEF IInv, Conservation
  <2>9. WireIsPrefix'
    <3>1. posted' \in Seq(Message)
      BY <1>1, <1>2
    <3> QED BY <1>3, <2>7, <2>8, <3>1, PrefixOfParts, Zenon DEF WireIsPrefix
  <2> QED BY <1>6, <1>8, <2>6, <2>8, <2>9 DEF IInv, Conservation
<1>10. CASE write.buf = "front"
  <2>1. sendList # <<>> /\ write.left = <<Head(sendList)>>
    BY <1>1, <1>10 DEF IInv, FrontStaysPut
  <2>2. m = Head(sendList) /\ tl = <<>>
    BY <1>1, <1>2, <1>3a, <2>1, HeadTailProperties
  <2>3. Held = sendList /\ Held' = Tail(sendList)
    BY <1>1, <1>4, <1>10, <2>1, <2>2 DEF Held
  <2>4. sendList = <<m>> \o Tail(sendList) /\ Tail(sendList) \in Seq(Message)
    BY <1>2, <2>1, <2>2, HeadThenTail
  <2>5. wire' \o Held' = wire \o Held
    <3>1. Append(wire, Head(sendList)) \o Tail(sendList) = wire \o sendList
      BY <1>2, <2>1, MoveHead
    <3> QED BY <1>1, <2>2, <2>3, <3>1, Zenon
  <2>6. FrontStaysPut'
    BY <1>1, <1>4, <1>10, <2>1, <2>2 DEF FrontStaysPut
  <2>7. (wire' \o Held') \o posted' = sent'
    BY <1>1, <1>7, <2>5 DEF IInv, Conservation
  <2>8. WireIsPrefix'
    <3>1. posted' \in Seq(Message) /\ Held' \in Seq(Message)
      BY <1>1, <1>2, <2>3, <2>4
    <3> QED BY <1>3, <2>7, <3>1, PrefixOfParts, Zenon DEF WireIsPrefix
  <2> QED BY <1>6, <1>8, <2>6, <2>7, <2>8 DEF IInv, Conservation
<1>11. write.buf \in {"stack", "front"}
  BY <1>2, <1>7 DEF IInv, FlagHasOwner
<1> QED BY <1>9, <1>10, <1>11

LEMMA WriteDoneIInv ==
  ASSUME IInv, WriteDone
  PROVE  IInv'
<1> DEFINE list == IF write.buf = "front" THEN Tail(sendList) ELSE sendList
<1>1. /\ write.buf # "none" /\ write.left = <<>>
      /\ \/ list # <<>> /\ DoSend(list)
         \/ /\ list = <<>> /\ sendList' = list /\ isSending' = FALSE
            /\ write' = NoWrite /\ wire' = wire
      /\ UNCHANGED <<sent, posted, torn, broken>>
  BY DEF WriteDone
<1>2. /\ sendList \in Seq(Message) /\ posted \in Seq(Message) /\ wire \in Seq(Message)
      /\ Held \in Seq(Message) /\ write.buf \in {"none", "stack", "front"}
  BY HeldIsSeq DEF IInv, TypeOK
<1>3. ~broken
  BY <1>1 DEF IInv, BrokenIsQuiet, NoWrite
<1>4. Held = list
  <2>1. CASE write.buf = "front"
    BY <1>1, <2>1 DEF Held
  <2>2. CASE write.buf = "stack"
    <3>1. Held = <<>> \o sendList
      BY <1>1, <2>2 DEF Held
    <3> QED BY <1>2, <2>2, <3>1, ConcatEmptySeq
  <2> QED BY <1>1, <1>2, <2>1, <2>2
<1>5. list \in Seq(Message)
  BY <1>2, <1>4
<1> HIDE DEF list
<1>6. /\ DoSendTypes' /\ FrontStaysPut' /\ FlagHasOwner'
      /\ Held' \in Seq(Message) /\ wire' \o Held' = wire \o list
  <2>1. CASE list # <<>> /\ DoSend(list)
    <3>1. /\ DoSendTypes' /\ FrontStaysPut' /\ Held' \in Seq(Message)
          /\ isSending' <=> write'.buf # "none"
          /\ ~isSending' => sendList' = <<>> /\ write' = NoWrite
          /\ wire' \o Held' = wire \o list
      BY <1>2, <1>5, <2>1, DoSendMoves
    <3> QED BY <1>1, <1>3, <3>1 DEF FlagHasOwner
  <2>2. CASE /\ list = <<>> /\ sendList' = list /\ isSending' = FALSE
             /\ write' = NoWrite /\ wire' = wire
    <3>1. DoSendTypes' /\ FrontStaysPut' /\ FlagHasOwner'
      BY <1>1, <1>2, <2>2, EmptySeq DEF DoSendTypes, FrontStaysPut, FlagHasOwner, NoWrite
    <3>2. Held' = list
      BY <2>2 DEF Held, NoWrite
    <3> QED BY <1>5, <2>2, <3>1, <3>2
  <2> QED BY <1>1, <2>1, <2>2
<1>7. TypeOK' /\ BrokenIsQuiet'
  BY <1>1, <1>3, <1>6 DEF IInv, TypeOK, DoSendTypes, BrokenIsQuiet
<1>8. (wire' \o Held') \o posted' = sent'
  BY <1>1, <1>3, <1>4, <1>6 DEF IInv, Conservation
<1>9. WireIsPrefix'
  <2>1. wire' \in Seq(Message) /\ posted' \in Seq(Message) /\ Held' \in Seq(Message)
    BY <1>1, <1>2, <1>6 DEF DoSendTypes
  <2> QED BY <1>8, <2>1, PrefixOfParts, Zenon DEF WireIsPrefix
<1> QED BY <1>6, <1>7, <1>8, <1>9 DEF IInv, Conservation

LEMMA WriteFailsIInv ==
  ASSUME IInv, WriteFails
  PROVE  IInv'
<1>1. /\ write.left # <<>> /\ write' = NoWrite /\ broken' = TRUE
      /\ UNCHANGED <<sent, posted, sendList, isSending, wire, torn>>
  BY DEF WriteFails
<1>2. isSending
  BY <1>1 DEF IInv, FlagHasOwner, NoWrite
<1>3. TypeOK'
  BY <1>1, EmptySeq DEF IInv, TypeOK, NoWrite
<1>4. FlagHasOwner' /\ FrontStaysPut' /\ BrokenIsQuiet' /\ Conservation'
  BY <1>1, <1>2 DEF FlagHasOwner, FrontStaysPut, BrokenIsQuiet, Conservation, NoWrite
<1>5. WireIsPrefix'
  BY <1>1 DEF IInv, WireIsPrefix
<1> QED BY <1>3, <1>4, <1>5 DEF IInv

(* Every step of the session keeps the inductive invariant. *)
LEMMA NextIInv == IInv /\ [Next]_vars => IInv'
<1> SUFFICES ASSUME IInv, [Next]_vars PROVE IInv'
  OBVIOUS
<1>1. CASE \E m \in Message : SendMessage(m)
  BY <1>1, SendMessageIInv
<1>2. CASE RunPosted
  BY <1>2, RunPostedIInv
<1>3. CASE Transfer
  BY <1>3, TransferIInv
<1>4. CASE WriteDone
  BY <1>4, WriteDoneIInv
<1>5. CASE WriteFails
  BY <1>5, WriteFailsIInv
<1>6. CASE UNCHANGED vars
  BY <1>6 DEF vars, IInv, TypeOK, FlagHasOwner, FrontStaysPut, BrokenIsQuiet,
              Conservation, WireIsPrefix, Held
<1> QED BY <1>1, <1>2, <1>3, <1>4, <1>5, <1>6 DEF Next

(* The inductive invariant holds in every behaviour of the session. *)
THEOREM SendInvariant == Spec => []IInv
<1> QED BY InitIInv, NextIInv, PTL DEF Spec

(* The variables of a session's sending half keep their types. *)
THEOREM SendTypeCorrect == Spec => []TypeOK
<1>1. IInv => TypeOK
  BY DEF IInv
<1> QED BY <1>1, SendInvariant, PTL

(* TcpSession::doSend loses, repeats and reorders nothing: what users sent *)
(* is what the kernel has followed by what the session holds.              *)
THEOREM SendConserves == Spec => []Conservation
<1>1. IInv => Conservation
  BY DEF IInv
<1> QED BY <1>1, SendInvariant, PTL

(* m_IsSending is up exactly while a completion handler is due, and the    *)
(* list is empty when it is down: no message is stranded in m_SendList.    *)
THEOREM SendFlagHasOwner == Spec => []FlagHasOwner
<1>1. IInv => FlagHasOwner
  BY DEF IInv
<1> QED BY <1>1, SendInvariant, PTL

(* A write in place always reads the front of m_SendList, which no handler *)
(* pops before the write's own completion.                                 *)
THEOREM SendFrontStaysPut == Spec => []FrontStaysPut
<1>1. IInv => FrontStaysPut
  BY DEF IInv
<1> QED BY <1>1, SendInvariant, PTL

-----------------------------------------------------------------------------
(* A step that lengthens the wire of a working session delivers the next   *)
(* messages of the channel; one that leaves it alone stutters.             *)
LEMMA GrowthIsDelivery ==
  ASSUME IInv, IInv', sent' = sent, broken' = broken,
         Len(wire') >= Len(wire), wire' = wire \/ ~broken
  PROVE  [Channel!Next]_(Channel!vars)
<1>1. /\ wire = SubSeq(sent, 1, Len(wire)) /\ wire' = SubSeq(sent, 1, Len(wire'))
      /\ Len(wire) \in Nat /\ Len(wire') \in Nat /\ Len(sent) \in Nat
      /\ Len(wire') <= Len(sent)
  BY LenProperties DEF IInv, WireIsPrefix, TypeOK
<1>2. CASE wire' = wire
  BY <1>2 DEF Channel!vars
<1>3. CASE wire' # wire
  <2>1. Len(wire') # Len(wire)
    BY <1>1, <1>3, Zenon
  <2> DEFINE n == Len(wire') - Len(wire)
  <2>2. n \in 1 .. Len(sent) /\ Len(wire) + n = Len(wire')
    <3>1. \A a, b, c \in Nat : b >= a /\ b # a /\ b <= c => b - a \in 1 .. c /\ a + (b - a) = b
      OBVIOUS
    <3> QED BY <1>1, <2>1, <3>1, Zenon
  <2> HIDE DEF n
  <2>3. Channel!Deliver(n)
    BY <1>1, <1>3, <2>2 DEF Channel!Deliver
  <2> QED BY <2>2, <2>3 DEF Channel!Next
<1> QED BY <1>2, <1>3

(* The sending half of a session implements the ordered channel: each of   *)
(* its steps accepts a message, delivers the next ones, breaks the         *)
(* channel, or changes nothing the channel's user can see.                 *)
THEOREM SendImplementsChannel == Spec => ImplementsChannel
<1>1. Init => Channel!Init
  BY DEF Init, Channel!Init
<1>2. IInv /\ IInv' /\ [Next]_vars => [Channel!Next]_(Channel!vars)
  <2> SUFFICES ASSUME IInv, IInv', [Next]_vars PROVE [Channel!Next]_(Channel!vars)
    OBVIOUS
  <2>0. wire \in Seq(Message) /\ Len(wire) \in Nat
    BY LenProperties DEF IInv, TypeOK
  <2>1. ASSUME NEW m \in Message, SendMessage(m)
        PROVE  [Channel!Next]_(Channel!vars)
    BY <2>1 DEF SendMessage, Channel!Next, Channel!Accept
  <2>2. CASE RunPosted
    <3>1. sent' = sent /\ broken' = broken
      BY <2>2 DEF RunPosted
    <3>2. CASE isSending
      <4>1. wire' = wire
        BY <2>2, <3>2 DEF RunPosted
      <4> QED BY <2>0, <3>1, <4>1, GrowthIsDelivery
    <3>3. CASE ~isSending
      <4>1. ~broken
        BY <3>3 DEF IInv, BrokenIsQuiet
      <4>2. DoSend(Append(sendList, Head(posted))) /\ posted # <<>>
        BY <2>2, <3>3 DEF RunPosted
      <4>3. Append(sendList, Head(posted)) \in Seq(Message)
        BY <4>2, HeadThenTail, AppendProperties DEF IInv, TypeOK
      <4>4. Len(wire') >= Len(wire)
        BY <2>0, <4>2, <4>3, DoSendMoves
      <4> QED BY <3>1, <4>1, <4>4, GrowthIsDelivery
    <3> QED BY <3>2, <3>3
  <2>3. CASE Transfer
    <3>1. /\ sent' = sent /\ broken' = broken /\ write.left # <<>>
          /\ wire' = Append(wire, Head(write.left))
      BY <2>3 DEF Transfer
    <3>2. ~broken
      BY <3>1 DEF IInv, BrokenIsQuiet, NoWrite
    <3>3. Head(write.left) \in Message
      BY <3>1, HeadTailProperties DEF IInv, TypeOK
    <3>4. Len(wire') >= Len(wire)
      BY <2>0, <3>1, <3>3, AppendProperties
    <3> QED BY <3>1, <3>2, <3>4, GrowthIsDelivery
  <2>4. CASE WriteDone
    <3>1. sent' = sent /\ broken' = broken /\ write.buf # "none" /\ write.left = <<>>
      BY <2>4 DEF WriteDone
    <3>2. ~broken
      BY <3>1 DEF IInv, BrokenIsQuiet, NoWrite
    <3> DEFINE list == IF write.buf = "front" THEN Tail(sendList) ELSE sendList
    <3>3. CASE list # <<>> /\ DoSend(list)
      <4>1. list \in Seq(Message)
        <5>1. CASE write.buf = "front"
          <6>1. sendList \in Seq(Message) /\ sendList # <<>>
            BY <5>1 DEF IInv, FrontStaysPut, TypeOK
          <6> QED BY <5>1, <6>1, HeadTailProperties
        <5>2. CASE write.buf # "front"
          BY <5>2 DEF IInv, TypeOK
        <5> QED BY <5>1, <5>2
      <4> HIDE DEF list
      <4>2. Len(wire') >= Len(wire)
        BY <2>0, <3>3, <4>1, DoSendMoves
      <4> QED BY <3>1, <3>2, <4>2, GrowthIsDelivery
    <3>4. CASE wire' = wire
      BY <2>0, <3>1, <3>4, GrowthIsDelivery
    <3> QED BY <2>4, <3>3, <3>4 DEF WriteDone
  <2>5. CASE WriteFails
    BY <2>5 DEF WriteFails, Channel!Next, Channel!Break
  <2>6. CASE UNCHANGED vars
    BY <2>6 DEF vars, Channel!vars
  <2> QED BY <2>1, <2>2, <2>3, <2>4, <2>5, <2>6 DEF Next
<1> QED BY <1>1, <1>2, SendInvariant, PTL DEF Spec, ImplementsChannel, Channel!Spec

(* A handler starts a write only when none has bytes left, and only the    *)
(* event loop takes any of them away.                                      *)
LEMMA StepKeepsWrite ==
  ASSUME IInv, Next, write.left # <<>>, ~broken'
  PROVE  /\ write'.buf = write.buf
         /\ write'.left \in {write.left, Tail(write.left)}
<1>1. isSending
  BY DEF IInv, FlagHasOwner, NoWrite
<1>2. CASE \E m \in Message : SendMessage(m)
  BY <1>2 DEF SendMessage
<1>3. CASE RunPosted
  BY <1>1, <1>3 DEF RunPosted
<1>4. CASE Transfer
  BY <1>4 DEF Transfer, IInv, TypeOK
<1>5. CASE WriteDone
  BY <1>5 DEF WriteDone
<1>6. CASE WriteFails
  BY <1>6 DEF WriteFails
<1> QED BY <1>2, <1>3, <1>4, <1>5, <1>6 DEF Next

(* The kernel never gets the bytes of two messages interleaved: one        *)
(* asynchronous write is outstanding at a time.                            *)
THEOREM SendOneWriteAtATime == Spec => OneWriteAtATime
<1>1. IInv /\ [Next]_vars =>
        [write.left # <<>> /\ ~broken' =>
           /\ write'.buf = write.buf
           /\ write'.left \in {write.left, Tail(write.left)}]_vars
  BY StepKeepsWrite
<1> QED BY <1>1, SendInvariant, PTL DEF Spec, OneWriteAtATime

-----------------------------------------------------------------------------
(* How many bytes the first n messages of a list have: there is a function *)
(* as Bytes defines it, since sums exist, and it is their sum.             *)
LEMMA BytesAreSums ==
  ASSUME NEW list \in Seq(Message)
  PROVE  PartialSums(Bytes(list), [i \in 1 .. Len(list) |-> Size[list[i]]], Len(list))
<1> DEFINE N == Len(list)
           w == [i \in 1 .. N |-> Size[list[i]]]
           b == Bytes(list)
<1>1. N \in Nat /\ \A i \in 1 .. N : list[i] \in Message
  BY LenProperties, ElementOfSeq
<1>2. \A i \in 1 .. N : w[i] = Size[list[i]] /\ w[i] \in Int
  BY <1>1, SizeAssumption
<1>3. PICK S : PartialSums(S, w, N)
  <2> HIDE DEF w, N
  <2> QED BY <1>1, <1>2, SumsExist
<1>4. S \in [0 .. N -> Int] /\ S[0] = 0 /\ \A i \in 1 .. N : S[i] = S[i-1] + w[i]
  BY <1>3 DEF PartialSums
<1>5. S = [n \in 0 .. N |-> IF n = 0 THEN 0 ELSE S[n-1] + Size[list[n]]]
  <2>1. ASSUME NEW n \in 0 .. N PROVE S[n] = IF n = 0 THEN 0 ELSE S[n-1] + Size[list[n]]
    <3>1. n # 0 => n \in 1 .. N
      BY <1>1
    <3> QED BY <1>2, <1>4, <3>1
  <2> QED BY <1>4, <2>1
<1>6. b = [n \in 0 .. N |-> IF n = 0 THEN 0 ELSE b[n-1] + Size[list[n]]]
  BY <1>5 DEF Bytes
<1> HIDE DEF b, w, N
<1>7. \A n \in 0 .. N : b[n] = S[n]
  <2> DEFINE Wrong == {n \in 0 .. N : b[n] # S[n]}
  <2> SUFFICES ASSUME Wrong # {} PROVE FALSE
    OBVIOUS
  <2>1. PICK n \in Wrong : \A k \in Wrong : n <= k
    <3>1. Wrong \subseteq Nat
      BY <1>1
    <3> HIDE DEF Wrong
    <3> QED BY <3>1, Least
  <2>2. n \in 0 .. N /\ b[n] # S[n] /\ b[n] = (IF n = 0 THEN 0 ELSE b[n-1] + Size[list[n]])
    BY <1>6
  <2>3. n # 0
    BY <1>4, <2>2
  <2>4. n - 1 \in 0 .. N /\ n \in 1 .. N /\ ~ (n <= n - 1)
    BY <1>1, <2>2, <2>3
  <2>5. b[n-1] = S[n-1]
    BY <2>1, <2>4
  <2> QED BY <1>2, <1>4, <2>2, <2>3, <2>4, <2>5
<1>8. b = S
  BY <1>4, <1>6, <1>7
<1> QED BY <1>3, <1>8 DEF b, w, N

(* A message of a batch fits the array. *)
LEMMA BatchFits ==
  ASSUME NEW list \in Seq(Message), NEW n \in 1 .. Len(list), BatchLen(list, n)
  PROVE  \A i \in 1 .. n : Size[list[i]] <= NETWORK_BUF_SIZE
<1> DEFINE w == [i \in 1 .. Len(list) |-> Size[list[i]]]
           b == Bytes(list)
<1>1. PartialSums(b, w, Len(list))
  BY BytesAreSums
<1>2. Len(list) \in Nat /\ \A i \in 1 .. Len(list) : list[i] \in Message
  BY LenProperties, ElementOfSeq
<1>3. \A i \in 1 .. Len(list) : w[i] = Size[list[i]] /\ w[i] \in Nat
  BY <1>2, SizeAssumption
<1>4. b[n] <= NETWORK_BUF_SIZE
  BY DEF BatchLen
<1> HIDE DEF b, w
<1>5. /\ b \in [0 .. Len(list) -> Int] /\ \A i \in 1 .. Len(list) : b[i] = b[i-1] + w[i]
      /\ \A m \in 0 .. Len(list) : b[m] \in Nat
  BY <1>1, <1>2, <1>3, SumNonNegative DEF PartialSums
<1>6. ASSUME NEW i \in 1 .. n PROVE Size[list[i]] <= NETWORK_BUF_SIZE
  <2>1. i \in 1 .. Len(list) /\ i \in 0 .. Len(list) /\ i - 1 \in 0 .. Len(list) /\ n \in i .. Len(list)
    BY <1>2
  <2>2. b[i] <= b[n]
    BY <1>1, <1>2, <1>3, <2>1, SumGrows
  <2>3. b[i] = b[i-1] + w[i] /\ b[i] \in Nat /\ b[i-1] \in Nat /\ b[n] \in Nat
    BY <1>2, <1>5, <2>1
  <2>4. w[i] = Size[list[i]] /\ w[i] \in Nat
    BY <1>3, <2>1
  <2> QED BY <1>4, <2>2, <2>3, <2>4, BufAssumption
<1> QED BY <1>6

(* What a write has yet to read from the stack array is small.             *)
StackIsSmall ==
  write.buf = "stack" => \A i \in DOMAIN write.left : Size[write.left[i]] <= NETWORK_BUF_SIZE

LEMMA DoSendFits ==
  ASSUME NEW list \in Seq(Message), DoSend(list)
  PROVE  StackIsSmall'
<1>1. PICK d \in 0 .. Len(list) :
        LET rest == SubSeq(list, d+1, Len(list)) IN
        \/ write' = NoWrite
        \/ \E n \in 1 .. Len(rest) :
             /\ BatchLen(rest, n)
             /\ \E k \in 0 .. n :
                  write' = [buf |-> "stack", msgs |-> SubSeq(rest, 1, n), left |-> SubSeq(rest, k+1, n)]
        \/ \E left : write' = [buf |-> "front", msgs |-> <<Head(rest)>>, left |-> left]
  BY DEF DoSend
<1> DEFINE rest == SubSeq(list, d+1, Len(list))
<1>2. rest \in Seq(Message)
  BY SplitSeq
<1> HIDE DEF rest
<1>3. ASSUME NEW n \in 1 .. Len(rest), BatchLen(rest, n), NEW k \in 0 .. n,
             write' = [buf |-> "stack", msgs |-> SubSeq(rest, 1, n), left |-> SubSeq(rest, k+1, n)]
      PROVE  StackIsSmall'
  <2>1. \A i \in 1 .. n : Size[rest[i]] <= NETWORK_BUF_SIZE
    BY <1>2, <1>3, BatchFits
  <2>2. Len(rest) \in Nat /\ n \in Nat /\ k \in Nat /\ k <= n /\ n <= Len(rest)
    BY <1>2, LenProperties
  <2>3. /\ SubSeq(rest, k+1, n) \in Seq(Message)
        /\ Len(SubSeq(rest, k+1, n)) = IF k+1 <= n THEN n - (k+1) + 1 ELSE 0
        /\ \A i \in 1 .. n - (k+1) + 1 : SubSeq(rest, k+1, n)[i] = rest[(k+1) + i - 1]
    <3>1. k+1 \in Int /\ n \in Int /\ \A i \in k+1 .. n : rest[i] \in Message
      BY <1>2, <2>2, ElementOfSeq
    <3> QED BY <3>1, SubSeqProperties
  <2>4. ASSUME NEW i \in DOMAIN SubSeq(rest, k+1, n)
        PROVE  Size[SubSeq(rest, k+1, n)[i]] <= NETWORK_BUF_SIZE
    <3>1. i \in 1 .. Len(SubSeq(rest, k+1, n))
      BY <2>3, LenProperties
    <3>2. i \in 1 .. n - (k+1) + 1 /\ (k+1) + i - 1 \in 1 .. n
      BY <2>2, <2>3, <3>1
    <3> QED BY <2>1, <2>3, <3>2
  <2> QED BY <1>3, <2>4 DEF StackIsSmall
<1>4. ASSUME write'.buf # "stack" PROVE StackIsSmall'
  BY <1>4 DEF StackIsSmall
<1>5. write' = NoWrite => write'.buf # "stack"
  BY DEF NoWrite
<1>6. ASSUME NEW left, write' = [buf |-> "front", msgs |-> <<Head(rest)>>, left |-> left]
      PROVE  write'.buf # "stack"
  BY <1>6
<1> QED BY <1>1, <1>3, <1>4, <1>5, <1>6 DEF rest

(* Only messages that fit the array are ever torn. *)
LEMMA NextKeepsLarge ==
  ASSUME IInv, StackIsSmall, LargeMessagesIntact, [Next]_vars
  PROVE  StackIsSmall' /\ LargeMessagesIntact'
<1>0. /\ sendList \in Seq(Message) /\ posted \in Seq(Message)
      /\ write \in [buf : {"none", "stack", "front"}, msgs : Seq(Message), left : Seq(Message)]
  BY DEF IInv, TypeOK
<1>1. CASE UNCHANGED <<write, torn>>
  BY <1>1 DEF StackIsSmall, LargeMessagesIntact
<1>2. CASE RunPosted
  <2>1. torn' = torn /\ posted # <<>>
    BY <1>2 DEF RunPosted
  <2>2. CASE DoSend(Append(sendList, Head(posted)))
    <3>1. Append(sendList, Head(posted)) \in Seq(Message)
      BY <1>0, <2>1, HeadTailProperties, AppendProperties
    <3> QED BY <2>1, <2>2, <3>1, DoSendFits DEF LargeMessagesIntact
  <2> QED BY <1>1, <1>2, <2>1, <2>2 DEF RunPosted
<1>3. CASE Transfer
  <2>1. /\ write.left # <<>>
        /\ torn' \in IF write.buf = "stack" THEN {torn, torn \cup {Head(write.left)}} ELSE {torn}
        /\ write' = [write EXCEPT !.left = Tail(write.left)]
    BY <1>3 DEF Transfer
  <2>2. write.left \in Seq(Message) /\ write'.left = Tail(write.left) /\ write'.buf = write.buf
    BY <1>0, <2>1
  <2>3. /\ Tail(write.left) \in Seq(Message) /\ Len(Tail(write.left)) = Len(write.left) - 1
        /\ \A i \in 1 .. Len(Tail(write.left)) : Tail(write.left)[i] = write.left[i+1]
        /\ Len(write.left) \in Nat \ {0} /\ Head(write.left) = write.left[1]
    BY <2>1, <2>2, HeadTailProperties, EmptySeq
  <2>4. /\ DOMAIN write.left = 1 .. Len(write.left)
        /\ DOMAIN Tail(write.left) = 1 .. Len(Tail(write.left))
    BY <2>2, <2>3, LenProperties
  <2>5. \A i \in DOMAIN Tail(write.left) : i + 1 \in DOMAIN write.left
    BY <2>3, <2>4
  <2>6. StackIsSmall'
    BY <2>2, <2>3, <2>4, <2>5 DEF StackIsSmall
  <2>7. 1 \in DOMAIN write.left
    BY <2>3, <2>4
  <2>8. LargeMessagesIntact'
    BY <2>1, <2>3, <2>7 DEF StackIsSmall, LargeMessagesIntact
  <2> QED BY <2>6, <2>8
<1>4. CASE WriteDone
  <2> DEFINE list == IF write.buf = "front" THEN Tail(sendList) ELSE sendList
  <2>1. torn' = torn /\ write.buf # "none" /\ write.left = <<>>
    BY <1>4 DEF WriteDone
  <2>2. CASE DoSend(list)
    <3>1. list \in Seq(Message)
      <4>1. CASE write.buf = "front"
        <5>1. sendList # <<>>
          BY <4>1 DEF IInv, FrontStaysPut
        <5> QED BY <1>0, <4>1, <5>1, HeadTailProperties
      <4>2. CASE write.buf # "front"
        BY <1>0, <4>2
      <4> QED BY <4>1, <4>2
    <3> HIDE DEF list
    <3> QED BY <2>1, <2>2, <3>1, DoSendFits DEF LargeMessagesIntact
  <2>3. CASE write' = NoWrite
    BY <2>1, <2>3 DEF NoWrite, StackIsSmall, LargeMessagesIntact
  <2> QED BY <1>4, <2>2, <2>3 DEF WriteDone
<1>5. CASE WriteFails
  <2>1. torn' = torn /\ write' = NoWrite
    BY <1>5 DEF WriteFails
  <2> QED BY <2>1 DEF NoWrite, StackIsSmall, LargeMessagesIntact
<1> QED BY <1>1, <1>2, <1>3, <1>4, <1>5 DEF Next, SendMessage, vars

(* The stack array of doSend(), which is dead when the event loop goes on  *)
(* writing from it, never holds a message larger than it: only small       *)
(* messages can be torn.                                                   *)
THEOREM SendLargeIntact == Spec => []LargeMessagesIntact
<1>1. Init => StackIsSmall /\ LargeMessagesIntact
  BY DEF Init, NoWrite, StackIsSmall, LargeMessagesIntact
<1>2. IInv /\ StackIsSmall /\ LargeMessagesIntact /\ [Next]_vars => StackIsSmall' /\ LargeMessagesIntact'
  BY NextKeepsLarge
<1> QED BY <1>1, <1>2, SendInvariant, PTL DEF Spec
=============================================================================
