------------------------------ MODULE HttpProofs ------------------------------
(***************************************************************************)
(* Proofs about HttpServer, for any clients, streams of requests, handlers *)
(* and reads: every message that can be written is parsed as it was        *)
(* written; a request that comes in one read is handed to its handler as   *)
(* it was sent, and answered once.                                         *)
(*                                                                         *)
(* The parser is an automaton whose table is deterministic, so that a text *)
(* leads from one configuration to one other (Reaches).  The parts of a    *)
(* message are read one after the other: first line, headers, the header   *)
(* that frames the body, body.  Whatever follows a complete request, left  *)
(* over or in a later read, does not become a second one.                  *)
(* A URL's text is read likewise, part by part (Scans).                    *)
(***************************************************************************)
EXTENDS HttpServer, SequenceTheorems, WellFoundedInduction, TLAPS

(* Every set of natural numbers that is not empty has a least member. *)
LEMMA Least ==
  ASSUME NEW B, B \subseteq Nat, B # {}
  PROVE  \E n \in B : \A k \in B : n <= k
<1> DEFINE R == {ss \in Nat \X Nat : ss[1] < ss[2]}
<1>1. IsWellFoundedOn(R, Nat)
  BY NatLessThanWellFounded DEF OpToRel
<1>2. \A x, y \in Nat : <<y, x>> \in R <=> y < x
  OBVIOUS
<1>3. PICK n \in B : \A k \in B : ~ (<<k, n>> \in R)
  <2> HIDE DEF R
  <2> QED BY <1>1, WFMin
<1>4. \A k \in B : ~ (k < n)
  BY <1>2, <1>3
<1> QED BY <1>4

----------------------------------------
(* A parser and a text *)

(* The parser before a text. *)
Start(object, message) ==
  [o |-> object, m |-> message, result |-> "ParsingIncompleted", remainSize |-> 0]

(* Parse defines a function by recursion over the text: f is that function
   for the first n characters ... *)
Steps(f, table, object, message, text, n) ==
  f = [i \in 0 .. n |-> IF i = 0 THEN {Start(object, message)}
                        ELSE UNION {Consume(table, p, text[i]) : p \in f[i - 1]}]

(* ... and there is one, whatever the text. *)
LEMMA StepsExist ==
  ASSUME NEW table, NEW object, NEW message, NEW text, NEW n \in Nat
  PROVE  \E f : Steps(f, table, object, message, text, n)
<1> DEFINE B == {m \in 0 .. n : ~ \E f : Steps(f, table, object, message, text, m)}
<1> SUFFICES ASSUME B # {} PROVE FALSE
  <2>1. n \in 0 .. n
    OBVIOUS
  <2> QED BY <2>1
<1>1. PICK m \in B : \A k \in B : m <= k
  <2>1. B \subseteq Nat
    OBVIOUS
  <2> HIDE DEF B
  <2> QED BY <2>1, Least
<1>2. m \in 0 .. n /\ ~ \E f : Steps(f, table, object, message, text, m)
  OBVIOUS
<1>3. m # 0
  <2>1. CASE m = 0
    <3> DEFINE f == [i \in 0 .. 0 |-> {Start(object, message)}]
    <3>1. \A i \in 0 .. 0 : f[i] = IF i = 0 THEN {Start(object, message)}
                                   ELSE UNION {Consume(table, p, text[i]) : p \in f[i - 1]}
      OBVIOUS
    <3>2. f = [i \in 0 .. 0 |-> f[i]]
      OBVIOUS
    <3> HIDE DEF f
    <3>3. Steps(f, table, object, message, text, 0)
      BY <3>1, <3>2 DEF Steps
    <3> QED BY <1>2, <2>1, <3>3
  <2> QED BY <2>1
<1>4. m - 1 \in 0 .. n /\ m \in 1 .. n /\ m - 1 \notin B
  <2>1. m - 1 \in 0 .. n /\ m \in 1 .. n
    BY <1>2, <1>3
  <2> QED BY <1>1, <2>1
<1>5. PICK g : Steps(g, table, object, message, text, m - 1)
  BY <1>4
<1> HIDE DEF B
<1> DEFINE f == [i \in 0 .. m |-> IF i = m THEN UNION {Consume(table, p, text[m]) : p \in g[m - 1]}
                                  ELSE g[i]]
<1>6. \A i \in 0 .. m - 1 : g[i] = IF i = 0 THEN {Start(object, message)}
                                   ELSE UNION {Consume(table, p, text[i]) : p \in g[i - 1]}
  BY <1>5 DEF Steps
<1>7. ASSUME NEW i \in 0 .. m
      PROVE  f[i] = IF i = 0 THEN {Start(object, message)}
                    ELSE UNION {Consume(table, p, text[i]) : p \in f[i - 1]}
  <2>1. CASE i = m
    <3>1. f[i] = UNION {Consume(table, p, text[i]) : p \in g[i - 1]}
      BY <2>1
    <3>2. f[i - 1] = g[i - 1]
      BY <1>4, <2>1
    <3>3. i # 0
      BY <1>4, <2>1
    <3> HIDE DEF f
    <3> QED BY <3>1, <3>2, <3>3
  <2>2. CASE i # m
    <3>1. i \in 0 .. m - 1
      BY <1>4, <2>2
    <3>2. f[i] = g[i]
      BY <2>2
    <3>3. i # 0 => f[i - 1] = g[i - 1]
      BY <1>4, <2>2
    <3> HIDE DEF f
    <3> QED BY <1>6, <3>1, <3>2, <3>3
  <2> QED BY <2>1, <2>2
<1>8. f = [i \in 0 .. m |-> f[i]]
  OBVIOUS
<1> HIDE DEF f
<1>9. Steps(f, table, object, message, text, m)
  BY <1>7, <1>8 DEF Steps
<1> QED BY <1>2, <1>9

(* What a parser goes through: one set of configurations after another. *)
Passes(g, table, o, m, text) ==
  /\ g[0] = {Start(o, m)} /\ Parse(table, o, m, text) = g[Len(text)]
  /\ \A i \in 1 .. Len(text) : g[i] = UNION {Consume(table, q, text[i]) : q \in g[i - 1]}

(* It goes through such sets, whatever the text. *)
LEMMA ParseSteps ==
  ASSUME NEW table, NEW o, NEW m, NEW text, Len(text) \in Nat
  PROVE  \E g : Passes(g, table, o, m, text)
<1> DEFINE N == Len(text)
<1>1. PICK f : Steps(f, table, o, m, text, N)
  BY StepsExist
<1>2. \E g : Steps(g, table, o, m, text, N) /\ Parse(table, o, m, text) = g[N]
  BY <1>1 DEF Parse, Steps, Start
<1>3. PICK g : Steps(g, table, o, m, text, N) /\ Parse(table, o, m, text) = g[N]
  BY <1>2
<1>4. /\ g[0] = {Start(o, m)}
      /\ \A i \in 1 .. N : g[i] = UNION {Consume(table, q, text[i]) : q \in g[i - 1]}
  <2>1. 0 \in 0 .. N /\ \A i \in 1 .. N : i \in 0 .. N /\ i # 0
    OBVIOUS
  <2>2. \A i \in 0 .. N : g[i] = IF i = 0 THEN {Start(o, m)}
                                 ELSE UNION {Consume(table, q, text[i]) : q \in g[i - 1]}
    BY <1>3 DEF Steps
  <2> QED BY <2>1, <2>2
<1>5. Passes(g, table, o, m, text)
  BY <1>3, <1>4 DEF Passes
<1> QED BY <1>5

----------------------------------------
(* Texts and what they lead to *)

(* What texts are made of: the words a message is described with, and the
   ones that its text has of its own. *)
Symbols ==
  STRING \cup AnyClass \cup {Digits[i] : i \in 1 .. 16}
    \cup {"name", "value", "Content-Length", "Transfer-Encoding", "chunked"}

Strings == Seq(Symbols)

USE DEF Strings

(* What is appended to the beginning of a sequence makes a longer one. *)
LEMMA Grow ==
  ASSUME NEW S, NEW s \in Seq(S), NEW i \in 1 .. Len(s), NEW T, S \subseteq T, NEW a \in Seq(T)
  PROVE  Append(a \o SubSeq(s, 1, i - 1), s[i]) = a \o SubSeq(s, 1, i)
<1>1. Len(s) \in Nat /\ i \in Nat /\ i - 1 \in Nat /\ i - 1 <= Len(s)
  BY LenProperties
<1>2. SubSeq(s, 1, i) \in Seq(S) /\ Len(SubSeq(s, 1, i)) = i /\ \A k \in 1 .. i : SubSeq(s, 1, i)[k] = s[k]
  BY <1>1, SubSeqProperties
<1>3. /\ SubSeq(s, 1, i - 1) \in Seq(S) /\ Len(SubSeq(s, 1, i - 1)) = i - 1
      /\ \A k \in 1 .. i - 1 : SubSeq(s, 1, i - 1)[k] = s[k]
  BY <1>1, SubSeqProperties
<1>4. PICK x, y : x = SubSeq(s, 1, i) /\ y = SubSeq(s, 1, i - 1)
  OBVIOUS
<1>5. s[i] \in S
  BY ElementOfSeq
<1>6. x \in Seq(T) /\ y \in Seq(T) /\ s[i] \in T
  BY <1>2, <1>3, <1>4, <1>5
<1>7. Len(x) = i /\ Len(y) = i - 1 /\ (\A k \in 1 .. i : x[k] = s[k]) /\ (\A k \in 1 .. i - 1 : y[k] = s[k])
  BY <1>2, <1>3, <1>4
<1>8. x = Append(y, s[i])
  <2>1. PICK v, z : v = s[i] /\ z = Append(y, v)
    OBVIOUS
  <2>2. z \in Seq(T) /\ Len(z) = i /\ z[i] = v /\ \A k \in 1 .. i - 1 : z[k] = y[k]
    BY <1>1, <1>6, <1>7, <2>1, AppendProperties
  <2>3. \A k \in 1 .. i : x[k] = z[k]
    BY <1>1, <1>7, <2>1, <2>2
  <2> QED BY <1>6, <1>7, <2>1, <2>2, <2>3, SeqEqual
<1>9. a \o Append(y, s[i]) = Append(a \o y, s[i])
  BY <1>6
<1> QED BY <1>4, <1>8, <1>9

(* A word of a described message can stand in a text. *)
LEMMA WordsAreTexts == \A s \in Seq(STRING) : s \in Strings
<1>1. STRING \subseteq Symbols
  BY DEF Symbols
<1> QED BY <1>1, SeqMonotonic

(* The trivial parts of a sequence. *)
LEMMA Whole ==
  ASSUME NEW S, NEW s \in Seq(S), NEW a \in Seq(S)
  PROVE  /\ SubSeq(s, 1, 0) = <<>> /\ a \o <<>> = a /\ <<>> \o a = a /\ SubSeq(s, 1, Len(s)) = s
<1>1. SubSeq(s, 1, Len(s)) = s
  BY LenProperties, SubSeqProperties
<1>2. SubSeq(s, 1, 0) = <<>>
  BY SubSeqProperties
<1> QED BY <1>1, <1>2

(* A text leads from one configuration to another. *)
Reaches(table, p, s, q) ==
  \E f : /\ f[0] = p /\ f[Len(s)] = q
         /\ \A i \in 1 .. Len(s) : Consume(table, f[i - 1], s[i]) = {f[i]}

(* No character leads nowhere, ... *)
LEMMA ReachesNone ==
  ASSUME NEW table, NEW p
  PROVE  Reaches(table, p, <<>>, p)
<1> DEFINE f == [i \in {0} |-> p]
<1>1. f[0] = p /\ Len(<<>>) = 0
  OBVIOUS
<1> HIDE DEF f
<1>2. f[0] = p /\ f[Len(<<>>)] = p /\ \A i \in 1 .. Len(<<>>) : Consume(table, f[i - 1], <<>>[i]) = {f[i]}
  BY <1>1
<1> QED BY <1>2 DEF Reaches

(* ... one character leads where Consume says, ... *)
LEMMA ReachesOne ==
  ASSUME NEW table, NEW p, NEW c, NEW q, Consume(table, p, c) = {q}
  PROVE  Reaches(table, p, <<c>>, q)
<1> DEFINE f == [i \in {0, 1} |-> IF i = 0 THEN p ELSE q]
<1>1. f[0] = p /\ f[1] = q /\ Len(<<c>>) = 1 /\ <<c>>[1] = c
  OBVIOUS
<1> HIDE DEF f
<1>2. \A i \in 1 .. Len(<<c>>) : i = 1
  BY <1>1
<1>3. \A i \in 1 .. Len(<<c>>) : Consume(table, f[i - 1], <<c>>[i]) = {f[i]}
  <2> SUFFICES ASSUME NEW i \in 1 .. Len(<<c>>) PROVE Consume(table, f[i - 1], <<c>>[i]) = {f[i]}
    OBVIOUS
  <2>1. i = 1 /\ i - 1 = 0
    BY <1>2
  <2> QED BY <1>1, <2>1
<1> QED BY <1>1, <1>3 DEF Reaches

(* ... and two texts lead where the second does from where the first does. *)
LEMMA ReachesThen ==
  ASSUME NEW table, NEW p, NEW q, NEW r, NEW s \in Strings, NEW t \in Strings,
         Reaches(table, p, s, q), Reaches(table, q, t, r)
  PROVE  Reaches(table, p, s \o t, r)
<1>1. PICK f : /\ f[0] = p /\ f[Len(s)] = q
               /\ \A i \in 1 .. Len(s) : Consume(table, f[i - 1], s[i]) = {f[i]}
  BY DEF Reaches
<1>2. PICK g : /\ g[0] = q /\ g[Len(t)] = r
               /\ \A i \in 1 .. Len(t) : Consume(table, g[i - 1], t[i]) = {g[i]}
  BY DEF Reaches
<1> DEFINE a == Len(s)
           b == Len(t)
           h == [i \in 0 .. a + b |-> IF i <= a THEN f[i] ELSE g[i - a]]
<1>3. a \in Nat /\ b \in Nat
  BY LenProperties
<1>4. /\ Len(s \o t) = a + b
      /\ \A i \in 1 .. a + b : (s \o t)[i] = IF i <= a THEN s[i] ELSE t[i - a]
  BY ConcatProperties
<1>5. h[0] = p
  BY <1>1, <1>3
<1>6. h[a + b] = r
  <2>1. CASE b = 0
    BY <1>1, <1>2, <1>3, <2>1
  <2>2. CASE b # 0
    <3>1. ~ (a + b <= a) /\ (a + b) - a = b /\ a + b \in 0 .. a + b
      BY <1>3, <2>2
    <3>2. h[a + b] = g[(a + b) - a]
      BY <3>1
    <3> HIDE DEF h
    <3> QED BY <1>2, <3>1, <3>2
  <2> QED BY <2>1, <2>2
<1>7. ASSUME NEW i \in 1 .. a + b
      PROVE  Consume(table, h[i - 1], (s \o t)[i]) = {h[i]}
  <2>0. i \in 0 .. a + b /\ i - 1 \in 0 .. a + b
    BY <1>3
  <2>1. CASE i <= a
    <3>1. i \in 1 .. a /\ i - 1 <= a
      BY <1>3, <2>1
    <3>2. h[i] = f[i] /\ h[i - 1] = f[i - 1]
      BY <2>0, <2>1, <3>1
    <3>3. (s \o t)[i] = s[i]
      BY <1>4, <2>1
    <3> HIDE DEF h
    <3> QED BY <1>1, <3>1, <3>2, <3>3
  <2>2. CASE ~ (i <= a)
    <3>1. i - a \in 1 .. b /\ (i - a) - 1 = (i - 1) - a
      BY <1>3, <2>2
    <3>2. h[i] = g[i - a]
      BY <2>0, <2>2
    <3>3. h[i - 1] = g[(i - a) - 1]
      <4>1. CASE i - 1 = a
        <5>1. h[i - 1] = f[i - 1] /\ (i - a) - 1 = 0
          BY <1>3, <2>0, <4>1
        <5> HIDE DEF h
        <5> QED BY <1>1, <1>2, <4>1, <5>1
      <4>2. CASE i - 1 # a
        <5>1. ~ (i - 1 <= a)
          BY <1>3, <2>2, <4>2
        <5>2. h[i - 1] = g[(i - 1) - a]
          BY <2>0, <5>1
        <5> HIDE DEF h
        <5> QED BY <3>1, <5>2
      <4> QED BY <4>1, <4>2
    <3>4. (s \o t)[i] = t[i - a]
      BY <1>4, <2>2
    <3> HIDE DEF h
    <3>5. Consume(table, g[(i - a) - 1], t[i - a]) = {g[i - a]}
      BY <1>2, <3>1
    <3> QED BY <3>2, <3>3, <3>4, <3>5
  <2> QED BY <2>1, <2>2
<1> HIDE DEF h
<1>8. \A i \in 1 .. Len(s \o t) : Consume(table, h[i - 1], (s \o t)[i]) = {h[i]}
  BY <1>4, <1>7
<1>9. h[Len(s \o t)] = r
  BY <1>4, <1>6
<1> QED BY <1>5, <1>8, <1>9 DEF Reaches

(* A parser that reaches a configuration with a text parses it into that. *)
LEMMA ParseReaches ==
  ASSUME NEW table, NEW o, NEW m, NEW text \in Strings, NEW q, Reaches(table, Start(o, m), text, q)
  PROVE  Parse(table, o, m, text) = {q}
<1> DEFINE N == Len(text)
<1>0. N \in Nat
  BY LenProperties
<1>1. PICK g : Passes(g, table, o, m, text)
  BY <1>0, ParseSteps
<1>2. /\ g[0] = {Start(o, m)} /\ Parse(table, o, m, text) = g[N]
      /\ \A i \in 1 .. N : g[i] = UNION {Consume(table, x, text[i]) : x \in g[i - 1]}
  BY <1>1 DEF Passes
<1>3. PICK f : /\ f[0] = Start(o, m) /\ f[N] = q
               /\ \A i \in 1 .. N : Consume(table, f[i - 1], text[i]) = {f[i]}
  BY DEF Reaches
<1> DEFINE B == {i \in 0 .. N : g[i] # {f[i]}}
<1>4. B = {}
  <2> SUFFICES ASSUME B # {} PROVE FALSE
    OBVIOUS
  <2>1. PICK k \in B : \A j \in B : k <= j
    <3>1. B \subseteq Nat
      OBVIOUS
    <3> HIDE DEF B
    <3> QED BY <3>1, Least
  <2>2. k \in 0 .. N /\ g[k] # {f[k]}
    OBVIOUS
  <2>3. k # 0
    BY <1>2, <1>3, <2>2
  <2>4. k \in 1 .. N /\ k - 1 \in 0 .. N /\ ~ (k <= k - 1)
    BY <1>0, <2>2, <2>3
  <2>5. g[k - 1] = {f[k - 1]}
    BY <2>1, <2>4
  <2>6. g[k] = UNION {Consume(table, x, text[k]) : x \in {f[k - 1]}}
    BY <1>2, <2>4, <2>5
  <2>7. g[k] = Consume(table, f[k - 1], text[k])
    BY <2>6
  <2> QED BY <1>3, <2>2, <2>4, <2>7
<1>5. N \in 0 .. N
  BY <1>0
<1>6. g[N] = {f[N]}
  BY <1>4, <1>5
<1> QED BY <1>2, <1>3, <1>6

----------------------------------------
(* The tables of the parsers *)

(* No two rules fit one state and one character ... *)
Deterministic(rules) ==
  \A r, s \in rules : \A x \in r.on : r.state = s.state /\ x \in s.on => r = s

(* ... and the table has the one that fits. *)
Knows(table, rules) == \A r \in rules : \A x \in r.on : table[r.state][x] = {r}

(* So it is with every table of rules that are deterministic. *)
LEMMA TableKnows ==
  ASSUME NEW rules, Deterministic(rules), \A r \in rules : r.on \subseteq AnyClass
  PROVE  Knows(Table(rules), rules)
<1> SUFFICES ASSUME NEW r \in rules, NEW x \in r.on PROVE Table(rules)[r.state][x] = {r}
  BY DEF Knows
<1>1. r.state \in {s.state : s \in rules} /\ x \in AnyClass
  OBVIOUS
<1>2. Table(rules)[r.state][x] = {s \in rules : s.state = r.state /\ x \in s.on}
  BY <1>1 DEF Table
<1>3. \A s \in rules : s.state = r.state /\ x \in s.on => s = r
  BY DEF Deterministic
<1> QED BY <1>2, <1>3

(* The classes that meet in a state. *)
LEMMA Classes ==
  /\ CR \notin Token /\ SP \notin Token /\ TAB \notin Token /\ ":" \notin Token
  /\ CR \in Control /\ TAB \in Control /\ LF \in Control
  /\ CR \notin Alnum /\ LF \notin Alnum /\ SP \notin Alnum /\ SEMI \notin Alnum /\ ":" \notin Alnum /\ "=" \notin Alnum
  /\ CR # LF /\ CR # SP /\ CR # TAB /\ CR # SEMI /\ CR # "=" /\ CR # ":" /\ CR # "." /\ SP # TAB /\ SP # SEMI
  /\ SP # "=" /\ SP # ":" /\ CR # "alpha" /\ CR # "digit" /\ SP # "." /\ SP # "digit"
<1>1. CR \notin Token /\ SP \notin Token /\ TAB \notin Token /\ ":" \notin Token
  BY DEF Token, Special, Control
<1> QED BY <1>1 DEF Control, Alnum, CR, LF, SP, TAB, SEMI

(* The rules of each part of a message are (Consume of HttpRequestParser
   and HttpResponseParser). *)
LEMMA LineRules == Deterministic(RequestLine)
  BY Classes DEF Deterministic, RequestLine, Rule

(* Those of a request's version ... *)
LEMMA VersionRules == Deterministic(RequestVersion)
  BY Classes DEF Deterministic, RequestVersion, Rule

(* ... and of a response's. *)
LEMMA ResponseVersionRules == Deterministic(ResponseVersion)
  BY Classes DEF Deterministic, ResponseVersion, Rule

(* Those of a status line. *)
LEMMA StatusRules == Deterministic(StatusLine)
  BY Classes DEF Deterministic, StatusLine, Rule

(* Those of header lines. *)
LEMMA HeaderRules == Deterministic(HeaderLines)
  BY Classes DEF Deterministic, HeaderLines, Rule

(* Those of bodies. *)
LEMMA BodyRules == Deterministic(Body)
  BY Classes DEF Deterministic, Body, Rule

(* Those of trailers and of chunks. *)
LEMMA ChunkRules == Deterministic(Chunks)
  BY Classes DEF Deterministic, Chunks, Rule

(* The states that the rules of each part leave, here those of a request's
   line; no two parts of one parser share a state. *)
LineStates == {"RequestMethodStart", "RequestMethod", "RequestUriStart", "RequestUri"}

(* The states of a request's version ... *)
VersionStates ==
  {"RequestHttpVersion_h", "RequestHttpVersion_majorStart", "RequestHttpVersion_major",
   "RequestHttpVersion_minorStart", "RequestHttpVersion_minor", "ResponseHttpVersion_newLine"}

(* ... and of a response's. *)
ResponseVersionStates ==
  {"ResponseStatusStart", "ResponseHttpVersion_majorStart", "ResponseHttpVersion_major",
   "ResponseHttpVersion_minorStart", "ResponseHttpVersion_minor"}

(* The states of a status line. *)
StatusStates ==
  {"ResponseHttpVersion_statusCodeStart", "ResponseHttpVersion_statusCode", "ResponseHttpVersion_statusTextStart",
   "ResponseHttpVersion_statusText", "ResponseHttpVersion_newLine"}

(* The states of header lines. *)
HeaderStates ==
  {"HeaderLineStart", "HeaderLws", "HeaderName", "SpaceBeforeHeaderValue", "HeaderValue",
   "ExpectingNewline_2", "ExpectingNewline_3"}

(* The states of bodies. *)
BodyStates ==
  {"Post", "ChunkSize", "ChunkExtensionName", "ChunkExtensionValue", "ChunkSizeNewLine",
   "ChunkSizeNewLine_2", "ChunkSizeNewLine_3"}

(* The states of trailers and of chunks. *)
ChunkStates ==
  {"ChunkTrailerName", "ChunkTrailerValue", "ChunkData", "ChunkDataNewLine_1", "ChunkDataNewLine_2"}

(* Each part's rules leave that part's states. *)
LEMMA PartsApart ==
  /\ \A r \in RequestLine : r.state \in LineStates
  /\ \A r \in RequestVersion : r.state \in VersionStates
  /\ \A r \in ResponseVersion : r.state \in ResponseVersionStates
  /\ \A r \in StatusLine : r.state \in StatusStates
  /\ \A r \in HeaderLines : r.state \in HeaderStates
  /\ \A r \in Body : r.state \in BodyStates
  /\ \A r \in Chunks : r.state \in ChunkStates
<1>1. \A r \in RequestLine : r.state \in LineStates
  BY DEF RequestLine, LineStates, Rule
<1>2. \A r \in RequestVersion : r.state \in VersionStates
  BY DEF RequestVersion, VersionStates, Rule
<1>3. \A r \in ResponseVersion : r.state \in ResponseVersionStates
  BY DEF ResponseVersion, ResponseVersionStates, Rule
<1>4. \A r \in StatusLine : r.state \in StatusStates
  BY DEF StatusLine, StatusStates, Rule
<1>5. \A r \in HeaderLines : r.state \in HeaderStates
  BY DEF HeaderLines, HeaderStates, Rule
<1>6. \A r \in Body : r.state \in BodyStates
  BY DEF Body, BodyStates, Rule
<1>7. \A r \in Chunks : r.state \in ChunkStates
  BY DEF Chunks, ChunkStates, Rule
<1> QED BY <1>1, <1>2, <1>3, <1>4, <1>5, <1>6, <1>7

(* Two parts whose states are apart are deterministic together. *)
LEMMA Apart ==
  ASSUME NEW rules, NEW others, NEW A, NEW B, A \cap B = {},
         Deterministic(rules), Deterministic(others),
         \A r \in rules : r.state \in A, \A r \in others : r.state \in B
  PROVE  Deterministic(rules \cup others) /\ \A r \in rules \cup others : r.state \in A \cup B
BY DEF Deterministic

(* Both parsers are deterministic: a table has one rule at most for a
   state and a character. *)
LEMMA TablesKnow == Knows(RequestTable, RequestRules) /\ Knows(ResponseTable, ResponseRules)
<1>1. Deterministic(Body \cup Chunks) /\ \A r \in Body \cup Chunks : r.state \in BodyStates \cup ChunkStates
  <2>1. BodyStates \cap ChunkStates = {}
    BY DEF BodyStates, ChunkStates
  <2> QED BY <2>1, Apart, PartsApart, BodyRules, ChunkRules
<1>2. PICK bodies, states : bodies = Body \cup Chunks /\ states = BodyStates \cup ChunkStates
  OBVIOUS
<1>3. /\ Deterministic(HeaderLines \cup bodies)
      /\ \A r \in HeaderLines \cup bodies : r.state \in HeaderStates \cup states
  <2>1. HeaderStates \cap states = {}
    BY <1>2 DEF HeaderStates, BodyStates, ChunkStates
  <2> QED BY <1>1, <1>2, <2>1, Apart, PartsApart, HeaderRules
<1>4. PICK rest, behind : rest = HeaderLines \cup bodies /\ behind = HeaderStates \cup states
  OBVIOUS
<1>5. Deterministic(RequestRules)
  <2>1. VersionStates \cap behind = {}
    BY <1>2, <1>4 DEF HeaderStates, BodyStates, ChunkStates, VersionStates
  <2>2. /\ Deterministic(RequestVersion \cup rest)
        /\ \A r \in RequestVersion \cup rest : r.state \in VersionStates \cup behind
    BY <1>3, <1>4, <2>1, Apart, PartsApart, VersionRules
  <2>3. PICK more, names : more = RequestVersion \cup rest /\ names = VersionStates \cup behind
    OBVIOUS
  <2>4. LineStates \cap names = {}
    BY <1>2, <1>4, <2>3 DEF HeaderStates, BodyStates, ChunkStates, VersionStates, LineStates
  <2>5. Deterministic(RequestLine \cup more)
    BY <2>2, <2>3, <2>4, Apart, PartsApart, LineRules
  <2>6. RequestRules = RequestLine \cup more
    BY <1>2, <1>4, <2>3 DEF RequestRules
  <2> QED BY <2>5, <2>6
<1>6. Deterministic(ResponseRules)
  <2>1. StatusStates \cap behind = {}
    BY <1>2, <1>4 DEF HeaderStates, BodyStates, ChunkStates, StatusStates
  <2>2. /\ Deterministic(StatusLine \cup rest)
        /\ \A r \in StatusLine \cup rest : r.state \in StatusStates \cup behind
    BY <1>3, <1>4, <2>1, Apart, PartsApart, StatusRules
  <2>3. PICK more, names : more = StatusLine \cup rest /\ names = StatusStates \cup behind
    OBVIOUS
  <2>4. ResponseVersionStates \cap names = {}
    BY <1>2, <1>4, <2>3 DEF HeaderStates, BodyStates, ChunkStates, StatusStates, ResponseVersionStates
  <2>5. Deterministic(ResponseVersion \cup more)
    BY <2>2, <2>3, <2>4, Apart, PartsApart, ResponseVersionRules
  <2>6. ResponseRules = ResponseVersion \cup more
    BY <1>2, <1>4, <2>3 DEF ResponseRules, ResponseHeaderLines, ResponseBody, ResponseChunks
  <2> QED BY <2>5, <2>6
<1>7. /\ \A r \in RequestRules : r.on \subseteq AnyClass
      /\ \A r \in ResponseRules : r.on \subseteq AnyClass
  <2>1. /\ Token \subseteq AnyClass /\ Char \subseteq AnyClass /\ Control \subseteq AnyClass /\ Alnum \subseteq AnyClass
        /\ {CR, LF, SP, TAB, SEMI, HTTP, ".", ":", "=", "digit", "alpha"} \subseteq AnyClass
    <3>1. Token \subseteq AnyClass /\ Char \subseteq AnyClass /\ Control \subseteq AnyClass
      BY DEF Token, Char, AnyClass
    <3>2. Alnum \subseteq AnyClass /\ {".", "digit", "alpha"} \subseteq AnyClass
      BY DEF AnyClass, Alnum, Mark
    <3>3. {SP, TAB, SEMI, HTTP, ":", "="} \subseteq AnyClass
      BY DEF AnyClass, Special
    <3>4. {CR, LF} \subseteq AnyClass
      BY DEF AnyClass, Control
    <3> QED BY <3>1, <3>2, <3>3, <3>4
  <2>2. \A r \in RequestLine : r.on \subseteq AnyClass
    BY <2>1 DEF RequestLine, Rule
  <2>3. \A r \in RequestVersion : r.on \subseteq AnyClass
    BY <2>1 DEF RequestVersion, Rule
  <2>4. \A r \in ResponseVersion : r.on \subseteq AnyClass
    BY <2>1 DEF ResponseVersion, Rule
  <2>5. \A r \in StatusLine : r.on \subseteq AnyClass
    BY <2>1 DEF StatusLine, Rule
  <2>6. \A r \in HeaderLines : r.on \subseteq AnyClass
    BY <2>1 DEF HeaderLines, Rule
  <2>7. \A r \in Body : r.on \subseteq AnyClass
    BY <2>1 DEF Body, Rule
  <2>8. \A r \in Chunks : r.on \subseteq AnyClass
    BY <2>1 DEF Chunks, Rule
  <2> QED BY <2>2, <2>3, <2>4, <2>5, <2>6, <2>7, <2>8
          DEF RequestRules, ResponseRules, ResponseHeaderLines, ResponseBody, ResponseChunks
<1> QED BY <1>5, <1>6, <1>7, TableKnows DEF RequestTable, ResponseTable

----------------------------------------
(* Characters *)

(* The ten digits. *)
LEMMA DigitNames == DOMAIN DigitOf = {"0", "1", "2", "3", "4", "5", "6", "7", "8", "9"}
<1>1. DOMAIN DigitOf = {Digits[i] : i \in 1 .. 10}
  BY DEF DigitOf, ValueOf
<1>2. \A i \in 1 .. 10 : i \in {1, 2, 3, 4, 5, 6, 7, 8, 9, 10}
  OBVIOUS
<1> QED BY <1>1, <1>2 DEF Digits

(* A digit has its value, to the base of ten and of sixteen. *)
LEMMA DigitValues ==
  /\ \A n \in 0 .. 9 : Digits[n + 1] \in DOMAIN DigitOf /\ DigitOf[Digits[n + 1]] = n /\ Digits[n + 1] \in Symbols
  /\ \A n \in 0 .. 15 : Digits[n + 1] \in DOMAIN HexOf /\ HexOf[Digits[n + 1]] = n /\ Digits[n + 1] \in Symbols
<1>1. ASSUME NEW i \in 1 .. 16, NEW j \in 1 .. 16, Digits[i] = Digits[j] PROVE i = j
  <2>1. i \in {1, 2, 3, 4, 5, 6, 7, 8, 9, 10, 11, 12, 13, 14, 15, 16}
    OBVIOUS
  <2>2. j \in {1, 2, 3, 4, 5, 6, 7, 8, 9, 10, 11, 12, 13, 14, 15, 16}
    OBVIOUS
  <2> QED BY <1>1, <2>1, <2>2 DEF Digits
<1>2. \A i \in 1 .. 16 : Digits[i] \in Symbols
  BY DEF Symbols
<1>3. ASSUME NEW base \in {10, 16}, NEW n \in 0 .. base - 1
      PROVE  Digits[n + 1] \in DOMAIN ValueOf(base) /\ ValueOf(base)[Digits[n + 1]] = n
  <2>1. n + 1 \in 1 .. base /\ n + 1 \in 1 .. 16
    OBVIOUS
  <2>2. Digits[n + 1] \in {Digits[i] : i \in 1 .. base}
    BY <2>1
  <2>3. ValueOf(base)[Digits[n + 1]] = CHOOSE k \in 0 .. base - 1 : Digits[k + 1] = Digits[n + 1]
    BY <2>2 DEF ValueOf
  <2>4. \A k \in 0 .. base - 1 : Digits[k + 1] = Digits[n + 1] => k = n
    <3> SUFFICES ASSUME NEW k \in 0 .. base - 1, Digits[k + 1] = Digits[n + 1] PROVE k = n
      OBVIOUS
    <3>1. k + 1 \in 1 .. 16
      OBVIOUS
    <3>2. k + 1 = n + 1
      BY <1>1, <2>1, <3>1
    <3> QED BY <3>2
  <2> QED BY <2>2, <2>3, <2>4 DEF ValueOf
<1>4. \A n \in 0 .. 15 : n + 1 \in 1 .. 16
  OBVIOUS
<1> QED BY <1>2, <1>3, <1>4 DEF DigitOf, HexOf

(* The class of a character that stands for itself, and of a word. *)
LEMMA ClassOf ==
  /\ \A c \in AnyClass : Class(c) = c
  /\ \A c \in DOMAIN DigitOf : Class(c) = "digit"
  /\ \A c : Class(c) \in AnyClass
  /\ Class("name") = "alpha" /\ Class("value") = "alpha" /\ Class("chunked") = "alpha"
  /\ Class("Content-Length") = "alpha" /\ Class("Transfer-Encoding") = "alpha"
  /\ \A n \in 0 .. 15 : Class(Digits[n + 1]) \in Alnum
<1>1. \A c \in DOMAIN DigitOf : c \notin AnyClass
  BY DigitNames DEF AnyClass, Control, Special, Mark, CR, LF, TAB, NUL, SP, SEMI, HTTP
<1>2. "digit" \in AnyClass /\ "alpha" \in AnyClass
  BY DEF AnyClass
<1>3. /\ \A c \in AnyClass : Class(c) = c
      /\ \A c \in DOMAIN DigitOf : Class(c) = "digit"
      /\ \A c : c \notin DOMAIN DigitOf /\ c \notin AnyClass => Class(c) = "alpha"
  BY <1>1 DEF Class
<1>4. \A c : Class(c) \in AnyClass
  BY <1>2 DEF Class
<1>5. \A c \in {"name", "value", "chunked", "Content-Length", "Transfer-Encoding", "a", "b", "c", "d", "e", "f"} : c \notin DOMAIN DigitOf /\ c \notin AnyClass
  BY DigitNames DEF AnyClass, Control, Special, Mark, CR, LF, TAB, NUL, SP, SEMI, HTTP
<1>6. ASSUME NEW n \in 0 .. 15 PROVE Class(Digits[n + 1]) \in Alnum
  <2>1. CASE n \in 0 .. 9
    BY <1>3, <2>1, DigitValues DEF Alnum
  <2>2. CASE n \notin 0 .. 9
    BY <2>2, <1>3, <1>5 DEF Digits, Alnum
  <2> QED BY <2>1, <2>2
<1> QED BY <1>3, <1>4, <1>5, <1>6

----------------------------------------
(* What one character does *)

(* A parser's object. *)
Object(state, size, str, chunk, chunked) ==
  [state |-> state, contentSize |-> size, chunkSizeStr |-> str, chunkSize |-> chunk, chunked |-> chunked]

(* A character that a rule fits does what the rule says. *)
LEMMA FitsOne ==
  ASSUME NEW table, NEW rules, Knows(table, rules),
         NEW state, NEW on, NEW next, NEW do, Rule(state, on, next, do) \in rules,
         NEW size, NEW str, NEW chunk, NEW chunked, NEW m, NEW c, Class(c) \in on
  PROVE  Consume(table, Start(Object(state, size, str, chunk, chunked), m), c)
           = {Do(do, Start(Object(next, size, str, chunk, chunked), m), c)}
<1> DEFINE p == Start(Object(state, size, str, chunk, chunked), m)
           r == Rule(state, on, next, do)
<1>1. r.state = state /\ r.on = on /\ r.next = next /\ r.do = do
  BY DEF Rule
<1>2. table[state][Class(c)] = {r}
  BY <1>1 DEF Knows
<1>3. p.o.state = state /\ p.result = "ParsingIncompleted"
  BY DEF Start, Object
<1>4. Goto(p, next) = Start(Object(next, size, str, chunk, chunked), m)
  BY DEF Goto, Start, Object
<1> HIDE DEF p, r
<1>5. Consume(table, p, c) = {Do(x.do, Goto(p, x.next), c) : x \in {r}}
  BY <1>2, <1>3 DEF Consume
<1>6. Consume(table, p, c) = {Do(r.do, Goto(p, r.next), c)}
  BY <1>5
<1> QED BY <1>1, <1>4, <1>6 DEF p

(* Configurations that each lead to the next one. *)
LEMMA ReachesAll ==
  ASSUME NEW table, NEW s, NEW f,
         \A i \in 1 .. Len(s) : Consume(table, f[i - 1], s[i]) = {f[i]}
  PROVE  Reaches(table, f[0], s, f[Len(s)])
BY DEF Reaches

(* Two characters are one behind the other. *)
LEMMA ReachesTwo ==
  ASSUME NEW table, NEW p, NEW q, NEW r, NEW a \in Symbols, NEW b \in Symbols,
         Reaches(table, p, <<a>>, q), Reaches(table, q, <<b>>, r)
  PROVE  Reaches(table, p, <<a, b>>, r)
<1>1. PICK s, t : s = <<a>> /\ t = <<b>>
  OBVIOUS
<1>2. s \in Strings /\ t \in Strings /\ s \o t = <<a, b>>
  <2>1. <<a>> \in Strings /\ <<b>> \in Strings
    OBVIOUS
  <2>2. <<a>> \o <<b>> = <<a, b>>
    <3>1. PICK x, y, z : x = <<a>> /\ y = <<b>> /\ z = <<a, b>>
      OBVIOUS
    <3>2. Len(x) = 1 /\ Len(y) = 1 /\ Len(z) = 2 /\ x[1] = a /\ y[1] = b /\ z[1] = a /\ z[2] = b
      BY <3>1
    <3>3. x \in Strings /\ y \in Strings /\ z \in Strings
      BY <3>1
    <3>4. x \o y = z
      <4>1. x \o y \in Strings /\ Len(x \o y) = 2
        BY <3>2, <3>3, ConcatProperties
      <4>2. (x \o y)[1] = a /\ (x \o y)[2] = b
        BY <3>2, <3>3, ConcatProperties
      <4>3. \A i \in 1 .. Len(x \o y) : (x \o y)[i] = z[i]
        <5>1. \A i \in 1 .. Len(x \o y) : i = 1 \/ i = 2
          BY <4>1
        <5> QED BY <3>2, <4>2, <5>1
      <4> QED BY <3>2, <3>3, <4>1, <4>3, SeqEqual
    <3> QED BY <3>1, <3>4
  <2> QED BY <1>1, <2>1, <2>2
<1>3. Reaches(table, p, s \o t, r)
  BY <1>1, <1>2, ReachesThen
<1> QED BY <1>2, <1>3

(* Characters that stand for themselves can stand in a text. *)
LEMMA Marks ==
  /\ \A c \in AnyClass : c \in Symbols
  /\ {CR, LF, SP, TAB, SEMI, HTTP, ".", ":", "="} \subseteq AnyClass
  /\ {CR, LF, SP, TAB, SEMI, HTTP, ".", ":", "="} \subseteq Symbols
  /\ EndOfLine \in Strings
<1>1. /\ CR \in AnyClass /\ LF \in AnyClass /\ SP \in AnyClass /\ TAB \in AnyClass /\ SEMI \in AnyClass
      /\ HTTP \in AnyClass /\ "." \in AnyClass /\ ":" \in AnyClass /\ "=" \in AnyClass
  BY DEF AnyClass, Control, Special, Mark
<1>2. \A c \in AnyClass : c \in Symbols
  BY DEF Symbols
<1> QED BY <1>1, <1>2 DEF EndOfLine

(* So can a number of at most two digits. *)
LEMMA DecimalIsText == \A n \in 0 .. 99 : Decimal(n) \in Strings
<1> SUFFICES ASSUME NEW n \in 0 .. 99 PROVE Decimal(n) \in Strings
  OBVIOUS
<1>1. \A k \in 0 .. 9 : Digits[k + 1] \in Symbols
  BY DigitValues
<1>2. CASE n < 10
  <2>1. Digits[n + 1] \in Symbols
    BY <1>1, <1>2
  <2> QED BY <1>2, <2>1 DEF Decimal
<1>3. CASE ~ (n < 10)
  BY <1>3, <1>1 DEF Decimal
<1> QED BY <1>2, <1>3

(* Two texts, one behind the other, are a text that leads where both do. *)
LEMMA Then ==
  ASSUME NEW table, NEW p, NEW q, NEW r, NEW s \in Strings, NEW t \in Strings,
         Reaches(table, p, s, q), Reaches(table, q, t, r)
  PROVE  Reaches(table, p, s \o t, r) /\ s \o t \in Strings
BY ReachesThen, ConcatProperties

(* A word, of any of these characters. *)
Spelt(s, classes) ==
  s \in Strings /\ s # <<>> /\ \A i \in 1 .. Len(s) : Class(s[i]) \in classes

(* The words of a described message are such. *)
LEMMA WordsOf ==
  ASSUME NEW s, NEW classes, Word(s, classes)
  PROVE  Spelt(s, classes)
<1>1. s \in Seq(STRING) /\ s # <<>> /\ \A i \in DOMAIN s : Class(s[i]) \in classes
  BY DEF Word, Words
<1>2. DOMAIN s = 1 .. Len(s)
  BY <1>1, LenProperties
<1> QED BY <1>1, <1>2, WordsAreTexts DEF Spelt

----------------------------------------
(* Configurations, words and numbers *)

(* A configuration by its state, what its object counts besides, and its
   message. *)
Config(state, o, m) == Start(Object(state, o.contentSize, o.chunkSizeStr, o.chunkSize, o.chunked), m)

(* A rule as a step: in a state, a character of these classes does this. *)
Leads(table, state, on, next, do) ==
  \A c, o, m : Class(c) \in on => Consume(table, Config(state, o, m), c) = {Do(do, Config(next, o, m), c)}

(* A rule is such a step, for some of its characters or for all. *)
LEMMA RuleLeads ==
  ASSUME NEW table, NEW rules, Knows(table, rules),
         NEW state, NEW on, NEW next, NEW do, Rule(state, on, next, do) \in rules,
         NEW part, part \subseteq on
  PROVE  Leads(table, state, part, next, do)
<1> SUFFICES ASSUME NEW c, NEW o, NEW m, Class(c) \in part
             PROVE  Consume(table, Config(state, o, m), c) = {Do(do, Config(next, o, m), c)}
  BY DEF Leads
<1>1. Class(c) \in on
  OBVIOUS
<1>2. PICK size, str, chunk, chunked :
        size = o.contentSize /\ str = o.chunkSizeStr /\ chunk = o.chunkSize /\ chunked = o.chunked
  OBVIOUS
<1>3. Consume(table, Start(Object(state, size, str, chunk, chunked), m), c)
        = {Do(do, Start(Object(next, size, str, chunk, chunked), m), c)}
  BY <1>1, FitsOne
<1> QED BY <1>2, <1>3 DEF Config

(* One character that a rule fits. *)
LEMMA Moves ==
  ASSUME NEW table, NEW state, NEW on, NEW next, NEW do, Leads(table, state, on, next, do),
         NEW c, Class(c) \in on, NEW o, NEW m, NEW q, Do(do, Config(next, o, m), c) = q
  PROVE  Reaches(table, Config(state, o, m), <<c>>, q)
<1>1. PICK p : p = Config(state, o, m)
  OBVIOUS
<1>2. Consume(table, p, c) = {q}
  BY <1>1 DEF Leads
<1> QED BY <1>1, <1>2, ReachesOne

(* One character that is skipped. *)
LEMMA MovesOn ==
  ASSUME NEW table, NEW state, NEW on, NEW next, Leads(table, state, on, next, "skip"),
         NEW c, Class(c) \in on, NEW o, NEW m
  PROVE  Reaches(table, Config(state, o, m), <<c>>, Config(next, o, m))
<1>1. PICK p, q : p = Config(state, o, m) /\ q = Config(next, o, m)
  OBVIOUS
<1>2. Do("skip", q, c) = q
  BY DEF Do
<1>3. Consume(table, p, c) = {q}
  BY <1>1, <1>2 DEF Leads
<1> QED BY <1>1, <1>3, ReachesOne

(* The end of a line. *)
LEMMA LineEnds ==
  ASSUME NEW table, NEW state, NEW next, NEW last, NEW do,
         Leads(table, state, {CR}, next, do), Leads(table, next, {LF}, last, "skip"), NEW o, NEW m, NEW n,
         Do(do, Config(next, o, m), CR) = Config(next, n, m)
  PROVE  Reaches(table, Config(state, o, m), EndOfLine, Config(last, n, m))
<1>1. CR \in Symbols /\ LF \in Symbols /\ Class(CR) \in {CR} /\ Class(LF) \in {LF}
  BY Marks, ClassOf
<1>2. PICK p, q, r : p = Config(state, o, m) /\ q = Config(next, n, m) /\ r = Config(last, n, m)
  OBVIOUS
<1>3. Reaches(table, p, <<CR>>, q)
  <2>1. Consume(table, p, CR) = {q}
    BY <1>1, <1>2 DEF Leads
  <2> QED BY <2>1, ReachesOne
<1>4. Reaches(table, q, <<LF>>, r)
  BY <1>1, <1>2, MovesOn
<1>5. Reaches(table, p, <<CR, LF>>, r)
  BY <1>1, <1>3, <1>4, ReachesTwo
<1> QED BY <1>2, <1>5 DEF EndOfLine

(* Characters put behind one another. *)
Collects(do, state, o, gather) ==
  \A t \in Strings, c \in Symbols : Do(do, Config(state, o, gather[t]), c) = Config(state, o, gather[Append(t, c)])

(* A word, of which every character is put behind the others. *)
LEMMA Spells ==
  ASSUME NEW table, NEW first, NEW state, NEW on, NEW do,
         Leads(table, first, on, state, do), Leads(table, state, on, state, do),
         NEW o, NEW gather, Collects(do, state, o, gather), NEW a \in Strings,
         NEW s, Spelt(s, on)
  PROVE  Reaches(table, Config(first, o, gather[a]), s, Config(state, o, gather[a \o s]))
<1>0. s \in Strings /\ s # <<>> /\ \A i \in 1 .. Len(s) : Class(s[i]) \in on
  BY DEF Spelt
<1> DEFINE f == [i \in 0 .. Len(s) |-> Config(IF i = 0 THEN first ELSE state, o, gather[a \o SubSeq(s, 1, i)])]
<1>1. Len(s) \in Nat \ {0}
  BY <1>0, LenProperties, EmptySeq
<1>3. ASSUME NEW i \in 1 .. Len(s)
      PROVE  Consume(table, f[i - 1], s[i]) = {f[i]}
  <2>1. i - 1 \in 0 .. Len(s) /\ i \in 0 .. Len(s) /\ i # 0 /\ Class(s[i]) \in on
    BY <1>0, <1>1
  <2>2. PICK t : t = a \o SubSeq(s, 1, i - 1)
    OBVIOUS
  <2>3. t \in Strings /\ s[i] \in Symbols /\ Append(t, s[i]) = a \o SubSeq(s, 1, i)
    <3>1. SubSeq(s, 1, i - 1) \in Strings
      BY <1>0, <1>1, SubSeqProperties, ElementOfSeq
    <3>2. t \in Strings
      BY <2>2, <3>1, ConcatProperties
    <3>3. s[i] \in Symbols
      BY <1>0, ElementOfSeq
    <3> QED BY <1>0, <2>2, <3>2, <3>3, Grow
  <2>4. f[i - 1] = Config(IF i - 1 = 0 THEN first ELSE state, o, gather[t])
        /\ f[i] = Config(state, o, gather[Append(t, s[i])])
    BY <2>1, <2>2, <2>3
  <2>5. Do(do, Config(state, o, gather[t]), s[i]) = Config(state, o, gather[Append(t, s[i])])
    BY <2>3 DEF Collects
  <2>6. \A st \in {first, state} :
          Consume(table, Config(st, o, gather[t]), s[i]) = {Do(do, Config(state, o, gather[t]), s[i])}
    BY <2>1 DEF Leads
  <2> HIDE DEF f
  <2> QED BY <2>4, <2>5, <2>6
<1>4. f[0] = Config(first, o, gather[a])
  <2>1. f[0] = Config(first, o, gather[a \o SubSeq(s, 1, 0)])
    BY <1>1
  <2>2. SubSeq(s, 1, 0) = <<>> /\ a \o <<>> = a
    BY <1>0, Whole
  <2> QED BY <2>1, <2>2
<1>5. f[Len(s)] = Config(state, o, gather[a \o s])
  <2>1. f[Len(s)] = Config(state, o, gather[a \o SubSeq(s, 1, Len(s))])
    BY <1>1
  <2>2. SubSeq(s, 1, Len(s)) = s
    BY <1>0, Whole
  <2> QED BY <2>1, <2>2
<1> HIDE DEF f
<1>6. Reaches(table, f[0], s, f[Len(s)])
  BY <1>3, ReachesAll
<1> QED BY <1>4, <1>5, <1>6

(* A number in decimal, put together digit by digit. *)
Tallies(do, state, o, gather) ==
  \A n \in Nat, k \in 0 .. 9 :
    Do(do, Config(state, o, gather[n]), Digits[k + 1]) = Config(state, o, gather[10 * n + k])

(* A number of at most two digits. *)
LEMMA CountsUp ==
  ASSUME NEW table, NEW first, NEW state, NEW do,
         Leads(table, first, {"digit"}, state, do), Leads(table, state, {"digit"}, state, do),
         NEW o, NEW gather, Tallies(do, state, o, gather), NEW n \in 0 .. 99
  PROVE  Reaches(table, Config(first, o, gather[0]), Decimal(n), Config(state, o, gather[n]))
<1>1. ASSUME NEW k \in 0 .. 9, NEW j \in Nat, NEW st \in {first, state}
      PROVE  Reaches(table, Config(st, o, gather[j]), <<Digits[k + 1]>>, Config(state, o, gather[10 * j + k]))
  <2>1. Class(Digits[k + 1]) \in {"digit"}
    BY DigitValues, ClassOf
  <2>2. Do(do, Config(state, o, gather[j]), Digits[k + 1]) = Config(state, o, gather[10 * j + k])
    BY DEF Tallies
  <2>3. Consume(table, Config(st, o, gather[j]), Digits[k + 1])
          = {Do(do, Config(state, o, gather[j]), Digits[k + 1])}
    BY <2>1 DEF Leads
  <2> QED BY <2>2, <2>3, ReachesOne
<1>2. CASE n < 10
  <2>1. n \in 0 .. 9 /\ 10 * 0 + n = n /\ 0 \in Nat
    BY <1>2
  <2>2. Reaches(table, Config(first, o, gather[0]), <<Digits[n + 1]>>, Config(state, o, gather[10 * 0 + n]))
    BY <1>1, <2>1
  <2> QED BY <1>2, <2>1, <2>2 DEF Decimal
<1>3. CASE ~ (n < 10)
  <2>1. PICK a, b : a = n \div 10 /\ b = n % 10
    OBVIOUS
  <2>2. a \in 0 .. 9 /\ b \in 0 .. 9 /\ 10 * a + b = n /\ 10 * 0 + a = a /\ a \in Nat /\ 0 \in Nat
    BY <2>1
  <2>3. Reaches(table, Config(first, o, gather[0]), <<Digits[a + 1]>>, Config(state, o, gather[10 * 0 + a]))
    BY <1>1, <2>2
  <2>4. Reaches(table, Config(state, o, gather[a]), <<Digits[b + 1]>>, Config(state, o, gather[10 * a + b]))
    BY <1>1, <2>2
  <2>5. PICK x, y : x = Digits[a + 1] /\ y = Digits[b + 1]
    OBVIOUS
  <2>6. x \in Symbols /\ y \in Symbols
    BY <2>2, <2>5, DigitValues
  <2>7. Reaches(table, Config(first, o, gather[0]), <<x, y>>, Config(state, o, gather[n]))
    BY <2>2, <2>3, <2>4, <2>5, <2>6, ReachesTwo
  <2>8. Decimal(n) = <<x, y>>
    BY <1>3, <2>1, <2>5 DEF Decimal
  <2> QED BY <2>7, <2>8
<1> QED BY <1>2, <1>3

----------------------------------------
(* What is done with a character of a header *)

(* A message has these fields, whether it is a request or a response ... *)
IsMessage(m) ==
  /\ m = [x \in DOMAIN m |-> m[x]]
  /\ {"major", "minor", "headers", "content", "keepAlive"} \subseteq DOMAIN m

(* ... of which these are filled in behind the first line. *)
Filled(m, headers, content, keepAlive) ==
  [m EXCEPT !.headers = headers, !.content = content, !.keepAlive = keepAlive]

(* Headers. *)
Heads == [name : Strings, value : Strings]

(* A header with this name and this value. *)
Header(name, value) == [name |-> name, value |-> value]

(* What is filled in is there, and the first line stays as it is. *)
LEMMA FilledFields ==
  ASSUME NEW m, IsMessage(m), NEW headers, NEW content, NEW keepAlive
  PROVE  /\ Filled(m, headers, content, keepAlive).headers = headers
         /\ Filled(m, headers, content, keepAlive).content = content
         /\ Filled(m, headers, content, keepAlive).keepAlive = keepAlive
         /\ Filled(m, headers, content, keepAlive).major = m.major
         /\ Filled(m, headers, content, keepAlive).minor = m.minor
         /\ DOMAIN Filled(m, headers, content, keepAlive) = DOMAIN m
         /\ \A x \in DOMAIN m : x \notin {"headers", "content", "keepAlive"} =>
              Filled(m, headers, content, keepAlive)[x] = m[x]
BY DEF IsMessage, Filled

(* What is written, by the fields that it is written to: the headers. *)
PutHeaders(m, x) == [m EXCEPT !.headers = x]

(* The message's body. *)
PutContent(m, x) == [m EXCEPT !.content = x]

(* The fate of the connection. *)
PutKeepAlive(m, x) == [m EXCEPT !.keepAlive = x]

(* A parser's message. *)
PutMessage(p, m) == [p EXCEPT !.m = m]

(* The last header. *)
PutLast(s, h) == [s EXCEPT ![Len(s)] = h]

(* A field of a header, or of a message, with one more character. *)
Longer(h, field, c) == [h EXCEPT ![field] = Append(@, c)]

(* A field that is filled in again has the later value. *)
LEMMA Refilled ==
  ASSUME NEW m, IsMessage(m), NEW h, NEW c, NEW k, NEW x
  PROVE  /\ PutHeaders(Filled(m, h, c, k), x) = Filled(m, x, c, k)
         /\ PutContent(Filled(m, h, c, k), x) = Filled(m, h, x, k)
         /\ PutKeepAlive(Filled(m, h, c, k), x) = Filled(m, h, c, x)
BY DEF IsMessage, Filled, PutHeaders, PutContent, PutKeepAlive

(* The fields of a configuration. *)
LEMMA ConfigFields ==
  ASSUME NEW state, NEW o, NEW m
  PROVE  /\ Config(state, o, m).m = m /\ Config(state, o, m).result = "ParsingIncompleted"
         /\ Config(state, o, m).remainSize = 0
         /\ Config(state, o, m).o = Object(state, o.contentSize, o.chunkSizeStr, o.chunkSize, o.chunked)
         /\ \A x : PutMessage(Config(state, o, m), x) = Config(state, o, x)
         /\ \A x : Goto(Config(state, o, m), x) = Config(x, o, m)
BY DEF Config, Start, Goto, Object, PutMessage

(* The first character of a name makes a new header ... *)
LEMMA DoHeader ==
  ASSUME NEW m, IsMessage(m), NEW st, NEW o, NEW hs, NEW ct, NEW ka, NEW c
  PROVE  Do("header", Config(st, o, Filled(m, hs, ct, ka)), c)
           = Config(st, o, Filled(m, Append(hs, Header(<<c>>, <<>>)), ct, ka))
<1>1. PICK p, q : p = Config(st, o, q) /\ q = Filled(m, hs, ct, ka)
  OBVIOUS
<1>2. Do("header", p, c) = [p EXCEPT !.m.headers = Append(@, Header(<<c>>, <<>>))]
  BY DEF Do, Header
<1>3. p.m = q /\ q.headers = hs
  BY <1>1, ConfigFields, FilledFields
<1>4. [p EXCEPT !.m.headers = Append(@, Header(<<c>>, <<>>))]
        = PutMessage(p, PutHeaders(p.m, Append(p.m.headers, Header(<<c>>, <<>>))))
  BY <1>1 DEF Config, Start, PutMessage, PutHeaders
<1>5. PICK x : x = Append(hs, Header(<<c>>, <<>>))
  OBVIOUS
<1>6. PutHeaders(q, x) = Filled(m, x, ct, ka)
  BY <1>1, Refilled
<1>7. PutMessage(p, PutHeaders(q, x)) = Config(st, o, PutHeaders(q, x))
  BY <1>1, ConfigFields
<1>8. Do("header", p, c) = PutMessage(p, PutHeaders(q, x))
  BY <1>2, <1>3, <1>4, <1>5
<1> QED BY <1>1, <1>5, <1>6, <1>7, <1>8

(* ... which is the last one, whatever is then made of it ... *)
LEMMA LastHeader ==
  ASSUME NEW hs \in Seq(Heads), NEW h \in Heads, NEW g \in Heads
  PROVE  /\ Append(hs, h) # <<>> /\ Last(Append(hs, h)) = h /\ Append(hs, h)[Len(Append(hs, h))] = h
         /\ PutLast(Append(hs, h), g) = Append(hs, g)
<1>1. PICK x : x = Append(hs, h)
  OBVIOUS
<1>2. /\ x \in Seq(Heads) /\ Len(x) = Len(hs) + 1 /\ x[Len(x)] = h
      /\ Len(hs) \in Nat /\ \A i \in 1 .. Len(hs) : x[i] = hs[i]
  BY <1>1, AppendProperties, LenProperties
<1>3. x # <<>> /\ Last(x) = h
  BY <1>2 DEF Last
<1>4. PICK z, y : z = PutLast(x, g) /\ y = Append(hs, g)
  OBVIOUS
<1>5. Len(x) \in 1 .. Len(x)
  BY <1>2
<1>6. z \in Seq(Heads) /\ Len(z) = Len(x) /\ \A i \in 1 .. Len(x) : z[i] = IF i = Len(x) THEN g ELSE x[i]
  <2>1. PICK k : k = Len(x)
    OBVIOUS
  <2>2. z = [x EXCEPT ![k] = g] /\ k \in 1 .. Len(x)
    BY <1>4, <1>5, <2>1 DEF PutLast
  <2>3. z \in Seq(Heads)
    BY <1>2, <2>2, ExceptSeq
  <2>4. Len(z) = Len(x)
    BY <1>2, <2>2, ExceptSeq
  <2>5. \A i \in 1 .. Len(x) : z[i] = IF i = k THEN g ELSE x[i]
    BY <1>2, <2>2, ExceptSeq
  <2> QED BY <2>1, <2>3, <2>4, <2>5
<1>7. y \in Seq(Heads) /\ Len(y) = Len(hs) + 1 /\ y[Len(hs) + 1] = g /\ \A i \in 1 .. Len(hs) : y[i] = hs[i]
  BY <1>4, AppendProperties
<1>8. \A i \in 1 .. Len(z) : z[i] = y[i]
  <2> TAKE i \in 1 .. Len(z)
  <2>1. i \in 1 .. Len(x) /\ (i = Len(x) \/ i \in 1 .. Len(hs)) /\ (i \in 1 .. Len(hs) => i # Len(x))
    BY <1>2, <1>6
  <2> QED BY <1>2, <1>6, <1>7, <2>1
<1>9. Len(y) = Len(z)
  BY <1>2, <1>6, <1>7
<1>10. z = y
  BY <1>6, <1>7, <1>8, <1>9, SeqEqual
<1> QED BY <1>1, <1>2, <1>3, <1>4, <1>10

(* ... as each character of its name and of its value is put behind it. *)
LEMMA DoField ==
  ASSUME NEW m, IsMessage(m), NEW st, NEW o, NEW hs \in Seq(Heads), NEW h \in Heads, NEW ct, NEW ka, NEW c \in Symbols,
         NEW field \in {"name", "value"}
  PROVE  Do(field, Config(st, o, Filled(m, Append(hs, h), ct, ka)), c)
           = Config(st, o, Filled(m, Append(hs, Longer(h, field, c)), ct, ka))
<1>a. PICK x, g : x = Append(hs, h) /\ g = Longer(h, field, c)
  OBVIOUS
<1>b. PICK q : q = Filled(m, x, ct, ka)
  OBVIOUS
<1>1. PICK p : p = Config(st, o, q)
  OBVIOUS
<1>0. g \in Heads
  BY <1>a, AppendProperties DEF Heads, Longer
<1>2. p.m = q /\ q.headers = x
  BY <1>b, <1>1, ConfigFields, FilledFields
<1>9. x # <<>> /\ x[Len(x)] = h /\ PutLast(x, g) = Append(hs, g)
  BY <1>0, LastHeader, <1>a
<1>3. Do(field, p, c) = ToHeader(p, field, c)
  BY DEF Do
<1>4. ToHeader(p, field, c) = [p EXCEPT !.m.headers[Len(p.m.headers)][field] = Append(@, c)]
  BY <1>2, <1>9 DEF ToHeader
<1>5. [p EXCEPT !.m.headers[Len(p.m.headers)][field] = Append(@, c)]
        = PutMessage(p, PutHeaders(p.m, PutLast(p.m.headers, Longer(p.m.headers[Len(p.m.headers)], field, c))))
  BY <1>1 DEF Config, Start, PutMessage, PutHeaders, PutLast, Longer
<1>6. Do(field, p, c) = PutMessage(p, PutHeaders(q, Append(hs, g)))
  BY <1>a, <1>2, <1>3, <1>4, <1>5, <1>9
<1>7. PICK y : y = Append(hs, g)
  OBVIOUS
<1>8. PutHeaders(q, y) = Filled(m, y, ct, ka) /\ PutMessage(p, PutHeaders(q, y)) = Config(st, o, PutHeaders(q, y))
  <2>1. PutHeaders(q, y) = Filled(m, y, ct, ka)
    BY <1>b, Refilled
  <2> QED BY <1>1, <2>1, ConfigFields
<1> QED BY <1>a, <1>b, <1>1, <1>6, <1>7, <1>8

----------------------------------------
(* Numbers *)

(* A function by recursion over the first natural numbers. *)
Unfolds(f, S, x, g, n) ==
  /\ f \in [0 .. n -> S] /\ f[0] = x
  /\ \A i \in 1 .. n : f[i] = g[<<i, f[i - 1]>>]

(* Such a function exists for every number of steps. *)
LEMMA UnfoldsExist ==
  ASSUME NEW S, NEW x \in S, NEW n \in Nat, NEW g \in [(1 .. n) \X S -> S]
  PROVE  \E f : Unfolds(f, S, x, g, n)
<1> DEFINE B == {m \in 0 .. n : ~ \E f : Unfolds(f, S, x, g, m)}
<1> SUFFICES ASSUME B # {} PROVE FALSE
  <2>1. n \in 0 .. n
    OBVIOUS
  <2> QED BY <2>1
<1>1. PICK m \in B : \A k \in B : m <= k
  <2>1. B \subseteq Nat
    OBVIOUS
  <2> HIDE DEF B
  <2> QED BY <2>1, Least
<1>2. m \in 0 .. n /\ ~ \E f : Unfolds(f, S, x, g, m)
  OBVIOUS
<1>3. m # 0
  <2>1. CASE m = 0
    <3> DEFINE f == [i \in 0 .. 0 |-> x]
    <3>1. f \in [0 .. 0 -> S] /\ f[0] = x /\ \A i \in 1 .. 0 : f[i] = g[<<i, f[i - 1]>>]
      OBVIOUS
    <3> HIDE DEF f
    <3>2. Unfolds(f, S, x, g, 0)
      BY <3>1 DEF Unfolds
    <3> QED BY <1>2, <2>1, <3>2
  <2> QED BY <2>1
<1>4. m - 1 \in 0 .. n /\ m \in 1 .. n /\ m - 1 \notin B
  <2>1. m - 1 \in 0 .. n /\ m \in 1 .. n /\ ~ (m <= m - 1)
    BY <1>2, <1>3
  <2> QED BY <1>1, <2>1
<1>5. PICK f : Unfolds(f, S, x, g, m - 1)
  BY <1>4
<1> HIDE DEF B
<1>6. f \in [0 .. m - 1 -> S] /\ f[0] = x /\ \A i \in 1 .. m - 1 : f[i] = g[<<i, f[i - 1]>>]
  BY <1>5 DEF Unfolds
<1> DEFINE h == [i \in 0 .. m |-> IF i = m THEN g[<<m, f[m - 1]>>] ELSE f[i]]
<1>7. f[m - 1] \in S /\ g[<<m, f[m - 1]>>] \in S
  BY <1>4, <1>6
<1>8. h \in [0 .. m -> S]
  <2>1. \A i \in 0 .. m : i # m => i \in 0 .. m - 1
    BY <1>4
  <2> QED BY <1>6, <1>7, <2>1
<1>9. h[0] = x
  BY <1>4, <1>6
<1>10. ASSUME NEW i \in 1 .. m PROVE h[i] = g[<<i, h[i - 1]>>]
  <2>1. i \in 0 .. m /\ i - 1 \in 0 .. m /\ i - 1 # m
    BY <1>4
  <2>2. h[i - 1] = f[i - 1]
    BY <2>1
  <2>3. CASE i = m
    BY <2>1, <2>2, <2>3
  <2>4. CASE i # m
    <3>1. i \in 1 .. m - 1 /\ h[i] = f[i]
      BY <1>4, <2>1, <2>4
    <3> HIDE DEF h
    <3> QED BY <1>6, <2>2, <3>1
  <2> QED BY <2>3, <2>4
<1> HIDE DEF h
<1>11. Unfolds(h, S, x, g, m)
  BY <1>8, <1>9, <1>10 DEF Unfolds
<1> QED BY <1>2, <1>11

(* The value of a text that consists of digits only. *)
Valued(f, s, of, base) ==
  /\ f \in [0 .. Len(s) -> Nat] /\ f[0] = 0
  /\ \A i \in 1 .. Len(s) : f[i] = f[i - 1] * base + of[s[i]]

(* A text that is all digits. *)
Numeral(s, of) == Len(s) \in Nat /\ \A i \in 1 .. Len(s) : s[i] \in DOMAIN of /\ of[s[i]] \in Nat

(* The number that such a text begins with is the value of all of it. *)
LEMMA LeadingAll ==
  ASSUME NEW s, NEW of, NEW base \in Nat, Numeral(s, of)
  PROVE  \E f : Valued(f, s, of, base) /\ Leading(s, of, base) = f[Len(s)]
<1> DEFINE N == Len(s)
           Fits(k) == (\A i \in 1 .. k : s[i] \in DOMAIN of) /\ (k < Len(s) => s[k + 1] \notin DOMAIN of)
           n == CHOOSE k \in 0 .. N : Fits(k)
           Rec(f, k) == f = [i \in 0 .. k |-> IF i = 0 THEN 0 ELSE f[i - 1] * base + of[s[i]]]
<1>0. Len(s) \in Nat /\ \A i \in 1 .. Len(s) : s[i] \in DOMAIN of /\ of[s[i]] \in Nat
  BY DEF Numeral
<1>1. n = N
  <2>1. N \in 0 .. N /\ Fits(N)
    BY <1>0
  <2>2. n \in 0 .. N /\ Fits(n)
    <3> HIDE DEF Fits
    <3> QED BY <2>1
  <2>3. ~ (n < N)
    <3>1. n < N => n + 1 \in 1 .. N
      BY <1>0, <2>2
    <3> QED BY <1>0, <2>2, <3>1
  <2> HIDE DEF n
  <2> QED BY <1>0, <2>2, <2>3
<1>2. Leading(s, of, base) = (CHOOSE f : Rec(f, n))[n]
  BY DEF Leading
<1>3. \E f : Rec(f, N)
  <2> DEFINE g == [x \in (1 .. N) \X Nat |-> x[2] * base + of[s[x[1]]]]
  <2>1. g \in [(1 .. N) \X Nat -> Nat]
    <3> SUFFICES ASSUME NEW x \in (1 .. N) \X Nat PROVE x[2] * base + of[s[x[1]]] \in Nat
      OBVIOUS
    <3>1. PICK v, w : v = x[2] /\ w = of[s[x[1]]]
      OBVIOUS
    <3>2. v \in Nat /\ w \in Nat
      BY <1>0, <3>1
    <3> QED BY <3>1, <3>2
  <2>2. \A i \in 1 .. N, v \in Nat : g[<<i, v>>] = v * base + of[s[i]]
    OBVIOUS
  <2> HIDE DEF g
  <2>3. PICK f : Unfolds(f, Nat, 0, g, N)
    BY <1>0, <2>1, UnfoldsExist
  <2>4. f \in [0 .. N -> Nat] /\ f[0] = 0 /\ \A i \in 1 .. N : f[i] = g[<<i, f[i - 1]>>]
    BY <2>3 DEF Unfolds
  <2>5. \A i \in 0 .. N : f[i] = IF i = 0 THEN 0 ELSE f[i - 1] * base + of[s[i]]
    <3> TAKE i \in 0 .. N
    <3>1. CASE i # 0
      <4>1. i \in 1 .. N /\ i - 1 \in 0 .. N
        BY <3>1
      <4>2. f[i - 1] \in Nat
        BY <2>4, <4>1
      <4>3. g[<<i, f[i - 1]>>] = f[i - 1] * base + of[s[i]]
        BY <2>2, <4>1, <4>2
      <4> QED BY <2>4, <3>1, <4>1, <4>3
    <3> QED BY <2>4, <3>1
  <2>6. f = [i \in 0 .. N |-> IF i = 0 THEN 0 ELSE f[i - 1] * base + of[s[i]]]
    BY <2>4, <2>5
  <2> QED BY <2>6
<1>4. PICK f : Rec(f, N) /\ f = CHOOSE h : Rec(h, N)
  <2> HIDE DEF Rec
  <2> QED BY <1>3
<1>5. \A i \in 0 .. N : f[i] = IF i = 0 THEN 0 ELSE f[i - 1] * base + of[s[i]]
  BY <1>4
<1> HIDE DEF Rec
<1>6. \A i \in 1 .. N : i \in 0 .. N /\ i # 0 /\ i - 1 \in 0 .. N
  BY <1>0
<1> DEFINE B == {i \in 0 .. N : f[i] \notin Nat}
<1>7. B = {}
  <2> SUFFICES ASSUME B # {} PROVE FALSE
    OBVIOUS
  <2>1. PICK k \in B : \A j \in B : k <= j
    <3>1. B \subseteq Nat
      OBVIOUS
    <3> HIDE DEF B
    <3> QED BY <3>1, Least
  <2>2. k \in 0 .. N /\ f[k] \notin Nat
    OBVIOUS
  <2>3. k # 0
    BY <1>5, <2>2
  <2>4. k \in 1 .. N /\ k - 1 \in 0 .. N /\ ~ (k <= k - 1)
    BY <2>2, <2>3
  <2>5. f[k - 1] \in Nat
    BY <2>1, <2>4
  <2>6. f[k] = f[k - 1] * base + of[s[k]]
    BY <1>5, <1>6, <2>4
  <2>7. of[s[k]] \in Nat
    BY <1>0, <2>4
  <2>8. PICK v, w : v = f[k - 1] /\ w = of[s[k]]
    OBVIOUS
  <2>9. v \in Nat /\ w \in Nat
    BY <2>5, <2>7, <2>8
  <2>10. v * base + w \in Nat
    BY <2>9
  <2> QED BY <2>2, <2>6, <2>8, <2>10
<1>8. f = [i \in 0 .. N |-> f[i]]
  <2>1. f = [i \in 0 .. N |-> IF i = 0 THEN 0 ELSE f[i - 1] * base + of[s[i]]]
    BY <1>4 DEF Rec
  <2> QED BY <2>1
<1>9. f \in [0 .. N -> Nat]
  BY <1>7, <1>8
<1>10. Valued(f, s, of, base)
  <2>1. f[0] = 0
    BY <1>0, <1>5
  <2> QED BY <1>5, <1>6, <1>9, <2>1 DEF Valued
<1>11. Leading(s, of, base) = f[N]
  <2> HIDE DEF n
  <2> QED BY <1>1, <1>2, <1>4
<1> QED BY <1>10, <1>11

(* What a count of at most two digits and a size of one stand for. *)
LEMMA AtoiDecimal == \A n \in 0 .. 99 : Atoi(Decimal(n)) = n
<1> SUFFICES ASSUME NEW n \in 0 .. 99 PROVE Atoi(Decimal(n)) = n
  OBVIOUS
<1>0. \A k \in 0 .. 9 : Digits[k + 1] \in DOMAIN DigitOf /\ DigitOf[Digits[k + 1]] = k
  BY DigitValues
<1>1. CASE n < 10
  <2>1. PICK s, x : s = <<x>> /\ x = Digits[n + 1]
    OBVIOUS
  <2>2. Len(s) = 1 /\ s[1] = x /\ Decimal(n) = s /\ x \in DOMAIN DigitOf /\ DigitOf[x] = n
    BY <1>0, <1>1, <2>1 DEF Decimal
  <2>3. PICK f : Valued(f, s, DigitOf, 10) /\ Leading(s, DigitOf, 10) = f[Len(s)]
    <3>1. \A i \in 1 .. Len(s) : i = 1
      BY <2>2
    <3>2. \A i \in 1 .. Len(s) : s[i] \in DOMAIN DigitOf /\ DigitOf[s[i]] \in Nat
      BY <2>2, <3>1
    <3>3. PICK base, of : base = 10 /\ of = DigitOf
      OBVIOUS
    <3>4. Numeral(s, of) /\ base \in Nat
      BY <2>2, <3>2, <3>3 DEF Numeral
    <3>5. \E f : Valued(f, s, of, base) /\ Leading(s, of, base) = f[Len(s)]
      BY <3>4, LeadingAll
    <3> QED BY <3>3, <3>5
  <2>4. f[0] = 0 /\ f[1] = f[1 - 1] * 10 + DigitOf[x]
    BY <2>2, <2>3 DEF Valued
  <2>5. f[1] = n
    BY <2>2, <2>4
  <2> QED BY <2>2, <2>3, <2>5 DEF Atoi
<1>2. CASE ~ (n < 10)
  <2>0. PICK a, b : a = n \div 10 /\ b = n % 10
    OBVIOUS
  <2>a. a \in 0 .. 9 /\ b \in 0 .. 9 /\ a * 10 + b = n
    BY <2>0
  <2>1. PICK s, x, y : s = <<x, y>> /\ x = Digits[a + 1] /\ y = Digits[b + 1]
    OBVIOUS
  <2>2. Decimal(n) = s
    BY <1>2, <2>0, <2>1 DEF Decimal
  <2>b. Len(s) = 2 /\ s[1] = x /\ s[2] = y
    BY <2>1
  <2>c. x \in DOMAIN DigitOf /\ DigitOf[x] = a /\ y \in DOMAIN DigitOf /\ DigitOf[y] = b
    BY <1>0, <2>a, <2>1
  <2>3. PICK f : Valued(f, s, DigitOf, 10) /\ Leading(s, DigitOf, 10) = f[Len(s)]
    <3>1. \A i \in 1 .. Len(s) : i = 1 \/ i = 2
      BY <2>b
    <3>2. \A i \in 1 .. Len(s) : s[i] \in DOMAIN DigitOf /\ DigitOf[s[i]] \in Nat
      BY <2>a, <2>b, <2>c, <3>1
    <3>3. PICK base, of : base = 10 /\ of = DigitOf
      OBVIOUS
    <3>4. Numeral(s, of) /\ base \in Nat
      BY <2>b, <3>2, <3>3 DEF Numeral
    <3>5. \E f : Valued(f, s, of, base) /\ Leading(s, of, base) = f[Len(s)]
      BY <3>4, LeadingAll
    <3> QED BY <3>3, <3>5
  <2>4. f[0] = 0 /\ f[1] = f[1 - 1] * 10 + DigitOf[x] /\ f[2] = f[2 - 1] * 10 + DigitOf[y]
    BY <2>b, <2>3 DEF Valued
  <2>d. f[1] = a /\ 2 - 1 = 1
    BY <2>a, <2>c, <2>4
  <2>5. f[2] = n
    BY <2>a, <2>c, <2>4, <2>d
  <2> QED BY <2>2, <2>b, <2>3, <2>5 DEF Atoi
<1> QED BY <1>1, <1>2

(* The hexadecimal number of no digit, and of one. *)
LEMMA LeadingHex ==
  /\ Leading(<<>>, HexOf, 16) = 0
  /\ \A n \in 0 .. 15 : Leading(Hex(n), HexOf, 16) = n
<1>1. Leading(<<>>, HexOf, 16) = 0
  <2>1. PICK s : s = <<>> /\ Len(s) = 0
    OBVIOUS
  <2>2. PICK f : Valued(f, s, HexOf, 16) /\ Leading(s, HexOf, 16) = f[Len(s)]
    <3>1. \A i \in 1 .. Len(s) : FALSE
      BY <2>1
    <3>2. \A i \in 1 .. Len(s) : s[i] \in DOMAIN HexOf /\ HexOf[s[i]] \in Nat
      BY <2>1, <3>1
    <3>3. PICK base, of : base = 16 /\ of = HexOf
      OBVIOUS
    <3>4. Numeral(s, of) /\ base \in Nat
      BY <2>1, <3>2, <3>3 DEF Numeral
    <3>5. \E f : Valued(f, s, of, base) /\ Leading(s, of, base) = f[Len(s)]
      BY <3>4, LeadingAll
    <3> QED BY <3>3, <3>5
  <2> QED BY <2>1, <2>2 DEF Valued
<1>2. ASSUME NEW n \in 0 .. 15 PROVE Leading(Hex(n), HexOf, 16) = n
  <2>1. PICK s, x : s = <<x>> /\ x = Digits[n + 1]
    OBVIOUS
  <2>2. Len(s) = 1 /\ s[1] = x /\ Hex(n) = s /\ x \in DOMAIN HexOf /\ HexOf[x] = n
    BY <2>1, DigitValues DEF Hex
  <2>3. PICK f : Valued(f, s, HexOf, 16) /\ Leading(s, HexOf, 16) = f[Len(s)]
    <3>1. \A i \in 1 .. Len(s) : i = 1
      BY <2>2
    <3>2. \A i \in 1 .. Len(s) : s[i] \in DOMAIN HexOf /\ HexOf[s[i]] \in Nat
      BY <2>2, <3>1
    <3>3. PICK base, of : base = 16 /\ of = HexOf
      OBVIOUS
    <3>4. Numeral(s, of) /\ base \in Nat
      BY <2>2, <3>2, <3>3 DEF Numeral
    <3>5. \E f : Valued(f, s, of, base) /\ Leading(s, of, base) = f[Len(s)]
      BY <3>4, LeadingAll
    <3> QED BY <3>3, <3>5
  <2>4. f[0] = 0 /\ f[1] = f[1 - 1] * 16 + HexOf[x]
    BY <2>2, <2>3 DEF Valued
  <2>5. f[1] = n
    BY <2>2, <2>4
  <2> QED BY <2>2, <2>3, <2>5
<1> QED BY <1>1, <1>2

----------------------------------------
(* What is done with a character of a body *)

(* What the parser's object counts, after it has been given a size. *)
Sized(o, x) ==
  [contentSize |-> x, chunkSizeStr |-> o.chunkSizeStr, chunkSize |-> o.chunkSize, chunked |-> o.chunked]

(* The mark of a chunked body. *)
Chunked(o, x) ==
  [contentSize |-> o.contentSize, chunkSizeStr |-> o.chunkSizeStr, chunkSize |-> o.chunkSize, chunked |-> x]

(* A chunk's digits and its size. *)
Chunk(o, str, x) ==
  [contentSize |-> o.contentSize, chunkSizeStr |-> str, chunkSize |-> x, chunked |-> o.chunked]

(* What is written to a configuration is written to its object and to its
   message: a character of a body. *)
PutPost(p, c) == [p EXCEPT !.o.contentSize = @ - 1, !.m.content = Append(@, c)]

(* A character of a chunk. *)
PutData(p, c, s) == [p EXCEPT !.m.content = Append(@, c), !.o.chunkSize = @ - 1, !.o.state = s]

(* A digit of a chunk's size. *)
PutDigit(p, c) == [p EXCEPT !.o.chunkSizeStr = Append(@, c)]

(* A chunk's size, with what was its text and the next state. *)
PutChunkSize(p, n, e, s) == [p EXCEPT !.o.chunkSize = n, !.o.chunkSizeStr = e, !.o.state = s]

(* A configuration by its fields. *)
Parts(o, m, a, b) == [o |-> o, m |-> m, result |-> a, remainSize |-> b]

(* A character behind the body. *)
AddContent(m, c) == [m EXCEPT !.content = Append(@, c)]

(* One character less to come of a body. *)
LessSize(o) == [o EXCEPT !.contentSize = @ - 1]

(* One character less to come of a chunk. *)
LessChunk(o, s) == [o EXCEPT !.chunkSize = @ - 1, !.state = s]

(* A digit behind the others. *)
AddDigit(o, c) == [o EXCEPT !.chunkSizeStr = Append(@, c)]

(* A chunk of this size. *)
NewChunk(o, n, e, s) == [o EXCEPT !.chunkSize = n, !.chunkSizeStr = e, !.state = s]

(* What is written to a configuration, part by part ... *)
LEMMA PartWrites ==
  ASSUME NEW o, NEW m, NEW a, NEW b
  PROVE  /\ \A c : PutPost(Parts(o, m, a, b), c) = Parts(LessSize(o), AddContent(m, c), a, b)
         /\ \A c, s : PutData(Parts(o, m, a, b), c, s) = Parts(LessChunk(o, s), AddContent(m, c), a, b)
         /\ \A c : PutDigit(Parts(o, m, a, b), c) = Parts(AddDigit(o, c), m, a, b)
         /\ \A n, e, s : PutChunkSize(Parts(o, m, a, b), n, e, s) = Parts(NewChunk(o, n, e, s), m, a, b)
<1>1. PICK p : p = [o |-> o, m |-> m, result |-> a, remainSize |-> b]
  OBVIOUS
<1>2. ASSUME NEW c, NEW x, x = [p EXCEPT !.o.contentSize = @ - 1, !.m.content = Append(@, c)]
      PROVE  x = [o |-> [o EXCEPT !.contentSize = @ - 1], m |-> [m EXCEPT !.content = Append(@, c)],
                  result |-> a, remainSize |-> b]
  BY <1>1, <1>2
<1>3. ASSUME NEW c, NEW s, NEW x, x = [p EXCEPT !.m.content = Append(@, c), !.o.chunkSize = @ - 1, !.o.state = s]
      PROVE  x = [o |-> [o EXCEPT !.chunkSize = @ - 1, !.state = s], m |-> [m EXCEPT !.content = Append(@, c)],
                  result |-> a, remainSize |-> b]
  BY <1>1, <1>3
<1>4. ASSUME NEW c, NEW x, x = [p EXCEPT !.o.chunkSizeStr = Append(@, c)]
      PROVE  x = [o |-> [o EXCEPT !.chunkSizeStr = Append(@, c)], m |-> m, result |-> a, remainSize |-> b]
  BY <1>1, <1>4
<1>6. p = Parts(o, m, a, b)
  BY <1>1 DEF Parts
<1>7. ASSUME NEW c PROVE PutPost(p, c) = Parts(LessSize(o), AddContent(m, c), a, b)
  BY <1>2 DEF PutPost, Parts, LessSize, AddContent
<1>8. ASSUME NEW c, NEW s PROVE PutData(p, c, s) = Parts(LessChunk(o, s), AddContent(m, c), a, b)
  BY <1>3 DEF PutData, Parts, LessChunk, AddContent
<1>9. ASSUME NEW c PROVE PutDigit(p, c) = Parts(AddDigit(o, c), m, a, b)
  BY <1>4 DEF PutDigit, Parts, AddDigit
<1>10. ASSUME NEW n, NEW e, NEW s PROVE PutChunkSize(p, n, e, s) = Parts(NewChunk(o, n, e, s), m, a, b)
  <2>1. PICK x : x = [p EXCEPT !.o.chunkSize = n, !.o.chunkSizeStr = e, !.o.state = s]
    OBVIOUS
  <2>2. x = [o |-> [o EXCEPT !.chunkSize = n, !.chunkSizeStr = e, !.state = s], m |-> m,
             result |-> a, remainSize |-> b]
    BY <1>1, <2>1
  <2>3. PutChunkSize(p, n, e, s) = x
    BY <2>1 DEF PutChunkSize
  <2> QED BY <2>2, <2>3 DEF Parts, NewChunk
<1> QED BY <1>6, <1>7, <1>8, <1>9, <1>10

(* ... what is written to an object, field by field ... *)
LEMMA ObjectWrites ==
  ASSUME NEW st, NEW size, NEW str, NEW chunk, NEW chunked
  PROVE  /\ LessSize(Object(st, size, str, chunk, chunked)) = Object(st, size - 1, str, chunk, chunked)
         /\ \A s : LessChunk(Object(st, size, str, chunk, chunked), s) = Object(s, size, str, chunk - 1, chunked)
         /\ \A c : AddDigit(Object(st, size, str, chunk, chunked), c)
                    = Object(st, size, Append(str, c), chunk, chunked)
         /\ \A n, e, s : NewChunk(Object(st, size, str, chunk, chunked), n, e, s) = Object(s, size, e, n, chunked)
<1>0. PICK o : o = Object(st, size, str, chunk, chunked)
  OBVIOUS
<1>1. LessSize(o) = Object(st, size - 1, str, chunk, chunked)
  <2>1. PICK x : x = [o EXCEPT !.contentSize = @ - 1]
    OBVIOUS
  <2>2. x = Object(st, size - 1, str, chunk, chunked)
    BY <1>0, <2>1 DEF Object
  <2> QED BY <2>1, <2>2 DEF LessSize
<1>2. ASSUME NEW s PROVE LessChunk(o, s) = Object(s, size, str, chunk - 1, chunked)
  <2>1. PICK x : x = [o EXCEPT !.chunkSize = @ - 1, !.state = s]
    OBVIOUS
  <2>2. x = Object(s, size, str, chunk - 1, chunked)
    BY <1>0, <2>1 DEF Object
  <2> QED BY <2>1, <2>2 DEF LessChunk
<1>3. ASSUME NEW c PROVE AddDigit(o, c) = Object(st, size, Append(str, c), chunk, chunked)
  <2>1. PICK x : x = [o EXCEPT !.chunkSizeStr = Append(@, c)]
    OBVIOUS
  <2>2. x = Object(st, size, Append(str, c), chunk, chunked)
    BY <1>0, <2>1 DEF Object
  <2> QED BY <2>1, <2>2 DEF AddDigit
<1>4. ASSUME NEW n, NEW e, NEW s PROVE NewChunk(o, n, e, s) = Object(s, size, e, n, chunked)
  <2>1. PICK x : x = [o EXCEPT !.chunkSize = n, !.chunkSizeStr = e, !.state = s]
    OBVIOUS
  <2>2. x = Object(s, size, e, n, chunked)
    BY <1>0, <2>1 DEF Object
  <2> QED BY <2>1, <2>2 DEF NewChunk
<1> QED BY <1>0, <1>1, <1>2, <1>3, <1>4

(* ... and what is written to a configuration's object. *)
LEMMA ConfigWrites ==
  ASSUME NEW st, NEW o, NEW m, NEW p, p = Config(st, o, m), NEW x
  PROVE  /\ [p EXCEPT !.o.contentSize = x] = Config(st, Sized(o, x), m)
         /\ [p EXCEPT !.o.chunked = x] = Config(st, Chunked(o, x), m)
<1>1. [p EXCEPT !.o.contentSize = x] = Config(st, Sized(o, x), m)
  BY DEF Config, Start, Object, Sized
<1>2. [p EXCEPT !.o.chunked = x] = Config(st, Chunked(o, x), m)
  BY DEF Config, Start, Object, Chunked
<1> QED BY <1>1, <1>2

(* What an object counts has these fields. *)
LEMMA Counted ==
  ASSUME NEW o, NEW x, NEW str
  PROVE  /\ Sized(o, x).contentSize = x /\ Sized(o, x).chunkSizeStr = o.chunkSizeStr
         /\ Sized(o, x).chunkSize = o.chunkSize /\ Sized(o, x).chunked = o.chunked
         /\ Chunked(o, x).contentSize = o.contentSize /\ Chunked(o, x).chunkSizeStr = o.chunkSizeStr
         /\ Chunked(o, x).chunkSize = o.chunkSize /\ Chunked(o, x).chunked = x
         /\ Chunk(o, str, x).contentSize = o.contentSize /\ Chunk(o, str, x).chunkSizeStr = str
         /\ Chunk(o, str, x).chunkSize = x /\ Chunk(o, str, x).chunked = o.chunked
BY DEF Sized, Chunked, Chunk

(* What the object of a configuration counts. *)
LEMMA ConfigObject ==
  ASSUME NEW st, NEW o, NEW m
  PROVE  /\ Config(st, o, m).o.state = st /\ Config(st, o, m).o.contentSize = o.contentSize
         /\ Config(st, o, m).o.chunkSizeStr = o.chunkSizeStr /\ Config(st, o, m).o.chunkSize = o.chunkSize
         /\ Config(st, o, m).o.chunked = o.chunked
BY DEF Config, Start, Object

(* What the characters of a body and of a chunk's size write. *)
LEMMA BodyWrites ==
  ASSUME NEW st, NEW o, NEW m, NEW p, p = Config(st, o, m)
  PROVE  /\ \A c : PutPost(p, c) = Config(st, Sized(o, o.contentSize - 1), AddContent(m, c))
         /\ \A c, s : PutData(p, c, s) = Config(s, Chunk(o, o.chunkSizeStr, o.chunkSize - 1), AddContent(m, c))
         /\ \A c : PutDigit(p, c) = Config(st, Chunk(o, Append(o.chunkSizeStr, c), o.chunkSize), m)
         /\ \A n, e, s : PutChunkSize(p, n, e, s) = Config(s, Chunk(o, e, n), m)
<1>1. PICK y, a, b : /\ y = Object(st, o.contentSize, o.chunkSizeStr, o.chunkSize, o.chunked)
                     /\ a = "ParsingIncompleted" /\ b = 0
  OBVIOUS
<1>2. p = Parts(y, m, a, b)
  BY <1>1 DEF Config, Start, Parts
<1>a. LessSize(y) = Object(st, o.contentSize - 1, o.chunkSizeStr, o.chunkSize, o.chunked)
  BY <1>1, ObjectWrites
<1>b. ASSUME NEW s PROVE LessChunk(y, s) = Object(s, o.contentSize, o.chunkSizeStr, o.chunkSize - 1, o.chunked)
  BY <1>1, ObjectWrites
<1>c. ASSUME NEW c PROVE AddDigit(y, c) = Object(st, o.contentSize, Append(o.chunkSizeStr, c), o.chunkSize, o.chunked)
  BY <1>1, ObjectWrites
<1>d. ASSUME NEW n, NEW e, NEW s PROVE NewChunk(y, n, e, s) = Object(s, o.contentSize, e, n, o.chunked)
  BY <1>1, ObjectWrites
<1>e. ASSUME NEW c PROVE PutPost(p, c) = Parts(LessSize(y), AddContent(m, c), a, b)
  BY <1>2, PartWrites
<1>f. ASSUME NEW c, NEW s PROVE PutData(p, c, s) = Parts(LessChunk(y, s), AddContent(m, c), a, b)
  BY <1>2, PartWrites
<1>g. ASSUME NEW c PROVE PutDigit(p, c) = Parts(AddDigit(y, c), m, a, b)
  BY <1>2, PartWrites
<1>h. ASSUME NEW n, NEW e, NEW s PROVE PutChunkSize(p, n, e, s) = Parts(NewChunk(y, n, e, s), m, a, b)
  BY <1>2, PartWrites
<1>4. \A z, k : Parts(z, k, a, b) = Start(z, k)
  BY <1>1 DEF Parts, Start
<1>5. ASSUME NEW c PROVE PutPost(p, c) = Config(st, Sized(o, o.contentSize - 1), AddContent(m, c))
  BY <1>4, <1>a, <1>e DEF Config, Sized
<1>6. ASSUME NEW c, NEW s PROVE PutData(p, c, s) = Config(s, Chunk(o, o.chunkSizeStr, o.chunkSize - 1), AddContent(m, c))
  BY <1>4, <1>b, <1>f DEF Config, Chunk
<1>7. ASSUME NEW c PROVE PutDigit(p, c) = Config(st, Chunk(o, Append(o.chunkSizeStr, c), o.chunkSize), m)
  BY <1>4, <1>c, <1>g DEF Config, Chunk
<1>8. ASSUME NEW n, NEW e, NEW s PROVE PutChunkSize(p, n, e, s) = Config(s, Chunk(o, e, n), m)
  BY <1>4, <1>d, <1>h DEF Config, Chunk
<1> QED BY <1>5, <1>6, <1>7, <1>8

(* A message that has ended, in the state in which it did. *)
Done(state, o, m) == With(Config(state, o, m), "ParsingCompleted")

(* A character behind a body that is filled in. *)
LEMMA Added ==
  ASSUME NEW m, IsMessage(m), NEW hs, NEW ct, NEW ka, NEW c
  PROVE  AddContent(Filled(m, hs, ct, ka), c) = Filled(m, hs, Append(ct, c), ka)
<1>1. PICK q, z : q = Filled(m, hs, ct, ka) /\ z = Append(ct, c)
  OBVIOUS
<1>2. q.content = ct
  BY <1>1, FilledFields
<1>3. AddContent(q, c) = PutContent(q, z)
  BY <1>1, <1>2 DEF AddContent, PutContent
<1>4. PutContent(q, z) = Filled(m, hs, z, ka)
  BY <1>1, Refilled
<1> QED BY <1>1, <1>3, <1>4

(* Whether a message may have a body is said by its first line. *)
LEMMA BodyAllowed ==
  ASSUME NEW m, IsMessage(m), NEW hs, NEW ct, NEW ka
  PROVE  MayHaveBody(Filled(m, hs, ct, ka)) = MayHaveBody(m)
<1>1. DOMAIN Filled(m, hs, ct, ka) = DOMAIN m
      /\ ("method" \in DOMAIN m => Filled(m, hs, ct, ka)["method"] = m["method"])
  BY FilledFields
<1> QED BY <1>1 DEF MayHaveBody

(* The end of a header's line: of one that does not frame the body ... *)
LEMMA DoLine ==
  ASSUME NEW m, IsMessage(m), NEW st, NEW o, NEW hs \in Seq(Heads), NEW h \in Heads, NEW ct, NEW ka, NEW c,
         h.name \notin {<<"Content-Length">>, <<"Transfer-Encoding">>}
  PROVE  Do("line", Config(st, o, Filled(m, Append(hs, h), ct, ka)), c) = Config(st, o, Filled(m, Append(hs, h), ct, ka))
<1>1. PICK x : x = Append(hs, h)
  OBVIOUS
<1>2. PICK q : q = Filled(m, x, ct, ka)
  OBVIOUS
<1>3. PICK p : p = Config(st, o, q)
  OBVIOUS
<1>4. p.m = q /\ q.headers = x
  BY <1>2, <1>3, ConfigFields, FilledFields
<1>5. x # <<>> /\ Last(x) = h
  BY <1>1, LastHeader
<1>6. Do("line", p, c) = HeaderDone(p)
  BY DEF Do
<1>7. HeaderDone(p) = p
  BY <1>4, <1>5 DEF HeaderDone
<1> QED BY <1>1, <1>2, <1>3, <1>6, <1>7

(* ... and of the one that does, by what it makes of the object. *)
Frames(h, o, n) ==
  \/ h.name = <<"Content-Length">> /\ n = Sized(o, Atoi(h.value))
  \/ h.name = <<"Transfer-Encoding">> /\ h.value = <<"chunked">> /\ n = Chunked(o, TRUE)

(* The line of a header that frames the body tells the object so. *)
LEMMA DoFraming ==
  ASSUME NEW m, IsMessage(m), MayHaveBody(m), NEW st, NEW o, NEW hs \in Seq(Heads), NEW h \in Heads,
         NEW ct, NEW ka, NEW c, NEW n, Frames(h, o, n)
  PROVE  Do("line", Config(st, o, Filled(m, Append(hs, h), ct, ka)), c)
           = Config(st, n, Filled(m, Append(hs, h), ct, ka))
<1>1. PICK x : x = Append(hs, h)
  OBVIOUS
<1>2. PICK q : q = Filled(m, x, ct, ka)
  OBVIOUS
<1>3. PICK p : p = Config(st, o, q)
  OBVIOUS
<1>4. p.m = q /\ q.headers = x /\ MayHaveBody(q)
  BY <1>2, <1>3, ConfigFields, FilledFields, BodyAllowed
<1>5. x # <<>> /\ Last(x) = h
  BY <1>1, LastHeader
<1>6. Do("line", p, c) = HeaderDone(p)
  BY DEF Do
<1>a. <<"Content-Length">> # <<"Transfer-Encoding">>
  <2>1. PICK a, b : a = <<"Content-Length">> /\ b = <<"Transfer-Encoding">>
    OBVIOUS
  <2>2. a[1] = "Content-Length" /\ b[1] = "Transfer-Encoding"
    BY <2>1
  <2>3. a # b
    BY <2>2
  <2> QED BY <2>1, <2>3
<1>7. HeaderDone(p) = Config(st, n, q)
  <2>1. CASE h.name = <<"Content-Length">> /\ n = Sized(o, Atoi(h.value))
    <3>1. PICK k : k = Atoi(h.value)
      OBVIOUS
    <3>2. HeaderDone(p) = [p EXCEPT !.o.contentSize = k]
      BY <1>4, <1>5, <2>1, <3>1 DEF HeaderDone
    <3>3. [p EXCEPT !.o.contentSize = k] = Config(st, Sized(o, k), q)
      BY <1>3, ConfigWrites
    <3> QED BY <2>1, <3>1, <3>2, <3>3
  <2>2. CASE h.name = <<"Transfer-Encoding">> /\ h.value = <<"chunked">> /\ n = Chunked(o, TRUE)
    <3>1. PICK t : t = TRUE
      OBVIOUS
    <3>2. HeaderDone(p) = [p EXCEPT !.o.chunked = t]
      BY <1>4, <1>5, <1>a, <2>2, <3>1 DEF HeaderDone
    <3>3. [p EXCEPT !.o.chunked = t] = Config(st, Chunked(o, t), q)
      BY <1>3, ConfigWrites
    <3> QED BY <2>2, <3>1, <3>2, <3>3
  <2> QED BY <2>1, <2>2 DEF Frames
<1> QED BY <1>1, <1>2, <1>3, <1>6, <1>7

(* The end of the headers. *)
LEMMA DoHeaders ==
  ASSUME NEW m, IsMessage(m), NEW hs, NEW ct, NEW ka, NEW o, NEW st
  PROVE  LET q == Filled(m, hs, ct, ka)
             x == Filled(m, hs, ct, KeepsAlive(q))
         IN  /\ o.chunked => Do("headers", Config(st, o, q), LF) = Config("ChunkSize", o, x)
             /\ ~o.chunked /\ o.contentSize # 0 => Do("headers", Config(st, o, q), LF) = Config("Post", o, x)
             /\ ~o.chunked /\ o.contentSize = 0 => Do("headers", Config(st, o, q), LF) = Done(st, o, x)
<1>1. PICK q : q = Filled(m, hs, ct, ka)
  OBVIOUS
<1>2. PICK k : k = KeepsAlive(q)
  OBVIOUS
<1>3. PICK x : x = Filled(m, hs, ct, k)
  OBVIOUS
<1>4. PICK p : p = Config(st, o, q)
  OBVIOUS
<1>5. PICK y : y = Config(st, o, x)
  OBVIOUS
<1>6. p.m = q
  BY <1>4, ConfigFields
<1>7. PICK w : w = [p EXCEPT !.m.keepAlive = KeepsAlive(p.m)]
  OBVIOUS
<1>8. w = PutMessage(p, PutKeepAlive(q, k))
  BY <1>2, <1>4, <1>6, <1>7 DEF Config, Start, PutMessage, PutKeepAlive
<1>9. PutKeepAlive(q, k) = x
  BY <1>1, <1>3, Refilled
<1>10. w = y
  BY <1>4, <1>5, <1>8, <1>9, ConfigFields
<1>11. Do("headers", p, LF) = HeadersDone(p, LF)
  BY DEF Do
<1>12. y.o.chunked = o.chunked /\ y.o.contentSize = o.contentSize
  BY <1>5, ConfigObject
<1>13. HeadersDone(p, LF) = CASE y.o.chunked -> Goto(y, "ChunkSize")
                              [] ~y.o.chunked /\ y.o.contentSize # 0 -> Goto(y, "Post")
                              [] OTHER -> With(y, "ParsingCompleted")
  BY <1>7, <1>10 DEF HeadersDone
<1>14. /\ o.chunked => HeadersDone(p, LF) = Goto(y, "ChunkSize")
       /\ ~o.chunked /\ o.contentSize # 0 => HeadersDone(p, LF) = Goto(y, "Post")
       /\ ~o.chunked /\ o.contentSize = 0 => HeadersDone(p, LF) = With(y, "ParsingCompleted")
  BY <1>12, <1>13
<1>15. \A s : Goto(y, s) = Config(s, o, x)
  BY <1>5, ConfigFields
<1> QED BY <1>1, <1>2, <1>3, <1>4, <1>5, <1>11, <1>14, <1>15 DEF Done

(* One more character of a body ... *)
LEMMA DoPost ==
  ASSUME NEW st, NEW o, NEW m, NEW c
  PROVE  /\ o.contentSize - 1 = 0 =>
              Do("post", Config(st, o, m), c) = Done(st, Sized(o, o.contentSize - 1), AddContent(m, c))
         /\ o.contentSize - 1 # 0 =>
              Do("post", Config(st, o, m), c) = Config(st, Sized(o, o.contentSize - 1), AddContent(m, c))
<1>1. PICK p : p = Config(st, o, m)
  OBVIOUS
<1>2. PICK n : n = o.contentSize - 1
  OBVIOUS
<1>3. PICK y : y = Config(st, Sized(o, n), AddContent(m, c))
  OBVIOUS
<1>4. Do("post", p, c) = Posted(p, c)
  BY DEF Do
<1>5. PutPost(p, c) = y
  BY <1>1, <1>2, <1>3, BodyWrites
<1>6. Posted(p, c) = IF PutPost(p, c).o.contentSize = 0 THEN With(PutPost(p, c), "ParsingCompleted") ELSE PutPost(p, c)
  BY Zenon DEF Posted, PutPost
<1>7. y.o.contentSize = n
  <2>1. PICK z : z = Sized(o, n)
    OBVIOUS
  <2> QED BY <1>3, <2>1, ConfigObject, Counted
<1> QED BY <1>1, <1>2, <1>3, <1>4, <1>5, <1>6, <1>7 DEF Done

(* ... and of a chunk. *)
LEMMA DoData ==
  ASSUME NEW o, NEW m, NEW c
  PROVE  Do("data", Config("ChunkData", o, m), c)
           = Config(IF o.chunkSize = 1 THEN "ChunkDataNewLine_1" ELSE "ChunkData",
                    Chunk(o, o.chunkSizeStr, o.chunkSize - 1), AddContent(m, c))
<1>1. PICK p, s : p = Config("ChunkData", o, m) /\ s = IF o.chunkSize = 1 THEN "ChunkDataNewLine_1" ELSE "ChunkData"
  OBVIOUS
<1>2. Do("data", p, c) = Data(p, c)
  BY DEF Do
<1>3. p.o.chunkSize = o.chunkSize /\ p.o.state = "ChunkData"
  BY <1>1, ConfigObject
<1>4. PICK t : t = IF p.o.chunkSize = 1 THEN "ChunkDataNewLine_1" ELSE p.o.state
  OBVIOUS
<1>5. t = s
  BY <1>1, <1>3, <1>4
<1>6. Data(p, c) = PutData(p, c, t)
  <2>1. PICK z : z = [p EXCEPT !.m.content = Append(@, c), !.o.chunkSize = @ - 1,
                               !.o.state = IF p.o.chunkSize = 1 THEN "ChunkDataNewLine_1" ELSE @]
    OBVIOUS
  <2>2. PICK y : y = [p EXCEPT !.m.content = Append(@, c), !.o.chunkSize = @ - 1, !.o.state = t]
    OBVIOUS
  <2>3. Data(p, c) = z
    BY <2>1 DEF Data
  <2>4. PutData(p, c, t) = y
    BY <2>2 DEF PutData
  <2>5. z = y
    <3>1. PICK a, b, d, e, m1 : p = [o |-> a, m |-> m1, result |-> b, remainSize |-> d]
      BY <1>1 DEF Config, Start
    <3> QED BY <1>1, <1>4, <2>1, <2>2 DEF Config, Start, Object
  <2> QED BY <2>3, <2>4, <2>5
<1>7. PutData(p, c, s) = Config(s, Chunk(o, o.chunkSizeStr, o.chunkSize - 1), AddContent(m, c))
  BY <1>1, BodyWrites
<1> QED BY <1>1, <1>2, <1>5, <1>6, <1>7

(* A chunk's size, its end and the end of the last one. *)
LEMMA DoSize ==
  ASSUME NEW m, NEW o, NEW c, NEW st
  PROVE  /\ Do("size", Config(st, o, m), c) = Config(st, Chunk(o, Append(o.chunkSizeStr, c), o.chunkSize), m)
         /\ Do("complete", Config(st, o, m), c) = Done(st, o, m)
         /\ Do("sizeDone", Config(st, o, m), c)
              = Config(IF Leading(o.chunkSizeStr, HexOf, 16) = 0 THEN "ChunkSizeNewLine_2" ELSE "ChunkData",
                       Chunk(o, <<>>, Leading(o.chunkSizeStr, HexOf, 16)), m)
<1>1. PICK p : p = Config(st, o, m)
  OBVIOUS
<1>2. Do("size", p, c) = PutDigit(p, c)
  BY DEF Do, PutDigit
<1>3. PutDigit(p, c) = Config(st, Chunk(o, Append(o.chunkSizeStr, c), o.chunkSize), m)
  BY <1>1, BodyWrites
<1>4. Do("sizeDone", p, c) = SizeDone(p)
  BY DEF Do
<1>5. PICK n, e : n = Leading(o.chunkSizeStr, HexOf, 16) /\ e = <<>>
  OBVIOUS
<1>6. PICK s : s = IF n = 0 THEN "ChunkSizeNewLine_2" ELSE "ChunkData"
  OBVIOUS
<1>7. p.o.chunkSizeStr = o.chunkSizeStr
  BY <1>1, ConfigObject
<1>8. SizeDone(p) = PutChunkSize(p, n, e, s)
  BY <1>5, <1>6, <1>7 DEF SizeDone, PutChunkSize
<1>9. PutChunkSize(p, n, e, s) = Config(s, Chunk(o, e, n), m)
  BY <1>1, BodyWrites
<1>10. Do("complete", p, c) = Done(st, o, m)
  BY <1>1 DEF Do, Done
<1> QED BY <1>1, <1>2, <1>3, <1>4, <1>5, <1>6, <1>8, <1>9, <1>10

----------------------------------------
(* Texts that are put together of texts *)

(* What flattening the first of several texts gives. *)
Joins(f, s) == f \in [1 .. Len(s) -> Strings] /\ f[1] = s[1] /\ \A i \in 2 .. Len(s) : f[i] = f[i - 1] \o s[i]

(* Flattening a sequence of texts, which is a recursion, joins them one by
   one. *)
LEMMA Flattens ==
  ASSUME NEW s \in Seq(Strings), s # <<>>
  PROVE  \E f : Joins(f, s) /\ FlattenSeq(s) = f[Len(s)]
<1> DEFINE N == Len(s)
           Rec(f) == f = [i \in 1 .. N |-> IF i = 1 THEN s[i] ELSE f[i - 1] \o s[i]]
<1>0. N \in Nat \ {0} /\ \A i \in 1 .. N : s[i] \in Strings
  BY LenProperties, EmptySeq, ElementOfSeq
<1>1. FlattenSeq(s) = (CHOOSE f : Rec(f))[N]
  BY <1>0 DEF FlattenSeq
<1>2. \E f : Rec(f)
  <2> DEFINE g == [x \in (1 .. N - 1) \X Strings |-> x[2] \o s[x[1] + 1]]
  <2>1. g \in [(1 .. N - 1) \X Strings -> Strings]
    <3> SUFFICES ASSUME NEW x \in (1 .. N - 1) \X Strings PROVE x[2] \o s[x[1] + 1] \in Strings
      OBVIOUS
    <3>1. PICK i, t : i = x[1] /\ t = x[2]
      OBVIOUS
    <3>2. i + 1 \in 1 .. N /\ t \in Strings
      BY <1>0, <3>1
    <3>3. s[i + 1] \in Strings
      BY <1>0, <3>2
    <3>4. t \o s[i + 1] \in Strings
      BY <3>2, <3>3, ConcatProperties
    <3> QED BY <3>1, <3>4
  <2>2. \A i \in 1 .. N - 1, t \in Strings : g[<<i, t>>] = t \o s[i + 1]
    OBVIOUS
  <2> HIDE DEF g
  <2>3. PICK h : Unfolds(h, Strings, s[1], g, N - 1)
    <3>1. N - 1 \in Nat /\ s[1] \in Strings
      BY <1>0
    <3>2. PICK S, n : S = Strings /\ n = N - 1
      OBVIOUS
    <3> HIDE DEF N
    <3> QED BY <2>1, <3>1, <3>2, UnfoldsExist
  <2>4. h \in [0 .. N - 1 -> Strings] /\ h[0] = s[1] /\ \A i \in 1 .. N - 1 : h[i] = g[<<i, h[i - 1]>>]
    BY <2>3 DEF Unfolds
  <2> DEFINE f == [i \in 1 .. N |-> h[i - 1]]
  <2>5. \A i \in 1 .. N : f[i] = IF i = 1 THEN s[i] ELSE f[i - 1] \o s[i]
    <3> SUFFICES ASSUME NEW i \in 1 .. N PROVE f[i] = IF i = 1 THEN s[i] ELSE f[i - 1] \o s[i]
      OBVIOUS
    <3>1. CASE i = 1
      BY <2>4, <3>1
    <3>2. CASE i # 1
      <4>1. i - 1 \in 1 .. N - 1 /\ i - 1 \in 1 .. N /\ (i - 1) - 1 \in 0 .. N - 1 /\ (i - 1) + 1 = i
        BY <1>0, <3>2
      <4>2. h[(i - 1) - 1] \in Strings
        BY <2>4, <4>1
      <4>3. h[i - 1] = g[<<i - 1, h[(i - 1) - 1]>>]
        BY <2>4, <4>1
      <4>4. h[i - 1] = h[(i - 1) - 1] \o s[i]
        BY <2>2, <4>1, <4>2, <4>3
      <4>5. f[i] = h[i - 1] /\ f[i - 1] = h[(i - 1) - 1]
        BY <4>1
      <4> HIDE DEF f
      <4> QED BY <3>2, <4>4, <4>5
    <3> QED BY <3>1, <3>2
  <2>6. f = [i \in 1 .. N |-> f[i]]
    OBVIOUS
  <2> HIDE DEF f
  <2>7. f = [i \in 1 .. N |-> IF i = 1 THEN s[i] ELSE f[i - 1] \o s[i]]
    BY <2>5, <2>6
  <2> QED BY <2>7
<1>3. PICK f : Rec(f) /\ f = CHOOSE h : Rec(h)
  <2> HIDE DEF Rec
  <2> QED BY <1>2
<1>4. \A i \in 1 .. N : f[i] = IF i = 1 THEN s[i] ELSE f[i - 1] \o s[i]
  BY <1>3
<1>5. f = [i \in 1 .. N |-> f[i]]
  <2>1. f = [i \in 1 .. N |-> IF i = 1 THEN s[i] ELSE f[i - 1] \o s[i]]
    BY <1>3
  <2> QED BY <2>1
<1> HIDE DEF Rec
<1> DEFINE B == {i \in 1 .. N : f[i] \notin Strings}
<1>6. B = {}
  <2> SUFFICES ASSUME B # {} PROVE FALSE
    OBVIOUS
  <2>1. PICK k \in B : \A j \in B : k <= j
    <3>1. B \subseteq Nat
      OBVIOUS
    <3> HIDE DEF B
    <3> QED BY <3>1, Least
  <2>2. k \in 1 .. N /\ f[k] \notin Strings
    OBVIOUS
  <2>3. s[k] \in Strings
    BY <1>0, <2>2
  <2>4. k # 1
    BY <1>4, <2>2, <2>3
  <2>5. k - 1 \in 1 .. N /\ ~ (k <= k - 1)
    BY <1>0, <2>2, <2>4
  <2>6. f[k - 1] \in Strings
    BY <2>1, <2>5
  <2>7. f[k] = f[k - 1] \o s[k]
    BY <1>4, <2>2, <2>4
  <2>8. f[k - 1] \o s[k] \in Strings
    BY <2>3, <2>6, ConcatProperties
  <2> QED BY <2>2, <2>7, <2>8
<1>7. f \in [1 .. N -> Strings]
  BY <1>5, <1>6
<1>8. Joins(f, s)
  <2>1. 1 \in 1 .. N /\ \A i \in 2 .. N : i \in 1 .. N /\ i # 1
    BY <1>0
  <2> QED BY <1>4, <1>7, <2>1 DEF Joins
<1> QED BY <1>1, <1>3, <1>8

(* Texts that are read one after the other are read as one. *)
LEMMA ReachesFlat ==
  ASSUME NEW table, NEW s \in Seq(Strings), NEW g,
         \A i \in 1 .. Len(s) : Reaches(table, g[i - 1], s[i], g[i])
  PROVE  Reaches(table, g[0], FlattenSeq(s), g[Len(s)]) /\ FlattenSeq(s) \in Strings
<1> DEFINE N == Len(s)
<1>1. CASE s = <<>>
  <2>1. Len(s) = 0 /\ FlattenSeq(s) = <<>>
    BY <1>1 DEF FlattenSeq
  <2>2. <<>> \in Strings
    BY EmptySeq
  <2> QED BY <2>1, <2>2, ReachesNone
<1>2. CASE s # <<>>
  <2>0. N \in Nat \ {0} /\ \A i \in 1 .. N : s[i] \in Strings
    BY <1>2, LenProperties, EmptySeq, ElementOfSeq
  <2>1. PICK f : Joins(f, s) /\ FlattenSeq(s) = f[N]
    BY <1>2, Flattens
  <2>2. /\ f \in [1 .. N -> Strings] /\ f[1] = s[1]
        /\ \A i \in 2 .. N : f[i] = f[i - 1] \o s[i]
    BY <2>1 DEF Joins
  <2> DEFINE B == {i \in 1 .. N : ~ Reaches(table, g[0], f[i], g[i])}
  <2>3. B = {}
    <3> SUFFICES ASSUME B # {} PROVE FALSE
      OBVIOUS
    <3>1. PICK k \in B : \A j \in B : k <= j
      <4>1. B \subseteq Nat
        OBVIOUS
      <4> HIDE DEF B
      <4> QED BY <4>1, Least
    <3>2. k \in 1 .. N /\ ~ Reaches(table, g[0], f[k], g[k])
      OBVIOUS
    <3>3. CASE k = 1
      BY <2>0, <2>2, <3>2, <3>3
    <3>4. CASE k # 1
      <4>1. k - 1 \in 1 .. N /\ ~ (k <= k - 1) /\ k \in 2 .. N
        BY <2>0, <3>2, <3>4
      <4>2. Reaches(table, g[0], f[k - 1], g[k - 1])
        BY <3>1, <4>1
      <4>3. Reaches(table, g[k - 1], s[k], g[k])
        BY <3>2
      <4>4. f[k - 1] \in Strings /\ s[k] \in Strings
        BY <2>0, <2>2, <3>2, <4>1
      <4>5. Reaches(table, g[0], f[k - 1] \o s[k], g[k])
        BY <4>2, <4>3, <4>4, ReachesThen
      <4> QED BY <2>2, <3>2, <4>1, <4>5
    <3> QED BY <3>3, <3>4
  <2>4. N \in 1 .. N
    BY <2>0
  <2>5. Reaches(table, g[0], f[N], g[N]) /\ f[N] \in Strings
    BY <2>2, <2>3, <2>4
  <2> QED BY <2>1, <2>5
<1> QED BY <1>1, <1>2

----------------------------------------
(* Header lines *)

(* The rules of headers and bodies are those of both parsers. *)
LEMMA SharedLeads ==
  ASSUME NEW table \in {RequestTable, ResponseTable}, NEW state, NEW on, NEW next, NEW do,
         Rule(state, on, next, do) \in HeaderLines \cup Body \cup Chunks
  PROVE  Leads(table, state, on, next, do)
<1>1. Rule(state, on, next, do) \in RequestRules /\ Rule(state, on, next, do) \in ResponseRules
  BY DEF RequestRules, ResponseRules, ResponseHeaderLines, ResponseBody, ResponseChunks
<1>2. CASE table = RequestTable
  BY <1>1, <1>2, TablesKnow, RuleLeads
<1>3. CASE table = ResponseTable
  BY <1>1, <1>3, TablesKnow, RuleLeads
<1> QED BY <1>2, <1>3

(* A step is one for some of its characters, too. *)
LEMMA LeadsPart ==
  ASSUME NEW table, NEW state, NEW on, NEW next, NEW do, Leads(table, state, on, next, do),
         NEW part, part \subseteq on
  PROVE  Leads(table, state, part, next, do)
BY DEF Leads

(* The rules of header lines that a written header uses. *)
HeaderLeads(table) ==
  /\ Leads(table, "HeaderLineStart", {CR}, "ExpectingNewline_3", "skip")
  /\ Leads(table, "HeaderLineStart", {TAB}, "HeaderLws", "fold")
  /\ Leads(table, "HeaderLineStart", Token, "HeaderName", "header")
  /\ Leads(table, "HeaderLws", Visible, "HeaderValue", "value")
  /\ Leads(table, "HeaderName", Token, "HeaderName", "name")
  /\ Leads(table, "HeaderName", {":"}, "SpaceBeforeHeaderValue", "skip")
  /\ Leads(table, "SpaceBeforeHeaderValue", {SP}, "HeaderValue", "skip")
  /\ Leads(table, "HeaderValue", Visible, "HeaderValue", "value")
  /\ Leads(table, "HeaderValue", {CR}, "ExpectingNewline_2", "line")
  /\ Leads(table, "ExpectingNewline_2", {LF}, "HeaderLineStart", "skip")
  /\ Leads(table, "ExpectingNewline_3", {LF}, "ExpectingNewline_3", "headers")

(* Both parsers have these rules. *)
LEMMA TablesLeadHeaders == \A table \in {RequestTable, ResponseTable} : HeaderLeads(table)
<1> SUFFICES ASSUME NEW table \in {RequestTable, ResponseTable} PROVE HeaderLeads(table)
  OBVIOUS
<1>1. \A state, on, next, do : Rule(state, on, next, do) \in HeaderLines => Leads(table, state, on, next, do)
  <2> SUFFICES ASSUME NEW state, NEW on, NEW next, NEW do, Rule(state, on, next, do) \in HeaderLines
               PROVE  Leads(table, state, on, next, do)
    OBVIOUS
  <2>1. Rule(state, on, next, do) \in HeaderLines \cup Body \cup Chunks
    OBVIOUS
  <2> QED BY <2>1, SharedLeads
<1>2. /\ Rule("HeaderLineStart", {CR}, "ExpectingNewline_3", "skip") \in HeaderLines
      /\ Rule("HeaderLineStart", {SP, TAB}, "HeaderLws", "fold") \in HeaderLines
      /\ Rule("HeaderLineStart", Token, "HeaderName", "header") \in HeaderLines
      /\ Rule("HeaderLws", AnyClass \ (Control \cup {SP}), "HeaderValue", "value") \in HeaderLines
      /\ Rule("HeaderName", Token, "HeaderName", "name") \in HeaderLines
      /\ Rule("HeaderName", {":"}, "SpaceBeforeHeaderValue", "skip") \in HeaderLines
      /\ Rule("SpaceBeforeHeaderValue", {SP}, "HeaderValue", "skip") \in HeaderLines
      /\ Rule("HeaderValue", AnyClass \ Control, "HeaderValue", "value") \in HeaderLines
      /\ Rule("HeaderValue", {CR}, "ExpectingNewline_2", "line") \in HeaderLines
      /\ Rule("ExpectingNewline_2", {LF}, "HeaderLineStart", "skip") \in HeaderLines
      /\ Rule("ExpectingNewline_3", AnyClass, "ExpectingNewline_3", "headers") \in HeaderLines
  BY DEF HeaderLines
<1>3. /\ Leads(table, "HeaderLineStart", {CR}, "ExpectingNewline_3", "skip")
      /\ Leads(table, "HeaderLineStart", {SP, TAB}, "HeaderLws", "fold")
      /\ Leads(table, "HeaderLineStart", Token, "HeaderName", "header")
      /\ Leads(table, "HeaderLws", AnyClass \ (Control \cup {SP}), "HeaderValue", "value")
      /\ Leads(table, "HeaderName", Token, "HeaderName", "name")
      /\ Leads(table, "HeaderName", {":"}, "SpaceBeforeHeaderValue", "skip")
      /\ Leads(table, "SpaceBeforeHeaderValue", {SP}, "HeaderValue", "skip")
      /\ Leads(table, "HeaderValue", AnyClass \ Control, "HeaderValue", "value")
      /\ Leads(table, "HeaderValue", {CR}, "ExpectingNewline_2", "line")
      /\ Leads(table, "ExpectingNewline_2", {LF}, "HeaderLineStart", "skip")
      /\ Leads(table, "ExpectingNewline_3", AnyClass, "ExpectingNewline_3", "headers")
  BY <1>1, <1>2
<1>4. {TAB} \subseteq {SP, TAB} /\ Visible \subseteq AnyClass \ Control /\ Visible = AnyClass \ (Control \cup {SP})
  BY DEF Visible
<1>5. {LF} \subseteq AnyClass
  BY Marks
<1>6. Leads(table, "HeaderLineStart", {TAB}, "HeaderLws", "fold")
  BY <1>3, <1>4, LeadsPart
<1>7. Leads(table, "HeaderLws", Visible, "HeaderValue", "value")
  BY <1>3, <1>4
<1>8. Leads(table, "HeaderValue", Visible, "HeaderValue", "value")
  BY <1>3, <1>4, LeadsPart
<1>9. Leads(table, "ExpectingNewline_3", {LF}, "ExpectingNewline_3", "headers")
  BY <1>3, <1>5, LeadsPart
<1> QED BY <1>3, <1>6, <1>7, <1>8, <1>9 DEF HeaderLeads

(* The name of a header. *)
LEMMA ReadsName ==
  ASSUME NEW table, HeaderLeads(table), NEW m, IsMessage(m), NEW o, NEW hs \in Seq(Heads), NEW ct, NEW ka,
         NEW name, Spelt(name, Token)
  PROVE  Reaches(table, Config("HeaderLineStart", o, Filled(m, hs, ct, ka)), name,
                 Config("HeaderName", o, Filled(m, Append(hs, Header(name, <<>>)), ct, ka)))
<1>1. name \in Strings /\ name # <<>> /\ \A i \in 1 .. Len(name) : Class(name[i]) \in Token
  BY DEF Spelt
<1>2. Len(name) \in Nat \ {0}
  BY <1>1, LenProperties, EmptySeq
<1> DEFINE At(i) == Config("HeaderName", o, Filled(m, Append(hs, Header(SubSeq(name, 1, i), <<>>)), ct, ka))
           f == [i \in 0 .. Len(name) |-> IF i = 0 THEN Config("HeaderLineStart", o, Filled(m, hs, ct, ka)) ELSE At(i)]
<1>3. ASSUME NEW i \in 1 .. Len(name) PROVE Consume(table, f[i - 1], name[i]) = {f[i]}
  <2>1. i \in 0 .. Len(name) /\ i - 1 \in 0 .. Len(name) /\ i # 0 /\ Class(name[i]) \in Token /\ name[i] \in Symbols
    BY <1>1, <1>2, ElementOfSeq
  <2>2. PICK t : t = SubSeq(name, 1, i - 1)
    OBVIOUS
  <2>3. t \in Strings /\ Append(t, name[i]) = SubSeq(name, 1, i)
    <3>1. t \in Strings
      BY <1>1, <1>2, <2>1, <2>2, SubSeqProperties, ElementOfSeq
    <3>2. PICK a : a = <<>> /\ a \in Strings
      BY EmptySeq
    <3>3. Append(a \o t, name[i]) = a \o SubSeq(name, 1, i)
      BY <1>1, <2>2, <3>2, Grow
    <3>4. a \o t = t /\ a \o SubSeq(name, 1, i) = SubSeq(name, 1, i)
      <4>1. SubSeq(name, 1, i) \in Strings
        BY <1>1, <1>2, <2>1, SubSeqProperties, ElementOfSeq
      <4> QED BY <3>1, <3>2, <4>1
    <3> QED BY <3>1, <3>3, <3>4
  <2>4. f[i] = At(i)
    BY <2>1
  <2>5. CASE i = 1
    <3>1. f[i - 1] = Config("HeaderLineStart", o, Filled(m, hs, ct, ka))
      BY <2>1, <2>5
    <3>2. SubSeq(name, 1, i) = <<name[i]>>
      <4>1. i - 1 = 0
        BY <2>5
      <4>2. t = <<>>
        <5>1. PICK k : k = i - 1
          OBVIOUS
        <5>2. PICK z : z = 0
          OBVIOUS
        <5>3. t = SubSeq(name, 1, z)
          BY <2>2, <4>1, <5>2
        <5> QED BY <1>1, <5>2, <5>3, Whole
      <4>3. SubSeq(name, 1, i) = Append(t, name[i])
        BY <2>3
      <4>4. Append(<<>>, name[i]) = <<name[i]>>
        OBVIOUS
      <4> QED BY <4>2, <4>3, <4>4
    <3> HIDE DEF f
    <3>3. PICK p : p = Filled(m, hs, ct, ka)
      OBVIOUS
    <3>4. Consume(table, Config("HeaderLineStart", o, p), name[i]) = {Do("header", Config("HeaderName", o, p), name[i])}
      BY <2>1 DEF HeaderLeads, Leads
    <3>5. Do("header", Config("HeaderName", o, p), name[i])
            = Config("HeaderName", o, Filled(m, Append(hs, Header(<<name[i]>>, <<>>)), ct, ka))
      BY <3>3, DoHeader
    <3> QED BY <2>4, <3>1, <3>2, <3>3, <3>4, <3>5
  <2>6. CASE i # 1
    <3>1. i - 1 # 0 /\ f[i - 1] = At(i - 1)
      BY <2>1, <2>6
    <3> HIDE DEF f
    <3>2. PICK h : h = Header(t, <<>>)
      OBVIOUS
    <3>3. h \in Heads /\ Longer(h, "name", name[i]) = Header(Append(t, name[i]), <<>>)
      <4>1. <<>> \in Strings
        BY EmptySeq
      <4>2. PICK e, l : e = <<>> /\ l = [h EXCEPT !["name"] = Append(@, name[i])]
        OBVIOUS
      <4>3. l = Header(Append(t, name[i]), e)
        BY <3>2, <4>2 DEF Header
      <4> QED BY <2>3, <3>2, <4>1, <4>2, <4>3 DEF Header, Heads, Longer
    <3>4. PICK p : p = Filled(m, Append(hs, h), ct, ka)
      OBVIOUS
    <3>5. Consume(table, Config("HeaderName", o, p), name[i]) = {Do("name", Config("HeaderName", o, p), name[i])}
      BY <2>1 DEF HeaderLeads, Leads
    <3>6. Do("name", Config("HeaderName", o, p), name[i])
            = Config("HeaderName", o, Filled(m, Append(hs, Longer(h, "name", name[i])), ct, ka))
      BY <2>1, <3>3, <3>4, DoField
    <3> QED BY <2>2, <2>3, <2>4, <3>1, <3>2, <3>3, <3>4, <3>5, <3>6
  <2> QED BY <2>5, <2>6
<1>4. f[0] = Config("HeaderLineStart", o, Filled(m, hs, ct, ka))
  BY <1>2
<1>5. f[Len(name)] = Config("HeaderName", o, Filled(m, Append(hs, Header(name, <<>>)), ct, ka))
  <2>1. SubSeq(name, 1, Len(name)) = name
    BY <1>1, Whole
  <2>2. f[Len(name)] = At(Len(name))
    BY <1>2
  <2> QED BY <2>1, <2>2
<1> HIDE DEF f
<1>6. Reaches(table, f[0], name, f[Len(name)])
  BY <1>3, ReachesAll
<1> QED BY <1>4, <1>5, <1>6

(* A word of its value, behind others. *)
LEMMA ReadsValue ==
  ASSUME NEW table, HeaderLeads(table), NEW m, IsMessage(m), NEW o, NEW hs \in Seq(Heads), NEW ct, NEW ka,
         NEW name \in Strings, NEW a \in Strings, NEW s, Spelt(s, Visible),
         NEW first \in {"HeaderLws", "HeaderValue"}
  PROVE  Reaches(table, Config(first, o, Filled(m, Append(hs, Header(name, a)), ct, ka)), s,
                 Config("HeaderValue", o, Filled(m, Append(hs, Header(name, a \o s)), ct, ka)))
<1> DEFINE gather == [t \in Strings |-> Filled(m, Append(hs, Header(name, t)), ct, ka)]
<1>1. ASSUME NEW t \in Strings, NEW c \in Symbols
      PROVE  Do("value", Config("HeaderValue", o, gather[t]), c) = Config("HeaderValue", o, gather[Append(t, c)])
  <2>1. Append(t, c) \in Strings
    BY AppendProperties
  <2>2. PICK h : h = Header(name, t)
    OBVIOUS
  <2>3. h \in Heads /\ Longer(h, "value", c) = Header(name, Append(t, c))
    <3>1. PICK l : l = [h EXCEPT !["value"] = Append(@, c)]
      OBVIOUS
    <3>2. l = Header(name, Append(t, c))
      BY <2>2, <3>1 DEF Header
    <3> QED BY <2>2, <3>1, <3>2 DEF Header, Heads, Longer
  <2>4. gather[t] = Filled(m, Append(hs, h), ct, ka)
        /\ gather[Append(t, c)] = Filled(m, Append(hs, Longer(h, "value", c)), ct, ka)
    BY <2>1, <2>2, <2>3
  <2> HIDE DEF gather
  <2> QED BY <2>3, <2>4, DoField
<1> HIDE DEF gather
<1>2. Collects("value", "HeaderValue", o, gather)
  BY <1>1 DEF Collects
<1>3. Leads(table, first, Visible, "HeaderValue", "value") /\ Leads(table, "HeaderValue", Visible, "HeaderValue", "value")
  BY DEF HeaderLeads
<1>4. PICK state, do, on : state = "HeaderValue" /\ do = "value" /\ on = Visible
  OBVIOUS
<1>5. Reaches(table, Config(first, o, gather[a]), s, Config(state, o, gather[a \o s]))
  BY <1>2, <1>3, <1>4, Spells
<1>6. a \o s \in Strings
  <2>1. s \in Strings
    BY DEF Spelt
  <2> QED BY <2>1, ConcatProperties
<1> QED BY <1>4, <1>5, <1>6 DEF gather

(* Three characters. *)
LEMMA ReachesThree ==
  ASSUME NEW table, NEW p, NEW q, NEW r, NEW t, NEW a \in Symbols, NEW b \in Symbols, NEW c \in Symbols,
         Reaches(table, p, <<a>>, q), Reaches(table, q, <<b>>, r), Reaches(table, r, <<c>>, t)
  PROVE  Reaches(table, p, <<a, b, c>>, t) /\ <<a, b, c>> \in Strings
<1>1. Reaches(table, p, <<a, b>>, r)
  BY ReachesTwo
<1>2. PICK x, y, z : x = <<a, b>> /\ y = <<c>> /\ z = <<a, b, c>>
  OBVIOUS
<1>3. x \in Strings /\ y \in Strings /\ z \in Strings
  BY <1>2
<1>4. x \o y = z
  <2>1. Len(x) = 2 /\ x[1] = a /\ x[2] = b /\ Len(y) = 1 /\ y[1] = c /\ Len(z) = 3 /\ z[1] = a /\ z[2] = b /\ z[3] = c
    BY <1>2
  <2>2. PICK u : u = x \o y
    OBVIOUS
  <2>3. u \in Strings /\ Len(u) = 3 /\ u[1] = a /\ u[2] = b /\ u[3] = c
    <3>1. u \in Strings /\ Len(u) = Len(x) + Len(y)
          /\ \A i \in 1 .. Len(x) + Len(y) : u[i] = IF i <= Len(x) THEN x[i] ELSE y[i - Len(x)]
      BY <1>3, <2>2, ConcatProperties
    <3>2. 1 \in 1 .. 3 /\ 2 \in 1 .. 3 /\ 3 \in 1 .. 3 /\ 1 <= 2 /\ 2 <= 2 /\ ~(3 <= 2) /\ 3 - 2 = 1 /\ 2 + 1 = 3
      OBVIOUS
    <3>3. Len(u) = 3 /\ \A i \in 1 .. 3 : u[i] = IF i <= 2 THEN x[i] ELSE y[i - 2]
      BY <2>1, <3>1, <3>2
    <3>4. u[1] = x[1] /\ u[2] = x[2] /\ u[3] = y[1]
      BY <3>2, <3>3
    <3> QED BY <2>1, <3>1, <3>3, <3>4
  <2>4. \A i \in 1 .. Len(u) : u[i] = z[i]
    <3>1. \A i \in 1 .. 3 : i = 1 \/ i = 2 \/ i = 3
      OBVIOUS
    <3> QED BY <2>1, <2>3, <3>1
  <2>5. u = z
    BY <1>3, <2>1, <2>3, <2>4, SeqEqual
  <2> QED BY <2>2, <2>5
<1>5. Reaches(table, p, x \o y, t)
  BY <1>1, <1>2, <1>3, Then
<1> QED BY <1>2, <1>3, <1>4, <1>5

(* A word of one character. *)
LEMMA OneWord ==
  ASSUME NEW s, NEW classes, Spelt(s, classes), NEW i \in 1 .. Len(s)
  PROVE  Spelt(<<s[i]>>, classes) /\ s[i] \in Symbols /\ Class(s[i]) \in classes
<1>1. s[i] \in Symbols /\ Class(s[i]) \in classes
  BY ElementOfSeq DEF Spelt
<1>2. PICK c, w : c = s[i] /\ w = <<c>>
  OBVIOUS
<1>3. w \in Strings /\ w # <<>> /\ Len(w) = 1 /\ w[1] = c
  BY <1>1, <1>2
<1>4. \A j \in 1 .. 1 : j = 1
  OBVIOUS
<1>5. Spelt(w, classes)
  BY <1>1, <1>2, <1>3, <1>4 DEF Spelt
<1> QED BY <1>1, <1>2, <1>5

(* The end of a header's line that does not frame the body. *)
LEMMA HeaderEnds ==
  ASSUME NEW table, HeaderLeads(table), NEW m, IsMessage(m), NEW o, NEW hs \in Seq(Heads), NEW h \in Heads,
         NEW ct, NEW ka, h.name \notin {<<"Content-Length">>, <<"Transfer-Encoding">>}
  PROVE  Reaches(table, Config("HeaderValue", o, Filled(m, Append(hs, h), ct, ka)), EndOfLine,
                 Config("HeaderLineStart", o, Filled(m, Append(hs, h), ct, ka)))
<1>1. PICK x : x = Filled(m, Append(hs, h), ct, ka)
  OBVIOUS
<1>2. PICK st, ne, la, do : st = "HeaderValue" /\ ne = "ExpectingNewline_2" /\ la = "HeaderLineStart" /\ do = "line"
  OBVIOUS
<1>3. Leads(table, st, {CR}, ne, do) /\ Leads(table, ne, {LF}, la, "skip")
  BY <1>2 DEF HeaderLeads
<1>4. Do(do, Config(ne, o, x), CR) = Config(ne, o, x)
  BY <1>1, <1>2, DoLine
<1> QED BY <1>1, <1>2, <1>3, <1>4, LineEnds

(* A further word of a value, on a line of its own. *)
LEMMA ReadsFold ==
  ASSUME NEW table, HeaderLeads(table), NEW m, IsMessage(m), NEW o, NEW hs \in Seq(Heads), NEW ct, NEW ka,
         NEW name \in Strings, name \notin {<<"Content-Length">>, <<"Transfer-Encoding">>},
         NEW a \in Strings, NEW v \in Symbols, Spelt(<<v>>, Visible)
  PROVE  /\ Reaches(table, Config("HeaderValue", o, Filled(m, Append(hs, Header(name, a)), ct, ka)),
                    EndOfLine \o <<TAB, v>>,
                    Config("HeaderValue", o, Filled(m, Append(hs, Header(name, Append(a, v))), ct, ka)))
         /\ EndOfLine \o <<TAB, v>> \in Strings
<1>1. PICK h : h = Header(name, a)
  OBVIOUS
<1>2. h \in Heads /\ h.name = name
  BY <1>1 DEF Header, Heads
<1>3. PICK x : x = Filled(m, Append(hs, h), ct, ka)
  OBVIOUS
<1>4. Reaches(table, Config("HeaderValue", o, x), EndOfLine, Config("HeaderLineStart", o, x))
  BY <1>2, <1>3, HeaderEnds
<1>5. Reaches(table, Config("HeaderLineStart", o, x), <<TAB>>, Config("HeaderLws", o, x))
  <2>1. PICK st, ne, do, q, c : st = "HeaderLineStart" /\ ne = "HeaderLws" /\ do = "fold" /\ q = Config(ne, o, x) /\ c = TAB
    OBVIOUS
  <2>2. Leads(table, st, {TAB}, ne, do) /\ Class(c) \in {TAB}
    BY <2>1, Marks, ClassOf DEF HeaderLeads
  <2>3. q.m = x /\ x.headers = Append(hs, h)
    <3>1. q.m = x
      BY <2>1, ConfigFields
    <3>2. PICK y : y = Append(hs, h)
      OBVIOUS
    <3>3. x.headers = y
      <4>1. Filled(m, y, ct, ka).headers = y
        BY FilledFields
      <4> QED BY <1>3, <3>2, <4>1
    <3> QED BY <3>1, <3>2, <3>3
  <2>4. Append(hs, h) # <<>>
    BY <1>2, LastHeader
  <2>5. Do(do, q, c) = q
    BY <2>1, <2>3, <2>4 DEF Do
  <2>6. Reaches(table, Config(st, o, x), <<c>>, q)
    BY <2>1, <2>2, <2>5, Moves
  <2> QED BY <2>1, <2>6
<1>6. PICK w : w = <<v>>
  OBVIOUS
<1>7. w \in Strings /\ a \o w = Append(a, v)
  BY <1>6
<1>8. Reaches(table, Config("HeaderLws", o, x), w, Config("HeaderValue", o, Filled(m, Append(hs, Header(name, a \o w)), ct, ka)))
  BY <1>1, <1>3, <1>6, ReadsValue
<1>9. TAB \in Symbols
  BY Marks
<1>10. PICK z : z = Config("HeaderValue", o, Filled(m, Append(hs, Header(name, Append(a, v))), ct, ka))
  OBVIOUS
<1>11. Reaches(table, Config("HeaderLineStart", o, x), <<TAB, v>>, z)
  BY <1>5, <1>6, <1>7, <1>8, <1>9, <1>10, ReachesTwo
<1>12. PICK e, f : e = EndOfLine /\ f = <<TAB, v>>
  OBVIOUS
<1>13. e \in Strings /\ f \in Strings
  BY <1>9, <1>12, Marks DEF EndOfLine
<1>14. Reaches(table, Config("HeaderValue", o, x), e \o f, z) /\ e \o f \in Strings
  BY <1>4, <1>11, <1>12, <1>13, Then
<1> QED BY <1>1, <1>3, <1>10, <1>12, <1>14

(* A name, and the first word of its value. *)
LEMMA ReadsStart ==
  ASSUME NEW table, HeaderLeads(table), NEW m, IsMessage(m), NEW o, NEW hs \in Seq(Heads), NEW ct, NEW ka,
         NEW name, Spelt(name, Token), NEW v \in Symbols, Spelt(<<v>>, Visible)
  PROVE  /\ Reaches(table, Config("HeaderLineStart", o, Filled(m, hs, ct, ka)), name \o <<":", SP, v>>,
                    Config("HeaderValue", o, Filled(m, Append(hs, Header(name, <<v>>)), ct, ka)))
         /\ name \o <<":", SP, v>> \in Strings
<1>1. name \in Strings
  BY DEF Spelt
<1>2. PICK e : e = <<>> /\ e \in Strings
  BY EmptySeq
<1>3. PICK x, p : x = Filled(m, Append(hs, Header(name, e)), ct, ka) /\ p = Config("HeaderLineStart", o, Filled(m, hs, ct, ka))
  OBVIOUS
<1>4. Reaches(table, p, name, Config("HeaderName", o, x))
  BY <1>2, <1>3, ReadsName
<1>5. PICK c, n, s, l : c = ":" /\ n = "HeaderName" /\ s = "SpaceBeforeHeaderValue" /\ l = "HeaderValue"
  OBVIOUS
<1>6. c \in Symbols /\ SP \in Symbols /\ Class(c) \in {":"} /\ Class(SP) \in {SP}
  BY <1>5, Marks, ClassOf
<1>7. Leads(table, n, {":"}, s, "skip") /\ Leads(table, s, {SP}, l, "skip")
  BY <1>5 DEF HeaderLeads
<1>8. Reaches(table, Config(n, o, x), <<c>>, Config(s, o, x))
  BY <1>6, <1>7, MovesOn
<1>9. Reaches(table, Config(s, o, x), <<SP>>, Config(l, o, x))
  BY <1>6, <1>7, MovesOn
<1>10. PICK w : w = <<v>>
  OBVIOUS
<1>11. w \in Strings /\ e \o w = w
  BY <1>2, <1>10
<1>12. Reaches(table, Config(l, o, x), w, Config("HeaderValue", o, Filled(m, Append(hs, Header(name, e \o w)), ct, ka)))
  BY <1>1, <1>2, <1>3, <1>5, <1>10, ReadsValue
<1>13. PICK z : z = Config("HeaderValue", o, Filled(m, Append(hs, Header(name, w)), ct, ka))
  OBVIOUS
<1>14. Reaches(table, Config(n, o, x), <<c, SP, v>>, z) /\ <<c, SP, v>> \in Strings
  <2>1. Reaches(table, Config(l, o, x), <<v>>, z)
    BY <1>10, <1>11, <1>12, <1>13
  <2>2. PICK q, r, t : q = Config(n, o, x) /\ r = Config(s, o, x) /\ t = Config(l, o, x)
    OBVIOUS
  <2> QED BY <1>6, <1>8, <1>9, <2>1, <2>2, ReachesThree
<1>15. PICK f : f = <<c, SP, v>>
  OBVIOUS
<1>16. Reaches(table, p, name \o f, z) /\ name \o f \in Strings
  <2>1. PICK q : q = Config(n, o, x)
    OBVIOUS
  <2>2. Reaches(table, p, name, q) /\ Reaches(table, q, f, z) /\ f \in Strings
    BY <1>4, <1>5, <1>14, <1>15, <2>1
  <2> QED BY <1>1, <2>2, Then
<1> QED BY <1>3, <1>5, <1>10, <1>13, <1>15, <1>16

(* The further words of a value. *)
LEMMA ReadsFolds ==
  ASSUME NEW table, HeaderLeads(table), NEW m, IsMessage(m), NEW o, NEW hs \in Seq(Heads), NEW ct, NEW ka,
         NEW name \in Strings, name \notin {<<"Content-Length">>, <<"Transfer-Encoding">>},
         NEW s, Spelt(s, Visible)
  PROVE  /\ Reaches(table, Config("HeaderValue", o, Filled(m, Append(hs, Header(name, <<s[1]>>)), ct, ka)),
                    FlattenSeq([i \in 1 .. (Len(s) - 1) |-> EndOfLine \o <<TAB, s[i + 1]>>]),
                    Config("HeaderValue", o, Filled(m, Append(hs, Header(name, s)), ct, ka)))
         /\ FlattenSeq([i \in 1 .. (Len(s) - 1) |-> EndOfLine \o <<TAB, s[i + 1]>>]) \in Strings
<1>1. s \in Strings /\ s # <<>>
  BY DEF Spelt
<1>2. Len(s) \in Nat \ {0} /\ DOMAIN s = 1 .. Len(s)
  BY <1>1, LenProperties, EmptySeq
<1>3. PICK n : n = Len(s) - 1
  OBVIOUS
<1>4. n \in Nat /\ n + 1 = Len(s) /\ \A i \in 1 .. n : i + 1 \in 1 .. Len(s) /\ i \in 1 .. Len(s)
  BY <1>2, <1>3
<1>5. PICK t : t = [i \in 1 .. n |-> EndOfLine \o <<TAB, s[i + 1]>>]
  OBVIOUS
<1> DEFINE At(i) == Config("HeaderValue", o, Filled(m, Append(hs, Header(name, SubSeq(s, 1, i + 1))), ct, ka))
           g == [i \in 0 .. n |-> At(i)]
<1>6. ASSUME NEW i \in 1 .. n
      PROVE  Reaches(table, g[i - 1], t[i], g[i]) /\ t[i] \in Strings
  <2>1. i - 1 \in 0 .. n /\ i \in 0 .. n /\ i + 1 \in 1 .. Len(s) /\ (i - 1) + 1 = i /\ (i + 1) - 1 = i /\ i \in 1 .. Len(s)
    BY <1>4
  <2>2. PICK a, v : a = SubSeq(s, 1, i) /\ v = s[i + 1]
    OBVIOUS
  <2>3. g[i - 1] = At(i - 1) /\ g[i] = At(i)
    BY <2>1
  <2>4. t[i] = EndOfLine \o <<TAB, v>>
    BY <1>5, <2>2
  <2>5. Spelt(<<v>>, Visible) /\ v \in Symbols
    BY <2>1, <2>2, OneWord
  <2>6. a \in Strings
    BY <1>1, <1>2, <2>1, <2>2, SubSeqProperties, ElementOfSeq
  <2>7. Append(a, v) = SubSeq(s, 1, i + 1)
    <3>1. PICK e : e = <<>> /\ e \in Strings
      BY EmptySeq
    <3>2. PICK k : k = i + 1
      OBVIOUS
    <3>3. k \in 1 .. Len(s) /\ k - 1 = i
      BY <2>1, <3>2
    <3>4. Append(e \o SubSeq(s, 1, k - 1), s[k]) = e \o SubSeq(s, 1, k)
      BY <1>1, <3>1, <3>3, Grow
    <3>5. SubSeq(s, 1, k) \in Strings
      BY <1>1, <1>2, <3>3, SubSeqProperties, ElementOfSeq
    <3>6. e \o a = a /\ e \o SubSeq(s, 1, k) = SubSeq(s, 1, k)
      BY <2>6, <3>1, <3>5
    <3> QED BY <2>2, <3>2, <3>3, <3>4, <3>6
  <2>8. g[i - 1] = Config("HeaderValue", o, Filled(m, Append(hs, Header(name, a)), ct, ka))
        /\ g[i] = Config("HeaderValue", o, Filled(m, Append(hs, Header(name, Append(a, v))), ct, ka))
    BY <2>1, <2>2, <2>3, <2>7
  <2> HIDE DEF g
  <2>9. /\ Reaches(table, Config("HeaderValue", o, Filled(m, Append(hs, Header(name, a)), ct, ka)),
                    EndOfLine \o <<TAB, v>>,
                    Config("HeaderValue", o, Filled(m, Append(hs, Header(name, Append(a, v))), ct, ka)))
         /\ EndOfLine \o <<TAB, v>> \in Strings
    BY <2>5, <2>6, ReadsFold
  <2> QED BY <2>4, <2>8, <2>9
<1>7. t \in Seq(Strings) /\ Len(t) = n
  <2>1. \A i \in 1 .. n : t[i] \in Strings
    BY <1>6
  <2> QED BY <1>4, <1>5, <2>1, IsASeq
<1>8. g[0] = Config("HeaderValue", o, Filled(m, Append(hs, Header(name, <<s[1]>>)), ct, ka))
  <2>1. g[0] = At(0) /\ 0 + 1 = 1
    BY <1>4
  <2>2. SubSeq(s, 1, 1) = <<s[1]>>
    <3>1. 1 \in 1 .. Len(s)
      BY <1>2
    <3>2. PICK x, y, c : x = SubSeq(s, 1, 1) /\ y = <<c>> /\ c = s[1]
      OBVIOUS
    <3>3. c \in Symbols
      BY <1>1, <3>1, <3>2, ElementOfSeq
    <3>4. y \in Strings /\ Len(y) = 1 /\ y[1] = c
      BY <3>2, <3>3
    <3>5. x \in Strings /\ Len(x) = 1 /\ x[1] = c
      <4>1. \A i \in 1 .. 1 : s[i] \in Symbols
        BY <1>1, <1>2, ElementOfSeq
      <4> QED BY <3>1, <3>2, <4>1, SubSeqProperties
    <3>6. x = y
      BY <3>4, <3>5, SeqEqual
    <3> QED BY <3>2, <3>6
  <2> HIDE DEF g
  <2> QED BY <2>1, <2>2
<1>9. g[n] = Config("HeaderValue", o, Filled(m, Append(hs, Header(name, s)), ct, ka))
  <2>1. SubSeq(s, 1, Len(s)) = s
    BY <1>1, Whole
  <2>2. g[n] = At(n)
    BY <1>4
  <2> HIDE DEF g
  <2> QED BY <1>4, <2>1, <2>2
<1> HIDE DEF g
<1>10. Reaches(table, g[0], FlattenSeq(t), g[Len(t)]) /\ FlattenSeq(t) \in Strings
  BY <1>6, <1>7, ReachesFlat
<1>11. t = [i \in 1 .. (Len(s) - 1) |-> EndOfLine \o <<TAB, s[i + 1]>>]
  BY <1>3, <1>5
<1> QED BY <1>7, <1>8, <1>9, <1>10, <1>11

(* A header, folded over as many lines as its value has words. *)
LEMMA ReadsHeader ==
  ASSUME NEW table, HeaderLeads(table), NEW m, IsMessage(m), NEW o, NEW hs \in Seq(Heads), NEW ct, NEW ka,
         NEW h \in Heads, HeaderForm(h)
  PROVE  /\ Reaches(table, Config("HeaderLineStart", o, Filled(m, hs, ct, ka)), FoldedText(h),
                    Config("HeaderLineStart", o, Filled(m, Append(hs, h), ct, ka)))
         /\ FoldedText(h) \in Strings
<1>1. PICK name, s : name = h.name /\ s = h.value
  OBVIOUS
<1>2. /\ Spelt(name, Token) /\ Spelt(s, Visible) /\ name \in Strings /\ s \in Strings
      /\ name \notin {<<"Content-Length">>, <<"Transfer-Encoding">>} /\ h = Header(name, s)
  <2>1. Spelt(name, Token) /\ Spelt(s, Visible)
    BY <1>1, WordsOf DEF HeaderForm
  <2> QED BY <1>1, <2>1 DEF HeaderForm, Heads, Header
<1>3. PICK v : v = s[1]
  OBVIOUS
<1>4. v \in Symbols /\ Spelt(<<v>>, Visible)
  <2>1. 1 \in 1 .. Len(s)
    BY <1>2, LenProperties, EmptySeq DEF Spelt
  <2> QED BY <1>2, <1>3, <2>1, OneWord
<1>5. PICK p, q, r, z : /\ p = Config("HeaderLineStart", o, Filled(m, hs, ct, ka))
                        /\ q = Config("HeaderValue", o, Filled(m, Append(hs, Header(name, <<v>>)), ct, ka))
                        /\ r = Config("HeaderValue", o, Filled(m, Append(hs, Header(name, s)), ct, ka))
                        /\ z = Config("HeaderLineStart", o, Filled(m, Append(hs, h), ct, ka))
  OBVIOUS
<1>6. PICK a : a = name \o <<":", SP, v>>
  OBVIOUS
<1>7. Reaches(table, p, a, q) /\ a \in Strings
  BY <1>2, <1>4, <1>5, <1>6, ReadsStart
<1>8. PICK b : b = FlattenSeq([i \in 1 .. (Len(s) - 1) |-> EndOfLine \o <<TAB, s[i + 1]>>])
  OBVIOUS
<1>9. Reaches(table, q, b, r) /\ b \in Strings
  <2>1. /\ Reaches(table, Config("HeaderValue", o, Filled(m, Append(hs, Header(name, <<s[1]>>)), ct, ka)),
                    FlattenSeq([i \in 1 .. (Len(s) - 1) |-> EndOfLine \o <<TAB, s[i + 1]>>]),
                    Config("HeaderValue", o, Filled(m, Append(hs, Header(name, s)), ct, ka)))
        /\ FlattenSeq([i \in 1 .. (Len(s) - 1) |-> EndOfLine \o <<TAB, s[i + 1]>>]) \in Strings
    BY <1>2, ReadsFolds, ZenonT(60)
  <2> QED BY <1>3, <1>5, <1>8, <2>1
<1>10. Reaches(table, r, EndOfLine, z) /\ EndOfLine \in Strings
  BY <1>1, <1>2, <1>5, HeaderEnds, Marks
<1>11. Reaches(table, p, a \o b, r) /\ a \o b \in Strings
  BY <1>7, <1>9, Then
<1>12. Reaches(table, p, (a \o b) \o EndOfLine, z) /\ (a \o b) \o EndOfLine \in Strings
  BY <1>10, <1>11, Then
<1>13. FoldedText(h) = (a \o b) \o EndOfLine
  BY <1>1, <1>3, <1>6, <1>8 DEF FoldedText
<1> QED BY <1>5, <1>12, <1>13

(* All headers of a message. *)
LEMMA ReadsHeaders ==
  ASSUME NEW table, HeaderLeads(table), NEW m, IsMessage(m), NEW o, NEW ct, NEW ka,
         NEW hs \in Seq(Heads), \A i \in 1 .. Len(hs) : HeaderForm(hs[i])
  PROVE  /\ Reaches(table, Config("HeaderLineStart", o, Filled(m, <<>>, ct, ka)), Texts(hs, FoldedText),
                    Config("HeaderLineStart", o, Filled(m, hs, ct, ka)))
         /\ Texts(hs, FoldedText) \in Strings
<1>1. Len(hs) \in Nat
  BY LenProperties
<1>2. PICK n, t : n = Len(hs) /\ t = [i \in 1 .. n |-> FoldedText(hs[i])]
  OBVIOUS
<1> DEFINE At(i) == Config("HeaderLineStart", o, Filled(m, SubSeq(hs, 1, i), ct, ka))
           g == [i \in 0 .. n |-> At(i)]
<1>3. ASSUME NEW i \in 1 .. n
      PROVE  Reaches(table, g[i - 1], t[i], g[i]) /\ t[i] \in Strings
  <2>1. i - 1 \in 0 .. n /\ i \in 0 .. n /\ i \in 1 .. Len(hs)
    BY <1>1, <1>2
  <2>2. PICK a, h : a = SubSeq(hs, 1, i - 1) /\ h = hs[i]
    OBVIOUS
  <2>3. g[i - 1] = At(i - 1) /\ g[i] = At(i)
    BY <2>1
  <2>4. t[i] = FoldedText(h) /\ HeaderForm(h)
    BY <1>2, <2>1, <2>2
  <2>5. a \in Seq(Heads) /\ h \in Heads
    BY <1>1, <1>2, <2>1, <2>2, SubSeqProperties, ElementOfSeq
  <2>6. Append(a, h) = SubSeq(hs, 1, i)
    <3>1. PICK e : e = <<>> /\ e \in Seq(Heads)
      BY EmptySeq
    <3>2. Append(e \o SubSeq(hs, 1, i - 1), hs[i]) = e \o SubSeq(hs, 1, i)
      BY <2>1, <3>1, Grow
    <3>3. SubSeq(hs, 1, i) \in Seq(Heads)
      BY <1>1, <2>1, SubSeqProperties, ElementOfSeq
    <3>4. e \o a = a /\ e \o SubSeq(hs, 1, i) = SubSeq(hs, 1, i)
      BY <2>5, <3>1, <3>3
    <3> QED BY <2>2, <3>2, <3>4
  <2>7. g[i - 1] = Config("HeaderLineStart", o, Filled(m, a, ct, ka))
        /\ g[i] = Config("HeaderLineStart", o, Filled(m, Append(a, h), ct, ka))
    BY <2>2, <2>3, <2>6
  <2> HIDE DEF g
  <2>8. /\ Reaches(table, Config("HeaderLineStart", o, Filled(m, a, ct, ka)), FoldedText(h),
                    Config("HeaderLineStart", o, Filled(m, Append(a, h), ct, ka)))
        /\ FoldedText(h) \in Strings
    BY <2>4, <2>5, ReadsHeader
  <2> QED BY <2>4, <2>7, <2>8
<1>4. t \in Seq(Strings) /\ Len(t) = n
  <2>1. \A i \in 1 .. n : t[i] \in Strings
    BY <1>3
  <2> QED BY <1>1, <1>2, <2>1, IsASeq
<1>5. g[0] = Config("HeaderLineStart", o, Filled(m, <<>>, ct, ka))
  <2>1. g[0] = At(0)
    BY <1>1, <1>2
  <2>2. SubSeq(hs, 1, 0) = <<>>
    BY Whole
  <2> HIDE DEF g
  <2> QED BY <2>1, <2>2
<1>6. g[n] = Config("HeaderLineStart", o, Filled(m, hs, ct, ka))
  <2>1. SubSeq(hs, 1, Len(hs)) = hs
    BY Whole
  <2>2. g[n] = At(n)
    BY <1>1, <1>2
  <2> HIDE DEF g
  <2> QED BY <1>2, <2>1, <2>2
<1> HIDE DEF g
<1>7. Reaches(table, g[0], FlattenSeq(t), g[Len(t)]) /\ FlattenSeq(t) \in Strings
  BY <1>3, <1>4, ReachesFlat
<1>8. FlattenSeq(t) = Texts(hs, FoldedText)
  BY <1>2 DEF Texts
<1> QED BY <1>4, <1>5, <1>6, <1>7, <1>8

----------------------------------------
(* The header that frames the body *)

(* Numbers are words of digits. *)
LEMMA NumbersAreWords ==
  /\ \A n \in 0 .. 99 : Spelt(Decimal(n), {"digit"})
  /\ \A n \in 0 .. 15 : Spelt(Hex(n), Alnum)
<1>1. ASSUME NEW n \in 0 .. 99 PROVE Spelt(Decimal(n), {"digit"})
  <2>1. \A k \in 0 .. 9 : Digits[k + 1] \in Symbols /\ Class(Digits[k + 1]) = "digit"
    BY DigitValues, ClassOf
  <2>2. CASE n < 10
    <3>1. PICK c, w : c = Digits[n + 1] /\ w = <<c>>
      OBVIOUS
    <3>2. n \in 0 .. 9
      BY <2>2
    <3>3. c \in Symbols /\ Class(c) = "digit"
      BY <2>1, <3>1, <3>2
    <3>4. w \in Strings /\ w # <<>> /\ Len(w) = 1 /\ w[1] = c
      BY <3>1, <3>3
    <3>5. \A j \in 1 .. 1 : j = 1
      OBVIOUS
    <3>6. Spelt(w, {"digit"})
      BY <3>3, <3>4, <3>5 DEF Spelt
    <3> QED BY <2>2, <3>1, <3>6 DEF Decimal
  <2>3. CASE ~ (n < 10)
    <3>0. PICK a, b : a = n \div 10 /\ b = n % 10 /\ a \in 0 .. 9 /\ b \in 0 .. 9
      OBVIOUS
    <3>1. PICK x, y, w : x = Digits[a + 1] /\ y = Digits[b + 1] /\ w = <<x, y>>
      OBVIOUS
    <3>2. x \in Symbols /\ y \in Symbols /\ Class(x) = "digit" /\ Class(y) = "digit"
      BY <2>1, <3>0, <3>1
    <3>3. w \in Strings /\ w # <<>> /\ Len(w) = 2 /\ w[1] = x /\ w[2] = y
      BY <3>1, <3>2
    <3>4. \A j \in 1 .. 2 : j = 1 \/ j = 2
      OBVIOUS
    <3>5. Spelt(w, {"digit"})
      BY <3>2, <3>3, <3>4 DEF Spelt
    <3>6. Decimal(n) = w
      BY <2>3, <3>0, <3>1 DEF Decimal
    <3> QED BY <3>5, <3>6
  <2> QED BY <2>2, <2>3
<1>2. ASSUME NEW n \in 0 .. 15 PROVE Spelt(Hex(n), Alnum)
  <2>1. PICK c, w : c = Digits[n + 1] /\ w = <<c>>
    OBVIOUS
  <2>2. c \in Symbols /\ Class(c) \in Alnum
    BY <2>1, DigitValues, ClassOf
  <2>3. w \in Strings /\ w # <<>> /\ Len(w) = 1 /\ w[1] = c
    BY <2>1, <2>2
  <2>4. \A j \in 1 .. 1 : j = 1
    OBVIOUS
  <2>5. Spelt(w, Alnum)
    BY <2>2, <2>3, <2>4 DEF Spelt
  <2> QED BY <2>1, <2>5 DEF Hex
<1> QED BY <1>1, <1>2

(* A word of some characters is one of more. *)
LEMMA SpeltPart ==
  ASSUME NEW s, NEW classes, NEW part, Spelt(s, part), part \subseteq classes
  PROVE  Spelt(s, classes)
BY DEF Spelt

(* The header that frames the body, on one line. *)
LEMMA ReadsOneHeader ==
  ASSUME NEW table, HeaderLeads(table), NEW m, IsMessage(m), NEW o, NEW hs \in Seq(Heads), NEW ct, NEW ka,
         NEW h \in Heads, Spelt(h.name, Token), Spelt(h.value, Visible), NEW n,
         Do("line", Config("ExpectingNewline_2", o, Filled(m, Append(hs, h), ct, ka)), CR)
           = Config("ExpectingNewline_2", n, Filled(m, Append(hs, h), ct, ka))
  PROVE  /\ Reaches(table, Config("HeaderLineStart", o, Filled(m, hs, ct, ka)), HeaderText(h),
                    Config("HeaderLineStart", n, Filled(m, Append(hs, h), ct, ka)))
         /\ HeaderText(h) \in Strings
<1>1. PICK name, s : name = h.name /\ s = h.value
  OBVIOUS
<1>2. Spelt(name, Token) /\ Spelt(s, Visible) /\ name \in Strings /\ s \in Strings /\ h = Header(name, s)
  BY <1>1 DEF Heads, Header, Spelt
<1>3. PICK e : e = <<>> /\ e \in Strings
  BY EmptySeq
<1>4. PICK x, y, p : /\ x = Filled(m, Append(hs, Header(name, e)), ct, ka)
                     /\ p = Config("HeaderLineStart", o, Filled(m, hs, ct, ka))
                     /\ y = Filled(m, Append(hs, h), ct, ka)
  OBVIOUS
<1>5. Reaches(table, p, name, Config("HeaderName", o, x))
  BY <1>2, <1>3, <1>4, ReadsName
<1>6. PICK c, nm, sp, l, f : c = ":" /\ nm = "HeaderName" /\ sp = "SpaceBeforeHeaderValue" /\ l = "HeaderValue"
                              /\ f = <<c, SP>>
  OBVIOUS
<1>7. c \in Symbols /\ SP \in Symbols /\ Class(c) \in {":"} /\ Class(SP) \in {SP}
  BY <1>6, Marks, ClassOf
<1>8. Leads(table, nm, {":"}, sp, "skip") /\ Leads(table, sp, {SP}, l, "skip")
  BY <1>6 DEF HeaderLeads
<1>9. PICK q, r, t : q = Config(nm, o, x) /\ r = Config(sp, o, x) /\ t = Config(l, o, x)
  OBVIOUS
<1>10. Reaches(table, q, <<c>>, r) /\ Reaches(table, r, <<SP>>, t)
  BY <1>7, <1>8, <1>9, MovesOn
<1>11. Reaches(table, q, f, t) /\ f \in Strings
  <2>1. PICK b : b = SP /\ b \in Symbols
    BY <1>7
  <2>2. Reaches(table, q, <<c, b>>, t)
    BY <1>7, <1>10, <2>1, ReachesTwo
  <2>3. <<c, b>> \in Strings
    BY <1>7, <2>1
  <2> QED BY <1>6, <2>1, <2>2, <2>3
<1>12. Reaches(table, p, name, q)
  BY <1>5, <1>6, <1>9
<1>13. Reaches(table, p, name \o f, t) /\ name \o f \in Strings
  BY <1>2, <1>11, <1>12, Then
<1>14. Reaches(table, t, s, Config("HeaderValue", o, y))
  <2>1. Reaches(table, Config(l, o, Filled(m, Append(hs, Header(name, e)), ct, ka)), s,
                Config("HeaderValue", o, Filled(m, Append(hs, Header(name, e \o s)), ct, ka)))
    BY <1>2, <1>3, <1>6, ReadsValue
  <2>2. e \o s = s
    BY <1>2, <1>3
  <2> QED BY <1>2, <1>4, <1>9, <2>1, <2>2
<1>15. PICK u, z : u = Config("HeaderValue", o, y) /\ z = Config("HeaderLineStart", n, y)
  OBVIOUS
<1>16. Reaches(table, u, EndOfLine, z) /\ EndOfLine \in Strings
  <2>1. PICK st, ne, la, do : st = "HeaderValue" /\ ne = "ExpectingNewline_2" /\ la = "HeaderLineStart" /\ do = "line"
    OBVIOUS
  <2>2. Leads(table, st, {CR}, ne, do) /\ Leads(table, ne, {LF}, la, "skip")
    BY <2>1 DEF HeaderLeads
  <2>3. Do(do, Config(ne, o, y), CR) = Config(ne, n, y)
    BY <1>4, <2>1
  <2>4. Reaches(table, Config(st, o, y), EndOfLine, Config(la, n, y))
    BY <2>2, <2>3, LineEnds
  <2> QED BY <1>15, <2>1, <2>4, Marks
<1>17. PICK a : a = name \o f
  OBVIOUS
<1>18. Reaches(table, p, a \o s, u) /\ a \o s \in Strings
  BY <1>2, <1>13, <1>14, <1>15, <1>17, Then
<1>19. PICK b : b = a \o s
  OBVIOUS
<1>20. Reaches(table, p, b \o EndOfLine, z) /\ b \o EndOfLine \in Strings
  BY <1>16, <1>18, <1>19, Then
<1>21. HeaderText(h) = b \o EndOfLine
  BY <1>1, <1>6, <1>17, <1>19 DEF HeaderText
<1> QED BY <1>4, <1>15, <1>20, <1>21

(* What a parser's object is told of the body by the header that frames it. *)
Told(o, d) ==
  CASE d.form = "none" -> o
    [] d.form = "length" -> Sized(o, Len(d.content))
    [] OTHER -> Chunked(o, TRUE)

(* A body that is delimited by its length or by chunks. *)
LEMMA ContentFits ==
  ASSUME NEW d, MessageForm(d)
  PROVE  /\ d.content \in Strings
         /\ d.form = "length" => Len(d.content) \in 0 .. 99
         /\ d.form \notin {"none", "length"} => Len(d.content) \in 2 .. 16
<1>1. PICK t : t = d.content
  OBVIOUS
<1>2. t \in Seq(STRING) /\ (d.form = "length" => Len(t) <= 99) /\ (d.form \notin {"none", "length"} => Len(t) \in 2 .. 16)
  BY <1>1 DEF MessageForm
<1>3. t \in Strings
  BY <1>2, WordsAreTexts
<1>4. PICK k : k = Len(t) /\ k \in Nat
  BY <1>3, LenProperties
<1>5. \A j \in Nat : j <= 99 => j \in 0 .. 99
  OBVIOUS
<1> QED BY <1>1, <1>2, <1>3, <1>4, <1>5

(* The header that frames the body, if there is one. *)
LEMMA FramingHead ==
  ASSUME NEW d, MessageForm(d), d.form # "none"
  PROVE  \E h : /\ Framing(d) = <<h>> /\ h \in Heads /\ Spelt(h.name, Token) /\ Spelt(h.value, Visible)
                /\ d.form = "length" => h.name = <<"Content-Length">> /\ h.value = Decimal(Len(d.content))
                /\ d.form # "length" => h.name = <<"Transfer-Encoding">> /\ h.value = <<"chunked">>
<1>0. "digit" \in Visible /\ "alpha" \in Visible /\ "alpha" \in Token
  BY DEF Visible, Token, Char, AnyClass, Control, Special, Mark, CR, LF, TAB, NUL, SP, SEMI, HTTP
<1>1. ASSUME NEW c \in {"Content-Length", "Transfer-Encoding", "chunked"}
      PROVE  Spelt(<<c>>, Visible) /\ Spelt(<<c>>, Token)
  <2>1. PICK w : w = <<c>>
    OBVIOUS
  <2>2. c \in Symbols /\ Class(c) = "alpha"
    BY ClassOf DEF Symbols
  <2>3. w \in Strings /\ w # <<>> /\ Len(w) = 1 /\ w[1] = c
    BY <2>1, <2>2
  <2>4. \A j \in 1 .. 1 : j = 1
    OBVIOUS
  <2>5. Spelt(w, Visible) /\ Spelt(w, Token)
    BY <1>0, <2>2, <2>3, <2>4 DEF Spelt
  <2> QED BY <2>1, <2>5
<1>2. CASE d.form = "length"
  <2>1. Len(d.content) \in 0 .. 99
    BY <1>2, ContentFits
  <2>2. PICK nm, v : nm = <<"Content-Length">> /\ v = Decimal(Len(d.content))
    OBVIOUS
  <2>3. Spelt(nm, Token) /\ Spelt(v, {"digit"}) /\ {"digit"} \subseteq Visible
    BY <1>0, <1>1, <2>1, <2>2, NumbersAreWords
  <2>4. Spelt(v, Visible)
    BY <2>3, SpeltPart
  <2>5. PICK h : h = [name |-> nm, value |-> v]
    OBVIOUS
  <2>6. h \in Heads
    BY <2>3, <2>4, <2>5 DEF Heads, Spelt
  <2>7. Framing(d) = <<h>>
    BY <1>2, <2>2, <2>5 DEF Framing
  <2>8. h.name = nm /\ h.value = v
    BY <2>5
  <2> QED BY <1>2, <2>2, <2>3, <2>4, <2>6, <2>7, <2>8
<1>3. CASE d.form # "length"
  <2>2. PICK nm, v : nm = <<"Transfer-Encoding">> /\ v = <<"chunked">>
    OBVIOUS
  <2>3. Spelt(nm, Token) /\ Spelt(v, Visible)
    BY <1>1, <2>2
  <2>5. PICK h : h = [name |-> nm, value |-> v]
    OBVIOUS
  <2>6. h \in Heads
    BY <2>3, <2>5 DEF Heads, Spelt
  <2>7. Framing(d) = <<h>>
    BY <1>3, <2>2, <2>5 DEF Framing
  <2>8. h.name = nm /\ h.value = v
    BY <2>5
  <2> QED BY <1>3, <2>2, <2>3, <2>6, <2>7, <2>8
<1> QED BY <1>2, <1>3

(* It is read, and the object is told of the body. *)
LEMMA ReadsFraming ==
  ASSUME NEW table, HeaderLeads(table), NEW m, IsMessage(m), NEW o, NEW hs \in Seq(Heads), NEW ct, NEW ka,
         NEW d, MessageForm(d), d.form # "none" => MayHaveBody(m)
  PROVE  /\ Reaches(table, Config("HeaderLineStart", o, Filled(m, hs, ct, ka)), Texts(Framing(d), HeaderText),
                    Config("HeaderLineStart", Told(o, d), Filled(m, hs \o Framing(d), ct, ka)))
         /\ Texts(Framing(d), HeaderText) \in Strings
<1>1. CASE d.form = "none"
  <2>1. Framing(d) = <<>> /\ Told(o, d) = o
    BY <1>1 DEF Framing, Told
  <2>2. PICK s, g, p : /\ s = <<>> /\ Len(s) = 0 /\ s \in Seq(Strings)
                       /\ g = [i \in {0} |-> p] /\ p = Config("HeaderLineStart", o, Filled(m, hs, ct, ka))
    BY EmptySeq
  <2>3. \A i \in 1 .. Len(s) : Reaches(table, g[i - 1], s[i], g[i])
    BY <2>2
  <2>4. Reaches(table, g[0], FlattenSeq(s), g[Len(s)]) /\ FlattenSeq(s) \in Strings
    BY <2>2, <2>3, ReachesFlat
  <2>5. Texts(Framing(d), HeaderText) = FlattenSeq(s)
    <3>1. PICK f : f = Framing(d)
      OBVIOUS
    <3>2. [i \in 1 .. Len(f) |-> HeaderText(f[i])] = s
      BY <2>1, <2>2, <3>1
    <3> QED BY <3>1, <3>2 DEF Texts
  <2>6. hs \o Framing(d) = hs
    BY <2>1
  <2>7. g[0] = p /\ g[Len(s)] = p
    BY <2>2
  <2> QED BY <2>1, <2>2, <2>4, <2>5, <2>6, <2>7
<1>2. CASE d.form # "none"
  <2>1. PICK h : /\ Framing(d) = <<h>> /\ h \in Heads /\ Spelt(h.name, Token) /\ Spelt(h.value, Visible)
                 /\ d.form = "length" => h.name = <<"Content-Length">> /\ h.value = Decimal(Len(d.content))
                 /\ d.form # "length" => h.name = <<"Transfer-Encoding">> /\ h.value = <<"chunked">>
    BY <1>2, FramingHead
  <2>2. PICK n : n = Told(o, d)
    OBVIOUS
  <2>3. Do("line", Config("ExpectingNewline_2", o, Filled(m, Append(hs, h), ct, ka)), CR)
           = Config("ExpectingNewline_2", n, Filled(m, Append(hs, h), ct, ka))
    <3>0. MayHaveBody(m)
      BY <1>2
    <3>1. Frames(h, o, n)
      <4>1. CASE d.form = "length"
        BY <4>1, ContentFits, <2>1, AtoiDecimal, <1>2, <2>2 DEF Told, Frames
      <4>2. CASE d.form # "length"
        BY <1>2, <2>1, <2>2, <4>2 DEF Told, Frames
      <4> QED BY <4>1, <4>2
    <3>2. PICK st, c : st = "ExpectingNewline_2" /\ c = CR
      OBVIOUS
    <3>3. Do("line", Config(st, o, Filled(m, Append(hs, h), ct, ka)), c)
            = Config(st, n, Filled(m, Append(hs, h), ct, ka))
      BY <2>1, <3>0, <3>1, DoFraming
    <3> QED BY <3>2, <3>3
  <2>4. /\ Reaches(table, Config("HeaderLineStart", o, Filled(m, hs, ct, ka)), HeaderText(h),
                    Config("HeaderLineStart", n, Filled(m, Append(hs, h), ct, ka)))
        /\ HeaderText(h) \in Strings
    BY <2>1, <2>3, ReadsOneHeader
  <2>5. PICK t, p, q : t = HeaderText(h) /\ p = Config("HeaderLineStart", o, Filled(m, hs, ct, ka))
                       /\ q = Config("HeaderLineStart", n, Filled(m, Append(hs, h), ct, ka))
    OBVIOUS
  <2>6. PICK s, g : s = <<t>> /\ g = [i \in 0 .. 1 |-> IF i = 0 THEN p ELSE q]
    OBVIOUS
  <2>7. s \in Seq(Strings) /\ Len(s) = 1 /\ s[1] = t
    BY <2>4, <2>5, <2>6
  <2>8. g[0] = p /\ g[1] = q
    BY <2>6
  <2>9. \A i \in 1 .. Len(s) : Reaches(table, g[i - 1], s[i], g[i])
    <3>1. \A i \in 1 .. 1 : i = 1 /\ i - 1 = 0
      OBVIOUS
    <3> QED BY <2>4, <2>5, <2>7, <2>8, <3>1
  <2>10. Reaches(table, g[0], FlattenSeq(s), g[Len(s)]) /\ FlattenSeq(s) \in Strings
    BY <2>7, <2>9, ReachesFlat
  <2>11. Texts(Framing(d), HeaderText) = FlattenSeq(s)
    <3>1. PICK f : f = Framing(d)
      OBVIOUS
    <3>2. Len(f) = 1 /\ f[1] = h
      BY <2>1, <3>1
    <3>3. [i \in 1 .. Len(f) |-> HeaderText(f[i])] = s
      <4>1. PICK w : w = [i \in 1 .. 1 |-> HeaderText(f[i])]
        OBVIOUS
      <4>2. w \in Seq(Strings) /\ Len(w) = 1 /\ w[1] = t
        <5>1. \A i \in 1 .. 1 : i = 1 /\ HeaderText(f[i]) = t
          BY <2>5, <3>2
        <5> QED BY <2>4, <2>5, <4>1, <5>1
      <4>3. w = s
        BY <2>7, <4>2, SeqEqual
      <4> QED BY <3>2, <4>1, <4>3
    <3> QED BY <3>1, <3>3 DEF Texts
  <2>12. hs \o Framing(d) = Append(hs, h)
    BY <2>1
  <2> QED BY <2>2, <2>5, <2>7, <2>8, <2>10, <2>11, <2>12
<1> QED BY <1>1, <1>2

----------------------------------------
(* Bodies *)

(* The rules of bodies. *)
BodyLeads(table) ==
  /\ Leads(table, "Post", AnyClass, "Post", "post")
  /\ Leads(table, "ChunkSize", Alnum, "ChunkSize", "size")
  /\ Leads(table, "ChunkSize", {SEMI}, "ChunkExtensionName", "skip")
  /\ Leads(table, "ChunkSize", {CR}, "ChunkSizeNewLine", "skip")
  /\ Leads(table, "ChunkExtensionName", Alnum \cup {SP}, "ChunkExtensionName", "skip")
  /\ Leads(table, "ChunkExtensionName", {"="}, "ChunkExtensionValue", "skip")
  /\ Leads(table, "ChunkExtensionValue", Alnum \cup {SP}, "ChunkExtensionValue", "skip")
  /\ Leads(table, "ChunkExtensionValue", {CR}, "ChunkSizeNewLine", "skip")
  /\ Leads(table, "ChunkSizeNewLine", {LF}, "ChunkSizeNewLine", "sizeDone")
  /\ Leads(table, "ChunkSizeNewLine_2", {CR}, "ChunkSizeNewLine_3", "skip")
  /\ Leads(table, "ChunkSizeNewLine_2", {"alpha"}, "ChunkTrailerName", "skip")
  /\ Leads(table, "ChunkSizeNewLine_3", {LF}, "ChunkSizeNewLine_3", "complete")
  /\ Leads(table, "ChunkTrailerName", {":"}, "ChunkTrailerValue", "skip")
  /\ Leads(table, "ChunkTrailerValue", Alnum \cup {SP}, "ChunkTrailerValue", "skip")
  /\ Leads(table, "ChunkTrailerValue", {CR}, "ChunkSizeNewLine", "skip")
  /\ Leads(table, "ChunkData", AnyClass, "ChunkData", "data")
  /\ Leads(table, "ChunkDataNewLine_1", {CR}, "ChunkDataNewLine_2", "skip")
  /\ Leads(table, "ChunkDataNewLine_2", {LF}, "ChunkSize", "skip")

(* Both parsers have these rules. *)
LEMMA TablesLeadBodies == \A table \in {RequestTable, ResponseTable} : BodyLeads(table)
<1> SUFFICES ASSUME NEW table \in {RequestTable, ResponseTable} PROVE BodyLeads(table)
  OBVIOUS
<1>1. \A state, on, next, do : Rule(state, on, next, do) \in Body \cup Chunks => Leads(table, state, on, next, do)
  <2> SUFFICES ASSUME NEW state, NEW on, NEW next, NEW do, Rule(state, on, next, do) \in Body \cup Chunks
               PROVE  Leads(table, state, on, next, do)
    OBVIOUS
  <2>1. Rule(state, on, next, do) \in HeaderLines \cup Body \cup Chunks
    OBVIOUS
  <2> QED BY <2>1, SharedLeads
<1>2. /\ Leads(table, "Post", AnyClass, "Post", "post")
      /\ Leads(table, "ChunkSize", Alnum, "ChunkSize", "size")
      /\ Leads(table, "ChunkSize", {SEMI}, "ChunkExtensionName", "skip")
      /\ Leads(table, "ChunkSize", {CR}, "ChunkSizeNewLine", "skip")
      /\ Leads(table, "ChunkExtensionName", Alnum \cup {SP}, "ChunkExtensionName", "skip")
      /\ Leads(table, "ChunkExtensionName", {"="}, "ChunkExtensionValue", "skip")
  BY <1>1 DEF Body
<1>3. /\ Leads(table, "ChunkExtensionValue", Alnum \cup {SP}, "ChunkExtensionValue", "skip")
      /\ Leads(table, "ChunkExtensionValue", {CR}, "ChunkSizeNewLine", "skip")
      /\ Leads(table, "ChunkSizeNewLine", {LF}, "ChunkSizeNewLine", "sizeDone")
      /\ Leads(table, "ChunkSizeNewLine_2", {CR}, "ChunkSizeNewLine_3", "skip")
      /\ Leads(table, "ChunkSizeNewLine_2", {"alpha"}, "ChunkTrailerName", "skip")
      /\ Leads(table, "ChunkSizeNewLine_3", {LF}, "ChunkSizeNewLine_3", "complete")
  BY <1>1 DEF Body
<1>4. /\ Leads(table, "ChunkTrailerName", {":"}, "ChunkTrailerValue", "skip")
      /\ Leads(table, "ChunkTrailerValue", Alnum \cup {SP}, "ChunkTrailerValue", "skip")
      /\ Leads(table, "ChunkTrailerValue", {CR}, "ChunkSizeNewLine", "skip")
      /\ Leads(table, "ChunkData", AnyClass, "ChunkData", "data")
      /\ Leads(table, "ChunkDataNewLine_1", {CR}, "ChunkDataNewLine_2", "skip")
      /\ Leads(table, "ChunkDataNewLine_2", {LF}, "ChunkSize", "skip")
  BY <1>1 DEF Chunks
<1> QED BY <1>2, <1>3, <1>4 DEF BodyLeads

(* What an object counts is what tells its configurations apart. *)
LEMMA SameCounts ==
  ASSUME NEW o, NEW n, o.contentSize = n.contentSize, o.chunkSizeStr = n.chunkSizeStr,
         o.chunkSize = n.chunkSize, o.chunked = n.chunked, NEW st, NEW m
  PROVE  Config(st, o, m) = Config(st, n, m) /\ Done(st, o, m) = Done(st, n, m)
BY DEF Config, Done

(* The end of the headers. *)
LEMMA EndsHeaders ==
  ASSUME NEW table, HeaderLeads(table), NEW m, NEW o
  PROVE  Reaches(table, Config("HeaderLineStart", o, m), EndOfLine, Do("headers", Config("ExpectingNewline_3", o, m), LF))
<1>1. CR \in Symbols /\ LF \in Symbols /\ Class(CR) \in {CR} /\ Class(LF) \in {LF}
  BY Marks, ClassOf
<1>2. PICK st, ne, do, p, q, r, c, l : /\ st = "HeaderLineStart" /\ ne = "ExpectingNewline_3" /\ do = "headers"
                                       /\ p = Config(st, o, m) /\ q = Config(ne, o, m) /\ r = Do(do, q, l)
                                       /\ c = CR /\ l = LF
  OBVIOUS
<1>3. Leads(table, st, {CR}, ne, "skip") /\ Leads(table, ne, {LF}, ne, do)
  BY <1>2 DEF HeaderLeads
<1>4. Reaches(table, p, <<c>>, q)
  BY <1>1, <1>2, <1>3, MovesOn
<1>5. Reaches(table, q, <<l>>, r)
  BY <1>1, <1>2, <1>3, Moves
<1>6. Reaches(table, p, <<c, l>>, r)
  BY <1>1, <1>2, <1>4, <1>5, ReachesTwo
<1> QED BY <1>2, <1>6 DEF EndOfLine

(* A body of this length. *)
LEMMA ReadsContent ==
  ASSUME NEW table, BodyLeads(table), NEW m, IsMessage(m), NEW o, NEW hs, NEW ka,
         NEW s \in Strings, s # <<>>, o.contentSize = Len(s)
  PROVE  Reaches(table, Config("Post", o, Filled(m, hs, <<>>, ka)), s,
                 Done("Post", Sized(o, 0), Filled(m, hs, s, ka)))
<1>1. Len(s) \in Nat \ {0}
  BY LenProperties, EmptySeq
<1>2. PICK n : n = Len(s) /\ n \in Nat \ {0}
  BY <1>1
<1> DEFINE In(i) == Config("Post", Sized(o, n - i), Filled(m, hs, SubSeq(s, 1, i), ka))
           End == Done("Post", Sized(o, 0), Filled(m, hs, SubSeq(s, 1, n), ka))
           g == [i \in 0 .. n |-> IF i = n THEN End ELSE In(i)]
<1>3. ASSUME NEW i \in 1 .. Len(s)
      PROVE  Consume(table, g[i - 1], s[i]) = {g[i]}
  <2>1. i \in 1 .. n /\ i - 1 \in 0 .. n /\ i \in 0 .. n /\ i - 1 # n /\ (n - (i - 1)) - 1 = n - i
    BY <1>2
  <2>2. PICK a, c, k : a = SubSeq(s, 1, i - 1) /\ c = s[i] /\ k = n - (i - 1)
    OBVIOUS
  <2>3. Append(a, c) = SubSeq(s, 1, i) /\ c \in Symbols
    <3>1. PICK e : e = <<>> /\ e \in Strings
      BY EmptySeq
    <3>2. Append(e \o SubSeq(s, 1, i - 1), s[i]) = e \o SubSeq(s, 1, i)
      BY <1>2, <2>1, <3>1, Grow
    <3>3. SubSeq(s, 1, i) \in Strings /\ a \in Strings /\ c \in Symbols
      BY <1>2, <2>1, <2>2, SubSeqProperties, ElementOfSeq
    <3>4. e \o a = a /\ e \o SubSeq(s, 1, i) = SubSeq(s, 1, i)
      BY <3>1, <3>3
    <3> QED BY <2>2, <3>2, <3>3, <3>4
  <2>4. PICK x, y, w : x = Sized(o, k) /\ y = Filled(m, hs, a, ka) /\ w = Filled(m, hs, Append(a, c), ka)
    OBVIOUS
  <2>5. g[i - 1] = Config("Post", x, y)
    BY <2>1, <2>2, <2>4
  <2>6. x.contentSize - 1 = n - i
    BY <2>1, <2>2, <2>4, Counted
  <2>7. AddContent(y, c) = w
    BY <2>4, Added
  <2>8. Class(c) \in AnyClass
    BY ClassOf
  <2>9. Consume(table, Config("Post", x, y), c) = {Do("post", Config("Post", x, y), c)}
    BY <2>8 DEF BodyLeads, Leads
  <2>10. PICK z : z = Sized(x, x.contentSize - 1)
    OBVIOUS
  <2>11. /\ x.contentSize - 1 = 0 => Do("post", Config("Post", x, y), c) = Done("Post", z, w)
         /\ x.contentSize - 1 # 0 => Do("post", Config("Post", x, y), c) = Config("Post", z, w)
    <3>1. PICK st : st = "Post"
      OBVIOUS
    <3>2. /\ x.contentSize - 1 = 0 => Do("post", Config(st, x, y), c) = Done(st, Sized(x, x.contentSize - 1), AddContent(y, c))
          /\ x.contentSize - 1 # 0 => Do("post", Config(st, x, y), c) = Config(st, Sized(x, x.contentSize - 1), AddContent(y, c))
      BY DoPost
    <3> QED BY <2>7, <2>10, <3>1, <3>2
  <2>12. PICK u : u = Sized(o, n - i)
    OBVIOUS
  <2>13. z.contentSize = u.contentSize /\ z.chunkSizeStr = u.chunkSizeStr /\ z.chunkSize = u.chunkSize /\ z.chunked = u.chunked
    <3>1. PICK j : j = n - i
      OBVIOUS
    <3>2. z = Sized(x, j) /\ u = Sized(o, j)
      BY <2>6, <2>10, <2>12, <3>1
    <3>3. z.contentSize = j /\ z.chunkSizeStr = x.chunkSizeStr /\ z.chunkSize = x.chunkSize /\ z.chunked = x.chunked
      BY <3>2, Counted
    <3>4. u.contentSize = j /\ u.chunkSizeStr = o.chunkSizeStr /\ u.chunkSize = o.chunkSize /\ u.chunked = o.chunked
      BY <3>2, Counted
    <3>5. x.chunkSizeStr = o.chunkSizeStr /\ x.chunkSize = o.chunkSize /\ x.chunked = o.chunked
      BY <2>4, Counted
    <3> QED BY <3>3, <3>4, <3>5
  <2>14. Config("Post", z, w) = Config("Post", u, w) /\ Done("Post", z, w) = Done("Post", u, w)
    BY <2>13, SameCounts
  <2>15. CASE i = n
    <3>1. n - i = 0 /\ x.contentSize - 1 = 0
      BY <1>2, <2>6, <2>15
    <3>2. g[i] = Done("Post", Sized(o, 0), w)
      BY <2>1, <2>3, <2>4, <2>15
    <3>3. PICK v : v = Sized(o, 0)
      OBVIOUS
    <3>4. u = v
      BY <2>12, <3>1, <3>3
    <3> HIDE DEF g
    <3> QED BY <2>2, <2>5, <2>9, <2>11, <2>14, <3>1, <3>2, <3>3, <3>4
  <2>16. CASE i # n
    <3>1. n - i # 0 /\ x.contentSize - 1 # 0
      BY <1>2, <2>1, <2>6, <2>16
    <3>2. g[i] = Config("Post", u, w)
      BY <2>1, <2>3, <2>4, <2>12, <2>16
    <3> HIDE DEF g
    <3> QED BY <2>2, <2>5, <2>9, <2>11, <2>14, <3>1, <3>2
  <2> QED BY <2>15, <2>16
<1>4. g[0] = Config("Post", o, Filled(m, hs, <<>>, ka))
  <2>1. g[0] = In(0)
    BY <1>2
  <2>2. SubSeq(s, 1, 0) = <<>>
    BY Whole
  <2>3. PICK x : x = Sized(o, n - 0)
    OBVIOUS
  <2>4. x.contentSize = o.contentSize /\ x.chunkSizeStr = o.chunkSizeStr /\ x.chunkSize = o.chunkSize /\ x.chunked = o.chunked
    <3>1. n - 0 = n
      BY <1>2
    <3> QED BY <1>2, <2>3, <3>1, Counted
  <2>5. PICK y : y = Filled(m, hs, <<>>, ka)
    OBVIOUS
  <2>6. Config("Post", x, y) = Config("Post", o, y)
    BY <2>4, SameCounts
  <2> HIDE DEF g
  <2> QED BY <2>1, <2>2, <2>3, <2>5, <2>6
<1>5. g[n] = Done("Post", Sized(o, 0), Filled(m, hs, s, ka))
  <2>1. SubSeq(s, 1, Len(s)) = s
    BY Whole
  <2>2. g[n] = End
    BY <1>2
  <2> HIDE DEF g
  <2> QED BY <1>2, <2>1, <2>2
<1> HIDE DEF g
<1>6. Reaches(table, g[0], s, g[Len(s)])
  BY <1>3, ReachesAll
<1> QED BY <1>2, <1>4, <1>5, <1>6

(* The data of a chunk. *)
LEMMA ReadsData ==
  ASSUME NEW table, BodyLeads(table), NEW m, IsMessage(m), NEW o, NEW hs, NEW ka, NEW a \in Strings,
         NEW s \in Strings, s # <<>>, o.chunkSize = Len(s)
  PROVE  Reaches(table, Config("ChunkData", o, Filled(m, hs, a, ka)), s,
                 Config("ChunkDataNewLine_1", Chunk(o, o.chunkSizeStr, 0), Filled(m, hs, a \o s, ka)))
<1>1. Len(s) \in Nat \ {0}
  BY LenProperties, EmptySeq
<1>2. PICK n, str : n = Len(s) /\ n \in Nat \ {0} /\ str = o.chunkSizeStr
  BY <1>1
<1> DEFINE At(i) == Config(IF i = n THEN "ChunkDataNewLine_1" ELSE "ChunkData", Chunk(o, str, n - i),
                           Filled(m, hs, a \o SubSeq(s, 1, i), ka))
           g == [i \in 0 .. n |-> At(i)]
<1>3. ASSUME NEW i \in 1 .. Len(s)
      PROVE  Consume(table, g[i - 1], s[i]) = {g[i]}
  <2>1. i \in 1 .. n /\ i - 1 \in 0 .. n /\ i \in 0 .. n /\ i - 1 # n /\ (n - (i - 1)) - 1 = n - i /\ (n - (i - 1) = 1 <=> i = n)
    BY <1>2
  <2>2. PICK t, c, k : t = a \o SubSeq(s, 1, i - 1) /\ c = s[i] /\ k = n - (i - 1)
    OBVIOUS
  <2>3. Append(t, c) = a \o SubSeq(s, 1, i)
    <3>1. Append(a \o SubSeq(s, 1, i - 1), s[i]) = a \o SubSeq(s, 1, i)
      BY Grow
    <3> QED BY <2>2, <3>1
  <2>4. PICK x, y, w, u : /\ x = Chunk(o, str, k) /\ y = Filled(m, hs, t, ka) /\ w = Filled(m, hs, Append(t, c), ka)
                          /\ u = Chunk(o, str, n - i)
    OBVIOUS
  <2>5. g[i - 1] = Config("ChunkData", x, y)
    BY <2>1, <2>2, <2>4
  <2>6. x.chunkSize - 1 = n - i /\ (x.chunkSize = 1 <=> i = n) /\ x.chunkSizeStr = str
    BY <2>1, <2>2, <2>4, Counted
  <2>7. AddContent(y, c) = w
    BY <2>4, Added
  <2>8. Class(c) \in AnyClass
    BY ClassOf
  <2>9. Consume(table, Config("ChunkData", x, y), c) = {Do("data", Config("ChunkData", x, y), c)}
    BY <2>8 DEF BodyLeads, Leads
  <2>10. PICK z : z = Chunk(x, x.chunkSizeStr, x.chunkSize - 1)
    OBVIOUS
  <2>11. PICK st : st = IF i = n THEN "ChunkDataNewLine_1" ELSE "ChunkData"
    OBVIOUS
  <2>12. Do("data", Config("ChunkData", x, y), c) = Config(st, z, w)
    BY <2>6, <2>7, <2>10, <2>11, DoData
  <2>13. z.contentSize = u.contentSize /\ z.chunkSizeStr = u.chunkSizeStr /\ z.chunkSize = u.chunkSize /\ z.chunked = u.chunked
    BY <2>4, <2>6, <2>10, Counted
  <2>14. Config(st, z, w) = Config(st, u, w)
    BY <2>13, SameCounts
  <2>15. g[i] = Config(st, u, w)
    BY <2>1, <2>3, <2>4, <2>11
  <2> HIDE DEF g
  <2> QED BY <2>2, <2>5, <2>9, <2>12, <2>14, <2>15
<1>4. g[0] = Config("ChunkData", o, Filled(m, hs, a, ka))
  <2>1. g[0] = At(0) /\ 0 # n
    BY <1>2
  <2>2. SubSeq(s, 1, 0) = <<>> /\ a \o <<>> = a
    BY Whole
  <2>3. PICK x, y : x = Chunk(o, str, n - 0) /\ y = Filled(m, hs, a, ka)
    OBVIOUS
  <2>4. x.contentSize = o.contentSize /\ x.chunkSizeStr = o.chunkSizeStr /\ x.chunkSize = o.chunkSize /\ x.chunked = o.chunked
    <3>1. n - 0 = n
      BY <1>2
    <3> QED BY <1>2, <2>3, <3>1, Counted
  <2>5. Config("ChunkData", x, y) = Config("ChunkData", o, y)
    BY <2>4, SameCounts
  <2> HIDE DEF g
  <2> QED BY <2>1, <2>2, <2>3, <2>5
<1>5. g[n] = Config("ChunkDataNewLine_1", Chunk(o, str, 0), Filled(m, hs, a \o s, ka))
  <2>1. SubSeq(s, 1, Len(s)) = s
    BY Whole
  <2>2. g[n] = At(n) /\ n - n = 0
    BY <1>2
  <2> HIDE DEF g
  <2> QED BY <1>2, <2>1, <2>2
<1> HIDE DEF g
<1>6. Reaches(table, g[0], s, g[Len(s)])
  BY <1>3, ReachesAll
<1> QED BY <1>2, <1>4, <1>5, <1>6

(* The end of a line that may have had a chunk's size. *)
LEMMA EndsSize ==
  ASSUME NEW table, BodyLeads(table), NEW m, NEW o, NEW st \in {"ChunkSize", "ChunkExtensionValue", "ChunkTrailerValue"},
         NEW n, Leading(o.chunkSizeStr, HexOf, 16) = n
  PROVE  Reaches(table, Config(st, o, m), EndOfLine,
                 Config(IF n = 0 THEN "ChunkSizeNewLine_2" ELSE "ChunkData", Chunk(o, <<>>, n), m))
<1>1. CR \in Symbols /\ LF \in Symbols /\ Class(CR) \in {CR} /\ Class(LF) \in {LF}
  BY Marks, ClassOf
<1>2. PICK ne, do, p, q, r, c, l : /\ ne = "ChunkSizeNewLine" /\ do = "sizeDone"
                                   /\ p = Config(st, o, m) /\ q = Config(ne, o, m) /\ r = Do(do, q, l)
                                   /\ c = CR /\ l = LF
  OBVIOUS
<1>3. Leads(table, st, {CR}, ne, "skip") /\ Leads(table, ne, {LF}, ne, do)
  BY <1>2 DEF BodyLeads
<1>4. Reaches(table, p, <<c>>, q)
  BY <1>1, <1>2, <1>3, MovesOn
<1>5. Reaches(table, q, <<l>>, r)
  BY <1>1, <1>2, <1>3, Moves
<1>6. Reaches(table, p, <<c, l>>, r)
  BY <1>1, <1>2, <1>4, <1>5, ReachesTwo
<1>7. r = Config(IF n = 0 THEN "ChunkSizeNewLine_2" ELSE "ChunkData", Chunk(o, <<>>, n), m)
  BY DoSize, <1>2
<1> QED BY <1>2, <1>6, <1>7 DEF EndOfLine

(* The size of a chunk. *)
LEMMA ReadsSize ==
  ASSUME NEW table, BodyLeads(table), NEW m, NEW o, o.chunkSizeStr = <<>>, NEW n \in 0 .. 15
  PROVE  /\ Reaches(table, Config("ChunkSize", o, m), Hex(n), Config("ChunkSize", Chunk(o, Hex(n), o.chunkSize), m))
         /\ Hex(n) \in Strings
<1>1. PICK d, st, do : d = Digits[n + 1] /\ st = "ChunkSize" /\ do = "size"
  OBVIOUS
<1>2. d \in Symbols /\ Class(d) \in Alnum
  BY <1>1, DigitValues, ClassOf
<1>3. PICK w : w = <<d>> /\ w \in Strings /\ Append(<<>>, d) = w
  <2>1. PICK w : w = <<d>>
    OBVIOUS
  <2>2. w \in Strings
    BY <1>2, <2>1
  <2>3. Append(<<>>, d) = w
    BY <2>1
  <2> QED BY <2>1, <2>2, <2>3
<1>4. Leads(table, st, Alnum, st, do)
  BY <1>1 DEF BodyLeads
<1>5. PICK q : q = Config(st, Chunk(o, w, o.chunkSize), m)
  OBVIOUS
<1>6. Do(do, Config(st, o, m), d) = q
  BY DoSize, <1>1, <1>3, <1>5
<1>7. Reaches(table, Config(st, o, m), <<d>>, q)
  BY <1>2, <1>4, <1>6, Moves
<1>8. Hex(n) = w
  BY <1>1, <1>3 DEF Hex
<1> QED BY <1>1, <1>3, <1>5, <1>7, <1>8

(* A chunk. *)
LEMMA ReadsChunk ==
  ASSUME NEW table, BodyLeads(table), NEW m, IsMessage(m), NEW o, o.chunkSizeStr = <<>>, NEW hs, NEW ka,
         NEW a \in Strings, NEW s \in Strings, NEW n, Len(s) = n, n \in 1 .. 15
  PROVE  /\ Reaches(table, Config("ChunkSize", o, Filled(m, hs, a, ka)), ChunkText(n, s),
                    Config("ChunkSize", Chunk(o, <<>>, 0), Filled(m, hs, a \o s, ka)))
         /\ ChunkText(n, s) \in Strings
<1>1. n \in 0 .. 15 /\ n # 0
  OBVIOUS
<1>2. PICK x, y, e : x = Filled(m, hs, a, ka) /\ y = Filled(m, hs, a \o s, ka) /\ e = EndOfLine /\ e \in Strings
  BY Marks
<1>3. PICK str, u : str = Hex(n) /\ u = Chunk(o, str, o.chunkSize)
  OBVIOUS
<1>4. PICK v, w : v = Chunk(u, <<>>, n) /\ w = Chunk(o, <<>>, 0)
  OBVIOUS
<1>5. PICK p, q, r : p = Config("ChunkSize", o, x) /\ q = Config("ChunkSize", u, x) /\ r = Config("ChunkData", v, x)
  OBVIOUS
<1>6. Reaches(table, p, str, q) /\ str \in Strings
  BY <1>1, <1>3, <1>5, ReadsSize
<1>7. Reaches(table, q, e, r)
  <2>1. u.chunkSizeStr = str
    BY <1>3, Counted
  <2>2. Leading(u.chunkSizeStr, HexOf, 16) = n
    BY <1>1, <1>3, <2>1, LeadingHex
  <2>3. PICK st : st = "ChunkSize" /\ st \in {"ChunkSize", "ChunkExtensionValue", "ChunkTrailerValue"}
    OBVIOUS
  <2>4. Reaches(table, Config(st, u, x), EndOfLine,
                 Config(IF n = 0 THEN "ChunkSizeNewLine_2" ELSE "ChunkData", Chunk(u, <<>>, n), x))
    BY <2>2, <2>3, EndsSize
  <2> QED BY <1>1, <1>2, <1>4, <1>5, <2>3, <2>4
<1>8. PICK k : k = Chunk(v, v.chunkSizeStr, 0)
  OBVIOUS
<1>9. PICK t, z : t = Config("ChunkDataNewLine_1", k, y) /\ z = Config("ChunkSize", k, y)
  OBVIOUS
<1>10. Reaches(table, r, s, t)
  <2>1. v.chunkSize = Len(s)
    BY <1>4, Counted
  <2>2. s # <<>>
    <3>1. PICK f : f = <<>> /\ Len(f) = 0
      OBVIOUS
    <3> QED BY <1>1, <3>1
  <2>3. Reaches(table, Config("ChunkData", v, Filled(m, hs, a, ka)), s,
                Config("ChunkDataNewLine_1", Chunk(v, v.chunkSizeStr, 0), Filled(m, hs, a \o s, ka)))
    BY <2>1, <2>2, ReadsData
  <2> QED BY <1>2, <1>5, <1>8, <1>9, <2>3
<1>11. Reaches(table, t, e, z)
  <2>1. PICK st, ne, la : st = "ChunkDataNewLine_1" /\ ne = "ChunkDataNewLine_2" /\ la = "ChunkSize"
    OBVIOUS
  <2>2. Leads(table, st, {CR}, ne, "skip") /\ Leads(table, ne, {LF}, la, "skip")
    BY <2>1 DEF BodyLeads
  <2>3. PICK do : do = "skip"
    OBVIOUS
  <2>4. Do(do, Config(ne, k, y), CR) = Config(ne, k, y)
    BY <2>3 DEF Do
  <2>5. Reaches(table, Config(st, k, y), EndOfLine, Config(la, k, y))
    BY <2>2, <2>3, <2>4, LineEnds
  <2> QED BY <1>2, <1>9, <2>1, <2>5
<1>12. z = Config("ChunkSize", w, y)
  <2>1. /\ k.contentSize = w.contentSize /\ k.chunkSizeStr = w.chunkSizeStr
        /\ k.chunkSize = w.chunkSize /\ k.chunked = w.chunked
    BY <1>8, Counted, <1>4, <1>3
  <2> QED BY <1>9, <2>1, SameCounts
<1>13. Reaches(table, p, str \o e, r) /\ str \o e \in Strings
  BY <1>2, <1>6, <1>7, Then
<1>14. PICK b : b = str \o e
  OBVIOUS
<1>15. Reaches(table, p, b \o s, t) /\ b \o s \in Strings
  BY <1>10, <1>13, <1>14, Then
<1>16. PICK f : f = b \o s
  OBVIOUS
<1>17. Reaches(table, p, f \o e, z) /\ f \o e \in Strings
  BY <1>2, <1>11, <1>15, <1>16, Then
<1>18. ChunkText(n, s) = f \o e
  BY <1>2, <1>3, <1>14, <1>16 DEF ChunkText
<1> QED BY <1>2, <1>4, <1>5, <1>12, <1>17, <1>18

(* The last line of a body in chunks. *)
LEMMA EndsChunks ==
  ASSUME NEW table, BodyLeads(table), NEW m, NEW o
  PROVE  Reaches(table, Config("ChunkSizeNewLine_2", o, m), EndOfLine, Done("ChunkSizeNewLine_3", o, m))
<1>1. CR \in Symbols /\ LF \in Symbols /\ Class(CR) \in {CR} /\ Class(LF) \in {LF}
  BY Marks, ClassOf
<1>2. PICK st, ne, do, p, q, r, c, l : /\ st = "ChunkSizeNewLine_2" /\ ne = "ChunkSizeNewLine_3" /\ do = "complete"
                                       /\ p = Config(st, o, m) /\ q = Config(ne, o, m) /\ r = Done(ne, o, m)
                                       /\ c = CR /\ l = LF
  OBVIOUS
<1>3. Leads(table, st, {CR}, ne, "skip") /\ Leads(table, ne, {LF}, ne, do)
  BY <1>2 DEF BodyLeads
<1>4. Reaches(table, p, <<c>>, q)
  BY <1>1, <1>2, <1>3, MovesOn
<1>5. Do(do, q, l) = r
  <2>1. Do("complete", Config(ne, o, m), l) = Done(ne, o, m)
    BY DoSize
  <2> QED BY <1>2, <2>1
<1>6. Reaches(table, q, <<l>>, r)
  BY <1>1, <1>2, <1>3, <1>5, Moves
<1>7. Reaches(table, p, <<c, l>>, r)
  BY <1>1, <1>2, <1>4, <1>6, ReachesTwo
<1> QED BY <1>2, <1>7 DEF EndOfLine

(* Four characters. *)
LEMMA ReachesFour ==
  ASSUME NEW table, NEW p, NEW q, NEW r, NEW t, NEW v,
         NEW a \in Symbols, NEW b \in Symbols, NEW c \in Symbols, NEW d \in Symbols,
         Reaches(table, p, <<a>>, q), Reaches(table, q, <<b>>, r), Reaches(table, r, <<c>>, t), Reaches(table, t, <<d>>, v)
  PROVE  Reaches(table, p, <<a, b, c, d>>, v) /\ <<a, b, c, d>> \in Strings
<1>1. Reaches(table, p, <<a, b>>, r) /\ Reaches(table, r, <<c, d>>, v)
  <2>1. Reaches(table, p, <<a, b>>, r)
    BY ReachesTwo
  <2>2. Reaches(table, r, <<c, d>>, v)
    BY ReachesTwo
  <2> QED BY <2>1, <2>2
<1>2. PICK x, y, z : x = <<a, b>> /\ y = <<c, d>> /\ z = <<a, b, c, d>>
  OBVIOUS
<1>3. x \in Strings /\ y \in Strings /\ z \in Strings
  BY <1>2
<1>4. x \o y = z
  <2>1. /\ Len(x) = 2 /\ x[1] = a /\ x[2] = b /\ Len(y) = 2 /\ y[1] = c /\ y[2] = d
        /\ Len(z) = 4 /\ z[1] = a /\ z[2] = b /\ z[3] = c /\ z[4] = d
    BY <1>2
  <2>2. PICK u : u = x \o y
    OBVIOUS
  <2>3. u \in Strings /\ Len(u) = 4 /\ u[1] = a /\ u[2] = b /\ u[3] = c /\ u[4] = d
    <3>1. u \in Strings /\ Len(u) = Len(x) + Len(y)
          /\ \A i \in 1 .. Len(x) + Len(y) : u[i] = IF i <= Len(x) THEN x[i] ELSE y[i - Len(x)]
      BY <1>3, <2>2, ConcatProperties
    <3>2. /\ 1 \in 1 .. 4 /\ 2 \in 1 .. 4 /\ 3 \in 1 .. 4 /\ 4 \in 1 .. 4 /\ 1 <= 2 /\ 2 <= 2 /\ ~(3 <= 2) /\ ~(4 <= 2)
          /\ 3 - 2 = 1 /\ 4 - 2 = 2 /\ 2 + 2 = 4
      OBVIOUS
    <3>3. Len(u) = 4 /\ \A i \in 1 .. 4 : u[i] = IF i <= 2 THEN x[i] ELSE y[i - 2]
      BY <2>1, <3>1, <3>2
    <3>4. u[1] = x[1] /\ u[2] = x[2] /\ u[3] = y[1] /\ u[4] = y[2]
      BY <3>2, <3>3
    <3> QED BY <2>1, <3>1, <3>3, <3>4
  <2>4. \A i \in 1 .. Len(u) : u[i] = z[i]
    <3>1. \A i \in 1 .. 4 : i = 1 \/ i = 2 \/ i = 3 \/ i = 4
      OBVIOUS
    <3> QED BY <2>1, <2>3, <3>1
  <2>5. u = z
    BY <1>3, <2>1, <2>3, <2>4, SeqEqual
  <2> QED BY <2>2, <2>5
<1>5. Reaches(table, p, x \o y, v)
  BY <1>1, <1>2, <1>3, Then
<1> QED BY <1>2, <1>3, <1>4, <1>5

(* The chunk of size 0, with an extension, a trailer or neither. *)
LEMMA ReadsLastChunk ==
  ASSUME NEW table, BodyLeads(table), NEW m, NEW o, o.chunkSizeStr = <<>>,
         NEW d, d.form \in {"chunks", "extensions", "trailers"}
  PROVE  /\ Reaches(table, Config("ChunkSize", o, m), LastChunk(d), Done("ChunkSizeNewLine_3", Chunk(o, <<>>, 0), m))
         /\ LastChunk(d) \in Strings
<1>1. PICK zero, str, u, e, em : /\ zero = 0 /\ str = Hex(0) /\ u = Chunk(o, str, o.chunkSize) /\ e = EndOfLine
                                 /\ em = <<>>
  OBVIOUS
<1>2. e \in Strings /\ zero \in 0 .. 15
  BY <1>1, Marks
<1>3. PICK v : v = Chunk(o, em, 0)
  OBVIOUS
<1>4. PICK p, q, z : p = Config("ChunkSize", o, m) /\ q = Config("ChunkSize", u, m) /\ z = Done("ChunkSizeNewLine_3", v, m)
  OBVIOUS
<1>5. Reaches(table, p, str, q) /\ str \in Strings
  BY <1>1, <1>2, <1>4, ReadsSize
<1>6. \A n : n.contentSize = o.contentSize /\ n.chunked = o.chunked =>
        Config("ChunkSizeNewLine_2", Chunk(n, em, 0), m) = Config("ChunkSizeNewLine_2", v, m)
  <2> SUFFICES ASSUME NEW n, n.contentSize = o.contentSize, n.chunked = o.chunked
               PROVE  Config("ChunkSizeNewLine_2", Chunk(n, em, 0), m) = Config("ChunkSizeNewLine_2", v, m)
    OBVIOUS
  <2>1. PICK x : x = Chunk(n, em, 0)
    OBVIOUS
  <2>2. x.contentSize = v.contentSize /\ x.chunkSizeStr = v.chunkSizeStr /\ x.chunkSize = v.chunkSize /\ x.chunked = v.chunked
    BY <2>1, Counted, <1>3
  <2> QED BY <2>1, <2>2, SameCounts
<1>7. PICK y : y = Config("ChunkSizeNewLine_2", v, m)
  OBVIOUS
(* A line that ends with an empty size, or the one of zero. *)
<1>8. ASSUME NEW n, n.contentSize = o.contentSize, n.chunked = o.chunked, n.chunkSizeStr \in {em, str},
             NEW st \in {"ChunkSize", "ChunkExtensionValue", "ChunkTrailerValue"}
      PROVE  Reaches(table, Config(st, n, m), e, y)
  <2>1. Leading(n.chunkSizeStr, HexOf, 16) = zero
    BY <1>1, LeadingHex, <1>2, <1>8
  <2>2. Reaches(table, Config(st, n, m), EndOfLine,
                 Config(IF zero = 0 THEN "ChunkSizeNewLine_2" ELSE "ChunkData", Chunk(n, <<>>, zero), m))
    BY <2>1, EndsSize
  <2> QED BY <1>1, <1>6, <1>7, <1>8, <2>2
<1>9. Reaches(table, y, e, z)
  BY <1>1, <1>4, <1>7, EndsChunks
<1>10. u.contentSize = o.contentSize /\ u.chunked = o.chunked /\ u.chunkSizeStr = str
  BY <1>1, Counted
<1>11. PICK nam, col, equ, val : nam = "name" /\ col = ":" /\ equ = "=" /\ val = "value"
  OBVIOUS
<1>12. /\ nam \in Symbols /\ col \in Symbols /\ equ \in Symbols /\ val \in Symbols /\ SEMI \in Symbols /\ SP \in Symbols
       /\ Class(nam) \in {"alpha"} /\ Class(nam) \in Alnum \cup {SP} /\ Class(val) \in Alnum \cup {SP}
       /\ Class(col) \in {":"} /\ Class(equ) \in {"="} /\ Class(SEMI) \in {SEMI} /\ Class(SP) \in Alnum \cup {SP}
  BY <1>11, Marks, ClassOf DEF Symbols, Alnum
<1>13. CASE d.form = "chunks"
  <2>1. Reaches(table, q, e, y)
    BY <1>4, <1>8, <1>10
  <2>2. Reaches(table, p, str \o e, y) /\ str \o e \in Strings
    BY <1>2, <1>5, <2>1, Then
  <2>3. PICK a : a = str \o e
    OBVIOUS
  <2>4. Reaches(table, p, a \o e, z) /\ a \o e \in Strings
    BY <1>2, <1>9, <2>2, <2>3, Then
  <2>5. LastChunk(d) = a \o e
    BY <1>1, <1>13, <2>3 DEF LastChunk
  <2> QED BY <1>1, <1>3, <1>4, <2>4, <2>5
<1>14. CASE d.form = "extensions"
  <2>1. PICK en, ev : en = "ChunkExtensionName" /\ ev = "ChunkExtensionValue"
    OBVIOUS
  <2>2. PICK c1, c2, c3 : c1 = Config("ChunkSize", u, m) /\ c2 = Config(en, u, m) /\ c3 = Config(ev, u, m)
    OBVIOUS
  <2>3. Reaches(table, c1, <<SEMI>>, c2)
    <3>1. PICK st : st = "ChunkSize"
      OBVIOUS
    <3>2. Leads(table, st, {SEMI}, en, "skip")
      BY <2>1, <3>1 DEF BodyLeads
    <3>3. Reaches(table, Config(st, u, m), <<SEMI>>, Config(en, u, m))
      BY <1>12, <3>2, MovesOn
    <3> QED BY <2>2, <3>1, <3>3
  <2>4. Leads(table, en, Alnum \cup {SP}, en, "skip") /\ Leads(table, en, {"="}, ev, "skip")
        /\ Leads(table, ev, Alnum \cup {SP}, ev, "skip")
    BY <2>1 DEF BodyLeads
  <2>5. Reaches(table, c2, <<nam>>, c2)
    BY <1>12, <2>2, <2>4, MovesOn
  <2>6. Reaches(table, c2, <<equ>>, c3)
    BY <1>12, <2>2, <2>4, MovesOn
  <2>7. Reaches(table, c3, <<val>>, c3)
    BY <1>12, <2>2, <2>4, MovesOn
  <2>8. PICK semi, f : semi = SEMI /\ f = <<semi, nam, equ, val>>
    OBVIOUS
  <2>9. Reaches(table, c1, f, c3) /\ f \in Strings
    BY <1>12, <2>3, <2>5, <2>6, <2>7, <2>8, ReachesFour
  <2>10. Reaches(table, c3, e, y)
    BY <1>8, <1>10, <2>1, <2>2
  <2>11. Reaches(table, p, str \o f, c3) /\ str \o f \in Strings
    BY <1>4, <1>5, <2>2, <2>9, Then
  <2>12. PICK a : a = str \o f
    OBVIOUS
  <2>13. Reaches(table, p, a \o e, y) /\ a \o e \in Strings
    BY <1>2, <2>10, <2>11, <2>12, Then
  <2>14. PICK b : b = a \o e
    OBVIOUS
  <2>15. Reaches(table, p, b \o e, z) /\ b \o e \in Strings
    BY <1>2, <1>9, <2>13, <2>14, Then
  <2>16. LastChunk(d) = b \o e
    BY <1>1, <1>11, <1>14, <2>8, <2>12, <2>14 DEF LastChunk
  <2> QED BY <1>1, <1>3, <1>4, <2>15, <2>16
<1>15. CASE d.form = "trailers"
  <2>1. PICK nl, tn, tv : nl = "ChunkSizeNewLine_2" /\ tn = "ChunkTrailerName" /\ tv = "ChunkTrailerValue"
    OBVIOUS
  <2>2. PICK c2, c3 : c2 = Config(tn, v, m) /\ c3 = Config(tv, v, m)
    OBVIOUS
  <2>3. Leads(table, nl, {"alpha"}, tn, "skip") /\ Leads(table, tn, {":"}, tv, "skip")
        /\ Leads(table, tv, Alnum \cup {SP}, tv, "skip")
    BY <2>1 DEF BodyLeads
  <2>4. Reaches(table, y, <<nam>>, c2)
    <3>1. Reaches(table, Config(nl, v, m), <<nam>>, Config(tn, v, m))
      BY <1>12, <2>3, MovesOn
    <3> QED BY <1>7, <2>1, <2>2, <3>1
  <2>5. Reaches(table, c2, <<col>>, c3)
    BY <1>12, <2>2, <2>3, MovesOn
  <2>6. PICK sp : sp = SP /\ sp \in Symbols
    BY <1>12
  <2>7. Reaches(table, c3, <<sp>>, c3)
    BY <1>12, <2>2, <2>3, <2>6, MovesOn
  <2>8. Reaches(table, c3, <<val>>, c3)
    BY <1>12, <2>2, <2>3, MovesOn
  <2>9. PICK f : f = <<nam, col, sp, val>>
    OBVIOUS
  <2>10. Reaches(table, y, f, c3) /\ f \in Strings
    BY <1>12, <2>4, <2>5, <2>6, <2>7, <2>8, <2>9, ReachesFour
  <2>11. Reaches(table, q, e, y)
    BY <1>4, <1>8, <1>10
  <2>12. v.contentSize = o.contentSize /\ v.chunked = o.chunked /\ v.chunkSizeStr = em
    BY <1>3, Counted
  <2>13. Reaches(table, c3, e, y)
    BY <1>8, <2>1, <2>2, <2>12
  <2>14. Reaches(table, p, str \o e, y) /\ str \o e \in Strings
    BY <1>2, <1>5, <2>11, Then
  <2>15. PICK a : a = str \o e
    OBVIOUS
  <2>16. Reaches(table, p, a \o f, c3) /\ a \o f \in Strings
    BY <2>10, <2>14, <2>15, Then
  <2>17. PICK b : b = a \o f
    OBVIOUS
  <2>18. Reaches(table, p, b \o e, y) /\ b \o e \in Strings
    BY <1>2, <2>13, <2>16, <2>17, Then
  <2>19. PICK c : c = b \o e
    OBVIOUS
  <2>20. Reaches(table, p, c \o e, z) /\ c \o e \in Strings
    BY <1>2, <1>9, <2>18, <2>19, Then
  <2>21. LastChunk(d) = c \o e
    BY <1>1, <1>11, <1>15, <2>6, <2>9, <2>15, <2>17, <2>19 DEF LastChunk
  <2> QED BY <1>1, <1>3, <1>4, <2>20, <2>21
<1> QED BY <1>13, <1>14, <1>15

----------------------------------------
(* Bodies in chunks, and whole bodies *)

(* What a parser's object counts. *)
Counters(o) ==
  o.contentSize \in Int /\ o.chunkSizeStr \in Strings /\ o.chunkSize \in Int /\ o.chunked \in BOOLEAN

(* Before the first message it has counted nothing. *)
Unused(o) == o.contentSize = 0 /\ o.chunkSizeStr = <<>> /\ o.chunkSize = 0 /\ o.chunked = FALSE

(* After one it is in a state in which messages end. *)
Finished(st, o) ==
  /\ Counters(o)
  /\ \/ st = "Post" /\ o.contentSize = 0
     \/ st = "ExpectingNewline_3" /\ o.contentSize = 0 /\ ~o.chunked
     \/ st = "ChunkSizeNewLine_3"

(* A text is its first character and the others. *)
LEMMA HeadAndTail ==
  ASSUME NEW s \in Strings, s # <<>>
  PROVE  /\ SubSeq(s, 1, 1) \in Strings /\ Len(SubSeq(s, 1, 1)) = 1
         /\ Tail(s) \in Strings /\ Len(Tail(s)) = Len(s) - 1
         /\ SubSeq(s, 1, 1) \o Tail(s) = s
<1>1. PICK n : n = Len(s) /\ n \in Nat \ {0}
  BY LenProperties, EmptySeq
<1>2. PICK x, y : x = SubSeq(s, 1, 1) /\ y = Tail(s)
  OBVIOUS
<1>3. x \in Strings /\ Len(x) = 1 /\ x[1] = s[1]
  <2>1. 1 \in 1 .. n /\ \A i \in 1 .. 1 : i = 1 /\ s[i] \in Symbols
    BY <1>1, ElementOfSeq
  <2> QED BY <1>1, <1>2, <2>1, SubSeqProperties
<1>4. y \in Strings /\ Len(y) = n - 1 /\ \A i \in 1 .. n - 1 : y[i] = s[i + 1]
  BY <1>1, <1>2, HeadTailProperties
<1>5. PICK z : z = x \o y
  OBVIOUS
<1>6. z \in Strings /\ Len(z) = n /\ \A i \in 1 .. n : z[i] = s[i]
  <2>1. z \in Strings /\ Len(z) = Len(x) + Len(y)
        /\ \A i \in 1 .. Len(x) + Len(y) : z[i] = IF i <= Len(x) THEN x[i] ELSE y[i - Len(x)]
    <3>1. x \in Strings /\ y \in Strings
      BY <1>3, <1>4
    <3> QED BY <1>5, <3>1, ConcatProperties, ZenonT(30)
  <2>2. 1 + (n - 1) = n
    BY <1>1
  <2>3. \A i \in 1 .. n : z[i] = IF i <= 1 THEN x[i] ELSE y[i - 1]
    BY <1>3, <1>4, <2>1, <2>2
  <2>4. ASSUME NEW i \in 1 .. n PROVE z[i] = s[i]
    <3>1. CASE i = 1
      BY <1>3, <2>3, <3>1
    <3>2. CASE i # 1
      <4>1. ~(i <= 1) /\ i - 1 \in 1 .. n - 1 /\ (i - 1) + 1 = i
        BY <1>1, <3>2
      <4> QED BY <1>4, <2>3, <4>1
    <3> QED BY <3>1, <3>2
  <2> QED BY <1>3, <1>4, <2>1, <2>2, <2>4
<1>7. z = s
  BY <1>1, <1>6, SeqEqual
<1> QED BY <1>1, <1>2, <1>3, <1>4, <1>5, <1>7

(* A body in chunks. *)
LEMMA ReadsChunks ==
  ASSUME NEW table, BodyLeads(table), NEW m, IsMessage(m), NEW o, o.chunkSizeStr = <<>>, NEW hs, NEW ka,
         NEW d, MessageForm(d), d.form \in {"chunks", "extensions", "trailers"}
  PROVE  /\ Reaches(table, Config("ChunkSize", o, Filled(m, hs, <<>>, ka)), BodyText(d),
                    Done("ChunkSizeNewLine_3", Chunk(o, <<>>, 0), Filled(m, hs, d.content, ka)))
         /\ BodyText(d) \in Strings
<1>1. PICK s, n : s = d.content /\ s \in Strings /\ n = Len(s) /\ n \in 2 .. 16
  BY ContentFits
<1>2. s # <<>>
  <2>1. PICK f : f = <<>> /\ Len(f) = 0
    OBVIOUS
  <2>2. ~ (0 \in 2 .. 16)
    OBVIOUS
  <2>3. Len(s) # 0
    BY <1>1, <2>2
  <2> QED BY <2>1, <2>3
<1>3. PICK x, y, one, k : x = SubSeq(s, 1, 1) /\ y = Tail(s) /\ one = 1 /\ k = n - 1
  OBVIOUS
<1>4. /\ x \in Strings /\ Len(x) = one /\ one \in 1 .. 15
      /\ y \in Strings /\ Len(y) = k /\ k \in 1 .. 15 /\ x \o y = s
  <2>1. \A j \in 2 .. 16 : j - 1 \in 1 .. 15
    OBVIOUS
  <2> QED BY <1>1, <1>2, <1>3, <2>1, HeadAndTail
<1>5. PICK em : em = <<>> /\ em \in Strings
  BY EmptySeq
<1>6. PICK v, w : v = Chunk(o, em, 0) /\ w = Chunk(v, em, 0)
  OBVIOUS
<1>7. PICK m0, m1, m2 : /\ m0 = Filled(m, hs, em, ka) /\ m1 = Filled(m, hs, em \o x, ka)
                        /\ m2 = Filled(m, hs, (em \o x) \o y, ka)
  OBVIOUS
<1>8. em \o x = x /\ em \o x \in Strings /\ (em \o x) \o y = s
  BY <1>4, <1>5
<1>9. v.chunkSizeStr = <<>> /\ w.chunkSizeStr = <<>>
  BY <1>5, <1>6, Counted
<1>10. Reaches(table, Config("ChunkSize", o, m0), ChunkText(one, x), Config("ChunkSize", v, m1)) /\ ChunkText(one, x) \in Strings
  BY <1>4, <1>5, <1>6, <1>7, ReadsChunk
<1>11. Reaches(table, Config("ChunkSize", v, m1), ChunkText(k, y), Config("ChunkSize", w, m2)) /\ ChunkText(k, y) \in Strings
  <2>1. PICK a : a = em \o x /\ a \in Strings
    BY <1>8
  <2>2. /\ Reaches(table, Config("ChunkSize", v, Filled(m, hs, a, ka)), ChunkText(k, y),
                   Config("ChunkSize", Chunk(v, <<>>, 0), Filled(m, hs, a \o y, ka)))
        /\ ChunkText(k, y) \in Strings
    BY <1>4, <1>9, <2>1, ReadsChunk
  <2> QED BY <1>5, <1>6, <1>7, <2>1, <2>2
<1>12. PICK z : z = Done("ChunkSizeNewLine_3", Chunk(w, em, 0), m2)
  OBVIOUS
<1>13. Reaches(table, Config("ChunkSize", w, m2), LastChunk(d), z) /\ LastChunk(d) \in Strings
  BY <1>5, <1>9, <1>12, ReadsLastChunk
<1>14. z = Done("ChunkSizeNewLine_3", Chunk(o, <<>>, 0), Filled(m, hs, d.content, ka))
  <2>1. PICK u : u = Chunk(w, em, 0)
    OBVIOUS
  <2>2. u.contentSize = v.contentSize /\ u.chunkSizeStr = v.chunkSizeStr /\ u.chunkSize = v.chunkSize /\ u.chunked = v.chunked
    BY <2>1, Counted, <1>6
  <2>3. Done("ChunkSizeNewLine_3", u, m2) = Done("ChunkSizeNewLine_3", v, m2)
    BY <2>2, SameCounts
  <2>4. m2 = Filled(m, hs, s, ka)
    BY <1>7, <1>8
  <2> QED BY <1>1, <1>5, <1>6, <1>12, <2>1, <2>3, <2>4
<1>15. PICK a, b, c, p, q, r : /\ a = ChunkText(one, x) /\ b = ChunkText(k, y) /\ c = LastChunk(d)
                               /\ p = Config("ChunkSize", o, m0) /\ q = Config("ChunkSize", v, m1)
                               /\ r = Config("ChunkSize", w, m2)
  OBVIOUS
<1>16. Reaches(table, p, a \o b, r) /\ a \o b \in Strings
  <2>1. Reaches(table, p, a, q) /\ Reaches(table, q, b, r) /\ a \in Strings /\ b \in Strings
    BY <1>10, <1>11, <1>15
  <2> QED BY <2>1, Then
<1>17. PICK f : f = a \o b
  OBVIOUS
<1>18. Reaches(table, p, f \o c, z) /\ f \o c \in Strings
  <2>1. Reaches(table, r, c, z) /\ c \in Strings
    BY <1>13, <1>15
  <2> QED BY <1>16, <1>17, <2>1, Then
<1>19. BodyText(d) = f \o c
  BY <1>1, <1>3, <1>15, <1>17 DEF BodyText
<1> QED BY <1>5, <1>7, <1>14, <1>15, <1>18, <1>19

(* The end of the headers, and the body. *)
LEMMA ReadsBody ==
  ASSUME NEW table, HeaderLeads(table), BodyLeads(table), NEW m, IsMessage(m), NEW o, Unused(o), NEW hs, NEW ka, NEW keeps,
         KeepsAlive(Filled(m, hs, <<>>, ka)) = keeps,
         NEW d, MessageForm(d)
  PROVE  \E r, st, n :
           /\ Reaches(table, Config("HeaderLineStart", Told(o, d), Filled(m, hs, <<>>, ka)), EndOfLine, r)
           /\ Reaches(table, r, BodyText(d), Done(st, n, Filled(m, hs, d.content, keeps)))
           /\ BodyText(d) \in Strings /\ Finished(st, n)
<1>1. PICK em, t, q, x, r : /\ em = <<>> /\ em \in Strings /\ t = Told(o, d) /\ q = Filled(m, hs, em, ka)
                            /\ x = Filled(m, hs, em, keeps)
                            /\ r = Do("headers", Config("ExpectingNewline_3", t, q), LF)
  BY EmptySeq
<1>2. Reaches(table, Config("HeaderLineStart", t, q), EndOfLine, r)
  BY <1>1, EndsHeaders
<1>3. /\ t.chunked => r = Config("ChunkSize", t, x)
      /\ ~t.chunked /\ t.contentSize # 0 => r = Config("Post", t, x)
      /\ ~t.chunked /\ t.contentSize = 0 => r = Done("ExpectingNewline_3", t, x)
  <2>1. PICK st : st = "ExpectingNewline_3"
    OBVIOUS
  <2>2. /\ t.chunked => Do("headers", Config(st, t, Filled(m, hs, em, ka)), LF)
                          = Config("ChunkSize", t, Filled(m, hs, em, KeepsAlive(Filled(m, hs, em, ka))))
        /\ ~t.chunked /\ t.contentSize # 0 => Do("headers", Config(st, t, Filled(m, hs, em, ka)), LF)
                          = Config("Post", t, Filled(m, hs, em, KeepsAlive(Filled(m, hs, em, ka))))
        /\ ~t.chunked /\ t.contentSize = 0 => Do("headers", Config(st, t, Filled(m, hs, em, ka)), LF)
                          = Done(st, t, Filled(m, hs, em, KeepsAlive(Filled(m, hs, em, ka))))
    BY DoHeaders
  <2>3. KeepsAlive(q) = keeps
    BY <1>1
  <2> QED BY <1>1, <2>1, <2>2, <2>3
<1>4. PICK z : z = Filled(m, hs, d.content, keeps)
  OBVIOUS
<1>5. SUFFICES \E st, n : /\ Reaches(table, r, BodyText(d), Done(st, n, z))
                          /\ BodyText(d) \in Strings /\ Finished(st, n)
  BY <1>1, <1>2, <1>4
<1>6. CASE d.form = "none" \/ (d.form = "length" /\ d.content = <<>>)
  <2>1. t.contentSize = 0 /\ t.chunked = FALSE /\ t.chunkSizeStr = em /\ t.chunkSize = 0
    <3>1. CASE d.form = "none"
      BY <1>1, <3>1 DEF Told, Unused
    <3>2. CASE d.form = "length" /\ d.content = <<>>
      <4>1. PICK k : k = Len(d.content)
        OBVIOUS
      <4>2. k = 0
        BY <3>2, <4>1
      <4>3. t = Sized(o, k)
        BY <1>1, <3>2, <4>1 DEF Told
      <4> QED BY <1>1, <4>2, <4>3, Counted DEF Unused
    <3> QED BY <1>6, <3>1, <3>2
  <2>2. r = Done("ExpectingNewline_3", t, x)
    BY <1>3, <2>1
  <2>3. BodyText(d) = em /\ d.content = em
    BY <1>1, <1>6 DEF BodyText, MessageForm
  <2>4. x = z
    BY <1>1, <1>4, <2>3
  <2>5. Reaches(table, r, em, r)
    BY <1>1, ReachesNone
  <2>6. Finished("ExpectingNewline_3", t)
    <3>1. 0 \in Int /\ FALSE \in BOOLEAN
      OBVIOUS
    <3>2. t.contentSize \in Int /\ t.chunkSizeStr \in Strings /\ t.chunkSize \in Int /\ t.chunked \in BOOLEAN
      BY <1>1, <2>1, <3>1, Zenon
    <3> QED BY <2>1, <3>2, Zenon DEF Finished, Counters
  <2> QED BY <1>1, <2>2, <2>3, <2>4, <2>5, <2>6
<1>7. CASE d.form = "length" /\ d.content # <<>>
  <2>1. PICK s, k : s = d.content /\ k = Len(s) /\ s \in Strings /\ s # <<>> /\ k \in Nat \ {0}
    <3>1. d.content \in Strings
      BY ContentFits
    <3> QED BY <1>7, <3>1, LenProperties, EmptySeq
  <2>2. t = Sized(o, k)
    BY <1>1, <1>7, <2>1 DEF Told
  <2>3. t.contentSize = k /\ t.chunked = FALSE /\ t.chunkSizeStr = em /\ t.chunkSize = 0
    BY <1>1, <2>2, Counted DEF Unused
  <2>4. r = Config("Post", t, x)
    BY <1>3, <2>1, <2>3
  <2>5. PICK n : n = Sized(t, 0)
    OBVIOUS
  <2>6. Reaches(table, Config("Post", t, Filled(m, hs, <<>>, keeps)), s, Done("Post", Sized(t, 0), Filled(m, hs, s, keeps)))
    BY <2>1, <2>3, ReadsContent
  <2>7. Reaches(table, r, s, Done("Post", n, z))
    BY <1>1, <1>4, <2>1, <2>4, <2>5, <2>6
  <2>8. BodyText(d) = s
    BY <1>7, <2>1 DEF BodyText
  <2>9. n.contentSize = 0 /\ n.chunked = FALSE /\ n.chunkSizeStr = em /\ n.chunkSize = 0
    BY <2>3, <2>5, Counted
  <2>10. Finished("Post", n)
    <3>1. 0 \in Int /\ FALSE \in BOOLEAN
      OBVIOUS
    <3>2. n.contentSize \in Int /\ n.chunkSizeStr \in Strings /\ n.chunkSize \in Int /\ n.chunked \in BOOLEAN
      BY <1>1, <2>9, <3>1, Zenon
    <3> QED BY <2>9, <3>2, Zenon DEF Finished, Counters
  <2> QED BY <2>1, <2>7, <2>8, <2>10
<1>8. CASE d.form \notin {"none", "length"}
  <2>1. d.form \in {"chunks", "extensions", "trailers"}
    BY <1>8 DEF MessageForm
  <2>2. t = Chunked(o, TRUE)
    BY <1>1, <1>8 DEF Told
  <2>3. PICK y : y = TRUE
    OBVIOUS
  <2>4. t.contentSize = 0 /\ t.chunked = y /\ t.chunkSizeStr = <<>> /\ t.chunkSize = 0
    <3>1. t = Chunked(o, y)
      BY <2>2, <2>3
    <3> QED BY <3>1, Counted DEF Unused
  <2>5. r = Config("ChunkSize", t, x)
    BY <1>3, <2>3, <2>4
  <2>6. PICK n : n = Chunk(t, em, 0)
    OBVIOUS
  <2>7. /\ Reaches(table, Config("ChunkSize", t, Filled(m, hs, <<>>, keeps)), BodyText(d),
                    Done("ChunkSizeNewLine_3", Chunk(t, <<>>, 0), Filled(m, hs, d.content, keeps)))
        /\ BodyText(d) \in Strings
    BY <2>1, <2>4, ReadsChunks
  <2>8. Reaches(table, r, BodyText(d), Done("ChunkSizeNewLine_3", n, z))
    BY <1>1, <1>4, <2>5, <2>6, <2>7
  <2>9. n.contentSize = 0 /\ n.chunked = y /\ n.chunkSizeStr = em /\ n.chunkSize = 0
    BY <2>4, <2>6, Counted
  <2>10. Finished("ChunkSizeNewLine_3", n)
    BY <1>1, <2>3, <2>9 DEF Finished, Counters
  <2> QED BY <2>7, <2>8, <2>10
<1> QED BY <1>6, <1>7, <1>8

----------------------------------------
(* Everything behind the first line *)

(* The headers that are written are headers. *)
LEMMA HeadersFit ==
  ASSUME NEW d, MessageForm(d)
  PROVE  /\ d.headers \in Seq(Heads) /\ \A i \in 1 .. Len(d.headers) : HeaderForm(d.headers[i])
         /\ Framing(d) \in Seq(Heads) /\ d.headers \o Framing(d) \in Seq(Heads)
<1>1. PICK s : s = d.headers
  OBVIOUS
<1>2. s \in Seq([name : Seq(STRING), value : Seq(STRING)]) /\ \A i \in DOMAIN s : HeaderForm(s[i])
  BY <1>1 DEF MessageForm
<1>3. DOMAIN s = 1 .. Len(s) /\ Len(s) \in Nat
  BY <1>2, LenProperties
<1>4. \A i \in 1 .. Len(s) : s[i] \in Heads
  <2> TAKE i \in 1 .. Len(s)
  <2>1. PICK h : h = s[i] /\ h \in [name : Seq(STRING), value : Seq(STRING)]
    BY <1>2, ElementOfSeq
  <2>2. h.name \in Strings /\ h.value \in Strings
    BY <2>1, WordsAreTexts
  <2> QED BY <2>1, <2>2 DEF Heads
<1>5. s \in Seq(Heads)
  BY <1>2, <1>3, <1>4
<1>6. Framing(d) \in Seq(Heads)
  <2>1. CASE d.form = "none"
    <3>1. Framing(d) = <<>>
      BY <2>1 DEF Framing
    <3> QED BY <3>1, EmptySeq
  <2>2. CASE d.form # "none"
    <3>1. PICK h : Framing(d) = <<h>> /\ h \in Heads
      BY <2>2, FramingHead
    <3> QED BY <3>1
  <2> QED BY <2>1, <2>2
<1> QED BY <1>1, <1>2, <1>3, <1>5, <1>6, ConcatProperties

(* The fate of the connection is the one that the message asks for. *)
LEMMA KeepsOpen ==
  ASSUME NEW d, MessageForm(d), NEW m, IsMessage(m), m.major = d.major, m.minor = d.minor, NEW ct
  PROVE  KeepsAlive(Filled(m, d.headers \o Framing(d), ct, FALSE)) = StaysOpen(d)
<1>1. PICK s, f, hs, no : s = d.headers /\ f = Framing(d) /\ hs = s \o f /\ no = FALSE
  OBVIOUS
<1>2. s \in Seq(Heads) /\ f \in Seq(Heads) /\ hs \in Seq(Heads)
  BY <1>1, HeadersFit
<1>3. /\ DOMAIN s = 1 .. Len(s) /\ DOMAIN hs = 1 .. Len(hs) /\ Len(hs) = Len(s) + Len(f) /\ Len(s) \in Nat /\ Len(f) \in Nat
      /\ \A i \in 1 .. Len(hs) : hs[i] = IF i <= Len(s) THEN s[i] ELSE f[i - Len(s)]
  BY <1>1, <1>2, LenProperties, ConcatProperties
<1>4. PICK k : k = <<"Connection">>
  OBVIOUS
<1>5. \A i \in 1 .. Len(f) : f[i].name # k
  <2>1. CASE d.form = "none"
    <3>1. f = <<>>
      BY <1>1, <2>1 DEF Framing
    <3> QED BY <3>1
  <2>2. CASE d.form # "none"
    <3>1. PICK h : f = <<h>> /\ h.name \in {<<"Content-Length">>, <<"Transfer-Encoding">>}
      BY <1>1, <2>2, FramingHead
    <3>2. <<"Content-Length">> # k /\ <<"Transfer-Encoding">> # k
      <4>1. PICK a, b : a = <<"Content-Length">> /\ b = <<"Transfer-Encoding">>
        OBVIOUS
      <4>2. a[1] = "Content-Length" /\ b[1] = "Transfer-Encoding" /\ k[1] = "Connection"
        BY <1>4, <4>1
      <4> QED BY <4>1, <4>2
    <3>3. \A i \in 1 .. Len(f) : f[i] = h
      BY <3>1
    <3> QED BY <3>1, <3>2, <3>3
  <2> QED BY <2>1, <2>2
<1>6. PICK q, C : q = Filled(m, hs, ct, no) /\ C = {i \in DOMAIN hs : hs[i].name = k}
  OBVIOUS
<1>7. q.headers = hs /\ q.keepAlive = no /\ q.major = d.major /\ q.minor = d.minor
  BY <1>6, FilledFields
<1>8. C = {i \in 1 .. Len(s) : s[i].name = k} /\ \A i \in C : hs[i] = s[i]
  <2>1. ASSUME NEW i \in 1 .. Len(hs), hs[i].name = k PROVE i \in 1 .. Len(s) /\ hs[i] = s[i]
    <3>1. CASE i <= Len(s)
      BY <1>3, <3>1
    <3>2. CASE ~ (i <= Len(s))
      <4>1. i - Len(s) \in 1 .. Len(f) /\ hs[i] = f[i - Len(s)]
        BY <1>3, <3>2
      <4> QED BY <1>5, <2>1, <4>1
    <3> QED BY <3>1, <3>2
  <2>2. ASSUME NEW i \in 1 .. Len(s) PROVE i \in 1 .. Len(hs) /\ hs[i] = s[i]
    BY <1>3
  <2> QED BY <1>3, <1>6, <2>1, <2>2
<1>9. PICK v : v = <<"keep-alive">>
  OBVIOUS
<1>10. \A i, j \in C : s[i].value = s[j].value
  <2> SUFFICES ASSUME NEW i \in C, NEW j \in C PROVE s[i].value = s[j].value
    OBVIOUS
  <2>1. i \in DOMAIN s /\ j \in DOMAIN s /\ s[i].name = k /\ s[j].name = k
    BY <1>3, <1>8
  <2>2. \A x, y \in DOMAIN s : s[x].name = <<"Connection">> /\ s[y].name = <<"Connection">> => s[x].value = s[y].value
    BY <1>1 DEF MessageForm
  <2> QED BY <1>4, <2>1, <2>2
<1>11. CASE C # {}
  <2>1. KeepsAlive(q) = (\E i \in C : (\A j \in C : i <= j) /\ q.headers[i].value = v)
    BY <1>4, <1>6, <1>7, <1>9, <1>11 DEF KeepsAlive
  <2>2. StaysOpen(d) = ([name |-> k, value |-> v] \in Range(s))
    BY <1>1, <1>3, <1>4, <1>8, <1>9, <1>11 DEF StaysOpen
  <2>3. PICK n \in C : \A j \in C : n <= j
    <3>1. C \subseteq Nat
      BY <1>8
    <3> QED BY <1>11, <3>1, Least
  <2>4. (\E i \in C : (\A j \in C : i <= j) /\ q.headers[i].value = v) <=> s[n].value = v
    <3>1. ASSUME s[n].value = v PROVE \E i \in C : (\A j \in C : i <= j) /\ q.headers[i].value = v
      BY <1>7, <1>8, <2>3, <3>1
    <3>2. ASSUME NEW i \in C, \A j \in C : i <= j, q.headers[i].value = v PROVE s[n].value = v
      BY <1>7, <1>8, <1>10, <2>3, <3>2
    <3> QED BY <3>1, <3>2
  <2>5. [name |-> k, value |-> v] \in Range(s) <=> s[n].value = v
    <3>1. n \in DOMAIN s /\ s[n].name = k /\ s[n] \in Heads
      BY <1>2, <1>3, <1>8, <2>3, ElementOfSeq
    <3>2. PICK h : h = s[n] /\ h = [name |-> h.name, value |-> h.value]
      BY <3>1 DEF Heads
    <3>3. ASSUME s[n].value = v PROVE [name |-> k, value |-> v] \in Range(s)
      BY <3>1, <3>2, <3>3 DEF Range
    <3>4. ASSUME [name |-> k, value |-> v] \in Range(s) PROVE s[n].value = v
      <4>1. PICK i \in DOMAIN s : s[i] = [name |-> k, value |-> v]
        BY <3>4 DEF Range
      <4>2. i \in C
        BY <1>3, <1>8, <4>1
      <4> QED BY <1>10, <2>3, <4>1, <4>2
    <3> QED BY <3>3, <3>4
  <2>6. CASE s[n].value = v
    BY <2>1, <2>4, <2>6, <2>2, <2>5, <1>1, <1>6
  <2>7. CASE s[n].value # v
    <3>1. KeepsAlive(q) = FALSE
      BY <2>1, <2>4, <2>7
    <3>2. StaysOpen(d) = FALSE
      <4>1. ~ ([name |-> k, value |-> v] \in Range(s))
        BY <2>5, <2>7
      <4>2. ([name |-> k, value |-> v] \in Range(s)) = FALSE
        BY <4>1
      <4> QED BY <2>2, <4>2
    <3> QED BY <1>1, <1>6, <3>1, <3>2
  <2> QED BY <2>6, <2>7
<1>12. CASE C = {}
  <2>1. KeepsAlive(q) = (q.keepAlive \/ q.major > 1 \/ (q.major = 1 /\ q.minor = 1))
    BY <1>4, <1>6, <1>7, <1>12 DEF KeepsAlive
  <2>2. StaysOpen(d) = (d.major > 1 \/ (d.major = 1 /\ d.minor > 0))
    BY <1>1, <1>3, <1>4, <1>8, <1>12 DEF StaysOpen
  <2>3. d.major \in 0 .. 99 /\ d.minor \in 0 .. 99 /\ (d.major = 1 => d.minor <= 1)
    BY DEF MessageForm
  <2>4. ~ q.keepAlive
    BY <1>1, <1>7
  <2>5. \A a, b \in 0 .. 99 : (a = 1 => b <= 1) => ((a > 1 \/ (a = 1 /\ b = 1)) <=> (a > 1 \/ (a = 1 /\ b > 0)))
    OBVIOUS
  <2>6. (d.major > 1 \/ (d.major = 1 /\ d.minor = 1)) <=> (d.major > 1 \/ (d.major = 1 /\ d.minor > 0))
    BY <2>3, <2>5
  <2>7. CASE d.major > 1 \/ (d.major = 1 /\ d.minor > 0)
    BY <1>7, <2>1, <2>6, <2>7, <2>2, <1>1, <1>6
  <2>8. CASE ~ (d.major > 1 \/ (d.major = 1 /\ d.minor > 0))
    <3>1. KeepsAlive(q) = FALSE
      BY <1>7, <2>1, <2>4, <2>6, <2>8
    <3>2. StaysOpen(d) = FALSE
      BY <2>2, <2>8
    <3> QED BY <1>1, <1>6, <3>1, <3>2
  <2> QED BY <2>7, <2>8
<1> QED BY <1>11, <1>12

(* Everything behind the first line. *)
LEMMA ReadsRest ==
  ASSUME NEW table, HeaderLeads(table), BodyLeads(table), NEW o, Unused(o), NEW d, MessageForm(d),
         NEW m, IsMessage(m), m.headers = <<>>, m.content = <<>>, m.keepAlive = FALSE,
         m.major = d.major, m.minor = d.minor, d.form # "none" => MayHaveBody(m),
         NEW p, NEW pre \in Strings, Reaches(table, p, pre, Config("HeaderLineStart", o, m)),
         NEW text, text = pre \o Texts(d.headers, FoldedText) \o Texts(Framing(d), HeaderText) \o EndOfLine \o BodyText(d)
  PROVE  \E st, n :
           /\ Reaches(table, p, text, Done(st, n, Filled(m, d.headers \o Framing(d), d.content, StaysOpen(d))))
           /\ text \in Strings /\ Finished(st, n)
<1>1. PICK em, no, hs, fr, all, keeps : /\ em = <<>> /\ no = FALSE /\ hs = d.headers /\ fr = Framing(d) /\ all = hs \o fr
                                        /\ keeps = StaysOpen(d)
  OBVIOUS
<1>2. hs \in Seq(Heads) /\ all \in Seq(Heads) /\ \A i \in 1 .. Len(hs) : HeaderForm(hs[i])
  BY <1>1, HeadersFit
<1>3. m = Filled(m, em, em, no)
  BY <1>1 DEF IsMessage, Filled
<1>4. PICK m1, m2 : m1 = Filled(m, hs, em, no) /\ m2 = Filled(m, all, em, no)
  OBVIOUS
<1>5. PICK a, b, e, c : a = Texts(hs, FoldedText) /\ b = Texts(fr, HeaderText) /\ e = EndOfLine /\ c = BodyText(d)
  OBVIOUS
<1>6. PICK t : t = Told(o, d)
  OBVIOUS
<1>7. PICK p0, p1, p2 : /\ p0 = Config("HeaderLineStart", o, m) /\ p1 = Config("HeaderLineStart", o, m1)
                        /\ p2 = Config("HeaderLineStart", t, m2)
  OBVIOUS
<1>8. Reaches(table, p0, a, p1) /\ a \in Strings
  BY <1>2, ReadsHeaders, <1>1, <1>3, <1>4, <1>5, <1>7
<1>9. Reaches(table, p1, b, p2) /\ b \in Strings
  BY <1>2, ReadsFraming, <1>1, <1>4, <1>5, <1>6, <1>7
<1>10. KeepsAlive(Filled(m, all, <<>>, no)) = keeps
  <2>1. KeepsAlive(Filled(m, d.headers \o Framing(d), em, FALSE)) = StaysOpen(d)
    BY KeepsOpen
  <2> QED BY <1>1, <2>1
<1>11. PICK r, st, n : /\ Reaches(table, p2, e, r) /\ Reaches(table, r, c, Done(st, n, Filled(m, all, d.content, keeps)))
                       /\ c \in Strings /\ Finished(st, n)
  <2>1. \E r, st, n :
           /\ Reaches(table, Config("HeaderLineStart", Told(o, d), Filled(m, all, <<>>, no)), EndOfLine, r)
           /\ Reaches(table, r, BodyText(d), Done(st, n, Filled(m, all, d.content, keeps)))
           /\ BodyText(d) \in Strings /\ Finished(st, n)
    BY <1>10, ReadsBody
  <2> QED BY <1>1, <1>4, <1>5, <1>6, <1>7, <2>1
<1>12. PICK z : z = Done(st, n, Filled(m, all, d.content, keeps))
  OBVIOUS
<1>13. e \in Strings
  BY <1>5, Marks
<1>14. Reaches(table, p, pre \o a, p1) /\ pre \o a \in Strings
  BY <1>7, <1>8, Then
<1>15. PICK x : x = pre \o a
  OBVIOUS
<1>16. Reaches(table, p, x \o b, p2) /\ x \o b \in Strings
  BY <1>9, <1>14, <1>15, Then
<1>17. PICK y : y = x \o b
  OBVIOUS
<1>18. Reaches(table, p, y \o e, r) /\ y \o e \in Strings
  BY <1>11, <1>13, <1>16, <1>17, Then
<1>19. PICK w : w = y \o e
  OBVIOUS
<1>20. Reaches(table, p, w \o c, z) /\ w \o c \in Strings
  <2>1. Reaches(table, p, w, r) /\ w \in Strings
    BY <1>18, <1>19
  <2>2. Reaches(table, r, c, z) /\ c \in Strings
    BY <1>11, <1>12
  <2> QED BY <2>1, <2>2, Then
<1>21. text = w \o c
  BY <1>1, <1>5, <1>15, <1>17, <1>19
<1> QED BY <1>1, <1>11, <1>12, <1>20, <1>21

----------------------------------------
(* First lines *)

(* A digit, its class and its value. *)
LEMMA DigitFits == \A c \in DOMAIN DigitOf : c \in Symbols /\ Class(c) = "digit" /\ \E k \in 0 .. 9 : c = Digits[k + 1] /\ DigitOf[c] = k
<1> SUFFICES ASSUME NEW c \in DOMAIN DigitOf
             PROVE  c \in Symbols /\ Class(c) = "digit" /\ \E k \in 0 .. 9 : c = Digits[k + 1] /\ DigitOf[c] = k
  OBVIOUS
<1>1. PICK i \in 1 .. 10 : c = Digits[i]
  BY DEF DigitOf, ValueOf
<1>2. PICK k : k = i - 1
  OBVIOUS
<1>3. k \in 0 .. 9 /\ k + 1 = i
  BY <1>2
<1>4. c = Digits[k + 1] /\ DigitOf[c] = k /\ c \in Symbols
  BY <1>1, <1>3, DigitValues
<1> QED BY <1>3, <1>4, ClassOf

(* What is done with a character of the first line: a field is written. *)
PutField(m, field, x) == [m EXCEPT ![field] = x]

(* The version, when its first digits are awaited. *)
Versioned(m) == [m EXCEPT !.major = 0, !.minor = 0]

(* A character of a method, a target or a status. *)
LEMMA DoWord ==
  ASSUME NEW st, NEW o, NEW m, NEW field \in {"method", "uri", "status"}, NEW c
  PROVE  Do(field, Config(st, o, m), c) = Config(st, o, Longer(m, field, c))
<1>1. PICK p : p = Config(st, o, m)
  OBVIOUS
<1>2. p.m = m /\ \A x : PutMessage(p, x) = Config(st, o, x)
  BY <1>1, ConfigFields
<1>3. Do(field, p, c) = [p EXCEPT !.m[field] = Append(@, c)]
  BY DEF Do
<1>4. [p EXCEPT !.m[field] = Append(@, c)] = PutMessage(p, Longer(p.m, field, c))
  BY <1>1 DEF Config, Start, PutMessage, Longer
<1>5. PICK x : x = Longer(m, field, c)
  OBVIOUS
<1> QED BY <1>1, <1>2, <1>3, <1>4, <1>5

(* A digit of a version or of a code. *)
LEMMA DoDigit ==
  ASSUME NEW st, NEW o, NEW m, NEW field \in {"major", "minor", "code"}, NEW k \in 0 .. 9,
         NEW x, x = 10 * m[field] + k
  PROVE  Do(field, Config(st, o, m), Digits[k + 1]) = Config(st, o, PutField(m, field, x))
<1>1. PICK p : p = Config(st, o, m)
  OBVIOUS
<1>2. p.m = m /\ \A y : PutMessage(p, y) = Config(st, o, y)
  BY <1>1, ConfigFields
<1>3. PICK c : c = Digits[k + 1] /\ DigitOf[c] = k
  BY DigitValues
<1>4. Do(field, p, c) = [p EXCEPT !.m[field] = 10 * @ + DigitOf[c]]
  BY DEF Do
<1>5. [p EXCEPT !.m[field] = 10 * @ + DigitOf[c]] = PutMessage(p, PutField(p.m, field, 10 * p.m[field] + DigitOf[c]))
  BY <1>1 DEF Config, Start, PutMessage, PutField
<1>6. PICK y : y = PutField(m, field, x)
  OBVIOUS
<1>7. Do(field, p, c) = PutMessage(p, y)
  BY <1>2, <1>3, <1>4, <1>5, <1>6
<1> QED BY <1>1, <1>2, <1>3, <1>6, <1>7

(* The name of the protocol. *)
LEMMA DoVersion ==
  ASSUME NEW st, NEW o, NEW m, NEW c
  PROVE  Do("version", Config(st, o, m), c) = Config(st, o, Versioned(m))
<1>1. PICK p : p = Config(st, o, m)
  OBVIOUS
<1>2. p.m = m /\ \A x : PutMessage(p, x) = Config(st, o, x)
  BY <1>1, ConfigFields
<1>3. Do("version", p, c) = [p EXCEPT !.m.major = 0, !.m.minor = 0]
  BY DEF Do
<1>4. [p EXCEPT !.m.major = 0, !.m.minor = 0] = PutMessage(p, Versioned(p.m))
  BY <1>1 DEF Config, Start, PutMessage, Versioned
<1>5. PICK x : x = Versioned(m)
  OBVIOUS
<1> QED BY <1>1, <1>2, <1>3, <1>4, <1>5

(* A code begins as 0 and ends as one of three digits. *)
LEMMA DoCode ==
  ASSUME NEW st, NEW o, NEW m, NEW c
  PROVE  /\ Do("noCode", Config(st, o, m), c) = Config(st, o, PutField(m, "code", 0))
         /\ m.code \in 100 .. 999 => Do("codeDone", Config(st, o, m), c) = Config(st, o, m)
<1>1. PICK p : p = Config(st, o, m)
  OBVIOUS
<1>2. p.m = m /\ \A x : PutMessage(p, x) = Config(st, o, x)
  BY <1>1, ConfigFields
<1>3. Do("noCode", p, c) = [p EXCEPT !.m.code = 0]
  BY DEF Do
<1>4. [p EXCEPT !.m.code = 0] = PutMessage(p, PutField(p.m, "code", 0))
  BY <1>1 DEF Config, Start, PutMessage, PutField
<1>5. PICK x : x = PutField(m, "code", 0)
  OBVIOUS
<1>6. Do("noCode", p, c) = Config(st, o, x)
  BY <1>2, <1>3, <1>4, <1>5
<1>7. ASSUME m.code \in 100 .. 999 PROVE Do("codeDone", p, c) = p
  BY <1>2, <1>7 DEF Do
<1> QED BY <1>1, <1>5, <1>6, <1>7

(* The rules of a request's first line that a written one uses ... *)
LEMMA RequestLeads ==
  /\ Leads(RequestTable, "RequestMethodStart", Token, "RequestMethod", "method")
  /\ Leads(RequestTable, "RequestMethod", Token, "RequestMethod", "method")
  /\ Leads(RequestTable, "RequestMethod", {SP}, "RequestUriStart", "skip")
  /\ Leads(RequestTable, "RequestUriStart", Visible, "RequestUri", "uri")
  /\ Leads(RequestTable, "RequestUri", Visible, "RequestUri", "uri")
  /\ Leads(RequestTable, "RequestUri", {SP}, "RequestHttpVersion_h", "skip")
  /\ Leads(RequestTable, "RequestHttpVersion_h", {HTTP}, "RequestHttpVersion_majorStart", "version")
  /\ Leads(RequestTable, "RequestHttpVersion_majorStart", {"digit"}, "RequestHttpVersion_major", "major")
  /\ Leads(RequestTable, "RequestHttpVersion_major", {"digit"}, "RequestHttpVersion_major", "major")
  /\ Leads(RequestTable, "RequestHttpVersion_major", {"."}, "RequestHttpVersion_minorStart", "skip")
  /\ Leads(RequestTable, "RequestHttpVersion_minorStart", {"digit"}, "RequestHttpVersion_minor", "minor")
  /\ Leads(RequestTable, "RequestHttpVersion_minor", {"digit"}, "RequestHttpVersion_minor", "minor")
  /\ Leads(RequestTable, "RequestHttpVersion_minor", {CR}, "ResponseHttpVersion_newLine", "skip")
  /\ Leads(RequestTable, "ResponseHttpVersion_newLine", {LF}, "HeaderLineStart", "skip")
<1>1. \A state, on, next, do, part :
        Rule(state, on, next, do) \in RequestLine \cup RequestVersion /\ part \subseteq on
          => Leads(RequestTable, state, part, next, do)
  <2> SUFFICES ASSUME NEW state, NEW on, NEW next, NEW do, NEW part, part \subseteq on,
                      Rule(state, on, next, do) \in RequestLine \cup RequestVersion
               PROVE  Leads(RequestTable, state, part, next, do)
    OBVIOUS
  <2>1. Rule(state, on, next, do) \in RequestRules
    BY DEF RequestRules
  <2> QED BY <2>1, TablesKnow, RuleLeads
<1>2. Visible \subseteq AnyClass \ Control /\ Visible \subseteq AnyClass \ (Control \cup {SP})
  BY DEF Visible
<1>3. \A state, on, next, do :
        Rule(state, on, next, do) \in RequestLine \cup RequestVersion => Leads(RequestTable, state, on, next, do)
  BY <1>1
<1>4. Rule("RequestUriStart", AnyClass \ Control, "RequestUri", "uri") \in RequestLine \cup RequestVersion
      /\ Rule("RequestUri", AnyClass \ (Control \cup {SP}), "RequestUri", "uri") \in RequestLine \cup RequestVersion
  BY DEF RequestLine
<1>5. Leads(RequestTable, "RequestUriStart", Visible, "RequestUri", "uri")
      /\ Leads(RequestTable, "RequestUri", Visible, "RequestUri", "uri")
  BY <1>1, <1>2, <1>4
<1>6. /\ Leads(RequestTable, "RequestMethodStart", Token, "RequestMethod", "method")
      /\ Leads(RequestTable, "RequestMethod", Token, "RequestMethod", "method")
      /\ Leads(RequestTable, "RequestMethod", {SP}, "RequestUriStart", "skip")
      /\ Leads(RequestTable, "RequestUri", {SP}, "RequestHttpVersion_h", "skip")
  BY <1>3 DEF RequestLine
<1>7. /\ Leads(RequestTable, "RequestHttpVersion_h", {HTTP}, "RequestHttpVersion_majorStart", "version")
      /\ Leads(RequestTable, "RequestHttpVersion_majorStart", {"digit"}, "RequestHttpVersion_major", "major")
      /\ Leads(RequestTable, "RequestHttpVersion_major", {"digit"}, "RequestHttpVersion_major", "major")
      /\ Leads(RequestTable, "RequestHttpVersion_major", {"."}, "RequestHttpVersion_minorStart", "skip")
      /\ Leads(RequestTable, "RequestHttpVersion_minorStart", {"digit"}, "RequestHttpVersion_minor", "minor")
      /\ Leads(RequestTable, "RequestHttpVersion_minor", {"digit"}, "RequestHttpVersion_minor", "minor")
      /\ Leads(RequestTable, "RequestHttpVersion_minor", {CR}, "ResponseHttpVersion_newLine", "skip")
      /\ Leads(RequestTable, "ResponseHttpVersion_newLine", {LF}, "HeaderLineStart", "skip")
  BY <1>3 DEF RequestVersion
<1> QED BY <1>5, <1>6, <1>7

(* ... and those of a response's. *)
LEMMA ResponseLeads ==
  /\ Leads(ResponseTable, "ResponseStatusStart", {HTTP}, "ResponseHttpVersion_majorStart", "version")
  /\ Leads(ResponseTable, "ResponseHttpVersion_majorStart", {"digit"}, "ResponseHttpVersion_major", "major")
  /\ Leads(ResponseTable, "ResponseHttpVersion_major", {"digit"}, "ResponseHttpVersion_major", "major")
  /\ Leads(ResponseTable, "ResponseHttpVersion_major", {"."}, "ResponseHttpVersion_minorStart", "skip")
  /\ Leads(ResponseTable, "ResponseHttpVersion_minorStart", {"digit"}, "ResponseHttpVersion_minor", "minor")
  /\ Leads(ResponseTable, "ResponseHttpVersion_minor", {"digit"}, "ResponseHttpVersion_minor", "minor")
  /\ Leads(ResponseTable, "ResponseHttpVersion_minor", {SP}, "ResponseHttpVersion_statusCodeStart", "noCode")
  /\ Leads(ResponseTable, "ResponseHttpVersion_statusCodeStart", {"digit"}, "ResponseHttpVersion_statusCode", "code")
  /\ Leads(ResponseTable, "ResponseHttpVersion_statusCode", {"digit"}, "ResponseHttpVersion_statusCode", "code")
  /\ Leads(ResponseTable, "ResponseHttpVersion_statusCode", {SP}, "ResponseHttpVersion_statusTextStart", "codeDone")
  /\ Leads(ResponseTable, "ResponseHttpVersion_statusTextStart", Char \ {CR}, "ResponseHttpVersion_statusText", "status")
  /\ Leads(ResponseTable, "ResponseHttpVersion_statusText", Char \ {CR}, "ResponseHttpVersion_statusText", "status")
  /\ Leads(ResponseTable, "ResponseHttpVersion_statusText", {CR}, "ResponseHttpVersion_newLine", "skip")
  /\ Leads(ResponseTable, "ResponseHttpVersion_newLine", {LF}, "HeaderLineStart", "skip")
<1>1. \A state, on, next, do, part :
        Rule(state, on, next, do) \in ResponseVersion \cup StatusLine /\ part \subseteq on
          => Leads(ResponseTable, state, part, next, do)
  <2> SUFFICES ASSUME NEW state, NEW on, NEW next, NEW do, NEW part, part \subseteq on,
                      Rule(state, on, next, do) \in ResponseVersion \cup StatusLine
               PROVE  Leads(ResponseTable, state, part, next, do)
    OBVIOUS
  <2>1. Rule(state, on, next, do) \in ResponseRules
    BY DEF ResponseRules
  <2> QED BY <2>1, TablesKnow, RuleLeads
<1>2. Char \ {CR} \subseteq Char
  OBVIOUS
<1>3. \A state, on, next, do :
        Rule(state, on, next, do) \in ResponseVersion \cup StatusLine => Leads(ResponseTable, state, on, next, do)
  BY <1>1
<1>4. Rule("ResponseHttpVersion_statusTextStart", Char, "ResponseHttpVersion_statusText", "status")
        \in ResponseVersion \cup StatusLine
  BY DEF StatusLine
<1>5. Leads(ResponseTable, "ResponseHttpVersion_statusTextStart", Char \ {CR}, "ResponseHttpVersion_statusText", "status")
  BY <1>1, <1>2, <1>4
<1>6. /\ Leads(ResponseTable, "ResponseStatusStart", {HTTP}, "ResponseHttpVersion_majorStart", "version")
      /\ Leads(ResponseTable, "ResponseHttpVersion_majorStart", {"digit"}, "ResponseHttpVersion_major", "major")
      /\ Leads(ResponseTable, "ResponseHttpVersion_major", {"digit"}, "ResponseHttpVersion_major", "major")
      /\ Leads(ResponseTable, "ResponseHttpVersion_major", {"."}, "ResponseHttpVersion_minorStart", "skip")
      /\ Leads(ResponseTable, "ResponseHttpVersion_minorStart", {"digit"}, "ResponseHttpVersion_minor", "minor")
      /\ Leads(ResponseTable, "ResponseHttpVersion_minor", {"digit"}, "ResponseHttpVersion_minor", "minor")
      /\ Leads(ResponseTable, "ResponseHttpVersion_minor", {SP}, "ResponseHttpVersion_statusCodeStart", "noCode")
  BY <1>3 DEF ResponseVersion
<1>7. /\ Leads(ResponseTable, "ResponseHttpVersion_statusCodeStart", {"digit"}, "ResponseHttpVersion_statusCode", "code")
      /\ Leads(ResponseTable, "ResponseHttpVersion_statusCode", {"digit"}, "ResponseHttpVersion_statusCode", "code")
      /\ Leads(ResponseTable, "ResponseHttpVersion_statusCode", {SP}, "ResponseHttpVersion_statusTextStart", "codeDone")
      /\ Leads(ResponseTable, "ResponseHttpVersion_statusText", Char \ {CR}, "ResponseHttpVersion_statusText", "status")
      /\ Leads(ResponseTable, "ResponseHttpVersion_statusText", {CR}, "ResponseHttpVersion_newLine", "skip")
      /\ Leads(ResponseTable, "ResponseHttpVersion_newLine", {LF}, "HeaderLineStart", "skip")
  BY <1>3 DEF StatusLine
<1> QED BY <1>5, <1>6, <1>7

(* A message of this version. *)
VersionIs(m, a, b) == [m EXCEPT !.major = a, !.minor = b]

(* Its fields, and what its digits make of them. *)
LEMMA VersionFields ==
  ASSUME NEW m, IsMessage(m), NEW a, NEW b
  PROVE  /\ VersionIs(m, a, b).major = a /\ VersionIs(m, a, b).minor = b
         /\ \A x : PutField(VersionIs(m, a, b), "major", x) = VersionIs(m, x, b)
         /\ \A x : PutField(VersionIs(m, a, b), "minor", x) = VersionIs(m, a, x)
BY DEF IsMessage, VersionIs, PutField

(* The version as both kinds of messages write it. *)
VersionLeads(table, first, majorStart, major, minorStart, minor) ==
  /\ Leads(table, first, {HTTP}, majorStart, "version")
  /\ Leads(table, majorStart, {"digit"}, major, "major") /\ Leads(table, major, {"digit"}, major, "major")
  /\ Leads(table, major, {"."}, minorStart, "skip")
  /\ Leads(table, minorStart, {"digit"}, minor, "minor") /\ Leads(table, minor, {"digit"}, minor, "minor")

(* It is read, whichever message it belongs to. *)
LEMMA ReadsVersion ==
  ASSUME NEW table, NEW first, NEW majorStart, NEW major, NEW minorStart, NEW minor,
         VersionLeads(table, first, majorStart, major, minorStart, minor),
         NEW o, NEW m, IsMessage(m), NEW d, MessageForm(d)
  PROVE  /\ Reaches(table, Config(first, o, m), Version(d), Config(minor, o, VersionIs(m, d.major, d.minor)))
         /\ Version(d) \in Strings
<1>1. PICK a, b, z : a = d.major /\ b = d.minor /\ z = 0
  OBVIOUS
<1>2. a \in 0 .. 99 /\ b \in 0 .. 99
  BY <1>1 DEF MessageForm
<1>3. PICK m0, m1, m2 : m0 = VersionIs(m, z, z) /\ m1 = VersionIs(m, a, z) /\ m2 = VersionIs(m, a, b)
  OBVIOUS
<1>4. /\ Leads(table, first, {HTTP}, majorStart, "version")
      /\ Leads(table, majorStart, {"digit"}, major, "major") /\ Leads(table, major, {"digit"}, major, "major")
      /\ Leads(table, major, {"."}, minorStart, "skip")
      /\ Leads(table, minorStart, {"digit"}, minor, "minor") /\ Leads(table, minor, {"digit"}, minor, "minor")
  BY DEF VersionLeads
<1>5. PICK c, e : c = HTTP /\ e = "."
  OBVIOUS
<1>6. c \in Symbols /\ e \in Symbols /\ Class(c) \in {HTTP} /\ Class(e) \in {"."}
  BY <1>5, Marks, ClassOf
<1>7. Reaches(table, Config(first, o, m), <<c>>, Config(majorStart, o, m0))
  <2>1. Do("version", Config(majorStart, o, m), c) = Config(majorStart, o, Versioned(m))
    BY DoVersion
  <2>2. Versioned(m) = m0
    BY <1>1, <1>3 DEF Versioned, VersionIs
  <2>3. PICK q : q = Config(majorStart, o, m0)
    OBVIOUS
  <2>4. Do("version", Config(majorStart, o, m), c) = q
    BY <2>1, <2>2, <2>3
  <2> QED BY <1>4, <1>6, <2>3, <2>4, Moves
<1>8. Reaches(table, Config(majorStart, o, m0), Decimal(a), Config(major, o, m1))
  <2> DEFINE g == [n \in Nat |-> VersionIs(m, n, z)]
  <2>1. g[0] = m0 /\ g[a] = m1 /\ a \in Nat
    BY <1>1, <1>2, <1>3
  <2>2. Tallies("major", major, o, g)
    <3> SUFFICES ASSUME NEW n \in Nat, NEW k \in 0 .. 9
                 PROVE  Do("major", Config(major, o, g[n]), Digits[k + 1]) = Config(major, o, g[10 * n + k])
      BY DEF Tallies
    <3>1. PICK q : q = VersionIs(m, n, z)
      OBVIOUS
    <3>2. PICK j : j = 10 * n + k
      OBVIOUS
    <3>3. j \in Nat
      BY <3>2
    <3>4. g[n] = q /\ g[j] = VersionIs(m, j, z)
      BY <3>1, <3>3
    <3>5. q.major = n /\ PutField(q, "major", j) = VersionIs(m, j, z)
      BY <3>1, VersionFields
    <3>6. PICK field : field = "major" /\ field \in {"major", "minor", "code"}
      OBVIOUS
    <3>7. j = 10 * q[field] + k
      BY <3>2, <3>5, <3>6
    <3>8. Do(field, Config(major, o, q), Digits[k + 1]) = Config(major, o, PutField(q, field, j))
      BY <3>6, <3>7, DoDigit
    <3> HIDE DEF g
    <3> QED BY <3>2, <3>4, <3>5, <3>6, <3>8
  <2> HIDE DEF g
  <2>3. Reaches(table, Config(majorStart, o, g[0]), Decimal(a), Config(major, o, g[a]))
    BY <1>2, <1>4, <2>2, CountsUp
  <2> QED BY <2>1, <2>3
<1>9. Reaches(table, Config(major, o, m1), <<e>>, Config(minorStart, o, m1))
  BY <1>4, <1>6, MovesOn
<1>10. Reaches(table, Config(minorStart, o, m1), Decimal(b), Config(minor, o, m2))
  <2> DEFINE g == [n \in Nat |-> VersionIs(m, a, n)]
  <2>1. g[0] = m1 /\ g[b] = m2 /\ b \in Nat
    BY <1>1, <1>2, <1>3
  <2>2. Tallies("minor", minor, o, g)
    <3> SUFFICES ASSUME NEW n \in Nat, NEW k \in 0 .. 9
                 PROVE  Do("minor", Config(minor, o, g[n]), Digits[k + 1]) = Config(minor, o, g[10 * n + k])
      BY DEF Tallies
    <3>1. PICK q : q = VersionIs(m, a, n)
      OBVIOUS
    <3>2. PICK j : j = 10 * n + k
      OBVIOUS
    <3>3. j \in Nat
      BY <3>2
    <3>4. g[n] = q /\ g[j] = VersionIs(m, a, j)
      BY <3>1, <3>3
    <3>5. q.minor = n /\ PutField(q, "minor", j) = VersionIs(m, a, j)
      BY <3>1, VersionFields
    <3>6. PICK field : field = "minor" /\ field \in {"major", "minor", "code"}
      OBVIOUS
    <3>7. j = 10 * q[field] + k
      BY <3>2, <3>5, <3>6
    <3>8. Do(field, Config(minor, o, q), Digits[k + 1]) = Config(minor, o, PutField(q, field, j))
      BY <3>6, <3>7, DoDigit
    <3> HIDE DEF g
    <3> QED BY <3>2, <3>4, <3>5, <3>6, <3>8
  <2> HIDE DEF g
  <2>3. Reaches(table, Config(minorStart, o, g[0]), Decimal(b), Config(minor, o, g[b]))
    BY <1>2, <1>4, <2>2, CountsUp
  <2> QED BY <2>1, <2>3
<1>11. PICK s1, s2, s3, s4 : s1 = <<c>> /\ s2 = Decimal(a) /\ s3 = <<e>> /\ s4 = Decimal(b)
  OBVIOUS
<1>12. s1 \in Strings /\ s2 \in Strings /\ s3 \in Strings /\ s4 \in Strings
  <2>1. <<c>> \in Strings /\ <<e>> \in Strings
    BY <1>6
  <2>2. Decimal(a) \in Strings /\ Decimal(b) \in Strings
    BY <1>2, DecimalIsText
  <2> QED BY <1>11, <2>1, <2>2
<1>13. PICK p, p0, p1, r1, p2 : /\ p = Config(first, o, m) /\ p0 = Config(majorStart, o, m0) /\ p1 = Config(major, o, m1)
                                /\ r1 = Config(minorStart, o, m1) /\ p2 = Config(minor, o, m2)
  OBVIOUS
<1>14. Reaches(table, p, s1, p0) /\ Reaches(table, p0, s2, p1) /\ Reaches(table, p1, s3, r1) /\ Reaches(table, r1, s4, p2)
  BY <1>7, <1>8, <1>9, <1>10, <1>11, <1>13
<1>15. Reaches(table, p, s1 \o s2, p1) /\ s1 \o s2 \in Strings
  BY <1>12, <1>14, Then
<1>16. PICK t1 : t1 = s1 \o s2
  OBVIOUS
<1>17. Reaches(table, p, t1 \o s3, r1) /\ t1 \o s3 \in Strings
  BY <1>12, <1>14, <1>15, <1>16, Then
<1>18. PICK t2 : t2 = t1 \o s3
  OBVIOUS
<1>19. Reaches(table, p, t2 \o s4, p2) /\ t2 \o s4 \in Strings
  BY <1>12, <1>14, <1>17, <1>18, Then
<1>20. Version(d) = t2 \o s4
  BY <1>1, <1>5, <1>11, <1>16, <1>18 DEF Version
<1> QED BY <1>1, <1>3, <1>13, <1>19, <1>20

----------------------------------------
(* The first line of a request *)

(* A request by its first line. *)
AskedFor(method, uri, major, minor) ==
  [method |-> method, uri |-> uri, major |-> major, minor |-> minor, headers |-> <<>>,
   content |-> <<>>, keepAlive |-> FALSE]

(* Its fields. *)
LEMMA AskedFields ==
  ASSUME NEW x, NEW y, NEW a, NEW b
  PROVE  /\ IsMessage(AskedFor(x, y, a, b)) /\ AskedFor(x, y, a, b).headers = <<>>
         /\ AskedFor(x, y, a, b).content = <<>> /\ AskedFor(x, y, a, b).keepAlive = FALSE
         /\ AskedFor(x, y, a, b).major = a /\ AskedFor(x, y, a, b).minor = b
         /\ AskedFor(x, y, a, b).method = x /\ AskedFor(x, y, a, b).uri = y
         /\ "method" \in DOMAIN AskedFor(x, y, a, b) /\ "uri" \in DOMAIN AskedFor(x, y, a, b)
BY DEF AskedFor, IsMessage

(* A sequence with one more element. *)
Behind(s, c) == Append(s, c)

(* A character more of the method ... *)
LEMMA MethodLonger ==
  ASSUME NEW x, NEW y, NEW a, NEW b, NEW c, NEW u, u = Behind(x, c), NEW f, f = "method"
  PROVE  Longer(AskedFor(x, y, a, b), f, c) = AskedFor(u, y, a, b)
<1>1. PICK em, no : em = <<>> /\ no = FALSE
  OBVIOUS
<1>2. PICK m : m = [method |-> x, uri |-> y, major |-> a, minor |-> b, headers |-> em, content |-> em, keepAlive |-> no]
  OBVIOUS
<1>3. m = AskedFor(x, y, a, b)
  BY <1>1, <1>2 DEF AskedFor
<1>4. Longer(m, f, c) = [m EXCEPT ![f] = Behind(m[f], c)]
  BY DEF Longer, Behind
<1>5. m[f] = x
  BY <1>2
<1>6. [m EXCEPT ![f] = u]
        = [method |-> u, uri |-> y, major |-> a, minor |-> b, headers |-> em, content |-> em, keepAlive |-> no]
  BY <1>2
<1>7. Longer(m, f, c) = AskedFor(u, y, a, b)
  BY <1>1, <1>4, <1>5, <1>6 DEF AskedFor
<1> QED BY <1>3, <1>7

(* ... and of the target. *)
LEMMA UriLonger ==
  ASSUME NEW x, NEW y, NEW a, NEW b, NEW c, NEW u, u = Behind(y, c), NEW f, f = "uri"
  PROVE  Longer(AskedFor(x, y, a, b), f, c) = AskedFor(x, u, a, b)
<1>1. PICK em, no : em = <<>> /\ no = FALSE
  OBVIOUS
<1>2. PICK m : m = [method |-> x, uri |-> y, major |-> a, minor |-> b, headers |-> em, content |-> em, keepAlive |-> no]
  OBVIOUS
<1>3. m = AskedFor(x, y, a, b)
  BY <1>1, <1>2 DEF AskedFor
<1>4. Longer(m, f, c) = [m EXCEPT ![f] = Behind(m[f], c)]
  BY DEF Longer, Behind
<1>5. m[f] = y
  BY <1>2
<1>6. [m EXCEPT ![f] = u]
        = [method |-> x, uri |-> u, major |-> a, minor |-> b, headers |-> em, content |-> em, keepAlive |-> no]
  BY <1>2
<1>7. Longer(m, f, c) = AskedFor(x, u, a, b)
  BY <1>1, <1>4, <1>5, <1>6 DEF AskedFor
<1> QED BY <1>3, <1>7

(* A request of another version. *)
LEMMA AskedVersion ==
  ASSUME NEW x, NEW y, NEW a, NEW b, NEW v, NEW w
  PROVE  VersionIs(AskedFor(x, y, a, b), v, w) = AskedFor(x, y, v, w)
<1>1. PICK em, no : em = <<>> /\ no = FALSE
  OBVIOUS
<1>2. PICK m : m = [method |-> x, uri |-> y, major |-> a, minor |-> b, headers |-> em, content |-> em, keepAlive |-> no]
  OBVIOUS
<1>3. m = AskedFor(x, y, a, b)
  BY <1>1, <1>2 DEF AskedFor
<1>4. VersionIs(m, v, w)
        = [method |-> x, uri |-> y, major |-> v, minor |-> w, headers |-> em, content |-> em, keepAlive |-> no]
  <2>1. PICK r : r = [m EXCEPT !.major = v]
    OBVIOUS
  <2>2. r = [method |-> x, uri |-> y, major |-> v, minor |-> b, headers |-> em, content |-> em, keepAlive |-> no]
    BY <1>2, <2>1
  <2>3. [r EXCEPT !.minor = w]
          = [method |-> x, uri |-> y, major |-> v, minor |-> w, headers |-> em, content |-> em, keepAlive |-> no]
    BY <2>2
  <2>4. VersionIs(m, v, w) = [r EXCEPT !.minor = w]
    BY <2>1 DEF VersionIs
  <2> QED BY <2>3, <2>4
<1>5. VersionIs(m, v, w) = AskedFor(x, y, v, w)
  BY <1>1, <1>4 DEF AskedFor
<1> QED BY <1>3, <1>5

(* A field that is written character by character. *)
Extends(field, g) == \A t \in Strings, c \in Symbols : Longer(g[t], field, c) = g[Append(t, c)]

(* Such a field is read. *)
LEMMA SpellsField ==
  ASSUME NEW table, NEW first, NEW state, NEW on, NEW field \in {"method", "uri", "status"},
         Leads(table, first, on, state, field), Leads(table, state, on, state, field),
         NEW o, NEW g, Extends(field, g), NEW em, em = <<>>, NEW s, Spelt(s, on)
  PROVE  Reaches(table, Config(first, o, g[em]), s, Config(state, o, g[s]))
<1>1. Collects(field, state, o, g)
  <2> SUFFICES ASSUME NEW t \in Strings, NEW c \in Symbols
               PROVE  Do(field, Config(state, o, g[t]), c) = Config(state, o, g[Append(t, c)])
    BY DEF Collects
  <2>1. PICK q : q = g[t]
    OBVIOUS
  <2>2. Do(field, Config(state, o, q), c) = Config(state, o, Longer(q, field, c))
    BY DoWord
  <2>3. Longer(q, field, c) = g[Append(t, c)]
    BY <2>1 DEF Extends
  <2> QED BY <2>1, <2>2, <2>3
<1>2. em \in Strings /\ s \in Strings
  BY EmptySeq DEF Spelt
<1>3. em \o s = s
  BY <1>2, Whole
<1>4. Reaches(table, Config(first, o, g[em]), s, Config(state, o, g[em \o s]))
  BY <1>1, <1>2, Spells
<1> QED BY <1>3, <1>4

(* The method is such a field ... *)
LEMMA MethodExtends ==
  ASSUME NEW y, NEW a, NEW b, NEW f, f = "method", NEW g, g = [t \in Strings |-> AskedFor(t, y, a, b)]
  PROVE  Extends(f, g)
<1> SUFFICES ASSUME NEW t \in Strings, NEW c \in Symbols PROVE Longer(g[t], f, c) = g[Append(t, c)]
  BY DEF Extends
<1>1. PICK u : u = Append(t, c) /\ u = Behind(t, c) /\ u \in Strings
  BY AppendProperties DEF Behind
<1>2. g[t] = AskedFor(t, y, a, b) /\ g[u] = AskedFor(u, y, a, b)
  BY <1>1
<1>3. Longer(AskedFor(t, y, a, b), f, c) = AskedFor(u, y, a, b)
  BY <1>1, MethodLonger
<1> QED BY <1>1, <1>2, <1>3

(* ... and so is the target. *)
LEMMA UriExtends ==
  ASSUME NEW x, NEW a, NEW b, NEW f, f = "uri", NEW g, g = [t \in Strings |-> AskedFor(x, t, a, b)]
  PROVE  Extends(f, g)
<1> SUFFICES ASSUME NEW t \in Strings, NEW c \in Symbols PROVE Longer(g[t], f, c) = g[Append(t, c)]
  BY DEF Extends
<1>1. PICK u : u = Append(t, c) /\ u = Behind(t, c) /\ u \in Strings
  BY AppendProperties DEF Behind
<1>2. g[t] = AskedFor(x, t, a, b) /\ g[u] = AskedFor(x, u, a, b)
  BY <1>1
<1>3. Longer(AskedFor(x, t, a, b), f, c) = AskedFor(x, u, a, b)
  BY <1>1, UriLonger
<1> QED BY <1>1, <1>2, <1>3

(* The first line of a request. *)
LEMMA ReadsRequestLine ==
  ASSUME NEW o, NEW d, RequestForm(d),
         NEW text, text = d.method \o <<SP>> \o d.uri \o <<SP>> \o Version(d) \o EndOfLine
  PROVE  /\ Reaches(RequestTable, Config("RequestMethodStart", o, NewRequest), text,
                    Config("HeaderLineStart", o, AskedFor(d.method, d.uri, d.major, d.minor)))
         /\ text \in Strings
<1>1. PICK em, z, x, y, a, b, sp, v, e : /\ em = <<>> /\ z = 0 /\ x = d.method /\ y = d.uri /\ a = d.major /\ b = d.minor
                                         /\ sp = <<SP>> /\ v = Version(d) /\ e = EndOfLine
  OBVIOUS
<1>2. MessageForm(d) /\ Word(x, Token) /\ Word(y, Visible)
  BY <1>1 DEF RequestForm
<1>3. Spelt(x, Token) /\ Spelt(y, Visible)
  BY <1>2, WordsOf
<1>4. x \in Strings /\ y \in Strings /\ em \in Strings
  <2>1. em \in Strings
    BY <1>1
  <2> QED BY <1>3, <2>1 DEF Spelt
<1>5. em \o x = x /\ em \o y = y
  BY <1>1, <1>4, Whole
<1>6. PICK m0, m1, m2, m3 : /\ m0 = AskedFor(em, em, z, z) /\ m1 = AskedFor(x, em, z, z) /\ m2 = AskedFor(x, y, z, z)
                            /\ m3 = AskedFor(x, y, a, b)
  OBVIOUS
<1>7. m0 = NewRequest
  BY <1>1, <1>6 DEF AskedFor, NewRequest
<1>8. PICK tb : tb = RequestTable
  OBVIOUS
<1>9. Reaches(tb, Config("RequestMethodStart", o, m0), x, Config("RequestMethod", o, m1))
  <2>1. PICK do, st, on, first : do = "method" /\ st = "RequestMethod" /\ on = Token /\ first = "RequestMethodStart"
    OBVIOUS
  <2>2. Leads(tb, first, on, st, do) /\ Leads(tb, st, on, st, do)
    BY <1>8, <2>1, RequestLeads
  <2>3. PICK g : g = [t \in Strings |-> AskedFor(t, em, z, z)]
    OBVIOUS
  <2>4. g[em] = m0 /\ g[x] = m1
    BY <1>4, <1>6, <2>3
  <2>5. do \in {"method", "uri", "status"} /\ Spelt(x, on)
    BY <1>3, <2>1
  <2>6. Extends(do, g)
    BY <2>1, <2>3, MethodExtends
  <2>7. Reaches(tb, Config(first, o, g[em]), x, Config(st, o, g[x]))
    BY <1>1, <2>2, <2>5, <2>6, SpellsField
  <2> QED BY <2>1, <2>4, <2>7
<1>10. Class(SP) \in {SP} /\ sp \in Strings
  BY <1>1, Marks, ClassOf
<1>11. Reaches(tb, Config("RequestMethod", o, m1), sp, Config("RequestUriStart", o, m1))
  BY <1>1, <1>8, <1>10, RequestLeads, MovesOn
<1>12. Reaches(tb, Config("RequestUriStart", o, m1), y, Config("RequestUri", o, m2))
  <2>1. PICK do, st, on, first : do = "uri" /\ st = "RequestUri" /\ on = Visible /\ first = "RequestUriStart"
    OBVIOUS
  <2>2. Leads(tb, first, on, st, do) /\ Leads(tb, st, on, st, do)
    BY <1>8, <2>1, RequestLeads
  <2>3. PICK g : g = [t \in Strings |-> AskedFor(x, t, z, z)]
    OBVIOUS
  <2>4. g[em] = m1 /\ g[y] = m2
    BY <1>4, <1>6, <2>3
  <2>5. do \in {"method", "uri", "status"} /\ Spelt(y, on)
    BY <1>3, <2>1
  <2>6. Extends(do, g)
    BY <2>1, <2>3, UriExtends
  <2>7. Reaches(tb, Config(first, o, g[em]), y, Config(st, o, g[y]))
    BY <1>1, <2>2, <2>5, <2>6, SpellsField
  <2> QED BY <2>1, <2>4, <2>7
<1>13. Reaches(tb, Config("RequestUri", o, m2), sp, Config("RequestHttpVersion_h", o, m2))
  BY <1>1, <1>8, <1>10, RequestLeads, MovesOn
<1>14. Reaches(tb, Config("RequestHttpVersion_h", o, m2), v, Config("RequestHttpVersion_minor", o, m3)) /\ v \in Strings
  <2>1. PICK h, s1, s2, s3, s4 : /\ h = "RequestHttpVersion_h" /\ s1 = "RequestHttpVersion_majorStart"
                                 /\ s2 = "RequestHttpVersion_major" /\ s3 = "RequestHttpVersion_minorStart"
                                 /\ s4 = "RequestHttpVersion_minor"
    OBVIOUS
  <2>2. VersionLeads(tb, h, s1, s2, s3, s4)
    BY <1>8, <2>1, RequestLeads DEF VersionLeads
  <2>3. IsMessage(m2) /\ VersionIs(m2, a, b) = m3
    <3>1. IsMessage(AskedFor(x, y, z, z))
      BY AskedFields
    <3>2. VersionIs(AskedFor(x, y, z, z), a, b) = AskedFor(x, y, a, b)
      BY AskedVersion
    <3> QED BY <1>6, <3>1, <3>2
  <2>4. /\ Reaches(tb, Config(h, o, m2), Version(d), Config(s4, o, VersionIs(m2, d.major, d.minor)))
        /\ Version(d) \in Strings
    BY <1>2, <2>2, <2>3, ReadsVersion
  <2> QED BY <1>1, <2>1, <2>3, <2>4
<1>15. Reaches(tb, Config("RequestHttpVersion_minor", o, m3), e, Config("HeaderLineStart", o, m3)) /\ e \in Strings
  <2>1. PICK st, nx, la, do : /\ st = "RequestHttpVersion_minor" /\ nx = "ResponseHttpVersion_newLine"
                              /\ la = "HeaderLineStart" /\ do = "skip"
    OBVIOUS
  <2>2. Leads(tb, st, {CR}, nx, do) /\ Leads(tb, nx, {LF}, la, "skip")
    BY <1>8, <2>1, RequestLeads
  <2>3. Do(do, Config(nx, o, m3), CR) = Config(nx, o, m3)
    BY <2>1 DEF Do
  <2>4. Reaches(tb, Config(st, o, m3), EndOfLine, Config(la, o, m3))
    BY <2>2, <2>3, LineEnds
  <2> QED BY <1>1, <2>1, <2>4, Marks
<1>16. PICK p, p1, p2, p3, p4, p5, p6 :
         /\ p = Config("RequestMethodStart", o, m0) /\ p1 = Config("RequestMethod", o, m1)
         /\ p2 = Config("RequestUriStart", o, m1) /\ p3 = Config("RequestUri", o, m2)
         /\ p4 = Config("RequestHttpVersion_h", o, m2) /\ p5 = Config("RequestHttpVersion_minor", o, m3)
         /\ p6 = Config("HeaderLineStart", o, m3)
  OBVIOUS
<1>17. /\ Reaches(tb, p, x, p1) /\ Reaches(tb, p1, sp, p2) /\ Reaches(tb, p2, y, p3) /\ Reaches(tb, p3, sp, p4)
       /\ Reaches(tb, p4, v, p5) /\ Reaches(tb, p5, e, p6)
  BY <1>9, <1>11, <1>12, <1>13, <1>14, <1>15, <1>16
<1>18. PICK t1 : t1 = x \o sp
  OBVIOUS
<1>19. Reaches(tb, p, t1, p2) /\ t1 \in Strings
  BY <1>4, <1>10, <1>17, <1>18, Then
<1>20. PICK t2 : t2 = t1 \o y
  OBVIOUS
<1>21. Reaches(tb, p, t2, p3) /\ t2 \in Strings
  BY <1>4, <1>17, <1>19, <1>20, Then
<1>22. PICK t3 : t3 = t2 \o sp
  OBVIOUS
<1>23. Reaches(tb, p, t3, p4) /\ t3 \in Strings
  BY <1>10, <1>17, <1>21, <1>22, Then
<1>24. PICK t4 : t4 = t3 \o v
  OBVIOUS
<1>25. Reaches(tb, p, t4, p5) /\ t4 \in Strings
  BY <1>14, <1>17, <1>23, <1>24, Then
<1>26. PICK t5 : t5 = t4 \o e
  OBVIOUS
<1>27. Reaches(tb, p, t5, p6) /\ t5 \in Strings
  BY <1>15, <1>17, <1>25, <1>26, Then
<1>28. text = t5
  BY <1>1, <1>18, <1>20, <1>22, <1>24, <1>26
<1> QED BY <1>1, <1>6, <1>7, <1>8, <1>16, <1>27, <1>28

----------------------------------------
(* The first line of a response *)

(* A number of as many digits as there are. *)
LEMMA CountsAll ==
  ASSUME NEW table, NEW first, NEW state, NEW do,
         Leads(table, first, {"digit"}, state, do), Leads(table, state, {"digit"}, state, do),
         NEW o, NEW gather, Tallies(do, state, o, gather), NEW s \in Seq(DOMAIN DigitOf), s # <<>>
  PROVE  /\ Reaches(table, Config(first, o, gather[0]), s, Config(state, o, gather[Atoi(s)]))
         /\ s \in Strings
<1>1. Len(s) \in Nat /\ (\A i \in 1 .. Len(s) : s[i] \in DOMAIN DigitOf)
  BY LenProperties, ElementOfSeq
<1>2. \A i \in 1 .. Len(s) : \E k \in 0 .. 9 : s[i] = Digits[k + 1] /\ DigitOf[s[i]] = k /\ Class(s[i]) \in {"digit"}
  BY <1>1, DigitFits
<1>3. s \in Strings
  <2>1. DOMAIN DigitOf \subseteq Symbols
    BY DigitFits
  <2> QED BY <2>1, SeqMonotonic
<1>4. Len(s) # 0
  BY EmptySeq
<1>5. PICK f : Valued(f, s, DigitOf, 10) /\ Atoi(s) = f[Len(s)]
  <2>1. PICK of, base : of = DigitOf /\ base = 10
    OBVIOUS
  <2>2. Numeral(s, of) /\ base \in Nat
    BY <1>1, <1>2, <2>1 DEF Numeral
  <2>3. \E f : Valued(f, s, of, base) /\ Leading(s, of, base) = f[Len(s)]
    BY <2>2, LeadingAll
  <2> QED BY <2>1, <2>3 DEF Atoi
<1>6. f[0] = 0 /\ (\A i \in 0 .. Len(s) : f[i] \in Nat) /\ \A i \in 1 .. Len(s) : f[i] = f[i - 1] * 10 + DigitOf[s[i]]
  BY <1>5 DEF Valued
<1> DEFINE h == [i \in 0 .. Len(s) |-> Config(IF i = 0 THEN first ELSE state, o, gather[f[i]])]
<1>7. ASSUME NEW i \in 1 .. Len(s) PROVE Consume(table, h[i - 1], s[i]) = {h[i]}
  <2>1. i - 1 \in 0 .. Len(s) /\ i \in 0 .. Len(s) /\ i # 0
    BY <1>1
  <2>2. PICK k \in 0 .. 9 : s[i] = Digits[k + 1] /\ DigitOf[s[i]] = k /\ Class(s[i]) \in {"digit"}
    BY <1>2
  <2>3. PICK n, c, st : n = f[i - 1] /\ c = s[i] /\ st = IF i - 1 = 0 THEN first ELSE state
    OBVIOUS
  <2>4. n \in Nat /\ f[i] = 10 * n + k
    BY <1>6, <2>1, <2>2, <2>3
  <2>5. h[i - 1] = Config(st, o, gather[n]) /\ h[i] = Config(state, o, gather[10 * n + k])
    BY <2>1, <2>3, <2>4
  <2>6. Do(do, Config(state, o, gather[n]), c) = Config(state, o, gather[10 * n + k])
    BY <2>2, <2>3, <2>4 DEF Tallies
  <2>7. Consume(table, Config(st, o, gather[n]), c) = {Do(do, Config(state, o, gather[n]), c)}
    BY <2>2, <2>3 DEF Leads
  <2> HIDE DEF h
  <2> QED BY <2>3, <2>5, <2>6, <2>7
<1>8. h[0] = Config(first, o, gather[0])
  BY <1>1, <1>6
<1>9. h[Len(s)] = Config(state, o, gather[Atoi(s)])
  BY <1>1, <1>4, <1>5
<1> HIDE DEF h
<1>10. Reaches(table, h[0], s, h[Len(s)])
  BY <1>7, ReachesAll
<1> QED BY <1>3, <1>8, <1>9, <1>10

(* A response by its first line. *)
AnsweredBy(code, status, major, minor) ==
  [code |-> code, status |-> status, major |-> major, minor |-> minor, headers |-> <<>>,
   content |-> <<>>, keepAlive |-> FALSE]

(* Its fields. *)
LEMMA AnsweredFields ==
  ASSUME NEW x, NEW y, NEW a, NEW b
  PROVE  /\ IsMessage(AnsweredBy(x, y, a, b)) /\ AnsweredBy(x, y, a, b).headers = <<>>
         /\ AnsweredBy(x, y, a, b).content = <<>> /\ AnsweredBy(x, y, a, b).keepAlive = FALSE
         /\ AnsweredBy(x, y, a, b).major = a /\ AnsweredBy(x, y, a, b).minor = b
         /\ AnsweredBy(x, y, a, b).code = x /\ AnsweredBy(x, y, a, b).status = y
         /\ "code" \in DOMAIN AnsweredBy(x, y, a, b) /\ "status" \in DOMAIN AnsweredBy(x, y, a, b)
         /\ "method" \notin DOMAIN AnsweredBy(x, y, a, b)
BY DEF AnsweredBy, IsMessage

(* A character more of the status. *)
LEMMA StatusLonger ==
  ASSUME NEW x, NEW y, NEW a, NEW b, NEW c, NEW u, u = Behind(y, c), NEW f, f = "status"
  PROVE  Longer(AnsweredBy(x, y, a, b), f, c) = AnsweredBy(x, u, a, b)
<1>1. PICK em, no : em = <<>> /\ no = FALSE
  OBVIOUS
<1>2. PICK m : m = [code |-> x, status |-> y, major |-> a, minor |-> b, headers |-> em, content |-> em, keepAlive |-> no]
  OBVIOUS
<1>3. m = AnsweredBy(x, y, a, b)
  BY <1>1, <1>2 DEF AnsweredBy
<1>4. Longer(m, f, c) = [m EXCEPT ![f] = Behind(m[f], c)]
  BY DEF Longer, Behind
<1>5. m[f] = y
  BY <1>2
<1>6. [m EXCEPT ![f] = u]
        = [code |-> x, status |-> u, major |-> a, minor |-> b, headers |-> em, content |-> em, keepAlive |-> no]
  BY <1>2
<1>7. Longer(m, f, c) = AnsweredBy(x, u, a, b)
  BY <1>1, <1>4, <1>5, <1>6 DEF AnsweredBy
<1> QED BY <1>3, <1>7

(* A response of another code ... *)
LEMMA AnsweredCode ==
  ASSUME NEW x, NEW y, NEW a, NEW b, NEW v, NEW f, f = "code"
  PROVE  PutField(AnsweredBy(x, y, a, b), f, v) = AnsweredBy(v, y, a, b)
<1>1. PICK em, no : em = <<>> /\ no = FALSE
  OBVIOUS
<1>2. PICK m : m = [code |-> x, status |-> y, major |-> a, minor |-> b, headers |-> em, content |-> em, keepAlive |-> no]
  OBVIOUS
<1>3. m = AnsweredBy(x, y, a, b)
  BY <1>1, <1>2 DEF AnsweredBy
<1>4. PutField(m, f, v)
        = [code |-> v, status |-> y, major |-> a, minor |-> b, headers |-> em, content |-> em, keepAlive |-> no]
  BY <1>2 DEF PutField
<1>5. PutField(m, f, v) = AnsweredBy(v, y, a, b)
  BY <1>1, <1>4 DEF AnsweredBy
<1> QED BY <1>3, <1>5

(* ... and of another version. *)
LEMMA AnsweredVersion ==
  ASSUME NEW x, NEW y, NEW a, NEW b, NEW v, NEW w
  PROVE  VersionIs(AnsweredBy(x, y, a, b), v, w) = AnsweredBy(x, y, v, w)
<1>1. PICK em, no : em = <<>> /\ no = FALSE
  OBVIOUS
<1>2. PICK m : m = [code |-> x, status |-> y, major |-> a, minor |-> b, headers |-> em, content |-> em, keepAlive |-> no]
  OBVIOUS
<1>3. m = AnsweredBy(x, y, a, b)
  BY <1>1, <1>2 DEF AnsweredBy
<1>4. VersionIs(m, v, w)
        = [code |-> x, status |-> y, major |-> v, minor |-> w, headers |-> em, content |-> em, keepAlive |-> no]
  <2>1. PICK r : r = [m EXCEPT !.major = v]
    OBVIOUS
  <2>2. r = [code |-> x, status |-> y, major |-> v, minor |-> b, headers |-> em, content |-> em, keepAlive |-> no]
    BY <1>2, <2>1
  <2>3. [r EXCEPT !.minor = w]
          = [code |-> x, status |-> y, major |-> v, minor |-> w, headers |-> em, content |-> em, keepAlive |-> no]
    BY <2>2
  <2>4. VersionIs(m, v, w) = [r EXCEPT !.minor = w]
    BY <2>1 DEF VersionIs
  <2> QED BY <2>3, <2>4
<1>5. VersionIs(m, v, w) = AnsweredBy(x, y, v, w)
  BY <1>1, <1>4 DEF AnsweredBy
<1> QED BY <1>3, <1>5

(* The status is written character by character. *)
LEMMA StatusExtends ==
  ASSUME NEW x, NEW a, NEW b, NEW f, f = "status", NEW g, g = [t \in Strings |-> AnsweredBy(x, t, a, b)]
  PROVE  Extends(f, g)
<1> SUFFICES ASSUME NEW t \in Strings, NEW c \in Symbols PROVE Longer(g[t], f, c) = g[Append(t, c)]
  BY DEF Extends
<1>1. PICK u : u = Append(t, c) /\ u = Behind(t, c) /\ u \in Strings
  BY AppendProperties DEF Behind
<1>2. g[t] = AnsweredBy(x, t, a, b) /\ g[u] = AnsweredBy(x, u, a, b)
  BY <1>1
<1>3. Longer(AnsweredBy(x, t, a, b), f, c) = AnsweredBy(x, u, a, b)
  BY <1>1, StatusLonger
<1> QED BY <1>1, <1>2, <1>3

(* The code is written digit by digit. *)
LEMMA CodeCounts ==
  ASSUME NEW st, NEW o, NEW y, NEW a, NEW b, NEW f, f = "code", NEW g, g = [n \in Nat |-> AnsweredBy(n, y, a, b)]
  PROVE  Tallies(f, st, o, g)
<1> SUFFICES ASSUME NEW n \in Nat, NEW k \in 0 .. 9
             PROVE  Do(f, Config(st, o, g[n]), Digits[k + 1]) = Config(st, o, g[10 * n + k])
  BY DEF Tallies
<1>1. PICK j : j = 10 * n + k
  OBVIOUS
<1>2. j \in Nat
  BY <1>1
<1>3. PICK q : q = AnsweredBy(n, y, a, b)
  OBVIOUS
<1>4. g[n] = q /\ g[j] = AnsweredBy(j, y, a, b)
  BY <1>2, <1>3
<1>5. q[f] = n
  <2>1. q.code = n
    BY <1>3 DEF AnsweredBy
  <2> QED BY <2>1
<1>6. PutField(q, f, j) = AnsweredBy(j, y, a, b)
  BY <1>3, AnsweredCode
<1>7. f \in {"major", "minor", "code"} /\ j = 10 * q[f] + k
  BY <1>1, <1>5
<1>8. Do(f, Config(st, o, q), Digits[k + 1]) = Config(st, o, PutField(q, f, j))
  BY <1>7, DoDigit
<1> QED BY <1>1, <1>4, <1>6, <1>8

(* The first line of a response. *)
LEMMA ReadsStatusLine ==
  ASSUME NEW o, NEW d, ResponseForm(d),
         NEW text, text = Version(d) \o <<SP>> \o d.code \o <<SP>> \o d.status \o EndOfLine
  PROVE  /\ Reaches(ResponseTable, Config("ResponseStatusStart", o, NewResponse), text,
                    Config("HeaderLineStart", o, AnsweredBy(Atoi(d.code), d.status, d.major, d.minor)))
         /\ text \in Strings
<1>1. PICK em, z, x, y, a, b, sp, v, e : /\ em = <<>> /\ z = 0 /\ x = d.code /\ y = d.status /\ a = d.major /\ b = d.minor
                                         /\ sp = <<SP>> /\ v = Version(d) /\ e = EndOfLine
  OBVIOUS
<1>2. MessageForm(d) /\ Word(y, Char \ {CR}) /\ x \in Seq(DOMAIN DigitOf) /\ Atoi(x) \in 100 .. 999
  BY <1>1 DEF ResponseForm
<1>3. PICK k : k = Atoi(x)
  OBVIOUS
<1>4. Spelt(y, Char \ {CR}) /\ y \in Strings /\ k \in 100 .. 999 /\ k \in Nat
  <2>1. Spelt(y, Char \ {CR})
    BY <1>2, WordsOf
  <2>2. y \in Strings
    BY <2>1 DEF Spelt
  <2>3. k \in 100 .. 999
    <3>1. Atoi(x) \in 100 .. 999
      BY <1>2
    <3> QED BY <1>3, <3>1
  <2>4. k \in Nat
    BY <2>3
  <2> QED BY <2>1, <2>2, <2>3, <2>4
<1>5. x # <<>>
  <2>1. Atoi(em) = 0
    <3>1. PICK s, of, base : s = em /\ Len(s) = 0 /\ of = DigitOf /\ base = 10
      BY <1>1
    <3>2. Numeral(s, of) /\ base \in Nat
      BY <3>1 DEF Numeral
    <3>3. \E f : Valued(f, s, of, base) /\ Leading(s, of, base) = f[Len(s)]
      BY <3>2, LeadingAll
    <3> QED BY <3>1, <3>3 DEF Atoi, Valued
  <2>2. x = em => k = 0
    BY <1>3, <2>1
  <2>3. k # 0
    BY <1>4
  <2> QED BY <1>1, <2>2, <2>3
<1>6. PICK m0, m1, m2, m3, m4 :
        /\ m0 = NewResponse /\ m1 = VersionIs(m0, a, b) /\ m2 = AnsweredBy(z, em, a, b)
        /\ m3 = AnsweredBy(k, em, a, b) /\ m4 = AnsweredBy(k, y, a, b)
  OBVIOUS
<1>7. PICK c, w, n : c = 404 /\ w = 1 /\ n = AnsweredBy(c, em, w, w)
  OBVIOUS
<1>8. m0 = n
  BY <1>1, <1>6, <1>7 DEF AnsweredBy, NewResponse
<1>9. IsMessage(m0) /\ m1 = AnsweredBy(c, em, a, b)
  <2>1. IsMessage(AnsweredBy(c, em, w, w))
    BY AnsweredFields
  <2>2. VersionIs(AnsweredBy(c, em, w, w), a, b) = AnsweredBy(c, em, a, b)
    BY AnsweredVersion
  <2> QED BY <1>6, <1>7, <1>8, <2>1, <2>2
<1>10. PICK tb : tb = ResponseTable
  OBVIOUS
<1>11. /\ Reaches(tb, Config("ResponseStatusStart", o, m0), v, Config("ResponseHttpVersion_minor", o, m1))
       /\ v \in Strings
  <2>1. PICK h, s1, s2, s3, s4 : /\ h = "ResponseStatusStart" /\ s1 = "ResponseHttpVersion_majorStart"
                                 /\ s2 = "ResponseHttpVersion_major" /\ s3 = "ResponseHttpVersion_minorStart"
                                 /\ s4 = "ResponseHttpVersion_minor"
    OBVIOUS
  <2>2. VersionLeads(tb, h, s1, s2, s3, s4)
    BY <1>10, <2>1, ResponseLeads DEF VersionLeads
  <2>3. /\ Reaches(tb, Config(h, o, m0), Version(d), Config(s4, o, VersionIs(m0, d.major, d.minor)))
        /\ Version(d) \in Strings
    BY <1>2, <1>9, <2>2, ReadsVersion
  <2> QED BY <1>1, <1>6, <2>1, <2>3
<1>12. Class(SP) \in {SP} /\ sp \in Strings
  BY <1>1, Marks, ClassOf
<1>13. Reaches(tb, Config("ResponseHttpVersion_minor", o, m1), sp, Config("ResponseHttpVersion_statusCodeStart", o, m2))
  <2>1. PICK st, nx, do, ch, cls : /\ st = "ResponseHttpVersion_minor" /\ nx = "ResponseHttpVersion_statusCodeStart"
                                   /\ do = "noCode" /\ ch = SP /\ cls = {SP}
    OBVIOUS
  <2>2. Leads(tb, st, cls, nx, do)
    BY <1>10, <2>1, ResponseLeads
  <2>3. PICK f : f = "code"
    OBVIOUS
  <2>4. PutField(m1, f, z) = m2
    <3>1. PutField(AnsweredBy(c, em, a, b), f, z) = AnsweredBy(z, em, a, b)
      BY <2>3, AnsweredCode
    <3> QED BY <1>6, <1>9, <3>1
  <2>5. Do(do, Config(nx, o, m1), ch) = Config(nx, o, m2)
    <3>1. Do("noCode", Config(nx, o, m1), ch) = Config(nx, o, PutField(m1, "code", 0))
      BY DoCode
    <3> QED BY <1>1, <2>1, <2>3, <2>4, <3>1
  <2>6. PICK q : q = Config(nx, o, m2)
    OBVIOUS
  <2>7. Class(ch) \in cls
    BY <1>12, <2>1
  <2>8. Reaches(tb, Config(st, o, m1), <<ch>>, q)
    BY <2>2, <2>5, <2>6, <2>7, Moves
  <2> QED BY <1>1, <2>1, <2>6, <2>8
<1>14. /\ Reaches(tb, Config("ResponseHttpVersion_statusCodeStart", o, m2), x, Config("ResponseHttpVersion_statusCode", o, m3))
       /\ x \in Strings
  <2>1. PICK st, nx, do : /\ st = "ResponseHttpVersion_statusCodeStart" /\ nx = "ResponseHttpVersion_statusCode"
                          /\ do = "code"
    OBVIOUS
  <2>2. Leads(tb, st, {"digit"}, nx, do) /\ Leads(tb, nx, {"digit"}, nx, do)
    BY <1>10, <2>1, ResponseLeads
  <2>3. PICK g : g = [j \in Nat |-> AnsweredBy(j, em, a, b)]
    OBVIOUS
  <2>4. g[0] = m2 /\ g[k] = m3
    BY <1>1, <1>4, <1>6, <2>3
  <2>5. Tallies(do, nx, o, g)
    BY <2>1, <2>3, CodeCounts
  <2>6. /\ Reaches(tb, Config(st, o, g[0]), x, Config(nx, o, g[Atoi(x)]))
        /\ x \in Strings
    BY <1>2, <1>5, <2>2, <2>5, CountsAll
  <2> QED BY <1>3, <2>1, <2>4, <2>6
<1>15. Reaches(tb, Config("ResponseHttpVersion_statusCode", o, m3), sp, Config("ResponseHttpVersion_statusTextStart", o, m3))
  <2>1. PICK st, nx, do, ch, cls : /\ st = "ResponseHttpVersion_statusCode" /\ nx = "ResponseHttpVersion_statusTextStart"
                                   /\ do = "codeDone" /\ ch = SP /\ cls = {SP}
    OBVIOUS
  <2>2. Leads(tb, st, cls, nx, do)
    BY <1>10, <2>1, ResponseLeads
  <2>3. m3.code = k
    BY <1>6 DEF AnsweredBy
  <2>4. Do(do, Config(nx, o, m3), ch) = Config(nx, o, m3)
    <3>1. m3.code \in 100 .. 999 => Do("codeDone", Config(nx, o, m3), ch) = Config(nx, o, m3)
      BY DoCode
    <3> QED BY <1>4, <2>1, <2>3, <3>1
  <2>5. PICK q : q = Config(nx, o, m3)
    OBVIOUS
  <2>6. Class(ch) \in cls
    BY <1>12, <2>1
  <2>7. Reaches(tb, Config(st, o, m3), <<ch>>, q)
    BY <2>2, <2>4, <2>5, <2>6, Moves
  <2> QED BY <1>1, <2>1, <2>5, <2>7
<1>16. Reaches(tb, Config("ResponseHttpVersion_statusTextStart", o, m3), y, Config("ResponseHttpVersion_statusText", o, m4))
  <2>1. PICK do, st, on, first : /\ do = "status" /\ st = "ResponseHttpVersion_statusText" /\ on = Char \ {CR}
                                 /\ first = "ResponseHttpVersion_statusTextStart"
    OBVIOUS
  <2>2. Leads(tb, first, on, st, do) /\ Leads(tb, st, on, st, do)
    BY <1>10, <2>1, ResponseLeads
  <2>3. PICK g : g = [t \in Strings |-> AnsweredBy(k, t, a, b)]
    OBVIOUS
  <2>4. g[em] = m3 /\ g[y] = m4
    <3>1. em \in Strings
      BY <1>1, EmptySeq
    <3> QED BY <1>4, <1>6, <2>3, <3>1
  <2>5. do \in {"method", "uri", "status"} /\ Spelt(y, on)
    BY <1>4, <2>1
  <2>6. Extends(do, g)
    BY <2>1, <2>3, StatusExtends
  <2>7. Reaches(tb, Config(first, o, g[em]), y, Config(st, o, g[y]))
    BY <1>1, <2>2, <2>5, <2>6, SpellsField
  <2> QED BY <2>1, <2>4, <2>7
<1>17. Reaches(tb, Config("ResponseHttpVersion_statusText", o, m4), e, Config("HeaderLineStart", o, m4)) /\ e \in Strings
  <2>1. PICK st, nx, la, do : /\ st = "ResponseHttpVersion_statusText" /\ nx = "ResponseHttpVersion_newLine"
                              /\ la = "HeaderLineStart" /\ do = "skip"
    OBVIOUS
  <2>2. Leads(tb, st, {CR}, nx, do) /\ Leads(tb, nx, {LF}, la, "skip")
    BY <1>10, <2>1, ResponseLeads
  <2>3. Do(do, Config(nx, o, m4), CR) = Config(nx, o, m4)
    BY <2>1 DEF Do
  <2>4. Reaches(tb, Config(st, o, m4), EndOfLine, Config(la, o, m4))
    BY <2>2, <2>3, LineEnds
  <2> QED BY <1>1, <2>1, <2>4, Marks
<1>18. PICK p, p1, p2, p3, p4, p5, p6 :
         /\ p = Config("ResponseStatusStart", o, m0) /\ p1 = Config("ResponseHttpVersion_minor", o, m1)
         /\ p2 = Config("ResponseHttpVersion_statusCodeStart", o, m2) /\ p3 = Config("ResponseHttpVersion_statusCode", o, m3)
         /\ p4 = Config("ResponseHttpVersion_statusTextStart", o, m3) /\ p5 = Config("ResponseHttpVersion_statusText", o, m4)
         /\ p6 = Config("HeaderLineStart", o, m4)
  OBVIOUS
<1>19. /\ Reaches(tb, p, v, p1) /\ Reaches(tb, p1, sp, p2) /\ Reaches(tb, p2, x, p3) /\ Reaches(tb, p3, sp, p4)
       /\ Reaches(tb, p4, y, p5) /\ Reaches(tb, p5, e, p6)
  BY <1>11, <1>13, <1>14, <1>15, <1>16, <1>17, <1>18
<1>20. PICK t1 : t1 = v \o sp
  OBVIOUS
<1>21. Reaches(tb, p, t1, p2) /\ t1 \in Strings
  BY <1>11, <1>12, <1>19, <1>20, Then
<1>22. PICK t2 : t2 = t1 \o x
  OBVIOUS
<1>23. Reaches(tb, p, t2, p3) /\ t2 \in Strings
  BY <1>14, <1>19, <1>21, <1>22, Then
<1>24. PICK t3 : t3 = t2 \o sp
  OBVIOUS
<1>25. Reaches(tb, p, t3, p4) /\ t3 \in Strings
  BY <1>12, <1>19, <1>23, <1>24, Then
<1>26. PICK t4 : t4 = t3 \o y
  OBVIOUS
<1>27. Reaches(tb, p, t4, p5) /\ t4 \in Strings
  BY <1>4, <1>19, <1>25, <1>26, Then
<1>28. PICK t5 : t5 = t4 \o e
  OBVIOUS
<1>29. Reaches(tb, p, t5, p6) /\ t5 \in Strings
  BY <1>17, <1>19, <1>27, <1>28, Then
<1>30. text = t5
  BY <1>1, <1>20, <1>22, <1>24, <1>26, <1>28
<1> QED BY <1>1, <1>3, <1>6, <1>10, <1>18, <1>29, <1>30

----------------------------------------
(* Whole messages *)

(* What a described request is to be read as ... *)
ReadRequest(d) ==
  Filled(AskedFor(d.method, d.uri, d.major, d.minor), d.headers \o Framing(d), d.content, StaysOpen(d))

(* ... and a described response. *)
ReadResponse(d) ==
  Filled(AnsweredBy(Atoi(d.code), d.status, d.major, d.minor), d.headers \o Framing(d), d.content, StaysOpen(d))

(* A parser that is used for nothing else yet reads a request to its end
   (HttpRequestParser::consume). *)
LEMMA RequestReaches ==
  ASSUME NEW d, RequestForm(d), NEW o, Unused(o)
  PROVE  \E st, n :
           /\ Reaches(RequestTable, Config("RequestMethodStart", o, NewRequest), RequestText(d), Done(st, n, ReadRequest(d)))
           /\ RequestText(d) \in Strings /\ Finished(st, n)
<1>1. PICK tb, hl, p, text : /\ tb = RequestTable /\ hl = "HeaderLineStart"
                             /\ p = Config("RequestMethodStart", o, NewRequest) /\ text = RequestText(d)
  OBVIOUS
<1>2. HeaderLeads(tb) /\ BodyLeads(tb)
  BY <1>1, TablesLeadHeaders, TablesLeadBodies
<1>3. PICK a, b, x, y : a = d.major /\ b = d.minor /\ x = d.method /\ y = d.uri
  OBVIOUS
<1>4. PICK m : m = AskedFor(x, y, a, b)
  OBVIOUS
<1>5. /\ IsMessage(m) /\ m.headers = <<>> /\ m.content = <<>> /\ m.keepAlive = FALSE
      /\ m.major = d.major /\ m.minor = d.minor /\ m.method = d.method
  BY AskedFields, <1>3, <1>4 DEF AskedFor
<1>6. MessageForm(d) /\ (d.form # "none" => MayHaveBody(m))
  BY <1>5 DEF RequestForm, MayHaveBody
<1>7. PICK pre : pre = d.method \o <<SP>> \o d.uri \o <<SP>> \o Version(d) \o EndOfLine
  OBVIOUS
<1>8. Reaches(tb, p, pre, Config("HeaderLineStart", o, m)) /\ pre \in Strings
  BY <1>7, ReadsRequestLine, <1>1, <1>3, <1>4
<1>9. text = pre \o Texts(d.headers, FoldedText) \o Texts(Framing(d), HeaderText) \o EndOfLine \o BodyText(d)
  BY <1>1, <1>7 DEF RequestText
<1>10. \E st, n :
         /\ Reaches(tb, p, text, Done(st, n, Filled(m, d.headers \o Framing(d), d.content, StaysOpen(d))))
         /\ text \in Strings /\ Finished(st, n)
  BY <1>2, <1>5, <1>6, <1>8, <1>9, ReadsRest
<1>11. Filled(m, d.headers \o Framing(d), d.content, StaysOpen(d)) = ReadRequest(d)
  BY <1>3, <1>4 DEF ReadRequest
<1> QED BY <1>1, <1>10, <1>11

(* So it does a response (HttpResponseParser::consume). *)
LEMMA ResponseReaches ==
  ASSUME NEW d, ResponseForm(d), NEW o, Unused(o)
  PROVE  \E st, n :
           /\ Reaches(ResponseTable, Config("ResponseStatusStart", o, NewResponse), ResponseText(d), Done(st, n, ReadResponse(d)))
           /\ ResponseText(d) \in Strings /\ Finished(st, n)
<1>1. PICK tb, p, text : /\ tb = ResponseTable
                         /\ p = Config("ResponseStatusStart", o, NewResponse) /\ text = ResponseText(d)
  OBVIOUS
<1>2. HeaderLeads(tb) /\ BodyLeads(tb)
  BY <1>1, TablesLeadHeaders, TablesLeadBodies
<1>3. PICK a, b, x, y : a = d.major /\ b = d.minor /\ x = Atoi(d.code) /\ y = d.status
  OBVIOUS
<1>4. PICK m : m = AnsweredBy(x, y, a, b)
  OBVIOUS
<1>5. /\ IsMessage(m) /\ m.headers = <<>> /\ m.content = <<>> /\ m.keepAlive = FALSE
      /\ m.major = d.major /\ m.minor = d.minor /\ "method" \notin DOMAIN m
  BY AnsweredFields, <1>3, <1>4 DEF AnsweredBy
<1>6. MessageForm(d) /\ (d.form # "none" => MayHaveBody(m))
  BY <1>5 DEF ResponseForm, MayHaveBody
<1>7. PICK pre : pre = Version(d) \o <<SP>> \o d.code \o <<SP>> \o d.status \o EndOfLine
  OBVIOUS
<1>8. Reaches(tb, p, pre, Config("HeaderLineStart", o, m)) /\ pre \in Strings
  BY <1>7, ReadsStatusLine, <1>1, <1>3, <1>4
<1>9. text = pre \o Texts(d.headers, FoldedText) \o Texts(Framing(d), HeaderText) \o EndOfLine \o BodyText(d)
  BY <1>1, <1>7 DEF ResponseText
<1>10. \E st, n :
         /\ Reaches(tb, p, text, Done(st, n, Filled(m, d.headers \o Framing(d), d.content, StaysOpen(d))))
         /\ text \in Strings /\ Finished(st, n)
  BY <1>2, <1>5, <1>6, <1>8, <1>9, ReadsRest
<1>11. Filled(m, d.headers \o Framing(d), d.content, StaysOpen(d)) = ReadResponse(d)
  BY <1>3, <1>4 DEF ReadResponse
<1> QED BY <1>1, <1>10, <1>11

(* A new parser is one that is used for nothing else yet. *)
LEMMA NewConfig ==
  ASSUME NEW st, NEW m
  PROVE  Start(NewParser(st), m) = Config(st, NewParser(st), m) /\ Unused(NewParser(st))
<1>1. NewParser(st).contentSize = 0 /\ NewParser(st).chunkSizeStr = <<>> /\ NewParser(st).chunkSize = 0
      /\ NewParser(st).chunked = FALSE
  BY DEF NewParser
<1>2. NewParser(st) = Object(st, NewParser(st).contentSize, NewParser(st).chunkSizeStr, NewParser(st).chunkSize,
                             NewParser(st).chunked)
  BY DEF NewParser, Object
<1> QED BY <1>1, <1>2 DEF Config, Unused

(* The fields of a message that has ended. *)
LEMMA DoneFields ==
  ASSUME NEW st, NEW n, NEW m
  PROVE  /\ Done(st, n, m).result = "ParsingCompleted" /\ Done(st, n, m).remainSize = 0 /\ Done(st, n, m).m = m
         /\ Done(st, n, m).o = Object(st, n.contentSize, n.chunkSizeStr, n.chunkSize, n.chunked)
BY DEF Done, With, Config, Start

(* What is read is what was described. *)
LEMMA ReadsAsWritten ==
  /\ \A d : RequestForm(d) =>
       LET q == ReadRequest(d) IN
       /\ q.major = d.major /\ q.minor = d.minor /\ q.headers = d.headers \o Framing(d)
       /\ q.content = d.content /\ q.keepAlive = StaysOpen(d) /\ q.method = d.method /\ q.uri = d.uri
  /\ \A d : ResponseForm(d) =>
       LET q == ReadResponse(d) IN
       /\ q.major = d.major /\ q.minor = d.minor /\ q.headers = d.headers \o Framing(d)
       /\ q.content = d.content /\ q.keepAlive = StaysOpen(d) /\ q.code = Atoi(d.code) /\ q.status = d.status
<1>1. ASSUME NEW d, NEW q, q = ReadRequest(d)
      PROVE  /\ q.major = d.major /\ q.minor = d.minor /\ q.headers = d.headers \o Framing(d)
             /\ q.content = d.content /\ q.keepAlive = StaysOpen(d) /\ q.method = d.method /\ q.uri = d.uri
  <2>1. PICK hs, ct, ka : hs = d.headers \o Framing(d) /\ ct = d.content /\ ka = StaysOpen(d)
    OBVIOUS
  <2>2. PICK m : m = AskedFor(d.method, d.uri, d.major, d.minor)
    OBVIOUS
  <2>3. q = [m EXCEPT !.headers = hs, !.content = ct, !.keepAlive = ka]
    BY <1>1, <2>1, <2>2 DEF ReadRequest, Filled
  <2>4. q.major = d.major /\ q.minor = d.minor /\ q.headers = hs /\ q.content = ct /\ q.keepAlive = ka
        /\ q.method = d.method /\ q.uri = d.uri
    BY <2>2, <2>3 DEF AskedFor
  <2> QED BY <2>1, <2>4
<1>2. ASSUME NEW d, NEW q, q = ReadResponse(d)
      PROVE  /\ q.major = d.major /\ q.minor = d.minor /\ q.headers = d.headers \o Framing(d)
             /\ q.content = d.content /\ q.keepAlive = StaysOpen(d) /\ q.code = Atoi(d.code) /\ q.status = d.status
  <2>1. PICK hs, ct, ka : hs = d.headers \o Framing(d) /\ ct = d.content /\ ka = StaysOpen(d)
    OBVIOUS
  <2>2. PICK m, k : m = AnsweredBy(k, d.status, d.major, d.minor) /\ k = Atoi(d.code)
    OBVIOUS
  <2>3. q = [m EXCEPT !.headers = hs, !.content = ct, !.keepAlive = ka]
    BY <1>2, <2>1, <2>2 DEF ReadResponse, Filled
  <2>4. q.major = d.major /\ q.minor = d.minor /\ q.headers = hs /\ q.content = ct /\ q.keepAlive = ka
        /\ q.code = k /\ q.status = d.status
    BY <2>2, <2>3 DEF AnsweredBy
  <2> QED BY <2>1, <2>2, <2>4
<1> QED BY <1>1, <1>2

(* New parsers of requests and of responses read whatever message can be
   written as it is written. *)
LEMMA NewParserReads == RequestsParse(NewParser("RequestMethodStart")) /\ ResponsesParse
<1>1. ASSUME NEW d \in Requests, NEW p \in ParseRequest(NewParser("RequestMethodStart"), RequestText(d))
      PROVE  Agrees(p, d) /\ p.m.method = d.method /\ p.m.uri = d.uri
  <2>1. RequestForm(d)
    BY WireAssumption
  <2>2. PICK o, s0, m0, q : /\ s0 = "RequestMethodStart" /\ o = NewParser(s0) /\ m0 = NewRequest /\ q = ReadRequest(d)
    OBVIOUS
  <2>3. Start(NewParser(s0), m0) = Config(s0, NewParser(s0), m0) /\ Unused(NewParser(s0))
    BY NewConfig
  <2>4. PICK st, n : /\ Reaches(RequestTable, Start(o, m0), RequestText(d), Done(st, n, q))
                     /\ RequestText(d) \in Strings
    BY <2>2, <2>3, <2>1, RequestReaches
  <2>5. Parse(RequestTable, o, m0, RequestText(d)) = {Done(st, n, q)}
    BY <2>4, ParseReaches
  <2>6. p = Done(st, n, q)
    BY <2>2, <2>5 DEF ParseRequest
  <2>7. p.result = "ParsingCompleted" /\ p.remainSize = 0 /\ p.m = q
    BY <2>6, DoneFields
  <2> QED BY <2>1, <2>2, <2>7, ReadsAsWritten DEF Agrees
<1>2. ASSUME NEW d \in Responses, NEW p \in ParseResponse(ResponseText(d))
      PROVE  Agrees(p, d) /\ p.m.code = Atoi(d.code) /\ p.m.status = d.status
  <2>1. ResponseForm(d)
    BY WireAssumption
  <2>2. PICK o, s0, m0, q : /\ s0 = "ResponseStatusStart" /\ o = NewParser(s0) /\ m0 = NewResponse /\ q = ReadResponse(d)
    OBVIOUS
  <2>3. Start(NewParser(s0), m0) = Config(s0, NewParser(s0), m0) /\ Unused(NewParser(s0))
    BY NewConfig
  <2>4. PICK st, n : /\ Reaches(ResponseTable, Start(o, m0), ResponseText(d), Done(st, n, q))
                     /\ ResponseText(d) \in Strings
    BY <2>2, <2>3, <2>1, ResponseReaches
  <2>5. Parse(ResponseTable, o, m0, ResponseText(d)) = {Done(st, n, q)}
    BY <2>4, ParseReaches
  <2>6. p = Done(st, n, q)
    BY <2>2, <2>5 DEF ParseResponse
  <2>7. p.result = "ParsingCompleted" /\ p.remainSize = 0 /\ p.m = q
    BY <2>6, DoneFields
  <2> QED BY <2>1, <2>2, <2>7, ReadsAsWritten DEF Agrees
<1> QED BY <1>1, <1>2 DEF RequestsParse, ResponsesParse

----------------------------------------
(* The parser after a first request *)

(* The rules that leave the three states in which a request ends. *)
LEMMA RulesOfLastStates ==
  \A r \in RequestRules :
    /\ r.state = "Post" => r.do = "post" /\ r.next = "Post"
    /\ r.state = "ExpectingNewline_3" => r.do = "headers" /\ r.next = "ExpectingNewline_3"
    /\ r.state = "ChunkSizeNewLine_3" => \A x \in r.on : x = LF
<1> DEFINE Fits(r) ==
      /\ r.state = "Post" => r.do = "post" /\ r.next = "Post"
      /\ r.state = "ExpectingNewline_3" => r.do = "headers" /\ r.next = "ExpectingNewline_3"
      /\ r.state = "ChunkSizeNewLine_3" => \A x \in r.on : x = LF
<1>1. \A r \in RequestLine : Fits(r)
  BY DEF RequestLine, Rule
<1>2. \A r \in RequestVersion : Fits(r)
  BY DEF RequestVersion, Rule
<1>3. \A r \in HeaderLines : Fits(r)
  BY DEF HeaderLines, Rule
<1>4. \A r \in Body : Fits(r)
  BY DEF Body, Rule
<1>5. \A r \in Chunks : Fits(r)
  BY DEF Chunks, Rule
<1> QED BY <1>1, <1>2, <1>3, <1>4, <1>5 DEF RequestRules

(* They are states, as are those that actions go to by name. *)
LEMMA NamedStates ==
  {"RequestMethodStart", "Post", "ExpectingNewline_3", "ChunkSize", "ChunkSizeNewLine_2",
   "ChunkSizeNewLine_3", "ChunkData", "ChunkDataNewLine_1"} \subseteq States
<1>1. Rule("RequestMethodStart", Token, "RequestMethod", "method") \in RequestRules
  BY DEF RequestRules, RequestLine
<1>2. Rule("ExpectingNewline_3", AnyClass, "ExpectingNewline_3", "headers") \in RequestRules
  BY DEF RequestRules, HeaderLines
<1>3. /\ Rule("Post", AnyClass, "Post", "post") \in RequestRules
      /\ Rule("ChunkSize", Alnum, "ChunkSize", "size") \in RequestRules
      /\ Rule("ChunkSizeNewLine_2", {CR}, "ChunkSizeNewLine_3", "skip") \in RequestRules
      /\ Rule("ChunkSizeNewLine_3", {LF}, "ChunkSizeNewLine_3", "complete") \in RequestRules
  BY DEF RequestRules, Body
<1>4. /\ Rule("ChunkData", AnyClass, "ChunkData", "data") \in RequestRules
      /\ Rule("ChunkDataNewLine_1", {CR}, "ChunkDataNewLine_2", "skip") \in RequestRules
  BY DEF RequestRules, Chunks
<1> HIDE DEF RequestRules
<1> QED BY <1>1, <1>2, <1>3, <1>4 DEF States, Rule

(* A character is refused or does what a rule says. *)
LEMMA Consumes ==
  ASSUME NEW p, NEW c, NEW q \in Consume(RequestTable, p, c), p.result = "ParsingIncompleted",
         p.o.state \in States
  PROVE  \/ q = With(p, "ParsingError")
         \/ \E r \in RequestRules : r.state = p.o.state /\ Class(c) \in r.on /\ q = Do(r.do, Goto(p, r.next), c)
<1>1. Class(c) \in AnyClass
  BY DEF Class, AnyClass
<1>2. p.o.state \in {r.state : r \in RequestRules}
  BY DEF States
<1>3. RequestTable[p.o.state][Class(c)] = {r \in RequestRules : r.state = p.o.state /\ Class(c) \in r.on}
  <2> HIDE DEF RequestRules
  <2> QED BY <1>1, <1>2 DEF RequestTable, Table
<1> DEFINE fit == RequestTable[p.o.state][Class(c)]
<1>4. q \in IF fit = {} THEN {With(p, "ParsingError")} ELSE {Do(r.do, Goto(p, r.next), c) : r \in fit}
  BY DEF Consume
<1> QED BY <1>3, <1>4

(* A parser that has completed a request, and is given more: it counts
   down from the end of a body ... *)
ParserObject ==
  [state : States, contentSize : Int, chunkSizeStr : Strings, chunkSize : Int, chunked : BOOLEAN]
Unending(o) == o \in ParserObject /\ o.state = "Post" /\ o.contentSize <= 0

(* ... or expects the last line feed again. *)
Ended(o) ==
  \/ Unending(o)
  \/ o \in ParserObject /\ o.state = "ExpectingNewline_3" /\ o.contentSize = 0 /\ ~o.chunked
  \/ o \in ParserObject /\ o.state = "ChunkSizeNewLine_3"

(* The fields of a parser that runs, and of its object. *)
Configuration(p) ==
  /\ p = [o |-> p.o, m |-> p.m, result |-> p.result, remainSize |-> p.remainSize]
  /\ p.o = [state |-> p.o.state, contentSize |-> p.o.contentSize, chunkSizeStr |-> p.o.chunkSizeStr,
            chunkSize |-> p.o.chunkSize, chunked |-> p.o.chunked]

(* What Posted writes, field by field. *)
LEMMA RecordStep ==
  ASSUME NEW p, NEW o, NEW m, NEW a, NEW b, NEW c, p = [o |-> o, m |-> m, result |-> a, remainSize |-> b],
         NEW x, x = [p EXCEPT !.o.contentSize = @ - 1, !.m.content = Append(@, c)]
  PROVE  /\ x = [o |-> [o EXCEPT !.contentSize = @ - 1], m |-> [m EXCEPT !.content = Append(@, c)],
                 result |-> a, remainSize |-> b]
         /\ x.o = [o EXCEPT !.contentSize = @ - 1] /\ x.m = [m EXCEPT !.content = Append(@, c)]
         /\ x.result = a /\ x.remainSize = b
OBVIOUS

(* A body that is past its end has none any more: it takes whatever comes. *)
LEMMA PostStays ==
  ASSUME NEW p, NEW c, NEW q \in Consume(RequestTable, p, c), Configuration(p),
         p.result = "ParsingIncompleted", Unending(p.o)
  PROVE  Configuration(q) /\ (q.result = "ParsingError" \/ (q.result = "ParsingIncompleted" /\ Unending(q.o)))
<1>1. CASE q = With(p, "ParsingError")
  BY <1>1 DEF With, Configuration
<1>2. CASE \E r \in RequestRules : r.state = "Post" /\ Class(c) \in r.on /\ q = Do(r.do, Goto(p, r.next), c)
  <2>1. q = Do("post", Goto(p, "Post"), c)
    BY <1>2, RulesOfLastStates
  <2>2. q = Posted(Goto(p, "Post"), c)
    BY <2>1 DEF Do
  <2>3. Goto(p, "Post") = p
    BY DEF Goto, Configuration, Unending
  <2>4. p.o \in ParserObject /\ p.o.contentSize \in Int /\ p.o.contentSize <= 0
    BY DEF Unending, ParserObject
  <2> DEFINE y == [p EXCEPT !.o.contentSize = @ - 1, !.m.content = Append(@, c)]
  <2>7. q = IF y.o.contentSize = 0 THEN With(y, "ParsingCompleted") ELSE y
    <3>1. q = Posted(p, c)
      BY <2>2, <2>3
    <3> QED BY <3>1, Zenon DEF Posted
  <2>12. PICK x : x = y
    OBVIOUS
  <2>13. q = IF x.o.contentSize = 0 THEN With(x, "ParsingCompleted") ELSE x
    BY <2>7, <2>12
  <2>14. x = [p EXCEPT !.o.contentSize = @ - 1, !.m.content = Append(@, c)]
    BY <2>12
  <2> HIDE DEF y
  <2>15. p = [o |-> p.o, m |-> p.m, result |-> p.result, remainSize |-> p.remainSize]
    BY DEF Configuration
  <2>5. /\ x.o = [p.o EXCEPT !.contentSize = @ - 1] /\ x.result = p.result
        /\ x = [o |-> x.o, m |-> x.m, result |-> p.result, remainSize |-> p.remainSize]
    BY <2>14, <2>15, RecordStep
  <2>6. x.o = [state |-> p.o.state, contentSize |-> p.o.contentSize - 1, chunkSizeStr |-> p.o.chunkSizeStr,
               chunkSize |-> p.o.chunkSize, chunked |-> p.o.chunked]
    BY <2>5 DEF Configuration
  <2>8. x.o.contentSize = p.o.contentSize - 1 /\ x.o.contentSize # 0
    BY <2>4, <2>6
  <2>9. q = x
    BY <2>13, <2>8
  <2>10. x.o \in ParserObject /\ x.o.state = "Post" /\ x.o.contentSize <= 0
    BY <2>4, <2>6 DEF Unending, ParserObject
  <2>11. Configuration(x) /\ x.result = p.result
    BY <2>5, <2>6 DEF Configuration
  <2> QED BY <2>9, <2>10, <2>11 DEF Unending
<1>3. p.o.state = "Post"
  BY DEF Unending
<1>4. p.o.state \in States
  BY <1>3, NamedStates
<1> QED BY <1>1, <1>2, <1>3, <1>4, Consumes

(* A parser that has refused its data, or is past the end of a body ... *)
After(p) ==
  Configuration(p) /\ (p.result = "ParsingError" \/ (p.result = "ParsingIncompleted" /\ Unending(p.o)))

(* ... stays so. *)
LEMMA ErrorStays ==
  ASSUME NEW p, After(p), NEW c, NEW q \in Consume(RequestTable, p, c)
  PROVE  After(q)
<1>1. CASE p.result = "ParsingError"
  <2>1. q = p
    BY <1>1 DEF Consume
  <2> QED BY <2>1
<1>2. CASE p.result = "ParsingIncompleted" /\ Unending(p.o)
  BY <1>2, PostStays DEF After
<1> QED BY <1>1, <1>2 DEF After

(* An object that has ended gets there with the first character, unless it
   expects its last line feed once more and is given one. *)
LEMMA FirstEnds ==
  ASSUME NEW o, Ended(o), NEW m, NEW c, Unending(o) \/ c # LF,
         NEW q \in Consume(RequestTable, Start(o, m), c)
  PROVE  After(q)
<1> DEFINE p == Start(o, m)
<1>1. /\ Configuration(p) /\ p.result = "ParsingIncompleted" /\ p.o = o
  BY DEF Start, Configuration, Ended, Unending, ParserObject
<1> HIDE DEF p
<1>2. CASE Unending(o)
  BY <1>1, <1>2, PostStays DEF After, p
<1>3. CASE ~Unending(o)
  <2>1. c # LF /\ o.state \in {"ExpectingNewline_3", "ChunkSizeNewLine_3"}
    BY <1>3 DEF Ended
  <2>2. ASSUME NEW r \in RequestRules, r.state = o.state, Class(c) \in r.on, q = Do(r.do, Goto(p, r.next), c)
        PROVE  q.result = "ParsingError" /\ Configuration(q)
    <3>1. CASE o.state = "ChunkSizeNewLine_3"
      <4>1. Class(c) = LF
        BY <2>2, <3>1, RulesOfLastStates
      <4>2. c = LF
        BY <4>1 DEF Class, LF
      <4> QED BY <2>1, <4>2
    <3>2. CASE o.state = "ExpectingNewline_3"
      <4>1. q = HeadersDone(Goto(p, "ExpectingNewline_3"), c)
        <5>1. q = Do("headers", Goto(p, "ExpectingNewline_3"), c)
          BY <2>2, <3>2, RulesOfLastStates
        <5> QED BY <5>1 DEF Do
      <4>2. Goto(p, "ExpectingNewline_3") = p
        BY <1>1, <3>2 DEF Goto, Configuration
      <4>3. o.contentSize = 0 /\ ~o.chunked
        BY <1>3, <3>2 DEF Ended
      <4> DEFINE x == [p EXCEPT !.m.keepAlive = KeepsAlive(p.m)]
      <4>4. x.o = o /\ x = [o |-> o, m |-> x.m, result |-> "ParsingIncompleted", remainSize |-> p.remainSize]
        BY <1>1 DEF Configuration
      <4>5. q = With(x, "ParsingError")
        <5>1. q = CASE x.o.chunked -> Goto(x, "ChunkSize")
                    [] ~x.o.chunked /\ x.o.contentSize # 0 -> Goto(x, "Post")
                    [] OTHER -> With(x, IF c = LF THEN "ParsingCompleted" ELSE "ParsingError")
          BY <4>1, <4>2 DEF HeadersDone
        <5> HIDE DEF x
        <5> QED BY <2>1, <4>3, <4>4, <5>1
      <4> HIDE DEF x
      <4> QED BY <1>1, <4>4, <4>5 DEF With, Configuration
    <3> QED BY <2>1, <3>1, <3>2
  <2>3. q = With(p, "ParsingError") => q.result = "ParsingError" /\ Configuration(q)
    BY <1>1 DEF With, Configuration
  <2>4. q = With(p, "ParsingError") \/ \E r \in RequestRules : r.state = o.state /\ Class(c) \in r.on
                                                            /\ q = Do(r.do, Goto(p, r.next), c)
    BY <1>1, <2>1, NamedStates, Consumes DEF p
  <2> QED BY <2>2, <2>3, <2>4 DEF After
<1> QED BY <1>2, <1>3

(* So an object that has ended completes nothing of any text that does not
   begin with a line feed. *)
LEMMA EndedParses ==
  ASSUME NEW o, Ended(o), NEW m, NEW text, Len(text) \in Nat \ {0}, Unending(o) \/ text[1] # LF,
         NEW p \in Parse(RequestTable, o, m, text)
  PROVE  p.result # "ParsingCompleted" /\ (p.result = "ParsingIncompleted" => Unending(p.o))
<1> DEFINE N == Len(text)
<1>1. PICK g : Passes(g, RequestTable, o, m, text)
  BY ParseSteps
<1>4. /\ g[0] = {Start(o, m)} /\ Parse(RequestTable, o, m, text) = g[N]
      /\ \A i \in 1 .. N : g[i] = UNION {Consume(RequestTable, q, text[i]) : q \in g[i - 1]}
  BY <1>1 DEF Passes
<1> DEFINE B == {i \in 1 .. N : ~ \A q \in g[i] : After(q)}
<1>5. B = {}
  <2> SUFFICES ASSUME B # {} PROVE FALSE
    OBVIOUS
  <2>1. PICK k \in B : \A j \in B : k <= j
    <3>1. B \subseteq Nat
      OBVIOUS
    <3> HIDE DEF B
    <3> QED BY <3>1, Least
  <2>2. k \in 1 .. N
    OBVIOUS
  <2>3. PICK q \in g[k] : ~After(q)
    OBVIOUS
  <2>4. PICK r \in g[k - 1] : q \in Consume(RequestTable, r, text[k])
    BY <1>4, <2>2
  <2>5. CASE k = 1
    <3>1. r = Start(o, m)
      BY <1>4, <2>4, <2>5
    <3> QED BY <2>3, <2>4, <2>5, <3>1, FirstEnds
  <2>6. CASE k # 1
    BY <2>2, <2>6, <2>1, <2>4, <2>3, ErrorStays
  <2> QED BY <2>5, <2>6
<1> QED BY <1>4, <1>5 DEF After

(* Wherever a rule leads there are rules. *)
LEMMA NextStates == \A r \in RequestRules : r.next \in States
<1>1. \A r \in RequestRules : r.state \in States
  BY DEF States
<1> DEFINE Leaves(rules, names) == \A s \in names : \E r \in rules : r.state = s
           LeadsTo(rules, names) == \A r \in rules : r.next \in names
<1>2. /\ Leaves(RequestLine, {"RequestMethod", "RequestUriStart", "RequestUri"})
      /\ LeadsTo(RequestLine, {"RequestMethod", "RequestUriStart", "RequestUri", "RequestHttpVersion_h"})
  BY DEF RequestLine, Rule
<1> DEFINE version == {"RequestHttpVersion_h", "RequestHttpVersion_majorStart", "RequestHttpVersion_major",
                       "RequestHttpVersion_minorStart", "RequestHttpVersion_minor",
                       "ResponseHttpVersion_newLine"}
<1>3. Leaves(RequestVersion, version) /\ LeadsTo(RequestVersion, version \cup {"HeaderLineStart"})
  BY DEF RequestVersion, Rule
<1> DEFINE header == {"HeaderLineStart", "HeaderLws", "HeaderName", "SpaceBeforeHeaderValue",
                      "HeaderValue", "ExpectingNewline_2", "ExpectingNewline_3"}
<1>4. Leaves(HeaderLines, header) /\ LeadsTo(HeaderLines, header)
  BY DEF HeaderLines, Rule
<1> DEFINE body == {"Post", "ChunkSize", "ChunkSizeNewLine", "ChunkExtensionName", "ChunkExtensionValue",
                    "ChunkSizeNewLine_2", "ChunkSizeNewLine_3"}
<1>5. Leaves(Body, body) /\ LeadsTo(Body, body \cup {"ChunkTrailerName"})
  BY DEF Body, Rule
<1> DEFINE chunk == {"ChunkTrailerName", "ChunkTrailerValue", "ChunkData", "ChunkDataNewLine_1",
                     "ChunkDataNewLine_2"}
<1>6. Leaves(Chunks, chunk) /\ LeadsTo(Chunks, chunk \cup {"ChunkSizeNewLine", "ChunkSize"})
  BY DEF Chunks, Rule
<1>7. /\ RequestLine \subseteq RequestRules /\ RequestVersion \subseteq RequestRules
      /\ HeaderLines \subseteq RequestRules /\ Body \subseteq RequestRules /\ Chunks \subseteq RequestRules
      /\ \A r \in RequestRules : r \in RequestLine \/ r \in RequestVersion \/ r \in HeaderLines
                                   \/ r \in Body \/ r \in Chunks
  BY DEF RequestRules
<1>8. ASSUME NEW rules, rules \subseteq RequestRules, NEW names, Leaves(rules, names)
      PROVE  names \subseteq States
  BY <1>1, <1>8
<1> HIDE DEF Leaves
<1>9. /\ {"RequestMethod", "RequestUriStart", "RequestUri"} \subseteq States
      /\ version \subseteq States /\ header \subseteq States /\ body \subseteq States /\ chunk \subseteq States
  BY <1>2, <1>3, <1>4, <1>5, <1>6, <1>7, <1>8
<1> QED BY <1>2, <1>3, <1>4, <1>5, <1>6, <1>7, <1>9

(* A parser's object, in one of its states. *)
InStates(o) ==
  /\ o = [state |-> o.state, contentSize |-> o.contentSize, chunkSizeStr |-> o.chunkSizeStr,
          chunkSize |-> o.chunkSize, chunked |-> o.chunked]
  /\ o.state \in States /\ o.chunked \in BOOLEAN

(* A configuration of such a parser. *)
Sound(p) ==
  p = [o |-> p.o, m |-> p.m, result |-> p.result, remainSize |-> p.remainSize] /\ InStates(p.o)

(* It stays one whatever is written to the message or the result ... *)
LEMMA SoundWrites ==
  ASSUME NEW p, Sound(p), NEW x
  PROVE  /\ Sound([p EXCEPT !.m = x]) /\ [p EXCEPT !.m = x].o = p.o
         /\ Sound([p EXCEPT !.result = x]) /\ Sound([p EXCEPT !.remainSize = x])
         /\ InStates(x) => Sound([p EXCEPT !.o = x])
<1>1. p = [o |-> p.o, m |-> p.m, result |-> p.result, remainSize |-> p.remainSize]
  BY DEF Sound
<1>2. [p EXCEPT !.m = x] = [o |-> p.o, m |-> x, result |-> p.result, remainSize |-> p.remainSize]
  BY <1>1
<1>3. [p EXCEPT !.result = x] = [o |-> p.o, m |-> p.m, result |-> x, remainSize |-> p.remainSize]
  BY <1>1
<1>4. [p EXCEPT !.remainSize = x] = [o |-> p.o, m |-> p.m, result |-> p.result, remainSize |-> x]
  BY <1>1
<1>5. [p EXCEPT !.o = x] = [o |-> x, m |-> p.m, result |-> p.result, remainSize |-> p.remainSize]
  BY <1>1
<1> QED BY <1>2, <1>3, <1>4, <1>5 DEF Sound

(* ... or to a field of the object, if a state is one of the table's. *)
LEMMA SoundObjects ==
  ASSUME NEW o, InStates(o), NEW x
  PROVE  /\ InStates([o EXCEPT !.contentSize = x]) /\ InStates([o EXCEPT !.chunkSizeStr = x])
         /\ InStates([o EXCEPT !.chunkSize = x])
         /\ x \in States => InStates([o EXCEPT !.state = x])
         /\ x \in BOOLEAN => InStates([o EXCEPT !.chunked = x])
BY DEF InStates

(* So it does whatever a rule does with a character. *)
LEMMA DoSound ==
  ASSUME NEW p, Sound(p), NEW r \in RequestRules, NEW c
  PROVE  Sound(Do(r.do, p, c))
<1> DEFINE q == Do(r.do, p, c)
<1>1. r.do \in {"skip", "method", "uri", "oldVersion", "version", "major", "minor", "fold", "header",
                "name", "value", "line", "headers", "post", "size", "sizeDone", "data", "complete"}
  <2> DEFINE Known(x) ==
        x.do \in {"skip", "method", "uri", "oldVersion", "version", "major", "minor", "fold", "header",
                  "name", "value", "line", "headers", "post", "size", "sizeDone", "data", "complete"}
  <2>1. \A x \in RequestLine : Known(x)
    BY DEF RequestLine, Rule
  <2>2. \A x \in RequestVersion : Known(x)
    BY DEF RequestVersion, Rule
  <2>3. \A x \in HeaderLines : Known(x)
    BY DEF HeaderLines, Rule
  <2>4. \A x \in Body : Known(x)
    BY DEF Body, Rule
  <2>5. \A x \in Chunks : Known(x)
    BY DEF Chunks, Rule
  <2> QED BY <2>1, <2>2, <2>3, <2>4, <2>5 DEF RequestRules
<1>2. /\ \A x : Sound([p EXCEPT !.m = x])
      /\ \A y : Sound(With(p, y))
      /\ \A x : InStates(x) => Sound([p EXCEPT !.o = x])
      /\ InStates(p.o)
  <2>1. ASSUME NEW x PROVE Sound([p EXCEPT !.m = x]) /\ Sound([p EXCEPT !.result = x])
                           /\ (InStates(x) => Sound([p EXCEPT !.o = x]))
    BY SoundWrites
  <2>2. InStates(p.o)
    BY DEF Sound
  <2> QED BY <2>1, <2>2 DEF With
<1>3. CASE r.do \in {"skip", "complete"}
  <2>1. q = p \/ q = With(p, "ParsingCompleted")
    BY <1>3 DEF Do
  <2> QED BY <1>2, <2>1
<1>4. CASE r.do \in {"method", "uri"}
  BY <1>4, <1>2 DEF Do
<1>5. CASE r.do \in {"major", "minor"}
  BY <1>5, <1>2 DEF Do
<1>6. CASE r.do \in {"version", "oldVersion"}
  <2>1. PICK n : q \in {[p EXCEPT !.m.major = 0, !.m.minor = n],
                        With([p EXCEPT !.m.major = 0, !.m.minor = n], "ParsingCompleted")}
    BY <1>6 DEF Do
  <2>2. [p EXCEPT !.m.major = 0, !.m.minor = n] = [p EXCEPT !.m = [p.m EXCEPT !.major = 0, !.minor = n]]
    BY DEF Sound
  <2>3. PICK x : x = [p EXCEPT !.m.major = 0, !.m.minor = n]
    OBVIOUS
  <2>4. Sound(x)
    BY <1>2, <2>2, <2>3
  <2>5. Sound(With(x, "ParsingCompleted"))
    BY <2>4, SoundWrites DEF With
  <2> QED BY <2>1, <2>3, <2>4, <2>5
<1>7. CASE r.do \in {"fold", "header"}
  BY <1>7, <1>2 DEF Do
<1>8. CASE r.do \in {"name", "value"}
  <2>1. q = ToHeader(p, r.do, c)
    BY <1>8 DEF Do
  <2> DEFINE n == Len(p.m.headers)
  <2>2. q = With(p, "Trap") \/ q = [p EXCEPT !.m.headers[n][r.do] = Append(@, c)]
    BY <2>1 DEF ToHeader
  <2> HIDE DEF n
  <2>3. [p EXCEPT !.m.headers[n][r.do] = Append(@, c)]
          = [p EXCEPT !.m = [p.m EXCEPT !.headers[n][r.do] = Append(@, c)]]
    OBVIOUS
  <2> QED BY <1>2, <2>2, <2>3
<1>9. CASE r.do = "line"
  <2>1. q = HeaderDone(p)
    BY <1>9 DEF Do
  <2>2. \/ q = p \/ q = With(p, "Trap")
        \/ \E x : q = [p EXCEPT !.o.contentSize = x]
        \/ q = [p EXCEPT !.o.chunked = TRUE]
    BY <2>1 DEF HeaderDone
  <2>3. ASSUME NEW x PROVE [p EXCEPT !.o.contentSize = x] = [p EXCEPT !.o = [p.o EXCEPT !.contentSize = x]]
    OBVIOUS
  <2>4. [p EXCEPT !.o.chunked = TRUE] = [p EXCEPT !.o = [p.o EXCEPT !.chunked = TRUE]]
    OBVIOUS
  <2>5. (\A x : InStates([p.o EXCEPT !.contentSize = x])) /\ InStates([p.o EXCEPT !.chunked = TRUE])
    BY <1>2, SoundObjects
  <2> QED BY <1>2, <2>2, <2>3, <2>4, <2>5
<1>10. CASE r.do = "headers"
  <2>1. q = HeadersDone(p, c)
    BY <1>10 DEF Do
  <2>2. PICK k : k = KeepsAlive(p.m)
    OBVIOUS
  <2>3. PICK x : x = [p EXCEPT !.m.keepAlive = k]
    OBVIOUS
  <2>4. q = Goto(x, "ChunkSize") \/ q = Goto(x, "Post") \/ \E y : q = With(x, y)
    BY <2>1, <2>2, <2>3 DEF HeadersDone
  <2>5. x = [p EXCEPT !.m = [p.m EXCEPT !.keepAlive = k]]
    BY <2>3
  <2>6. Sound(x)
    BY <1>2, <2>5
  <2>7. ASSUME NEW st \in States PROVE Sound(Goto(x, st))
    <3>1. Goto(x, st) = [x EXCEPT !.o = [x.o EXCEPT !.state = st]]
      BY DEF Goto
    <3>2. InStates([x.o EXCEPT !.state = st])
      BY <2>6, SoundObjects DEF Sound
    <3>3. PICK y : y = [x.o EXCEPT !.state = st]
      OBVIOUS
    <3>4. Sound([x EXCEPT !.o = y])
      BY <2>6, <3>2, <3>3, SoundWrites
    <3> QED BY <3>1, <3>3, <3>4
  <2>8. \A y : Sound(With(x, y))
    BY <2>6, SoundWrites DEF With
  <2> QED BY <2>4, <2>7, <2>8, NamedStates
<1>11. CASE r.do = "post"
  <2>1. q = Posted(p, c)
    BY <1>11 DEF Do
  <2>2. PICK x : x = [p EXCEPT !.o.contentSize = @ - 1, !.m.content = Append(@, c)]
    OBVIOUS
  <2>3. q = x \/ q = With(x, "ParsingCompleted")
    BY <2>1, <2>2, Zenon DEF Posted
  <2>4. x = [[p EXCEPT !.o = [p.o EXCEPT !.contentSize = @ - 1]] EXCEPT !.m = [p.m EXCEPT !.content = Append(@, c)]]
    BY <2>2 DEF Sound
  <2>5. PICK y : y = [p.o EXCEPT !.contentSize = @ - 1]
    OBVIOUS
  <2>6. InStates(y)
    BY <1>2, <2>5, SoundObjects
  <2>7. Sound(x)
    <3>1. PICK z : z = [p EXCEPT !.o = y]
      OBVIOUS
    <3>2. Sound(z)
      BY <1>2, <2>6, <3>1
    <3>3. \A v : Sound([z EXCEPT !.m = v])
      BY <3>2, SoundWrites
    <3> QED BY <2>4, <2>5, <3>1, <3>3
  <2>8. Sound(With(x, "ParsingCompleted"))
    BY <2>7, SoundWrites DEF With
  <2> QED BY <2>3, <2>7, <2>8
<1>12. CASE r.do = "size"
  BY <1>12, <1>2, SoundObjects DEF Do
<1>13. CASE r.do = "sizeDone"
  <2>1. q = SizeDone(p)
    BY <1>13 DEF Do
  <2>2. \E n : q = [p EXCEPT !.o.chunkSize = n, !.o.chunkSizeStr = <<>>,
                             !.o.state = IF n = 0 THEN "ChunkSizeNewLine_2" ELSE "ChunkData"]
    BY <2>1 DEF SizeDone
  <2>3. PICK n, st : /\ q = [p EXCEPT !.o.chunkSize = n, !.o.chunkSizeStr = <<>>, !.o.state = st]
                     /\ st \in {"ChunkSizeNewLine_2", "ChunkData"}
    BY <2>2
  <2>4. q = [p EXCEPT !.o = [[[p.o EXCEPT !.chunkSize = n] EXCEPT !.chunkSizeStr = <<>>] EXCEPT !.state = st]]
    BY <2>3 DEF Sound, InStates
  <2>5. st \in States
    BY <2>3, NamedStates
  <2>6. InStates([p.o EXCEPT !.chunkSize = n])
    BY <1>2, SoundObjects
  <2>7. InStates([[p.o EXCEPT !.chunkSize = n] EXCEPT !.chunkSizeStr = <<>>])
    BY <2>6, SoundObjects
  <2>8. InStates([[[p.o EXCEPT !.chunkSize = n] EXCEPT !.chunkSizeStr = <<>>] EXCEPT !.state = st])
    BY <2>5, <2>7, SoundObjects
  <2> QED BY <1>2, <2>4, <2>8
<1>14. CASE r.do = "data"
  <2>1. q = Data(p, c)
    BY <1>14 DEF Do
  <2>2. PICK st : /\ st \in {"ChunkDataNewLine_1", p.o.state}
                  /\ q = [p EXCEPT !.m.content = Append(@, c), !.o.chunkSize = @ - 1, !.o.state = st]
    BY <2>1 DEF Data, Sound, InStates
  <2>3. q = [[p EXCEPT !.m = [p.m EXCEPT !.content = Append(@, c)]]
               EXCEPT !.o = [[p.o EXCEPT !.chunkSize = @ - 1] EXCEPT !.state = st]]
    BY <2>2 DEF Sound, InStates
  <2>4. st \in States
    BY <2>2, NamedStates DEF Sound, InStates
  <2>5. InStates([p.o EXCEPT !.chunkSize = @ - 1])
    BY <1>2, SoundObjects
  <2>6. InStates([[p.o EXCEPT !.chunkSize = @ - 1] EXCEPT !.state = st])
    BY <2>4, <2>5, SoundObjects
  <2>7. PICK x : x = [p EXCEPT !.m = [p.m EXCEPT !.content = Append(@, c)]]
    OBVIOUS
  <2>8. Sound(x)
    BY <1>2, <2>7
  <2>9. PICK y : y = [[p.o EXCEPT !.chunkSize = @ - 1] EXCEPT !.state = st]
    OBVIOUS
  <2>10. InStates(y) /\ q = [x EXCEPT !.o = y]
    BY <2>3, <2>6, <2>7, <2>9
  <2>11. Sound([x EXCEPT !.o = y])
    BY <2>8, <2>10, SoundWrites
  <2> QED BY <2>10, <2>11
<1> QED BY <1>1, <1>3, <1>4, <1>5, <1>6, <1>7, <1>8, <1>9, <1>10, <1>11, <1>12, <1>13, <1>14

(* Every character leaves the object in a state with rules ... *)
LEMMA ConsumeSound ==
  ASSUME NEW p, Sound(p), NEW c, NEW q \in Consume(RequestTable, p, c)
  PROVE  Sound(q)
<1>1. CASE p.result = "ParsingCompleted"
  <2>1. q = [p EXCEPT !.remainSize = @ + 1]
    BY <1>1 DEF Consume
  <2> QED BY <2>1, SoundWrites
<1>2. CASE p.result = "ParsingIncompleted"
  <2>1. CASE q = With(p, "ParsingError")
    BY <2>1, SoundWrites DEF With
  <2>2. ASSUME NEW r \in RequestRules, q = Do(r.do, Goto(p, r.next), c)
        PROVE  Sound(q)
    <3>1. InStates([p.o EXCEPT !.state = r.next])
      BY NextStates, SoundObjects DEF Sound
    <3>2. Goto(p, r.next) = [p EXCEPT !.o = [p.o EXCEPT !.state = r.next]]
      BY DEF Goto
    <3>3. Sound(Goto(p, r.next))
      <4>1. PICK x : x = [p.o EXCEPT !.state = r.next]
        OBVIOUS
      <4>2. Sound([p EXCEPT !.o = x])
        BY <3>1, <4>1, SoundWrites
      <4> QED BY <3>2, <4>1, <4>2
    <3> QED BY <2>2, <3>3, DoSound
  <2>3. p.o.state \in States
    BY DEF Sound, InStates
  <2> QED BY <1>2, <2>1, <2>2, <2>3, Consumes
<1>3. CASE p.result \notin {"ParsingCompleted", "ParsingIncompleted"}
  <2>1. q = p
    BY <1>3 DEF Consume
  <2> QED BY <2>1
<1> QED BY <1>1, <1>2, <1>3

(* ... and so does every text. *)
LEMMA ParseInStates ==
  ASSUME NEW o, InStates(o), NEW text, Len(text) \in Nat, NEW p \in ParseRequest(o, text)
  PROVE  InStates(p.o)
<1> DEFINE N == Len(text)
<1>0. PICK g : Passes(g, RequestTable, o, NewRequest, text)
  BY ParseSteps
<1>1. /\ g[0] = {Start(o, NewRequest)} /\ Parse(RequestTable, o, NewRequest, text) = g[N]
      /\ \A i \in 1 .. N : g[i] = UNION {Consume(RequestTable, q, text[i]) : q \in g[i - 1]}
  BY <1>0 DEF Passes
<1> DEFINE B == {i \in 0 .. N : ~ \A q \in g[i] : Sound(q)}
<1>2. B = {}
  <2> SUFFICES ASSUME B # {} PROVE FALSE
    OBVIOUS
  <2>1. PICK k \in B : \A j \in B : k <= j
    <3>1. B \subseteq Nat
      OBVIOUS
    <3> HIDE DEF B
    <3> QED BY <3>1, Least
  <2>2. k \in 0 .. N
    OBVIOUS
  <2>3. PICK q \in g[k] : ~Sound(q)
    OBVIOUS
  <2>4. CASE k = 0
    <3>1. q = Start(o, NewRequest)
      BY <1>1, <2>3, <2>4
    <3> QED BY <2>3, <3>1 DEF Start, Sound
  <2>5. CASE k # 0
    <3>1. k \in 1 .. N /\ k - 1 \in 0 .. N /\ ~ (k <= k - 1)
      BY <2>2, <2>5
    <3>2. PICK r \in g[k - 1] : q \in Consume(RequestTable, r, text[k])
      BY <1>1, <2>3, <3>1
    <3>3. Sound(r)
      BY <2>1, <3>1, <3>2
    <3> QED BY <2>3, <3>2, <3>3, ConsumeSound
  <2> QED BY <2>4, <2>5
<1>3. p \in g[N]
  BY <1>1 DEF ParseRequest
<1>4. N \in 0 .. N
  OBVIOUS
<1> HIDE DEF N
<1>5. Sound(p)
  BY <1>2, <1>3, <1>4
<1> QED BY <1>5 DEF Sound

----------------------------------------
(* What follows a message *)

(* A parser that has completed q and been given k characters more ... *)
Trailing(q, k) == [o |-> q.o, m |-> q.m, result |-> "ParsingCompleted", remainSize |-> k]

(* ... counts them. *)
LEMMA ReachesTrailing ==
  ASSUME NEW table, NEW q, NEW t \in Strings
  PROVE  Reaches(table, Trailing(q, 0), t, Trailing(q, Len(t)))
<1> DEFINE N == Len(t)
           f == [i \in 0 .. N |-> Trailing(q, i)]
<1>1. N \in Nat
  BY LenProperties
<1>2. f[0] = Trailing(q, 0) /\ f[N] = Trailing(q, N)
  BY <1>1
<1>3. ASSUME NEW i \in 1 .. N PROVE Consume(table, f[i - 1], t[i]) = {f[i]}
  <2>1. f[i - 1] = Trailing(q, i - 1) /\ f[i] = Trailing(q, i)
    BY <1>1
  <2>2. PICK p, c : p = Trailing(q, i - 1) /\ c = t[i]
    OBVIOUS
  <2>3. p.result = "ParsingCompleted" /\ p.remainSize = i - 1
    BY <2>2 DEF Trailing
  <2>4. PICK x : x = [p EXCEPT !.remainSize = @ + 1]
    OBVIOUS
  <2>5. Consume(table, p, c) = {x}
    BY <2>3, <2>4 DEF Consume
  <2>6. x = Trailing(q, (i - 1) + 1)
    BY <2>2, <2>3, <2>4 DEF Trailing
  <2>7. (i - 1) + 1 = i
    BY <1>1
  <2> HIDE DEF f
  <2> QED BY <2>1, <2>2, <2>5, <2>6, <2>7
<1> HIDE DEF f
<1> QED BY <1>2, <1>3 DEF Reaches

(* A text up to n is its text up to e and then that from e on. *)
LEMMA Splits ==
  ASSUME NEW S, NEW s \in Seq(S), NEW n \in 0 .. Len(s), NEW e \in 0 .. n
  PROVE  /\ SubSeq(s, 1, n) = SubSeq(s, 1, e) \o SubSeq(s, e + 1, n)
         /\ SubSeq(s, 1, e) \in Seq(S) /\ SubSeq(s, e + 1, n) \in Seq(S) /\ SubSeq(s, 1, n) \in Seq(S)
         /\ Len(SubSeq(s, 1, e)) = e /\ Len(SubSeq(s, e + 1, n)) = n - e
<1>1. Len(s) \in Nat /\ \A i \in 1 .. Len(s) : s[i] \in S
  BY LenProperties, ElementOfSeq
<1>2. PICK a, b, w : a = SubSeq(s, 1, e) /\ b = SubSeq(s, e + 1, n) /\ w = SubSeq(s, 1, n)
  OBVIOUS
<1>3. a \in Seq(S) /\ Len(a) = e /\ \A i \in 1 .. e : a[i] = s[i]
  <2>1. \A i \in 1 .. e : s[i] \in S
    BY <1>1
  <2> QED BY <1>1, <1>2, <2>1, SubSeqProperties
<1>4. b \in Seq(S) /\ Len(b) = n - e /\ \A i \in 1 .. n - e : b[i] = s[e + i]
  <2>1. CASE e = n
    BY <1>1, <1>2, <2>1, SubSeqEmpty, EmptySeq
  <2>2. CASE e # n
    <3>1. PICK lo : lo = e + 1
      OBVIOUS
    <3>2. lo \in Int /\ n \in Int /\ lo <= n /\ \A i \in lo .. n : s[i] \in S
      BY <1>1, <2>2, <3>1
    <3>3. /\ b \in Seq(S) /\ Len(b) = n - lo + 1
          /\ \A i \in 1 .. n - lo + 1 : b[i] = s[lo + i - 1]
      BY <1>2, <3>1, <3>2, SubSeqProperties
    <3>4. n - lo + 1 = n - e /\ \A i \in 1 .. n - e : lo + i - 1 = e + i
      BY <1>1, <3>1
    <3> QED BY <3>3, <3>4
  <2> QED BY <2>1, <2>2
<1>5. w \in Seq(S) /\ Len(w) = n /\ \A i \in 1 .. n : w[i] = s[i]
  <2>1. \A i \in 1 .. n : s[i] \in S
    BY <1>1
  <2> QED BY <1>1, <1>2, <2>1, SubSeqProperties
<1>6. a \o b \in Seq(S) /\ Len(a \o b) = n
      /\ \A i \in 1 .. n : (a \o b)[i] = IF i <= e THEN a[i] ELSE b[i - e]
  <2>1. /\ a \o b \in Seq(S) /\ Len(a \o b) = Len(a) + Len(b)
        /\ \A i \in 1 .. Len(a) + Len(b) : (a \o b)[i] = IF i <= Len(a) THEN a[i] ELSE b[i - Len(a)]
    BY <1>3, <1>4, ConcatProperties
  <2>2. e + (n - e) = n
    BY <1>1
  <2> QED BY <1>3, <1>4, <2>1, <2>2
<1>7. ASSUME NEW i \in 1 .. n PROVE (a \o b)[i] = w[i]
  <2>1. CASE i <= e
    <3>1. i \in 1 .. e
      BY <2>1
    <3> QED BY <1>3, <1>5, <1>6, <2>1, <3>1
  <2>2. CASE ~ (i <= e)
    <3>1. i - e \in 1 .. n - e /\ e + (i - e) = i
      BY <1>1, <2>2
    <3>2. b[i - e] = s[i]
      BY <1>4, <3>1
    <3> QED BY <1>5, <1>6, <2>2, <3>2
  <2> QED BY <2>1, <2>2
<1>8. a \o b = w
  <2>1. PICK ab : ab = a \o b
    OBVIOUS
  <2>2. ab \in Seq(S) /\ Len(ab) = Len(w) /\ \A i \in 1 .. Len(ab) : ab[i] = w[i]
    BY <1>5, <1>6, <1>7, <2>1
  <2>3. ab = w
    BY <1>5, <2>2, SeqEqual
  <2> QED BY <2>1, <2>3
<1> QED BY <1>2, <1>3, <1>4, <1>5, <1>8

(* Only a token begins a request. *)
LEMMA FirstRules == \A r \in RequestRules : r.state = "RequestMethodStart" => r.on = Token
<1>1. \A r \in RequestLine : r.state = "RequestMethodStart" => r.on = Token
  BY DEF RequestLine, Rule
<1>2. "RequestMethodStart" \notin VersionStates /\ "RequestMethodStart" \notin HeaderStates
      /\ "RequestMethodStart" \notin BodyStates /\ "RequestMethodStart" \notin ChunkStates
  BY DEF VersionStates, HeaderStates, BodyStates, ChunkStates
<1> QED BY <1>1, <1>2, PartsApart DEF RequestRules

(* A text that a new parser reads to the end of a message has a first
   character, which is neither a line feed nor a null character. *)
LEMMA BeginsWithToken ==
  ASSUME NEW o, NEW m, NEW text \in Strings, NEW q, q.result = "ParsingCompleted",
         Reaches(RequestTable, Config("RequestMethodStart", o, m), text, q)
  PROVE  Len(text) \in Nat \ {0} /\ text[1] \notin {LF, NUL}
<1>1. PICK p : p = Config("RequestMethodStart", o, m)
  OBVIOUS
<1>2. p.result = "ParsingIncompleted" /\ p.o.state = "RequestMethodStart" /\ p.o.state \in States
  <2>1. p.result = "ParsingIncompleted" /\ p.o.state = "RequestMethodStart"
    BY <1>1 DEF Config, Start, Object
  <2> QED BY <2>1, NamedStates
<1> DEFINE N == Len(text)
<1>3. PICK f : /\ f[0] = p /\ f[N] = q
               /\ \A i \in 1 .. N : Consume(RequestTable, f[i - 1], text[i]) = {f[i]}
  BY <1>1 DEF Reaches
<1>4. N \in Nat
  BY LenProperties
<1>5. N # 0
  BY <1>2, <1>3
<1>6. ASSUME text[1] \in {LF, NUL} PROVE FALSE
  <2>1. PICK c : c = text[1]
    OBVIOUS
  <2>2. Class(c) \notin Token
    BY <1>6, <2>1, ClassOf DEF Control, AnyClass, Token
  <2>3. 1 \in 1 .. N /\ 1 - 1 = 0
    BY <1>4, <1>5
  <2>4. f[1] \in Consume(RequestTable, p, c)
    BY <1>3, <2>1, <2>3
  <2>5. f[1] = With(p, "ParsingError")
    <3>1. PICK x : x = f[1]
      OBVIOUS
    <3>2. \/ x = With(p, "ParsingError")
          \/ \E r \in RequestRules : r.state = p.o.state /\ Class(c) \in r.on /\ x = Do(r.do, Goto(p, r.next), c)
      BY <1>2, <2>4, <3>1, Consumes
    <3>3. \A r \in RequestRules : r.state = p.o.state => Class(c) \notin r.on
      BY <1>2, <2>2, FirstRules
    <3> QED BY <3>1, <3>2, <3>3
  <2>6. f[1].result = "ParsingError"
    BY <1>1, <2>5 DEF With, Config, Start
  <2> DEFINE B == {i \in 1 .. N : f[i].result # "ParsingError"}
  <2>7. B = {}
    <3> SUFFICES ASSUME B # {} PROVE FALSE
      OBVIOUS
    <3>1. PICK k \in B : \A j \in B : k <= j
      <4>1. B \subseteq Nat
        OBVIOUS
      <4> HIDE DEF B
      <4> QED BY <4>1, Least
    <3>2. k \in 1 .. N /\ f[k].result # "ParsingError"
      OBVIOUS
    <3>3. k - 1 \in 1 .. N /\ ~ (k <= k - 1)
      BY <1>4, <2>6, <3>2
    <3>4. f[k - 1].result = "ParsingError"
      BY <3>1, <3>3
    <3>5. PICK x, y : x = f[k - 1] /\ y = f[k]
      OBVIOUS
    <3>6. Consume(RequestTable, x, text[k]) = {y}
      BY <1>3, <3>2, <3>5
    <3>7. Consume(RequestTable, x, text[k]) = {x}
      BY <3>4, <3>5 DEF Consume
    <3> QED BY <3>2, <3>4, <3>5, <3>6, <3>7
  <2>8. N \in 1 .. N
    BY <1>4, <1>5
  <2> QED BY <1>3, <2>7, <2>8
<1> QED BY <1>4, <1>5, <1>6

----------------------------------------
(* Streams of requests *)

(* A stream begins with f[k], where its first k requests end. *)
Streamed(f, s) ==
  /\ Len(s) \in Nat \ {0}
  /\ f \in [1 .. Len(s) -> Strings] /\ f[1] = RequestText(s[1])
  /\ \A i \in 2 .. Len(s) : f[i] = f[i - 1] \o RequestText(s[i])
  /\ \A i \in 1 .. Len(s) : RequestText(s[i]) \in Strings
  /\ StreamText[s] = f[Len(s)] /\ StreamEnds[s][0] = 0
  /\ \A k \in 1 .. Len(s) : StreamEnds[s][k] = Len(f[k])

(* What is known of a request's text. *)
LEMMA RequestTexts ==
  ASSUME NEW d, RequestForm(d)
  PROVE  RequestText(d) \in Strings /\ Len(RequestText(d)) \in Nat \ {0} /\ RequestText(d)[1] \notin {LF, NUL}
<1>1. PICK o, s0, m : s0 = "RequestMethodStart" /\ o = NewParser(s0) /\ m = NewRequest
  OBVIOUS
<1>2. Unused(o)
  BY <1>1, NewConfig
<1>3. PICK st, n :
        /\ Reaches(RequestTable, Config("RequestMethodStart", o, NewRequest), RequestText(d), Done(st, n, ReadRequest(d)))
        /\ RequestText(d) \in Strings /\ Finished(st, n)
  BY <1>2, RequestReaches
<1>4. PICK q, text : q = Done(st, n, ReadRequest(d)) /\ text = RequestText(d)
  OBVIOUS
<1>5. q.result = "ParsingCompleted"
  BY <1>4, DoneFields
<1>6. Reaches(RequestTable, Config("RequestMethodStart", o, m), text, q) /\ text \in Strings
  BY <1>1, <1>3, <1>4
<1>7. Len(text) \in Nat \ {0} /\ text[1] \notin {LF, NUL}
  BY <1>5, <1>6, BeginsWithToken
<1> QED BY <1>4, <1>6, <1>7

(* Flattening the first of several texts gives what flattening all of them
   begins with. *)
LEMMA JoinsAgree ==
  ASSUME NEW s, NEW t, NEW f, NEW g, Joins(f, s), Joins(g, t), Len(s) \in Nat, Len(t) \in 1 .. Len(s),
         \A i \in 1 .. Len(t) : t[i] = s[i]
  PROVE  \A i \in 1 .. Len(t) : g[i] = f[i]
<1> DEFINE N == Len(t)
           B == {i \in 1 .. N : g[i] # f[i]}
<1>1. /\ f[1] = s[1] /\ g[1] = t[1] /\ N \in Nat \ {0}
      /\ \A i \in 2 .. N : f[i] = f[i - 1] \o s[i] /\ g[i] = g[i - 1] \o t[i]
  <2>1. /\ f[1] = s[1] /\ g[1] = t[1]
        /\ \A i \in 2 .. Len(s) : f[i] = f[i - 1] \o s[i]
        /\ \A i \in 2 .. N : g[i] = g[i - 1] \o t[i]
    BY Zenon DEF Joins
  <2>2. N \in Nat \ {0} /\ \A i \in 2 .. N : i \in 2 .. Len(s)
    OBVIOUS
  <2> HIDE DEF N
  <2> QED BY <2>1, <2>2
<1>2. B = {}
  <2> SUFFICES ASSUME B # {} PROVE FALSE
    OBVIOUS
  <2>1. PICK k \in B : \A j \in B : k <= j
    <3>1. B \subseteq Nat
      OBVIOUS
    <3> HIDE DEF B
    <3> QED BY <3>1, Least
  <2>2. k \in 1 .. N /\ g[k] # f[k]
    OBVIOUS
  <2>3. k # 1
    BY <1>1, <2>2
  <2>4. k - 1 \in 1 .. N /\ ~ (k <= k - 1) /\ k \in 2 .. N
    BY <1>1, <2>2, <2>3
  <2>5. g[k - 1] = f[k - 1]
    BY <2>1, <2>4
  <2>6. f[k] = f[k - 1] \o s[k] /\ g[k] = g[k - 1] \o t[k] /\ t[k] = s[k]
    BY <1>1, <2>2, <2>4
  <2> QED BY <2>2, <2>5, <2>6
<1> QED BY <1>2

(* Every stream has such a function. *)
LEMMA StreamJoins ==
  ASSUME NEW s \in Streams
  PROVE  \E f : Streamed(f, s)
<1>1. Len(s) \in Nat \ {0} /\ \A i \in 1 .. Len(s) : RequestForm(s[i])
  BY StreamsAssumption
<1>2. PICK N : N = Len(s)
  OBVIOUS
<1> DEFINE TextsTo(k) == [i \in 1 .. k |-> RequestText(s[i])]
<1>3. \A i \in 1 .. N : RequestText(s[i]) \in Strings
  BY <1>1, <1>2, RequestTexts
<1>4. ASSUME NEW k \in 1 .. N
      PROVE  /\ TextsTo(k) \in Seq(Strings) /\ Len(TextsTo(k)) = k
             /\ TextsTo(k) # <<>> /\ \A i \in 1 .. k : TextsTo(k)[i] = RequestText(s[i])
  <2>1. k \in Nat \ {0} /\ \A i \in 1 .. k : RequestText(s[i]) \in Strings
    BY <1>1, <1>2, <1>3
  <2>2. TextsTo(k) \in [1 .. k -> Strings] /\ \A i \in 1 .. k : TextsTo(k)[i] = RequestText(s[i])
    BY <2>1
  <2>3. PICK t : t = TextsTo(k)
    OBVIOUS
  <2>4. t \in Seq(Strings) /\ Len(t) = k
    <3> HIDE DEF TextsTo
    <3> QED BY <2>1, <2>2, <2>3, SeqDef
  <2>5. t # <<>>
    BY <2>1, <2>4
  <2> HIDE DEF TextsTo
  <2> QED BY <2>2, <2>3, <2>4, <2>5
<1>5. ASSUME NEW k \in 1 .. N PROVE \E g : Joins(g, TextsTo(k)) /\ FlattenSeq(TextsTo(k)) = g[k]
  <2>1. TextsTo(k) \in Seq(Strings) /\ Len(TextsTo(k)) = k /\ TextsTo(k) # <<>>
    BY <1>4
  <2> HIDE DEF TextsTo
  <2> QED BY <2>1, Flattens
<1>6. N \in 1 .. N
  BY <1>1, <1>2
<1>7. PICK f : Joins(f, TextsTo(N)) /\ FlattenSeq(TextsTo(N)) = f[N]
  BY <1>5, <1>6
<1>8. ASSUME NEW k \in 1 .. N PROVE FlattenSeq(TextsTo(k)) = f[k]
  <2>1. PICK g : Joins(g, TextsTo(k)) /\ FlattenSeq(TextsTo(k)) = g[k]
    BY <1>5
  <2>2. PICK t, u : t = TextsTo(k) /\ u = TextsTo(N)
    OBVIOUS
  <2>3. /\ Len(t) = k /\ \A i \in 1 .. k : t[i] = RequestText(s[i])
        /\ Len(u) = N /\ \A i \in 1 .. N : u[i] = RequestText(s[i])
    <3> HIDE DEF TextsTo
    <3> QED BY <1>4, <1>6, <2>2
  <2>4. Len(u) \in Nat /\ Len(t) \in 1 .. Len(u) /\ \A i \in 1 .. Len(t) : t[i] = u[i]
    BY <1>1, <1>2, <2>3
  <2>5. Joins(g, t) /\ Joins(f, u)
    <3> HIDE DEF TextsTo
    <3> QED BY <1>7, <2>1, <2>2
  <2>6. \A i \in 1 .. Len(t) : g[i] = f[i]
    BY <2>4, <2>5, JoinsAgree
  <2>7. g[k] = f[k]
    BY <2>3, <2>6
  <2> HIDE DEF TextsTo
  <2> QED BY <2>1, <2>7
<1>9. /\ StreamText[s] = FlattenSeq(TextsTo(N))
      /\ \A k \in 0 .. N : StreamEnds[s][k] = Len(FlattenSeq(TextsTo(k)))
  BY <1>2 DEF StreamText, StreamEnds
<1>10. StreamEnds[s][0] = 0
  <2>1. TextsTo(0) = <<>>
    OBVIOUS
  <2>2. FlattenSeq(<<>>) = <<>> /\ Len(<<>>) = 0
    BY DEF FlattenSeq
  <2>3. 0 \in 0 .. N
    BY <1>1, <1>2
  <2> HIDE DEF TextsTo
  <2> QED BY <1>9, <2>1, <2>2, <2>3
<1>11. \A k \in 1 .. N : StreamEnds[s][k] = Len(f[k])
  <2>1. \A k \in 1 .. N : k \in 0 .. N
    BY <1>1, <1>2
  <2> HIDE DEF TextsTo
  <2> QED BY <1>8, <1>9, <2>1
<1>12. /\ f \in [1 .. N -> Strings] /\ f[1] = RequestText(s[1])
       /\ \A i \in 2 .. N : f[i] = f[i - 1] \o RequestText(s[i])
  <2>1. PICK u : u = TextsTo(N)
    OBVIOUS
  <2>2. Len(u) = N /\ \A i \in 1 .. N : u[i] = RequestText(s[i])
    <3> HIDE DEF TextsTo
    <3> QED BY <1>4, <1>6, <2>1
  <2>3. Joins(f, u)
    BY <1>7, <2>1
  <2>4. 1 \in 1 .. N /\ \A i \in 2 .. N : i \in 1 .. N
    BY <1>1, <1>2
  <2> QED BY <2>2, <2>3, <2>4 DEF Joins
<1> HIDE DEF TextsTo
<1>13. StreamText[s] = f[N]
  BY <1>7, <1>9
<1> QED BY <1>1, <1>2, <1>3, <1>10, <1>11, <1>12, <1>13 DEF Streamed

(* Requests end one after the other. *)
LEMMA StreamGrows ==
  ASSUME NEW s, NEW f, Streamed(f, s), NEW j \in 1 .. Len(s), NEW k \in j .. Len(s)
  PROVE  /\ Len(f[j]) \in Nat /\ Len(f[k]) \in Nat /\ Len(f[j]) <= Len(f[k])
         /\ \A i \in 1 .. Len(f[j]) : f[k][i] = f[j][i]
<1> DEFINE N == Len(s)
           Fits(i) == Len(f[j]) <= Len(f[i]) /\ \A x \in 1 .. Len(f[j]) : f[i][x] = f[j][x]
           B == {i \in j .. N : ~ Fits(i)}
<1>1. /\ N \in Nat \ {0} /\ f \in [1 .. N -> Strings]
      /\ \A i \in 2 .. N : f[i] = f[i - 1] \o RequestText(s[i])
      /\ \A i \in 1 .. N : RequestText(s[i]) \in Strings
  BY DEF Streamed
<1>2. \A i \in 1 .. N : f[i] \in Strings /\ Len(f[i]) \in Nat
  BY <1>1, LenProperties
<1>3. B = {}
  <2> SUFFICES ASSUME B # {} PROVE FALSE
    OBVIOUS
  <2>1. PICK m \in B : \A i \in B : m <= i
    <3>1. B \subseteq Nat
      BY <1>1
    <3> HIDE DEF B
    <3> QED BY <3>1, Least
  <2>2. m \in j .. N /\ ~ Fits(m)
    OBVIOUS
  <2>3. m # j
    BY <1>1, <1>2, <2>2
  <2>4. m - 1 \in j .. N /\ ~ (m <= m - 1) /\ m \in 2 .. N /\ m \in 1 .. N /\ m - 1 \in 1 .. N
    BY <1>1, <2>2, <2>3
  <2>5. Fits(m - 1)
    <3> HIDE DEF Fits
    <3> QED BY <2>1, <2>4
  <2>6. PICK a, b, c, n : a = f[m - 1] /\ b = RequestText(s[m]) /\ c = f[m] /\ n = Len(f[j])
    OBVIOUS
  <2>7. a \in Strings /\ b \in Strings /\ c = a \o b /\ Len(a) \in Nat /\ Len(b) \in Nat /\ n \in Nat
    BY <1>1, <1>2, <2>4, <2>6, LenProperties
  <2>8. Len(c) = Len(a) + Len(b) /\ \A x \in 1 .. Len(a) : c[x] = a[x]
    BY <2>7, ConcatProperties
  <2>9. n <= Len(a) /\ \A x \in 1 .. n : a[x] = f[j][x]
    BY <2>5, <2>6
  <2>10. n <= Len(c) /\ \A x \in 1 .. n : c[x] = f[j][x]
    BY <2>7, <2>8, <2>9
  <2> QED BY <2>2, <2>6, <2>10
<1>4. k \in 1 .. N /\ j \in 1 .. N
  BY <1>1
<1>5. Fits(k)
  <2> HIDE DEF Fits
  <2> QED BY <1>3
<1> QED BY <1>2, <1>4, <1>5

(* Of a stream, a new parser reads the first request as it was written,
   whatever follows it, and no line begins the second one. *)
Readable(s) ==
  LET text == StreamText[s]
      end == StreamEnds[s][1]
  IN  /\ Len(s) \in Nat \ {0} /\ text \in Strings
      /\ \A k \in 0 .. Len(s) : StreamEnds[s][k] \in 0 .. Len(text)
      /\ \A k \in 1 .. Len(s) : StreamEnds[s][k - 1] <= StreamEnds[s][k]
      /\ end > 0
      /\ end < Len(text) => text[end + 1] \notin {LF, NUL}
      /\ Params(s[1].uri) = s[1].target
      /\ \A n \in end .. Len(text) :
           \A p \in ParseRequest(NewParser("RequestMethodStart"), SubSeq(text, 1, n)) :
             /\ p.result = "ParsingCompleted" /\ p.remainSize = n - end /\ Ended(p.o)
             /\ p.m.method = s[1].method /\ p.m.uri = s[1].uri /\ p.m.content = s[1].content
             /\ p.m.keepAlive = StaysOpen(s[1])

(* What a parser that has finished has become, which has ended. *)
LEMMA FinishedEnds ==
  ASSUME NEW st, NEW n, Finished(st, n), NEW o,
         o = Object(st, n.contentSize, n.chunkSizeStr, n.chunkSize, n.chunked)
  PROVE  Ended(o)
<1>1. st \in States
  BY NamedStates DEF Finished
<1>2. o \in ParserObject /\ o.state = st /\ o.contentSize = n.contentSize /\ o.chunked = n.chunked
  BY <1>1 DEF Finished, Counters, ParserObject, Object
<1> QED BY <1>2 DEF Finished, Ended, Unending

(* The first request of a stream, with what follows it. *)
LEMMA FirstRead ==
  ASSUME NEW d, RequestForm(d), NEW t \in Strings, NEW p,
         p \in ParseRequest(NewParser("RequestMethodStart"), RequestText(d) \o t)
  PROVE  /\ p.result = "ParsingCompleted" /\ p.remainSize = Len(t) /\ Ended(p.o)
         /\ p.m.method = d.method /\ p.m.uri = d.uri /\ p.m.content = d.content
         /\ p.m.keepAlive = StaysOpen(d)
<1>1. PICK o, s0, m0, r : /\ s0 = "RequestMethodStart" /\ o = NewParser(s0) /\ m0 = NewRequest /\ r = ReadRequest(d)
  OBVIOUS
<1>2. Start(NewParser(s0), m0) = Config(s0, NewParser(s0), m0) /\ Unused(NewParser(s0))
  BY NewConfig
<1>3. PICK st, n :
        /\ Reaches(RequestTable, Config("RequestMethodStart", o, NewRequest), RequestText(d), Done(st, n, ReadRequest(d)))
        /\ RequestText(d) \in Strings /\ Finished(st, n)
  BY <1>1, <1>2, RequestReaches
<1>4. PICK q, text : q = Done(st, n, r) /\ text = RequestText(d)
  OBVIOUS
<1>5. Reaches(RequestTable, Start(o, m0), text, q) /\ text \in Strings
  BY <1>1, <1>2, <1>3, <1>4
<1>6. q.o = Object(st, n.contentSize, n.chunkSizeStr, n.chunkSize, n.chunked) /\ q.m = r
  BY <1>4, DoneFields
<1>7. q = Trailing(q, 0)
  BY <1>4 DEF Done, With, Config, Start, Trailing
<1>8. PICK z, w, k : z = Trailing(q, 0) /\ k = Len(t) /\ w = Trailing(q, k)
  OBVIOUS
<1>9. Reaches(RequestTable, z, t, w) /\ q = z
  BY <1>7, <1>8, ReachesTrailing
<1>10. Reaches(RequestTable, Start(o, m0), text \o t, w)
  BY <1>5, <1>9, ReachesThen
<1>11. text \o t \in Strings
  BY <1>5, ConcatProperties
<1>12. PICK all : all = text \o t
  OBVIOUS
<1>13. Parse(RequestTable, o, m0, all) = {w}
  <2>1. Reaches(RequestTable, Start(o, m0), all, w) /\ all \in Strings
    BY <1>10, <1>11, <1>12
  <2> QED BY <2>1, ParseReaches
<1>14. p = w
  <2>1. p \in Parse(RequestTable, o, m0, all)
    BY <1>1, <1>4, <1>12 DEF ParseRequest
  <2> QED BY <1>13, <2>1
<1>15. p.result = "ParsingCompleted" /\ p.remainSize = k /\ p.o = q.o /\ p.m = q.m
  BY <1>8, <1>14 DEF Trailing
<1>16. Ended(q.o)
  BY <1>3, <1>6, FinishedEnds
<1>17. r.method = d.method /\ r.uri = d.uri /\ r.content = d.content /\ r.keepAlive = StaysOpen(d)
  BY <1>1, ReadsAsWritten
<1> QED BY <1>6, <1>8, <1>15, <1>16, <1>17

(* Every stream of well-formed requests is so. *)
LEMMA StreamsAreReadable == \A s \in Streams : Readable(s)
<1> SUFFICES ASSUME NEW s \in Streams PROVE Readable(s)
  OBVIOUS
<1>1. PICK f : Streamed(f, s)
  BY StreamJoins
<1>2. PICK N, text, end, d : N = Len(s) /\ text = StreamText[s] /\ end = StreamEnds[s][1] /\ d = s[1]
  OBVIOUS
<1>3. /\ N \in Nat \ {0} /\ f \in [1 .. N -> Strings] /\ f[1] = RequestText(d)
      /\ \A i \in 2 .. N : f[i] = f[i - 1] \o RequestText(s[i])
      /\ text = f[N] /\ StreamEnds[s][0] = 0
      /\ \A k \in 1 .. N : StreamEnds[s][k] = Len(f[k])
  BY <1>1, <1>2 DEF Streamed
<1>4. 1 \in 1 .. N /\ N \in 1 .. N
  BY <1>3
<1>5. text \in Strings /\ Len(text) \in Nat /\ end = Len(f[1]) /\ f[1] \in Strings
  BY <1>2, <1>3, <1>4, LenProperties
<1>6. \A i \in 1 .. N : RequestForm(s[i])
  BY <1>2, StreamsAssumption
<1>7. ASSUME NEW j \in 1 .. N, NEW k \in j .. N
      PROVE  /\ Len(f[j]) \in Nat /\ Len(f[k]) \in Nat /\ Len(f[j]) <= Len(f[k])
             /\ \A i \in 1 .. Len(f[j]) : f[k][i] = f[j][i]
  BY <1>1, <1>2, <1>7, StreamGrows
<1>8. \A k \in 0 .. N : StreamEnds[s][k] \in 0 .. Len(text)
  <2> SUFFICES ASSUME NEW k \in 0 .. N PROVE StreamEnds[s][k] \in 0 .. Len(text)
    OBVIOUS
  <2>1. CASE k = 0
    BY <1>3, <1>5, <2>1
  <2>2. CASE k # 0
    BY <1>3, <2>2, <1>7, <1>5
  <2> QED BY <2>1, <2>2
<1>9. \A k \in 1 .. N : StreamEnds[s][k - 1] <= StreamEnds[s][k]
  <2> SUFFICES ASSUME NEW k \in 1 .. N PROVE StreamEnds[s][k - 1] <= StreamEnds[s][k]
    OBVIOUS
  <2>1. CASE k = 1
    BY <1>5, LenProperties, <1>3, <1>4, <2>1
  <2>2. CASE k # 1
    <3>1. PICK j : j = k - 1
      OBVIOUS
    <3>2. j \in 1 .. N /\ k \in j .. N
      BY <1>3, <2>2, <3>1
    <3>3. Len(f[j]) <= Len(f[k])
      BY <1>7, <3>2
    <3>4. StreamEnds[s][j] = Len(f[j]) /\ StreamEnds[s][k] = Len(f[k])
      BY <1>3, <3>2
    <3> QED BY <3>1, <3>3, <3>4
  <2> QED BY <2>1, <2>2
<1>10. end \in Nat \ {0}
  <2>1. Len(RequestText(d)) \in Nat \ {0}
    BY <1>2, <1>4, <1>6, RequestTexts
  <2> QED BY <1>3, <1>5, <2>1
<1>11. end < Len(text) => text[end + 1] \notin {LF, NUL}
  <2> SUFFICES ASSUME end < Len(text) PROVE text[end + 1] \notin {LF, NUL}
    OBVIOUS
  <2>1. N # 1
    BY <1>3, <1>5
  <2>2. 2 \in 1 .. N /\ 2 \in 2 .. N /\ N \in 2 .. N /\ 2 - 1 = 1
    BY <1>3, <2>1
  <2>3. PICK b : b = RequestText(s[2])
    OBVIOUS
  <2>4. b \in Strings /\ Len(b) \in Nat \ {0} /\ b[1] \notin {LF, NUL}
    <3>1. RequestForm(s[2])
      BY <1>6, <2>2
    <3> QED BY <2>3, <3>1, RequestTexts
  <2>5. f[2] = f[1] \o b
    BY <1>3, <2>2, <2>3
  <2>6. Len(f[2]) = end + Len(b) /\ f[2][end + 1] = b[1]
    <3>1. PICK a, c : a = f[1] /\ c = f[2]
      OBVIOUS
    <3>2. a \in Strings /\ Len(a) = end /\ c = a \o b
      BY <1>5, <2>5, <3>1
    <3>3. Len(c) = end + Len(b)
          /\ \A x \in 1 .. end + Len(b) : c[x] = IF x <= end THEN a[x] ELSE b[x - end]
      BY <2>4, <3>2, ConcatProperties
    <3>4. end + 1 \in 1 .. end + Len(b) /\ ~ (end + 1 <= end) /\ (end + 1) - end = 1
      BY <1>10, <2>4
    <3>5. c[end + 1] = b[(end + 1) - end]
      BY <3>3, <3>4
    <3> QED BY <3>1, <3>3, <3>4, <3>5
  <2>7. end + 1 \in 1 .. Len(f[2])
    BY <1>10, <2>4, <2>6
  <2>8. f[N][end + 1] = f[2][end + 1]
    BY <1>7, <2>2, <2>7
  <2> QED BY <1>3, <2>4, <2>6, <2>8
<1>12. ASSUME NEW n \in end .. Len(text),
              NEW p \in ParseRequest(NewParser("RequestMethodStart"), SubSeq(text, 1, n))
       PROVE  /\ p.result = "ParsingCompleted" /\ p.remainSize = n - end /\ Ended(p.o)
              /\ p.m.method = d.method /\ p.m.uri = d.uri /\ p.m.content = d.content
              /\ p.m.keepAlive = StaysOpen(d)
  <2>1. n \in 0 .. Len(text) /\ end \in 0 .. n /\ end \in 0 .. Len(text)
    BY <1>5, <1>10
  <2>2. PICK a, t : a = SubSeq(text, 1, end) /\ t = SubSeq(text, end + 1, n)
    OBVIOUS
  <2>3. /\ SubSeq(text, 1, n) = a \o t /\ a \in Strings /\ t \in Strings
        /\ Len(a) = end /\ Len(t) = n - end
    <3>1. /\ SubSeq(text, 1, n) = SubSeq(text, 1, end) \o SubSeq(text, end + 1, n)
          /\ SubSeq(text, 1, end) \in Strings /\ SubSeq(text, end + 1, n) \in Strings
          /\ Len(SubSeq(text, 1, end)) = end /\ Len(SubSeq(text, end + 1, n)) = n - end
      <4>1. PICK S : S = Symbols
        OBVIOUS
      <4>2. text \in Seq(S)
        BY <1>5, <4>1
      <4> QED BY <2>1, <4>1, <4>2, Splits
    <3> QED BY <2>2, <3>1
  <2>4. a = RequestText(d)
    <3>1. \A i \in 1 .. end : text[i] = f[1][i]
      BY <1>3, <1>4, <1>5, <1>7
    <3>2. \A i \in 1 .. end : a[i] = text[i]
      BY <2>1, <1>5, ElementOfSeq, <1>10, <2>2, SubSeqProperties
    <3>3. \A i \in 1 .. Len(a) : a[i] = f[1][i]
      BY <2>3, <3>1, <3>2
    <3>4. a = f[1]
      BY <1>5, <2>3, <3>3, SeqEqual
    <3> QED BY <1>3, <3>4
  <2>5. RequestForm(d)
    BY <1>2, <1>4, <1>6
  <2>6. p \in ParseRequest(NewParser("RequestMethodStart"), RequestText(d) \o t)
    BY <2>3, <2>4
  <2> QED BY <2>3, <2>5, <2>6, FirstRead
<1>13. Params(d.uri) = d.target
  BY <1>2, StreamsAssumption
<1> QED BY <1>2, <1>3, <1>5, <1>8, <1>9, <1>10, <1>11, <1>12, <1>13 DEF Readable

----------------------------------------
(* URLs *)


(* A URL's text leads from one configuration to another. *)
Scans(p, s, q) ==
  \E f : f[0] = p /\ f[Len(s)] = q /\ \A i \in 1 .. Len(s) : Scan(f[i - 1], s[i]) = f[i]

(* One character leads where Scan says, ... *)
LEMMA ScansOne ==
  ASSUME NEW p, NEW c
  PROVE  Scans(p, <<c>>, Scan(p, c))
<1>1. PICK q : q = Scan(p, c)
  OBVIOUS
<1> DEFINE f == [i \in {0, 1} |-> IF i = 0 THEN p ELSE q]
<1>2. f[0] = p /\ f[1] = q /\ Len(<<c>>) = 1 /\ <<c>>[1] = c
  OBVIOUS
<1> HIDE DEF f
<1>3. \A i \in 1 .. Len(<<c>>) : i = 1 /\ i - 1 = 0
  BY <1>2
<1>4. \A i \in 1 .. Len(<<c>>) : Scan(f[i - 1], <<c>>[i]) = f[i]
  BY <1>1, <1>2, <1>3
<1> QED BY <1>1, <1>2, <1>4 DEF Scans

(* ... and two texts lead where the second does from where the first does. *)
LEMMA ScansThen ==
  ASSUME NEW p, NEW q, NEW r, NEW s \in Strings, NEW t \in Strings, Scans(p, s, q), Scans(q, t, r)
  PROVE  Scans(p, s \o t, r) /\ s \o t \in Strings
<1>1. PICK f : f[0] = p /\ f[Len(s)] = q /\ \A i \in 1 .. Len(s) : Scan(f[i - 1], s[i]) = f[i]
  BY DEF Scans
<1>2. PICK g : g[0] = q /\ g[Len(t)] = r /\ \A i \in 1 .. Len(t) : Scan(g[i - 1], t[i]) = g[i]
  BY DEF Scans
<1>3. PICK a, b : a = Len(s) /\ b = Len(t) /\ a \in Nat /\ b \in Nat
  BY LenProperties
<1>4. /\ s \o t \in Strings /\ Len(s \o t) = a + b
      /\ \A i \in 1 .. a + b : (s \o t)[i] = IF i <= a THEN s[i] ELSE t[i - a]
  BY <1>3, ConcatProperties
<1> DEFINE h == [i \in 0 .. a + b |-> IF i <= a THEN f[i] ELSE g[i - a]]
<1>5. \A i \in 0 .. a + b : (i <= a => h[i] = f[i]) /\ (i >= a => h[i] = g[i - a])
  <2> SUFFICES ASSUME NEW i \in 0 .. a + b, i = a PROVE h[i] = g[i - a]
    BY <1>3
  <2>1. h[i] = f[a] /\ i - a = 0
    BY <1>3
  <2> HIDE DEF h
  <2> QED BY <1>1, <1>2, <1>3, <2>1
<1> HIDE DEF h
<1>6. ASSUME NEW i \in 1 .. a + b PROVE Scan(h[i - 1], (s \o t)[i]) = h[i]
  <2>1. i \in 0 .. a + b /\ i - 1 \in 0 .. a + b /\ (i - 1) - a = (i - a) - 1
    BY <1>3
  <2>2. CASE i <= a
    BY <1>3, <1>4, <1>5, <2>1, <2>2, <1>1
  <2>3. CASE ~ (i <= a)
    BY <1>3, <2>3, <1>4, <1>5, <2>1, <1>2
  <2> QED BY <2>2, <2>3
<1>7. h[0] = p /\ h[a + b] = r
  <2>1. 0 \in 0 .. a + b /\ 0 <= a /\ a + b \in 0 .. a + b /\ a + b >= a /\ (a + b) - a = b
    BY <1>3
  <2> QED BY <1>1, <1>2, <1>3, <1>5, <2>1
<1> QED BY <1>4, <1>6, <1>7 DEF Scans

(* What is left undecided at a URL's end is the host. *)
AtEnd(p) == IF p.name = <<>> THEN p ELSE [p EXCEPT !.url.hostname = p.name]

(* The parser before a URL. *)
FirstUrl == [state |-> "Scheme", result |-> "valid", name |-> <<>>, number |-> <<>>,
             url |-> [NoUrl EXCEPT !.path = <<"/">>]]

(* A text is parsed into what it leads to. *)
LEMMA UrlScans ==
  ASSUME NEW text \in Strings, NEW q, Scans(FirstUrl, text, q)
  PROVE  ParseUrl(text) = AtEnd(q)
<1>1. PICK n : n = Len(text) /\ n \in Nat
  BY LenProperties
<1>2. PICK f : f[0] = FirstUrl /\ f[n] = q /\ \A i \in 1 .. n : Scan(f[i - 1], text[i]) = f[i]
  BY <1>1 DEF Scans
<1> DEFINE Rec(g) == g = [i \in 0 .. n |-> IF i = 0 THEN FirstUrl ELSE Scan(g[i - 1], text[i])]
           at == CHOOSE g : Rec(g)
<1>3. \E g : Rec(g)
  <2> DEFINE h == [i \in 0 .. n |-> f[i]]
  <2>1. ASSUME NEW i \in 0 .. n PROVE h[i] = IF i = 0 THEN FirstUrl ELSE Scan(h[i - 1], text[i])
    <3>1. CASE i = 0
      BY <1>2, <3>1
    <3>2. CASE i # 0
      <4>1. i \in 1 .. n /\ i - 1 \in 0 .. n
        BY <1>1, <3>2
      <4>2. h[i] = f[i] /\ h[i - 1] = f[i - 1]
        BY <4>1
      <4> HIDE DEF h
      <4> QED BY <1>2, <3>2, <4>1, <4>2
    <3> QED BY <3>1, <3>2
  <2>2. h = [i \in 0 .. n |-> h[i]]
    OBVIOUS
  <2> HIDE DEF h
  <2>3. Rec(h)
    BY <2>1, <2>2
  <2> QED BY <2>3
<1>4. ParseUrl(text) = AtEnd(at[n])
  BY <1>1 DEF ParseUrl, AtEnd, FirstUrl
<1>5. Rec(at)
  <2> HIDE DEF Rec
  <2> QED BY <1>3
<1> HIDE DEF at
<1>6. \A i \in 0 .. n : at[i] = IF i = 0 THEN FirstUrl ELSE Scan(at[i - 1], text[i])
  BY <1>5
<1> HIDE DEF Rec
<1> DEFINE B == {i \in 0 .. n : at[i] # f[i]}
<1>7. B = {}
  <2> SUFFICES ASSUME B # {} PROVE FALSE
    OBVIOUS
  <2>1. PICK k \in B : \A j \in B : k <= j
    <3>1. B \subseteq Nat
      OBVIOUS
    <3> HIDE DEF B
    <3> QED BY <3>1, Least
  <2>2. k \in 0 .. n /\ at[k] # f[k]
    OBVIOUS
  <2>3. k # 0
    BY <1>2, <1>6, <2>2
  <2>4. k \in 1 .. n /\ k - 1 \in 0 .. n /\ ~ (k <= k - 1)
    BY <1>1, <2>2, <2>3
  <2>5. at[k - 1] = f[k - 1]
    BY <2>1, <2>4
  <2> QED BY <1>2, <1>6, <2>2, <2>3, <2>4, <2>5
<1>8. at[n] = f[n]
  <2>1. n \in 0 .. n
    BY <1>1
  <2> QED BY <1>7, <2>1
<1> QED BY <1>2, <1>4, <1>8

(* The states of a URL's beginning ... *)
AuthorityStates ==
  {"Scheme", "SlashAfterScheme1", "SlashAfterScheme2", "UsernameOrHostname", "Password", "Hostname"}

(* ... and of the rest. *)
RestStates == {"IPV6Hostname", "PortOrPassword", "Port", "Path", "Query", "Fragment"}

(* No two rules of the URL parser fit one state and one character. *)
LEMMA UrlKnows == Knows(UrlTable, Authority \cup Rest)
<1>1. Deterministic(Authority)
  <2>1. PICK A, B, D : A = Alnum \cup {"+", "-", "."} /\ B = Unreserved \cup {"%"} /\ D = Alnum \cup {"%"}
    OBVIOUS
  <2>2. ":" \notin A /\ "@" \notin D /\ "/" \notin Alnum /\ \A x \in B : x \notin {":", "@", "/", "["}
    BY <2>1 DEF Unreserved, Alnum
  <2> QED BY <2>1, <2>2 DEF Deterministic, Authority, Rule
<1>2. Deterministic(Rest)
  BY DEF Deterministic, Rest, Rule
<1>3. (\A r \in Authority : r.state \in AuthorityStates) /\ (\A r \in Rest : r.state \in RestStates)
  BY DEF Authority, Rest, Rule, AuthorityStates, RestStates
<1>4. AuthorityStates \cap RestStates = {}
  BY DEF AuthorityStates, RestStates
<1>5. Deterministic(Authority \cup Rest)
  BY <1>1, <1>2, <1>3, <1>4, Apart
<1>6. \A r \in Authority \cup Rest : r.on \subseteq AnyClass
  <2>1. Unreserved \cup {"%"} \subseteq AnyClass /\ Alnum \cup {"+", "-", ".", "%"} \subseteq AnyClass
        /\ {":", "/", "@", "[", "#", "?", "digit", "alpha"} \subseteq AnyClass
    BY DEF Unreserved, Alnum, AnyClass, Special, Mark
  <2>2. \A r \in Authority : r.on \subseteq AnyClass
    BY <2>1 DEF Authority, Rule
  <2>3. \A r \in Rest : r.on \subseteq AnyClass
    BY <2>1 DEF Rest, Rule
  <2> QED BY <2>2, <2>3
<1> QED BY <1>5, <1>6, TableKnows DEF UrlTable

(* The table has such a rule. *)
Fits(st, on, next, do) == Rule(st, on, next, do) \in Authority \cup Rest

(* A configuration of the URL parser. *)
Cut(st, name, number, url) ==
  [state |-> st, result |-> "valid", name |-> name, number |-> number, url |-> url]

(* A URL by its parts. *)
Url(s, n, w, h, o, k, t, q, g) ==
  [scheme |-> s, username |-> n, password |-> w, hostname |-> h, port |-> o,
   path |-> t, query |-> q, fragment |-> g, integerPort |-> k]

(* A record with the fields of a URL. *)
IsUrl(url) == DOMAIN url = DOMAIN NoUrl /\ url = [x \in DOMAIN url |-> url[x]]

(* A character that a rule fits does what the rule says. *)
LEMMA UrlMoves ==
  ASSUME NEW st, NEW on, NEW next, NEW do, Fits(st, on, next, do),
         NEW n, NEW k, NEW url, NEW c, Class(c) \in on
  PROVE  Scan(Cut(st, n, k, url), c) = Put(do, Cut(next, n, k, url), c)
<1>1. PICK r : r = Rule(st, on, next, do)
  OBVIOUS
<1>2. r \in Authority \cup Rest /\ r.state = st /\ r.on = on /\ r.next = next /\ r.do = do
  BY <1>1 DEF Rule, Fits
<1>3. UrlTable[st][Class(c)] = {r}
  BY <1>2, UrlKnows DEF Knows
<1>4. PICK p : p = Cut(st, n, k, url)
  OBVIOUS
<1>5. p.state = st /\ p.result = "valid" /\ [p EXCEPT !.state = next] = Cut(next, n, k, url)
  BY <1>4 DEF Cut
<1>6. Scan(p, c) = LET x == CHOOSE x \in {r} : TRUE IN Put(x.do, [p EXCEPT !.state = x.next], c)
  BY <1>3, <1>5 DEF Scan
<1>7. (CHOOSE x \in {r} : TRUE) = r
  OBVIOUS
<1> QED BY <1>2, <1>4, <1>5, <1>6, <1>7

(* A part of a URL takes one character more ... *)
LEMMA PutPart ==
  ASSUME NEW field \in {"scheme", "password", "hostname", "path", "query", "fragment"},
         NEW st, NEW n, NEW k, NEW url, NEW c
  PROVE  Put(field, Cut(st, n, k, url), c) = Cut(st, n, k, PutField(url, field, Append(url[field], c)))
<1>1. PICK p : p = Cut(st, n, k, url)
  OBVIOUS
<1>2. p.url = url /\ \A x : [p EXCEPT !.url = x] = Cut(st, n, k, x)
  BY <1>1 DEF Cut
<1>3. Put(field, p, c) = [p EXCEPT !.url[field] = Append(@, c)]
  BY DEF Put
<1>4. Put(field, p, c) = [p EXCEPT !.url = [p.url EXCEPT ![field] = Append(@, c)]]
  BY <1>3
<1> QED BY <1>1, <1>2, <1>4 DEF PutField

(* ... and so does what is put aside. *)
LEMMA PutAside ==
  ASSUME NEW st, NEW n, NEW k, NEW url, NEW c
  PROVE  /\ Put("name", Cut(st, n, k, url), c) = Cut(st, Append(n, c), k, url)
         /\ Put("number", Cut(st, n, k, url), c) = Cut(st, n, Append(k, c), url)
         /\ Put("skip", Cut(st, n, k, url), c) = Cut(st, n, k, url)
BY DEF Put, Cut

(* What was put aside becomes the user, the host, the port or the password
   (std::swap, std::move). *)
LEMMA Decides ==
  ASSUME NEW st, NEW n, NEW k, NEW url, IsUrl(url), NEW c
  PROVE  /\ IsUser(Cut(st, n, k, url)) = Cut(st, url.username, k, PutField(url, "username", n))
         /\ IsHost(Cut(st, n, k, url)) = Cut(st, url.hostname, k, PutField(url, "hostname", n))
         /\ IsPort(Cut(st, n, k, url))
              = Cut(st, n, url.port, PutField(PutField(url, "port", k), "integerPort", Atoi(k) % PortLimit))
         /\ IsPassword(Cut(st, n, k, url), c)
              = Cut(st, n, url.password, PutField(url, "password", Append(k, c)))
<1>1. PICK p : p = Cut(st, n, k, url)
  OBVIOUS
<1>2. /\ p.url = url /\ p.name = n /\ p.number = k
      /\ \A x, y : [[p EXCEPT !.url = x] EXCEPT !.name = y] = Cut(st, y, k, x)
      /\ \A x, y : [[p EXCEPT !.url = x] EXCEPT !.number = y] = Cut(st, n, y, x)
  <2>1. p.url = url /\ p.name = n /\ p.number = k
    BY <1>1 DEF Cut
  <2>2. ASSUME NEW x PROVE [p EXCEPT !.url = x] = Cut(st, n, k, x)
    BY <1>1 DEF Cut
  <2>3. ASSUME NEW x, NEW y
        PROVE  /\ [Cut(st, n, k, x) EXCEPT !.name = y] = Cut(st, y, k, x)
               /\ [Cut(st, n, k, x) EXCEPT !.number = y] = Cut(st, n, y, x)
    BY DEF Cut
  <2>4. ASSUME NEW x, NEW y PROVE [[p EXCEPT !.url = x] EXCEPT !.name = y] = Cut(st, y, k, x)
    BY <2>2, <2>3
  <2>5. ASSUME NEW x, NEW y PROVE [[p EXCEPT !.url = x] EXCEPT !.number = y] = Cut(st, n, y, x)
    BY <2>2, <2>3
  <2> QED BY <2>1, <2>4, <2>5
<1>3. IsUser(p) = Cut(st, url.username, k, PutField(url, "username", n))
  BY <1>2 DEF IsUser, PutField
<1>4. IsHost(p) = Cut(st, url.hostname, k, PutField(url, "hostname", n))
  BY <1>2 DEF IsHost, PutField
<1>5. IsPassword(p, c) = Cut(st, n, url.password, PutField(url, "password", Append(k, c)))
  BY <1>2 DEF IsPassword, PutField
<1>6. IsPort(p) = Cut(st, n, url.port, PutField(PutField(url, "port", k), "integerPort", Atoi(k) % PortLimit))
  <2>1. PICK m : m = Atoi(p.number) % PortLimit
    OBVIOUS
  <2>2. IsPort(p) = [[[p EXCEPT !.url = [p.url EXCEPT !.port = p.number]] EXCEPT !.number = p.url.port]
                      EXCEPT !.url.integerPort = m]
    BY <2>1 DEF IsPort
  <2>3. PICK u : u = PutField(url, "port", k)
    OBVIOUS
  <2>4. IsPort(p) = [Cut(st, n, url.port, u) EXCEPT !.url.integerPort = m]
    BY <1>2, <2>2, <2>3 DEF PutField
  <2>5. [Cut(st, n, url.port, u) EXCEPT !.url.integerPort = m] = Cut(st, n, url.port, [u EXCEPT !.integerPort = m])
    BY DEF Cut
  <2>6. IsPort(p) = Cut(st, n, url.port, PutField(u, "integerPort", m))
    BY <2>4, <2>5 DEF PutField
  <2>7. m = Atoi(k) % PortLimit
    <3>1. PICK x : x = p.number
      OBVIOUS
    <3>2. x = k
      BY <1>2, <3>1
    <3>3. m = Atoi(x) % PortLimit
      BY <2>1, <3>1
    <3> QED BY <3>2, <3>3
  <2> QED BY <2>3, <2>6, <2>7
<1> QED BY <1>1, <1>3, <1>4, <1>5, <1>6

(* A record's field that is filled in again has the later value. *)
LEMMA UrlFields ==
  ASSUME NEW url, IsUrl(url), NEW field \in DOMAIN NoUrl, NEW x, NEW y
  PROVE  /\ IsUrl(PutField(url, field, x)) /\ PutField(url, field, x)[field] = x
         /\ PutField(PutField(url, field, x), field, y) = PutField(url, field, y)
         /\ PutField(url, field, url[field]) = url
<1>1. DOMAIN url = DOMAIN NoUrl /\ url = [f \in DOMAIN url |-> url[f]]
  BY DEF IsUrl
<1> QED BY <1>1 DEF IsUrl, PutField

(* A text of characters that may stand in this part of a URL. *)
Of(s, on) == s \in Strings /\ \A i \in 1 .. Len(s) : Class(s[i]) \in on

(* A text of characters each of which leads to the next configuration. *)
LEMMA ScansAll ==
  ASSUME NEW s, Len(s) \in Nat, NEW g, \A i \in 1 .. Len(s) : Scan(g[i - 1], s[i]) = g[i]
  PROVE  Scans(g[0], s, g[Len(s)])
BY DEF Scans

(* A part of a URL is read. *)
LEMMA ReadsPart ==
  ASSUME NEW field \in {"scheme", "password", "hostname", "path", "query", "fragment"},
         NEW st, NEW on, Fits(st, on, st, field),
         NEW n, NEW k, NEW url, IsUrl(url), url[field] \in Strings, NEW s, Of(s, on)
  PROVE  Scans(Cut(st, n, k, url), s, Cut(st, n, k, PutField(url, field, url[field] \o s)))
<1>1. s \in Strings /\ Len(s) \in Nat /\ \A i \in 1 .. Len(s) : Class(s[i]) \in on
  BY LenProperties DEF Of
<1>2. PICK a : a = url[field] /\ a \in Strings
  OBVIOUS
<1> DEFINE g == [i \in 0 .. Len(s) |-> Cut(st, n, k, PutField(url, field, a \o SubSeq(s, 1, i)))]
<1>3. ASSUME NEW i \in 1 .. Len(s) PROVE Scan(g[i - 1], s[i]) = g[i]
  <2>1. i \in 0 .. Len(s) /\ i - 1 \in 0 .. Len(s)
    BY <1>1
  <2>2. PICK t, c : t = a \o SubSeq(s, 1, i - 1) /\ c = s[i]
    OBVIOUS
  <2>3. Append(t, c) = a \o SubSeq(s, 1, i)
    <3>1. Append(a \o SubSeq(s, 1, i - 1), s[i]) = a \o SubSeq(s, 1, i)
      BY <1>1, <1>2, Grow
    <3> QED BY <2>2, <3>1
  <2>4. PICK u : u = PutField(url, field, t)
    OBVIOUS
  <2>5. field \in DOMAIN NoUrl
    BY DEF NoUrl
  <2>6. Scan(Cut(st, n, k, u), c) = Put(field, Cut(st, n, k, u), c)
    BY <1>1, <2>2, UrlMoves
  <2>7. Put(field, Cut(st, n, k, u), c) = Cut(st, n, k, PutField(u, field, Append(u[field], c)))
    BY PutPart
  <2>8. u[field] = t /\ PutField(u, field, Append(t, c)) = PutField(url, field, Append(t, c))
    BY <2>4, <2>5, UrlFields
  <2>9. g[i - 1] = Cut(st, n, k, u) /\ g[i] = Cut(st, n, k, PutField(url, field, Append(t, c)))
    BY <2>1, <2>2, <2>3, <2>4
  <2> HIDE DEF g
  <2> QED BY <2>2, <2>6, <2>7, <2>8, <2>9
<1>4. g[0] = Cut(st, n, k, url) /\ g[Len(s)] = Cut(st, n, k, PutField(url, field, url[field] \o s))
  <2>1. SubSeq(s, 1, 0) = <<>> /\ a \o <<>> = a /\ SubSeq(s, 1, Len(s)) = s
    BY <1>1, <1>2, Whole
  <2>2. 0 \in 0 .. Len(s) /\ Len(s) \in 0 .. Len(s)
    BY <1>1
  <2>3. PutField(url, field, a) = url
    <3>1. field \in DOMAIN NoUrl
      BY DEF NoUrl
    <3> QED BY <1>2, <3>1, UrlFields
  <2> QED BY <1>2, <2>1, <2>2, <2>3
<1> HIDE DEF g
<1>5. Scans(g[0], s, g[Len(s)])
  BY <1>1, <1>3, ScansAll
<1> QED BY <1>4, <1>5

(* A name is read that may be a user's or a host's, and a number that may
   be a port or a password's beginning. *)
LEMMA ReadsAside ==
  ASSUME NEW st, NEW on, NEW url, NEW s, Of(s, on), NEW other
  PROVE  /\ Fits(st, on, st, "name")
              => Scans(Cut(st, <<>>, other, url), s, Cut(st, s, other, url))
         /\ Fits(st, on, st, "number")
              => Scans(Cut(st, other, <<>>, url), s, Cut(st, other, s, url))
<1>1. s \in Strings /\ Len(s) \in Nat /\ \A i \in 1 .. Len(s) : Class(s[i]) \in on
  BY LenProperties DEF Of
<1>2. /\ 0 \in 0 .. Len(s) /\ Len(s) \in 0 .. Len(s)
      /\ \A i \in 1 .. Len(s) : i \in 0 .. Len(s) /\ i - 1 \in 0 .. Len(s)
  BY <1>1
<1>3. SubSeq(s, 1, 0) = <<>> /\ SubSeq(s, 1, Len(s)) = s
  BY <1>1, Whole
<1>4. \A i \in 1 .. Len(s) : Append(SubSeq(s, 1, i - 1), s[i]) = SubSeq(s, 1, i)
  <2> SUFFICES ASSUME NEW i \in 1 .. Len(s) PROVE Append(SubSeq(s, 1, i - 1), s[i]) = SubSeq(s, 1, i)
    OBVIOUS
  <2>1. PICK a : a = <<>> /\ a \in Strings
    BY EmptySeq
  <2>2. Append(a \o SubSeq(s, 1, i - 1), s[i]) = a \o SubSeq(s, 1, i)
    BY <1>1, <2>1, Grow
  <2>3. SubSeq(s, 1, i - 1) \in Strings /\ SubSeq(s, 1, i) \in Strings
    BY <1>1, <1>2, SubSeqProperties
  <2> QED BY <2>1, <2>2, <2>3, Whole
<1>5. ASSUME Fits(st, on, st, "name")
      PROVE  Scans(Cut(st, <<>>, other, url), s, Cut(st, s, other, url))
  <2> DEFINE g == [i \in 0 .. Len(s) |-> Cut(st, SubSeq(s, 1, i), other, url)]
  <2>1. ASSUME NEW i \in 1 .. Len(s) PROVE Scan(g[i - 1], s[i]) = g[i]
    <3>1. PICK t, c : t = SubSeq(s, 1, i - 1) /\ c = s[i]
      OBVIOUS
    <3>2. Scan(Cut(st, t, other, url), c) = Put("name", Cut(st, t, other, url), c)
      BY <1>1, <1>5, <3>1, UrlMoves
    <3>3. Put("name", Cut(st, t, other, url), c) = Cut(st, Append(t, c), other, url)
      BY PutAside
    <3>4. g[i - 1] = Cut(st, t, other, url) /\ g[i] = Cut(st, Append(t, c), other, url)
      BY <1>2, <1>4, <3>1
    <3> HIDE DEF g
    <3> QED BY <3>1, <3>2, <3>3, <3>4
  <2>2. g[0] = Cut(st, <<>>, other, url) /\ g[Len(s)] = Cut(st, s, other, url)
    BY <1>2, <1>3
  <2> HIDE DEF g
  <2> QED BY <1>1, <2>1, <2>2, ScansAll
<1>6. ASSUME Fits(st, on, st, "number")
      PROVE  Scans(Cut(st, other, <<>>, url), s, Cut(st, other, s, url))
  <2> DEFINE g == [i \in 0 .. Len(s) |-> Cut(st, other, SubSeq(s, 1, i), url)]
  <2>1. ASSUME NEW i \in 1 .. Len(s) PROVE Scan(g[i - 1], s[i]) = g[i]
    <3>1. PICK t, c : t = SubSeq(s, 1, i - 1) /\ c = s[i]
      OBVIOUS
    <3>2. Scan(Cut(st, other, t, url), c) = Put("number", Cut(st, other, t, url), c)
      BY <1>1, <1>6, <3>1, UrlMoves
    <3>3. Put("number", Cut(st, other, t, url), c) = Cut(st, other, Append(t, c), url)
      BY PutAside
    <3>4. g[i - 1] = Cut(st, other, t, url) /\ g[i] = Cut(st, other, Append(t, c), url)
      BY <1>2, <1>4, <3>1
    <3> HIDE DEF g
    <3> QED BY <3>1, <3>2, <3>3, <3>4
  <2>2. g[0] = Cut(st, other, <<>>, url) /\ g[Len(s)] = Cut(st, other, s, url)
    BY <1>2, <1>3
  <2> HIDE DEF g
  <2> QED BY <1>1, <2>1, <2>2, ScansAll
<1> QED BY <1>5, <1>6

(* No character leads nowhere. *)
LEMMA ScansNone ==
  ASSUME NEW p
  PROVE  Scans(p, <<>>, p)
<1> DEFINE g == [i \in {0} |-> p]
<1>1. g[0] = p /\ Len(<<>>) = 0
  OBVIOUS
<1> HIDE DEF g
<1>2. Scans(g[0], <<>>, g[Len(<<>>)])
  BY <1>1, ScansAll
<1> QED BY <1>1, <1>2

(* The characters that separate the parts. *)
LEMMA Separators ==
  \A c \in {":", "/", "@", "?", "#"} : Class(c) = c /\ c \in Symbols /\ <<c>> \in Strings
<1> SUFFICES ASSUME NEW c \in {":", "/", "@", "?", "#"} PROVE Class(c) = c /\ c \in Symbols /\ <<c>> \in Strings
  OBVIOUS
<1>1. c \in AnyClass
  BY DEF AnyClass, Special, Mark
<1>2. c \in Symbols
  BY <1>1 DEF Symbols
<1> QED BY <1>1, <1>2, ClassOf

(* A separator does what its rule says ... *)
LEMMA Turns ==
  ASSUME NEW st, NEW next, NEW do, NEW c \in {":", "/", "@", "?", "#"}, Fits(st, {c}, next, do),
         NEW n, NEW k, NEW url
  PROVE  Scan(Cut(st, n, k, url), c) = Put(do, Cut(next, n, k, url), c)
<1>1. Class(c) \in {c}
  BY Separators
<1> QED BY <1>1, UrlMoves

(* ... or just ends a part. *)
LEMMA Skips ==
  ASSUME NEW st, NEW next, NEW c \in {":", "/", "@", "?", "#"}, Fits(st, {c}, next, "skip"),
         NEW n, NEW k, NEW url
  PROVE  Scan(Cut(st, n, k, url), c) = Cut(next, n, k, url)
<1>1. PICK do : do = "skip"
  OBVIOUS
<1>2. Scan(Cut(st, n, k, url), c) = Put(do, Cut(next, n, k, url), c)
  BY <1>1, Turns
<1>3. Put(do, Cut(next, n, k, url), c) = Cut(next, n, k, url)
  BY <1>1, PutAside
<1> QED BY <1>2, <1>3

(* A URL of which the path and what follows are not read yet. *)
Hosted(s, n, w, h, o, k) == Url(s, n, w, h, o, k, <<"/">>, <<>>, <<>>)

(* It is one. *)
LEMMA HostedIs ==
  ASSUME NEW s, NEW n, NEW w, NEW h, NEW o, NEW k
  PROVE  IsUrl(Hosted(s, n, w, h, o, k))
BY DEF IsUrl, Hosted, Url, NoUrl

(* Three characters, one after the other. *)
LEMMA ScansThree ==
  ASSUME NEW p, NEW a, NEW b, NEW c
  PROVE  Scans(p, <<a, b, c>>, Scan(Scan(Scan(p, a), b), c))
<1>1. PICK q, r, t : q = Scan(p, a) /\ r = Scan(q, b) /\ t = Scan(r, c)
  OBVIOUS
<1>2. PICK s : s = <<a, b, c>>
  OBVIOUS
<1> Len(s) = 3 /\ s[1] = a /\ s[2] = b /\ s[3] = c
  BY <1>2
<1> DEFINE g == [i \in 0 .. 3 |-> IF i = 0 THEN p ELSE IF i = 1 THEN q ELSE IF i = 2 THEN r ELSE t]
<1>3. g[0] = p /\ g[1] = q /\ g[2] = r /\ g[3] = t
  OBVIOUS
<1> HIDE DEF g
<1>4. \A i \in 1 .. 3 : (i = 1 /\ i - 1 = 0) \/ (i = 2 /\ i - 1 = 1) \/ (i = 3 /\ i - 1 = 2)
  OBVIOUS
<1>5. \A i \in 1 .. Len(s) : Scan(g[i - 1], s[i]) = g[i]
  BY <1>1, <1>2, <1>3, <1>4
<1> QED BY <1>1, <1>2, <1>3, <1>5 DEF Scans

(* The scheme and what separates it from the host. *)
LEMMA ReadsScheme ==
  ASSUME NEW s, Of(s, Alnum \cup {"+", "-", "."}), NEW e, e = <<>>
  PROVE  /\ Scans(FirstUrl, s \o <<":", "/", "/">>, Cut("UsernameOrHostname", e, e, Hosted(s, e, e, e, e, 0)))
         /\ s \o <<":", "/", "/">> \in Strings
<1>1. PICK u, v : u = Hosted(e, e, e, e, e, 0) /\ v = Hosted(s, e, e, e, e, 0)
  OBVIOUS
<1>2. FirstUrl = Cut("Scheme", e, e, u)
  BY <1>1 DEF FirstUrl, Cut, Hosted, Url, NoUrl
<1>3. s \in Strings /\ e \in Strings /\ e \o s = s
  BY EmptySeq, Whole DEF Of
<1>4. IsUrl(u) /\ u.scheme = e /\ PutField(u, "scheme", s) = v
  BY <1>1, HostedIs DEF Hosted, Url, PutField
<1>5. Scans(Cut("Scheme", e, e, u), s, Cut("Scheme", e, e, v))
  BY <1>3, <1>4, ReadsPart DEF Authority, Fits
<1>6. Scan(Cut("Scheme", e, e, v), ":") = Cut("SlashAfterScheme1", e, e, v)
  <2>1. Fits("Scheme", {":"}, "SlashAfterScheme1", "skip")
    BY DEF Authority, Fits
  <2> QED BY <2>1, Skips
<1>7. Scan(Cut("SlashAfterScheme1", e, e, v), "/") = Cut("SlashAfterScheme2", e, e, v)
  <2>1. Fits("SlashAfterScheme1", {"/"}, "SlashAfterScheme2", "skip")
    BY DEF Authority, Fits
  <2> QED BY <2>1, Skips
<1>8. Scan(Cut("SlashAfterScheme2", e, e, v), "/") = Cut("UsernameOrHostname", e, e, v)
  <2>1. Fits("SlashAfterScheme2", {"/"}, "UsernameOrHostname", "skip")
    BY DEF Authority, Fits
  <2> QED BY <2>1, Skips
<1>9. PICK a, b, t : a = ":" /\ b = "/" /\ t = <<a, b, b>> /\ a \in Symbols /\ b \in Symbols
  BY Separators
<1>10. Scans(Cut("Scheme", e, e, v), t, Cut("UsernameOrHostname", e, e, v))
  BY <1>6, <1>7, <1>8, <1>9, ScansThree
<1>11. t \in Strings
  BY <1>9
<1>12. Scans(FirstUrl, s \o t, Cut("UsernameOrHostname", e, e, v)) /\ s \o t \in Strings
  <2>1. PICK p, q, r : p = FirstUrl /\ q = Cut("Scheme", e, e, v) /\ r = Cut("UsernameOrHostname", e, e, v)
    OBVIOUS
  <2>2. Scans(p, s, q) /\ Scans(q, t, r)
    BY <1>2, <1>5, <1>10, <2>1
  <2> QED BY <1>3, <1>11, <2>1, <2>2, ScansThen
<1>13. t = <<":", "/", "/">>
  BY <1>9
<1> QED BY <1>1, <1>12, <1>13

(* A text and what it leads to, read behind another. *)
LEMMA ScansOn ==
  ASSUME NEW p, NEW q, NEW s \in Strings, Scans(p, s, q),
         NEW c \in {":", "/", "@", "?", "#"}, NEW r, Scan(q, c) = r
  PROVE  Scans(p, s \o <<c>>, r) /\ s \o <<c>> \in Strings
<1>1. PICK t : t = <<c>> /\ t \in Strings
  BY Separators
<1>2. Scans(q, t, r)
  BY <1>1, ScansOne
<1> QED BY <1>1, <1>2, ScansThen

(* The user and the password, if there are such. *)
UserText(n, w) ==
  IF n = <<>> THEN <<>> ELSE n \o (IF w = <<>> THEN <<>> ELSE <<":">> \o w) \o <<"@">>

(* A user without a password. *)
LEMMA ReadsUserOnly ==
  ASSUME NEW s, NEW n, Of(n, Unreserved \cup {"%"}), NEW e, e = <<>>
  PROVE  /\ Scans(Cut("UsernameOrHostname", e, e, Hosted(s, e, e, e, e, 0)), n \o <<"@">>,
                  Cut("Hostname", e, e, Hosted(s, n, e, e, e, 0)))
         /\ n \o <<"@">> \in Strings
<1>1. PICK u, v, p, q, r : /\ u = Hosted(s, e, e, e, e, 0) /\ v = Hosted(s, n, e, e, e, 0)
                           /\ p = Cut("UsernameOrHostname", e, e, u) /\ q = Cut("UsernameOrHostname", n, e, u)
                           /\ r = Cut("Hostname", e, e, v)
  OBVIOUS
<1>2. Scans(p, n, q) /\ n \in Strings
  BY ReadsAside, <1>1 DEF Authority, Fits, Of
<1>3. Scan(q, "@") = r
  <2>1. Fits("UsernameOrHostname", {"@"}, "Hostname", "isUser")
    BY DEF Authority, Fits
  <2>2. Scan(q, "@") = Put("isUser", Cut("Hostname", n, e, u), "@")
    BY <1>1, <2>1, Turns
  <2>3. Put("isUser", Cut("Hostname", n, e, u), "@") = IsUser(Cut("Hostname", n, e, u))
    BY DEF Put
  <2>4. u.username = e
    BY <1>1 DEF Hosted, Url
  <2>5. IsUser(Cut("Hostname", n, e, u)) = Cut("Hostname", u.username, e, PutField(u, "username", n))
    BY <1>1, HostedIs, Decides
  <2>6. PutField(Hosted(s, e, e, e, e, 0), "username", n) = Hosted(s, n, e, e, e, 0)
    BY DEF Hosted, Url, PutField
  <2> QED BY <1>1, <2>2, <2>3, <2>4, <2>5, <2>6
<1>4. PICK c : c = "@"
  OBVIOUS
<1>5. Scans(p, n \o <<c>>, r) /\ n \o <<c>> \in Strings
  BY <1>2, <1>3, <1>4, ScansOn
<1> QED BY <1>1, <1>4, <1>5

(* A text that is not all digits is digits, something else and a rest. *)
LEMMA Letter ==
  ASSUME NEW w, Of(w, Alnum \cup {"%"}), \E i \in DOMAIN w : Class(w[i]) # "digit"
  PROVE  \E d, c, r : /\ Of(d, {"digit"}) /\ c \in Symbols /\ Class(c) \in {"alpha", "%"} /\ Of(r, Alnum \cup {"%"})
                      /\ w = Append(d, c) \o r
<1>1. PICK m : m = Len(w) /\ m \in Nat
  BY LenProperties DEF Of
<1>2. w \in Strings /\ DOMAIN w = 1 .. m /\ \A i \in 1 .. m : w[i] \in Symbols /\ Class(w[i]) \in Alnum \cup {"%"}
  BY <1>1, LenProperties, ElementOfSeq DEF Of
<1> DEFINE B == {i \in 1 .. m : Class(w[i]) # "digit"}
<1>3. PICK k \in B : \A i \in B : k <= i
  <2>1. B \subseteq Nat /\ B # {}
    BY <1>1, <1>2
  <2> HIDE DEF B
  <2> QED BY <2>1, Least
<1>4. k \in 1 .. m /\ Class(w[k]) # "digit" /\ k - 1 \in Nat /\ k - 1 <= m
  BY <1>1
<1>5. \A i \in 1 .. k - 1 : Class(w[i]) = "digit"
  <2> SUFFICES ASSUME NEW i \in 1 .. k - 1 PROVE Class(w[i]) = "digit"
    OBVIOUS
  <2>1. i \in 1 .. m /\ ~ (k <= i)
    BY <1>1, <1>4
  <2> QED BY <1>3, <2>1
<1>6. PICK d, c, r, a : d = SubSeq(w, 1, k - 1) /\ c = w[k] /\ r = SubSeq(w, k + 1, m) /\ a = SubSeq(w, 1, k)
  OBVIOUS
<1>7. d \in Strings /\ Len(d) = k - 1 /\ \A i \in 1 .. k - 1 : d[i] = w[i]
  BY <1>1, <1>2, <1>4, <1>6, SubSeqProperties
<1>8. r \in Strings /\ Len(r) = m - k /\ \A i \in 1 .. m - k : r[i] = w[i + k]
  BY <1>1, <1>4, <1>2, <1>6, SubSeqProperties
<1>9. Of(d, {"digit"})
  BY <1>5, <1>7 DEF Of
<1>10. Of(r, Alnum \cup {"%"})
  <2>1. \A i \in 1 .. m - k : i + k \in 1 .. m
    BY <1>1, <1>4
  <2> QED BY <1>2, <1>8, <2>1 DEF Of
<1>11. c \in Symbols /\ Class(c) \in {"alpha", "%"}
  BY <1>2, <1>4, <1>6 DEF Alnum
<1>12. a = Append(d, c)
  <2>1. PICK em : em = <<>> /\ em \in Strings
    BY EmptySeq
  <2>2. Append(em \o SubSeq(w, 1, k - 1), w[k]) = em \o SubSeq(w, 1, k)
    BY <1>1, <1>2, <1>4, <2>1, Grow
  <2>3. a \in Strings
    BY <1>1, <1>2, <1>4, <1>6, SubSeqProperties
  <2>4. em \o d = d /\ em \o a = a
    BY <1>7, <2>1, <2>3, Whole
  <2> QED BY <1>6, <2>2, <2>4
<1>13. w = a \o r
  <2>1. a \in Strings /\ Len(a) = k /\ \A i \in 1 .. k : a[i] = w[i]
    BY <1>1, <1>2, <1>4, <1>6, SubSeqProperties
  <2>2. PICK z : z = a \o r
    OBVIOUS
  <2>3. z \in Strings /\ Len(z) = k + (m - k)
        /\ \A i \in 1 .. k + (m - k) : z[i] = IF i <= k THEN a[i] ELSE r[i - k]
    <3>1. PICK x, y : x = Len(a) /\ y = Len(r) /\ a \in Strings /\ r \in Strings
      BY <1>8, <2>1
    <3>2. z \in Strings /\ Len(z) = x + y /\ \A i \in 1 .. x + y : z[i] = IF i <= x THEN a[i] ELSE r[i - x]
      BY <2>2, <3>1, ConcatProperties, ZenonT(30)
    <3> QED BY <1>8, <2>1, <3>1, <3>2
  <2>4. k + (m - k) = m /\ \A i \in 1 .. m : (i <= k => i \in 1 .. k) /\ (~ (i <= k) => i - k \in 1 .. m - k /\ (i - k) + k = i)
    BY <1>1, <1>4
  <2>5. \A i \in 1 .. m : z[i] = w[i]
    BY <1>8, <2>1, <2>3, <2>4
  <2> QED BY <1>1, <1>2, <2>2, <2>3, <2>4, <2>5, SeqEqual
<1> QED BY <1>9, <1>10, <1>11, <1>12, <1>13

(* A user with a password: its letter tells it from a port. *)
LEMMA ReadsPassword ==
  ASSUME NEW s, NEW n, Of(n, Unreserved \cup {"%"}), NEW e, e = <<>>,
         NEW w, Of(w, Alnum \cup {"%"}), \E i \in DOMAIN w : Class(w[i]) # "digit"
  PROVE  /\ Scans(Cut("UsernameOrHostname", e, e, Hosted(s, e, e, e, e, 0)), n \o (<<":">> \o w) \o <<"@">>,
                  Cut("Hostname", e, e, Hosted(s, n, w, e, e, 0)))
         /\ n \o (<<":">> \o w) \o <<"@">> \in Strings
<1>1. PICK d, c, r : /\ Of(d, {"digit"}) /\ c \in Symbols /\ Class(c) \in {"alpha", "%"} /\ Of(r, Alnum \cup {"%"})
                     /\ w = Append(d, c) \o r
  BY Letter
<1>2. PICK u, v, x, y : /\ u = Hosted(s, e, e, e, e, 0) /\ y = Append(d, c)
                        /\ v = Hosted(s, n, w, e, e, 0) /\ x = Hosted(s, n, y, e, e, 0)
  OBVIOUS
<1>3. n \in Strings /\ d \in Strings /\ r \in Strings /\ w \in Strings
  BY <1>1 DEF Of
<1>4. y \in Strings /\ w = y \o r
  BY <1>1, <1>2, <1>3, AppendProperties
<1>5. PICK p0, p1, p2, p3, p4, p5, p6 :
        /\ p0 = Cut("UsernameOrHostname", e, e, u) /\ p1 = Cut("UsernameOrHostname", n, e, u)
        /\ p2 = Cut("PortOrPassword", n, e, u) /\ p3 = Cut("PortOrPassword", n, d, u)
        /\ p4 = Cut("Password", e, e, x) /\ p5 = Cut("Password", e, e, v) /\ p6 = Cut("Hostname", e, e, v)
  OBVIOUS
<1>6. Scans(p0, n, p1)
  BY ReadsAside, <1>5 DEF Authority, Fits
<1>7. Scan(p1, ":") = p2
  <2>1. Fits("UsernameOrHostname", {":"}, "PortOrPassword", "skip")
    BY DEF Authority, Fits
  <2> QED BY <1>5, <2>1, Skips
<1>8. Scans(p2, d, p3)
  BY <1>1, ReadsAside, <1>5 DEF Rest, Fits
<1>9. Scan(p3, c) = p4
  <2>1. Fits("PortOrPassword", {"alpha", "%"}, "Password", "isUserAndPassword")
    BY DEF Rest, Fits
  <2>2. Scan(p3, c) = Put("isUserAndPassword", Cut("Password", n, d, u), c)
    BY <1>1, <1>5, <2>1, UrlMoves
  <2>3. Put("isUserAndPassword", Cut("Password", n, d, u), c) = IsPassword(IsUser(Cut("Password", n, d, u)), c)
    BY DEF Put
  <2>4. PICK t : t = Hosted(s, n, e, e, e, 0)
    OBVIOUS
  <2>5. u.username = e /\ t.password = e
    BY <1>2, <2>4 DEF Hosted, Url
  <2>6. PutField(Hosted(s, e, e, e, e, 0), "username", n) = Hosted(s, n, e, e, e, 0)
    BY DEF Hosted, Url, PutField
  <2>9. PutField(Hosted(s, n, e, e, e, 0), "password", y) = Hosted(s, n, y, e, e, 0)
    BY DEF Hosted, Url, PutField
  <2>7. IsUser(Cut("Password", n, d, u)) = Cut("Password", u.username, d, PutField(u, "username", n))
    BY <1>2, HostedIs, Decides
  <2>8. IsPassword(Cut("Password", e, d, t), c) = Cut("Password", e, t.password, PutField(t, "password", Append(d, c)))
    BY <2>4, HostedIs, Decides
  <2> QED BY <1>2, <1>5, <2>2, <2>3, <2>4, <2>5, <2>6, <2>7, <2>8, <2>9
<1>10. Scans(p4, r, p5)
  <2>1. Fits("Password", Alnum \cup {"%"}, "Password", "password")
    BY DEF Authority, Fits
  <2>2. IsUrl(x) /\ x.password = y /\ PutField(x, "password", w) = v
    <3>1. IsUrl(x)
      BY <1>2, HostedIs
    <3>2. x.password = y
      BY <1>2 DEF Hosted, Url
    <3>3. PutField(Hosted(s, n, y, e, e, 0), "password", w) = Hosted(s, n, w, e, e, 0)
      BY DEF Hosted, Url, PutField
    <3> QED BY <1>2, <3>1, <3>2, <3>3
  <2>3. Scans(Cut("Password", e, e, x), r, Cut("Password", e, e, PutField(x, "password", x.password \o r)))
    BY <1>1, <1>4, <2>1, <2>2, ReadsPart
  <2> QED BY <1>4, <1>5, <2>2, <2>3
<1>11. Scan(p5, "@") = p6
  <2>1. Fits("Password", {"@"}, "Hostname", "skip")
    BY DEF Authority, Fits
  <2> QED BY <1>5, <2>1, Skips
<1>12. PICK a, b, f : a = <<":">> /\ b = <<"@">> /\ f = <<c>> /\ a \in Strings /\ b \in Strings /\ f \in Strings
  <2>1. <<":">> \in Strings /\ <<"@">> \in Strings
    BY Separators
  <2>2. <<c>> \in Strings
    BY <1>1
  <2> QED BY <2>1, <2>2
<1>13. Scans(p1, a, p2) /\ Scans(p3, f, p4) /\ Scans(p5, b, p6)
  BY <1>7, <1>9, <1>11, <1>12, ScansOne
<1>14. d \o f = y
  BY <1>1, <1>2, <1>3, <1>12, AppendIsConcat
<1>15. Scans(p2, y, p4)
  BY <1>3, <1>8, <1>12, <1>13, <1>14, ScansThen
<1>16. Scans(p2, w, p5)
  BY <1>3, <1>4, <1>10, <1>15, ScansThen
<1>17. Scans(p1, a \o w, p5) /\ a \o w \in Strings
  BY <1>3, <1>12, <1>13, <1>16, ScansThen
<1>18. Scans(p0, n \o (a \o w), p5) /\ n \o (a \o w) \in Strings
  BY <1>3, <1>6, <1>17, ScansThen
<1>19. Scans(p0, n \o (a \o w) \o b, p6) /\ n \o (a \o w) \o b \in Strings
  BY <1>12, <1>13, <1>18, ScansThen
<1> QED BY <1>2, <1>5, <1>12, <1>19

(* The user, the password and the host, or the host alone, which is not
   known to be one yet. *)
Known(s, n, w, h) ==
  IF n = <<>> THEN Cut("UsernameOrHostname", h, <<>>, Hosted(s, <<>>, <<>>, <<>>, <<>>, 0))
  ELSE Cut("Hostname", <<>>, <<>>, Hosted(s, n, w, h, <<>>, 0))

(* They are read. *)
LEMMA ReadsHost ==
  ASSUME NEW s, NEW n, Of(n, Unreserved \cup {"%"}), NEW w, Of(w, Alnum \cup {"%"}),
         w # <<>> => \E i \in DOMAIN w : Class(w[i]) # "digit", n = <<>> => w = <<>>,
         NEW h, Of(h, Unreserved \cup {"%"})
  PROVE  /\ Scans(Cut("UsernameOrHostname", <<>>, <<>>, Hosted(s, <<>>, <<>>, <<>>, <<>>, 0)),
                  UserText(n, w) \o h, Known(s, n, w, h))
         /\ UserText(n, w) \in Strings /\ UserText(n, w) \o h \in Strings
<1>1. PICK e, x : e = <<>> /\ x = UserText(n, w) /\ e \in Strings
  BY EmptySeq
<1>2. h \in Strings
  BY DEF Of
<1>3. PICK p, q : p = Cut("UsernameOrHostname", e, e, Hosted(s, e, e, e, e, 0)) /\ q = Known(s, n, w, h)
  OBVIOUS
<1>4. CASE n = e
  <2>1. x = e /\ q = Cut("UsernameOrHostname", h, e, Hosted(s, e, e, e, e, 0))
    BY <1>1, <1>3, <1>4 DEF UserText, Known
  <2>2. Fits("UsernameOrHostname", Unreserved \cup {"%"}, "UsernameOrHostname", "name")
    BY DEF Authority, Fits
  <2>3. Scans(Cut("UsernameOrHostname", <<>>, e, Hosted(s, e, e, e, e, 0)), h,
              Cut("UsernameOrHostname", h, e, Hosted(s, e, e, e, e, 0)))
    BY <2>2, ReadsAside
  <2>4. Scans(p, h, q)
    BY <1>1, <1>3, <2>1, <2>3
  <2>5. e \o h = h
    BY <1>1, <1>2, Whole
  <2> QED BY <1>1, <1>2, <1>3, <2>1, <2>4, <2>5
<1>5. CASE n # e
  <2>1. PICK r, u, v : /\ u = Hosted(s, n, w, e, e, 0) /\ v = Hosted(s, n, w, h, e, 0)
                       /\ r = Cut("Hostname", e, e, u)
    OBVIOUS
  <2>2. Scans(p, x, r) /\ x \in Strings
    <3>1. CASE w = e
      <4>1. PICK y : y = <<"@">>
        OBVIOUS
      <4>2. Scans(p, n \o y, r) /\ n \o y \in Strings
        BY <1>1, <1>3, <2>1, <3>1, <4>1, ReadsUserOnly
      <4>3. x = n \o e \o y /\ n \o e = n
        BY <1>1, <1>5, <3>1, <4>1, Whole DEF UserText, Of
      <4> QED BY <4>2, <4>3
    <3>2. CASE w # e
      BY <1>1, <1>5, <3>2, <1>3, <2>1, ReadsPassword DEF UserText
    <3> QED BY <3>1, <3>2
  <2>3. Scans(r, h, Cut("Hostname", e, e, v))
    <3>1. Fits("Hostname", Unreserved \cup {"%"}, "Hostname", "hostname")
      BY DEF Authority, Fits
    <3>2. IsUrl(u) /\ u.hostname = e /\ PutField(u, "hostname", h) = v
      BY <2>1, HostedIs DEF Hosted, Url, PutField
    <3>3. Scans(Cut("Hostname", e, e, u), h, Cut("Hostname", e, e, PutField(u, "hostname", u.hostname \o h)))
      BY <1>1, <3>1, <3>2, ReadsPart
    <3>4. e \o h = h
      BY <1>1, <1>2, Whole
    <3> QED BY <2>1, <3>2, <3>3, <3>4
  <2>4. q = Cut("Hostname", e, e, v)
    BY <1>1, <1>3, <1>5, <2>1 DEF Known
  <2>5. Scans(p, x \o h, q) /\ x \o h \in Strings
    BY <1>2, <2>2, <2>3, <2>4, ScansThen
  <2> QED BY <1>1, <1>3, <2>2, <2>5
<1> QED BY <1>4, <1>5

(* A port, and what it is a number of. *)
PortText(o) == IF o = <<>> THEN <<>> ELSE <<":">> \o o
PortOf(o) == IF o = <<>> THEN 0 ELSE Atoi(o) % PortLimit

(* The port is read; the line that begins the path decides that it is one. *)
LEMMA ReadsPort ==
  ASSUME NEW s, NEW n, NEW w, n = <<>> => w = <<>>, NEW h, NEW o, Of(o, {"digit"})
  PROVE  /\ \E q : /\ Scans(Known(s, n, w, h), PortText(o), q)
                   /\ Scan(q, "/") = Cut("Path", <<>>, <<>>, Hosted(s, n, w, h, o, PortOf(o)))
         /\ PortText(o) \in Strings
<1>1. PICK e, a, c : e = <<>> /\ a = <<":">> /\ c = "/" /\ e \in Strings /\ a \in Strings
  BY EmptySeq, Separators
<1>2. o \in Strings /\ a \o o \in Strings
  BY <1>1, ConcatProperties DEF Of
<1>3. PortText(o) \in Strings
  BY <1>1, <1>2 DEF PortText
<1>4. PICK p, u, v, k, z, y, x :
        /\ p = Known(s, n, w, h) /\ u = Hosted(s, n, w, h, e, 0) /\ v = Hosted(s, n, w, h, o, k) /\ k = Atoi(o) % PortLimit
        /\ z = Hosted(s, e, e, e, e, 0) /\ y = Hosted(s, n, w, h, o, 0) /\ x = Cut("Path", e, e, v)
  OBVIOUS
<1>5. IsUrl(u) /\ u.port = e /\ PutField(u, "port", o) = y /\ PutField(y, "integerPort", k) = v
  <2>1. IsUrl(u)
    BY <1>4, HostedIs
  <2>2. u.port = e
    BY <1>4 DEF Hosted, Url
  <2>3. PutField(Hosted(s, n, w, h, e, 0), "port", o) = Hosted(s, n, w, h, o, 0)
    BY DEF Hosted, Url, PutField
  <2>4. PutField(Hosted(s, n, w, h, o, 0), "integerPort", k) = Hosted(s, n, w, h, o, k)
    BY DEF Hosted, Url, PutField
  <2> QED BY <1>4, <2>1, <2>2, <2>3, <2>4
<1>6. IsPort(Cut("Path", e, o, u)) = x
  BY <1>5, Decides, <1>4
<1>7. CASE n = e
  <2>1. p = Cut("UsernameOrHostname", h, e, z) /\ w = e
    BY <1>1, <1>4, <1>7 DEF Known
  <2>2. \A j : IsHost(Cut("Path", h, j, z)) = Cut("Path", e, j, u)
    <3> SUFFICES ASSUME NEW j PROVE IsHost(Cut("Path", h, j, z)) = Cut("Path", e, j, u)
      OBVIOUS
    <3>1. IsUrl(z)
      BY <1>4, HostedIs
    <3>2. z.hostname = e
      BY <1>4 DEF Hosted, Url
    <3>3. PutField(Hosted(s, e, e, e, e, 0), "hostname", h) = Hosted(s, e, e, h, e, 0)
      BY DEF Hosted, Url, PutField
    <3>4. IsHost(Cut("Path", h, j, z)) = Cut("Path", z.hostname, j, PutField(z, "hostname", h))
      BY <3>1, Decides
    <3> QED BY <1>4, <1>7, <2>1, <3>2, <3>3, <3>4
  <2>3. CASE o = e
    <3>1. Fits("UsernameOrHostname", {"/"}, "Path", "isHost")
      BY DEF Authority, Fits
    <3>2. Scan(p, c) = Put("isHost", Cut("Path", h, e, z), c)
      BY <1>1, <2>1, <3>1, Turns
    <3>3. Put("isHost", Cut("Path", h, e, z), c) = IsHost(Cut("Path", h, e, z))
      BY DEF Put
    <3>4. Scan(p, c) = Cut("Path", e, e, u)
      BY <2>2, <3>2, <3>3
    <3>5. PortText(o) = e /\ PortOf(o) = 0
      BY <1>1, <2>3 DEF PortText, PortOf
    <3>6. Scans(p, e, p)
      BY <1>1, ScansNone
    <3> QED BY <1>1, <1>3, <1>4, <2>3, <3>4, <3>5, <3>6
  <2>4. CASE o # e
    <3>1. PICK q, r : q = Cut("PortOrPassword", h, e, z) /\ r = Cut("PortOrPassword", h, o, z)
      OBVIOUS
    <3>2. Scans(p, a, q)
      BY <2>1, <3>1, Skips, <1>1, ScansOne DEF Authority, Fits
    <3>3. Scans(q, o, r)
      BY ReadsAside, <1>1, <3>1 DEF Rest, Fits
    <3>4. Scan(r, c) = x
      BY <1>1, <3>1, Turns, <1>6, <2>2 DEF Rest, Fits, Put
    <3>5. Scans(p, a \o o, r)
      BY <1>1, <1>2, <3>2, <3>3, ScansThen
    <3>6. PortText(o) = a \o o /\ PortOf(o) = k
      BY <1>1, <1>4, <2>4 DEF PortText, PortOf
    <3> QED BY <1>1, <1>3, <1>4, <3>4, <3>5, <3>6
  <2> QED BY <2>3, <2>4
<1>8. CASE n # e
  <2>1. p = Cut("Hostname", e, e, u)
    BY <1>1, <1>4, <1>8 DEF Known
  <2>2. CASE o = e
    BY <1>1, <2>1, Skips, <2>2, ScansNone, <1>3, <1>4 DEF Authority, Fits, PortText, PortOf
  <2>3. CASE o # e
    <3>1. PICK q, r : q = Cut("Port", e, e, u) /\ r = Cut("Port", e, o, u)
      OBVIOUS
    <3>2. Scans(p, a, q)
      BY <2>1, <3>1, Skips, <1>1, ScansOne DEF Authority, Fits
    <3>3. Scans(q, o, r)
      BY ReadsAside, <1>1, <3>1 DEF Rest, Fits
    <3>4. Scan(r, c) = x
      BY <1>1, <3>1, Turns, <1>6 DEF Rest, Fits, Put
    <3>5. Scans(p, a \o o, r)
      BY <1>1, <1>2, <3>2, <3>3, ScansThen
    <3>6. PortText(o) = a \o o /\ PortOf(o) = k
      BY <1>1, <1>4, <2>3 DEF PortText, PortOf
    <3> QED BY <1>1, <1>3, <1>4, <3>4, <3>5, <3>6
  <2> QED BY <2>2, <2>3
<1> QED BY <1>7, <1>8

(* What may follow the path, with its separator. *)
Optional(c, s) == IF s = <<>> THEN <<>> ELSE <<c>> \o s

(* It is read behind what was read before. *)
LEMMA ReadsOptional ==
  ASSUME NEW field \in {"query", "fragment"}, NEW url, IsUrl(url), NEW e, e = <<>>, url[field] = e,
         NEW c, <<c>> \in Strings, NEW st, NEW next, NEW on, Fits(next, on, next, field),
         Scan(Cut(st, e, e, url), c) = Cut(next, e, e, url), NEW s, Of(s, on), NEW x, x = IF s = e THEN st ELSE next,
         NEW z, NEW b \in Strings, Scans(z, b, Cut(st, e, e, url)), NEW text, text = b \o Optional(c, s)
  PROVE  text \in Strings /\ Scans(z, text, Cut(x, e, e, PutField(url, field, s)))
<1>1. PICK p, q, r, a : /\ p = Cut(st, e, e, url) /\ q = Cut(next, e, e, url) /\ a = <<c>>
                        /\ r = Cut(next, e, e, PutField(url, field, s))
  OBVIOUS
<1>2. a \in Strings /\ s \in Strings /\ e \in Strings
  BY <1>1, EmptySeq DEF Of
<1>3. CASE s = e
  <2>1. text = b
    BY <1>3, Whole DEF Optional
  <2>2. field \in DOMAIN NoUrl
    BY DEF NoUrl
  <2>3. PutField(url, field, url[field]) = url
    BY <2>2, UrlFields
  <2> QED BY <1>3, <2>1, <2>3
<1>4. CASE s # e
  <2>4. Scans(p, a, q)
    BY <1>1, ScansOne
  <2>5. Scans(Cut(next, e, e, url), s, Cut(next, e, e, PutField(url, field, url[field] \o s)))
    BY <1>2, ReadsPart
  <2>6. e \o s = s
    BY <1>2, Whole
  <2>7. Scans(q, s, r)
    BY <1>1, <2>5, <2>6
  <2>8. Scans(p, a \o s, r) /\ a \o s \in Strings
    BY <1>2, <2>4, <2>7, ScansThen
  <2>9. PICK y : y = a \o s /\ y = Optional(c, s)
    BY <1>1, <1>4 DEF Optional
  <2>10. y \in Strings /\ Scans(p, y, r)
    BY <2>8, <2>9
  <2>11. Scans(z, b \o y, r) /\ b \o y \in Strings
    BY <1>1, <2>10, ScansThen
  <2> QED BY <1>1, <1>4, <2>9, <2>11
<1> QED BY <1>3, <1>4

(* What follows the host, and the state in which it leaves the parser. *)
PathText(b, t, q, g) == b \o t \o Optional("?", q) \o Optional("#", g)
LastState(q, g) == IF g = <<>> THEN IF q = <<>> THEN "Path" ELSE "Query" ELSE "Fragment"

(* The path, the query and the fragment. *)
LEMMA ReadsPath ==
  ASSUME NEW s, NEW n, NEW w, NEW h, NEW o, NEW k, NEW e, e = <<>>,
         NEW t, Of(t, AnyClass \ {"#", "?"}), t # <<>>, t[1] = "/",
         NEW q, Of(q, AnyClass \ {"#", "?"}), NEW g, Of(g, AnyClass),
         NEW p, Scan(p, "/") = Cut("Path", e, e, Hosted(s, n, w, h, o, k)),
         NEW z, NEW b \in Strings, Scans(z, b, p)
  PROVE  /\ Scans(z, PathText(b, t, q, g), Cut(LastState(q, g), e, e, Url(s, n, w, h, o, k, t, q, g)))
         /\ PathText(b, t, q, g) \in Strings
<1>1. PICK a, r : a = <<"/">> /\ r = Tail(t) /\ a \in Strings
  BY Separators
<1>2. t \in Strings /\ q \in Strings /\ g \in Strings /\ e \in Strings
  BY EmptySeq DEF Of
<1>3. /\ r \in Strings /\ Of(r, AnyClass \ {"#", "?"}) /\ a \o r = t
  <2>1. PICK m : m = Len(t) /\ m \in Nat /\ m > 0
    BY <1>2, LenProperties, EmptySeq
  <2>2. r \in Strings /\ Len(r) = m - 1 /\ \A i \in 1 .. m - 1 : r[i] = t[i + 1]
    BY <1>1, <1>2, <2>1, HeadTailProperties
  <2>3. \A i \in 1 .. m - 1 : i + 1 \in 1 .. m
    BY <2>1
  <2>4. Of(r, AnyClass \ {"#", "?"})
    BY <2>1, <2>2, <2>3 DEF Of
  <2>5. PICK v, y : v = a \o r /\ y = Len(a) /\ y = 1 /\ a[1] = "/"
    BY <1>1
  <2>6. v \in Strings /\ Len(v) = y + Len(r) /\ \A i \in 1 .. y + Len(r) : v[i] = IF i <= y THEN a[i] ELSE r[i - y]
    <3>1. a \in Strings /\ r \in Strings
      BY <1>1, <2>2
    <3>2. /\ a \o r \in Strings /\ Len(a \o r) = Len(a) + Len(r)
          /\ \A i \in 1 .. Len(a) + Len(r) : (a \o r)[i] = IF i <= Len(a) THEN a[i] ELSE r[i - Len(a)]
      BY <3>1, ConcatProperties, ZenonT(30)
    <3>3. PICK x : x = Len(a)
      OBVIOUS
    <3> QED BY <2>5, <3>2, <3>3
  <2>7. 1 + (m - 1) = m /\ \A i \in 1 .. m : (i <= 1 => i = 1) /\ (~ (i <= 1) => i - 1 \in 1 .. m - 1 /\ (i - 1) + 1 = i)
    BY <2>1
  <2>8. \A i \in 1 .. m : v[i] = t[i]
    BY <2>2, <2>5, <2>6, <2>7
  <2> QED BY <1>2, <2>1, <2>2, <2>4, <2>5, <2>6, <2>7, <2>8, SeqEqual
<1>4. PICK x, y, v, u : /\ x = Hosted(s, n, w, h, o, k) /\ y = Url(s, n, w, h, o, k, t, e, e)
                        /\ v = Url(s, n, w, h, o, k, t, q, e) /\ u = Url(s, n, w, h, o, k, t, q, g)
  OBVIOUS
<1>5. IsUrl(y) /\ IsUrl(v)
  BY <1>4 DEF IsUrl, Url, NoUrl
<1>6. Scans(p, t, Cut("Path", e, e, y))
  <2>1. Scans(p, a, Cut("Path", e, e, x))
    BY <1>1, <1>4, ScansOne
  <2>2. Fits("Path", AnyClass \ {"#", "?"}, "Path", "path")
    BY DEF Rest, Fits
  <2>3. x.path = a /\ a \in Strings
    BY <1>1, <1>4 DEF Hosted, Url
  <2>4. Scans(Cut("Path", e, e, x), r, Cut("Path", e, e, PutField(x, "path", x.path \o r)))
    BY <1>3, <1>4, <2>2, <2>3, HostedIs, ReadsPart
  <2>5. PutField(Hosted(s, n, w, h, o, k), "path", t) = Url(s, n, w, h, o, k, t, <<>>, <<>>)
    BY DEF Hosted, Url, PutField
  <2>6. PICK f, j : f = Cut("Path", e, e, x) /\ j = Cut("Path", e, e, y)
    OBVIOUS
  <2>7. Scans(p, a, f) /\ Scans(f, r, j)
    BY <1>3, <1>4, <2>1, <2>3, <2>4, <2>5, <2>6
  <2>8. a \in Strings /\ r \in Strings
    BY <1>3, <2>3
  <2>9. Scans(p, a \o r, j)
    BY <2>7, <2>8, ScansThen
  <2> QED BY <1>3, <2>6, <2>9
<1>7. PICK f : f = b \o t /\ f \in Strings /\ Scans(z, f, Cut("Path", e, e, y))
  BY <1>2, <1>6, ScansThen
<1>8. PICK l, text : l = f \o Optional("?", q) /\ text = l \o Optional("#", g) /\ text = PathText(b, t, q, g)
  BY <1>7 DEF PathText
<1>9. PICK st : st = IF q = e THEN "Path" ELSE "Query"
  OBVIOUS
<1>10. l \in Strings /\ Scans(z, l, Cut(st, e, e, v))
  <2>1. PICK c, into, on : c = "?" /\ into = "Query" /\ on = AnyClass \ {"#", "?"}
    OBVIOUS
  <2>2. Fits("Path", {"?"}, "Query", "skip") /\ Fits(into, on, into, "query")
    BY <2>1 DEF Rest, Fits
  <2>3. Scan(Cut("Path", e, e, y), c) = Cut(into, e, e, y)
    BY <2>1, <2>2, Skips
  <2>4. y.query = e
    BY <1>4 DEF Url
  <2>5. PutField(Url(s, n, w, h, o, k, t, e, e), "query", q) = Url(s, n, w, h, o, k, t, q, e)
    BY DEF Url, PutField
  <2>6. /\ <<c>> \in Strings /\ Of(q, on) /\ st = (IF q = e THEN "Path" ELSE into) /\ l = f \o Optional(c, q)
        /\ IsUrl(y) /\ f \in Strings /\ Scans(z, f, Cut("Path", e, e, y))
    BY <1>5, <1>7, <1>8, <1>9, <2>1, Separators
  <2>7. l \in Strings /\ Scans(z, l, Cut(st, e, e, PutField(y, "query", q)))
    BY <2>2, <2>3, <2>4, <2>6, ReadsOptional
  <2> QED BY <1>4, <2>5, <2>7
<1>11. PICK j : j = IF g = e THEN st ELSE "Fragment"
  OBVIOUS
<1>12. text \in Strings /\ Scans(z, text, Cut(j, e, e, u))
  <2>1. PICK c, into, on : c = "#" /\ into = "Fragment" /\ on = AnyClass
    OBVIOUS
  <2>2. Fits(st, {"#"}, "Fragment", "skip") /\ Fits(into, on, into, "fragment")
    BY <1>9, <2>1 DEF Rest, Fits
  <2>3. Scan(Cut(st, e, e, v), c) = Cut(into, e, e, v)
    BY <2>1, <2>2, Skips
  <2>4. v.fragment = e
    BY <1>4 DEF Url
  <2>5. PutField(Url(s, n, w, h, o, k, t, q, e), "fragment", g) = Url(s, n, w, h, o, k, t, q, g)
    BY DEF Url, PutField
  <2>6. /\ <<c>> \in Strings /\ Of(g, on) /\ j = (IF g = e THEN st ELSE into) /\ text = l \o Optional(c, g)
        /\ IsUrl(v) /\ l \in Strings /\ Scans(z, l, Cut(st, e, e, v)) /\ Fits(into, on, into, "fragment") /\ e = <<>>
    BY <1>5, <1>7, <1>8, <1>10, <1>11, <2>1, <2>2, Separators
  <2>7. text \in Strings /\ Scans(z, text, Cut(j, e, e, PutField(v, "fragment", g)))
    BY ONLY <2>3, <2>4, <2>6, ReadsOptional
  <2> QED BY <1>4, <2>5, <2>7
<1>13. j = LastState(q, g)
  BY <1>9, <1>11 DEF LastState
<1> QED BY <1>4, <1>8, <1>12, <1>13

(* The words of a URL are texts of characters that may stand there. *)
LEMMA UrlWords ==
  ASSUME NEW s, NEW on, Words(s, on)
  PROVE  Of(s, on)
<1>1. s \in Seq(STRING) /\ DOMAIN s = 1 .. Len(s)
  BY LenProperties DEF Words
<1> QED BY <1>1, WordsAreTexts DEF Words, Of

(* What is left undecided is the host: a URL without a path is complete. *)
LEMMA HostAtEnd ==
  ASSUME NEW s, NEW n, NEW w, n = <<>> => w = <<>>, NEW h, NEW e, e = <<>>
  PROVE  LET p == AtEnd(Known(s, n, w, h)) IN p.result = "valid" /\ p.url = Hosted(s, n, w, h, e, 0)
<1>1. PICK u, v, p : u = Hosted(s, e, e, e, e, 0) /\ v = Hosted(s, n, w, h, e, 0) /\ p = Known(s, n, w, h)
  OBVIOUS
<1>2. CASE n = e
  <2>1. p = Cut("UsernameOrHostname", h, e, u) /\ w = e
    BY <1>1, <1>2 DEF Known
  <2>2. p.name = h /\ p.url = u /\ p.result = "valid" /\ p = [x \in DOMAIN p |-> p[x]] /\ "url" \in DOMAIN p
    BY <2>1 DEF Cut
  <2>3. PutField(Hosted(s, e, e, e, e, 0), "hostname", h) = Hosted(s, e, e, h, e, 0)
    BY DEF Hosted, Url, PutField
  <2>4. [u EXCEPT !.hostname = h] = v
    BY <1>1, <1>2, <2>1, <2>3 DEF PutField
  <2>5. CASE h = e
    BY <1>1, <1>2, <2>1, <2>2, <2>5 DEF AtEnd
  <2>6. CASE h # e
    BY <2>2, <2>6, <2>4, <1>1 DEF AtEnd
  <2> QED BY <2>5, <2>6
<1>3. CASE n # e
  BY <1>1, <1>3 DEF Known, AtEnd, Cut
<1> QED BY <1>2, <1>3

(* A number below another is its remainder. *)
LEMMA Remainder ==
  ASSUME NEW n \in Nat, NEW y \in Nat, y < n
  PROVE  y % n = y
OBVIOUS

(* A port number survives its conversion to 16 bits. *)
LEMMA PortFits ==
  ASSUME NEW o, IsPortNumber(o)
  PROVE  Atoi(o) % PortLimit = Atoi(o)
<1>1. PICK n, y : n = PortLimit /\ y = Atoi(o)
  OBVIOUS
<1>2. n \in Nat
  BY <1>1 DEF PortLimit
<1>3. y \in 0 .. n - 1
  BY <1>1 DEF IsPortNumber
<1>4. y \in Nat /\ y < n
  BY <1>2, <1>3
<1>5. y % n = y
  BY <1>2, <1>4, Remainder
<1> QED BY <1>1, <1>5

(* The parts of a URL that can be expressed. *)
UrlParts(s, n, w, h, o, t, q, g) ==
  /\ Of(s, Alnum \cup {"+", "-", "."})
  /\ Of(n, Unreserved \cup {"%"}) /\ Of(w, Alnum \cup {"%"}) /\ Of(h, Unreserved \cup {"%"}) /\ Of(o, {"digit"})
  /\ Of(t, AnyClass \ {"#", "?"}) /\ Of(q, AnyClass \ {"#", "?"}) /\ Of(g, AnyClass)
  /\ (w # <<>> => \E i \in DOMAIN w : Class(w[i]) # "digit") /\ (n = <<>> => w = <<>>)
  /\ (t # <<>> => t[1] = "/") /\ (t = <<>> => o = <<>> /\ q = <<>> /\ g = <<>>)

(* How they are written. *)
UrlText(s, n, w, h, o, t, q, g) ==
  s \o <<":", "/", "/">> \o UserText(n, w) \o h \o PortText(o) \o t \o Optional("?", q) \o Optional("#", g)

(* What is written is parsed back into its parts. *)
LEMMA UrlIsRead ==
  ASSUME NEW s, NEW n, NEW w, NEW h, NEW o, NEW t, NEW q, NEW g, UrlParts(s, n, w, h, o, t, q, g),
         NEW x, x = IF t = <<>> THEN <<"/">> ELSE t, NEW text, text = UrlText(s, n, w, h, o, t, q, g)
  PROVE  /\ ParseUrl(text).result = "valid"
         /\ ParseUrl(text).url = Url(s, n, w, h, o, PortOf(o), x, q, g)
<1>1. PICK e, m, a, b, c, d, p, r :
        /\ e = <<>> /\ m = s \o <<":", "/", "/">> /\ a = UserText(n, w) /\ b = PortText(o) /\ c = Optional("?", q)
        /\ d = Optional("#", g) /\ p = Cut("UsernameOrHostname", e, e, Hosted(s, e, e, e, e, 0)) /\ r = Known(s, n, w, h)
  OBVIOUS
<1> USE DEF UrlParts
<1>2. h \in Strings /\ t \in Strings
  BY DEF Of
<1>3. Scans(FirstUrl, m, p) /\ m \in Strings
  BY <1>1, ReadsScheme
<1>4. Scans(p, a \o h, r) /\ a \in Strings /\ a \o h \in Strings
  BY <1>1, ReadsHost
<1>5. PICK z : z = (m \o a) \o h
  OBVIOUS
<1>6. Scans(FirstUrl, z, r) /\ z \in Strings
  <2>1. m \in Strings /\ a \in Strings /\ h \in Strings
    BY <1>2, <1>3, <1>4
  <2>2. (m \o a) \o h = m \o (a \o h)
    BY ONLY <2>1, ConcatAssociative
  <2>3. Scans(FirstUrl, m \o (a \o h), r) /\ m \o (a \o h) \in Strings
    BY <1>3, <1>4, ScansThen
  <2> QED BY <1>5, <2>2, <2>3
<1>7. CASE t # e
  <2>1. PICK j : Scans(r, b, j) /\ Scan(j, "/") = Cut("Path", e, e, Hosted(s, n, w, h, o, PortOf(o)))
    <3>1. Of(o, {"digit"}) /\ (n = <<>> => w = <<>>)
      OBVIOUS
    <3>2. \E at : /\ Scans(Known(s, n, w, h), PortText(o), at)
                 /\ Scan(at, "/") = Cut("Path", <<>>, <<>>, Hosted(s, n, w, h, o, PortOf(o)))
      BY ONLY <3>1, ReadsPort
    <3> QED BY <1>1, <3>2
  <2>2. b \in Strings
    BY <1>1, ReadsPort
  <2>3. PICK y : y = z \o b /\ Scans(FirstUrl, y, j) /\ y \in Strings
    BY <1>6, <2>1, <2>2, ScansThen
  <2>4. text = PathText(y, t, q, g)
    BY <1>1, <1>5, <2>3 DEF UrlText, PathText
  <2>5. PICK st, k : Scans(FirstUrl, text, k) /\ k = Cut(st, e, e, Url(s, n, w, h, o, PortOf(o), t, q, g)) /\ text \in Strings
    <3>1. PICK k, v : k = PortOf(o) /\ v = j
      OBVIOUS
    <3>2. /\ Of(t, AnyClass \ {"#", "?"}) /\ t # <<>> /\ t[1] = "/" /\ Of(q, AnyClass \ {"#", "?"}) /\ Of(g, AnyClass)
          /\ Scan(v, "/") = Cut("Path", e, e, Hosted(s, n, w, h, o, k)) /\ y \in Strings /\ Scans(FirstUrl, y, v)
      BY <1>1, <1>7, <2>1, <2>3, <3>1 DEF UrlParts
    <3>3. /\ Scans(FirstUrl, PathText(y, t, q, g), Cut(LastState(q, g), e, e, Url(s, n, w, h, o, k, t, q, g)))
          /\ PathText(y, t, q, g) \in Strings
      BY <1>1, <3>2, ReadsPath
    <3> QED BY <2>4, <3>1, <3>3
  <2>6. ParseUrl(text) = AtEnd(k)
    BY <2>5, UrlScans
  <2>7. AtEnd(k) = k /\ k.result = "valid" /\ k.url = Url(s, n, w, h, o, PortOf(o), t, q, g)
    BY <1>1, <2>5 DEF AtEnd, Cut
  <2> QED BY <1>1, <1>7, <2>6, <2>7
<1>8. CASE t = e
  <2>1. b = e /\ c = e /\ d = e /\ PortOf(o) = 0 /\ o = e /\ q = e /\ g = e
    BY <1>1, <1>8 DEF PortText, PortOf, Optional
  <2>2. z \o e = z
    BY <1>1, <1>6, Whole
  <2>3. (((z \o b) \o t) \o c) \o d = z
    BY <1>8, <2>1, <2>2
  <2>4. ParseUrl(z) = AtEnd(r)
    BY <1>6, UrlScans
  <2>5. AtEnd(r).result = "valid" /\ AtEnd(r).url = Hosted(s, n, w, h, e, 0)
    BY <1>1, HostAtEnd
  <2>6. Hosted(s, n, w, h, e, 0) = Url(s, n, w, h, o, PortOf(o), <<"/">>, q, g)
    BY <1>1, <2>1 DEF Hosted
  <2> QED BY <1>1, <1>5, <1>8, <2>3, <2>4, <2>5, <2>6 DEF UrlText
<1> QED BY <1>7, <1>8

(* A URL that can be expressed is parsed back. *)
LEMMA UrlParses ==
  ASSUME NEW u \in Urls, Expressible(u)
  PROVE  ParsesBack(u)
<1>1. PICK s, n, w, h, o, t, q, g :
        /\ s = u.scheme /\ n = u.username /\ w = u.password /\ h = u.hostname /\ o = u.port
        /\ t = u.path /\ q = u.query /\ g = u.fragment
  OBVIOUS
<1>2. UrlForm(u)
  BY UrlsAssumption
<1>3. u = Url(s, n, w, h, o, 0, t, q, g)
  <2>1. u = [part \in DOMAIN NoUrl |-> u[part]] /\ u.integerPort = 0
    BY <1>2 DEF UrlForm
  <2> QED BY <1>1, <2>1 DEF NoUrl, Url
<1>4. /\ Of(s, Alnum \cup {"+", "-", "."}) /\ Of(n, Unreserved \cup {"%"}) /\ Of(w, Alnum \cup {"%"})
      /\ Of(h, Unreserved \cup {"%"}) /\ Of(o, {"digit"}) /\ Of(t, AnyClass \ {"#", "?"})
      /\ Of(q, AnyClass \ {"#", "?"}) /\ Of(g, AnyClass)
  <2>1. /\ Words(s, Alnum \cup {"+", "-", "."}) /\ Words(n, Unreserved \cup {"%"}) /\ Words(w, Alnum \cup {"%"})
        /\ Words(h, Unreserved \cup {"%"}) /\ Words(o, {"digit"}) /\ Words(t, AnyClass \ {"#", "?"})
        /\ Words(q, AnyClass \ {"#", "?"}) /\ Words(g, AnyClass)
    BY <1>1, <1>2, Zenon DEF UrlForm
  <2> QED BY <2>1, UrlWords
<1>5. /\ w # <<>> => \E i \in DOMAIN w : Class(w[i]) # "digit"
      /\ n = <<>> => w = <<>>
      /\ t = <<>> => o = <<>> /\ q = <<>> /\ g = <<>>
  BY <1>1 DEF Expressible
<1>6. (o # <<>> => IsPortNumber(o)) /\ (t # <<>> => t[1] = "/")
  <2>1. (u.port # <<>> => IsPortNumber(u.port)) /\ (u.path # <<>> => u.path[1] = "/")
    BY <1>2, Zenon DEF UrlForm
  <2> QED BY <1>1, <2>1
<1>7. Written(u) = UrlText(s, n, w, h, o, t, q, g)
  BY <1>1 DEF Written, UrlText, UserText, PortText, Optional
<1>8. PICK p, x, k : p = ParseUrl(Written(u)) /\ k = PortOf(o) /\ x = IF t = <<>> THEN <<"/">> ELSE t
  OBVIOUS
<1>9. p.result = "valid" /\ p.url = Url(s, n, w, h, o, k, x, q, g)
  <2>1. UrlParts(s, n, w, h, o, t, q, g)
    BY <1>4, <1>5, <1>6 DEF UrlParts
  <2>2. PICK y : y = Written(u)
    OBVIOUS
  <2>3. x = IF t = <<>> THEN <<"/">> ELSE t
    BY <1>8
  <2>4. y = UrlText(s, n, w, h, o, t, q, g)
    BY <1>7, <2>2
  <2>5. ParseUrl(y).result = "valid" /\ ParseUrl(y).url = Url(s, n, w, h, o, PortOf(o), x, q, g)
    BY ONLY <2>1, <2>3, <2>4, UrlIsRead
  <2> QED BY <1>8, <2>2, <2>5
<1>10. [p.url EXCEPT !.integerPort = 0] = [u EXCEPT !.path = IF u.path = <<>> THEN <<"/">> ELSE u.path]
  BY <1>1, <1>3, <1>8, <1>9 DEF Url
<1>11. HttpPort(p.url) = IF u.port # <<>> THEN Atoi(u.port) ELSE IF u.scheme = <<"https">> THEN 443 ELSE 80
  <2>1. p.url.port = o /\ p.url.integerPort = k /\ p.url.scheme = s
    BY <1>9 DEF Url
  <2>2. o # <<>> => k = Atoi(o)
    <3>1. o # <<>> => PortOf(o) = Atoi(o) % PortLimit
      BY DEF PortOf
    <3> QED BY <1>6, <1>8, <3>1, PortFits
  <2> QED BY <1>1, <2>1, <2>2 DEF HttpPort
<1> QED BY <1>8, <1>9, <1>10, <1>11 DEF ParsesBack

----------------------------------------
(* The inductive invariant *)

(* Where the first request of c ends in what its client sends. *)
End(c) == StreamEnds[stream[c]][1]

(* What is posted to the main thread for the first request. *)
Asked(c) ==
  LET d == stream[c][1] IN
  [conn |-> c,
   request |-> [method |-> d.method, url |-> d.target.url, params |-> d.target.params,
                content |-> d.content],
   keepAlive |-> StaysOpen(d)]

(* The one request of c, or its response, is at one place at most. *)
Places == {"none", "main", "building", "posted", "buffers", "out"}
At(c, place) ==
  /\ \A i \in DOMAIN main : main[i].conn = c =>
       place = "main" /\ main[i] = Asked(c) /\ stream[c][1].target.url \in Handled
  /\ \A i, j \in DOMAIN main : main[i].conn = c /\ main[j].conn = c => i = j
  /\ \A b \in building : b.conn = c => place = "building" /\ b = [conn |-> c, response |-> Wanted(c)]
  /\ posted[c] = IF place = "posted" THEN <<Wanted(c)>> ELSE <<>>
  /\ sendBuffers[c] = IF place = "buffers" THEN <<Wanted(c)>> ELSE <<>>
  /\ out[c] = IF place = "out" THEN <<Wanted(c)>> ELSE <<>>
  /\ writing[c] => place = "buffers"

(* Types, as far as the proofs need them. *)
Types ==
  /\ stream \in [Conns -> Streams]
  /\ sent = [c \in Conns |-> sent[c]] /\ \A c \in Conns : sent[c] \in 0 .. Len(stream[c])
  /\ taken \in [Conns -> Nat] /\ firstRead \in [Conns -> Nat]
  /\ waiting \in [Conns -> BOOLEAN] /\ socket \in [Conns -> {"new", "open", "timed out", "gone"}]
  /\ parser = [c \in Conns |-> parser[c]] /\ buffer = [c \in Conns |-> buffer[c]]
  /\ posted = [c \in Conns |-> posted[c]] /\ sendBuffers = [c \in Conns |-> sendBuffers[c]]
  /\ out = [c \in Conns |-> out[c]] /\ writing = [c \in Conns |-> writing[c]]
  /\ \E S : main \in Seq(S)
  /\ \A i \in DOMAIN main : main[i].conn \in Conns

(* A connection that has read nothing has nothing to answer, and one that
   is new waits for nothing. *)
Begins(c) ==
  /\ socket[c] = "new" => ~waiting[c] /\ taken[c] = 0
  /\ taken[c] <= Len(Chars(c)) /\ firstRead[c] <= taken[c]
  /\ taken[c] = 0 => /\ parser[c] = NewParser("RequestMethodStart") /\ buffer[c] = <<>>
                     /\ At(c, "none")

(* Behind a first request that came whole, while the connection still
   waits, the parser is at its end; what it kept of the data is what
   follows the request, unless it is past the end of a body. *)
Follows(c) ==
  ArrivedWhole(c) /\ waiting[c] =>
    /\ Ended(parser[c]) /\ buffer[c] \in Strings
    /\ ~Unending(parser[c]) => buffer[c] = SubSeq(Chars(c), End(c) + 1, taken[c])

(* The one request, or its response, is somewhere. *)
Answers(c) == ArrivedWhole(c) => \E place \in Places : At(c, place)

(* The invariant. *)
HttpInv == Types /\ \A c \in Conns : Begins(c) /\ Follows(c) /\ Answers(c)

(* What is known of the stream of a connection. *)
LEMMA StreamFacts ==
  ASSUME Types, NEW c \in Conns
  PROVE  /\ stream[c] \in Streams /\ Readable(stream[c]) /\ Chars(c) \in Strings
         /\ Len(Chars(c)) \in Nat /\ End(c) \in 1 .. Len(Chars(c))
         /\ Arrived(c) \in 0 .. Len(Chars(c))
<1>1. stream[c] \in Streams /\ Readable(stream[c])
  <2>1. stream[c] \in Streams
    BY DEF Types
  <2> QED BY <2>1, StreamsAreReadable
<1>2. /\ Chars(c) \in Strings
      /\ \A k \in 0 .. Len(stream[c]) : StreamEnds[stream[c]][k] \in 0 .. Len(Chars(c))
      /\ End(c) > 0 /\ Len(stream[c]) \in Nat \ {0}
  BY <1>1 DEF Readable, Chars, End
<1>3. Len(Chars(c)) \in Nat
  BY <1>2, LenProperties
<1>4. 1 \in 0 .. Len(stream[c]) /\ sent[c] \in 0 .. Len(stream[c])
  <2>1. 1 \in 0 .. Len(stream[c])
    BY <1>2
  <2>2. sent[c] \in 0 .. Len(stream[c])
    BY DEF Types
  <2> QED BY <2>1, <2>2
<1>5. End(c) \in 0 .. Len(Chars(c)) /\ Arrived(c) \in 0 .. Len(Chars(c))
  BY <1>2, <1>4 DEF End, Arrived
<1> QED BY <1>1, <1>2, <1>3, <1>5

----------------------------------------
(* Steps that read nothing *)

(* The invariant holds at first: nobody has sent anything. *)
LEMMA InitHttpInv == Init => HttpInv
<1> SUFFICES ASSUME Init PROVE HttpInv
  OBVIOUS
<1>1. Types
  BY StreamsAssumption, EmptySeq DEF Init, Types
<1>2. ASSUME NEW c \in Conns PROVE Begins(c) /\ Follows(c) /\ Answers(c)
  <2>1. At(c, "none")
    BY EmptySeq DEF Init, At
  <2>2. taken[c] = 0 /\ firstRead[c] = 0 /\ ~waiting[c]
    BY DEF Init
  <2>3. Len(Chars(c)) \in Nat
    BY <1>1, StreamFacts
  <2>4. Begins(c)
    BY <2>1, <2>2, <2>3 DEF Begins, Init
  <2> QED BY <2>1, <2>2, <2>4 DEF Follows, Answers, Places
<1> QED BY <1>1, <1>2 DEF HttpInv

(* A step that neither reads nor answers keeps the invariant if it makes
   no connection new and no wait, but of one that has read nothing ... *)
LEMMA QuietStep ==
  ASSUME HttpInv, Types',
         UNCHANGED <<stream, taken, firstRead, parser, buffer, main, building, posted, sendBuffers, writing, out>>,
         \A c \in Conns : socket'[c] = "new" => socket[c] = "new" /\ ~waiting'[c],
         \A c \in Conns : waiting'[c] /\ taken[c] # 0 => waiting[c]
  PROVE  HttpInv'
<1> SUFFICES ASSUME NEW c \in Conns PROVE (Begins(c) /\ Follows(c) /\ Answers(c))'
  BY DEF HttpInv
<1>1. /\ Begins(c) /\ Follows(c) /\ Answers(c) /\ Types
  BY DEF HttpInv
<1>2. \A place : At(c, place)' = At(c, place)
  BY DEF At, Asked, Wanted
<1>3. Chars(c)' = Chars(c) /\ End(c)' = End(c) /\ ArrivedWhole(c)' = ArrivedWhole(c)
  BY DEF Chars, End, ArrivedWhole
<1>4. ArrivedWhole(c) => taken[c] # 0
  <2>1. firstRead[c] \in Nat /\ taken[c] \in Nat
    BY <1>1 DEF Types
  <2>2. End(c) \in 1 .. Len(Chars(c)) /\ Len(Chars(c)) \in Nat
    BY <1>1, StreamFacts
  <2>3. firstRead[c] <= taken[c]
    BY <1>1 DEF Begins
  <2>4. ArrivedWhole(c) => firstRead[c] >= End(c)
    BY DEF ArrivedWhole, End
  <2> QED BY <2>1, <2>2, <2>3, <2>4
<1>5. Begins(c)'
  BY <1>1, <1>2, <1>3 DEF Begins
<1>6. Follows(c)'
  BY <1>1, <1>3, <1>4 DEF Follows
<1>7. Answers(c)'
  BY <1>1, <1>2, <1>3 DEF Answers
<1> QED BY <1>5, <1>6, <1>7

(* ... and so does one that only moves the request or the response of a
   connection to another place. *)
LEMMA AnswerStep ==
  ASSUME HttpInv, Types', UNCHANGED <<input, reading, timers, socket>>,
         \A c \in Conns : \A place \in Places :
           At(c, place) => \E next \in Places : At(c, next)' /\ (place = "none" => next = "none")
  PROVE  HttpInv'
<1> SUFFICES ASSUME NEW c \in Conns PROVE (Begins(c) /\ Follows(c) /\ Answers(c))'
  BY DEF HttpInv
<1>1. /\ Begins(c) /\ Follows(c) /\ Answers(c) /\ Types
  BY DEF HttpInv
<1>2. UNCHANGED <<stream, taken, firstRead, parser, buffer, waiting, socket>>
  BY DEF input, reading
<1>3. Chars(c)' = Chars(c) /\ End(c)' = End(c) /\ ArrivedWhole(c)' = ArrivedWhole(c)
  BY <1>2 DEF Chars, End, ArrivedWhole
<1>4. At(c, "none") => At(c, "none")'
  BY DEF Places
<1>5. Begins(c)'
  BY <1>1, <1>2, <1>3, <1>4 DEF Begins
<1>6. Follows(c)'
  BY <1>1, <1>2, <1>3 DEF Follows
<1>7. Answers(c)'
  BY <1>1, <1>3 DEF Answers
<1> QED BY <1>5, <1>6, <1>7

(* A handler is called: the request becomes its response. *)
LEMMA HandleInv == ASSUME HttpInv, Handle PROVE HttpInv'
<1>1. /\ main # <<>> /\ main' = Tail(main) /\ Types
      /\ UNCHANGED <<input, reading, timers, posted, sendBuffers, writing, out, socket>>
  BY DEF Handle, HttpInv
<1> DEFINE task == Head(main)
           r == [conn |-> task.conn,
                 response |-> [code |-> 200, keepAlive |-> task.keepAlive, content |-> task.request.url]]
<1>2. building' = building \cup {r}
  BY DEF Handle
<1>3. PICK S : main \in Seq(S)
  BY <1>1 DEF Types
<1>4. /\ main' \in Seq(S) /\ 1 \in DOMAIN main /\ task = main[1]
      /\ \A i \in DOMAIN main' : i \in Nat /\ i + 1 \in DOMAIN main /\ main'[i] = main[i+1]
  BY <1>1, <1>3, HeadTailProperties, LenProperties
<1>5. Types'
  BY <1>1, <1>4 DEF Types, input, reading
<1>6. ASSUME NEW c \in Conns, NEW place \in Places, At(c, place)
      PROVE  \E next \in Places : At(c, next)' /\ (place = "none" => next = "none")
  <2>1. UNCHANGED <<stream, posted, sendBuffers, writing, out>>
    BY <1>1 DEF input
  <2>2. Asked(c)' = Asked(c) /\ Wanted(c)' = Wanted(c)
    BY <2>1 DEF Asked, Wanted
  <2>3. CASE main[1].conn = c
    <3>1. /\ place = "main" /\ main[1] = Asked(c) /\ stream[c][1].target.url \in Handled
          /\ \A i \in DOMAIN main : main[i].conn = c => i = 1
      BY <1>4, <1>6, <2>3 DEF At
    <3>2. r = [conn |-> c, response |-> Wanted(c)]
      BY <1>4, <3>1 DEF Asked, Wanted
    <3>3. \A i \in DOMAIN main' : main'[i].conn # c
      BY <1>4, <3>1
    <3> HIDE DEF r, task
    <3>4. At(c, "building")'
      BY <1>6, <3>1, <1>2, <3>2, <2>1, <2>2, <3>3 DEF At
    <3> QED BY <3>1, <3>4 DEF Places
  <2>4. CASE main[1].conn # c
    <3>1. r.conn # c
      BY <1>4, <2>4
    <3> HIDE DEF r, task
    <3>2. \A b \in building' : b.conn = c => b \in building
      BY <1>2, <3>1
    <3>3. \A i \in DOMAIN main' : main'[i].conn = c =>
            place = "main" /\ main'[i] = Asked(c) /\ stream[c][1].target.url \in Handled
      BY <1>4, <1>6 DEF At
    <3>4. \A i, j \in DOMAIN main' : main'[i].conn = c /\ main'[j].conn = c => i = j
      <4> SUFFICES ASSUME NEW i \in DOMAIN main', NEW j \in DOMAIN main', main'[i].conn = c, main'[j].conn = c
                   PROVE  i = j
        OBVIOUS
      <4>1. i + 1 \in DOMAIN main /\ j + 1 \in DOMAIN main /\ i \in Nat /\ j \in Nat
            /\ main[i+1].conn = c /\ main[j+1].conn = c
        BY <1>4
      <4>2. i + 1 = j + 1
        BY <1>6, <4>1 DEF At
      <4> QED BY <4>1, <4>2
    <3>5. At(c, place)'
      BY <1>6, <2>1, <2>2, <3>2, <3>3, <3>4 DEF At
    <3> QED BY <3>5
  <2> QED BY <2>3, <2>4
<1> QED BY <1>1, <1>5, <1>6, AnswerStep

(* The response is posted ... *)
LEMMA ReleaseInv == ASSUME HttpInv, NEW b \in building, Release(b) PROVE HttpInv'
<1>1. /\ building' = building \ {b} /\ posted' = [posted EXCEPT ![b.conn] = Append(@, b.response)] /\ Types
      /\ UNCHANGED <<input, reading, timers, main, sendBuffers, writing, out, socket>>
  BY DEF Release, HttpInv
<1>2. Types'
  BY <1>1 DEF Types, input, reading
<1>3. ASSUME NEW c \in Conns, NEW place \in Places, At(c, place)
      PROVE  \E next \in Places : At(c, next)' /\ (place = "none" => next = "none")
  <2>1. UNCHANGED <<stream, main, sendBuffers, writing, out>>
    BY <1>1 DEF input
  <2>2. Asked(c)' = Asked(c) /\ Wanted(c)' = Wanted(c)
    BY <2>1 DEF Asked, Wanted
  <2>3. posted = [d \in Conns |-> posted[d]]
    BY <1>1 DEF Types
  <2>4. CASE b.conn = c
    <3>1. place = "building" /\ b = [conn |-> c, response |-> Wanted(c)]
      BY <1>3, <2>4 DEF At
    <3>2. posted[c] = <<>>
      BY <1>3, <3>1 DEF At
    <3>3. posted'[c] = Append(<<>>, Wanted(c))
      BY <1>1, <2>3, <2>4, <3>1, <3>2
    <3>4. posted'[c] = <<Wanted(c)>>
      BY <3>3
    <3>5. \A x \in building' : x.conn # c
      BY <1>1, <1>3, <3>1 DEF At
    <3>6. At(c, "posted")'
      BY <1>3, <2>1, <2>2, <3>1, <3>4, <3>5 DEF At
    <3> QED BY <3>1, <3>6 DEF Places
  <2>5. CASE b.conn # c
    <3>1. posted'[c] = posted[c]
      BY <1>1, <2>3, <2>5
    <3>2. At(c, place)'
      BY <1>1, <1>3, <2>1, <2>2, <3>1 DEF At
    <3> QED BY <3>2
  <2> QED BY <2>4, <2>5
<1> QED BY <1>1, <1>2, <1>3, AnswerStep

(* ... queued, with nothing before it ... *)
LEMMA RunPostedInv == ASSUME HttpInv, NEW d \in Conns, RunPosted(d) PROVE HttpInv'
<1>1. /\ posted[d] # <<>> /\ posted' = [posted EXCEPT ![d] = Tail(@)] /\ Types
      /\ sendBuffers' = [sendBuffers EXCEPT ![d] = Append(sendBuffers[d], Head(posted[d]))]
      /\ writing' \in {writing, [writing EXCEPT ![d] = Append(sendBuffers[d], Head(posted[d])) # <<>>]}
      /\ UNCHANGED <<input, reading, timers, main, building, out, socket>>
  BY DEF RunPosted, HttpInv, DoSend
<1>2. /\ posted = [c \in Conns |-> posted[c]] /\ sendBuffers = [c \in Conns |-> sendBuffers[c]]
      /\ writing = [c \in Conns |-> writing[c]]
  BY <1>1 DEF Types
<1>3. Types'
  BY <1>1, <1>2 DEF Types, input, reading
<1>4. ASSUME NEW c \in Conns, NEW place \in Places, At(c, place)
      PROVE  \E next \in Places : At(c, next)' /\ (place = "none" => next = "none")
  <2>1. UNCHANGED <<stream, main, building, out>>
    BY <1>1 DEF input
  <2>2. Asked(c)' = Asked(c) /\ Wanted(c)' = Wanted(c)
    BY <2>1 DEF Asked, Wanted
  <2>3. CASE d = c
    <3>1. place = "posted" /\ posted[c] = <<Wanted(c)>> /\ sendBuffers[c] = <<>>
      BY <1>1, <1>4, <2>3 DEF At
    <3>2. posted'[c] = Tail(<<Wanted(c)>>) /\ sendBuffers'[c] = Append(<<>>, Head(<<Wanted(c)>>))
      BY <1>1, <1>2, <2>3, <3>1
    <3>3. posted'[c] = <<>> /\ sendBuffers'[c] = <<Wanted(c)>>
      BY <3>2
    <3>4. At(c, "buffers")'
      BY <1>4, <2>1, <2>2, <3>1, <3>3 DEF At
    <3> QED BY <3>1, <3>4 DEF Places
  <2>4. CASE d # c
    BY <1>1, <1>2, <2>4, <1>4, <2>1, <2>2 DEF At
  <2> QED BY <2>3, <2>4
<1> QED BY <1>1, <1>3, <1>4, AnswerStep

(* ... and written. *)
LEMMA WriteDoneInv == ASSUME HttpInv, NEW d \in Conns, WriteDone(d) PROVE HttpInv'
<1>1. /\ writing[d] /\ out' = [out EXCEPT ![d] = Append(@, Head(sendBuffers[d]))] /\ Types
      /\ sendBuffers' = [sendBuffers EXCEPT ![d] = Tail(sendBuffers[d])]
      /\ writing' = [writing EXCEPT ![d] = Tail(sendBuffers[d]) # <<>>]
      /\ UNCHANGED <<input, reading, timers, main, building, posted, socket>>
  BY DEF WriteDone, HttpInv, DoSend
<1>2. /\ out = [c \in Conns |-> out[c]] /\ sendBuffers = [c \in Conns |-> sendBuffers[c]]
      /\ writing = [c \in Conns |-> writing[c]]
  BY <1>1 DEF Types
<1>3. Types'
  BY <1>1, <1>2 DEF Types, input, reading
<1>4. ASSUME NEW c \in Conns, NEW place \in Places, At(c, place)
      PROVE  \E next \in Places : At(c, next)' /\ (place = "none" => next = "none")
  <2>1. UNCHANGED <<stream, main, building, posted>>
    BY <1>1 DEF input
  <2>2. Asked(c)' = Asked(c) /\ Wanted(c)' = Wanted(c)
    BY <2>1 DEF Asked, Wanted
  <2>3. CASE d = c
    <3>1. place = "buffers" /\ sendBuffers[c] = <<Wanted(c)>> /\ out[c] = <<>>
      BY <1>1, <1>4, <2>3 DEF At
    <3>2. /\ out'[c] = Append(<<>>, Head(<<Wanted(c)>>)) /\ sendBuffers'[c] = Tail(<<Wanted(c)>>)
          /\ writing'[c] = (Tail(<<Wanted(c)>>) # <<>>)
      BY <1>1, <1>2, <2>3, <3>1
    <3>3. out'[c] = <<Wanted(c)>> /\ sendBuffers'[c] = <<>> /\ ~writing'[c]
      <4>1. Head(<<Wanted(c)>>) = Wanted(c) /\ Tail(<<Wanted(c)>>) = <<>> /\ Append(<<>>, Wanted(c)) = <<Wanted(c)>>
        OBVIOUS
      <4> QED BY <3>2, <4>1
    <3>4. At(c, "out")'
      BY <1>4, <2>1, <2>2, <3>1, <3>3 DEF At
    <3> QED BY <3>1, <3>4 DEF Places
  <2>4. CASE d # c
    BY <1>1, <1>2, <2>4, <1>4, <2>1, <2>2 DEF At
  <2> QED BY <2>3, <2>4
<1> QED BY <1>1, <1>3, <1>4, AnswerStep

(* A response whose write fails stays in the buffers for good. *)
LEMMA WriteFailsInv == ASSUME HttpInv, NEW d \in Conns, WriteFails(d) PROVE HttpInv'
<1>1. /\ writing' = [writing EXCEPT ![d] = FALSE] /\ Types
      /\ UNCHANGED <<input, reading, timers, main, building, posted, sendBuffers, out, socket>>
  BY DEF WriteFails, HttpInv
<1>2. writing = [c \in Conns |-> writing[c]]
  BY <1>1 DEF Types
<1>3. Types'
  <2>1. writing' = [c \in Conns |-> writing'[c]]
    BY <1>1, <1>2
  <2> QED BY <1>1, <2>1 DEF Types, input, reading
<1>4. ASSUME NEW c \in Conns, NEW place \in Places, At(c, place)
      PROVE  \E next \in Places : At(c, next)' /\ (place = "none" => next = "none")
  <2>1. UNCHANGED <<stream, main, building, posted, sendBuffers, out>>
    BY <1>1 DEF input
  <2>2. Asked(c)' = Asked(c) /\ Wanted(c)' = Wanted(c)
    BY <2>1 DEF Asked, Wanted
  <2>3. writing'[c] => writing[c]
    BY <1>1, <1>2
  <2>4. At(c, place)'
    BY <1>4, <2>1, <2>2, <2>3 DEF At
  <2> QED BY <2>4
<1> QED BY <1>1, <1>3, <1>4, AnswerStep

(* Steps of the client, of timers and of the end of a connection. *)
LEMMA QuietSteps ==
  ASSUME HttpInv, NEW d \in Conns,
         Send(d) \/ Leave(d) \/ Accept(d) \/ ArmTimer(d) \/ TimerExpires(d) \/ TimerRuns(d)
           \/ ReadFails(d) \/ Destroy(d)
  PROVE  HttpInv'
<1>1. UNCHANGED <<stream, taken, firstRead, parser, buffer, main, building, posted, sendBuffers, writing, out>>
  BY DEF Send, Leave, Accept, ArmTimer, TimerExpires, TimerRuns, ReadFails, Destroy, input, reading, answers
<1>2. Types /\ \A c \in Conns : Begins(c)
  BY DEF HttpInv
<1>3. /\ waiting \in [Conns -> BOOLEAN] /\ socket \in [Conns -> {"new", "open", "timed out", "gone"}]
      /\ sent = [c \in Conns |-> sent[c]] /\ stream \in [Conns -> Streams]
      /\ \A c \in Conns : sent[c] \in 0 .. Len(stream[c]) /\ Len(stream[c]) \in Nat
  <2>1. \A c \in Conns : Len(stream[c]) \in Nat
    BY <1>2, StreamsAssumption DEF Types, Readable
  <2> QED BY <1>2, <2>1 DEF Types
<1>4. sent' = [c \in Conns |-> sent'[c]] /\ \A c \in Conns : sent'[c] \in 0 .. Len(stream[c])
  <2>1. CASE Send(d)
    <3>1. sent' = [sent EXCEPT ![d] = @ + 1] /\ sent[d] < Len(stream[d])
      BY <2>1 DEF Send
    <3>2. sent[d] + 1 \in 0 .. Len(stream[d])
      <4>1. sent[d] \in 0 .. Len(stream[d]) /\ Len(stream[d]) \in Nat
        BY <1>3
      <4> QED BY <3>1, <4>1
    <3> QED BY <1>3, <3>1, <3>2
  <2>2. CASE ~Send(d)
    <3>1. sent' = sent
      BY <2>2 DEF Leave, Accept, ArmTimer, TimerExpires, TimerRuns, ReadFails, Destroy, input
    <3> QED BY <1>3, <3>1
  <2> QED BY <2>1, <2>2
<1>5. /\ waiting' \in {waiting, [waiting EXCEPT ![d] = FALSE]} \/ (Accept(d) /\ waiting' = [waiting EXCEPT ![d] = TRUE])
  BY DEF Send, Leave, Accept, ArmTimer, TimerExpires, TimerRuns, ReadFails, Destroy, reading, Stop
<1>6. \/ socket' = socket
      \/ socket' = [socket EXCEPT ![d] = "open"] /\ Accept(d)
      \/ socket' = [socket EXCEPT ![d] = IF @ = "open" THEN "timed out" ELSE @]
      \/ socket' = [socket EXCEPT ![d] = "gone"]
  BY DEF Send, Leave, Accept, ArmTimer, TimerExpires, TimerRuns, ReadFails, Destroy
<1>7. Accept(d) => socket[d] = "new" /\ taken[d] = 0 /\ socket' = [socket EXCEPT ![d] = "open"]
  BY <1>2 DEF Accept, Begins
<1>8. socket' \in [Conns -> {"new", "open", "timed out", "gone"}] /\ waiting' \in [Conns -> BOOLEAN]
  BY <1>3, <1>5, <1>6
<1>9. Types'
  BY <1>1, <1>2, <1>4, <1>8 DEF Types
<1>10. ASSUME NEW c \in Conns, socket'[c] = "new" PROVE socket[c] = "new" /\ ~waiting'[c]
  <2>1. socket[c] = "new" /\ (Accept(d) => d # c)
    BY <1>3, <1>6, <1>7, <1>10
  <2>2. ~waiting[c]
    BY <1>2, <2>1 DEF Begins
  <2> QED BY <1>3, <1>5, <2>1, <2>2
<1>11. ASSUME NEW c \in Conns, waiting'[c], taken[c] # 0 PROVE waiting[c]
  BY <1>3, <1>5, <1>7, <1>11
<1> QED BY <1>1, <1>9, <1>10, <1>11, QuietStep

----------------------------------------
(* Reading *)

(* A step that reads n characters of d and parses them to p. *)
Reads(d, n, p) ==
  /\ waiting[d] /\ socket[d] = "open" /\ n \in Sizes(d) /\ p \in ParseRequest(parser[d], Text(d, n))
  /\ taken' = [taken EXCEPT ![d] = @ + n]
  /\ TakeRequest(d, n, p) \/ Refuse(d, n, p) \/ ReadOn(d, n, p) \/ Crash(d, n, p)

(* What such a step writes, whatever the parser says. *)
LEMMA ReadsTypes ==
  ASSUME HttpInv, NEW d \in Conns, NEW n, NEW p, Reads(d, n, p)
  PROVE  /\ Types'
         /\ UNCHANGED <<stream, sent, building, sendBuffers, writing, out, socket>>
         /\ n \in Nat \ {0} /\ taken[d] + n <= Len(Chars(d)) /\ taken[d] \in Nat
         /\ firstRead' = [firstRead EXCEPT ![d] = IF taken[d] = 0 THEN n ELSE @]
         /\ parser' = [parser EXCEPT ![d] = p.o]
         /\ \A c \in Conns : c # d => /\ taken'[c] = taken[c] /\ firstRead'[c] = firstRead[c]
                                      /\ parser'[c] = parser[c] /\ buffer'[c] = buffer[c]
                                      /\ waiting'[c] = waiting[c] /\ posted'[c] = posted[c]
         /\ main' = main \/ \E x : x.conn = d /\ main' = Append(main, x)
<1>1. Types
  BY DEF HttpInv
<1>2. /\ taken \in [Conns -> Nat] /\ firstRead \in [Conns -> Nat]
      /\ waiting \in [Conns -> BOOLEAN]
      /\ parser = [c \in Conns |-> parser[c]] /\ buffer = [c \in Conns |-> buffer[c]]
      /\ posted = [c \in Conns |-> posted[c]]
  BY <1>1 DEF Types
<1>3. n \in Nat \ {0} /\ taken[d] + n <= Len(Chars(d)) /\ taken[d] \in Nat
  BY <1>1, <1>2, StreamFacts DEF Reads, Sizes
<1>4. Read(d, n, p)
  BY DEF Reads, TakeRequest, Refuse, ReadOn, Crash
<1>5. /\ firstRead' = [firstRead EXCEPT ![d] = IF taken[d] = 0 THEN n ELSE @]
      /\ parser' = [parser EXCEPT ![d] = p.o]
  BY <1>4 DEF Read
<1>6. UNCHANGED <<input, building, sendBuffers, writing, out, socket>>
  BY DEF Reads, TakeRequest, Refuse, ReadOn, Crash, answers
<1>7. \E x : buffer' = [buffer EXCEPT ![d] = x]
  BY DEF Reads, TakeRequest, Refuse, ReadOn, Crash
<1>8. waiting' = [waiting EXCEPT ![d] = TRUE] \/ waiting' = [waiting EXCEPT ![d] = FALSE]
  BY DEF Reads, TakeRequest, Refuse, ReadOn, Crash, Restart, Stop
<1>9. posted' = posted \/ \E x : posted' = [posted EXCEPT ![d] = x]
  <2>1. CASE TakeRequest(d, n, p)
    BY <2>1 DEF TakeRequest
  <2>2. CASE ~TakeRequest(d, n, p)
    BY <2>2 DEF Reads, Refuse, ReadOn, Crash, answers
  <2> QED BY <2>1, <2>2
<1>10. main' = main \/ \E x : x.conn = d /\ main' = Append(main, x)
  <2>1. CASE TakeRequest(d, n, p)
    BY <2>1 DEF TakeRequest
  <2>2. CASE ~TakeRequest(d, n, p)
    BY <2>2 DEF Reads, Refuse, ReadOn, Crash, answers
  <2> QED BY <2>1, <2>2
<1>11. taken' = [taken EXCEPT ![d] = @ + n]
  BY DEF Reads
<1>12. \A c \in Conns : c # d => /\ taken'[c] = taken[c] /\ firstRead'[c] = firstRead[c]
                                 /\ parser'[c] = parser[c] /\ buffer'[c] = buffer[c]
                                 /\ waiting'[c] = waiting[c] /\ posted'[c] = posted[c]
  BY <1>2, <1>5, <1>7, <1>8, <1>9, <1>11
<1>13. Types'
  <2>1. (\E S : main' \in Seq(S)) /\ \A i \in DOMAIN main' : main'[i].conn \in Conns
    <3>1. PICK S : main \in Seq(S)
      BY <1>1 DEF Types
    <3>2. ASSUME NEW x, x.conn = d, main' = Append(main, x)
          PROVE  main' \in Seq(S \cup {x}) /\ \A i \in DOMAIN main' : main'[i].conn \in Conns
      <4>1. main \in Seq(S \cup {x})
        BY <3>1, SeqMonotonic
      <4>2. /\ DOMAIN main' = 1 .. Len(main) + 1 /\ main'[Len(main) + 1] = x
            /\ \A i \in 1 .. Len(main) : main'[i] = main[i]
            /\ DOMAIN main = 1 .. Len(main) /\ Len(main) \in Nat
        BY <3>2, <4>1, AppendProperties, LenProperties
      <4>3. \A i \in DOMAIN main : main[i].conn \in Conns
        BY <1>1 DEF Types
      <4>4. \A i \in DOMAIN main' : main'[i].conn \in Conns
        BY <3>2, <4>2, <4>3
      <4> QED BY <3>2, <4>1, <4>4
    <3>3. CASE main' = main
      BY <1>1, <3>1, <3>3 DEF Types
    <3> QED BY <1>10, <3>2, <3>3
  <2>2. taken' \in [Conns -> Nat] /\ firstRead' \in [Conns -> Nat]
    <3>1. taken[d] + n \in Nat /\ n \in Nat
      BY <1>3
    <3> QED BY <1>2, <1>5, <1>11, <3>1
  <2>3. waiting' \in [Conns -> BOOLEAN]
    BY <1>2, <1>8
  <2>4. /\ parser' = [c \in Conns |-> parser'[c]] /\ buffer' = [c \in Conns |-> buffer'[c]]
        /\ posted' = [c \in Conns |-> posted'[c]]
    BY <1>2, <1>5, <1>7, <1>9
  <2> QED BY <1>1, <1>6, <2>1, <2>2, <2>3, <2>4 DEF Types, input
<1> QED BY <1>3, <1>5, <1>6, <1>10, <1>12, <1>13 DEF input

(* It leaves other connections alone: they have parsers, buffers and
   closures of their own. *)
LEMMA ReadsOthers ==
  ASSUME HttpInv, NEW d \in Conns, NEW n, NEW p, Reads(d, n, p), NEW c \in Conns, c # d
  PROVE  (Begins(c) /\ Follows(c) /\ Answers(c))'
<1>1. Types /\ Begins(c) /\ Follows(c) /\ Answers(c)
  BY DEF HttpInv
<1>2. /\ UNCHANGED <<stream, sent, building, sendBuffers, writing, out, socket>>
      /\ taken'[c] = taken[c] /\ firstRead'[c] = firstRead[c]
      /\ parser'[c] = parser[c] /\ buffer'[c] = buffer[c]
      /\ waiting'[c] = waiting[c] /\ posted'[c] = posted[c]
      /\ main' = main \/ \E x : x.conn = d /\ main' = Append(main, x)
  BY ReadsTypes
<1>3. Chars(c)' = Chars(c) /\ End(c)' = End(c) /\ ArrivedWhole(c)' = ArrivedWhole(c)
  BY <1>2 DEF Chars, End, ArrivedWhole
<1>4. Asked(c)' = Asked(c) /\ Wanted(c)' = Wanted(c)
  BY <1>2 DEF Asked, Wanted
<1>5. \A i \in DOMAIN main' : main'[i].conn = c => i \in DOMAIN main /\ main'[i] = main[i]
  <2>1. CASE main' = main
    BY <2>1
  <2>2. ASSUME NEW x, x.conn = d, main' = Append(main, x)
        PROVE  \A i \in DOMAIN main' : main'[i].conn = c => i \in DOMAIN main /\ main'[i] = main[i]
    <3>1. PICK S : main \in Seq(S)
      BY <1>1 DEF Types
    <3>2. main \in Seq(S \cup {x})
      BY <3>1, SeqMonotonic
    <3>3. /\ DOMAIN main' = 1 .. Len(main) + 1 /\ main'[Len(main) + 1] = x
          /\ \A i \in 1 .. Len(main) : main'[i] = main[i]
          /\ DOMAIN main = 1 .. Len(main) /\ Len(main) \in Nat
      BY <2>2, <3>2, AppendProperties, LenProperties
    <3> QED BY <2>2, <3>3
  <2> QED BY <1>2, <2>1, <2>2
<1>6. ASSUME NEW place, At(c, place) PROVE At(c, place)'
  <2>1. \A i \in DOMAIN main' : main'[i].conn = c =>
          place = "main" /\ main'[i] = Asked(c) /\ stream[c][1].target.url \in Handled
    BY <1>5, <1>6 DEF At
  <2>2. \A i, j \in DOMAIN main' : main'[i].conn = c /\ main'[j].conn = c => i = j
    BY <1>5, <1>6 DEF At
  <2> QED BY <1>2, <1>4, <1>6, <2>1, <2>2 DEF At
<1>7. Begins(c)'
  BY <1>1, <1>2, <1>3, <1>6 DEF Begins
<1>8. Follows(c)'
  BY <1>1, <1>2, <1>3 DEF Follows
<1>9. Answers(c)'
  BY <1>1, <1>3, <1>6 DEF Answers
<1> QED BY <1>7, <1>8, <1>9

(* A first read parses what the client sent first ... *)
LEMMA FirstText ==
  ASSUME HttpInv, NEW d \in Conns, NEW n, NEW p, Reads(d, n, p), taken[d] = 0
  PROVE  /\ n \in 1 .. Len(Chars(d)) /\ Fresh(d, n) = SubSeq(Chars(d), 1, n)
         /\ p \in ParseRequest(NewParser("RequestMethodStart"), SubSeq(Chars(d), 1, n))
<1>1. Types /\ Begins(d)
  BY DEF HttpInv
<1>2. n \in 1 .. Len(Chars(d)) /\ Len(Chars(d)) \in Nat
  BY ReadsTypes, <1>1, StreamFacts
<1>3. Chars(d) \in Strings
  BY <1>1, StreamFacts
<1>4. Fresh(d, n) = SubSeq(Chars(d), 1, n)
  BY <1>2 DEF Fresh
<1>5. SubSeq(Chars(d), 1, n) \in Strings /\ Len(SubSeq(Chars(d), 1, n)) = n
  <2>1. \A i \in 1 .. n : Chars(d)[i] \in Symbols
    <3>1. \A i \in 1 .. n : i \in 1 .. Len(Chars(d))
      BY <1>2
    <3> QED BY <1>3, <3>1, ElementOfSeq
  <2> QED BY <1>2, <2>1, SubSeqProperties
<1>6. Text(d, n) = SubSeq(Chars(d), 1, n)
  <2>1. buffer[d] = <<>>
    BY <1>1 DEF Begins
  <2>2. <<>> \o SubSeq(Chars(d), 1, n) = SubSeq(Chars(d), 1, n)
    BY <1>5, ConcatEmptySeq
  <2>3. Text(d, n) = SubSeq(SubSeq(Chars(d), 1, n), 1, n)
    BY <1>4, <2>1, <2>2 DEF Text
  <2> HIDE DEF Text
  <2> QED BY <1>2, <1>5, <2>3, SubSeqFull
<1>7. parser[d] = NewParser("RequestMethodStart")
  BY <1>1 DEF Begins
<1> QED BY <1>2, <1>4, <1>6, <1>7 DEF Reads

(* ... and keeps what follows the request. *)
LEMMA FirstLeftOver ==
  ASSUME HttpInv, NEW d \in Conns, NEW n, NEW p, Reads(d, n, p), taken[d] = 0,
         End(d) <= n, p.remainSize = n - End(d)
  PROVE  /\ LeftOver(d, n, p) = SubSeq(Chars(d), End(d) + 1, n)
         /\ LeftOver(d, n, p) \in Strings
<1>1. /\ n \in 1 .. Len(Chars(d)) /\ Fresh(d, n) = SubSeq(Chars(d), 1, n)
  BY FirstText
<1>2. Types
  BY DEF HttpInv
<1>3. /\ Chars(d) \in Strings /\ Len(Chars(d)) \in Nat /\ End(d) \in 1 .. Len(Chars(d))
      /\ Readable(stream[d])
  BY <1>2, StreamFacts
<1> DEFINE data == SubSeq(Chars(d), 1, n)
<1>4. \A i \in 1 .. n : data[i] = Chars(d)[i]
  <2>1. \A i \in 1 .. n : Chars(d)[i] \in Symbols
    <3>1. \A i \in 1 .. n : i \in 1 .. Len(Chars(d))
      BY <1>1, <1>3
    <3> QED BY <1>3, <3>1, ElementOfSeq
  <2>2. \A i \in 1 .. n - 1 + 1 : data[i] = Chars(d)[1 + i - 1]
    BY <1>1, <2>1, SubSeqProperties
  <2>3. \A i \in 1 .. n : i \in 1 .. n - 1 + 1 /\ 1 + i - 1 = i
    BY <1>1
  <2> HIDE DEF data
  <2> QED BY <2>2, <2>3
<1>5. p.remainSize > 0 => data[n - p.remainSize + 1] # NUL
  <2> SUFFICES ASSUME p.remainSize > 0 PROVE data[n - p.remainSize + 1] # NUL
    OBVIOUS
  <2>1. n - p.remainSize + 1 = End(d) + 1 /\ End(d) + 1 \in 1 .. n /\ End(d) < Len(Chars(d))
    BY <1>1, <1>3
  <2>2. Chars(d)[End(d) + 1] # NUL
    BY <1>3, <2>1 DEF Readable, Chars, End
  <2> HIDE DEF data
  <2> QED BY <1>4, <2>1, <2>2
<1>6. LeftOver(d, n, p) = SubSeq(data, n - p.remainSize + 1, n)
  <2> HIDE DEF data
  <2>1. Fresh(d, n) = data
    BY <1>1 DEF data
  <2> QED BY <1>5, <2>1 DEF LeftOver
<1>7. n - p.remainSize + 1 = End(d) + 1 /\ End(d) + 1 \in Nat \ {0} /\ n \in Nat
  BY <1>1, <1>3
<1>8. SubSeq(Chars(d), End(d) + 1, n) \in Strings
  BY <1>1, <1>3, ElementOfSeq, <1>7, SubSeqProperties
<1>9. SubSeq(data, End(d) + 1, n) = SubSeq(Chars(d), End(d) + 1, n)
  <2>1. CASE End(d) = n
    BY <1>1, <1>3, <2>1, SubSeqEmpty
  <2>2. CASE End(d) # n
    <3>1. /\ 1 \in 1 .. Len(Chars(d)) /\ n \in 1 .. Len(Chars(d))
          /\ End(d) + 1 \in 1 .. n - 1 + 1 /\ n \in 1 .. n - 1 + 1
      BY <1>1, <1>3, <2>2
    <3>2. SubSeq(data, End(d) + 1, n) = SubSeq(Chars(d), 1 + (End(d) + 1) - 1, 1 + n - 1)
      BY SMTT(30), <1>3, <3>1, SubSeqOfSubSeq
    <3>3. 1 + (End(d) + 1) - 1 = End(d) + 1 /\ 1 + n - 1 = n
      BY <1>1, <1>3
    <3> QED BY <3>2, <3>3
  <2> QED BY <2>1, <2>2
<1> QED BY <1>6, <1>7, <1>8, <1>9

(* A first read that holds the whole request posts it, or its 404, and
   leaves a parser that has ended. *)
LEMMA ReadsFirst ==
  ASSUME HttpInv, NEW d \in Conns, NEW n, NEW p, Reads(d, n, p), taken[d] = 0, End(d) <= n
  PROVE  Follows(d)' /\ Answers(d)'
<1>1. Types /\ Begins(d)
  BY DEF HttpInv
<1>2. /\ n \in 1 .. Len(Chars(d))
      /\ p \in ParseRequest(NewParser("RequestMethodStart"), SubSeq(Chars(d), 1, n))
  BY FirstText
<1>3. /\ Chars(d) \in Strings /\ Len(Chars(d)) \in Nat /\ End(d) \in 1 .. Len(Chars(d))
      /\ Readable(stream[d])
  BY <1>1, StreamFacts
<1> DEFINE s == stream[d][1]
<1>4. /\ p.result = "ParsingCompleted" /\ p.remainSize = n - End(d) /\ Ended(p.o)
      /\ p.m.method = s.method /\ p.m.uri = s.uri /\ p.m.content = s.content
      /\ p.m.keepAlive = StaysOpen(s) /\ Params(s.uri) = s.target
  BY <1>2, <1>3 DEF Chars, End, Readable
<1>5. TakeRequest(d, n, p)
  BY <1>4 DEF Reads, Refuse, ReadOn, Crash
<1> DEFINE request == [method |-> s.method, url |-> s.target.url, params |-> s.target.params,
                       content |-> s.content]
<1>6. /\ buffer' = [buffer EXCEPT ![d] = LeftOver(d, n, p)]
      /\ \/ /\ s.target.url \in Handled /\ UNCHANGED posted
            /\ main' = Append(main, [conn |-> d, request |-> request, keepAlive |-> StaysOpen(s)])
         \/ /\ s.target.url \notin Handled /\ UNCHANGED main
            /\ posted' = [posted EXCEPT ![d] =
                            Append(@, [code |-> 404, keepAlive |-> StaysOpen(s), content |-> <<>>])]
  BY <1>4, <1>5 DEF TakeRequest, AskedBy
<1>7. /\ UNCHANGED <<stream, sent, building, sendBuffers, writing, out, socket>>
      /\ parser' = [parser EXCEPT ![d] = p.o] /\ taken' = [taken EXCEPT ![d] = @ + n]
  <2>1. /\ UNCHANGED <<stream, sent, building, sendBuffers, writing, out, socket>>
        /\ parser' = [parser EXCEPT ![d] = p.o]
    BY ReadsTypes
  <2>2. taken' = [taken EXCEPT ![d] = @ + n]
    BY DEF Reads
  <2> QED BY <2>1, <2>2
<1>8. /\ buffer = [c \in Conns |-> buffer[c]] /\ parser = [c \in Conns |-> parser[c]]
      /\ posted = [c \in Conns |-> posted[c]] /\ taken \in [Conns -> Nat]
  BY <1>1 DEF Types
<1>9. /\ parser'[d] = p.o /\ taken'[d] = n
      /\ buffer'[d] = SubSeq(Chars(d), End(d) + 1, n) /\ buffer'[d] \in Strings
  BY <1>6, <1>7, <1>8, <1>2, <1>4, FirstLeftOver
<1>10. Follows(d)'
  <2>1. Chars(d)' = Chars(d) /\ End(d)' = End(d)
    BY <1>7 DEF Chars, End
  <2> QED BY <1>4, <1>9, <2>1 DEF Follows
<1>11. Asked(d)' = Asked(d) /\ Wanted(d)' = Wanted(d)
  BY <1>7 DEF Asked, Wanted
<1>12. At(d, "none")
  BY <1>1 DEF Begins
<1>13. Answers(d)'
  <2>1. CASE s.target.url \in Handled
    <3>1. main' = Append(main, Asked(d)) /\ UNCHANGED posted
      BY <1>6, <2>1 DEF Asked
    <3>2. PICK S : main \in Seq(S)
      BY <1>1 DEF Types
    <3>3. /\ DOMAIN main' = 1 .. Len(main) + 1 /\ main'[Len(main) + 1] = Asked(d)
          /\ \A i \in 1 .. Len(main) : main'[i] = main[i]
          /\ DOMAIN main = 1 .. Len(main) /\ Len(main) \in Nat
      BY <3>2, SeqMonotonic, <3>1, AppendProperties, LenProperties
    <3>4. \A i \in DOMAIN main : main[i].conn # d
      BY <1>12 DEF At
    <3>5. \A i \in DOMAIN main' : main'[i].conn = d => i = Len(main) + 1
      BY <3>3, <3>4
    <3>6. At(d, "main")'
      BY <1>7, <1>11, <1>12, <2>1, <3>1, <3>3, <3>5 DEF At
    <3> QED BY <3>6 DEF Answers, Places
  <2>2. CASE s.target.url \notin Handled
    <3>1. UNCHANGED main /\ posted'[d] = Append(posted[d], Wanted(d))
      BY <1>6, <1>8, <2>2 DEF Wanted
    <3>2. posted[d] = <<>>
      BY <1>12 DEF At
    <3>3. posted'[d] = <<Wanted(d)>>
      <4>1. Append(<<>>, Wanted(d)) = <<Wanted(d)>>
        OBVIOUS
      <4> QED BY <3>1, <3>2, <4>1
    <3>4. At(d, "posted")'
      BY <1>7, <1>11, <1>12, <3>1, <3>3 DEF At
    <3> QED BY <3>4 DEF Answers, Places
  <2> QED BY <2>1, <2>2
<1> QED BY <1>10, <1>13

(* A later read parses as many characters as it brings, of which the first
   is the one that follows the request. *)
LEMMA LaterText ==
  ASSUME HttpInv, NEW d \in Conns, NEW n, NEW p, Reads(d, n, p), taken[d] # 0, ArrivedWhole(d)
  PROVE  /\ Len(Text(d, n)) \in Nat \ {0} /\ Grown(d, n) \in Strings
         /\ Unending(parser[d]) \/ Text(d, n)[1] # LF
<1>1. Types /\ Begins(d)
  BY DEF HttpInv
<1>2. /\ Chars(d) \in Strings /\ Len(Chars(d)) \in Nat /\ End(d) \in 1 .. Len(Chars(d))
      /\ Readable(stream[d])
  BY <1>1, StreamFacts
<1>3. n \in Nat \ {0} /\ taken[d] + n <= Len(Chars(d)) /\ taken[d] \in Nat
  BY ReadsTypes
<1>4. End(d) <= taken[d]
  <2>1. firstRead[d] \in Nat /\ firstRead[d] <= taken[d] /\ firstRead[d] >= End(d)
    BY <1>1 DEF Types, Begins, ArrivedWhole, End
  <2> QED BY <1>2, <1>3, <2>1
<1>5. /\ buffer[d] \in Strings
      /\ ~Unending(parser[d]) => buffer[d] = SubSeq(Chars(d), End(d) + 1, taken[d])
  BY DEF HttpInv, Follows, Reads
<1> DEFINE fresh == Fresh(d, n)
           all == buffer[d] \o fresh
<1>6. /\ fresh \in Strings /\ Len(fresh) = n
      /\ \A i \in 1 .. n : fresh[i] = Chars(d)[taken[d] + i]
  <2>1. \A i \in taken[d] + 1 .. taken[d] + n : i \in 1 .. Len(Chars(d))
    BY <1>2, <1>3
  <2>2. \A i \in taken[d] + 1 .. taken[d] + n : Chars(d)[i] \in Symbols
    BY <1>2, <2>1, ElementOfSeq
  <2>3. taken[d] + 1 \in Int /\ taken[d] + n \in Int /\ taken[d] + 1 <= taken[d] + n
        /\ (taken[d] + n) - (taken[d] + 1) + 1 = n /\ \A i \in 1 .. n : taken[d] + 1 + i - 1 = taken[d] + i
    BY <1>3
  <2> DEFINE lo == taken[d] + 1
             hi == taken[d] + n
  <2>4. /\ SubSeq(Chars(d), lo, hi) \in Strings /\ Len(SubSeq(Chars(d), lo, hi)) = hi - lo + 1
        /\ \A i \in 1 .. hi - lo + 1 : SubSeq(Chars(d), lo, hi)[i] = Chars(d)[lo + i - 1]
    <3>1. lo \in Int /\ hi \in Int /\ lo <= hi /\ \A i \in lo .. hi : Chars(d)[i] \in Symbols
      BY <2>2, <2>3
    <3> HIDE DEF lo, hi
    <3> QED BY <3>1, SubSeqProperties
  <2> QED BY <2>3, <2>4 DEF Fresh
<1> HIDE DEF fresh
<1>7. /\ all \in Strings /\ Len(all) = Len(buffer[d]) + n /\ Len(buffer[d]) \in Nat
      /\ \A i \in 1 .. Len(buffer[d]) + n :
           all[i] = IF i <= Len(buffer[d]) THEN buffer[d][i] ELSE fresh[i - Len(buffer[d])]
  BY <1>5, <1>6, ConcatProperties, LenProperties
<1>8. Grown(d, n) \in Strings
  BY <1>7, EmptySeq DEF Grown, fresh
<1> HIDE DEF all
<1>9. Text(d, n) = SubSeq(all, 1, n)
  BY DEF Text, all, fresh
<1>10. Len(SubSeq(all, 1, n)) = n /\ SubSeq(all, 1, n)[1] = all[1]
  BY <1>3, <1>7, ElementOfSeq, SubSeqProperties
<1>11. ASSUME ~Unending(parser[d]) PROVE all[1] # LF
  <2>1. buffer[d] = SubSeq(Chars(d), End(d) + 1, taken[d])
    BY <1>5, <1>11
  <2>2. Chars(d)[End(d) + 1] # LF
    <3>1. End(d) < Len(Chars(d))
      BY <1>2, <1>3, <1>4
    <3> QED BY <1>2, <3>1 DEF Readable, Chars, End
  <2>3. CASE taken[d] = End(d)
    <3>1. buffer[d] = <<>> /\ Len(buffer[d]) = 0
      BY <1>2, <2>1, <2>3, SubSeqEmpty
    <3>2. 1 \in 1 .. Len(buffer[d]) + n /\ ~(1 <= Len(buffer[d])) /\ 1 - Len(buffer[d]) = 1 /\ 1 \in 1 .. n
      BY <1>3, <3>1
    <3>3. all[1] = fresh[1]
      BY <1>7, <3>2
    <3>4. fresh[1] = Chars(d)[taken[d] + 1]
      BY <1>6, <3>2
    <3> QED BY <2>2, <2>3, <3>3, <3>4
  <2>4. CASE taken[d] # End(d)
    <3>1. End(d) + 1 \in 1 .. Len(Chars(d)) /\ taken[d] \in End(d) + 1 .. Len(Chars(d))
      BY <1>2, <1>3, <1>4, <2>4
    <3>2. /\ Len(buffer[d]) >= 1 /\ buffer[d][1] = Chars(d)[End(d) + 1]
      <4>1. \A i \in End(d) + 1 .. taken[d] : i \in 1 .. Len(Chars(d))
        BY <1>2, <3>1
      <4>2. \A i \in End(d) + 1 .. taken[d] : Chars(d)[i] \in Symbols
        BY <1>2, <4>1, ElementOfSeq
      <4> DEFINE lo == End(d) + 1
                 hi == taken[d]
      <4>3. lo \in Int /\ hi \in Int /\ lo <= hi /\ 1 \in 1 .. hi - lo + 1 /\ hi - lo + 1 >= 1 /\ lo + 1 - 1 = lo
        BY <1>2, <3>1
      <4>4. /\ Len(SubSeq(Chars(d), lo, hi)) = hi - lo + 1
            /\ \A i \in 1 .. hi - lo + 1 : SubSeq(Chars(d), lo, hi)[i] = Chars(d)[lo + i - 1]
        <5>1. \A i \in lo .. hi : Chars(d)[i] \in Symbols
          BY <4>2
        <5> HIDE DEF lo, hi
        <5> QED BY <4>3, <5>1, SubSeqProperties
      <4>5. buffer[d] = SubSeq(Chars(d), lo, hi)
        BY <2>1
      <4>6. Len(buffer[d]) >= 1 /\ buffer[d][1] = Chars(d)[lo]
        <5> HIDE DEF lo, hi
        <5> QED BY <4>3, <4>4, <4>5
      <4> QED BY <4>6
    <3>3. 1 \in 1 .. Len(buffer[d]) + n /\ 1 <= Len(buffer[d])
      BY <1>3, <1>7, <3>2
    <3>4. all[1] = buffer[d][1]
      BY <1>7, <3>3
    <3> QED BY <2>2, <3>2, <3>4
  <2> QED BY <2>3, <2>4
<1> QED BY <1>3, <1>8, <1>9, <1>10, <1>11

(* So a connection whose first request came whole takes no other one. *)
LEMMA ReadsLater ==
  ASSUME HttpInv, NEW d \in Conns, NEW n, NEW p, Reads(d, n, p), taken[d] # 0, ArrivedWhole(d)
  PROVE  Follows(d)' /\ Answers(d)'
<1>1. Types /\ Begins(d) /\ Answers(d)
  BY DEF HttpInv
<1>2. Ended(parser[d])
  BY DEF HttpInv, Follows, Reads
<1>3. /\ p.result # "ParsingCompleted"
      /\ p.result = "ParsingIncompleted" => Unending(p.o)
  <2>1. p \in Parse(RequestTable, parser[d], NewRequest, Text(d, n))
    BY DEF Reads, ParseRequest
  <2>2. Len(Text(d, n)) \in Nat \ {0} /\ (Unending(parser[d]) \/ Text(d, n)[1] # LF)
    BY LaterText
  <2> DEFINE text == Text(d, n)
             o == parser[d]
  <2>3. p \in Parse(RequestTable, o, NewRequest, text) /\ Len(text) \in Nat \ {0}
        /\ (Unending(o) \/ text[1] # LF) /\ Ended(o)
    BY <1>2, <2>1, <2>2
  <2> HIDE DEF text, o
  <2> QED BY <2>3, EndedParses
<1>4. Refuse(d, n, p) \/ ReadOn(d, n, p) \/ Crash(d, n, p)
  BY <1>3 DEF Reads, TakeRequest
<1>5. UNCHANGED <<stream, main, building, posted, sendBuffers, writing, out>>
  BY <1>4 DEF Refuse, ReadOn, Crash, input, answers
<1>6. firstRead'[d] = firstRead[d] /\ parser'[d] = p.o
  <2>1. /\ firstRead' = [firstRead EXCEPT ![d] = IF taken[d] = 0 THEN n ELSE @]
        /\ parser' = [parser EXCEPT ![d] = p.o]
    BY ReadsTypes
  <2> QED BY <1>1, <2>1 DEF Types
<1>7. Answers(d)'
  BY <1>5, <1>1 DEF Asked, Wanted, At, Answers
<1>8. Follows(d)'
  <2>1. buffer' = [buffer EXCEPT ![d] = Grown(d, n)]
    BY <1>4 DEF Refuse, ReadOn, Crash
  <2>2. buffer'[d] \in Strings
    <3>1. buffer = [c \in Conns |-> buffer[c]]
      BY <1>1 DEF Types
    <3> QED BY <2>1, <3>1, LaterText
  <2>3. waiting'[d] => Unending(p.o)
    <3>1. CASE ReadOn(d, n, p)
      BY <1>3, <3>1 DEF ReadOn
    <3>2. CASE Refuse(d, n, p) \/ Crash(d, n, p)
      BY <1>1, <3>2 DEF Refuse, Crash, Stop, Types
    <3> QED BY <1>4, <3>1, <3>2
  <2> QED BY <1>6, <2>2, <2>3 DEF Follows, Ended
<1> QED BY <1>7, <1>8

(* A read that holds less than the first request promises nothing. *)
LEMMA ReadsOwn ==
  ASSUME HttpInv, NEW d \in Conns, NEW n, NEW p, Reads(d, n, p)
  PROVE  (Begins(d) /\ Follows(d) /\ Answers(d))'
<1>1. Types /\ Begins(d)
  BY DEF HttpInv
<1>2. /\ UNCHANGED <<stream, sent, building, sendBuffers, writing, out, socket>>
      /\ n \in Nat \ {0} /\ taken[d] + n <= Len(Chars(d)) /\ taken[d] \in Nat
      /\ firstRead' = [firstRead EXCEPT ![d] = IF taken[d] = 0 THEN n ELSE @]
  BY ReadsTypes
<1>3. Len(Chars(d)) \in Nat /\ End(d) \in 1 .. Len(Chars(d))
  BY <1>1, StreamFacts
<1>4. Chars(d)' = Chars(d) /\ End(d)' = End(d)
  BY <1>2 DEF Chars, End
<1>5. taken'[d] = taken[d] + n /\ firstRead'[d] = IF taken[d] = 0 THEN n ELSE firstRead[d]
  BY <1>1, <1>2 DEF Reads, Types
<1>6. socket'[d] = "open"
  BY <1>2 DEF Reads
<1>7. Begins(d)'
  <2>1. firstRead[d] \in Nat /\ firstRead[d] <= taken[d]
    BY <1>1 DEF Types, Begins
  <2>2. taken'[d] # 0 /\ taken'[d] <= Len(Chars(d)) /\ firstRead'[d] <= taken'[d]
    BY <1>2, <1>3, <1>5, <2>1
  <2> QED BY <1>4, <1>6, <2>2 DEF Begins
<1>8. ArrivedWhole(d)' = (firstRead'[d] >= End(d)) /\ ArrivedWhole(d) = (firstRead[d] >= End(d))
  BY <1>2 DEF ArrivedWhole, End
<1>9. Follows(d)' /\ Answers(d)'
  <2>1. CASE ~ArrivedWhole(d)'
    BY <2>1 DEF Follows, Answers
  <2>2. CASE ArrivedWhole(d)' /\ taken[d] = 0
    <3>1. End(d) <= n
      BY <1>2, <1>3, <1>5, <1>8, <2>2
    <3> QED BY <2>2, <3>1, ReadsFirst
  <2>3. CASE ArrivedWhole(d)' /\ taken[d] # 0
    <3>1. ArrivedWhole(d)
      BY <1>5, <1>8, <2>3
    <3> QED BY <2>3, <3>1, ReadsLater
  <2> QED BY <2>1, <2>2, <2>3
<1> QED BY <1>7, <1>9

----------------------------------------
(* The theorems *)

(* Every step keeps the invariant. *)
LEMMA NextHttpInv == HttpInv /\ [Next]_vars => HttpInv'
<1> SUFFICES ASSUME HttpInv, [Next]_vars PROVE HttpInv'
  OBVIOUS
<1>1. ASSUME NEW d \in Conns, ReadSome(d) PROVE HttpInv'
  <2>1. PICK n, p : Reads(d, n, p)
    BY <1>1 DEF ReadSome, Reads
  <2>2. Types'
    BY <2>1, ReadsTypes
  <2>3. ASSUME NEW c \in Conns PROVE (Begins(c) /\ Follows(c) /\ Answers(c))'
    BY <2>1, ReadsOwn, ReadsOthers
  <2> QED BY <2>2, <2>3 DEF HttpInv
<1>2. ASSUME NEW d \in Conns, Accept(d) \/ System(d) \/ Send(d) \/ Leave(d) PROVE HttpInv'
  <2>1. CASE Send(d) \/ Leave(d) \/ Accept(d) \/ ArmTimer(d) \/ TimerExpires(d) \/ TimerRuns(d)
               \/ ReadFails(d) \/ Destroy(d)
    BY <2>1, QuietSteps
  <2>2. CASE RunPosted(d)
    BY <2>2, RunPostedInv
  <2>3. CASE WriteDone(d)
    BY <2>3, WriteDoneInv
  <2>4. CASE WriteFails(d)
    BY <2>4, WriteFailsInv
  <2>5. CASE ReadSome(d)
    BY <1>1, <2>5
  <2> QED BY <1>2, <2>1, <2>2, <2>3, <2>4, <2>5 DEF System
<1>3. CASE Handle
  BY <1>3, HandleInv
<1>4. ASSUME NEW b \in building, Release(b) PROVE HttpInv'
  BY <1>4, ReleaseInv
<1>5. CASE UNCHANGED vars
  <2>1. UNCHANGED <<input, reading, timers, answers, socket>>
    BY <1>5 DEF vars
  <2>2. UNCHANGED <<stream, sent, taken, firstRead, parser, buffer, waiting, main, building, posted,
                    sendBuffers, writing, out, socket>>
    BY <2>1 DEF input, reading, answers
  <2>3. Types'
    BY <2>2 DEF HttpInv, Types
  <2>4. ASSUME NEW c \in Conns PROVE (Begins(c) /\ Follows(c) /\ Answers(c))'
    <3>1. Chars(c)' = Chars(c) /\ End(c)' = End(c) /\ ArrivedWhole(c)' = ArrivedWhole(c)
      BY <2>2 DEF Chars, End, ArrivedWhole
    <3>2. \A place : At(c, place)' = At(c, place)
      BY <2>2 DEF At, Asked, Wanted
    <3>3. Begins(c) /\ Follows(c) /\ Answers(c)
      BY DEF HttpInv
    <3> QED BY <2>2, <3>1, <3>2, <3>3 DEF Begins, Follows, Answers
  <2> QED BY <2>3, <2>4 DEF HttpInv
<1> QED BY <1>2, <1>3, <1>4, <1>5 DEF Next, Live

(* What waits for a handler is what its client asked. *)
LEMMA HttpInvHandled == HttpInv => HandledAsSent
<1> SUFFICES ASSUME HttpInv, NEW i \in DOMAIN main, ArrivedWhole(main[i].conn)
             PROVE  LET c == main[i].conn
                        d == stream[c][1]
                        got == main[i].request
                    IN  /\ got.method = d.method /\ got.content = d.content
                        /\ main[i].keepAlive = StaysOpen(d)
                        /\ got.url = d.target.url /\ got.params = d.target.params
  BY DEF HandledAsSent
<1> DEFINE c == main[i].conn
<1>1. c \in Conns
  BY DEF HttpInv, Types
<1>2. PICK place \in Places : At(c, place)
  BY <1>1 DEF HttpInv, Answers
<1>3. main[i] = Asked(c)
  BY <1>2 DEF At
<1> HIDE DEF c
<1>4. /\ main[i].request.method = stream[c][1].method /\ main[i].request.content = stream[c][1].content
      /\ main[i].keepAlive = StaysOpen(stream[c][1])
      /\ main[i].request.url = stream[c][1].target.url /\ main[i].request.params = stream[c][1].target.params
  BY <1>3 DEF Asked
<1> QED BY <1>4 DEF c

(* What was sent to a client is its response or nothing. *)
LEMMA HttpInvAnswers == HttpInv => AnswersMatch
<1> SUFFICES ASSUME HttpInv, NEW c \in Conns, ArrivedWhole(c) PROVE out[c] \in {<<>>, <<Wanted(c)>>}
  BY DEF AnswersMatch
<1>1. PICK place \in Places : At(c, place)
  BY DEF HttpInv, Answers
<1> QED BY <1>1 DEF At

(* The invariant holds in every reachable state. *)
LEMMA HttpInvariant == Spec => []HttpInv
BY InitHttpInv, NextHttpInv, PTL DEF Spec

----------------------------------------
(* The type invariant *)

(* What TypeOK says of one connection, in four parts that different steps
   write, with what makes each inductive. *)
Counts(c) ==
  sent[c] \in 0 .. Len(stream[c]) /\ taken[c] \in 0 .. Arrived(c) /\ firstRead[c] \in 0 .. taken[c]

Timed(c) ==
  /\ socket[c] = "open" /\ timer[c] # "off" => waiting[c]
  /\ waiting[c] /\ timer[c] = "off" => socket[c] = "timed out"
  /\ socket[c] \in {"new", "gone"} => ~waiting[c]

Writes(c) ==
  /\ writing[c] => isSending[c] /\ sendBuffers[c] # <<>>
  /\ \E S : sendBuffers[c] \in Seq(S)

TimerStates == {"unarmed", "armed", "expired"}
TypeInv ==
  /\ timer \in [Conns -> {"off"} \cup TimerStates] /\ stray \in [Conns -> SUBSET TimerStates]
  /\ isSending = [c \in Conns |-> isSending[c]] /\ cuts \in 0 .. MaxCuts
  /\ \A c \in Conns : Counts(c) /\ InStates(parser[c]) /\ Timed(c) /\ Writes(c)

(* It holds at first. *)
LEMMA InitTypeInv == Init => TypeInv
<1> SUFFICES ASSUME Init PROVE TypeInv
  OBVIOUS
<1>1. cuts \in 0 .. MaxCuts
  BY MaxCutsAssumption DEF Init
<1>2. ASSUME NEW c \in Conns PROVE Counts(c) /\ InStates(parser[c]) /\ Timed(c) /\ Writes(c)
  <2>1. Types
    BY InitHttpInv DEF HttpInv
  <2>2. sent[c] = 0 /\ taken[c] = 0 /\ firstRead[c] = 0
    BY DEF Init
  <2>3. Counts(c)
    <3>1. sent[c] \in 0 .. Len(stream[c]) /\ Arrived(c) \in 0 .. Len(Chars(c))
      BY <2>1, StreamFacts DEF Types
    <3> QED BY <2>2, <3>1 DEF Counts
  <2>4. InStates(parser[c])
    BY NamedStates DEF Init, InStates, NewParser
  <2>5. Timed(c)
    BY DEF Init, Timed
  <2>6. Writes(c)
    BY EmptySeq DEF Init, Writes
  <2> QED BY <2>3, <2>4, <2>5, <2>6
<1>3. /\ timer \in [Conns -> {"off"} \cup TimerStates] /\ stray \in [Conns -> SUBSET TimerStates]
      /\ isSending = [c \in Conns |-> isSending[c]]
  BY DEF Init
<1> QED BY <1>1, <1>2, <1>3 DEF TypeInv

(* What a client sends can only grow, and nobody reads more than arrived. *)
LEMMA CountsStep ==
  ASSUME HttpInv, TypeInv, [Next]_vars, NEW c \in Conns
  PROVE  Counts(c)'
<1>1. Types /\ Counts(c)
  BY DEF HttpInv, TypeInv
<1>2. /\ Len(stream[c]) \in Nat /\ Len(Chars(c)) \in Nat /\ Arrived(c) \in 0 .. Len(Chars(c))
      /\ \A k \in 0 .. Len(stream[c]) : StreamEnds[stream[c]][k] \in 0 .. Len(Chars(c))
      /\ \A k \in 1 .. Len(stream[c]) : StreamEnds[stream[c]][k - 1] <= StreamEnds[stream[c]][k]
  BY <1>1, StreamFacts DEF Readable, Chars
<1>3. ASSUME NEW d \in Conns, Send(d) PROVE Counts(c)'
  <2>1. /\ sent' = [sent EXCEPT ![d] = @ + 1] /\ sent[d] < Len(stream[d])
        /\ UNCHANGED <<stream, taken, firstRead>>
    BY <1>3 DEF Send, reading
  <2>2. CASE c # d
    BY <1>1, <2>1, <2>2 DEF Counts, Arrived, Types
  <2>3. CASE c = d
    <3>1. sent'[c] = sent[c] + 1 /\ sent[c] + 1 \in 1 .. Len(stream[c])
      <4>1. sent = [x \in Conns |-> sent[x]]
        BY <1>1 DEF Types
      <4>2. sent[c] \in 0 .. Len(stream[c]) /\ sent[c] < Len(stream[c])
        BY <1>1, <2>1, <2>3 DEF Counts
      <4> QED BY <1>2, <2>1, <2>3, <4>1, <4>2
    <3>2. Arrived(c)' = StreamEnds[stream[c]][sent[c] + 1]
      BY <2>1, <3>1 DEF Arrived
    <3>3. Arrived(c) = StreamEnds[stream[c]][(sent[c] + 1) - 1]
      BY <1>1, <1>2 DEF Arrived, Counts
    <3>4. Arrived(c)' \in Nat /\ Arrived(c) <= Arrived(c)'
      <4>1. PICK k : k = sent[c] + 1
        OBVIOUS
      <4>2. k \in 1 .. Len(stream[c]) /\ k \in 0 .. Len(stream[c])
        BY <1>2, <3>1, <4>1
      <4>3. StreamEnds[stream[c]][k] \in 0 .. Len(Chars(c))
        BY <1>2, <4>2
      <4>4. StreamEnds[stream[c]][k - 1] <= StreamEnds[stream[c]][k]
        BY <1>2, <4>2
      <4>5. Arrived(c)' = StreamEnds[stream[c]][k]
        BY <3>2, <4>1, Zenon
      <4>6. Arrived(c) = StreamEnds[stream[c]][k - 1]
        BY <3>3, <4>1, Zenon
      <4> QED BY <1>2, <4>3, <4>4, <4>5, <4>6
    <3> QED BY <1>1, <1>2, <2>1, <3>1, <3>4 DEF Counts
  <2> QED BY <2>2, <2>3
<1>4. ASSUME NEW d \in Conns, NEW n, NEW p, Reads(d, n, p) PROVE Counts(c)'
  <2>1. /\ UNCHANGED <<stream, sent>> /\ taken' = [taken EXCEPT ![d] = @ + n]
        /\ firstRead' = [firstRead EXCEPT ![d] = IF taken[d] = 0 THEN n ELSE @]
    BY <1>4, ReadsTypes DEF Reads
  <2>2. Arrived(c)' = Arrived(c)
    BY <2>1 DEF Arrived
  <2>3. CASE c # d
    BY <1>1, <2>1, <2>2, <2>3 DEF Counts, Types
  <2>4. CASE c = d
    <3>1. n \in 1 .. (Arrived(c) - taken[c])
      BY <1>4, <2>4 DEF Reads, Sizes
    <3>2. taken'[c] = taken[c] + n /\ firstRead'[c] = IF taken[c] = 0 THEN n ELSE firstRead[c]
      BY <1>1, <2>1, <2>4 DEF Types
    <3>3. taken'[c] \in 0 .. Arrived(c) /\ firstRead'[c] \in 0 .. taken'[c]
      BY <1>1, <1>2, <3>1, <3>2 DEF Counts
    <3> QED BY <1>1, <2>1, <2>2, <3>3 DEF Counts
  <2> QED BY <2>3, <2>4
<1>5. CASE UNCHANGED <<stream, sent, taken, firstRead>>
  BY <1>1, <1>5 DEF Counts, Arrived
<1>6. \/ \E d \in Conns : Send(d) \/ ReadSome(d)
      \/ UNCHANGED <<stream, sent, taken, firstRead>>
  <2>1. ASSUME NEW d \in Conns, Accept(d) \/ ArmTimer(d) \/ TimerExpires(d) \/ TimerRuns(d) \/ ReadFails(d)
        PROVE  UNCHANGED <<stream, sent, taken, firstRead>>
    BY <2>1 DEF Accept, ArmTimer, TimerExpires, TimerRuns, ReadFails, input, reading
  <2>2. ASSUME NEW d \in Conns, Leave(d) \/ RunPosted(d) \/ WriteDone(d) \/ WriteFails(d) \/ Destroy(d)
        PROVE  UNCHANGED <<stream, sent, taken, firstRead>>
    BY <2>2 DEF Leave, RunPosted, WriteDone, WriteFails, Destroy, input, reading
  <2>3. ASSUME Handle \/ (\E b \in building : Release(b)) \/ UNCHANGED vars
        PROVE  UNCHANGED <<stream, sent, taken, firstRead>>
    BY <2>3 DEF Handle, Release, input, reading, vars
  <2> QED BY <2>1, <2>2, <2>3 DEF Next, Live, System
<1>7. ASSUME NEW d \in Conns, ReadSome(d) PROVE \E n, p : Reads(d, n, p)
  BY <1>7 DEF ReadSome, Reads
<1> QED BY <1>3, <1>4, <1>5, <1>6, <1>7

(* A wait has its timer until it ends, with its timer or with the socket. *)
LEMMA TimedStep ==
  ASSUME HttpInv, TypeInv, [Next]_vars
  PROVE  /\ timer' \in [Conns -> {"off"} \cup TimerStates] /\ stray' \in [Conns -> SUBSET TimerStates]
         /\ \A c \in Conns : Timed(c)'
<1>1. /\ timer \in [Conns -> {"off"} \cup TimerStates] /\ stray \in [Conns -> SUBSET TimerStates]
      /\ waiting \in [Conns -> BOOLEAN] /\ socket \in [Conns -> {"new", "open", "timed out", "gone"}]
      /\ \A c \in Conns : Timed(c)
  BY DEF HttpInv, Types, TypeInv
<1> DEFINE Goal == /\ timer' \in [Conns -> {"off"} \cup TimerStates]
                   /\ stray' \in [Conns -> SUBSET TimerStates]
                   /\ \A c \in Conns : Timed(c)'
<1>2. ASSUME NEW d \in Conns, Accept(d) PROVE Goal
  <2>1. /\ socket' = [socket EXCEPT ![d] = "open"] /\ waiting' = [waiting EXCEPT ![d] = TRUE]
        /\ timer' = [timer EXCEPT ![d] = "unarmed"] /\ stray' = stray
    BY <1>2 DEF Accept
  <2> QED BY <1>1, <2>1 DEF Timed, TimerStates
<1>3. ASSUME NEW d \in Conns, ArmTimer(d) \/ TimerExpires(d) PROVE Goal
  <2>1. /\ UNCHANGED <<socket, waiting>>
        /\ \/ timer' = timer
           \/ timer[d] # "off" /\ \E x \in TimerStates : timer' = [timer EXCEPT ![d] = x]
        /\ stray' = stray \/ \E x, y \in TimerStates : stray' = [stray EXCEPT ![d] = (@ \ {x}) \cup {y}]
    <3>1. CASE ArmTimer(d)
      BY <3>1 DEF ArmTimer, reading, TimerStates
    <3>2. CASE TimerExpires(d)
      BY <3>2 DEF TimerExpires, reading, TimerStates
    <3> QED BY <1>3, <3>1, <3>2
  <2>2. stray' \in [Conns -> SUBSET TimerStates]
    <3>1. ASSUME NEW x \in TimerStates, NEW y \in TimerStates PROVE (stray[d] \ {x}) \cup {y} \in SUBSET TimerStates
      BY <1>1
    <3>2. stray' = stray \/ \E z \in SUBSET TimerStates : stray' = [stray EXCEPT ![d] = z]
      BY <2>1, <3>1
    <3> QED BY <1>1, <3>2
  <2>3. timer' \in [Conns -> {"off"} \cup TimerStates]
    BY <1>1, <2>1
  <2>4. ASSUME NEW c \in Conns PROVE Timed(c)'
    <3>1. timer'[c] = timer[c] \/ (timer[c] # "off" /\ timer'[c] # "off")
      BY <1>1, <2>1 DEF TimerStates
    <3> QED BY <1>1, <2>1, <3>1 DEF Timed
  <2> QED BY <2>2, <2>3, <2>4
<1>4. ASSUME NEW d \in Conns, TimerRuns(d) PROVE Goal
  <2>1. /\ UNCHANGED waiting
        /\ timer' = timer \/ timer' = [timer EXCEPT ![d] = "off"]
        /\ stray' = stray \/ stray' = [stray EXCEPT ![d] = @ \ {"expired"}]
        /\ socket' = [socket EXCEPT ![d] = IF @ = "open" THEN "timed out" ELSE @]
    BY <1>4 DEF TimerRuns, reading
  <2>2. stray' \in [Conns -> SUBSET TimerStates] /\ timer' \in [Conns -> {"off"} \cup TimerStates]
    BY <1>1, <2>1
  <2>3. ASSUME NEW c \in Conns PROVE Timed(c)'
    <3>1. CASE c = d
      BY <1>1, <2>1, <3>1 DEF Timed
    <3>2. CASE c # d
      BY <1>1, <2>1, <3>2 DEF Timed
    <3> QED BY <3>1, <3>2
  <2> QED BY <2>2, <2>3
<1>5. ASSUME NEW d \in Conns, ReadFails(d) PROVE Goal
  <2>1. /\ UNCHANGED socket /\ waiting' = [waiting EXCEPT ![d] = FALSE]
        /\ timer' = [timer EXCEPT ![d] = "off"] /\ stray' = [stray EXCEPT ![d] = Uncancelled(d)]
    BY <1>5 DEF ReadFails, Stop
  <2>2. Uncancelled(d) \subseteq TimerStates
    BY <1>1 DEF Uncancelled, TimerStates
  <2> QED BY <1>1, <2>1, <2>2 DEF Timed, TimerStates
<1>6. ASSUME NEW d \in Conns, Destroy(d) PROVE Goal
  <2>1. UNCHANGED <<timer, stray, waiting>> /\ socket' = [socket EXCEPT ![d] = "gone"] /\ ~waiting[d]
    BY <1>6 DEF Destroy, Held, timers, reading
  <2> QED BY <1>1, <2>1 DEF Timed, TimerStates
<1>7. ASSUME NEW d \in Conns, ReadSome(d) PROVE Goal
  <2>1. /\ UNCHANGED socket /\ socket[d] = "open" /\ stray' = [stray EXCEPT ![d] = Uncancelled(d)]
        /\ Restart(d) \/ Stop(d)
    BY <1>7 DEF ReadSome, TakeRequest, Refuse, ReadOn, Crash, Read
  <2>2. Uncancelled(d) \subseteq TimerStates
    BY <1>1 DEF Uncancelled, TimerStates
  <2>3. \/ waiting' = [waiting EXCEPT ![d] = TRUE] /\ timer' = [timer EXCEPT ![d] = "armed"]
        \/ waiting' = [waiting EXCEPT ![d] = FALSE] /\ timer' = [timer EXCEPT ![d] = "off"]
    BY <2>1 DEF Restart, Stop
  <2> QED BY <1>1, <2>1, <2>2, <2>3 DEF Timed, TimerStates
<1>8. CASE UNCHANGED <<timer, stray, waiting, socket>>
  BY <1>1, <1>8 DEF Timed
<1>9. \/ \E d \in Conns : \/ Accept(d) \/ ArmTimer(d) \/ TimerExpires(d) \/ TimerRuns(d) \/ ReadFails(d)
                          \/ Destroy(d) \/ ReadSome(d)
      \/ UNCHANGED <<timer, stray, waiting, socket>>
  BY DEF Next, Live, System, Send, Leave, RunPosted, WriteDone, WriteFails, Handle, Release,
     timers, reading, vars
<1> QED BY <1>2, <1>3, <1>4, <1>5, <1>6, <1>7, <1>8, <1>9

(* A write is pending under the flag, with its buffer first. *)
LEMMA WritesStep ==
  ASSUME HttpInv, TypeInv, [Next]_vars
  PROVE  isSending' = [c \in Conns |-> isSending'[c]] /\ \A c \in Conns : Writes(c)'
<1>1. /\ isSending = [c \in Conns |-> isSending[c]] /\ writing = [c \in Conns |-> writing[c]]
      /\ sendBuffers = [c \in Conns |-> sendBuffers[c]] /\ \A c \in Conns : Writes(c)
  BY DEF HttpInv, Types, TypeInv
<1> DEFINE Goal == isSending' = [c \in Conns |-> isSending'[c]] /\ \A c \in Conns : Writes(c)'
<1>2. ASSUME NEW d \in Conns, NEW buffers, \E S : buffers \in Seq(S), DoSend(d, buffers)
      PROVE  Goal
  <2>1. /\ sendBuffers' = [sendBuffers EXCEPT ![d] = buffers]
        /\ isSending' = [isSending EXCEPT ![d] = buffers # <<>>]
        /\ writing' = [writing EXCEPT ![d] = buffers # <<>>]
    BY <1>2 DEF DoSend
  <2>2. isSending' = [c \in Conns |-> isSending'[c]]
    BY <1>1, <2>1
  <2>3. ASSUME NEW c \in Conns PROVE Writes(c)'
    <3>1. CASE c = d
      BY <1>1, <1>2, <2>1, <3>1 DEF Writes
    <3>2. CASE c # d
      BY <1>1, <2>1, <3>2 DEF Writes
    <3> QED BY <3>1, <3>2
  <2> QED BY <2>2, <2>3
<1>3. ASSUME NEW d \in Conns, RunPosted(d) PROVE Goal
  <2> DEFINE buffers == Append(sendBuffers[d], Head(posted[d]))
  <2>1. (\E S : buffers \in Seq(S)) /\ buffers # <<>>
    <3>1. PICK S : sendBuffers[d] \in Seq(S)
      BY <1>1 DEF Writes
    <3>2. PICK m : m = Head(posted[d])
      OBVIOUS
    <3>3. sendBuffers[d] \in Seq(S \cup {m}) /\ m \in S \cup {m}
      BY <3>1, SeqMonotonic
    <3>4. /\ Append(sendBuffers[d], m) \in Seq(S \cup {m})
          /\ Len(Append(sendBuffers[d], m)) = Len(sendBuffers[d]) + 1 /\ Len(sendBuffers[d]) \in Nat
      BY <3>3, AppendProperties, LenProperties
    <3>5. Append(sendBuffers[d], m) # <<>>
      <4>1. PICK t : t = Append(sendBuffers[d], m)
        OBVIOUS
      <4>2. Len(t) # 0
        BY <3>4, <4>1
      <4> QED BY <4>1, <4>2
    <3> QED BY <3>2, <3>4, <3>5
  <2>2. CASE DoSend(d, buffers)
    <3> HIDE DEF buffers
    <3> QED BY <1>2, <2>1, <2>2
  <2>3. CASE sendBuffers' = [sendBuffers EXCEPT ![d] = buffers] /\ UNCHANGED <<isSending, writing>>
    <3> HIDE DEF buffers
    <3>1. ASSUME NEW c \in Conns PROVE Writes(c)'
      <4>1. CASE c = d
        <5>1. sendBuffers'[c] = buffers
          BY <1>1, <2>3, <4>1
        <5> QED BY <1>1, <2>1, <2>3, <5>1 DEF Writes
      <4>2. CASE c # d
        BY <1>1, <2>3, <4>2 DEF Writes
      <4> QED BY <4>1, <4>2
    <3> QED BY <1>1, <2>3, <3>1
  <2> QED BY <1>3, <2>2, <2>3 DEF RunPosted
<1>4. ASSUME NEW d \in Conns, WriteDone(d) PROVE Goal
  <2>1. PICK S : sendBuffers[d] \in Seq(S)
    BY <1>1 DEF Writes
  <2>2. sendBuffers[d] # <<>> /\ DoSend(d, Tail(sendBuffers[d]))
    BY <1>1, <1>4 DEF WriteDone, Writes
  <2>3. Tail(sendBuffers[d]) \in Seq(S)
    BY <2>1, <2>2, HeadTailProperties
  <2>4. PICK rest : rest = Tail(sendBuffers[d])
    OBVIOUS
  <2> QED BY <1>2, <2>2, <2>3, <2>4
<1>5. ASSUME NEW d \in Conns, WriteFails(d) PROVE Goal
  <2>1. writing' = [writing EXCEPT ![d] = FALSE] /\ UNCHANGED <<sendBuffers, isSending>>
    BY <1>5 DEF WriteFails
  <2>2. ASSUME NEW c \in Conns PROVE Writes(c)'
    BY <1>1, <2>1 DEF Writes
  <2> QED BY <1>1, <2>1, <2>2
<1>6. CASE UNCHANGED <<writing, isSending, sendBuffers>>
  BY <1>1, <1>6 DEF Writes
<1>7. \/ \E d \in Conns : RunPosted(d) \/ WriteDone(d) \/ WriteFails(d)
      \/ UNCHANGED <<writing, isSending, sendBuffers>>
  <2>1. ASSUME NEW d \in Conns, ReadSome(d) PROVE UNCHANGED <<writing, isSending, sendBuffers>>
    BY <2>1 DEF ReadSome, TakeRequest, Refuse, ReadOn, Crash, answers
  <2> QED BY <2>1 DEF Next, Live, System, Send, Leave, Accept, ArmTimer, TimerExpires, TimerRuns,
       ReadFails, Destroy, Handle, Release, answers, vars
<1> QED BY <1>3, <1>4, <1>5, <1>6, <1>7

(* What is parsed is as long as what was read, whatever m_buffer holds. *)
LEMMA TextLength ==
  ASSUME NEW c, NEW n \in Nat \ {0}
  PROVE  Len(Text(c, n)) = n
<1> DEFINE all == buffer[c] \o Fresh(c, n)
           S == {all[i] : i \in 1 .. n}
<1>1. \A i \in 1 .. n : all[i] \in S
  OBVIOUS
<1> HIDE DEF all, S
<1>2. Len(SubSeq(all, 1, n)) = n - 1 + 1
  BY <1>1, SubSeqProperties
<1> QED BY <1>2 DEF Text, all

(* A parser goes from state to state, and short reads are counted. *)
LEMMA ParserStep ==
  ASSUME HttpInv, TypeInv, [Next]_vars
  PROVE  cuts' \in 0 .. MaxCuts /\ \A c \in Conns : InStates(parser'[c])
<1>1. /\ cuts \in 0 .. MaxCuts /\ parser = [c \in Conns |-> parser[c]]
      /\ \A c \in Conns : InStates(parser[c])
  BY DEF HttpInv, Types, TypeInv
<1>2. ASSUME NEW d \in Conns, ReadSome(d) PROVE cuts' \in 0 .. MaxCuts /\ \A c \in Conns : InStates(parser'[c])
  <2>1. PICK n, p : Reads(d, n, p)
    BY <1>2 DEF ReadSome, Reads
  <2>2. Read(d, n, p) /\ n \in Sizes(d)
    BY <2>1 DEF Reads, TakeRequest, Refuse, ReadOn, Crash
  <2>3. cuts' \in 0 .. MaxCuts
    BY <1>1, <2>2, MaxCutsAssumption DEF Read, Sizes
  <2>4. Len(Text(d, n)) \in Nat
    <3>1. n \in Nat \ {0}
      BY <2>1, ReadsTypes
    <3> QED BY <3>1, TextLength
  <2>5. p \in ParseRequest(parser[d], Text(d, n))
    BY <2>1 DEF Reads
  <2>6. InStates(p.o)
    <3>1. PICK text, o : text = Text(d, n) /\ o = parser[d]
      OBVIOUS
    <3> QED BY <1>1, <2>4, <2>5, <3>1, ParseInStates
  <2>7. parser' = [parser EXCEPT ![d] = p.o]
    BY <2>2 DEF Read
  <2> QED BY <1>1, <2>3, <2>6, <2>7
<1>3. CASE UNCHANGED <<parser, cuts>>
  BY <1>1, <1>3
<1>4. (\E d \in Conns : ReadSome(d)) \/ UNCHANGED <<parser, cuts>>
  BY DEF Next, Live, System, Send, Leave, Accept, ArmTimer, TimerExpires, TimerRuns, RunPosted, WriteDone,
     ReadFails, WriteFails, Destroy, Handle, Release, reading, vars
<1> QED BY <1>2, <1>3, <1>4

(* Every variable keeps its type; a write is pending only under the flag
   and with a buffer to read from, a wait is never without its timer, and
   the parser is in one of its states (HttpConnection, HttpRequestParser). *)
THEOREM HttpTypeCorrect == Spec => []TypeOK
<1>1. HttpInv /\ TypeInv /\ [Next]_vars => TypeInv'
  BY CountsStep, TimedStep, WritesStep, ParserStep DEF TypeInv
<1>2. HttpInv /\ TypeInv => TypeOK
  <2> SUFFICES ASSUME HttpInv, TypeInv PROVE TypeOK
    OBVIOUS
  <2>1. /\ socket \in [Conns -> {"new", "open", "timed out", "gone"}]
        /\ \A i \in DOMAIN main : main[i].conn \in Conns
    BY DEF HttpInv, Types
  <2> QED BY <2>1 DEF TypeInv, TypeOK, Counts, Timed, Writes, InStates, TimerStates
<1> QED BY <1>1, <1>2, InitTypeInv, HttpInvariant, PTL DEF Spec

----------------------------------------
(* Messages *)

(* A request as it is written is parsed to its end and no further, into
   what it was written with, by the parser of every connection that is
   new, and a response by a new parser, with its code and text, whichever
   way the body is delimited (HttpRequestParser, HttpResponseParser). *)
THEOREM HttpMessagesParse == Spec => []MessagesParse
<1>1. HttpInv => MessagesParse
  <2> SUFFICES ASSUME HttpInv, Untouched PROVE ResponsesParse /\ \A c \in Conns : RequestsParse(parser[c])
    BY DEF MessagesParse
  <2>1. ASSUME NEW c \in Conns PROVE RequestsParse(parser[c])
    <3>1. socket[c] = "new" /\ Begins(c)
      BY DEF Untouched, HttpInv
    <3>2. parser[c] = NewParser("RequestMethodStart")
      BY <3>1 DEF Begins
    <3> QED BY <3>2, NewParserReads
  <2> QED BY <2>1, NewParserReads
<1> QED BY <1>1, HttpInvariant, PTL

(* What is written of a URL is parsed back, whatever the server does. *)
THEOREM HttpUrlsParse == Spec => []UrlsParse
<1>1. UrlsParse
  BY UrlParses DEF UrlsParse
<1> QED BY <1>1, PTL

----------------------------------------
(* Requests and answers *)

(* A handler is called with the request its client sent as the first of
   its connection, if that arrived in one read: its method, its URL, the
   query's values, its body, and whether the connection is to be kept
   (HttpConnection::start). *)
THEOREM HttpHandledAsSent == Spec => []HandledAsSent
BY HttpInvariant, HttpInvHandled, PTL

(* A client whose first request arrived in one read is sent one response
   at most, and it is that request's, however handlers, writes, timers and
   the end of the connection fall (HttpConnection::start, ~HttpResponse,
   doSend). *)
THEOREM HttpAnswersMatch == Spec => []AnswersMatch
BY HttpInvariant, HttpInvAnswers, PTL

=============================================================================
