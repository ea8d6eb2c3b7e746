------------------------------ MODULE HttpParser ------------------------------
(***************************************************************************)
(* HttpRequestParser and HttpResponseParser (HttpParser.hpp).  A parser    *)
(* is an object with a state that a character moves, and a message that    *)
(* it fills in.  The switch of consume() is a table of rules: in a state,  *)
(* a character of a class leads to the next state and is put somewhere.    *)
(* What no rule accepts is a ParsingError.                                 *)
(*                                                                         *)
(* A character here is a string: a word of letters ("GET", "Host") stands  *)
(* for its letters, which all parsers treat alike, "HTTP/" for its five    *)
(* characters and the five states that expect them.  Names are compared    *)
(* without regard to case in the code; here they have one spelling.        *)
(***************************************************************************)
EXTENDS Integers, Sequences, SequencesExt

CR == "\r"
LF == "\n"
SP == " "
TAB == "\t"
NUL == "nul"
SEMI == ";"
HTTP == "HTTP/"

Digits ==
  <<"0", "1", "2", "3", "4", "5", "6", "7", "8", "9", "a", "b", "c", "d", "e", "f">>
ValueOf(base) ==
  [d \in {Digits[i] : i \in 1..base} |-> CHOOSE n \in 0..(base - 1) : Digits[n + 1] = d]
DigitOf == ValueOf(10)
HexOf == ValueOf(16)

\* isControl, isSpecial, isChar ("high" is a byte above 127), isalnum.
Control == {CR, LF, TAB, NUL}
Special == {SP, TAB, ":", SEMI, "=", "/", "?", "@", "[", "]", HTTP}
Mark == {"-", ".", "_", "~", "%", "+", "#", "&"}
AnyClass == Control \cup Special \cup Mark \cup {"digit", "alpha", "high"}
Char == AnyClass \ {"high"}
Token == Char \ (Control \cup Special)
Alnum == {"digit", "alpha"}

Class(c) == IF c \in DOMAIN DigitOf THEN "digit"
            ELSE IF c \in AnyClass THEN c ELSE "alpha"

---------------------------------------------------------------------------
(* Rules                                                                   *)

Rule(state, on, next, do) == [state |-> state, on |-> on, next |-> next, do |-> do]

RequestLine ==
  {Rule("RequestMethodStart", Token, "RequestMethod", "method"),
   Rule("RequestMethod", Token, "RequestMethod", "method"),
   Rule("RequestMethod", {SP}, "RequestUriStart", "skip"),
   Rule("RequestUriStart", AnyClass \ Control, "RequestUri", "uri"),
   Rule("RequestUri", AnyClass \ (Control \cup {SP}), "RequestUri", "uri"),
   Rule("RequestUri", {SP}, "RequestHttpVersion_h", "skip"),
   Rule("RequestUri", {CR}, "RequestUri", "oldVersion")}

RequestVersion ==
  {Rule("RequestHttpVersion_h", {HTTP}, "RequestHttpVersion_majorStart", "version"),
   Rule("RequestHttpVersion_majorStart", {"digit"}, "RequestHttpVersion_major", "major"),
   Rule("RequestHttpVersion_major", {"digit"}, "RequestHttpVersion_major", "major"),
   Rule("RequestHttpVersion_major", {"."}, "RequestHttpVersion_minorStart", "skip"),
   Rule("RequestHttpVersion_minorStart", {"digit"}, "RequestHttpVersion_minor", "minor"),
   Rule("RequestHttpVersion_minor", {"digit"}, "RequestHttpVersion_minor", "minor"),
   Rule("RequestHttpVersion_minor", {CR}, "ResponseHttpVersion_newLine", "skip"),
   Rule("ResponseHttpVersion_newLine", {LF}, "HeaderLineStart", "skip")}

ResponseVersion ==
  {Rule("ResponseStatusStart", {HTTP}, "ResponseHttpVersion_majorStart", "version"),
   Rule("ResponseHttpVersion_majorStart", {"digit"}, "ResponseHttpVersion_major", "major"),
   Rule("ResponseHttpVersion_major", {"digit"}, "ResponseHttpVersion_major", "major"),
   Rule("ResponseHttpVersion_major", {"."}, "ResponseHttpVersion_minorStart", "skip"),
   Rule("ResponseHttpVersion_minorStart", {"digit"}, "ResponseHttpVersion_minor", "minor"),
   Rule("ResponseHttpVersion_minor", {"digit"}, "ResponseHttpVersion_minor", "minor"),
   Rule("ResponseHttpVersion_minor", {SP}, "ResponseHttpVersion_statusCodeStart", "noCode")}

StatusLine ==
  {Rule("ResponseHttpVersion_statusCodeStart", {"digit"}, "ResponseHttpVersion_statusCode", "code"),
   Rule("ResponseHttpVersion_statusCode", {"digit"}, "ResponseHttpVersion_statusCode", "code"),
   Rule("ResponseHttpVersion_statusCode", {SP}, "ResponseHttpVersion_statusTextStart", "codeDone"),
   Rule("ResponseHttpVersion_statusTextStart", Char, "ResponseHttpVersion_statusText", "status"),
   Rule("ResponseHttpVersion_statusText", Char \ {CR}, "ResponseHttpVersion_statusText", "status"),
   Rule("ResponseHttpVersion_statusText", {CR}, "ResponseHttpVersion_newLine", "skip"),
   Rule("ResponseHttpVersion_newLine", {LF}, "HeaderLineStart", "skip")}

HeaderLines ==
  {Rule("HeaderLineStart", {CR}, "ExpectingNewline_3", "skip"),
   Rule("HeaderLineStart", {SP, TAB}, "HeaderLws", "fold"),
   Rule("HeaderLineStart", Token, "HeaderName", "header"),
   Rule("HeaderLws", {CR}, "ExpectingNewline_2", "skip"),
   Rule("HeaderLws", {SP, TAB}, "HeaderLws", "skip"),
   Rule("HeaderLws", AnyClass \ (Control \cup {SP}), "HeaderValue", "value"),
   Rule("HeaderName", Token, "HeaderName", "name"),
   Rule("HeaderName", {":"}, "SpaceBeforeHeaderValue", "skip"),
   Rule("SpaceBeforeHeaderValue", {SP}, "HeaderValue", "skip"),
   Rule("HeaderValue", AnyClass \ Control, "HeaderValue", "value"),
   Rule("HeaderValue", {CR}, "ExpectingNewline_2", "line"),
   Rule("ExpectingNewline_2", {LF}, "HeaderLineStart", "skip"),
   Rule("ExpectingNewline_3", AnyClass, "ExpectingNewline_3", "headers")}

\* A trailer's line ends in ChunkSizeNewLine, where an empty size is 0.
Body ==
  {Rule("Post", AnyClass, "Post", "post"),
   Rule("ChunkSize", Alnum, "ChunkSize", "size"),
   Rule("ChunkSize", {SEMI}, "ChunkExtensionName", "skip"),
   Rule("ChunkSize", {CR}, "ChunkSizeNewLine", "skip"),
   Rule("ChunkExtensionName", Alnum \cup {SP}, "ChunkExtensionName", "skip"),
   Rule("ChunkExtensionName", {"="}, "ChunkExtensionValue", "skip"),
   Rule("ChunkExtensionName", {CR}, "ChunkSizeNewLine", "skip"),
   Rule("ChunkExtensionValue", Alnum \cup {SP}, "ChunkExtensionValue", "skip"),
   Rule("ChunkExtensionValue", {CR}, "ChunkSizeNewLine", "skip"),
   Rule("ChunkSizeNewLine", {LF}, "ChunkSizeNewLine", "sizeDone"),
   Rule("ChunkSizeNewLine_2", {CR}, "ChunkSizeNewLine_3", "skip"),
   Rule("ChunkSizeNewLine_2", {"alpha"}, "ChunkTrailerName", "skip"),
   Rule("ChunkSizeNewLine_3", {LF}, "ChunkSizeNewLine_3", "complete")}

Chunks ==
  {Rule("ChunkTrailerName", Alnum, "ChunkTrailerName", "skip"),
   Rule("ChunkTrailerName", {":"}, "ChunkTrailerValue", "skip"),
   Rule("ChunkTrailerValue", Alnum \cup {SP}, "ChunkTrailerValue", "skip"),
   Rule("ChunkTrailerValue", {CR}, "ChunkSizeNewLine", "skip"),
   Rule("ChunkData", AnyClass, "ChunkData", "data"),
   Rule("ChunkDataNewLine_1", {CR}, "ChunkDataNewLine_2", "skip"),
   Rule("ChunkDataNewLine_2", {LF}, "ChunkSize", "skip")}

\* HttpResponseParser repeats the header lines, the body and the chunks.
ResponseHeaderLines == HeaderLines
ResponseBody == Body
ResponseChunks == Chunks

RequestRules == RequestLine \cup RequestVersion \cup HeaderLines \cup Body \cup Chunks
ResponseRules == ResponseVersion \cup StatusLine \cup ResponseHeaderLines
                   \cup ResponseBody \cup ResponseChunks

States == {r.state : r \in RequestRules}

---------------------------------------------------------------------------
(* What is done with a character                                           *)
(* A configuration p is the parser's object p.o, the message p.m, the      *)
(* result so far, and how many characters followed a completed message     *)
(* (remainSize).                                                           *)

NewParser(start) ==
  [state |-> start, contentSize |-> 0, chunkSizeStr |-> <<>>, chunkSize |-> 0, chunked |-> FALSE]

NewRequest ==
  [method |-> <<>>, uri |-> <<>>, major |-> 0, minor |-> 0, headers |-> <<>>,
   content |-> <<>>, keepAlive |-> FALSE]

NewResponse ==
  [code |-> 404, status |-> <<>>, major |-> 1, minor |-> 1, headers |-> <<>>,
   content |-> <<>>, keepAlive |-> FALSE]

With(p, result) == [p EXCEPT !.result = result]
Goto(p, state) == [p EXCEPT !.o.state = state]

\* The number a text begins with: strtol, and atoi of what has no sign.
Leading(s, of, base) ==
  LET n == CHOOSE k \in 0..Len(s) : /\ \A i \in 1..k : s[i] \in DOMAIN of
                                    /\ k < Len(s) => s[k + 1] \notin DOMAIN of
      value[i \in 0..n] == IF i = 0 THEN 0 ELSE value[i - 1] * base + of[s[i]]
  IN  value[n]

Atoi(s) == Leading(s, DigitOf, 10)

\* headers.back() of a message without headers is no header.
ToHeader(p, field, c) ==
  IF p.m.headers = <<>> THEN With(p, "Trap")
  ELSE [p EXCEPT !.m.headers[Len(p.m.headers)][field] = Append(@, c)]

\* Requests have a body only with these methods.
MayHaveBody(m) == "method" \in DOMAIN m => m.method \in {<<"POST">>, <<"PUT">>}

HeaderDone(p) ==
  LET h == Last(p.m.headers) IN
  CASE ~MayHaveBody(p.m) -> p
    [] MayHaveBody(p.m) /\ p.m.headers = <<>> -> With(p, "Trap")
    [] OTHER ->
         CASE h.name = <<"Content-Length">> -> [p EXCEPT !.o.contentSize = Atoi(h.value)]
           [] h.name = <<"Transfer-Encoding">> /\ h.value = <<"chunked">> ->
                [p EXCEPT !.o.chunked = TRUE]
           [] OTHER -> p

\* Mutant: the Connection header can only close, the version decides.
KeepsAliveByVersion(m) ==
  /\ [name |-> <<"Connection">>, value |-> <<"close">>] \notin Range(m.headers)
  /\ m.keepAlive \/ m.major > 1 \/ (m.major = 1 /\ m.minor = 1)

\* The first Connection header decides, without one the version does.
KeepsAlive(m) ==
  LET connection == {i \in DOMAIN m.headers : m.headers[i].name = <<"Connection">>} IN
  IF connection # {}
  THEN \E i \in connection : /\ \A j \in connection : i <= j
                             /\ m.headers[i].value = <<"keep-alive">>
  ELSE m.keepAlive \/ m.major > 1 \/ (m.major = 1 /\ m.minor = 1)

\* ExpectingNewline_3: the character is looked at only if no body follows.
HeadersDone(p, c) ==
  LET q == [p EXCEPT !.m.keepAlive = KeepsAlive(p.m)] IN
  CASE q.o.chunked -> Goto(q, "ChunkSize")
    [] ~q.o.chunked /\ q.o.contentSize # 0 -> Goto(q, "Post")
    [] OTHER -> With(q, IF c = LF THEN "ParsingCompleted" ELSE "ParsingError")

\* contentSize is a size_t: below 0 it stands for itself modulo 2^64.
Posted(p, c) ==
  LET q == [p EXCEPT !.o.contentSize = @ - 1, !.m.content = Append(@, c)] IN
  IF q.o.contentSize = 0 THEN With(q, "ParsingCompleted") ELSE q

SizeDone(p) ==
  LET n == Leading(p.o.chunkSizeStr, HexOf, 16) IN
  [p EXCEPT !.o.chunkSize = n, !.o.chunkSizeStr = <<>>,
            !.o.state = IF n = 0 THEN "ChunkSizeNewLine_2" ELSE "ChunkData"]

Data(p, c) ==
  [p EXCEPT !.m.content = Append(@, c), !.o.chunkSize = @ - 1,
            !.o.state = IF p.o.chunkSize = 1 THEN "ChunkDataNewLine_1" ELSE @]

Do(do, p, c) ==
  CASE do = "skip" -> p
    [] do \in {"method", "uri", "status"} -> [p EXCEPT !.m[do] = Append(@, c)]
    [] do \in {"major", "minor", "code"} -> [p EXCEPT !.m[do] = 10 * @ + DigitOf[c]]
    [] do = "version" -> [p EXCEPT !.m.major = 0, !.m.minor = 0]
    [] do = "oldVersion" -> With([p EXCEPT !.m.major = 0, !.m.minor = 9], "ParsingCompleted")
    [] do = "noCode" -> [p EXCEPT !.m.code = 0]
    [] do = "codeDone" -> IF p.m.code \in 100..999 THEN p ELSE With(p, "ParsingError")
    [] do = "fold" -> IF p.m.headers # <<>> THEN p ELSE With(p, "ParsingError")
    [] do = "header" -> [p EXCEPT !.m.headers = Append(@, [name |-> <<c>>, value |-> <<>>])]
    [] do \in {"name", "value"} -> ToHeader(p, do, c)
    [] do = "line" -> HeaderDone(p)
    [] do = "headers" -> HeadersDone(p, c)
    [] do = "post" -> Posted(p, c)
    [] do = "size" -> [p EXCEPT !.o.chunkSizeStr = Append(@, c)]
    [] do = "sizeDone" -> SizeDone(p)
    [] do = "data" -> Data(p, c)
    [] do = "complete" -> With(p, "ParsingCompleted")

\* The rules that fit a state and a class of characters: one or none.
Table(rules) ==
  [state \in {r.state : r \in rules} |->
     [class \in AnyClass |-> {r \in rules : r.state = state /\ class \in r.on}]]
RequestTable == Table(RequestRules)
ResponseTable == Table(ResponseRules)

Consume(table, p, c) ==
  LET fit == table[p.o.state][Class(c)] IN
  CASE p.result = "ParsingCompleted" -> {[p EXCEPT !.remainSize = @ + 1]}
    [] p.result = "ParsingIncompleted" /\ fit = {} -> {With(p, "ParsingError")}
    [] p.result = "ParsingIncompleted" /\ fit # {} -> {Do(r.do, Goto(p, r.next), c) : r \in fit}
    [] OTHER -> {p}

\* consume(): the characters of text from first to last.  The rules make an
\* automaton that is deterministic, so that the set has one member.
Parse(table, object, message, text) ==
  LET after[i \in 0..Len(text)] ==
        IF i = 0
        THEN {[o |-> object, m |-> message, result |-> "ParsingIncompleted", remainSize |-> 0]}
        ELSE UNION {Consume(table, p, text[i]) : p \in after[i - 1]}
  IN  after[Len(text)]

ParseRequest(object, text) == Parse(RequestTable, object, NewRequest, text)
ParseResponse(text) == Parse(ResponseTable, NewParser("ResponseStatusStart"), NewResponse, text)

=============================================================================
