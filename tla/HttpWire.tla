------------------------------- MODULE HttpWire -------------------------------
(***************************************************************************)
(* Messages as HTTP writes them, and what a parser must make of them.  A   *)
(* described message has the fields of HttpRequestBase or HttpResponseBase *)
(* and the form of its body: none, delimited by a Content-Length, or cut   *)
(* into chunks, with or without extensions and trailers.                   *)
(***************************************************************************)
EXTENDS HttpUrl

CONSTANTS
  Requests,     \* described requests, as clients of the library write them
  Responses     \* described responses, as servers write them

\* What can be written so that it can be read: words of the characters that
\* may stand where they stand, of which the header that frames the body is
\* not one; a Connection header says one thing, and HTTP has no version 1.2.
Word(s, classes) == Words(s, classes) /\ s # <<>>
Visible == AnyClass \ (Control \cup {SP})

HeaderForm(h) ==
  /\ Word(h.name, Token) /\ Word(h.value, Visible)
  /\ h.name \notin {<<"Content-Length">>, <<"Transfer-Encoding">>}

MessageForm(d) ==
  /\ d.major \in 0..99 /\ d.minor \in 0..99 /\ (d.major = 1 => d.minor <= 1)
  /\ d.headers \in Seq([name : Seq(STRING), value : Seq(STRING)])
  /\ \A i \in DOMAIN d.headers : HeaderForm(d.headers[i])
  /\ \A i, j \in DOMAIN d.headers :
       d.headers[i].name = <<"Connection">> /\ d.headers[j].name = <<"Connection">>
         => d.headers[i].value = d.headers[j].value
  /\ d.content \in Seq(STRING)
  /\ \/ d.form = "none" /\ d.content = <<>>
     \/ d.form = "length" /\ Len(d.content) <= 99
     \/ d.form \in {"chunks", "extensions", "trailers"} /\ Len(d.content) \in 2..16

\* Requests have a body only with these methods.
RequestForm(d) ==
  /\ MessageForm(d)
  /\ Word(d.method, Token) /\ Word(d.uri, Visible)
  /\ d.form # "none" => d.method \in {<<"POST">>, <<"PUT">>}

ResponseForm(d) ==
  /\ MessageForm(d)
  /\ d.code \in Seq(DOMAIN DigitOf) /\ Atoi(d.code) \in 100..999
  /\ Word(d.status, Char \ {CR})

ASSUME WireAssumption ==
  (\A d \in Requests : RequestForm(d)) /\ (\A d \in Responses : ResponseForm(d))

EndOfLine == <<CR, LF>>
Decimal(n) ==
  IF n < 10 THEN <<Digits[n + 1]>> ELSE <<Digits[(n \div 10) + 1], Digits[(n % 10) + 1]>>
Hex(n) == <<Digits[n + 1]>>

HeaderText(h) == h.name \o <<":", SP>> \o h.value \o EndOfLine

\* A value of several words is folded over as many lines.
FoldedText(h) ==
  h.name \o <<":", SP, h.value[1]>>
    \o FlattenSeq([i \in 1..(Len(h.value) - 1) |-> EndOfLine \o <<TAB, h.value[i + 1]>>]) \o EndOfLine

Texts(headers, Text(_)) == FlattenSeq([i \in 1..Len(headers) |-> Text(headers[i])])

\* The header that says how the body is delimited.
Framing(d) ==
  CASE d.form = "none" -> <<>>
    [] d.form = "length" ->
         <<[name |-> <<"Content-Length">>, value |-> Decimal(Len(d.content))]>>
    [] OTHER -> <<[name |-> <<"Transfer-Encoding">>, value |-> <<"chunked">>]>>

ChunkText(size, data) == Hex(size) \o EndOfLine \o data \o EndOfLine
LastChunk(d) ==
  CASE d.form = "chunks" -> Hex(0) \o EndOfLine \o EndOfLine
    [] d.form = "extensions" -> Hex(0) \o <<SEMI, "name", "=", "value">> \o EndOfLine \o EndOfLine
    [] d.form = "trailers" ->
         Hex(0) \o EndOfLine \o <<"name", ":", SP, "value">> \o EndOfLine \o EndOfLine

\* One chunk of one character, the rest in a second one.
BodyText(d) ==
  CASE d.form = "none" -> <<>>
    [] d.form = "length" -> d.content
    [] OTHER -> ChunkText(1, SubSeq(d.content, 1, 1))
                  \o ChunkText(Len(d.content) - 1, Tail(d.content)) \o LastChunk(d)

Version(d) == <<HTTP>> \o Decimal(d.major) \o <<".">> \o Decimal(d.minor)

RequestText(d) ==
  d.method \o <<SP>> \o d.uri \o <<SP>> \o Version(d) \o EndOfLine
    \o Texts(d.headers, FoldedText) \o Texts(Framing(d), HeaderText) \o EndOfLine \o BodyText(d)

ResponseText(d) ==
  Version(d) \o <<SP>> \o d.code \o <<SP>> \o d.status \o EndOfLine
    \o Texts(d.headers, FoldedText) \o Texts(Framing(d), HeaderText) \o EndOfLine \o BodyText(d)

\* HTTP: the Connection header decides, without one the version does.
StaysOpen(d) ==
  IF \E i \in DOMAIN d.headers : d.headers[i].name = <<"Connection">>
  THEN [name |-> <<"Connection">>, value |-> <<"keep-alive">>] \in Range(d.headers)
  ELSE d.major > 1 \/ (d.major = 1 /\ d.minor > 0)

Agrees(p, d) ==
  /\ p.result = "ParsingCompleted"
  /\ p.remainSize = 0
  /\ p.m.major = d.major /\ p.m.minor = d.minor
  /\ p.m.headers = d.headers \o Framing(d)
  /\ p.m.content = d.content
  /\ p.m.keepAlive = StaysOpen(d)

\* A parser reads every request as it is written.
RequestsParse(parser) ==
  \A d \in Requests :
    \A p \in ParseRequest(parser, RequestText(d)) :
      Agrees(p, d) /\ p.m.method = d.method /\ p.m.uri = d.uri

\* So does a new one of responses.
ResponsesParse ==
  \A d \in Responses :
    \A p \in ParseResponse(ResponseText(d)) :
      Agrees(p, d) /\ p.m.code = Atoi(d.code) /\ p.m.status = d.status

=============================================================================
