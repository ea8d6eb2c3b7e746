------------------------------ MODULE HttpServer ------------------------------
(***************************************************************************)
(* HttpConnection and HttpServer (HttpServer.cpp): a connection waits for  *)
(* data under a ten-second timer, reads and parses it on its worker, posts *)
(* a request to its handler on the main thread, and sends the responses    *)
(* that their destructors post back.                                       *)
(*                                                                         *)
(* Three threads meet at a connection: its worker, the main thread, and    *)
(* whichever worker the timer of a read is given, which also is another    *)
(* one than the acceptor's, where the first start() runs: the first wait   *)
(* is registered (Accept) before its timer is armed (ArmTimer), and data   *)
(* may be handled in between.                                              *)
(***************************************************************************)
EXTENDS HttpWire

CONSTANTS
  Conns,       \* connections
  Streams,     \* sequences of requests a client may send, each with its target
  Handled,     \* URLs with a handler (addHandler)
  MaxCuts      \* how many reads may stop short of what has arrived

ASSUME MaxCutsAssumption == MaxCuts \in Nat

VARIABLES
  stream,      \* the requests the client sends
  sent,        \* how many of them it has sent
  taken,       \* how many characters the server has read
  firstRead,   \* how many of them in its first read
  parser,      \* m_parser
  buffer,      \* m_buffer
  waiting,     \* async_wait(wait_read) is pending
  timer,       \* the timer of the pending wait
  stray,       \* states of timers whose wait is over and that were not cancelled
  socket,      \* "new", "open", "timed out" (closed by a timer), "gone" (destroyed)
  peer,        \* the client keeps its end open
  main,        \* closures posted to the main thread: [conn, request, keepAlive]
  building,    \* responses that handlers hold
  posted,      \* responses posted to the connection's worker
  sendBuffers, \* m_sendBuffers
  isSending,   \* m_IsSending
  writing,     \* an async_write is pending
  out,         \* responses handed to the kernel
  crashed,     \* the process is dead
  cuts         \* reads that stopped short

input == <<stream, sent, peer>>
reading == <<taken, firstRead, parser, buffer, waiting, cuts>>
timers == <<timer, stray>>
answers == <<main, building, posted, sendBuffers, isSending, writing, out>>
vars == <<input, reading, timers, answers, socket, crashed>>

\* A stream as characters, and where each of its requests ends.
StreamText == [s \in Streams |-> FlattenSeq([i \in 1..Len(s) |-> RequestText(s[i])])]
StreamEnds ==
  [s \in Streams |->
     [k \in 0..Len(s) |-> Len(FlattenSeq([i \in 1..k |-> RequestText(s[i])]))]]
Chars(c) == StreamText[stream[c]]
Arrived(c) == StreamEnds[stream[c]][sent[c]]

Init ==
  /\ stream \in [Conns -> Streams]
  /\ sent = [c \in Conns |-> 0]
  /\ taken = [c \in Conns |-> 0]
  /\ firstRead = [c \in Conns |-> 0]
  /\ parser = [c \in Conns |-> NewParser("RequestMethodStart")]
  /\ buffer = [c \in Conns |-> <<>>]
  /\ waiting = [c \in Conns |-> FALSE]
  /\ timer = [c \in Conns |-> "off"]
  /\ stray = [c \in Conns |-> {}]
  /\ socket = [c \in Conns |-> "new"]
  /\ peer = [c \in Conns |-> TRUE]
  /\ main = <<>>
  /\ building = {}
  /\ posted = [c \in Conns |-> <<>>]
  /\ sendBuffers = [c \in Conns |-> <<>>]
  /\ isSending = [c \in Conns |-> FALSE]
  /\ writing = [c \in Conns |-> FALSE]
  /\ out = [c \in Conns |-> <<>>]
  /\ crashed = FALSE
  /\ cuts = 0

---------------------------------------------------------------------------
(* The client                                                              *)

Send(c) ==
  /\ peer[c] /\ socket[c] = "open" /\ sent[c] < Len(stream[c])
  /\ sent' = [sent EXCEPT ![c] = @ + 1]
  /\ UNCHANGED <<stream, peer, reading, timers, answers, socket, crashed>>

Leave(c) ==
  /\ peer[c] /\ socket[c] = "open"
  /\ peer' = [peer EXCEPT ![c] = FALSE]
  /\ UNCHANGED <<stream, sent, reading, timers, answers, socket, crashed>>

---------------------------------------------------------------------------
(* Timers                                                                  *)

\* accept() and the part of start() before the timer is armed.
Accept(c) ==
  /\ socket[c] = "new"
  /\ socket' = [socket EXCEPT ![c] = "open"]
  /\ waiting' = [waiting EXCEPT ![c] = TRUE]
  /\ timer' = [timer EXCEPT ![c] = "unarmed"]
  /\ UNCHANGED <<input, taken, firstRead, parser, buffer, cuts, stray, answers, crashed>>

ArmTimer(c) ==
  /\ \/ timer[c] = "unarmed" /\ timer' = [timer EXCEPT ![c] = "armed"] /\ UNCHANGED stray
     \/ /\ "unarmed" \in stray[c]
        /\ stray' = [stray EXCEPT ![c] = (@ \ {"unarmed"}) \cup {"armed"}]
        /\ UNCHANGED timer
  /\ UNCHANGED <<input, reading, answers, socket, crashed>>

TimerExpires(c) ==
  /\ \/ timer[c] = "armed" /\ timer' = [timer EXCEPT ![c] = "expired"] /\ UNCHANGED stray
     \/ /\ "armed" \in stray[c]
        /\ stray' = [stray EXCEPT ![c] = (@ \ {"armed"}) \cup {"expired"}]
        /\ UNCHANGED timer
  /\ UNCHANGED <<input, reading, answers, socket, crashed>>

\* The timer's handler closes the socket, whatever has become of the wait.
TimerRuns(c) ==
  /\ \/ timer[c] = "expired" /\ timer' = [timer EXCEPT ![c] = "off"] /\ UNCHANGED stray
     \/ "expired" \in stray[c] /\ stray' = [stray EXCEPT ![c] = @ \ {"expired"}] /\ UNCHANGED timer
  /\ socket' = [socket EXCEPT ![c] = IF @ = "open" THEN "timed out" ELSE @]
  /\ UNCHANGED <<input, reading, answers, crashed>>

\* t->cancel() stops a timer that is armed; one that has expired or is armed
\* only later is a timer without a wait.
Uncancelled(c) == stray[c] \cup ({timer[c]} \cap {"unarmed", "expired"})

---------------------------------------------------------------------------
(* Reading                                                                 *)

\* read_some takes what has arrived, or less of it.
Sizes(c) ==
  {n \in 1..(Arrived(c) - taken[c]) : n < Arrived(c) - taken[c] => cuts < MaxCuts}

\* What a read of n characters is parsed into.  With characters left over in
\* m_buffer the new ones are put behind them, but only n are parsed.
Fresh(c, n) == SubSeq(Chars(c), taken[c] + 1, taken[c] + n)
Text(c, n) == SubSeq(buffer[c] \o Fresh(c, n), 1, n)
Grown(c, n) == IF buffer[c] = <<>> THEN <<>> ELSE buffer[c] \o Fresh(c, n)

\* The wait's handler up to the verdict of the parser.
Read(c, n, p) ==
  /\ cuts' = IF n < Arrived(c) - taken[c] THEN cuts + 1 ELSE cuts
  /\ firstRead' = [firstRead EXCEPT ![c] = IF taken[c] = 0 THEN n ELSE @]
  /\ parser' = [parser EXCEPT ![c] = p.o]
  /\ stray' = [stray EXCEPT ![c] = Uncancelled(c)]

\* Mutant: the timer is made and not armed.
RestartUntimed(c) ==
  /\ waiting' = [waiting EXCEPT ![c] = TRUE]
  /\ timer' = [timer EXCEPT ![c] = "off"]

\* start() from the wait's handler: the timer is armed before data is handled.
Restart(c) ==
  /\ waiting' = [waiting EXCEPT ![c] = TRUE]
  /\ timer' = [timer EXCEPT ![c] = "armed"]

Stop(c) ==
  /\ waiting' = [waiting EXCEPT ![c] = FALSE]
  /\ timer' = [timer EXCEPT ![c] = "off"]

\* What a completed request leaves in m_buffer: the last characters of the
\* data, without a null character in front.
LeftOver(c, n, p) ==
  LET data == Fresh(c, n)
      remain == IF p.remainSize > 0 /\ data[n - p.remainSize + 1] = NUL
                THEN p.remainSize - 1 ELSE p.remainSize
  IN  SubSeq(data, n - remain + 1, n)

SplitAt(s, mark) ==
  FoldLeft(LAMBDA parts, c : IF c = mark THEN Append(parts, <<>>)
                             ELSE [parts EXCEPT ![Len(parts)] = Append(@, c)],
           << <<>> >>, s)

\* Of values with one name the last is kept.
Named(pairs) == FoldLeft(LAMBDA f, s : (s[1] :> s[2]) @@ f, <<>>, pairs)

\* The target without its query, and the query's name=value pairs.
Params(uri) ==
  LET parts == SplitAt(uri, "?")
      pairs == IF Len(parts) = 1 THEN <<>>
               ELSE LET all == SplitAt(Last(parts), "&")
                    IN  SelectSeq([i \in 1..Len(all) |-> SplitAt(all[i], "=")], LAMBDA s : Len(s) > 1)
  IN  [url |-> parts[1],
       params |-> Named(pairs)]

\* A client sends one request after the other, whose target is what its URI
\* names.
ASSUME StreamsAssumption ==
  \A s \in Streams :
    /\ Len(s) \in Nat \ {0} /\ \A i \in 1..Len(s) : RequestForm(s[i])
    /\ Params(s[1].uri) = s[1].target

\* Mutant: the handler is found without the query, the request keeps it.
AskedWithQuery(p) ==
  [method |-> p.m.method, url |-> p.m.uri, params |-> Params(p.m.uri).params, content |-> p.m.content]

\* What is handed to a handler.
AskedBy(p) ==
  LET target == Params(p.m.uri) IN
  [method |-> p.m.method, url |-> target.url, params |-> target.params, content |-> p.m.content]

\* A request is complete: it is posted to its handler and, if the connection
\* is to be kept, the next one is awaited; without a handler the response
\* that has been made ready is destroyed, which sends it.
TakeRequest(c, n, p) ==
  LET url == Params(p.m.uri).url IN
  /\ p.result = "ParsingCompleted"
  /\ Read(c, n, p)
  /\ buffer' = [buffer EXCEPT ![c] = LeftOver(c, n, p)]
  /\ \/ /\ url \in Handled
        /\ main' = Append(main, [conn |-> c, request |-> AskedBy(p), keepAlive |-> p.m.keepAlive])
        /\ IF p.m.keepAlive THEN Restart(c) ELSE Stop(c)
        /\ UNCHANGED posted
     \/ /\ url \notin Handled
        /\ posted' = [posted EXCEPT ![c] =
                        Append(@, [code |-> 404, keepAlive |-> p.m.keepAlive, content |-> <<>>])]
        /\ Stop(c)
        /\ UNCHANGED main
  /\ UNCHANGED <<input, building, sendBuffers, isSending, writing, out, socket, crashed>>

\* The parser refuses the data: the wait is not renewed.
Refuse(c, n, p) ==
  /\ p.result = "ParsingError"
  /\ Read(c, n, p)
  /\ buffer' = [buffer EXCEPT ![c] = Grown(c, n)]
  /\ Stop(c)
  /\ UNCHANGED <<input, answers, socket, crashed>>

\* The message is not complete: its rest is awaited, in a new HttpRequest.
ReadOn(c, n, p) ==
  /\ p.result = "ParsingIncompleted"
  /\ Read(c, n, p)
  /\ buffer' = [buffer EXCEPT ![c] = Grown(c, n)]
  /\ Restart(c)
  /\ UNCHANGED <<input, answers, socket, crashed>>

\* The last header of a message without headers is written to.
Crash(c, n, p) ==
  /\ p.result = "Trap"
  /\ Read(c, n, p)
  /\ buffer' = [buffer EXCEPT ![c] = Grown(c, n)]
  /\ Stop(c)
  /\ crashed' = TRUE
  /\ UNCHANGED <<input, answers, socket>>

ReadSome(c) ==
  /\ waiting[c] /\ socket[c] = "open"
  /\ \E n \in Sizes(c) :
       /\ taken' = [taken EXCEPT ![c] = @ + n]
       /\ \E text \in {Text(c, n)} : \E p \in ParseRequest(parser[c], text) :
            TakeRequest(c, n, p) \/ Refuse(c, n, p) \/ ReadOn(c, n, p) \/ Crash(c, n, p)

\* The wait ends with an error: the client has left or the socket is closed.
ReadFails(c) ==
  /\ waiting[c]
  /\ socket[c] = "timed out" \/ (~peer[c] /\ taken[c] = Arrived(c))
  /\ stray' = [stray EXCEPT ![c] = Uncancelled(c)]
  /\ Stop(c)
  /\ UNCHANGED <<input, taken, firstRead, parser, buffer, cuts, answers, socket, crashed>>

---------------------------------------------------------------------------
(* Handlers and responses                                                  *)

\* The main thread runs a closure: the handler is called and writes.
Handle ==
  /\ main # <<>> /\ ~crashed
  /\ main' = Tail(main)
  /\ LET task == Head(main) IN
     building' = building \cup
       {[conn |-> task.conn,
         response |-> [code |-> 200, keepAlive |-> task.keepAlive, content |-> task.request.url]]}
  /\ UNCHANGED <<input, reading, timers, posted, sendBuffers, isSending, writing, out, socket, crashed>>

\* The handler lets go of its response: ~HttpResponse posts it.
Release(b) ==
  /\ b \in building /\ ~crashed
  /\ building' = building \ {b}
  /\ posted' = [posted EXCEPT ![b.conn] = Append(@, b.response)]
  /\ UNCHANGED <<input, reading, timers, main, sendBuffers, isSending, writing, out, socket, crashed>>

\* doSend with these buffers.
DoSend(c, buffers) ==
  /\ sendBuffers' = [sendBuffers EXCEPT ![c] = buffers]
  /\ isSending' = [isSending EXCEPT ![c] = buffers # <<>>]
  /\ writing' = [writing EXCEPT ![c] = buffers # <<>>]

\* Mutant: the closure queues the response and starts no write.
RunPostedQueues(c) ==
  /\ posted[c] # <<>>
  /\ posted' = [posted EXCEPT ![c] = Tail(@)]
  /\ sendBuffers' = [sendBuffers EXCEPT ![c] = Append(@, Head(posted[c]))]
  /\ UNCHANGED <<isSending, writing>>
  /\ UNCHANGED <<input, reading, timers, main, building, out, socket, crashed>>

\* ~HttpResponse's closure on the worker.
RunPosted(c) ==
  /\ posted[c] # <<>>
  /\ posted' = [posted EXCEPT ![c] = Tail(@)]
  /\ LET buffers == Append(sendBuffers[c], Head(posted[c])) IN
     \/ isSending[c] /\ sendBuffers' = [sendBuffers EXCEPT ![c] = buffers]
                     /\ UNCHANGED <<isSending, writing>>
     \/ ~isSending[c] /\ DoSend(c, buffers)
  /\ UNCHANGED <<input, reading, timers, main, building, out, socket, crashed>>

\* Mutant: the buffer that was written is not popped.
WriteDoneKeeps(c) ==
  /\ writing[c] /\ socket[c] = "open"
  /\ out' = [out EXCEPT ![c] = Append(@, Head(sendBuffers[c]))]
  /\ DoSend(c, sendBuffers[c])
  /\ UNCHANGED <<input, reading, timers, main, building, posted, socket, crashed>>

WriteDone(c) ==
  /\ writing[c] /\ socket[c] = "open"
  /\ out' = [out EXCEPT ![c] = Append(@, Head(sendBuffers[c]))]
  /\ DoSend(c, Tail(sendBuffers[c]))
  /\ UNCHANGED <<input, reading, timers, main, building, posted, socket, crashed>>

\* The flag stays up and the buffers stay where they are.
WriteFails(c) ==
  /\ writing[c] /\ (socket[c] = "timed out" \/ ~peer[c])
  /\ writing' = [writing EXCEPT ![c] = FALSE]
  /\ UNCHANGED <<input, reading, timers, main, building, posted, sendBuffers, isSending, out, socket, crashed>>

\* The wait, timers, closures, responses and writes that hold the connection.
Held(c) ==
  \/ waiting[c] \/ timer[c] # "off" \/ stray[c] # {} \/ writing[c] \/ posted[c] # <<>>
  \/ \E b \in building : b.conn = c
  \/ \E i \in DOMAIN main : main[i].conn = c

Destroy(c) ==
  /\ socket[c] = "open" /\ ~Held(c)
  /\ socket' = [socket EXCEPT ![c] = "gone"]
  /\ UNCHANGED <<input, reading, timers, answers, crashed>>

System(c) ==
  \/ ArmTimer(c) \/ TimerExpires(c) \/ TimerRuns(c) \/ RunPosted(c) \/ WriteDone(c)
  \/ ReadFails(c) \/ WriteFails(c) \/ Destroy(c) \/ ReadSome(c)

\* Nothing moves in a process that is dead.
Live == IF crashed THEN {} ELSE Conns

Next ==
  \/ \E c \in Live : Accept(c) \/ System(c) \/ Send(c) \/ Leave(c)
  \/ Handle
  \/ \E b \in building : Release(b)

Spec == Init /\ [][Next]_vars

\* Threads run what is queued, armed timers expire, handlers end, and asio
\* completes what can complete; a connection takes finitely many such steps,
\* so that none is put off for ever.  Clients owe nothing.
Fairness ==
  /\ \A c \in Conns : WF_vars(c \in Live /\ System(c))
  /\ WF_vars(Handle \/ \E b \in building : Release(b))

FairSpec == Spec /\ Fairness

---------------------------------------------------------------------------
(* Properties                                                              *)

\* The first request of a connection came in one read, with or without more.
ArrivedWhole(c) == firstRead[c] >= StreamEnds[stream[c]][1]

Wanted(c) ==
  LET d == stream[c][1]
      found == d.target.url \in Handled
  IN  [code |-> IF found THEN 200 ELSE 404, keepAlive |-> StaysOpen(d),
       content |-> IF found THEN d.target.url ELSE <<>>]

\* Every variable keeps its type; a write is pending only under the flag and
\* with a buffer to read from, and a wait is never without its timer.
TypeOK ==
  /\ \A c \in Conns :
       /\ sent[c] \in 0..Len(stream[c]) /\ taken[c] \in 0..Arrived(c) /\ firstRead[c] \in 0..taken[c]
       /\ parser[c].state \in States /\ parser[c].chunked \in BOOLEAN
       /\ timer[c] \in {"off", "unarmed", "armed", "expired"}
       /\ stray[c] \subseteq {"unarmed", "armed", "expired"}
       /\ socket[c] \in {"new", "open", "timed out", "gone"}
       /\ writing[c] => isSending[c] /\ sendBuffers[c] # <<>>
       /\ socket[c] = "open" /\ timer[c] # "off" => waiting[c]
       /\ waiting[c] /\ timer[c] = "off" => socket[c] = "timed out"
  /\ \A i \in DOMAIN main : main[i].conn \in Conns
  /\ cuts \in 0..MaxCuts

\* The parsers of responses and of URLs keep nothing from one text to the
\* next, and that of requests nothing yet: they are tried before anything else.
Untouched == \A c \in Conns : socket[c] = "new"

\* A request as it is written is parsed to its end and no further, into the
\* method, the target, the version, the headers, the body and the fate of the
\* connection it was written with, whichever way its body is delimited; and
\* so is a response, with its code and text.
MessagesParse == Untouched => ResponsesParse /\ \A c \in Conns : RequestsParse(parser[c])

\* A URL that is written and parsed back is the same URL, whichever of its
\* parts it has, with the path "/" where it has none; the port to connect
\* to is the one it names, or the scheme's.
UrlsParse == Untouched => \A u \in Urls : Expressible(u) => ParsesBack(u)

\* A handler is called with a request its client sent as the first of its
\* connection, if that arrived whole: its method, its URL without the query,
\* the query's values by name, its body, and whether to keep the connection.
HandledAsSent ==
  \A i \in DOMAIN main :
    LET c == main[i].conn
        d == stream[c][1]
        got == main[i].request
    IN  ArrivedWhole(c) =>
          /\ got.method = d.method /\ got.content = d.content
          /\ main[i].keepAlive = StaysOpen(d)
          /\ got.url = d.target.url /\ got.params = d.target.params

\* A client whose first request arrived whole is sent one response at most for
\* it, and it is that request's, however handlers, writes, timers and the end
\* of the connection fall; nothing else is ever sent to it.
AnswersMatch ==
  \A c \in Conns : ArrivedWhole(c) => out[c] \in {<<>>, <<Wanted(c)>>}

\* A request that arrived whole is answered, unless a timer of an earlier or
\* the same wait closes the socket, the client leaves or the process dies.
Answered ==
  \A c \in Conns :
    (sent[c] > 0 /\ ArrivedWhole(c))
      ~> (out[c] # <<>> \/ socket[c] = "timed out" \/ ~peer[c] \/ crashed)

\* No connection stays for ever: every wait has a timer that can end it, and
\* every response that holds the connection is let go.
ConnectionsEnd ==
  \A c \in Conns : socket[c] = "open" ~> (socket[c] # "open" \/ crashed)

\* A client that was told "Connection: keep-alive" and sent a second request
\* is sent a second response, unless a timer closes the socket, the client
\* leaves or the process dies.
KeptAliveServed ==
  \A c \in Conns :
    (Len(out[c]) = 1 /\ out[c][1].code = 200 /\ out[c][1].keepAlive /\ sent[c] = 2)
      ~> (Len(out[c]) = 2 \/ socket[c] = "timed out" \/ ~peer[c] \/ crashed)

=============================================================================
