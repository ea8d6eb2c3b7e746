# Formal models of nicenet

nicenet is a C++ network library: TCP and KCP servers and clients with a signed handshake, an HTTP
server, coroutine tasks that move between threads, wrappers of MySQL and MongoDB, and the threads
("services") all of them run on. This directory holds TLA+ specifications of its core logic, the
configurations that model-check them with TLC, and proofs checked by TLAPS. Every definition is
translated from the source; `PROJECT.json` names the lines each one stands for. Sources are cited
relative to the repository's root.

## 1. The system

### Services (Service.cpp)

One main thread (`gService`), 8 workers with an `io_context` each, 8 threads that share the
multi-worker `io_context`, and 16 database services. State: the queues of closures. Operations:
`start`, `stop`, `post(f, to)`, `joinMain`. A context run by one thread runs one handler at a time,
in the order posted: this is what the rest of the library uses in place of locks. What is hard: work
crosses between contexts by `post`, so two handlers of one session on two threads meet in orders
nobody wrote down; whatever is shared outside of a context (`nowSerialID`, the `Clock`, a
`Task` and its promise) has no protection but its own.

### TCP (Tcp.cpp, Tcp.h)

* *Sending.* `sendMessage` posts the message's buffer to the session's worker, which owns
  `m_SendList` and `m_IsSending`, batches small messages into an array and keeps one asynchronous
  write outstanding. Correct: messages reach the kernel in order, each once, none stays behind.
* *Receiving.* `doRead` reads chunks, `parseMsg` cuts them into messages with `m_PreMsg` for what is
  incomplete, and posts the messages to the main thread. Correct: however chunks fall, the main
  thread is given the peer's messages.
* *Server.* Accept, greeting, answer under a two-second timer, `nowSerialID`, the main thread's
  `m_sessions` by public key, `addSession`, `removeSession`, `close`. Correct: the table and the
  sockets agree; a session that was replaced is closed; a removal that comes late does not hit the
  successor; no connection stays in the handshake.
* *Client.* `connect`, the client's half of the handshake under its own timer, the same session
  afterwards. Correct: the two sides agree on whether there is a session.

### KCP (Kcp.cpp, Kcp.h)

The same over UDP: one socket received by 8 loops on the multi-worker threads, pre-sessions by
endpoint until the client's answer, `m_sessions` on the main thread, and per-worker
`m_RunningSessions` whose members a one-millisecond routine polls. A worker pings its clients once a
second; a side that has heard nothing for more than five seconds gives the session up. Messages go
through ikcp or, with `pureUdp`, in a datagram of their own beside it. Hard: datagrams are lost, repeated
and late; the client's timer is armed after the wait it guards has begun; a pure UDP message may end a
receive loop; a session is in three tables on three kinds of threads. Correct: a session joins once, what
is known is polled, what is closed stops being polled, what one side ended the other ends too, nobody
who can be reached is given up, and messages sent through ikcp arrive in order.

### Tasks (Task.hpp)

`Task<R, executer, return_context>`: a coroutine that runs in one service and resumes its awaiter in
another, with a semaphore by which the executer waits for the await. The Task object and the promise
point at each other from two threads. Correct: an await returns the value, in the right service,
once; nobody waits for ever; neither object is used after its end.

### HTTP (HttpServer.cpp, HttpParser.hpp)

*Parsers.* Three objects fed character by character, one switch each: requests, responses, URLs.
Correct: what was written is what is parsed, whichever of its forms it has.

*Connections.* A connection reads requests on its worker under a ten-second timer, parses them with a
parser object of its own, posts each to its handler on the main thread, and queues responses, which
the destructor of `HttpResponse` posts back. Hard: keep-alive and pipelined requests, the parser's
state between them, responses that finish out of order, timers that run on another thread. Correct: a
request is handled as it was sent and answered once, and no connection stays for ever.

### Databases (Mysql.hpp, Mongo.hpp, MongoAsync.hpp, Bson.hpp) and benchmarks

`MysqlConnectionPool` is a queue of connections under a mutex with RAII handles; the Mongo classes
wrap the pool of the external driver. The benchmarks post tasks to the database services and time
them with a lock-free `TaskCoordinator` that reads the shared `Clock`.

### The rest

`Message.h` (buffers, field encodings), `Type.h` (checked integers), `Server.cpp` (keys), `Log`,
`Module`, `proto/` (code generation).

## 2. The modules

| module | models | relation to other modules |
|---|---|---|
| `OrderedChannel` | what one direction of a session promises | abstract |
| `TcpSend`, `TcpSendProofs` | the sending half of a TCP session | implements `OrderedChannel` |
| `TcpFraming`, `TcpFramingProofs` | the receiving half: reads, `parseMsg`, `handleMessage` | - |
| `TcpServer` | handshake, timer, session table, for arbitrary clients | - |
| `TcpLink`, `TcpLinkProofs` | the library's client and the server; the proofs about both modules | composes and implements `TcpServer` |
| `KcpServer` | pre-sessions, session table, worker polling, for arbitrary clients | - |
| `KcpLink`, `KcpLinkProofs` | client, server and network; pings, data; the proofs about both modules | composes and implements `KcpServer`; implements `OrderedChannel` |
| `TaskAwait`, `TaskAwaitProofs` | Task, promise, semaphore, step by step | - |
| `HttpParser`, `HttpUrl` | the request, response and URL parsers | - |
| `HttpWire` | messages as they are written, and what a parser must make of them | reference for `HttpParser` |
| `HttpServer`, `HttpProofs` | connections, with `HttpParser` reading their requests | extends the three |
| `MysqlPool` | the connection pool | abstract for its users |
| `MysqlPhase`, `MysqlProofs` | a benchmark phase over the pool, with coordinator and clock | implements `MysqlPool` |
| `CheckedInt` | `StoreUInt` and `OperUInt`, with their proofs | - |

`MC*` modules give the constants their values. Operators preceded by "Mutant:" are broken variants of
the definition they precede; `PROJECT.json` pairs each property with one that violates it, which
shows that the property depends on the code it is about.

### How they correspond to the code

**TcpSend.** An action is one handler on the worker: `SendMessage` is `doSend(Message&)` on the
caller's thread up to its `post`, `RunPosted` the posted closure with the call of `doSend()`,
`WriteDone` and `WriteFails` the completion handlers. `DoSend(list)` is `doSend()`: the loop that
drops null buffers, the batch (`Batches`, `BatchLen`) or the write in place. Messages are model
values with a size; `wire` is the order in which they are handed to the kernel. asio writes at once
what the kernel takes, inside the call, and the rest from the event loop (`Transfer`). A batch lives
in an array on `doSend`'s stack, dead by then: such messages may become `torn`.

**TcpFraming.** A byte is its position in the peer's stream, a stream its cuts. The three states of
`m_PreMsg` (null, pieces of a length kept in `m_writePoint`'s own storage, a heap buffer) are
`prev.buff`; each branch of `parseMsg` is an action, and the recursion on the rest of a chunk is the
next one. A message in several pieces is swapped through a default `MessagePtr`, which holds no
value; `defaultPtr` says whether it does, so that the parser is checked both as built (it traps, see
findings) and beyond that point.

**TcpServer.** `phase`, `open`, `timer`, `uid`, `serial` per session; `sessions` is `m_sessions`,
`tasks` the main thread's queue. A handler is one action, except `nowSerialID++`, shared by all
workers, which is a read (`AnswerAccepted`) and a write (`Counted`). The verdict of the cryptography
is a nondeterministic choice. `TimerExpires` and `TimerRuns` are two steps: `cancel()` between them
has no effect.

**TcpLink.** `Client` names the sessions whose peer is the library's `TcpSessionC`; other clients stay
arbitrary. A client has `phaseC`, `openC` and `timerC`; each of its handlers is an action. With the
asynchronous `init` the wait is begun (`ConnectC`) before the timer is armed (`ArmTimerC`), and its
handler may run between the two and cancel nothing. A server
step is a step of `TcpServer` that `Allowed` admits: an answer arrives only from a client that has
sent one, an end of stream only after a close. `checkServerSign` is a nondeterministic verdict.

**KcpServer.** As the TCP server, with `preSessions` (`m_PreSessions`), `sessions` (`m_sessions`) and
`running` (`m_RunningSessions`, per worker). `serial` starts with whatever memory held: the code never
assigns it. `removeSelf` tests and sets `m_waitRemove` in two steps. Data of running sessions is in
`KcpLink`; here a client may fall silent.

**KcpLink.** The server's steps are the actions of `KcpServer`, each conjoined with the datagram that
causes it and those it sends; a poll of a session or of the client receives one message from ikcp, or
finds none. The handshake's datagrams are a set, `wire`. A network is "good" (no
loss, no copies, delivery within the second: `Tick` waits for `Quiet`) or "bad" (any datagram may be
lost, late or repeated). ikcp is external: one queue each way, in which a message posted to a worker to
be sent waits with the rest and consecutive pings, or answers to them, count as one. Ages of sessions
are in seconds, stop growing one beyond the timeout, and are those of sessions that are polled and not
closed.

The client's `init` begins to wait (`ConnectC`) before it arms the timer (`ArmTimerC`). The greeting's
handler (`Greeted`) cancels a timer that is armed; one that is not yet armed, or (on a bad network, where
the greeting may be late) has expired, it does not stop, and four seconds later the timer's handler
closes the socket of a client that is connected (`TimerRunsC`). On a good network a timer does not expire
before the handshake has come to rest (`Idle`); on any, timers of two and four seconds are done before
somebody has waited for five (`TimersDone`).

A message sent with `pureUdp` changes nothing at the sender, so its send is no step: each of `Pure` may at
any time arrive, or never. It is handled (`PureHandled`: posted to the main thread, beside the stream and
in no order with it), or it ends the receive loop that took it (`PureTooLong`: the loop returns before it
receives again; `hearsC` is the client's one loop, `loops` counts the server's eight, of which the model
has `Loops`). Which of the two depends on the message's own bytes: the receivers look for a key and a
length in front of the message, and `doSend` puts none there.

The client's ikcp talks to one session: that a second one under the same `conv` may take over its
numbering is left out.

**TaskAwait.** A caller works through a program of create, await and destroy steps; each read of a
pointer between the Task and the promise, and the write through it, are separate steps. `faults`
records accesses to dead objects and resumption before suspension. A program creates, awaits and
destroys a task once each (`WellFormed`): a `co_await` of a call in a loop makes a new task each time.

**HttpParser, HttpUrl, HttpWire.** The switch of each `consume()` is a table: in a state, a character of
a class leads to a state and does something with it (`Rule(state, on, next, do)`); what no rule
accepts is `ParsingError`. What the rules do, and the decisions made at the end of a header block, of a
size or of a chunk, are operators. Characters are strings; a word such as `"GET"` stands for its
letters, which a parser treats alike, and `"HTTP/"` for its five characters and states. Case is folded
(names are compared without it) and a `Content-Length` has digits only. `HttpWire` writes messages in
every form, and says what must come back. A request that a read cuts is where the code loses data:
each read parses into a new `HttpRequest`, and a header line in progress is written to the back of an
empty vector (`Crash`). URLs with parts the parser gives up or rearranges are not `Expressible`: a
port without a path, a password of digits, an IPv6 host.

**HttpServer.** A connection's reads, its timer, the timers of earlier waits (`stray`: the timer is
armed after the wait is registered, and cancelling one that has expired has no effect), the closures on
the main thread, responses that handlers hold, the posts of their destructors, the queue, the write.
A read takes all that has arrived or, `MaxCuts` times, less. `addHandler` is called before the server
runs: `Handled` is a constant. Of `inspect()` only the announced fate of the connection is kept; it
ends lines with "\n" alone, which the response parser of the same file does not accept, so responses
are checked as RFC-conforming servers write them, not as this server does.

**MysqlPool, MysqlPhase.** `PopConn` and `PushConn` are the bodies of the locked functions. A phase:
the runner posts tasks, each records its start, executes its share of the statements, adds its counts,
records its end and marks itself done; the runner polls and reads. `Clock::getMilliSeconds` is five
steps with the members in memory and one with the value in a register. `MysqlPhase` extends
`MysqlPool` and conjoins its actions.

**CheckedInt.** `impl` is a `StoreUInt` under any sequence of `add`, `minus`, sums and products of
`OperUInt`; `exact` is the integer these amount to. `Base` is the range of an `OperUInt`; arithmetic
is modulo `Base * Base`.

## 3. What is checked

| run | bounds | shows |
|---|---|---|
| `tcp_send` | 4 messages: two that share a batch, one larger than the array, one empty | order, each once, one write at a time, the flag has an owner, all written unless broken; implements `OrderedChannel` |
| `tcp_framing` | 64 streams of 3 messages of 6, 7, 18 (= the limit) and 19 bytes; reads of 1 to 9 bytes | the main thread is given the peer's messages, no byte is lost or repeated, refusals are for length |
| `tcp_link` | 2 sessions on 2 workers under one key, one of a library client, one message each | table and sockets agree, no foreign removal while serial numbers differ, the handshake ends, closed sessions leave, the client and the server agree in the end |
| `kcp_server` | 2 sessions, 1 endpoint, 1 key, 2 workers, serial numbers equal or not | joins are single; the known are polled unless a sibling shares their worker; closed sessions stop; pre-sessions drain |
| `kcp_link` | 1 client, 1 session, 2 messages of which one exceeds the receive buffer, 1 pure UDP message, timeout of 1 second | clients learn that they are connected or give up; what one side ended the other ends; on a good network nobody who can be reached is given up; messages sent through ikcp in order: implements `OrderedChannel` |
| `task_await` | 4 tasks, one for each pair of services, 3 threads of which 2 share a service, 12 programs | values, services and order of awaits; single resumption; waits have an await to come; programs end unless starved |
| `http` | 1 connection, 5 streams of one or two requests, 2 short reads; 608 requests, 648 responses, 768 URLs (of which 272 are `Expressible`) for the parsers | what is written is parsed back; first requests are handled as sent, answered once; connections end |
| `mysql_phase` | 2 tasks, 2 services, 1 or 2 connections, 3 statements, 2 milliseconds | connections conserved, never an empty pool with one each, the result is the whole phase's, the phase ends |

Why these bounds are enough. Two sessions are the smallest number that can be displaced, share a
worker, and race for a serial number; a third would repeat one of the two roles. In `tcp_link` both
have one key, for only then do they meet; the theorems of `TcpLinkProofs` have any number of both. In `kcp_link` the
second session is left to `kcp_server`, and the timeout of five seconds becomes one: the code compares
ages with the timeout only, and a ping a second is still one ping before the first expiry. One pure UDP
message can do each of the three things such a message does (be handled, end the server's last loop,
end the client's), and what it did is not undone; the theorems have any number of them. Three
messages give a chunk that ends one message, holds a second and begins a third; read sizes of 1 to 9
over lengths of 4 and headers of 6 end a chunk at every offset. Four messages exercise every branch of
`doSend` and a completion that finds a mixed list. Two short reads cut a request into three. HTTP
connections share nothing but the main thread, which delays them only. Two tasks suffice to overwrite
each other's times. Bounds in guards: `MaxReads` (messages a TCP server session reads), `Loops`
(receive loops), `MaxTime` (milliseconds), `MaxCuts` (short reads), `PongTimeout + 1` (ages);
everything else is bounded by the constant sets.

`MessagesParse` and `UrlsParse` speak of texts and not of runs; they are evaluated in the states in
which no connection was accepted, with the parser as a new connection has it. The theorems state them for all
texts that can be written.

Type invariants are in no run's list, which is kept for what the code can break. They are proved; that
of the abstract `OrderedChannel`, which is not, can be checked in a run (put `TypeOK` in place of the
INVARIANTS of the cfg).

`CHECK_DEADLOCK FALSE` is set throughout: clients may stop, messages and programs run out.

### Fairness

Weak fairness of what threads and timers do by themselves: an `io_context` with a running thread runs
what is queued (`start` keeps each alive with an `asio::io_context::work`), an armed timer expires,
asio completes a wait on a closed socket, a connection that has not failed writes. Never of what
clients' users or failures do. In `KcpServer` the poll of a silent session is fair because the routine
runs every millisecond over what is in `m_RunningSessions`. In `TcpLink` an answer or an end of stream
that has arrived is read (TCP's promise), and the client's user calls `startRead`, as README.md:205 and
`client_test.cpp` do; in both links `init`, once it has begun to wait, goes on to arm its timer; in `KcpLink`
time passes, datagrams of the handshake arrive on a good network only, pure UDP messages need not, and a bad
network owes nothing, so that `ClientKnows` and `HalfOpenEnds` rest on timers and timeouts alone. In
`HttpServer` nothing is owed by clients: `ConnectionsEnd` rests on the timer of each wait.

### Conditions

Some properties are stated under a condition because without it they fail, by design or for reasons no
document of the repository speaks of:

* `NoForeignRemoval`: serial numbers differ. Two workers that increment the shared counter at once may
  give one number twice.
* `KnownIsPolled`, `HalfOpenEnds`: no sibling session on the same worker (see `kcp_silent`).
* `LiveStays`: a good network, and each side can reach the other (`Reachable`). The init timer has not
  closed the client's socket: armed after the greeting was handled (Kcp.cpp:888-891 against l. 828) it does
  so, on any network, and the session ends by timeout on both sides. The client's receive loop and one of
  the server's run: a pure UDP message of a user may end them (l. 208-212, 954-958), on any network. What
  was sent through ikcp fits the buffer of `doRead` (16 KB, where messages may have 32 KB). That sessions
  which lost any of these end is `HalfOpenEnds`.
* `ImplementsChannel` of `KcpLink`: of messages sent without `pureUdp`. The others are not ordered, and may
  be lost.
* `ObjectsOutliveUse`: tasks that return to the service they run in and are destroyed before the next
  await, as `co_await f()` destroys them (`Prompt`). Of the others the two destructors may run on two
  threads, and each may write into the other object after its end.
* `AwaitsReturn`: the service is the one README.md:59-60 calls the "end return thread", except for a task
  that ran in the call that made it, returns there, and was kept across another await (`Kept`):
  `await_suspend` resumes the caller where it is (Task.hpp:158), and the await in between moved it.
* `WaitersAreAwaited`, in general: programs that await each task they create; the others are `task_dropped`.
* `ResultIsWhole`: the order of the two times needs the clock's value in a register.
* `HandledAsSent`, `AnswersMatch`, `Answered`: a first request that arrives in one read.

### Findings

Runs that TLC ends with a violation. Each checks one statement made by a comment, a document or a
sample of the repository.

* `tcp_framing_split` (Tcp.cpp:382, Kcp.cpp:599): a message that came in several reads is moved through
  a null `MessagePtr`, whose default constructor's comment promises a value.
* `kcp_silent` (Kcp.cpp:440): a client reconnects, its new session is given the old one's worker, and
  the old one's removal takes the new one out of `m_RunningSessions`: nobody polls it, and its timeout
  never comes.
* `task_dropped` (Task.hpp:117): the README's `f();//do coroutine` may leave the main thread waiting
  for an await that never comes.
* `http_kept_alive` (HttpServer.cpp:48): a client that was told `Connection: keep-alive` and sends a second
  request is not answered: the parser is still in the state the first request ended in.

## 4. What is proved

For every value of the constants under the named assumptions. The provers check each proof to its
leaves. The proofs about a composition and about the component it composes are in one module.

**Sending** (`TcpSendProofs`), for every set of messages, sizes and array size (`SizeAssumption`,
`BufAssumption`): `SendTypeCorrect`, `SendConserves`, `SendFlagHasOwner`, `SendFrontStaysPut`,
`SendOneWriteAtATime`, `SendLargeIntact`, `SendImplementsChannel`. The invariant is `TypeOK`,
`FlagHasOwner`, `FrontStaysPut`, `Conservation`, and two that make these inductive: `BrokenIsQuiet` (a
session whose write failed starts no other: the flag stays raised, so `RunPosted` only queues) and
`WireIsPrefix` (what was written is a prefix of what was sent, which survives the failure, when
`Conservation` no longer speaks). `DoSendMoves`, the central lemma, says that whichever way `doSend()`
takes, it moves messages from the list to the wire or the write without changing their order. The
refinement follows: a step extends `wire` to a longer prefix of `sent` or leaves it. One write at a time
is a property of steps: with the flag's owner known, a step that finds a write outstanding either
continues or ends it. `SendLargeIntact` needs the sums of sizes: `BytesAreSums` shows that the recursive
function that adds them is what its equation says, and `BatchFits` that a batch whose sum fits the array
holds no message larger than it.

**Receiving** (`TcpFramingProofs`), for every set of streams, every size of the read buffer and every
limit (`StreamsAssumption`: each message has its header; `SizesAssumption`): `FramingTypeCorrect`,
`FramingInOrder`, `FramingBytesAccounted`, `FramingRefusedForLength`. The invariant says where the parser
stands (`Reading`): it has cut the first messages of the stream, `m_PreMsg` keeps the first bytes of the
next, fewer than a length field or fewer than the message, and the rest of the chunk is what follows.
`LengthRead` is the lemma on which all else rests: four bytes that begin where a message begins give that
message's length, because no two messages begin at one place (`BeginsDiffer`). `Posting` and `Calling`
then say which messages the main thread's queue and the handlers have.

**TCP server and link** (`TcpLinkProofs`), for any sessions, keys, workers and placements
(`HomeAssumption`, `NoneAssumption`, `MaxReadsAssumption`): `ServerTypeCorrect`,
`ServerDisplacedClosed`, `ServerEndedIsRemoved`, `ServerNoForeignRemoval`. The invariant adds
`TableKeys` (the table maps a key to a session that authenticated with it and is being read) and
`TasksHaveUid` (closures on the main thread belong to sessions that authenticated). `DisplacedClosed`
holds with racing serial numbers too; `NoForeignRemoval` is conditional on numbers that differ, and the
condition is necessary. `EndedIsRemoved` needs a lemma on queues: what is queued stays queued until it is
taken from the front. With `ClientAssumption`, `LinkImplementsServer` is the refinement of the
composition, by which the theorems above hold of the library's own clients: `LinkDisplacedClosed`,
`LinkEndedIsRemoved`, `LinkNoForeignRemoval`.

**KCP server and link** (`KcpLinkProofs`), for any sessions, endpoints, keys, workers, serial numbers and
receive loops (`NoneAssumption`, `LoopsAssumption`): `KcpTypeCorrect`, `KcpJoinsOnce`,
`KcpKnownIsPolled`. A session passes from `m_PreSessions` to the main thread's queue, to `m_sessions` and
a worker's queue, and to `m_RunningSessions`; the invariant says of each of these in which phase its
sessions are (`PreWaits`, `MainPhases`, `AddsOnce`, `JoiningIsQueued`, `TableJoined`, `WorkJoined`,
`RemovingJoined`). That leaves two facts for polling: while the main thread has a session, no erasure is
queued on that session's own behalf (`NotErased`), and so, unless a sibling shares its worker, the session
runs or is queued to run (`Polled`).

Of the composition (`TimeoutAssumption`, `MessageAssumption`, `HashAssumption`):

* `KcpLinkImplementsServer`, over any network, and through it `KcpLinkJoinsOnce` and
  `KcpLinkKnownIsPolled`.
* `KcpLinkImplementsChannel`, over any network: from `sendMessage` without `pureUdp` to the server's handlers
  the link is an ordered channel until its session is closed. The invariant (`ChannelInv`) is that the messages
  accepted and not delivered are, in order and once each, those in the session's inbox followed by those in
  the ikcp's queue, between pings and answers to them (`Carries`), and that no other session is given
  messages (`Foreign`).
* `KcpLinkLiveStays`, on a good network and as long as each side can reach the other (`Reachable`: the
  client's socket is open, receive loops run on both sides, what was sent fits), for every timeout and
  number of sessions. The property is far from inductive: that nobody is given up depends on there being
  one session, on its handshake happening once, on no removal being queued, and on every step of the way
  from a ping to its answer. `LiveInv` says so, of states that are `Reachable` (`ReachableBefore`: no step
  leads back to them): `Once` (one session, at most one datagram of its handshake and in the phase it is
  for) and `Calm`
  (nobody's age is above 1, and a side whose age is 1 has a ping or an answer on its way: in the worker's
  next poll, in ikcp, or in an inbox).

**Tasks** (`TaskAwaitProofs`), for every set of services, threads, tasks and programs that create, await
and destroy each task once (`ServicesAssumption`, `ProgramsAssumption`): `TaskTypeCorrect`,
`TaskResumesOnce`, `TaskWaitersAwaited`, `TaskObjectsOutlive`, `TaskAwaitsReturn`. The invariant follows a
task through both of its objects: where its coroutine is (`Runs`, `Jobs`, `Coroutines`: in one queue, or on
one thread of its executer, never both), what it can still reach of its caller (`Untold`, `Resuming`), and
where the caller is (`Caller`, `Placed`, `Back`). Two parts serve the ends of objects: a prompt task that
is awaited where it runs is on the caller's own thread, below it (`Under`), so that it finishes with its
caller's Task after the caller has let go of it (`Freed`). `ReturnInv` adds that the values returned are
those of the awaits passed, in order. `TaskWaitersAwaited` is under the hypothesis `AwaitsAll(program)`, that
each task created is awaited; without it the property fails, as `task_dropped` shows.

**MySQL** (`MysqlProofs`), for any number of tasks, services, connections and statements
(`PoolSizeAssumption`, `NoConnAssumption`, `PhaseAssumption`, `ServiceAssumption`: there are finitely many
services): `PoolConserves` (the pool alone), `PhaseImplementsPool` (a phase uses the pool as its
specification allows), from both `PhaseConserves`, and `PhaseTypeCorrect`, `PhaseServes`, `PhaseResult`.
`ConnectionsConserved` is inductive with the pool's types. `PhaseServes` counts: tasks of a service run in
turn (`InTurn`), so that those that hold a connection are in as many services, and another that wants one is
in yet another. `PhaseResult` needs, of the coordinator's two times, that each is kept through a
`compare_exchange` that failed and was tried again (`Starts`, `Ends`), that the clock does not run
backwards when its value is in a register (`Forwards`), and of its counts, that with the statements still to
be counted they sum to all of them (`Counting`).

**Checked integers** (`CheckedInt`), for every width: `StoreIsExact`, `StoreRefusesForRange`. A sum of
two numbers below the range is below twice the range, so that a sum that wrapped is less than both of its
terms, and one that did not is less than neither; operands of half the width have a product that fits.
There is no run: the theorems say for every width what a run could for one.

**HTTP** (`HttpProofs`), for any number of connections, any handlers, any way reads cut what clients send, and
any requests, responses and URLs that can be written: `HttpTypeCorrect`, `HttpMessagesParse`, `HttpUrlsParse`,
`HttpHandledAsSent`, `HttpAnswersMatch`. The assumptions are about texts as they are written and not about the
parser. `WireAssumption` and `StreamsAssumption`: a message is made of words of the characters that may stand
where they stand (methods and names of tokens, targets and values of visible ones), over as many header lines
as there may be, with a version of at most two digits a side, a Content-Length of at most 99 or two chunks, of
one character and of at most 15, and its Connection headers agree with each other; a request with a body is a
POST or a PUT; a target is what its URI names. `UrlsAssumption`: the parts of a URL likewise, and a port of 16
bits. TLC evaluates all of them for the constants of the runs.

*What the parsers read.* The two tables of rules are deterministic (`TablesKnow`: for a state and a character
there is one rule at most), so that a text leads from one configuration of a parser to one other (`Reaches`),
and of two texts the second goes on where the first has led (`ReachesThen`). The proof reads a message as the
code does: the first line (`ReadsRequestLine`, `ReadsStatusLine`), each header and each of the lines it is
folded over (`ReadsHeader`), the header that frames the body (`ReadsFraming`), the body counted down or chunk
by chunk, with sizes that start anew (`ReadsContent`, `ReadsChunks`). The invariant along a word is that what
was read of it is behind what was there before (`Spells`), along a number that the digits so far have their
value (`CountsUp`). URLs are read by the same argument (`Scans`), part by part, with what is still undecided,
host or user, port or password, kept in the configuration. `FirstRead` says for the server that any stream
begins with a request that a new parser completes where it ends, as it was written, whatever follows it.

*What becomes of a request.* `EndedParses` shows that an object that has completed a request completes nothing
more: past the end of a body it counts down without meeting zero, and elsewhere it refuses all but the line
feed, with which no further request begins (`Ended`, `Unending`). The inductive invariant follows the one request
of each connection from place to place (`At`: the main thread's queue, the handler, the post, the buffers, the
kernel), and has of the parser and of `m_buffer` what makes a second one impossible (`Follows`).
`HttpTypeCorrect` (with `MaxCutsAssumption`) adds that the table of rules is closed: whatever a rule does with a
character, the parser is left in a state that has rules, so that no text, cut anyhow, brings it anywhere else
(`DoSound`, `ParseInStates`); that a wait is never without the timer that ends it (`Timed`); and that a write is
pending only under the flag and with its buffer in front (`Writes`). `HttpInv` is as well the proof of what
`http_kept_alive` finds: a kept connection answers once.

**Induction.** Where a proof needs induction over the naturals it takes the least member of the set of
counterexamples (`Least`, from the library's well-founded induction). The sums of a bag are the last of its
partial sums; it is shown that they exist, only grow, bound their terms and change as one term does.
Three of the lemmas about them stand in two modules, each of which proves what it needs.

Only model-checked: all liveness (fairness and ENABLED are beyond the prover). Every safety property that a
passing run checks is stated by a theorem.

## 5. What is not modelled

* The cryptography (micro-ecc, SHA-3), ikcp, asio, the MySQL and MongoDB drivers: external; each is
  modelled by the outcomes the code in this repository distinguishes. `Mongo.hpp`, `MongoAsync.hpp` and
  `Bson.hpp` are thin wrappers of the driver, whose pool does the work.
* Field encodings of `Message.h`, formatting, logging, key files, build and generator scripts:
  conversions with no state of their own.
* `mongoBenchmarkImpl.cpp`, an older form of the benchmark that `MysqlPhase` models.
* What the bytes of a pure UDP message become: the key and the length its receiver reads are the message's
  own bytes, as `doSend` sends neither, and with a length beyond the datagram memory behind it is read.
  Modelled is that such a message is handled, ends a receive loop, or is lost; not that one may carry an
  identifier of the library's own messages (READY, a ping), nor that its first bytes may be another
  session's key. In the server it goes to a session that is in `m_sessions`.
* The second session of one KCP client under one `conv`, whose ikcp takes over the first one's numbering;
  the retransmission inside ikcp.
* Service start and stop: the services run throughout; what a program leaves in the queues at `stop` is
  not run, and nothing in the repository waits for it.

## 6. Plan

1. `Delivery`: `TcpSend` over a byte stream into `TcpFraming`, end to end, implementing
   `OrderedChannel`, with the refinement proved.
2. `Services`: `start`, `stop`, `joinMain` and what is left in the queues.
3. The second session under one `conv` in `KcpLink`.
