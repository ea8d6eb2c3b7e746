-------------------------------- MODULE KcpLink --------------------------------
(***************************************************************************)
(* KcpSessionC and a KCP server, over UDP (Kcp.cpp).  The server is        *)
(* KcpServer, whose steps are conjoined here with the datagrams that       *)
(* cause them.  The client connects, reads a greeting under a four-second  *)
(* timer, answers it and believes itself connected; from then on each side *)
(* polls its ikcp, which delivers the peer's messages in order.  A worker  *)
(* pings the client once a second, the client answers, and a side that     *)
(* has received nothing for more than five seconds gives the session up.   *)
(* Beside all this, a message may be sent as a datagram of its own         *)
(* (sendMessage's pureUdp).                                                *)
(*                                                                         *)
(* ikcp (external) is a queue for each direction.  A greeting is known by  *)
(* its hash, of the conv (the session's worker) and the second it was made *)
(* in.  A message posted to a worker to be sent waits with those its ikcp  *)
(* has.  Pings, or answers to them, that wait one behind another are one.  *)
(* The client's ikcp talks to one session: that another under the same     *)
(* conv may take over its numbering is left out.                           *)
(***************************************************************************)
EXTENDS KcpServer, SequencesExt

CONSTANTS
  Message,                 \* what the client's user sends through ikcp
  Pure,                    \* what users send as pure UDP
  Big,                     \* messages longer than NETWORK_BUF_SIZE
  Second,                  \* times of greetings
  PongTimeout              \* seconds without a message; 5 in the code

ASSUME TimeoutAssumption == PongTimeout \in Nat \ {0}
ASSUME MessageAssumption == Big \subseteq Message /\ {"READY", "REQ", "ACK"} \cap Message = {}
ASSUME HashAssumption == None \notin Worker \X Second

VARIABLES
  network,                 \* "good": no loss, no copies, within the second; or "bad"
  wire,                    \* datagrams of the handshake under way
  second,                  \* when each session was greeted
  phaseC,                  \* how far the client is
  timerC,                  \* its init timer; "armed" until its handler has run
  openC,                   \* its socket is open
  hashC,                   \* the hash it signed; m_conv is part of it
  readyC, closedC,         \* m_Ready, m_closed
  peer,                    \* the session its ikcp has exchanged messages with
  inboxC,                  \* messages posted to its main thread
  up, down,                \* messages given to ikcp and not received
  ping,                    \* m_lastPingTime: "new", this second, or an earlier one
  ageC, age,               \* seconds since m_lastPongTime; -1 before the first poll
  inbox,                   \* messages posted to the server's main thread
  accepted, delivered,     \* what was sent through ikcp and given to handlers
  hearsC,                  \* the client's receive loop has not ended
  pure                     \* what became of each pure UDP message

client == <<phaseC, timerC, openC, hashC, readyC, closedC, inboxC, ageC, accepted>>
streams == <<peer, up, down>>
polling == <<ping, age, inbox, delivered>>
aside == <<hearsC, pure>>
linkVars == <<network, wire, second, client, streams, polling, aside, vars>>

Good == network = "good"
Hash(s) == <<home[s], second[s]>>

InitLink ==
  /\ Init
  /\ network \in {"good", "bad"} /\ wire = {}
  /\ second = [s \in Session |-> None]
  /\ phaseC = "new" /\ timerC = "off" /\ openC = TRUE /\ hashC = None
  /\ readyC = FALSE /\ closedC = FALSE /\ peer = None /\ inboxC = <<>>
  /\ up = <<>> /\ down = [s \in Session |-> <<>>]
  /\ ping = [s \in Session |-> "new"]
  /\ ageC = -1 /\ age = [s \in Session |-> -1]
  /\ inbox = [s \in Session |-> <<>>]
  /\ accepted = <<>> /\ delivered = <<>>
  /\ hearsC = TRUE /\ pure = [m \in Pure |-> "sent"]

-----------------------------------------------------------------------------
(* The handshake                                                           *)

Datagram(what, hash) == [what |-> what, hash |-> hash]

\* A datagram is received, or one of its copies; of copies that nobody would
\* look at, nothing is kept.
Useful(d) ==
  CASE d.what = "connect" -> \E s \in Session : phase'[s] = "none"
    [] d.what = "greeting" -> phaseC' = "waiting"
    [] d.what = "answer" -> \E s \in Session : phase'[s] \in {"none", "greeting", "waiting"}

Receive(d, sent) ==
  /\ d \in wire
  /\ \/ wire' = (wire \ {d}) \cup sent
     \/ ~Good /\ Useful(d) /\ wire' = wire \cup sent

\* Somebody still waits for the datagram.
Awaited(d) ==
  IF d.what = "greeting" THEN phaseC = "waiting" /\ openC ELSE loops > 0

\* The handshake has come to rest: on a good network no timer expires before.
Idle == (\A d \in wire : ~Awaited(d)) /\ \A s \in Session : phase[s] # "greeting"

\* connect(), and init() until it waits for the greeting.
ConnectC ==
  /\ phaseC = "new"
  /\ phaseC' = "waiting" /\ timerC' = "unarmed"
  /\ wire' = wire \cup {Datagram("connect", None)}
  /\ UNCHANGED <<network, second, openC, hashC, readyC, closedC, inboxC, ageC, accepted,
                 streams, polling, aside, vars>>

\* The timer is armed after the wait was begun, whose handler may have run on
\* the worker meanwhile and cancelled nothing.
ArmTimerC ==
  /\ timerC = "unarmed"
  /\ timerC' = "armed"
  /\ UNCHANGED <<network, wire, second, phaseC, openC, hashC, readyC, closedC, inboxC, ageC,
                 accepted, streams, polling, aside, vars>>

\* The greeting is under way before its send is seen to be complete.
ServerConnect(s, e) ==
  /\ Connect(s, e)
  /\ \E n \in Second : second' = [second EXCEPT ![s] = n]
  /\ Receive(Datagram("connect", None),
             IF phase'[s] = "greeting" THEN {Datagram("greeting", <<home'[s], second'[s]>>)} ELSE {})
  /\ UNCHANGED <<network, client, streams, polling, aside>>

ServerGreeted(s) ==
  /\ GreetingSent(s)
  /\ UNCHANGED <<network, wire, second, client, streams, polling, aside>>

ServerTimer(s) ==
  /\ Good => Idle
  /\ TimerRuns(s)
  /\ UNCHANGED <<network, wire, second, client, streams, polling, aside>>

\* init()'s handler: the timer is cancelled, which is nothing if it is not armed
\* yet, or too late if it has expired, and the greeting is answered, unless its
\* signature or its hash is wrong.
Greeted(hash) ==
  /\ phaseC = "waiting" /\ openC
  /\ \/ timerC' = IF timerC = "armed" THEN "off" ELSE timerC
     \/ ~Good /\ UNCHANGED timerC
  /\ \/ /\ phaseC' = "inited"
        /\ hashC' = hash
        /\ Receive(Datagram("greeting", hash), {Datagram("answer", hash)})
     \/ /\ phaseC' = "failed"
        /\ Receive(Datagram("greeting", hash), {})
        /\ UNCHANGED hashC
  /\ UNCHANGED <<network, second, openC, readyC, closedC, inboxC, ageC, accepted,
                 streams, polling, aside, vars>>

\* Four seconds after it was armed the timer closes the socket, whatever the
\* session has become.
TimerRunsC ==
  /\ timerC = "armed" /\ (Good => Idle)
  /\ timerC' = "off" /\ openC' = FALSE
  /\ UNCHANGED <<network, wire, second, phaseC, hashC, readyC, closedC, inboxC, ageC,
                 accepted, streams, polling, aside, vars>>

WaitFailsC ==
  /\ phaseC = "waiting" /\ ~openC
  /\ phaseC' = "failed"
  /\ UNCHANGED <<network, wire, second, timerC, openC, hashC, readyC, closedC, inboxC, ageC,
                 accepted, streams, polling, aside, vars>>

\* checkSign: the answer signs the hash of the session's own greeting.
Signed(s, hash) == hash = Hash(s)

\* An answer takes whatever pre-session there is; it joins if it is its.
ServerAnswered(e, u, hash) ==
  /\ loops > 0
  /\ \/ preSessions[e] = None /\ UNCHANGED vars
     \/ /\ Answer(e, u)
        /\ phase'[preSessions[e]] = IF Signed(preSessions[e], hash) THEN "joining" ELSE "ended"
  /\ Receive(Datagram("answer", hash), {})
  /\ UNCHANGED <<network, second, client, streams, polling, aside>>

-----------------------------------------------------------------------------
(* Polling                                                                 *)

Queue(q, m) ==
  IF m \in {"REQ", "ACK"} /\ q # <<>> /\ Last(q) = m THEN q ELSE Append(q, m)

\* ikcp_recv cannot copy a big message to its buffer, nor what is behind it.
Receivable(q) == SelectInSeq(q, LAMBDA m : m \in Big)
Fits(q) == IF Receivable(q) = 0 THEN Len(q) ELSE Receivable(q) - 1

\* A poll finds a message of those sent to it through q, or nothing.
Finds(q) == Fits(q) > 0
FindsNot(q) == Fits(q) = 0 \/ ~Good

\* The client's datagrams go by conv to a worker and there by key to a
\* session; the server's are taken if they have the client's conv.
Linked(s) == /\ openC /\ peer \in {None, s}
             /\ hashC # None /\ hashC[1] = home[s]

Aged(a) == IF a = -1 THEN 0 ELSE a

\* Mutant: what doPing sends counts as a sign of life.
PingedIsAlive(s) ==
  /\ inbox' = [inbox EXCEPT ![s] = IF ping[s] = "due" THEN Queue(@, "REQ") ELSE @]
  /\ ping' = [ping EXCEPT ![s] = "sent"]
  /\ age' = [age EXCEPT ![s] = IF ping[s] = "due" THEN 0 ELSE Aged(@)]

\* doPing, then doRead if it finds nothing.
Pinged(s) ==
  /\ inbox' = [inbox EXCEPT ![s] = IF ping[s] = "due" THEN Queue(@, "REQ") ELSE @]
  /\ ping' = [ping EXCEPT ![s] = "sent"]
  /\ age' = [age EXCEPT ![s] = Aged(@)]

\* The routine polls a session: nothing there, and perhaps for too long.
ServerPolls(s) ==
  /\ Runs(s) /\ WorkerFree(home[s])
  /\ waitRemove[s] \/ ~Linked(s) \/ loops = 0 \/ FindsNot(up)
  /\ Pinged(s)
  /\ IF ~waitRemove[s] /\ age[s] > PongTimeout THEN DoReadRemoves(s) ELSE UNCHANGED vars
  /\ UNCHANGED <<network, wire, second, client, streams, delivered, aside>>

\* doRead finds a message, which it posts to the main thread; that ignores an
\* answer to a ping.  (Its loop does not see m_waitRemove go up: by then the
\* session is closed, and the main thread ignores all that follows.)
ServerReceives(s) ==
  /\ Runs(s) /\ WorkerFree(home[s])
  /\ ~waitRemove[s] /\ Linked(s) /\ loops > 0 /\ Finds(up)
  /\ inbox' = [inbox EXCEPT ![s] =
                 (IF ping[s] = "due" THEN Queue(@, "REQ") ELSE @)
                   \o (IF Head(up) = "ACK" THEN <<>> ELSE <<Head(up)>>)]
  /\ up' = Tail(up)
  /\ ping' = [ping EXCEPT ![s] = "sent"]
  /\ age' = [age EXCEPT ![s] = 0]
  /\ peer' = s
  /\ UNCHANGED <<network, wire, second, client, down, delivered, aside, vars>>

\* Mutant: the five seconds count from the first message.
ClientPollsLater ==
  /\ phaseC = "inited"
  /\ \A s \in Session : Linked(s) /\ hearsC => FindsNot(down[s])
  /\ closedC' = (closedC \/ ageC > PongTimeout)
  /\ UNCHANGED <<network, wire, second, phaseC, timerC, openC, hashC, readyC, inboxC, ageC,
                 accepted, streams, polling, aside, vars>>

\* doRead of the client: removeSelf is close().
ClientPolls ==
  /\ phaseC = "inited"
  /\ \A s \in Session : Linked(s) /\ hearsC => FindsNot(down[s])
  /\ ageC' = Aged(ageC)
  /\ closedC' = (closedC \/ ageC > PongTimeout)
  /\ UNCHANGED <<network, wire, second, phaseC, timerC, openC, hashC, readyC, inboxC,
                 accepted, streams, polling, aside, vars>>

ClientReceives(s) ==
  /\ phaseC = "inited" /\ Linked(s) /\ hearsC /\ Finds(down[s])
  /\ inboxC' = Queue(inboxC, Head(down[s]))
  /\ down' = [down EXCEPT ![s] = Tail(@)]
  /\ ageC' = 0
  /\ peer' = s
  /\ UNCHANGED <<network, wire, second, phaseC, timerC, openC, hashC, readyC, closedC,
                 accepted, up, polling, aside, vars>>

-----------------------------------------------------------------------------
(* Messages                                                                *)

\* The client's user sends through ikcp; a closed session does not.
ClientSends(m) ==
  /\ phaseC = "inited" /\ ~closedC /\ m \notin Elements(accepted)
  /\ accepted' = Append(accepted, m)
  /\ up' = Queue(up, m)
  /\ UNCHANGED <<network, wire, second, phaseC, timerC, openC, hashC, readyC, closedC, inboxC,
                 ageC, peer, down, polling, aside, vars>>

UserCloses ==
  /\ phaseC = "inited" /\ ~closedC /\ ~Good
  /\ closedC' = TRUE
  /\ UNCHANGED <<network, wire, second, phaseC, timerC, openC, hashC, readyC, inboxC, ageC,
                 accepted, streams, polling, aside, vars>>

\* Mutant: a ping is not answered.
HandleMessageNoAck ==
  /\ inboxC # <<>>
  /\ inboxC' = Tail(inboxC)
  /\ readyC' = (readyC \/ (~closedC /\ Head(inboxC) = "READY"))
  /\ UNCHANGED up
  /\ UNCHANGED <<network, wire, second, phaseC, timerC, openC, hashC, closedC, ageC,
                 accepted, peer, down, polling, aside, vars>>

\* handleMessage on the client's main thread.
HandleMessageC ==
  /\ inboxC # <<>>
  /\ inboxC' = Tail(inboxC)
  /\ readyC' = (readyC \/ (~closedC /\ Head(inboxC) = "READY"))
  /\ up' = IF ~closedC /\ Head(inboxC) = "REQ" THEN Queue(up, "ACK") ELSE up
  /\ UNCHANGED <<network, wire, second, phaseC, timerC, openC, hashC, closedC, ageC,
                 accepted, peer, down, polling, aside, vars>>

\* Mutant: m_closed is not looked at.
HandleOrSendClosed(s) ==
  /\ inbox[s] # <<>>
  /\ inbox' = [inbox EXCEPT ![s] = Tail(@)]
  /\ LET m == Head(inbox[s]) IN
       /\ down' = [down EXCEPT ![s] = IF m \in {"READY", "REQ"} THEN Queue(@, m) ELSE @]
       /\ delivered' = IF m \in Message THEN Append(delivered, m) ELSE delivered
  /\ UNCHANGED <<network, wire, second, client, peer, up, ping, age, aside, vars>>

\* The server's main thread: init3's or doPing's message is sent, or one
\* that was received is handled, unless the session is closed.
HandleOrSend(s) ==
  /\ inbox[s] # <<>>
  /\ inbox' = [inbox EXCEPT ![s] = Tail(@)]
  /\ LET m == Head(inbox[s]) IN
       /\ down' = [down EXCEPT ![s] = IF ~closed[s] /\ m \in {"READY", "REQ"} THEN Queue(@, m) ELSE @]
       /\ delivered' = IF ~closed[s] /\ m \in Message THEN Append(delivered, m) ELSE delivered
  /\ UNCHANGED <<network, wire, second, client, peer, up, ping, age, aside, vars>>

\* init3's closure on the worker also posts the message that says READY.
ServerInserts(s) ==
  /\ Insert(s)
  /\ inbox' = [inbox EXCEPT ![s] = Append(@, "READY")]
  /\ UNCHANGED <<network, wire, second, client, streams, ping, age, delivered, aside>>

\* What KcpServer does without the network.
ServerInside ==
  /\ MainStep \/ \E s \in Session : Erase(s) \/ RemovePosted(s)
  /\ UNCHANGED <<network, wire, second, client, streams, polling, aside>>

-----------------------------------------------------------------------------
(* Pure UDP.  doSend hands the message to the socket and changes nothing   *)
(* else, so what is under way of it is not kept: on any network it may     *)
(* arrive late, or never.  The receiver takes the message's first bytes    *)
(* for the key and the next four for its length, but doSend puts neither   *)
(* before it: what becomes of it depends on what its bytes happen to be.   *)

\* The message is posted to the main thread and handled, by the session that
\* has the key, or by the client whatever the key: beside the stream, in no
\* order.  If there is no such session, or it is closed, it is dropped.
PureHandled(m) ==
  /\ pure[m] = "sent"
  /\ \/ \E s \in Session : Registered(s) /\ ~closed[s]
     \/ phaseC = "inited" /\ ~closedC /\ \E s \in Session : phase[s] = "joined"
  /\ pure' = [pure EXCEPT ![m] = "handled"]
  /\ UNCHANGED <<network, wire, second, client, streams, polling, hearsC, vars>>

\* The message is longer than that, and the loop that received it is not
\* started again: one of the server's, or the client's.
PureTooLong(m) ==
  /\ pure[m] = "sent"
  /\ \/ phaseC # "new" /\ PureUdpTooLong /\ UNCHANGED hearsC
     \/ /\ phaseC = "inited" /\ openC /\ hearsC /\ \E s \in Session : phase[s] = "joined"
        /\ hearsC' = FALSE
        /\ UNCHANGED vars
  /\ pure' = [pure EXCEPT ![m] = "tooLong"]
  /\ UNCHANGED <<network, wire, second, client, streams, polling>>

PureArrives == \E m \in Pure : PureHandled(m) \/ PureTooLong(m)

-----------------------------------------------------------------------------
(* Time and the network                                                    *)

\* A good network and idle threads: what a second began is done in it.
Quiet ==
  /\ Idle
  /\ mainTasks = <<>> /\ \A w \in Worker : workTasks[w] = <<>>
  /\ inboxC = <<>> /\ \A s \in Session : inbox[s] = <<>> /\ ~removing[s]
  /\ phaseC = "inited" => ageC # -1
  /\ \A s \in Session :
       Runs(s) => /\ age[s] # -1 /\ ping[s] = "sent"
                  /\ Linked(s) /\ loops > 0 => Fits(up) = 0
                  /\ Linked(s) /\ hearsC => Fits(down[s]) = 0

\* The timers of the handshake, of two and four seconds, are done before anyone
\* has waited the five of a timeout.
TimersDone ==
  /\ timerC # "off" => ageC < PongTimeout /\ \A s \in Session : age[s] < PongTimeout
  /\ \A s \in Session : timer[s] = "armed" =>
       age[s] < PongTimeout /\ (hashC = Hash(s) => ageC < PongTimeout)

\* What is closed or no longer polled does not count its seconds.
Tick ==
  /\ TimersDone /\ (Good => Quiet)
  /\ LET Older(a) == IF a \in {-1, PongTimeout + 1} THEN a ELSE a + 1 IN
       /\ ageC' = IF closedC THEN ageC ELSE Older(ageC)
       /\ age' = [s \in Session |-> IF Runs(s) THEN Older(age[s]) ELSE age[s]]
  /\ ping' = [s \in Session |-> IF Runs(s) /\ ping[s] # "new" THEN "due" ELSE ping[s]]
  /\ UNCHANGED <<network, wire, second, phaseC, timerC, openC, hashC, readyC, closedC, inboxC,
                 accepted, streams, inbox, delivered, aside, vars>>

Server(s) == ServerGreeted(s) \/ ServerTimer(s) \/ ServerInserts(s) \/ ServerPolls(s)
               \/ HandleOrSend(s) \/ ServerReceives(s)
Client == TimerRunsC \/ WaitFailsC \/ HandleMessageC \/ ClientPolls
            \/ \E s \in Session : ClientReceives(s)

Arrival ==
  \/ \E d \in wire : Greeted(d.hash)
  \/ \E d \in wire, e \in Endpoint, u \in Uid : ServerAnswered(e, u, d.hash)
  \/ \E s \in Session, e \in Endpoint : ServerConnect(s, e)

NextLink ==
  \/ ConnectC \/ ArmTimerC \/ UserCloses \/ Client \/ Arrival
  \/ \E m \in Message : ClientSends(m)
  \/ \E s \in Session : Server(s)
  \/ ServerInside \/ PureArrives \/ Tick

(* Threads, timers, time and a good network go on; a bad one and users owe *)
(* nothing.                                                                *)
FairLink ==
  /\ WF_linkVars(Good /\ Arrival)
  /\ WF_linkVars(ServerInside)
  /\ \A s \in Session :
       /\ WF_linkVars(ServerGreeted(s)) /\ WF_linkVars(ServerTimer(s)) /\ WF_linkVars(ServerInserts(s))
       /\ WF_linkVars(ServerPolls(s) \/ ServerReceives(s))
       /\ WF_linkVars(HandleOrSend(s))
  /\ WF_linkVars(ArmTimerC) /\ WF_linkVars(TimerRunsC)
  /\ WF_linkVars(WaitFailsC) /\ WF_linkVars(HandleMessageC)
  /\ WF_linkVars(ClientPolls \/ \E s \in Session : ClientReceives(s))
  /\ WF_linkVars(Tick)

SpecLink == InitLink /\ [][NextLink]_linkVars
FairSpecLink == SpecLink /\ FairLink

-----------------------------------------------------------------------------

(* A client that believes itself connected learns that it is (READY), or   *)
(* gives up: also if its answer overtook the completion of the greeting's  *)
(* send, or was another greeting's, and was dropped.                       *)
ClientKnows == phaseC = "inited" ~> (readyC \/ closedC)

(* Neither side keeps a session the other has ended: the server forgets    *)
(* the session of a client that closed, timed out, lost its socket to an   *)
(* init timer armed too late or its receive loop to a pure UDP message, or *)
(* sent a message too big to receive, unless another session shares its    *)
(* worker (see SilentTimesOut); a client whose socket or loop is lost, or  *)
(* whose session the server has removed, gives up.                         *)
HalfOpenEnds ==
  \A s \in Session :
    /\ (closedC \/ ~openC \/ ~hearsC \/ loops = 0 \/ Big \cap Elements(up) # {})
       /\ Registered(s) /\ Alone(s) ~> ~Registered(s) \/ ~Alone(s)
    /\ phaseC = "inited" /\ (~openC \/ ~hearsC \/ (peer = s /\ ~Registered(s))) ~> closedC

\* The client's receive loop runs and one of the server's, the client's socket
\* is open, and nothing clogs the buffer of doRead.
Reachable == openC /\ hearsC /\ loops > 0 /\ Big \cap Elements(up) = {}

(* On a good network nobody is taken for dead: pings and their answers     *)
(* keep both sides going, however little or much users send, for as long   *)
(* as each can reach the other: the init timer did not close the client's  *)
(* socket, pure UDP messages did not end the client's receive loop or the  *)
(* last of the server's, and what was sent fits the buffer.                *)
LiveStays ==
  Good /\ Reachable =>
    \A s \in Session : Registered(s) => ~waitRemove[s] /\ ~removing[s] /\ (Linked(s) => ~closedC)

(* From sendMessage without pureUdp to the handlers of the server, the     *)
(* link is an ordered channel until the server's session is closed,        *)
(* however the network repeats, delays and loses what makes it up, and     *)
(* whatever pure UDP messages those handlers are given beside it.          *)
Channel == INSTANCE OrderedChannel
             WITH closed <- (peer # None /\ closed[peer])
ImplementsChannel == Channel!Spec
=============================================================================
