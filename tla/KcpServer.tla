------------------------------- MODULE KcpServer -------------------------------
(***************************************************************************)
(* The KCP server's sessions (src/Kcp.cpp).  Datagrams of one UDP socket   *)
(* are received by several loops on the multi-worker threads: a connect    *)
(* creates a session, which is greeted and kept in m_PreSessions, by       *)
(* endpoint, until its client's signed answer takes it out again.  The     *)
(* main thread enters it into m_sessions, by public key, and posts it to   *)
(* the worker its conv names, whose m_RunningSessions, by key too, it      *)
(* joins: the worker's one-millisecond routine polls the sessions in there *)
(* and nothing else does.  A session is removed by the main thread, which  *)
(* then posts its removal from m_RunningSessions.                          *)
(*                                                                         *)
(* KcpSessionS never assigns m_serialID (Kcp.h:70), which removeSession    *)
(* compares (l. 278): a session's serial number is whatever its memory     *)
(* held.  What the datagrams of a running session carry is left out, but   *)
(* for its client falling silent.                                          *)
(***************************************************************************)
EXTENDS Naturals, Sequences

CONSTANTS
  Session,                 \* KcpSessionS objects
  Endpoint,                \* the clients' addresses
  Uid,                     \* and public keys
  Worker,                  \* gWorkerServices, one thread each
  SerialID,                \* values uninitialised memory may hold
  Loops,                   \* receive loops that accept() starts
  None                     \* no session, no key, ...

ASSUME NoneAssumption == None \notin Session \cup Endpoint \cup Uid \cup Worker \cup SerialID
ASSUME LoopsAssumption == Loops \in Nat

VARIABLES
  phase,                   \* how far each session is
  at,                      \* its m_endpoint
  home,                    \* its m_iocontextIndex, sent to the client as m_conv
  serial,                  \* its m_serialID
  uid,                     \* its m_uid
  timer,                   \* its pre-session timer
  closed, waitRemove,      \* m_closed, m_waitRemove
  removing,                \* its worker is inside removeSelf()
  silent,                  \* its client sends no more
  loops,                   \* receive loops still running
  preSessions,             \* m_PreSessions
  sessions,                \* m_sessions
  running,                 \* m_RunningSessions
  mainTasks,               \* closures posted to the main thread
  workTasks                \* and to each worker

vars == <<phase, at, home, serial, uid, timer, closed, waitRemove, removing, silent,
          loops, preSessions, sessions, running, mainTasks, workTasks>>
made == <<at, home, serial>>
flags == <<closed, waitRemove, removing, silent>>

Elements(s) == {s[i] : i \in DOMAIN s}

TypeOK ==
  /\ phase \in [Session -> {"none", "greeting", "waiting", "joining", "joined", "ended"}]
  /\ at \in [Session -> Endpoint \cup {None}]
  /\ home \in [Session -> Worker \cup {None}]
  /\ serial \in [Session -> SerialID \cup {None}]
  /\ uid \in [Session -> Uid \cup {None}]
  /\ timer \in [Session -> {"off", "armed", "done"}]
  /\ closed \in [Session -> BOOLEAN] /\ waitRemove \in [Session -> BOOLEAN]
  /\ removing \in [Session -> BOOLEAN] /\ silent \in [Session -> BOOLEAN]
  /\ loops \in 0 .. Loops
  /\ preSessions \in [Endpoint -> Session \cup {None}]
  /\ sessions \in [Uid -> Session \cup {None}]
  /\ running \in [Worker -> [Uid -> Session \cup {None}]]
  /\ mainTasks \in Seq([do : {"add", "remove"}, session : Session])
  /\ workTasks \in [Worker -> Seq([do : {"run", "erase"}, session : Session])]
  /\ \A s \in Session : phase[s] \in {"joining", "joined"} => uid[s] \in Uid

Init ==
  /\ phase = [s \in Session |-> "none"]
  /\ at = [s \in Session |-> None] /\ home = [s \in Session |-> None]
  /\ serial = [s \in Session |-> None] /\ uid = [s \in Session |-> None]
  /\ timer = [s \in Session |-> "off"]
  /\ closed = [s \in Session |-> FALSE] /\ waitRemove = [s \in Session |-> FALSE]
  /\ removing = [s \in Session |-> FALSE] /\ silent = [s \in Session |-> FALSE]
  /\ loops = Loops
  /\ preSessions = [e \in Endpoint |-> None]
  /\ sessions = [u \in Uid |-> None]
  /\ running = [w \in Worker |-> [u \in Uid |-> None]]
  /\ mainTasks = <<>>
  /\ workTasks = [w \in Worker |-> <<>>]

Do(what, s) == [do |-> what, session |-> s]
PostToWorker(what, s) == workTasks' = [workTasks EXCEPT ![home[s]] = Append(@, Do(what, s))]

-----------------------------------------------------------------------------
(* Datagrams, on the multi-worker threads.                                 *)

(* A connect (1) from e: a session is created, on a random worker, and     *)
(* greeted, unless the greeting cannot be signed.                          *)
Connect(s, e) ==
  /\ loops > 0 /\ phase[s] = "none"
  /\ at' = [at EXCEPT ![s] = e]
  /\ \E w \in Worker : home' = [home EXCEPT ![s] = w]
  /\ \E n \in SerialID : serial' = [serial EXCEPT ![s] = n]
  /\ \E p \in {"greeting", "ended"} : phase' = [phase EXCEPT ![s] = p]
  /\ UNCHANGED <<uid, timer, flags, loops, preSessions, sessions, running, mainTasks, workTasks>>

(* The completion of the greeting's send.  Only now, in init2, does the    *)
(* session become a pre-session, in place of any other of its endpoint.    *)
GreetingSent(s) ==
  /\ phase[s] = "greeting"
  /\ \/ /\ phase' = [phase EXCEPT ![s] = "waiting"]
        /\ preSessions' = [preSessions EXCEPT ![at[s]] = s]
        /\ timer' = [timer EXCEPT ![s] = "armed"]
     \/ /\ phase' = [phase EXCEPT ![s] = "ended"]
        /\ UNCHANGED <<preSessions, timer>>
  /\ UNCHANGED <<made, uid, flags, loops, sessions, running, mainTasks, workTasks>>

(* Mutant: the timer only logs. *)
TimerRunsIdle(s) ==
  /\ timer[s] = "armed"
  /\ timer' = [timer EXCEPT ![s] = "done"]
  /\ UNCHANGED <<phase, made, uid, flags, loops, preSessions, sessions, running, mainTasks, workTasks>>

(* Two seconds later, whatever has become of s: the pre-session of its     *)
(* endpoint is erased.                                                     *)
TimerRuns(s) ==
  /\ timer[s] = "armed"
  /\ timer' = [timer EXCEPT ![s] = "done"]
  /\ preSessions' = [preSessions EXCEPT ![at[s]] = None]
  /\ UNCHANGED <<phase, made, uid, flags, loops, sessions, running, mainTasks, workTasks>>

(* Mutant: the pre-session is found and not erased. *)
AnswerNoErase(e, u) ==
  /\ loops > 0 /\ preSessions[e] # None
  /\ LET s == preSessions[e] IN
       /\ uid' = [uid EXCEPT ![s] = u]
       /\ phase' = [phase EXCEPT ![s] = "joining"]
       /\ mainTasks' = Append(mainTasks, Do("add", s))
  /\ UNCHANGED <<made, timer, flags, loops, preSessions, sessions, running, workTasks>>

(* An answer (2) from e, under key u: under the lock, the pre-session is   *)
(* taken out.  It is dropped if the answer is short or its signature is    *)
(* not one of the session's m_hash; otherwise init3 posts it.              *)
Answer(e, u) ==
  /\ loops > 0 /\ preSessions[e] # None
  /\ LET s == preSessions[e] IN
       \/ /\ uid' = [uid EXCEPT ![s] = u]
          /\ phase' = [phase EXCEPT ![s] = "joining"]
          /\ mainTasks' = Append(mainTasks, Do("add", s))
       \/ /\ phase' = [phase EXCEPT ![s] = "ended"]
          /\ UNCHANGED <<uid, mainTasks>>
  /\ preSessions' = [preSessions EXCEPT ![e] = None]
  /\ UNCHANGED <<made, timer, flags, loops, sessions, running, workTasks>>

(* A pure-UDP message (4) that is longer than its length says: the handler *)
(* returns before it starts to receive again.  (One that is not is posted  *)
(* to its session's handlers: KcpLink's PureHandled.)                      *)
PureUdpTooLong ==
  /\ loops > 0
  /\ loops' = loops - 1
  /\ UNCHANGED <<phase, made, uid, timer, flags, preSessions, sessions, running, mainTasks, workTasks>>

(* The client sends nothing any more. *)
FallsSilent(s) ==
  /\ phase[s] \in {"joining", "joined"} /\ ~silent[s]
  /\ silent' = [silent EXCEPT ![s] = TRUE]
  /\ UNCHANGED <<phase, made, uid, timer, closed, waitRemove, removing, loops,
                 preSessions, sessions, running, mainTasks, workTasks>>

-----------------------------------------------------------------------------
(* The main thread takes a task; each of its operations is one step.       *)
MainTakes(what, s) == mainTasks # <<>> /\ Head(mainTasks) = Do(what, s)

(* close() of the session found in the table, if any: removeSelf() posts   *)
(* its removal, unless that has been done.                                 *)
Close(old) ==
  IF old = None
  THEN mainTasks' = Tail(mainTasks) /\ UNCHANGED <<closed, waitRemove>>
  ELSE /\ closed' = [closed EXCEPT ![old] = TRUE]
       /\ waitRemove' = [waitRemove EXCEPT ![old] = TRUE]
       /\ mainTasks' = IF waitRemove[old] THEN Tail(mainTasks)
                       ELSE Append(Tail(mainTasks), Do("remove", old))

(* Mutant: the session is posted to its worker only if its key is new. *)
AddSessionNewOnly(s) ==
  /\ MainTakes("add", s)
  /\ Close(sessions[uid[s]])
  /\ sessions' = [sessions EXCEPT ![uid[s]] = s]
  /\ phase' = [phase EXCEPT ![s] = "joined"]
  /\ IF sessions[uid[s]] = None THEN PostToWorker("run", s) ELSE UNCHANGED workTasks
  /\ UNCHANGED <<made, uid, timer, removing, silent, loops, preSessions, running>>

(* init3's closure: addSession closes and replaces a session under the     *)
(* same key; then the new one is posted to its worker.                     *)
AddSession(s) ==
  /\ MainTakes("add", s)
  /\ Close(sessions[uid[s]])
  /\ sessions' = [sessions EXCEPT ![uid[s]] = s]
  /\ phase' = [phase EXCEPT ![s] = "joined"]
  /\ PostToWorker("run", s)
  /\ UNCHANGED <<made, uid, timer, removing, silent, loops, preSessions, running>>

(* Mutant: a session the table no longer holds is not erased either. *)
RemoveSelfImplFound(s) ==
  /\ MainTakes("remove", s)
  /\ LET old == sessions[uid[s]] IN
     IF old # None /\ serial[old] = serial[s]
     THEN Close(old) /\ sessions' = [sessions EXCEPT ![uid[s]] = None] /\ PostToWorker("erase", s)
     ELSE Close(None) /\ UNCHANGED <<sessions, workTasks>>
  /\ UNCHANGED <<phase, made, uid, timer, removing, silent, loops, preSessions, running>>

(* removeSelfImpl: removeSession closes and erases the session under the   *)
(* key if the serial numbers are the same; then, in any case, the worker   *)
(* is to erase what it runs under the key.                                 *)
RemoveSelfImpl(s) ==
  /\ MainTakes("remove", s)
  /\ LET old == sessions[uid[s]] IN
     \/ /\ old # None /\ serial[old] = serial[s]
        /\ Close(old)
        /\ sessions' = [sessions EXCEPT ![uid[s]] = None]
     \/ /\ ~(old # None /\ serial[old] = serial[s])
        /\ Close(None)
        /\ UNCHANGED sessions
  /\ PostToWorker("erase", s)
  /\ UNCHANGED <<phase, made, uid, timer, removing, silent, loops, preSessions, running>>

-----------------------------------------------------------------------------
(* A worker runs one handler at a time. *)
WorkerFree(w) == \A s \in Session : removing[s] => home[s] # w

WorkerTakes(what, s) ==
  /\ home[s] # None /\ WorkerFree(home[s])
  /\ workTasks[home[s]] # <<>> /\ Head(workTasks[home[s]]) = Do(what, s)
  /\ workTasks' = [workTasks EXCEPT ![home[s]] = Tail(@)]

Insert(s) ==
  /\ WorkerTakes("run", s)
  /\ running' = [running EXCEPT ![home[s]][uid[s]] = s]
  /\ UNCHANGED <<phase, made, uid, timer, flags, loops, preSessions, sessions, mainTasks>>

Erase(s) ==
  /\ WorkerTakes("erase", s)
  /\ running' = [running EXCEPT ![home[s]][uid[s]] = None]
  /\ UNCHANGED <<phase, made, uid, timer, flags, loops, preSessions, sessions, mainTasks>>

Runs(s) == phase[s] = "joined" /\ running[home[s]][uid[s]] = s

(* The routine polls a session: nothing for five seconds, or a stream that *)
(* is not one of messages.  removeSelf() finds m_waitRemove down ...       *)
DoReadRemoves(s) ==
  /\ Runs(s) /\ WorkerFree(home[s])
  /\ ~waitRemove[s]
  /\ removing' = [removing EXCEPT ![s] = TRUE]
  /\ UNCHANGED <<phase, made, uid, timer, closed, waitRemove, silent, loops,
                 preSessions, sessions, running, mainTasks, workTasks>>

(* ... raises it and posts, even if the main thread has done so meanwhile. *)
RemovePosted(s) ==
  /\ removing[s]
  /\ removing' = [removing EXCEPT ![s] = FALSE]
  /\ waitRemove' = [waitRemove EXCEPT ![s] = TRUE]
  /\ mainTasks' = Append(mainTasks, Do("remove", s))
  /\ UNCHANGED <<phase, made, uid, timer, closed, silent, loops,
                 preSessions, sessions, running, workTasks>>

MainStep == \E s \in Session : AddSession(s) \/ RemoveSelfImpl(s)
WorkerStep(s) == Insert(s) \/ Erase(s) \/ RemovePosted(s)

Next ==
  \/ \E s \in Session :
       \/ \E e \in Endpoint : Connect(s, e)
       \/ GreetingSent(s) \/ TimerRuns(s)
       \/ FallsSilent(s) \/ DoReadRemoves(s)
       \/ WorkerStep(s)
  \/ \E e \in Endpoint, u \in Uid : Answer(e, u)
  \/ PureUdpTooLong
  \/ MainStep

(* The threads run what is queued, timers expire, and the routine polls    *)
(* every millisecond.  Clients need not connect, answer or fall silent.    *)
Fairness ==
  /\ WF_vars(MainStep)
  /\ \A s \in Session :
       /\ WF_vars(GreetingSent(s)) /\ WF_vars(TimerRuns(s))
       /\ WF_vars(WorkerStep(s))
       /\ WF_vars(silent[s] /\ DoReadRemoves(s))

Spec == Init /\ [][Next]_vars
FairSpec == Spec /\ Fairness

-----------------------------------------------------------------------------
Registered(s) == uid[s] # None /\ sessions[uid[s]] = s

Queued(q, what, s) == {i \in DOMAIN q : q[i] = Do(what, s)}

(* However answers are repeated or late, a session joins at most once: it  *)
(* has one closure on the main thread while it is joining, none after, and *)
(* is no pre-session by then.                                              *)
JoinsOnce ==
  \A s \in Session :
    /\ \A i, j \in Queued(mainTasks, "add", s) : i = j
    /\ Queued(mainTasks, "add", s) # {} <=> phase[s] = "joining"
    /\ phase[s] \in {"joining", "joined"} => \A e \in Endpoint : preSessions[e] # s

(* A session the server knows and has not closed is polled, or about to    *)
(* be, provided no other session of its client was given the same worker.  *)
(* (The one that was may be erased on behalf of the other, Kcp.cpp:440.)   *)
Alone(s) == \A t \in Session \ {s} : uid[t] = uid[s] => home[t] # home[s]

KnownIsPolled ==
  \A s \in Session : Registered(s) /\ ~closed[s] /\ Alone(s) =>
    Runs(s) \/ Queued(workTasks[home[s]], "run", s) # {}

(* A session that was replaced or removed stops being polled. *)
ClosedStopsRunning == \A s \in Session : closed[s] ~> ~Runs(s)

(* A client that connects and does not answer leaves nothing behind. *)
PreSessionsDrain ==
  \A e \in Endpoint, s \in Session : preSessions[e] = s ~> preSessions[e] # s

(* "if (now > m_lastPongTime + 5) // timeout 5 second" (Kcp.cpp:493): a    *)
(* session whose client fell silent does not stay known.                   *)
SilentTimesOut == \A s \in Session : silent[s] /\ Registered(s) ~> ~Registered(s)
=============================================================================
