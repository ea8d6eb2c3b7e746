------------------------------- MODULE TcpServer -------------------------------
(***************************************************************************)
(* The TCP server's sessions (src/Tcp.cpp): accepted on one worker, greeted *)
(* and authenticated on the worker their socket belongs to, under a timer  *)
(* that runs on a third, then entered by the main thread into m_sessions   *)
(* under the client's public key, read by their worker, and removed by the *)
(* main thread when reading or writing fails.                              *)
(*                                                                         *)
(* A worker runs one handler at a time, so a handler is one step, except   *)
(* where it touches nowSerialID, a static variable all workers share       *)
(* without a lock: "nowSerialID++" is a read and a write.                  *)
(***************************************************************************)
EXTENDS Naturals, Sequences

CONSTANTS
  Session,                 \* TcpSessionS objects
  Uid,                     \* clients' public keys
  Worker,                  \* gWorkerServices, one thread each
  Home,                    \* the worker of each session's socket
  None,                    \* "no session with this key"
  MaxReads                 \* bound: messages read per session

ASSUME HomeAssumption == Home \in [Session -> Worker]
ASSUME NoneAssumption == None \notin Session \cup Uid
ASSUME MaxReadsAssumption == MaxReads \in Nat

VARIABLES
  phase,                   \* how far each session is
  open,                    \* its socket is open
  timer,                   \* its handshake timer
  uid,                     \* m_uid
  serial,                  \* m_serialID
  nowSerialID,             \* the static counter of l. 211
  tasks,                   \* closures posted to the main thread
  sessions,                \* m_sessions
  reads,                   \* messages read so far (for MaxReads)
  sendFailed               \* a write of the session has failed

vars == <<phase, open, timer, uid, serial, nowSerialID, tasks, sessions, reads, sendFailed>>
handshake == <<timer, uid, serial, nowSerialID>>

Elements(s) == {s[i] : i \in DOMAIN s}

Task == [do : {"add", "remove", "message"}, session : Session]

TypeOK ==
  /\ phase \in [Session -> {"none", "greeting", "waiting", "counting", "joining",
                            "reading", "ended"}]
  /\ open \in [Session -> BOOLEAN]
  /\ timer \in [Session -> {"off", "armed", "fired", "done"}]
  /\ uid \in [Session -> Uid \cup {None}]
  /\ serial \in [Session -> Nat]
  /\ nowSerialID \in Nat
  /\ tasks \in Seq(Task)
  /\ sessions \in [Uid -> Session \cup {None}]
  /\ reads \in [Session -> 0 .. MaxReads]
  /\ sendFailed \in [Session -> BOOLEAN]
  /\ \A s \in Session : phase[s] \in {"counting", "joining", "reading"} => uid[s] \in Uid

Init ==
  /\ phase = [s \in Session |-> "none"]
  /\ open = [s \in Session |-> FALSE]
  /\ timer = [s \in Session |-> "off"]
  /\ uid = [s \in Session |-> None]
  /\ serial = [s \in Session |-> 0]
  /\ nowSerialID = 1
  /\ tasks = <<>>
  /\ sessions = [u \in Uid |-> None]
  /\ reads = [s \in Session |-> 0]
  /\ sendFailed = [s \in Session |-> FALSE]

(* No handler is halfway through on this session's worker. *)
WorkerFree(s) == \A t \in Session : phase[t] = "counting" => Home[t] # Home[s]

Post(do, s) == tasks' = Append(tasks, [do |-> do, session |-> s])

(* The handshake gives up: its handlers drop the last references to the    *)
(* session, whose destructor closes the socket.                            *)
GiveUp(s) ==
  /\ phase' = [phase EXCEPT ![s] = "ended"]
  /\ open' = [open EXCEPT ![s] = FALSE]

(* A reference to the session's timer may outlive its wait: cancel() does  *)
(* nothing to an expiry whose handler is already queued.                   *)
Cancel(s) == timer' = [timer EXCEPT ![s] = IF @ = "armed" THEN "done" ELSE @]

-----------------------------------------------------------------------------
(* TcpServerImpl::accept's handler: an error is logged, and init() called  *)
(* all the same, with a socket that is not open.                           *)
Accept(s) ==
  /\ phase[s] = "none"
  /\ phase' = [phase EXCEPT ![s] = "greeting"]
  /\ open' \in {[open EXCEPT ![s] = TRUE], open}
  /\ UNCHANGED <<handshake, tasks, sessions, reads, sendFailed>>

(* init: the greeting cannot be signed or written. *)
GreetFails(s) ==
  /\ phase[s] = "greeting" /\ WorkerFree(s)
  /\ GiveUp(s)
  /\ UNCHANGED <<handshake, tasks, sessions, reads, sendFailed>>

(* Mutant: init2 does not start its timer. *)
GreetedNoTimer(s) ==
  /\ phase[s] = "greeting" /\ open[s] /\ WorkerFree(s)
  /\ phase' = [phase EXCEPT ![s] = "waiting"]
  /\ UNCHANGED <<open, handshake, tasks, sessions, reads, sendFailed>>

(* init: the greeting is written; init2 waits for the answer under a timer. *)
Greeted(s) ==
  /\ phase[s] = "greeting" /\ open[s] /\ WorkerFree(s)
  /\ phase' = [phase EXCEPT ![s] = "waiting"]
  /\ timer' = [timer EXCEPT ![s] = "armed"]
  /\ UNCHANGED <<open, uid, serial, nowSerialID, tasks, sessions, reads, sendFailed>>

(* init2's handler: the wait failed (a closed socket fails it), or the     *)
(* answer is short, wrongly signed or under the server's own key.          *)
AnswerRefused(s) ==
  /\ phase[s] = "waiting" /\ WorkerFree(s)
  /\ Cancel(s)
  /\ GiveUp(s)
  /\ UNCHANGED <<uid, serial, nowSerialID, tasks, sessions, reads, sendFailed>>

(* init2's handler: the answer is good; nowSerialID is read ...            *)
AnswerAccepted(s) ==
  /\ phase[s] = "waiting" /\ open[s] /\ WorkerFree(s)
  /\ Cancel(s)
  /\ \E u \in Uid : uid' = [uid EXCEPT ![s] = u]
  /\ serial' = [serial EXCEPT ![s] = nowSerialID]
  /\ phase' = [phase EXCEPT ![s] = "counting"]
  /\ UNCHANGED <<open, nowSerialID, tasks, sessions, reads, sendFailed>>

(* ... and written, and the session handed to the main thread.             *)
Counted(s) ==
  /\ phase[s] = "counting"
  /\ nowSerialID' = serial[s] + 1
  /\ phase' = [phase EXCEPT ![s] = "joining"]
  /\ Post("add", s)
  /\ UNCHANGED <<open, timer, uid, serial, sessions, reads, sendFailed>>

(* Two seconds have passed: the timer's handler is queued, on a worker of  *)
(* its own, and closes the socket when it runs.                            *)
TimerExpires(s) ==
  /\ timer[s] = "armed"
  /\ timer' = [timer EXCEPT ![s] = "fired"]
  /\ UNCHANGED <<phase, open, uid, serial, nowSerialID, tasks, sessions, reads, sendFailed>>

TimerRuns(s) ==
  /\ timer[s] = "fired"
  /\ timer' = [timer EXCEPT ![s] = "done"]
  /\ open' = [open EXCEPT ![s] = FALSE]
  /\ UNCHANGED <<phase, uid, serial, nowSerialID, tasks, sessions, reads, sendFailed>>

-----------------------------------------------------------------------------
(* doRead's handler reads a message and posts it. *)
ReadMessage(s) ==
  /\ phase[s] = "reading" /\ open[s] /\ WorkerFree(s)
  /\ reads[s] < MaxReads
  /\ reads' = [reads EXCEPT ![s] = @ + 1]
  /\ Post("message", s)
  /\ UNCHANGED <<phase, open, handshake, sessions, sendFailed>>

(* Mutant: the handler returns without removeSelf(). *)
ReadFailsSilently(s) ==
  /\ phase[s] = "reading" /\ WorkerFree(s)
  /\ phase' = [phase EXCEPT ![s] = "ended"]
  /\ UNCHANGED <<open, handshake, tasks, sessions, reads, sendFailed>>

(* doRead's handler: the client hung up, the socket was closed, or the     *)
(* stream is not one of messages; removeSelf() posts the removal.          *)
ReadFails(s) ==
  /\ phase[s] = "reading" /\ WorkerFree(s)
  /\ phase' = [phase EXCEPT ![s] = "ended"]
  /\ Post("remove", s)
  /\ UNCHANGED <<open, handshake, sessions, reads, sendFailed>>

(* doSend's completion handler meets an error: removeSelf() too, but the   *)
(* read loop goes on.                                                      *)
WriteFails(s) ==
  /\ phase[s] \in {"reading", "ended"} /\ uid[s] # None /\ WorkerFree(s)
  /\ ~sendFailed[s]
  /\ sendFailed' = [sendFailed EXCEPT ![s] = TRUE]
  /\ Post("remove", s)
  /\ UNCHANGED <<phase, open, handshake, sessions, reads>>

-----------------------------------------------------------------------------
(* The main thread takes a task; each of the operations below is one.      *)
MainTakes(do, s) ==
  /\ tasks # <<>> /\ Head(tasks) = [do |-> do, session |-> s]
  /\ tasks' = Tail(tasks)

(* Mutant: the session found under the key is left open. *)
AddSessionKeepsOld(s) ==
  /\ MainTakes("add", s)
  /\ sessions' = [sessions EXCEPT ![uid[s]] = s]
  /\ phase' = [phase EXCEPT ![s] = "reading"]
  /\ UNCHANGED <<open, handshake, reads, sendFailed>>

(* addSession, then doRead: a session under the same key is closed and     *)
(* replaced.                                                               *)
AddSession(s) ==
  /\ MainTakes("add", s)
  /\ LET old == sessions[uid[s]] IN
       open' = [t \in Session |-> IF t = old THEN FALSE ELSE open[t]]
  /\ sessions' = [sessions EXCEPT ![uid[s]] = s]
  /\ phase' = [phase EXCEPT ![s] = "reading"]
  /\ UNCHANGED <<handshake, reads, sendFailed>>

(* Mutant: the serial numbers are not compared. *)
SameSerialAlways(old, s) == old # None

(* The session found under the key is the one to be removed, as far as     *)
(* the serial numbers tell.                                                *)
SameSerial(old, s) == old # None /\ serial[old] = serial[s]

(* Mutant: the session is closed and stays in the table. *)
RemoveSessionNoErase(s) ==
  /\ MainTakes("remove", s)
  /\ LET old == sessions[uid[s]] IN
     open' = IF SameSerial(old, s) THEN [open EXCEPT ![old] = FALSE] ELSE open
  /\ UNCHANGED <<phase, handshake, sessions, reads, sendFailed>>

(* Mutant: the session is taken out of the table and stays open. *)
RemoveSessionLeavesOpen(s) ==
  /\ MainTakes("remove", s)
  /\ LET old == sessions[uid[s]] IN
     sessions' = IF SameSerial(old, s) THEN [sessions EXCEPT ![uid[s]] = None] ELSE sessions
  /\ UNCHANGED <<open, phase, handshake, reads, sendFailed>>

(* removeSession *)
RemoveSession(s) ==
  /\ MainTakes("remove", s)
  /\ LET old == sessions[uid[s]] IN
     \/ /\ SameSerial(old, s)
        /\ open' = [open EXCEPT ![old] = FALSE]
        /\ sessions' = [sessions EXCEPT ![uid[s]] = None]
     \/ /\ ~SameSerial(old, s)
        /\ UNCHANGED <<open, sessions>>
  /\ UNCHANGED <<phase, handshake, reads, sendFailed>>

HandleMessage(s) ==
  /\ MainTakes("message", s)
  /\ UNCHANGED <<phase, open, handshake, sessions, reads, sendFailed>>

MainStep(s) == AddSession(s) \/ RemoveSession(s) \/ HandleMessage(s)

Next == \E s \in Session :
  \/ Accept(s)
  \/ GreetFails(s) \/ Greeted(s)
  \/ AnswerRefused(s) \/ AnswerAccepted(s) \/ Counted(s)
  \/ TimerExpires(s) \/ TimerRuns(s)
  \/ ReadMessage(s) \/ ReadFails(s) \/ WriteFails(s)
  \/ MainStep(s)

(* What the threads and timers do by themselves: the main thread and the   *)
(* workers run what is queued, timers expire, and asio completes the waits *)
(* on a closed socket.  Clients need not connect, answer or hang up.       *)
Fairness == \A s \in Session :
  /\ WF_vars(GreetFails(s) \/ Greeted(s))
  /\ WF_vars(~open[s] /\ AnswerRefused(s))
  /\ WF_vars(Counted(s))
  /\ WF_vars(TimerExpires(s)) /\ WF_vars(TimerRuns(s))
  /\ WF_vars(~open[s] /\ ReadFails(s))
  /\ WF_vars(MainStep(s))

Spec == Init /\ [][Next]_vars
FairSpec == Spec /\ Fairness

-----------------------------------------------------------------------------
Registered(s) == uid[s] # None /\ sessions[uid[s]] = s

(* A session that was replaced or removed is closed: its client cannot go  *)
(* on sending to a server that no longer knows it.                         *)
DisplacedClosed ==
  \A s \in Session : phase[s] = "reading" /\ ~Registered(s) => ~open[s]

(* A session whose read loop is over does not stay in the table: its       *)
(* removal is on its way to the main thread.                               *)
EndedIsRemoved ==
  \A s \in Session : Registered(s) /\ phase[s] = "ended" =>
    [do |-> "remove", session |-> s] \in Elements(tasks)

(* No two sessions got their serial number from the same value of the      *)
(* counter, as happens when two workers read it before either writes.      *)
SerialsDiffer ==
  \A s, t \in Session : uid[s] # None /\ uid[t] # None /\ serial[s] = serial[t] => s = t

(* As long as the serial numbers differ, the main thread takes a session   *)
(* out of the table only for that session, never on behalf of an older one *)
(* under the same key: the removal of a replaced session does not evict    *)
(* the client that came back.                                              *)
NoForeignRemoval ==
  [][SerialsDiffer =>
       \A s \in Session, u \in Uid :
         sessions[u] = s /\ sessions'[u] = None =>
           Head(tasks) = [do |-> "remove", session |-> s]]_vars

(* No connection can stay in the handshake: one that does not answer is    *)
(* timed out.                                                              *)
HandshakeEnds ==
  \A s \in Session : phase[s] \in {"greeting", "waiting", "counting", "joining"} ~>
                     phase[s] \in {"reading", "ended"}

(* A session whose socket is closed, by the main thread, by its client or  *)
(* by a handshake timer that came too late, leaves the table.              *)
ClosedLeavesTable ==
  \A s \in Session : Registered(s) /\ ~open[s] ~> ~Registered(s)
=============================================================================
