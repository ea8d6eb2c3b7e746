---------------------------- MODULE TcpLinkProofs ----------------------------
(***************************************************************************)
(* Proofs about the TCP server's sessions, for every number of sessions,   *)
(* clients and workers and every placement of sessions on workers, the     *)
(* ones where two workers count the same serial number included.  A server *)
(* that is linked to clients of the library is still the server of         *)
(* TcpServer: whatever clients do, its theorems hold for the link.         *)
(***************************************************************************)
EXTENDS TcpLink, TLAPS, SequenceTheorems

(* The table maps a key to a session that authenticated with this key and  *)
(* that the main thread has started to read.                               *)
TableKeys ==
  \A u \in Uid : sessions[u] # None =>
    /\ uid[sessions[u]] = u
    /\ phase[sessions[u]] \in {"reading", "ended"}

(* Only sessions that authenticated have closures on the main thread.      *)
TasksHaveUid ==
  \A i \in DOMAIN tasks : /\ uid[tasks[i].session] # None
                          /\ phase[tasks[i].session] \in {"joining", "reading", "ended"}

IInv == TypeOK /\ TableKeys /\ TasksHaveUid /\ DisplacedClosed

USE HomeAssumption, NoneAssumption, MaxReadsAssumption

LEMMA InitIInv == Init => IInv
<1> SUFFICES ASSUME Init PROVE IInv
  OBVIOUS
<1>1. TypeOK
  BY EmptySeq DEF Init, TypeOK
<1>2. TableKeys /\ TasksHaveUid /\ DisplacedClosed
  BY DEF Init, TableKeys, TasksHaveUid, DisplacedClosed
<1> QED BY <1>1, <1>2 DEF IInv

(* What posting a closure does to the queue. *)
LEMMA Posted ==
  ASSUME tasks \in Seq(Task), NEW do \in {"add", "remove", "message"},
         NEW s \in Session, Post(do, s)
  PROVE  /\ tasks' \in Seq(Task)
         /\ \A i \in DOMAIN tasks' :
              \/ tasks'[i].session = s
              \/ i \in DOMAIN tasks /\ tasks'[i] = tasks[i]
<1>1. [do |-> do, session |-> s] \in Task
  BY DEF Task
<1>2. /\ tasks' \in Seq(Task) /\ Len(tasks') = Len(tasks) + 1
      /\ \A i \in 1 .. Len(tasks) : tasks'[i] = tasks[i]
      /\ tasks'[Len(tasks) + 1] = [do |-> do, session |-> s]
  BY <1>1, AppendProperties DEF Post
<1>3. DOMAIN tasks' = 1 .. Len(tasks) + 1 /\ DOMAIN tasks = 1 .. Len(tasks) /\ Len(tasks) \in Nat
  BY <1>2, LenProperties
<1> QED BY <1>2, <1>3

(* What taking one does, and that it was in the queue. *)
LEMMA Taken ==
  ASSUME tasks \in Seq(Task), NEW do, NEW s \in Session, MainTakes(do, s)
  PROVE  /\ tasks' \in Seq(Task)
         /\ \A i \in DOMAIN tasks' : i+1 \in DOMAIN tasks /\ tasks'[i] = tasks[i+1]
         /\ 1 \in DOMAIN tasks /\ tasks[1].session = s
<1>1. tasks # <<>> /\ Head(tasks) = [do |-> do, session |-> s] /\ tasks' = Tail(tasks)
  BY DEF MainTakes
<1>2. /\ tasks' \in Seq(Task) /\ Len(tasks') = Len(tasks) - 1
      /\ \A i \in 1 .. Len(tasks') : tasks'[i] = tasks[i+1]
  BY <1>1, HeadTailProperties
<1>3. /\ DOMAIN tasks' = 1 .. Len(tasks') /\ DOMAIN tasks = 1 .. Len(tasks)
      /\ Len(tasks) \in Nat \ {0} /\ Len(tasks') \in Nat
  BY <1>1, <1>2, EmptySeq, LenProperties
<1>4. Head(tasks) = tasks[1]
  BY <1>1
<1> QED BY <1>1, <1>2, <1>3, <1>4

(* Before a session is read it is in no table entry, and its closures are  *)
(* not queued until it is counted.                                         *)
LEMMA HandshakeIInv ==
  ASSUME IInv, NEW s \in Session,
         Accept(s) \/ GreetFails(s) \/ Greeted(s) \/ AnswerRefused(s) \/ AnswerAccepted(s)
  PROVE  IInv'
<1>1. /\ TypeOK'
      /\ phase[s] \in {"none", "greeting", "waiting"}
      /\ sessions' = sessions /\ tasks' = tasks
      /\ phase'[s] \in {"greeting", "waiting", "ended", "counting"}
      /\ phase'[s] = "counting" => uid'[s] # None
      /\ \A t \in Session \ {s} : phase'[t] = phase[t] /\ open'[t] = open[t] /\ uid'[t] = uid[t]
  <2>1. CASE Accept(s)
    BY <2>1 DEF IInv, TypeOK, Accept, handshake
  <2>2. CASE GreetFails(s)
    BY <2>2 DEF IInv, TypeOK, GreetFails, GiveUp, handshake
  <2>3. CASE Greeted(s)
    BY <2>3 DEF IInv, TypeOK, Greeted, handshake
  <2>4. CASE AnswerRefused(s)
    BY <2>4 DEF IInv, TypeOK, AnswerRefused, GiveUp, Cancel
  <2>5. CASE AnswerAccepted(s)
    BY <2>5 DEF IInv, TypeOK, AnswerAccepted, Cancel
  <2> QED BY <2>1, <2>2, <2>3, <2>4, <2>5
<1>3. \A u \in Uid : sessions[u] # s
  BY <1>1 DEF IInv, TableKeys, TypeOK
<1>4. \A i \in DOMAIN tasks : tasks[i].session \in Session /\ tasks[i].session # s
  <2> SUFFICES ASSUME NEW i \in DOMAIN tasks
               PROVE  tasks[i].session \in Session /\ tasks[i].session # s
    OBVIOUS
  <2>1. tasks[i] \in Task
    BY ElementOfSeq, LenProperties DEF IInv, TypeOK
  <2>2. phase[tasks[i].session] \in {"joining", "reading", "ended"}
    BY DEF IInv, TasksHaveUid
  <2> QED BY <1>1, <2>1, <2>2 DEF Task
<1>5. TableKeys'
  BY <1>1, <1>3 DEF IInv, TableKeys, TypeOK
<1>6. TasksHaveUid'
  BY <1>1, <1>4 DEF IInv, TasksHaveUid
<1>7. DisplacedClosed'
  BY <1>1, <1>3 DEF IInv, DisplacedClosed, Registered
<1> QED BY <1>1, <1>5, <1>6, <1>7 DEF IInv

LEMMA TimerIInv ==
  ASSUME IInv, NEW s \in Session, TimerExpires(s) \/ TimerRuns(s)
  PROVE  IInv'
<1>1. TypeOK'
  <2>1. CASE TimerExpires(s)
    BY <2>1 DEF IInv, TypeOK, TimerExpires
  <2>2. CASE TimerRuns(s)
    BY <2>2 DEF IInv, TypeOK, TimerRuns
  <2> QED BY <2>1, <2>2
<1>2. /\ phase' = phase /\ uid' = uid /\ tasks' = tasks /\ sessions' = sessions
      /\ \A t \in Session : open'[t] => open[t]
  BY DEF IInv, TypeOK, TimerExpires, TimerRuns
<1>3. TableKeys' /\ TasksHaveUid' /\ DisplacedClosed'
  BY <1>2 DEF IInv, TableKeys, TasksHaveUid, DisplacedClosed, Registered
<1> QED BY <1>1, <1>3 DEF IInv

(* The session of a queued closure authenticated and was read. *)
LEMMA QueuedSession ==
  ASSUME IInv, NEW i \in DOMAIN tasks
  PROVE  /\ tasks[i].session \in Session
         /\ uid[tasks[i].session] \in Uid
         /\ phase[tasks[i].session] \in {"joining", "reading", "ended"}
<1>1. tasks[i] \in Task
  BY ElementOfSeq, LenProperties DEF IInv, TypeOK
<1>2. /\ phase[tasks[i].session] \in {"joining", "reading", "ended"}
      /\ uid[tasks[i].session] # None
  BY DEF IInv, TasksHaveUid
<1> QED BY <1>1, <1>2 DEF IInv, TypeOK, Task

(* The workers' steps that post a closure. *)
LEMMA PostingIInv ==
  ASSUME IInv, NEW s \in Session,
         Counted(s) \/ ReadMessage(s) \/ ReadFails(s) \/ WriteFails(s)
  PROVE  IInv'
<1>1. /\ tasks' \in Seq(Task)
      /\ \A i \in DOMAIN tasks' :
           \/ tasks'[i].session = s
           \/ i \in DOMAIN tasks /\ tasks'[i] = tasks[i]
  <2>1. \E do \in {"add", "remove", "message"} : Post(do, s)
    BY DEF Counted, ReadMessage, ReadFails, WriteFails
  <2> QED BY <2>1, Posted DEF IInv, TypeOK
<1>2. /\ TypeOK'
      /\ uid' = uid /\ sessions' = sessions /\ open' = open
      /\ phase[s] \in {"counting", "reading", "ended"} /\ uid[s] # None
      /\ phase'[s] \in {"joining", "reading", "ended"}
      /\ phase[s] = "counting" => phase'[s] = "joining"
      /\ phase[s] # "counting" => phase'[s] \in {phase[s], "ended"}
      /\ \A t \in Session \ {s} : phase'[t] = phase[t]
  <2>1. CASE Counted(s)
    BY <1>1, <2>1 DEF IInv, TypeOK, TasksHaveUid, Counted
  <2>2. CASE ReadMessage(s)
    BY <1>1, <2>2 DEF IInv, TypeOK, TasksHaveUid, ReadMessage, handshake
  <2>3. CASE ReadFails(s)
    BY <1>1, <2>3 DEF IInv, TypeOK, TasksHaveUid, ReadFails, handshake
  <2>4. CASE WriteFails(s)
    BY <1>1, <2>4 DEF IInv, TypeOK, TasksHaveUid, WriteFails, handshake
  <2> QED BY <2>1, <2>2, <2>3, <2>4
<1>3. TableKeys'
  <2> SUFFICES ASSUME NEW u \in Uid, sessions[u] # None
               PROVE  /\ uid[sessions[u]] = u
                      /\ phase'[sessions[u]] \in {"reading", "ended"}
    BY <1>2 DEF TableKeys
  <2>1. /\ uid[sessions[u]] = u /\ sessions[u] \in Session
        /\ phase[sessions[u]] \in {"reading", "ended"}
    BY DEF IInv, TypeOK, TableKeys
  <2>2. CASE sessions[u] = s
    BY <1>2, <2>1, <2>2
  <2>3. CASE sessions[u] # s
    BY <1>2, <2>1, <2>3
  <2> QED BY <2>2, <2>3, <2>1
<1>4. TasksHaveUid'
  <2>1. \A i \in DOMAIN tasks' : /\ uid'[tasks'[i].session] # None
                                 /\ phase'[tasks'[i].session] \in {"joining", "reading", "ended"}
    <3> SUFFICES ASSUME NEW i \in DOMAIN tasks'
                 PROVE  /\ uid'[tasks'[i].session] # None
                        /\ phase'[tasks'[i].session] \in {"joining", "reading", "ended"}
      OBVIOUS
    <3>1. CASE tasks'[i].session = s
      BY <1>2, <3>1
    <3>2. CASE i \in DOMAIN tasks /\ tasks'[i] = tasks[i]
      BY <1>2, <3>2, QueuedSession, NoneAssumption
    <3> QED BY <1>1, <3>1, <3>2
  <2> QED BY <2>1 DEF TasksHaveUid
<1>5. DisplacedClosed'
  BY <1>2 DEF IInv, DisplacedClosed, Registered
<1> QED BY <1>2, <1>3, <1>4, <1>5 DEF IInv

(* The main thread's steps. *)
LEMMA MainIInv ==
  ASSUME IInv, NEW s \in Session, MainStep(s)
  PROVE  IInv'
<1>1. /\ tasks' \in Seq(Task)
      /\ \A i \in DOMAIN tasks' : i+1 \in DOMAIN tasks /\ tasks'[i] = tasks[i+1]
      /\ uid[s] \in Uid /\ phase[s] \in {"joining", "reading", "ended"}
  <2>1. \E do \in {"add", "remove", "message"} : MainTakes(do, s)
    BY DEF MainStep, AddSession, RemoveSession, HandleMessage
  <2>2. /\ tasks' \in Seq(Task)
        /\ \A i \in DOMAIN tasks' : i+1 \in DOMAIN tasks /\ tasks'[i] = tasks[i+1]
        /\ 1 \in DOMAIN tasks /\ tasks[1].session = s
    BY <2>1, Taken DEF IInv, TypeOK
  <2> QED BY <2>2, QueuedSession
<1>2. ASSUME uid' = uid,
             \A t \in Session : phase'[t] \in {phase[t], "reading"},
             \A t \in Session : phase'[t] = "reading" => uid[t] # None
      PROVE  TasksHaveUid'
  <2> SUFFICES ASSUME NEW i \in DOMAIN tasks'
               PROVE  /\ uid'[tasks'[i].session] # None
                      /\ phase'[tasks'[i].session] \in {"joining", "reading", "ended"}
    BY <1>2 DEF IInv, TasksHaveUid
  <2> QED BY <1>1, <1>2, QueuedSession, NoneAssumption
<1>3. CASE AddSession(s)
  <2>1. /\ uid' = uid /\ phase' = [phase EXCEPT ![s] = "reading"]
        /\ sessions' = [sessions EXCEPT ![uid[s]] = s]
        /\ open' = [t \in Session |-> IF t = sessions[uid[s]] THEN FALSE ELSE open[t]]
        /\ UNCHANGED <<timer, serial, nowSerialID, reads, sendFailed>>
    BY <1>3 DEF AddSession, handshake
  <2>2. TypeOK'
    BY <1>1, <2>1 DEF IInv, TypeOK
  <2>3. TableKeys'
    BY <1>1, <2>1 DEF IInv, TypeOK, TableKeys
  <2>4. TasksHaveUid'
    BY <1>1, <1>2, <2>1, NoneAssumption DEF IInv, TypeOK, TasksHaveUid
  <2>5. DisplacedClosed'
    BY <1>1, <2>1, NoneAssumption DEF IInv, TypeOK, TableKeys, TasksHaveUid,
       DisplacedClosed, Registered
  <2> QED BY <2>2, <2>3, <2>4, <2>5 DEF IInv
<1>4. CASE RemoveSession(s)
  <2> DEFINE old == sessions[uid[s]]
  <2>1. /\ uid' = uid /\ phase' = phase
        /\ \/ /\ old # None /\ open' = [open EXCEPT ![old] = FALSE]
              /\ sessions' = [sessions EXCEPT ![uid[s]] = None]
           \/ open' = open /\ sessions' = sessions
        /\ UNCHANGED <<timer, serial, nowSerialID, reads, sendFailed>>
    BY <1>4 DEF RemoveSession, SameSerial, handshake
  <2>2. TypeOK'
    BY <1>1, <2>1 DEF IInv, TypeOK
  <2>3. TableKeys'
    <3>1. \A u \in Uid : sessions'[u] # None => sessions'[u] = sessions[u]
      BY <1>1, <2>1 DEF IInv, TypeOK
    <3> QED BY <2>1, <3>1 DEF IInv, TableKeys
  <2>4. TasksHaveUid'
    BY <1>1, <1>2, <2>1 DEF IInv, TasksHaveUid
  <2>5. DisplacedClosed'
    <3> SUFFICES ASSUME NEW t \in Session, phase[t] = "reading", ~Registered(t)'
                 PROVE  ~open'[t]
      BY <2>1 DEF DisplacedClosed
    <3>1. uid[t] # None /\ uid[t] \in Uid
      BY DEF IInv, TypeOK, TasksHaveUid
    <3>2. CASE Registered(t)
      BY <1>1, <2>1, <3>1, <3>2, NoneAssumption DEF IInv, TypeOK, Registered
    <3>3. CASE ~Registered(t)
      <4>1. ~open[t]
        BY <3>3 DEF IInv, DisplacedClosed
      <4> QED BY <1>1, <2>1, <4>1 DEF IInv, TypeOK
    <3> QED BY <3>2, <3>3
  <2> QED BY <2>2, <2>3, <2>4, <2>5 DEF IInv
<1>5. CASE HandleMessage(s)
  <2>1. UNCHANGED <<phase, open, timer, uid, serial, nowSerialID, sessions, reads, sendFailed>>
    BY <1>5 DEF HandleMessage, handshake
  <2>2. TypeOK' /\ TableKeys' /\ DisplacedClosed'
    BY <1>1, <2>1 DEF IInv, TypeOK, TableKeys, DisplacedClosed, Registered
  <2>3. TasksHaveUid'
    BY <1>1, <1>2, <2>1 DEF IInv, TasksHaveUid
  <2> QED BY <2>2, <2>3 DEF IInv
<1> QED BY <1>3, <1>4, <1>5 DEF MainStep

LEMMA NextIInv == IInv /\ [Next]_vars => IInv'
<1> SUFFICES ASSUME IInv, [Next]_vars PROVE IInv'
  OBVIOUS
<1>1. ASSUME NEW s \in Session,
             \/ Accept(s) \/ GreetFails(s) \/ Greeted(s)
             \/ AnswerRefused(s) \/ AnswerAccepted(s)
      PROVE  IInv'
  BY <1>1, HandshakeIInv
<1>2. ASSUME NEW s \in Session, TimerExpires(s) \/ TimerRuns(s)
      PROVE  IInv'
  BY <1>2, TimerIInv
<1>3. ASSUME NEW s \in Session,
             Counted(s) \/ ReadMessage(s) \/ ReadFails(s) \/ WriteFails(s)
      PROVE  IInv'
  BY <1>3, PostingIInv
<1>4. ASSUME NEW s \in Session, MainStep(s)
      PROVE  IInv'
  BY <1>4, MainIInv
<1>5. CASE UNCHANGED vars
  BY <1>5 DEF vars, IInv, TypeOK, TableKeys, TasksHaveUid, DisplacedClosed, Registered
<1> QED BY <1>1, <1>2, <1>3, <1>4, <1>5 DEF Next

(* The server's variables keep their types. *)
THEOREM ServerTypeCorrect == Spec => []TypeOK
<1>1. IInv => TypeOK
  BY DEF IInv
<1> QED BY <1>1, InitIInv, NextIInv, PTL DEF Spec

(* A session that is still being read and that m_sessions no longer holds, *)
(* because it was replaced or removed, has had its socket closed.          *)
THEOREM ServerDisplacedClosed == Spec => []DisplacedClosed
<1>1. IInv => DisplacedClosed
  BY DEF IInv
<1> QED BY <1>1, InitIInv, NextIInv, PTL DEF Spec

(* Only the removal of a session can empty an entry of the table, and it   *)
(* finds there a session with the serial number of the one it is for.      *)
LEMMA StepRemovesItsOwn ==
  ASSUME IInv, Next, SerialsDiffer,
         NEW s \in Session, NEW u \in Uid, sessions[u] = s, sessions'[u] = None
  PROVE  Head(tasks) = [do |-> "remove", session |-> s]
<1>1. s # None /\ sessions' # sessions
  BY NoneAssumption
<1>2. PICK r \in Session : AddSession(r) \/ RemoveSession(r)
  BY <1>1 DEF Next, Accept, GreetFails, Greeted, AnswerRefused, AnswerAccepted, Counted,
     TimerExpires, TimerRuns, ReadMessage, ReadFails, WriteFails, MainStep, HandleMessage
<1>3. uid[r] \in Uid
  <2>1. \E do : MainTakes(do, r)
    BY <1>2 DEF AddSession, RemoveSession
  <2>2. 1 \in DOMAIN tasks /\ tasks[1].session = r
    BY <2>1, Taken DEF IInv, TypeOK
  <2> QED BY <2>2, QueuedSession
<1>4. ~AddSession(r)
  <2> SUFFICES ASSUME AddSession(r) PROVE FALSE
    OBVIOUS
  <2>1. sessions' = [sessions EXCEPT ![uid[r]] = r]
    BY DEF AddSession
  <2> QED BY <1>1, <1>3, <2>1, NoneAssumption DEF IInv, TypeOK
<1>5. /\ SameSerial(sessions[uid[r]], r)
      /\ sessions' = [sessions EXCEPT ![uid[r]] = None]
      /\ Head(tasks) = [do |-> "remove", session |-> r]
  BY <1>1, <1>2, <1>4 DEF RemoveSession, MainTakes
<1>6. uid[r] = u
  BY <1>1, <1>3, <1>5 DEF IInv, TypeOK
<1>7. serial[s] = serial[r] /\ uid[s] = u
  BY <1>1, <1>5, <1>6 DEF SameSerial, IInv, TableKeys
<1>8. s = r
  BY <1>6, <1>7, NoneAssumption DEF SerialsDiffer
<1> QED BY <1>5, <1>8

(* While serial numbers differ, no session is taken out of m_sessions by   *)
(* the removal of another one under the same key.                          *)
THEOREM ServerNoForeignRemoval == Spec => NoForeignRemoval
<1>1. IInv /\ [Next]_vars =>
        [SerialsDiffer =>
           \A s \in Session, u \in Uid :
             sessions[u] = s /\ sessions'[u] = None =>
               Head(tasks) = [do |-> "remove", session |-> s]]_vars
  BY StepRemovesItsOwn
<1> QED BY <1>1, InitIInv, NextIInv, PTL DEF Spec, NoForeignRemoval

-----------------------------------------------------------------------------
(* What is queued stays queued when a closure is posted, and when another  *)
(* one is taken.                                                           *)
LEMMA StaysQueued ==
  ASSUME tasks \in Seq(Task), NEW t \in Elements(tasks)
  PROVE  /\ \A d \in {"add", "remove", "message"}, s \in Session :
              Post(d, s) => t \in Elements(tasks') /\ [do |-> d, session |-> s] \in Elements(tasks')
         /\ \A d, s : MainTakes(d, s) /\ t # [do |-> d, session |-> s] => t \in Elements(tasks')
<1>1. PICK i \in DOMAIN tasks : t = tasks[i]
  BY DEF Elements
<1>2. i \in 1 .. Len(tasks) /\ Len(tasks) \in Nat
  BY <1>1, LenProperties
<1>3. ASSUME NEW d \in {"add", "remove", "message"}, NEW s \in Session, Post(d, s)
      PROVE  t \in Elements(tasks') /\ [do |-> d, session |-> s] \in Elements(tasks')
  <2>1. [do |-> d, session |-> s] \in Task
    BY DEF Task
  <2>2. /\ tasks' \in Seq(Task) /\ Len(tasks') = Len(tasks) + 1
        /\ \A j \in 1 .. Len(tasks) : tasks'[j] = tasks[j]
        /\ tasks'[Len(tasks) + 1] = [do |-> d, session |-> s]
    BY <1>3, <2>1, AppendProperties DEF Post
  <2>3. DOMAIN tasks' = 1 .. Len(tasks) + 1
    BY <2>2, LenProperties
  <2> QED BY <1>1, <1>2, <2>2, <2>3 DEF Elements
<1>4. ASSUME NEW d, NEW s, MainTakes(d, s), t # [do |-> d, session |-> s]
      PROVE  t \in Elements(tasks')
  <2>1. tasks # <<>> /\ Head(tasks) = [do |-> d, session |-> s] /\ tasks' = Tail(tasks)
    BY <1>4 DEF MainTakes
  <2>2. /\ tasks' \in Seq(Task) /\ Len(tasks') = Len(tasks) - 1
        /\ \A j \in 1 .. Len(tasks') : tasks'[j] = tasks[j+1]
    BY <2>1, HeadTailProperties
  <2>3. DOMAIN tasks' = 1 .. Len(tasks) - 1
    BY <2>2, LenProperties
  <2>4. i # 1
    <3>1. Head(tasks) = tasks[1]
      BY <2>1
    <3> QED BY <1>1, <1>4, <2>1, <3>1
  <2>5. i - 1 \in 1 .. Len(tasks) - 1 /\ tasks'[i - 1] = tasks[(i - 1) + 1]
    BY <1>2, <2>2, <2>4
  <2>6. tasks'[i - 1] = t
    BY <1>1, <1>2, <2>5
  <2> QED BY <2>3, <2>5, <2>6 DEF Elements
<1> QED BY <1>3, <1>4

(* A session that is in the table when its read loop ends has its removal  *)
(* posted by the same step, and is out of the table when that is taken.    *)
LEMMA EndedStep ==
  ASSUME IInv, EndedIsRemoved, NEW s \in Session, NEW t \in Session,
         \/ Accept(s) \/ GreetFails(s) \/ Greeted(s)
         \/ AnswerRefused(s) \/ AnswerAccepted(s) \/ Counted(s)
         \/ TimerExpires(s) \/ TimerRuns(s)
         \/ ReadMessage(s) \/ ReadFails(s) \/ WriteFails(s)
         \/ MainStep(s),
         Registered(t)', phase'[t] = "ended"
  PROVE  [do |-> "remove", session |-> t] \in Elements(tasks')
<1> DEFINE removal == [do |-> "remove", session |-> t]
<1>1. Registered(t) /\ phase[t] = "ended" => removal \in Elements(tasks)
  BY DEF EndedIsRemoved
<1>2. Registered(t) => phase[t] \in {"reading", "ended"} /\ uid[t] \in Uid
  BY NoneAssumption DEF IInv, TypeOK, TableKeys, Registered
<1>3. CASE \/ Accept(s) \/ GreetFails(s) \/ Greeted(s)
           \/ AnswerRefused(s) \/ AnswerAccepted(s)
  <2>1. /\ phase[s] \in {"none", "greeting", "waiting"} /\ sessions' = sessions /\ tasks' = tasks
        /\ \A r \in Session \ {s} : phase'[r] = phase[r] /\ uid'[r] = uid[r]
    BY <1>3 DEF IInv, TypeOK, Accept, GreetFails, Greeted, AnswerRefused, AnswerAccepted,
       GiveUp, Cancel, handshake
  <2>2. \A u \in Uid : sessions[u] # s
    <3> SUFFICES ASSUME NEW u \in Uid, sessions[u] = s PROVE FALSE
      OBVIOUS
    <3>1. TableKeys
      BY DEF IInv
    <3>2. phase[s] \in {"reading", "ended"}
      BY <3>1 DEF TableKeys
    <3> QED BY <2>1, <3>2
  <2>3. uid'[t] \in Uid
    BY <1>3 DEF IInv, TypeOK, Registered, Accept, GreetFails, Greeted, AnswerRefused,
       AnswerAccepted, handshake
  <2>4. t # s
    BY <2>1, <2>2, <2>3 DEF Registered
  <2> QED BY <1>1, <2>1, <2>4 DEF Registered
<1>4. CASE TimerExpires(s) \/ TimerRuns(s)
  <2>1. UNCHANGED <<phase, uid, sessions, tasks>>
    BY <1>4 DEF TimerExpires, TimerRuns
  <2> QED BY <1>1, <2>1 DEF Registered
<1>5. CASE Counted(s) \/ ReadMessage(s) \/ ReadFails(s) \/ WriteFails(s)
  <2>1. PICK d \in {"add", "remove", "message"} :
          /\ Post(d, s) /\ UNCHANGED <<uid, sessions>>
          /\ \A r \in Session : phase'[r] = "ended" => phase[r] = "ended" \/ (r = s /\ d = "remove")
    <3>1. CASE Counted(s)
      BY <3>1 DEF Counted, IInv, TypeOK
    <3>2. CASE ReadMessage(s)
      BY <3>2 DEF ReadMessage, handshake
    <3>3. CASE ReadFails(s)
      BY <3>3 DEF ReadFails, handshake, IInv, TypeOK
    <3>4. CASE WriteFails(s)
      BY <3>4 DEF WriteFails, handshake
    <3> QED BY <1>5, <3>1, <3>2, <3>3, <3>4
  <2>2. Registered(t)
    BY <2>1 DEF Registered
  <2>3. CASE phase[t] = "ended"
    BY <1>1, <2>1, <2>2, <2>3, StaysQueued DEF IInv, TypeOK
  <2>4. CASE t = s /\ d = "remove"
    <3>1. tasks \in Seq(Task) /\ removal \in Task
      BY DEF IInv, TypeOK, Task
    <3>2. /\ tasks' \in Seq(Task) /\ Len(tasks') = Len(tasks) + 1
          /\ tasks'[Len(tasks) + 1] = removal
      BY <2>1, <2>4, <3>1, AppendProperties DEF Post
    <3>3. Len(tasks) + 1 \in DOMAIN tasks'
      BY <3>1, <3>2, LenProperties
    <3> QED BY <3>2, <3>3 DEF Elements
  <2> QED BY <2>1, <2>3, <2>4
<1>6. CASE AddSession(s)
  <2>1. /\ MainTakes("add", s) /\ uid' = uid
        /\ phase' = [phase EXCEPT ![s] = "reading"]
        /\ sessions' = [sessions EXCEPT ![uid[s]] = s]
    BY <1>6 DEF AddSession, handshake
  <2>2. t # s /\ phase[t] = "ended"
    BY <2>1 DEF IInv, TypeOK
  <2>3. Registered(t)
    BY <2>1, <2>2 DEF IInv, TypeOK, Registered
  <2>4. removal # [do |-> "add", session |-> s]
    OBVIOUS
  <2> QED BY <1>1, <2>1, <2>2, <2>3, <2>4, StaysQueued DEF IInv, TypeOK
<1>7. CASE RemoveSession(s)
  <2>1. /\ MainTakes("remove", s) /\ uid' = uid /\ phase' = phase
        /\ \/ sessions' = [sessions EXCEPT ![uid[s]] = None]
           \/ sessions' = sessions /\ ~SameSerial(sessions[uid[s]], s)
    BY <1>7 DEF RemoveSession, handshake
  <2>2. Registered(t)
    BY <2>1, NoneAssumption DEF IInv, TypeOK, Registered
  <2>3. t # s
    <3> SUFFICES ASSUME t = s PROVE FALSE
      OBVIOUS
    <3>1. SameSerial(sessions[uid[s]], s)
      BY <2>2, NoneAssumption DEF SameSerial, Registered
    <3>2. sessions'[uid[s]] = None
      BY <1>2, <2>1, <2>2, <3>1 DEF IInv, TypeOK
    <3> QED BY <2>1, <3>2, NoneAssumption DEF Registered
  <2>4. removal # [do |-> "remove", session |-> s]
    BY <2>3
  <2> QED BY <1>1, <2>1, <2>2, <2>4, StaysQueued DEF IInv, TypeOK
<1>8. CASE HandleMessage(s)
  <2>1. MainTakes("message", s) /\ UNCHANGED <<phase, uid, sessions>>
    BY <1>8 DEF HandleMessage, handshake
  <2>2. removal # [do |-> "message", session |-> s]
    OBVIOUS
  <2> QED BY <1>1, <2>1, <2>2, StaysQueued DEF IInv, TypeOK, Registered
<1> QED BY <1>3, <1>4, <1>5, <1>6, <1>7, <1>8 DEF MainStep

(* A session whose read loop is over does not stay in m_sessions: its      *)
(* removal is queued.                                                      *)
THEOREM ServerEndedIsRemoved == Spec => []EndedIsRemoved
<1>1. Init => EndedIsRemoved
  BY DEF Init, EndedIsRemoved, Registered
<1>2. IInv /\ EndedIsRemoved /\ [Next]_vars => EndedIsRemoved'
  <2>1. CASE Next
    BY <2>1, EndedStep DEF Next, EndedIsRemoved
  <2>2. CASE UNCHANGED vars
    BY <2>2 DEF vars, EndedIsRemoved, Registered
  <2> QED BY <2>1, <2>2
<1> QED BY <1>1, <1>2, InitIInv, NextIInv, PTL DEF Spec

-----------------------------------------------------------------------------
(* The clients leave the server's variables alone. *)
LEMMA ClientLeavesServer ==
  ASSUME NEW s \in Client, ClientStep(s)
  PROVE  UNCHANGED vars
BY DEF ClientStep, ConnectC, ArmTimerC, GreetedC, InitFailsC, TimerExpiresC, TimerRunsC,
   UserCloses, ReadFailsC

(* The composition implements the server alone. *)
THEOREM LinkImplementsServer == SpecLink => Spec
<1>1. InitLink => Init
  BY DEF InitLink
<1>2. [NextLink]_linkVars => [Next]_vars
  <2>1. ASSUME Server PROVE Next
    BY <2>1 DEF Server
  <2>2. ASSUME UNCHANGED linkVars PROVE UNCHANGED vars
    BY <2>2 DEF linkVars
  <2> QED BY <2>1, <2>2, ClientLeavesServer DEF NextLink
<1> QED BY <1>1, <1>2, PTL DEF SpecLink, Spec

(* With the library's clients, a session that m_sessions no longer holds   *)
(* has had its socket closed ...                                           *)
THEOREM LinkDisplacedClosed == SpecLink => []DisplacedClosed
BY LinkImplementsServer, ServerDisplacedClosed, PTL

(* ... one whose read loop is over has its removal queued ...              *)
THEOREM LinkEndedIsRemoved == SpecLink => []EndedIsRemoved
BY LinkImplementsServer, ServerEndedIsRemoved, PTL

(* ... and no removal hits a session other than the one it is for, while   *)
(* serial numbers differ.                                                  *)
THEOREM LinkNoForeignRemoval == SpecLink => NoForeignRemoval
BY LinkImplementsServer, ServerNoForeignRemoval
=============================================================================
