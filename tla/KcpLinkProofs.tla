---------------------------- MODULE KcpLinkProofs ----------------------------
(***************************************************************************)
(* Proofs about the KCP server's sessions, for any number of sessions,     *)
(* endpoints, keys and workers, and whatever serial numbers memory held.   *)
(*                                                                         *)
(* A session passes from m_PreSessions to the main thread's queue, to      *)
(* m_sessions and a worker's queue, and to m_RunningSessions.  The         *)
(* invariant says of each of these in which phase its sessions are.        *)
(*                                                                         *)
(* A server that is linked to a client of the library is still the server  *)
(* of KcpServer, whatever the network does with their datagrams; the link  *)
(* is an ordered channel for any set of messages; and on a good network    *)
(* nobody is taken for dead, whatever the timeout.                         *)
(***************************************************************************)
EXTENDS KcpLink, TLAPS, SequenceTheorems

MainTask == [do : {"add", "remove"}, session : Session]
WorkTask == [do : {"run", "erase"}, session : Session]

(* Before its answer a session has no key. *)
Keyless ==
  \A s \in Session : phase[s] \in {"none", "greeting", "waiting"} => uid[s] = None

(* One that was created has a worker. *)
Housed == \A s \in Session : phase[s] # "none" => home[s] \in Worker

(* A pre-session waits for the answer of the endpoint it is kept under. *)
PreWaits ==
  \A e \in Endpoint : preSessions[e] # None =>
    phase[preSessions[e]] = "waiting" /\ at[preSessions[e]] = e

(* What is queued on the main thread: additions of sessions that join, one *)
(* each, and removals of sessions that have.                               *)
MainPhases ==
  \A i \in DOMAIN mainTasks :
    /\ mainTasks[i].do = "add" => phase[mainTasks[i].session] = "joining"
    /\ mainTasks[i].do = "remove" => phase[mainTasks[i].session] = "joined"

AddsOnce ==
  \A i, j \in DOMAIN mainTasks :
    mainTasks[i].do = "add" /\ mainTasks[i] = mainTasks[j] => i = j

JoiningIsQueued ==
  \A s \in Session : phase[s] = "joining" => \E i \in DOMAIN mainTasks : mainTasks[i] = Do("add", s)

(* Tables and workers know sessions that have joined only. *)
TableJoined ==
  \A u \in Uid : sessions[u] # None => phase[sessions[u]] = "joined" /\ uid[sessions[u]] = u

WorkJoined ==
  \A w \in Worker : \A i \in DOMAIN workTasks[w] : phase[workTasks[w][i].session] = "joined"

RemovingJoined == \A s \in Session : removing[s] => phase[s] = "joined"

(* No worker is going to erase a session on its own behalf while the main  *)
(* thread has it.                                                          *)
NotErased ==
  \A s \in Session : Registered(s) =>
    \A w \in Worker : \A i \in DOMAIN workTasks[w] : workTasks[w][i] # Do("erase", s)

(* KnownIsPolled without a look at m_closed. *)
Polled ==
  \A s \in Session : Registered(s) /\ Alone(s) =>
    Runs(s) \/ \E i \in DOMAIN workTasks[home[s]] : workTasks[home[s]][i] = Do("run", s)

Queues == MainPhases /\ AddsOnce /\ JoiningIsQueued
Tables == TableJoined /\ WorkJoined /\ NotErased /\ Polled

IInv == TypeOK /\ Keyless /\ Housed /\ PreWaits /\ RemovingJoined /\ Queues /\ Tables

USE NoneAssumption, LoopsAssumption

-----------------------------------------------------------------------------
LEMMA InitIInv == Init => IInv
<1> SUFFICES ASSUME Init PROVE IInv
  OBVIOUS
<1>1. TypeOK
  BY EmptySeq DEF Init, TypeOK
<1>2. Keyless /\ Housed /\ PreWaits /\ RemovingJoined /\ Queues /\ TableJoined /\ WorkJoined
  BY DEF Init, Keyless, Housed, PreWaits, RemovingJoined, Queues, MainPhases, AddsOnce,
     JoiningIsQueued, TableJoined, WorkJoined
<1>3. NotErased /\ Polled
  BY DEF Init, NotErased, Polled, Registered
<1> QED BY <1>1, <1>2, <1>3 DEF IInv, Tables

(* What appending and taking do to a queue. *)
LEMMA Appended ==
  ASSUME NEW T, NEW q \in Seq(T), NEW t \in T
  PROVE  /\ Append(q, t) \in Seq(T)
         /\ \A i \in DOMAIN q : i \in DOMAIN Append(q, t) /\ Append(q, t)[i] = q[i]
         /\ Len(q) + 1 \in DOMAIN Append(q, t) /\ Append(q, t)[Len(q) + 1] = t
         /\ \A i \in DOMAIN Append(q, t) : i \in DOMAIN q \/ i = Len(q) + 1
<1>1. /\ Append(q, t) \in Seq(T) /\ Len(Append(q, t)) = Len(q) + 1
      /\ \A i \in 1 .. Len(q) : Append(q, t)[i] = q[i]
      /\ Append(q, t)[Len(q) + 1] = t
  BY AppendProperties
<1>2. DOMAIN Append(q, t) = 1 .. Len(q) + 1 /\ DOMAIN q = 1 .. Len(q) /\ Len(q) \in Nat
  BY <1>1, LenProperties
<1> QED BY <1>1, <1>2

LEMMA TailIs ==
  ASSUME NEW T, NEW q \in Seq(T), q # <<>>
  PROVE  /\ Tail(q) \in Seq(T)
         /\ 1 \in DOMAIN q /\ q[1] = Head(q) /\ Head(q) \in T
         /\ \A i \in DOMAIN Tail(q) : i + 1 \in DOMAIN q /\ i \in Nat \ {0} /\ Tail(q)[i] = q[i+1]
         /\ \A i \in DOMAIN q : i # 1 => i - 1 \in DOMAIN Tail(q) /\ Tail(q)[i-1] = q[i]
<1>1. /\ Tail(q) \in Seq(T) /\ Len(Tail(q)) = Len(q) - 1 /\ Head(q) \in T
      /\ \A i \in 1 .. Len(Tail(q)) : Tail(q)[i] = q[i+1]
  BY HeadTailProperties
<1>2. /\ DOMAIN Tail(q) = 1 .. Len(Tail(q)) /\ DOMAIN q = 1 .. Len(q)
      /\ Len(q) \in Nat \ {0} /\ Len(Tail(q)) \in Nat
  BY <1>1, EmptySeq, LenProperties
<1>3. q[1] = Head(q)
  OBVIOUS
<1>4. ASSUME NEW i \in DOMAIN q, i # 1
      PROVE  i - 1 \in DOMAIN Tail(q) /\ Tail(q)[i-1] = q[i]
  <2>1. i - 1 \in 1 .. Len(Tail(q)) /\ (i - 1) + 1 = i
    BY <1>1, <1>2, <1>4
  <2> QED BY <1>1, <1>2, <2>1
<1> QED BY <1>1, <1>2, <1>3, <1>4

(* The members of the queues. *)
LEMMA QueuesTyped ==
  ASSUME TypeOK
  PROVE  /\ mainTasks \in Seq(MainTask)
         /\ \A i \in DOMAIN mainTasks : mainTasks[i] \in MainTask /\ mainTasks[i].session \in Session
         /\ \A w \in Worker :
              /\ workTasks[w] \in Seq(WorkTask)
              /\ \A i \in DOMAIN workTasks[w] : /\ workTasks[w][i] \in WorkTask
                                              /\ workTasks[w][i].session \in Session
<1>1. mainTasks \in Seq(MainTask) /\ workTasks \in [Worker -> Seq(WorkTask)]
  BY DEF TypeOK, MainTask, WorkTask
<1>2. ASSUME NEW T, NEW q \in Seq(T), NEW i \in DOMAIN q PROVE q[i] \in T
  BY <1>2, ElementOfSeq, LenProperties
<1>3. /\ \A t \in MainTask : t.session \in Session
      /\ \A t \in WorkTask : t.session \in Session
  BY DEF MainTask, WorkTask
<1>4. \A i \in DOMAIN mainTasks : mainTasks[i] \in MainTask
  BY <1>1, <1>2
<1>5. \A w \in Worker : workTasks[w] \in Seq(WorkTask)
  BY <1>1
<1>6. \A w \in Worker : \A i \in DOMAIN workTasks[w] : workTasks[w][i] \in WorkTask
  BY <1>2, <1>5
<1> QED BY <1>1, <1>3, <1>4, <1>5, <1>6

(* Steps that touch no table and no queue, and no session past its answer. *)
LEMMA Aside ==
  ASSUME IInv, UNCHANGED <<uid, sessions, running, mainTasks, workTasks>>,
         \A s \in Session : /\ uid[s] # None => home'[s] = home[s]
                            /\ \/ phase'[s] = phase[s]
                               \/ phase[s] \notin {"joining", "joined"} /\ phase'[s] \notin {"joining", "joined"}
  PROVE  Queues' /\ Tables'
<1>1. \A i \in DOMAIN mainTasks : mainTasks[i].session \in Session
  BY QueuesTyped DEF IInv
<1>2. \A w \in Worker : \A i \in DOMAIN workTasks[w] : workTasks[w][i].session \in Session
  BY QueuesTyped DEF IInv
<1>3. Queues'
  BY <1>1 DEF IInv, Queues, MainPhases, AddsOnce, JoiningIsQueued, Do
<1>4. TableJoined' /\ WorkJoined'
  <2>1. \A u \in Uid : sessions[u] # None => sessions[u] \in Session
    BY DEF IInv, TypeOK
  <2> QED BY <1>2, <2>1 DEF IInv, Tables, TableJoined, WorkJoined
<1>5. NotErased'
  BY DEF IInv, Tables, NotErased, Registered, Do
<1>6. Polled'
  <2> SUFFICES ASSUME NEW s \in Session, Registered(s), Alone(s)'
               PROVE  (Runs(s) \/ \E i \in DOMAIN workTasks[home[s]] :
                                    workTasks[home[s]][i] = Do("run", s))'
    BY DEF Polled, Registered
  <2>1. uid[s] \in Uid /\ sessions[uid[s]] = s
    BY DEF IInv, TypeOK, Registered
  <2>2. phase[s] = "joined" /\ home'[s] = home[s] /\ phase'[s] = "joined"
    <3>1. phase[s] = "joined" /\ uid[s] # None
      BY <2>1 DEF IInv, Tables, TableJoined
    <3> QED BY <3>1
  <2>3. Alone(s)
    BY <2>1, <2>2 DEF Alone
  <2> QED BY <2>2, <2>3 DEF IInv, Tables, Polled, Runs, Do
<1> QED BY <1>3, <1>4, <1>5, <1>6 DEF Tables

(* The handshake before the answer. *)
LEMMA ConnectIInv ==
  ASSUME IInv, NEW s \in Session, NEW e \in Endpoint, Connect(s, e)
  PROVE  IInv'
<1>1. /\ phase[s] = "none" /\ UNCHANGED <<uid, timer, flags, loops, preSessions, sessions,
                                          running, mainTasks, workTasks>>
      /\ uid[s] = None
      /\ \A t \in Session \ {s} : phase'[t] = phase[t] /\ home'[t] = home[t] /\ at'[t] = at[t]
      /\ phase'[s] \in {"greeting", "ended"} /\ home'[s] \in Worker
  BY DEF Connect, IInv, TypeOK, Keyless
<1>2. TypeOK'
  BY <1>1 DEF Connect, IInv, TypeOK, flags
<1>3. Keyless' /\ Housed' /\ PreWaits' /\ RemovingJoined'
  <2>1. \A f \in Endpoint : preSessions[f] # None => preSessions[f] \in Session \ {s}
    BY <1>1 DEF IInv, TypeOK, PreWaits
  <2>2. PreWaits'
    BY <1>1, <2>1 DEF IInv, PreWaits
  <2>3. Keyless' /\ Housed' /\ RemovingJoined'
    BY <1>1 DEF IInv, TypeOK, Keyless, Housed, RemovingJoined, flags
  <2> QED BY <2>2, <2>3
<1>4. Queues' /\ Tables'
  <2>1. \A t \in Session : /\ uid[t] # None => home'[t] = home[t]
                           /\ \/ phase'[t] = phase[t]
                              \/ phase[t] \notin {"joining", "joined"} /\ phase'[t] \notin {"joining", "joined"}
    BY <1>1
  <2> QED BY <1>1, <2>1, Aside
<1> QED BY <1>2, <1>3, <1>4 DEF IInv

LEMMA GreetingIInv ==
  ASSUME IInv, NEW s \in Session, GreetingSent(s)
  PROVE  IInv'
<1>1. /\ phase[s] = "greeting" /\ UNCHANGED <<made, uid, flags, loops, sessions, running,
                                              mainTasks, workTasks>>
      /\ \A t \in Session \ {s} : phase'[t] = phase[t]
      /\ phase'[s] \in {"waiting", "ended"}
      /\ \A e \in Endpoint : \/ preSessions'[e] = preSessions[e]
                             \/ preSessions'[e] = s /\ phase'[s] = "waiting" /\ at[s] = e
      /\ TypeOK'
  <2>1. CASE /\ phase' = [phase EXCEPT ![s] = "waiting"]
             /\ preSessions' = [preSessions EXCEPT ![at[s]] = s]
             /\ timer' = [timer EXCEPT ![s] = "armed"]
    BY <2>1 DEF GreetingSent, IInv, TypeOK, made, flags
  <2>2. CASE /\ phase' = [phase EXCEPT ![s] = "ended"]
             /\ UNCHANGED <<preSessions, timer>>
    BY <2>2 DEF GreetingSent, IInv, TypeOK, made, flags
  <2> QED BY <2>1, <2>2 DEF GreetingSent
<1>2. Keyless' /\ Housed' /\ PreWaits' /\ RemovingJoined'
  <2>1. \A f \in Endpoint : preSessions[f] # None => preSessions[f] \in Session \ {s}
    BY <1>1 DEF IInv, TypeOK, PreWaits
  <2>2. PreWaits'
    BY <1>1, <2>1 DEF IInv, PreWaits, made
  <2>3. Keyless' /\ Housed' /\ RemovingJoined'
    BY <1>1 DEF IInv, TypeOK, Keyless, Housed, RemovingJoined, flags, made
  <2> QED BY <2>2, <2>3
<1>3. Queues' /\ Tables'
  <2>1. \A t \in Session : /\ uid[t] # None => home'[t] = home[t]
                           /\ \/ phase'[t] = phase[t]
                              \/ phase[t] \notin {"joining", "joined"} /\ phase'[t] \notin {"joining", "joined"}
    BY <1>1 DEF made
  <2> QED BY <1>1, <2>1, Aside
<1> QED BY <1>1, <1>2, <1>3 DEF IInv

(* Steps that change no phase, no key and no queue. *)
LEMMA IdleIInv ==
  ASSUME IInv, NEW s \in Session,
         TimerRuns(s) \/ FallsSilent(s) \/ DoReadRemoves(s)
  PROVE  IInv'
<1>1. /\ UNCHANGED <<phase, made, uid, sessions, running, mainTasks, workTasks>>
      /\ \A e \in Endpoint : preSessions'[e] \in {preSessions[e], None}
      /\ \A t \in Session : removing'[t] => removing[t] \/ phase[t] = "joined"
      /\ TypeOK'
  <2>1. CASE TimerRuns(s)
    BY <2>1 DEF TimerRuns, IInv, TypeOK, made, flags
  <2>2. CASE FallsSilent(s)
    BY <2>2 DEF FallsSilent, IInv, TypeOK, made
  <2>3. CASE DoReadRemoves(s)
    BY <2>3 DEF DoReadRemoves, Runs, IInv, TypeOK, made
  <2> QED BY <2>1, <2>2, <2>3
<1>2. Keyless' /\ Housed' /\ PreWaits' /\ RemovingJoined'
  BY <1>1 DEF IInv, Keyless, Housed, PreWaits, RemovingJoined, made
<1>3. Queues' /\ Tables'
  BY <1>1, Aside DEF made
<1> QED BY <1>1, <1>2, <1>3 DEF IInv

-----------------------------------------------------------------------------
(* The answer takes the pre-session out.                                   *)
LEMMA AnswerIInv ==
  ASSUME IInv, NEW e \in Endpoint, NEW u \in Uid, Answer(e, u)
  PROVE  IInv'
<1> DEFINE s == preSessions[e]
<1>1. /\ s \in Session /\ phase[s] = "waiting" /\ at[s] = e /\ uid[s] = None
      /\ home[s] \in Worker
      /\ \A f \in Endpoint \ {e} : preSessions[f] # s
      /\ preSessions' = [preSessions EXCEPT ![e] = None]
      /\ UNCHANGED <<made, timer, flags, loops, sessions, running, workTasks>>
  BY DEF Answer, IInv, TypeOK, Keyless, Housed, PreWaits
<1>2. CASE /\ phase' = [phase EXCEPT ![s] = "ended"]
           /\ UNCHANGED <<uid, mainTasks>>
  <2>1. TypeOK'
    BY <1>1, <1>2 DEF IInv, TypeOK, made, flags
  <2>2. Keyless' /\ Housed' /\ PreWaits' /\ RemovingJoined'
    BY <1>1, <1>2 DEF IInv, TypeOK, Keyless, Housed, PreWaits, RemovingJoined, made, flags
  <2>3. \A t \in Session :
          /\ uid[t] # None => home'[t] = home[t]
          /\ \/ phase'[t] = phase[t]
             \/ phase[t] \notin {"joining", "joined"} /\ phase'[t] \notin {"joining", "joined"}
    BY <1>1, <1>2 DEF IInv, TypeOK, made
  <2>4. Queues' /\ Tables'
    BY <1>1, <1>2, <2>3, Aside
  <2> QED BY <2>1, <2>2, <2>4 DEF IInv
<1>3. CASE /\ uid' = [uid EXCEPT ![s] = u]
           /\ phase' = [phase EXCEPT ![s] = "joining"]
           /\ mainTasks' = Append(mainTasks, Do("add", s))
  <2>1. /\ mainTasks' \in Seq(MainTask)
        /\ \A i \in DOMAIN mainTasks : i \in DOMAIN mainTasks' /\ mainTasks'[i] = mainTasks[i]
        /\ Len(mainTasks) + 1 \in DOMAIN mainTasks' /\ mainTasks'[Len(mainTasks) + 1] = Do("add", s)
        /\ \A i \in DOMAIN mainTasks' : i \in DOMAIN mainTasks \/ i = Len(mainTasks) + 1
    <3>1. mainTasks \in Seq(MainTask) /\ Do("add", s) \in MainTask
      BY <1>1, QueuesTyped DEF IInv, Do, MainTask
    <3> QED BY <1>3, <3>1, Appended
  <2>2. TypeOK'
    BY <1>1, <1>3, <2>1 DEF IInv, TypeOK, MainTask, made, flags
  <2>3. Keyless' /\ Housed' /\ PreWaits' /\ RemovingJoined'
    BY <1>1, <1>3 DEF IInv, TypeOK, Keyless, Housed, PreWaits, RemovingJoined, made, flags
  <2>4. \A i \in DOMAIN mainTasks : mainTasks[i].session \in Session /\ mainTasks[i].do \in {"add", "remove"}
    BY QueuesTyped DEF IInv, MainTask
  <2>5. \A i \in DOMAIN mainTasks : mainTasks[i].session # s
    BY <1>1, <2>4 DEF IInv, Queues, MainPhases
  <2>6. MainPhases' /\ AddsOnce' /\ JoiningIsQueued'
    <3>1. MainPhases'
      BY <1>1, <1>3, <2>1, <2>4, <2>5 DEF IInv, TypeOK, Queues, MainPhases, Do
    <3>2. AddsOnce'
      BY <2>1, <2>5 DEF IInv, Queues, AddsOnce, Do
    <3>3. JoiningIsQueued'
      BY <1>1, <1>3, <2>1 DEF IInv, TypeOK, Queues, JoiningIsQueued, Do
    <3> QED BY <3>1, <3>2, <3>3
  <2>7. \A v \in Uid : sessions[v] # s /\ (sessions[v] # None => sessions[v] \in Session)
    BY <1>1 DEF IInv, TypeOK, Tables, TableJoined
  <2>8. \A w \in Worker : \A i \in DOMAIN workTasks[w] :
          workTasks[w][i].session \in Session /\ workTasks[w][i].session # s
    BY <1>1, QueuesTyped DEF IInv, Tables, WorkJoined
  <2>9. TableJoined' /\ WorkJoined'
    BY <1>1, <1>3, <2>7, <2>8 DEF IInv, TypeOK, Tables, TableJoined, WorkJoined
  <2>10. ASSUME NEW t \in Session, Registered(t)'
         PROVE  /\ t # s /\ Registered(t) /\ uid'[t] = uid[t] /\ phase'[t] = phase[t]
                /\ uid[t] \in Uid
    <3>1. t # s
      BY <1>1, <1>3, <2>7, <2>10 DEF IInv, TypeOK, Registered
    <3> QED BY <1>1, <1>3, <2>10, <3>1 DEF IInv, TypeOK, Registered
  <2>11. NotErased'
    BY <1>1, <2>10 DEF IInv, Tables, NotErased, Do
  <2>12. Polled'
    <3> SUFFICES ASSUME NEW t \in Session, Registered(t)', Alone(t)'
                 PROVE  (Runs(t) \/ \E i \in DOMAIN workTasks[home[t]] :
                                      workTasks[home[t]][i] = Do("run", t))'
      BY DEF Polled
    <3>1. /\ t # s /\ Registered(t) /\ uid'[t] = uid[t] /\ phase'[t] = phase[t]
          /\ uid[t] \in Uid
      BY <2>10
    <3>2. home' = home /\ running' = running /\ workTasks' = workTasks
      BY <1>1 DEF made
    <3>3. Alone(t)
      BY <1>1, <1>3, <3>1, <3>2 DEF IInv, TypeOK, Alone
    <3> QED BY <3>1, <3>2, <3>3 DEF IInv, Tables, Polled, Runs, Do
  <2> QED BY <2>2, <2>3, <2>6, <2>9, <2>11, <2>12 DEF IInv, Queues, Tables
<1> QED BY <1>2, <1>3 DEF Answer

LEMMA RemovePostedIInv ==
  ASSUME IInv, NEW s \in Session, RemovePosted(s)
  PROVE  IInv'
<1>1. /\ phase[s] = "joined" /\ removing' = [removing EXCEPT ![s] = FALSE]
      /\ waitRemove' = [waitRemove EXCEPT ![s] = TRUE]
      /\ UNCHANGED <<phase, made, uid, timer, closed, silent, loops,
                     preSessions, sessions, running, workTasks>>
  BY DEF RemovePosted, IInv, RemovingJoined
<1>2. /\ mainTasks' \in Seq(MainTask)
      /\ \A i \in DOMAIN mainTasks : i \in DOMAIN mainTasks' /\ mainTasks'[i] = mainTasks[i]
      /\ mainTasks'[Len(mainTasks) + 1] = Do("remove", s)
      /\ \A i \in DOMAIN mainTasks' : i \in DOMAIN mainTasks \/ i = Len(mainTasks) + 1
  <2>1. mainTasks \in Seq(MainTask) /\ Do("remove", s) \in MainTask
    BY QueuesTyped DEF IInv, Do, MainTask
  <2> QED BY <2>1, Appended DEF RemovePosted
<1>3. TypeOK'
  BY <1>1, <1>2 DEF IInv, TypeOK, MainTask, made
<1>4. Keyless' /\ Housed' /\ PreWaits' /\ RemovingJoined'
  BY <1>1 DEF IInv, TypeOK, Keyless, Housed, PreWaits, RemovingJoined, made
<1>5. Queues'
  <2>1. MainPhases'
    BY <1>1, <1>2 DEF IInv, Queues, MainPhases, Do
  <2>2. AddsOnce'
    BY <1>2 DEF IInv, Queues, AddsOnce, Do
  <2>3. JoiningIsQueued'
    BY <1>1, <1>2 DEF IInv, Queues, JoiningIsQueued, Do
  <2> QED BY <2>1, <2>2, <2>3 DEF Queues
<1>6. Tables'
  BY <1>1 DEF IInv, Tables, TableJoined, WorkJoined, NotErased, Polled, Registered, Alone,
     Runs, Do, made
<1> QED BY <1>3, <1>4, <1>5, <1>6 DEF IInv

-----------------------------------------------------------------------------
(* The main thread.  What Close leaves in its queue.                       *)
LEMMA Closing ==
  ASSUME IInv, NEW what \in {"add", "remove"}, NEW s \in Session, MainTakes(what, s),
         NEW old \in Session \cup {None}, Close(old)
  PROVE  /\ mainTasks' \in Seq(MainTask)
         /\ closed' \in [Session -> BOOLEAN] /\ waitRemove' \in [Session -> BOOLEAN]
         /\ 1 \in DOMAIN mainTasks /\ mainTasks[1] = Do(what, s)
         /\ \A i \in DOMAIN mainTasks' :
              \/ i \in Nat \ {0} /\ i + 1 \in DOMAIN mainTasks /\ mainTasks'[i] = mainTasks[i+1]
              \/ old # None /\ mainTasks'[i] = Do("remove", old)
         /\ \A i \in DOMAIN mainTasks :
              i # 1 => i - 1 \in DOMAIN mainTasks' /\ mainTasks'[i-1] = mainTasks[i]
<1>1. mainTasks \in Seq(MainTask) /\ mainTasks # <<>> /\ Head(mainTasks) = Do(what, s)
  BY QueuesTyped DEF IInv, MainTakes
<1>2. /\ Tail(mainTasks) \in Seq(MainTask)
      /\ 1 \in DOMAIN mainTasks /\ mainTasks[1] = Do(what, s)
      /\ \A i \in DOMAIN Tail(mainTasks) :
           i \in Nat \ {0} /\ i + 1 \in DOMAIN mainTasks /\ Tail(mainTasks)[i] = mainTasks[i+1]
      /\ \A i \in DOMAIN mainTasks :
           i # 1 => i - 1 \in DOMAIN Tail(mainTasks) /\ Tail(mainTasks)[i-1] = mainTasks[i]
  BY <1>1, TailIs
<1>3. closed' \in [Session -> BOOLEAN] /\ waitRemove' \in [Session -> BOOLEAN]
  BY DEF Close, IInv, TypeOK
<1>4. CASE mainTasks' = Tail(mainTasks)
  BY <1>2, <1>3, <1>4
<1>5. CASE old # None /\ mainTasks' = Append(Tail(mainTasks), Do("remove", old))
  <2>1. Do("remove", old) \in MainTask
    BY <1>5 DEF Do, MainTask
  <2>2. /\ mainTasks' \in Seq(MainTask)
        /\ \A i \in DOMAIN Tail(mainTasks) :
             i \in DOMAIN mainTasks' /\ mainTasks'[i] = Tail(mainTasks)[i]
        /\ mainTasks'[Len(Tail(mainTasks)) + 1] = Do("remove", old)
        /\ \A i \in DOMAIN mainTasks' :
             i \in DOMAIN Tail(mainTasks) \/ i = Len(Tail(mainTasks)) + 1
    BY <1>2, <1>5, <2>1, Appended
  <2> QED BY <1>2, <1>3, <1>5, <2>2
<1> QED BY <1>4, <1>5 DEF Close

(* What is posted to a worker. *)
LEMMA WorkPosted ==
  ASSUME IInv, NEW what \in {"run", "erase"}, NEW s \in Session, home[s] \in Worker,
         PostToWorker(what, s)
  PROVE  /\ workTasks' \in [Worker -> Seq(WorkTask)]
         /\ \E i \in DOMAIN workTasks'[home[s]] : workTasks'[home[s]][i] = Do(what, s)
         /\ \A w \in Worker :
              /\ \A i \in DOMAIN workTasks[w] :
                   i \in DOMAIN workTasks'[w] /\ workTasks'[w][i] = workTasks[w][i]
              /\ \A i \in DOMAIN workTasks'[w] :
                   \/ i \in DOMAIN workTasks[w] /\ workTasks'[w][i] = workTasks[w][i]
                   \/ workTasks'[w][i] = Do(what, s)
<1> DEFINE q == workTasks[home[s]]
           longer == Append(q, Do(what, s))
<1>1. q \in Seq(WorkTask) /\ Do(what, s) \in WorkTask
  BY QueuesTyped DEF IInv, Do, WorkTask
<1>2. /\ longer \in Seq(WorkTask)
      /\ \A i \in DOMAIN q : i \in DOMAIN longer /\ longer[i] = q[i]
      /\ Len(q) + 1 \in DOMAIN longer /\ longer[Len(q) + 1] = Do(what, s)
      /\ \A i \in DOMAIN longer : i \in DOMAIN q \/ i = Len(q) + 1
  BY <1>1, Appended
<1>3. /\ workTasks \in [Worker -> Seq(WorkTask)]
      /\ workTasks' = [workTasks EXCEPT ![home[s]] = longer]
  BY DEF PostToWorker, IInv, TypeOK, WorkTask
<1>4. /\ workTasks'[home[s]] = longer
      /\ \A w \in Worker : w # home[s] => workTasks'[w] = workTasks[w]
      /\ workTasks' \in [Worker -> Seq(WorkTask)]
  <2> HIDE DEF longer, q
  <2> QED BY <1>2, <1>3
<1> HIDE DEF longer
<1> QED BY <1>2, <1>4

(* What a worker takes. *)
LEMMA WorkTaken ==
  ASSUME IInv, NEW what \in {"run", "erase"}, NEW s \in Session, WorkerTakes(what, s)
  PROVE  /\ home[s] \in Worker /\ phase[s] = "joined" /\ uid[s] \in Uid
         /\ workTasks' \in [Worker -> Seq(WorkTask)]
         /\ \E i \in DOMAIN workTasks[home[s]] : workTasks[home[s]][i] = Do(what, s)
         /\ \A w \in Worker : \A i \in DOMAIN workTasks'[w] :
              \E j \in DOMAIN workTasks[w] : workTasks'[w][i] = workTasks[w][j]
         /\ \A w \in Worker : \A i \in DOMAIN workTasks[w] :
              \/ workTasks[w][i] = Do(what, s)
              \/ \E j \in DOMAIN workTasks'[w] : workTasks'[w][j] = workTasks[w][i]
<1> DEFINE q == workTasks[home[s]]
<1>1. home[s] \in Worker
  BY DEF WorkerTakes, IInv, TypeOK
<1>2. q \in Seq(WorkTask) /\ q # <<>> /\ Head(q) = Do(what, s)
  BY <1>1, QueuesTyped DEF IInv, WorkerTakes
<1>3. /\ Tail(q) \in Seq(WorkTask)
      /\ 1 \in DOMAIN q /\ q[1] = Do(what, s)
      /\ \A i \in DOMAIN Tail(q) : i + 1 \in DOMAIN q /\ i \in Nat \ {0} /\ Tail(q)[i] = q[i+1]
      /\ \A i \in DOMAIN q : i # 1 => i - 1 \in DOMAIN Tail(q) /\ Tail(q)[i-1] = q[i]
  BY <1>2, TailIs
<1>4. phase[s] = "joined"
  <2>1. q[1].session = s
    BY <1>3 DEF Do
  <2> QED BY <1>1, <1>3, <2>1 DEF IInv, Tables, WorkJoined
<1>5. uid[s] \in Uid
  BY <1>4 DEF IInv, TypeOK
<1>6. /\ workTasks \in [Worker -> Seq(WorkTask)]
      /\ workTasks' = [workTasks EXCEPT ![home[s]] = Tail(q)]
  BY DEF WorkerTakes, IInv, TypeOK, WorkTask
<1>7. /\ workTasks'[home[s]] = Tail(q)
      /\ \A w \in Worker : w # home[s] => workTasks'[w] = workTasks[w]
      /\ workTasks' \in [Worker -> Seq(WorkTask)]
  BY <1>1, <1>3, <1>6
<1>8. ASSUME NEW w \in Worker, NEW i \in DOMAIN workTasks'[w]
      PROVE  \E j \in DOMAIN workTasks[w] : workTasks'[w][i] = workTasks[w][j]
  <2>1. CASE w = home[s]
    <3>1. i \in DOMAIN Tail(q) /\ workTasks'[w][i] = Tail(q)[i] /\ workTasks[w] = q
      BY <1>7, <1>8, <2>1
    <3>2. i + 1 \in DOMAIN q /\ Tail(q)[i] = q[i+1]
      BY <1>3, <3>1
    <3> QED BY <3>1, <3>2
  <2>2. CASE w # home[s]
    BY <1>7, <1>8, <2>2
  <2> QED BY <2>1, <2>2
<1>9. ASSUME NEW w \in Worker, NEW i \in DOMAIN workTasks[w], workTasks[w][i] # Do(what, s)
      PROVE  \E j \in DOMAIN workTasks'[w] : workTasks'[w][j] = workTasks[w][i]
  <2>1. CASE w = home[s]
    BY ZenonT(30), <1>3, <1>7, <1>9, <2>1
  <2>2. CASE w # home[s]
    BY <1>7, <1>9, <2>2
  <2> QED BY <2>1, <2>2
<1>10. \E i \in DOMAIN workTasks[home[s]] : workTasks[home[s]][i] = Do(what, s)
  BY <1>3
<1> QED BY <1>1, <1>4, <1>5, <1>7, <1>8, <1>9, <1>10

-----------------------------------------------------------------------------
LEMMA AddSessionIInv ==
  ASSUME IInv, NEW s \in Session, AddSession(s)
  PROVE  IInv'
<1> DEFINE old == sessions[uid[s]]
<1>1. /\ MainTakes("add", s) /\ Close(old) /\ PostToWorker("run", s)
      /\ sessions' = [sessions EXCEPT ![uid[s]] = s]
      /\ phase' = [phase EXCEPT ![s] = "joined"]
      /\ UNCHANGED <<made, uid, timer, removing, silent, loops, preSessions, running>>
  BY DEF AddSession
<1>2. phase[s] = "joining" /\ uid[s] \in Uid /\ home[s] \in Worker /\ uid[s] # None
  <2>1. 1 \in DOMAIN mainTasks /\ mainTasks[1] = Do("add", s)
    <3>1. mainTasks \in Seq(MainTask) /\ mainTasks # <<>> /\ Head(mainTasks) = Do("add", s)
      BY <1>1, QueuesTyped DEF IInv, MainTakes
    <3> QED BY <3>1, TailIs
  <2>2. phase[s] = "joining"
    BY <2>1 DEF IInv, Queues, MainPhases, Do
  <2> QED BY <2>2 DEF IInv, TypeOK, Housed
<1>3. /\ old \in Session \cup {None}
      /\ old # None => phase[old] = "joined" /\ old # s
  BY <1>2 DEF IInv, TypeOK, Tables, TableJoined
<1>4. /\ mainTasks' \in Seq(MainTask)
      /\ closed' \in [Session -> BOOLEAN] /\ waitRemove' \in [Session -> BOOLEAN]
      /\ 1 \in DOMAIN mainTasks /\ mainTasks[1] = Do("add", s)
      /\ \A i \in DOMAIN mainTasks' :
           \/ i \in Nat \ {0} /\ i + 1 \in DOMAIN mainTasks /\ mainTasks'[i] = mainTasks[i+1]
           \/ old # None /\ mainTasks'[i] = Do("remove", old)
      /\ \A i \in DOMAIN mainTasks :
           i # 1 => i - 1 \in DOMAIN mainTasks' /\ mainTasks'[i-1] = mainTasks[i]
  BY <1>1, <1>3, Closing
<1>5. /\ workTasks' \in [Worker -> Seq(WorkTask)]
      /\ \E i \in DOMAIN workTasks'[home[s]] : workTasks'[home[s]][i] = Do("run", s)
      /\ \A w \in Worker :
           /\ \A i \in DOMAIN workTasks[w] :
                i \in DOMAIN workTasks'[w] /\ workTasks'[w][i] = workTasks[w][i]
           /\ \A i \in DOMAIN workTasks'[w] :
                \/ i \in DOMAIN workTasks[w] /\ workTasks'[w][i] = workTasks[w][i]
                \/ workTasks'[w][i] = Do("run", s)
  BY <1>1, <1>2, WorkPosted
<1> HIDE DEF old
<1>6. TypeOK'
  BY <1>1, <1>2, <1>4, <1>5 DEF IInv, TypeOK, MainTask, WorkTask, made
<1>7. \A t \in Session : phase'[t] = IF t = s THEN "joined" ELSE phase[t]
  BY <1>1 DEF IInv, TypeOK
<1>8. Keyless' /\ Housed' /\ PreWaits' /\ RemovingJoined'
  <2>1. Keyless' /\ Housed' /\ RemovingJoined'
    BY <1>1, <1>2, <1>7 DEF IInv, Keyless, Housed, RemovingJoined, made
  <2>2. \A f \in Endpoint : preSessions[f] # None => preSessions[f] \in Session \ {s}
    BY <1>2 DEF IInv, TypeOK, PreWaits
  <2>3. PreWaits'
    BY <1>1, <1>7, <2>2 DEF IInv, PreWaits, made
  <2> QED BY <2>1, <2>3
<1>9. Queues'
  <2>1. \A i \in DOMAIN mainTasks :
          /\ mainTasks[i] \in MainTask /\ mainTasks[i].session \in Session
          /\ mainTasks[i].do = "add" => mainTasks[i] = Do("add", mainTasks[i].session)
    BY QueuesTyped DEF IInv, MainTask, Do
  <2>2. \A i \in DOMAIN mainTasks : i # 1 => mainTasks[i].session # s
    <3> SUFFICES ASSUME NEW i \in DOMAIN mainTasks, i # 1, mainTasks[i].session = s
                 PROVE  FALSE
      OBVIOUS
    <3>1. mainTasks[i].do # "remove"
      BY <1>2 DEF IInv, Queues, MainPhases
    <3>2. mainTasks[i] = Do("add", s)
      BY <2>1, <3>1 DEF MainTask
    <3> QED BY <1>4, <2>1, <3>1, <3>2 DEF IInv, Queues, AddsOnce, MainTask
  <2>3. ASSUME NEW i \in DOMAIN mainTasks'
        PROVE  /\ mainTasks'[i].do = "add" => phase'[mainTasks'[i].session] = "joining"
               /\ mainTasks'[i].do = "remove" => phase'[mainTasks'[i].session] = "joined"
    <3>1. CASE i \in Nat \ {0} /\ i + 1 \in DOMAIN mainTasks /\ mainTasks'[i] = mainTasks[i+1]
      <4>1. mainTasks[i+1].session \in Session \ {s}
        BY <2>1, <2>2, <3>1
      <4> QED BY <1>7, <3>1, <4>1 DEF IInv, Queues, MainPhases
    <3>2. CASE old # None /\ mainTasks'[i] = Do("remove", old)
      BY <1>3, <1>7, <3>2 DEF Do
    <3> QED BY <1>4, <3>1, <3>2
  <2>4. MainPhases'
    BY <2>3 DEF MainPhases
  <2>5. AddsOnce'
    <3> SUFFICES ASSUME NEW i \in DOMAIN mainTasks', NEW j \in DOMAIN mainTasks',
                        mainTasks'[i].do = "add", mainTasks'[i] = mainTasks'[j]
                 PROVE  i = j
      BY DEF AddsOnce
    <3>1. /\ i \in Nat /\ i + 1 \in DOMAIN mainTasks /\ mainTasks'[i] = mainTasks[i+1]
          /\ j \in Nat /\ j + 1 \in DOMAIN mainTasks /\ mainTasks'[j] = mainTasks[j+1]
      BY <1>4 DEF Do
    <3>2. i + 1 = j + 1
      BY <3>1 DEF IInv, Queues, AddsOnce
    <3> QED BY <3>1, <3>2
  <2>6. JoiningIsQueued'
    <3> SUFFICES ASSUME NEW t \in Session, phase'[t] = "joining"
                 PROVE  \E i \in DOMAIN mainTasks' : mainTasks'[i] = Do("add", t)
      BY DEF JoiningIsQueued, Do
    <3>1. t # s /\ phase[t] = "joining"
      BY <1>7
    <3>2. PICK i \in DOMAIN mainTasks : mainTasks[i] = Do("add", t)
      BY <3>1 DEF IInv, Queues, JoiningIsQueued
    <3>3. i # 1
      BY <1>4, <3>1, <3>2 DEF Do
    <3> QED BY <1>4, <3>2, <3>3
  <2> QED BY <2>4, <2>5, <2>6 DEF Queues
<1>10. \A u \in Uid : sessions'[u] = IF u = uid[s] THEN s ELSE sessions[u]
  BY <1>1, <1>2 DEF IInv, TypeOK
<1>11. TableJoined' /\ WorkJoined'
  <2>1. TableJoined'
    BY <1>1, <1>7, <1>10 DEF IInv, TypeOK, Tables, TableJoined
  <2>2. \A w \in Worker : \A i \in DOMAIN workTasks[w] : workTasks[w][i].session \in Session
    BY QueuesTyped DEF IInv
  <2>3. WorkJoined'
    BY <1>5, <1>7, <2>2 DEF IInv, Tables, WorkJoined, Do
  <2> QED BY <2>1, <2>3
<1>12. ASSUME NEW t \in Session, t # s, Registered(t)'
       PROVE  Registered(t) /\ uid[t] \in Uid
  BY <1>1, <1>10, <1>12 DEF IInv, TypeOK, Registered
<1>13. NotErased'
  <2> SUFFICES ASSUME NEW t \in Session, Registered(t)', NEW w \in Worker,
                      NEW i \in DOMAIN workTasks'[w]
               PROVE  workTasks'[w][i] # Do("erase", t)
    BY DEF NotErased, Do
  <2>1. CASE workTasks'[w][i] = Do("run", s)
    BY <2>1 DEF Do
  <2>2. CASE i \in DOMAIN workTasks[w] /\ workTasks'[w][i] = workTasks[w][i]
    <3>1. CASE t = s
      <4>1. phase[workTasks[w][i].session] = "joined"
        BY <2>2 DEF IInv, Tables, WorkJoined
      <4> QED BY <1>2, <2>2, <3>1, <4>1 DEF Do
    <3>2. CASE t # s
      BY <1>12, <2>2, <3>2 DEF IInv, Tables, NotErased
    <3> QED BY <3>1, <3>2
  <2> QED BY <1>5, <2>1, <2>2
<1>14. Polled'
  <2> SUFFICES ASSUME NEW t \in Session, Registered(t)', Alone(t)'
               PROVE  \/ phase'[t] = "joined" /\ running[home[t]][uid[t]] = t
                      \/ \E i \in DOMAIN workTasks'[home[t]] : workTasks'[home[t]][i] = Do("run", t)
    BY <1>1 DEF Polled, Runs, Do, made
  <2>1. CASE t = s
    BY <1>5, <2>1
  <2>2. CASE t # s
    <3>1. Registered(t) /\ Alone(t) /\ uid[t] \in Uid
      BY <1>1, <1>12, <2>2 DEF Alone, made
    <3>2. phase[t] = "joined" /\ phase'[t] = "joined" /\ home[t] \in Worker
      BY <1>7, <2>2, <3>1 DEF IInv, Tables, TableJoined, Housed, Registered
    <3> QED BY <1>5, <3>1, <3>2 DEF IInv, Tables, Polled, Runs
  <2> QED BY <2>1, <2>2
<1> QED BY <1>6, <1>8, <1>9, <1>11, <1>13, <1>14 DEF IInv, Tables

LEMMA RemoveSelfIInv ==
  ASSUME IInv, NEW s \in Session, RemoveSelfImpl(s)
  PROVE  IInv'
<1>1. /\ MainTakes("remove", s) /\ PostToWorker("erase", s)
      /\ UNCHANGED <<phase, made, uid, timer, removing, silent, loops, preSessions, running>>
  BY DEF RemoveSelfImpl
<1>2. phase[s] = "joined" /\ uid[s] \in Uid /\ home[s] \in Worker /\ uid[s] # None
  <2>1. 1 \in DOMAIN mainTasks /\ mainTasks[1] = Do("remove", s)
    <3>1. mainTasks \in Seq(MainTask) /\ mainTasks # <<>> /\ Head(mainTasks) = Do("remove", s)
      BY <1>1, QueuesTyped DEF IInv, MainTakes
    <3> QED BY <3>1, TailIs
  <2>2. phase[s] = "joined"
    BY <2>1 DEF IInv, Queues, MainPhases, Do
  <2> QED BY <2>2 DEF IInv, TypeOK, Housed
<1>3. PICK old \in Session \cup {None} :
        /\ Close(old)
        /\ old # None => phase[old] = "joined"
        /\ \A u \in Uid : sessions'[u] \in {sessions[u], None}
        /\ sessions'[uid[s]] # s
        /\ sessions' \in [Uid -> Session \cup {None}]
  <2> DEFINE found == sessions[uid[s]]
  <2>1. found \in Session \cup {None} /\ (found # None => phase[found] = "joined")
    BY <1>2 DEF IInv, TypeOK, Tables, TableJoined
  <2>2. CASE /\ found # None /\ serial[found] = serial[s]
             /\ Close(found) /\ sessions' = [sessions EXCEPT ![uid[s]] = None]
    BY <1>2, <2>1, <2>2 DEF IInv, TypeOK
  <2>3. CASE /\ ~(found # None /\ serial[found] = serial[s])
             /\ Close(None) /\ UNCHANGED sessions
    BY <1>2, <2>1, <2>3 DEF IInv, TypeOK
  <2> QED BY <2>2, <2>3 DEF RemoveSelfImpl
<1>4. /\ mainTasks' \in Seq(MainTask)
      /\ closed' \in [Session -> BOOLEAN] /\ waitRemove' \in [Session -> BOOLEAN]
      /\ 1 \in DOMAIN mainTasks /\ mainTasks[1] = Do("remove", s)
      /\ \A i \in DOMAIN mainTasks' :
           \/ i \in Nat \ {0} /\ i + 1 \in DOMAIN mainTasks /\ mainTasks'[i] = mainTasks[i+1]
           \/ old # None /\ mainTasks'[i] = Do("remove", old)
      /\ \A i \in DOMAIN mainTasks :
           i # 1 => i - 1 \in DOMAIN mainTasks' /\ mainTasks'[i-1] = mainTasks[i]
  BY <1>1, <1>3, Closing
<1>5. /\ workTasks' \in [Worker -> Seq(WorkTask)]
      /\ \A w \in Worker :
           /\ \A i \in DOMAIN workTasks[w] :
                i \in DOMAIN workTasks'[w] /\ workTasks'[w][i] = workTasks[w][i]
           /\ \A i \in DOMAIN workTasks'[w] :
                \/ i \in DOMAIN workTasks[w] /\ workTasks'[w][i] = workTasks[w][i]
                \/ workTasks'[w][i] = Do("erase", s)
  BY <1>1, <1>2, WorkPosted
<1>6. TypeOK'
  BY <1>1, <1>3, <1>4, <1>5 DEF IInv, TypeOK, MainTask, WorkTask, made
<1>7. Keyless' /\ Housed' /\ PreWaits' /\ RemovingJoined'
  BY <1>1 DEF IInv, Keyless, Housed, PreWaits, RemovingJoined, made
<1>8. Queues'
  <2>1. MainPhases'
    <3> SUFFICES ASSUME NEW i \in DOMAIN mainTasks'
                 PROVE  /\ mainTasks'[i].do = "add" => phase[mainTasks'[i].session] = "joining"
                        /\ mainTasks'[i].do = "remove" => phase[mainTasks'[i].session] = "joined"
      BY <1>1 DEF MainPhases
    <3>1. CASE i + 1 \in DOMAIN mainTasks /\ mainTasks'[i] = mainTasks[i+1]
      BY <3>1 DEF IInv, Queues, MainPhases
    <3>2. CASE old # None /\ mainTasks'[i] = Do("remove", old)
      BY <1>3, <3>2 DEF Do
    <3> QED BY <1>4, <3>1, <3>2
  <2>2. AddsOnce'
    <3> SUFFICES ASSUME NEW i \in DOMAIN mainTasks', NEW j \in DOMAIN mainTasks',
                        mainTasks'[i].do = "add", mainTasks'[i] = mainTasks'[j]
                 PROVE  i = j
      BY DEF AddsOnce
    <3>1. /\ i \in Nat /\ i + 1 \in DOMAIN mainTasks /\ mainTasks'[i] = mainTasks[i+1]
          /\ j \in Nat /\ j + 1 \in DOMAIN mainTasks /\ mainTasks'[j] = mainTasks[j+1]
      BY <1>4 DEF Do
    <3>2. i + 1 = j + 1
      BY <3>1 DEF IInv, Queues, AddsOnce
    <3> QED BY <3>1, <3>2
  <2>3. JoiningIsQueued'
    <3> SUFFICES ASSUME NEW t \in Session, phase[t] = "joining"
                 PROVE  \E i \in DOMAIN mainTasks' : mainTasks'[i] = Do("add", t)
      BY <1>1 DEF JoiningIsQueued, Do
    <3>1. PICK i \in DOMAIN mainTasks : mainTasks[i] = Do("add", t)
      BY DEF IInv, Queues, JoiningIsQueued
    <3>2. i # 1
      BY <1>4, <3>1 DEF Do
    <3> QED BY <1>4, <3>1, <3>2
  <2> QED BY <2>1, <2>2, <2>3 DEF Queues
<1>9. TableJoined' /\ WorkJoined'
  <2>1. TableJoined'
    BY <1>1, <1>3 DEF IInv, Tables, TableJoined
  <2>2. WorkJoined'
    BY <1>1, <1>2, <1>5 DEF IInv, Tables, WorkJoined, Do
  <2> QED BY <2>1, <2>2
<1>10. ASSUME NEW t \in Session, Registered(t)'
       PROVE  t # s /\ Registered(t) /\ uid[t] \in Uid
  BY <1>1, <1>3, <1>10 DEF IInv, TypeOK, Registered
<1>11. NotErased'
  <2> SUFFICES ASSUME NEW t \in Session, Registered(t)', NEW w \in Worker,
                      NEW i \in DOMAIN workTasks'[w]
               PROVE  workTasks'[w][i] # Do("erase", t)
    BY DEF NotErased, Do
  <2>1. t # s /\ Registered(t)
    BY <1>10
  <2>2. CASE workTasks'[w][i] = Do("erase", s)
    BY <2>1, <2>2 DEF Do
  <2>3. CASE i \in DOMAIN workTasks[w] /\ workTasks'[w][i] = workTasks[w][i]
    BY <2>1, <2>3 DEF IInv, Tables, NotErased
  <2> QED BY <1>5, <2>2, <2>3
<1>12. Polled'
  <2> SUFFICES ASSUME NEW t \in Session, Registered(t)', Alone(t)'
               PROVE  \/ Runs(t)
                      \/ \E i \in DOMAIN workTasks'[home[t]] : workTasks'[home[t]][i] = Do("run", t)
    BY <1>1 DEF Polled, Runs, Do, made
  <2>1. Registered(t) /\ Alone(t) /\ uid[t] \in Uid
    BY <1>1, <1>10 DEF Alone, made
  <2>2. home[t] \in Worker
    BY <2>1 DEF IInv, Tables, TableJoined, Housed, Registered
  <2> QED BY <1>5, <2>1, <2>2 DEF IInv, Tables, Polled
<1> QED BY <1>6, <1>7, <1>8, <1>9, <1>11, <1>12 DEF IInv, Tables

(* A worker runs or erases a session: no other of its key on its worker.   *)
LEMMA WorkerIInv ==
  ASSUME IInv, NEW s \in Session, Insert(s) \/ Erase(s)
  PROVE  IInv'
<1>1. PICK what \in {"run", "erase"} :
        /\ WorkerTakes(what, s)
        /\ running' = [running EXCEPT ![home[s]][uid[s]] = IF what = "run" THEN s ELSE None]
        /\ UNCHANGED <<phase, made, uid, timer, flags, loops, preSessions, sessions, mainTasks>>
  BY DEF Insert, Erase
<1>2. /\ home[s] \in Worker /\ phase[s] = "joined" /\ uid[s] \in Uid
      /\ workTasks' \in [Worker -> Seq(WorkTask)]
      /\ \E i \in DOMAIN workTasks[home[s]] : workTasks[home[s]][i] = Do(what, s)
      /\ \A w \in Worker : \A i \in DOMAIN workTasks'[w] :
           \E j \in DOMAIN workTasks[w] : workTasks'[w][i] = workTasks[w][j]
      /\ \A w \in Worker : \A i \in DOMAIN workTasks[w] :
           \/ workTasks[w][i] = Do(what, s)
           \/ \E j \in DOMAIN workTasks'[w] : workTasks'[w][j] = workTasks[w][i]
  BY <1>1, WorkTaken
<1>3. TypeOK'
  <2>1. running' \in [Worker -> [Uid -> Session \cup {None}]]
    BY <1>1, <1>2 DEF IInv, TypeOK
  <2> QED BY <1>1, <1>2, <2>1 DEF IInv, TypeOK, WorkTask, made, flags
<1>4. Keyless' /\ Housed' /\ PreWaits' /\ RemovingJoined'
  BY <1>1 DEF IInv, Keyless, Housed, PreWaits, RemovingJoined, made, flags
<1>5. Queues'
  BY <1>1 DEF IInv, Queues, MainPhases, AddsOnce, JoiningIsQueued, Do
<1>6. TableJoined' /\ WorkJoined' /\ NotErased'
  <2>1. TableJoined'
    BY <1>1 DEF IInv, Tables, TableJoined
  <2>2. WorkJoined'
    BY <1>1, <1>2 DEF IInv, Tables, WorkJoined
  <2>3. NotErased'
    <3> SUFFICES ASSUME NEW t \in Session, Registered(t), NEW w \in Worker,
                        NEW i \in DOMAIN workTasks'[w]
                 PROVE  workTasks'[w][i] # Do("erase", t)
      BY <1>1 DEF NotErased, Registered, Do
    <3>1. PICK j \in DOMAIN workTasks[w] : workTasks'[w][i] = workTasks[w][j]
      BY <1>2
    <3> QED BY <3>1 DEF IInv, Tables, NotErased
  <2> QED BY <2>1, <2>2, <2>3
<1>7. Polled'
  <2> SUFFICES ASSUME NEW t \in Session, Registered(t), Alone(t)
               PROVE  \/ phase[t] = "joined" /\ running'[home[t]][uid[t]] = t
                      \/ \E i \in DOMAIN workTasks'[home[t]] : workTasks'[home[t]][i] = Do("run", t)
    BY <1>1 DEF Polled, Runs, Registered, Alone, Do, made
  <2>1. uid[t] \in Uid /\ phase[t] = "joined" /\ home[t] \in Worker
    BY DEF IInv, TypeOK, Tables, TableJoined, Housed, Registered
  <2>2. CASE t = s
    <3>1. what = "run"
      BY <1>2, <2>2 DEF IInv, Tables, NotErased
    <3> QED BY <1>1, <1>2, <2>1, <2>2, <3>1 DEF IInv, TypeOK
  <2>3. CASE t # s
    <3>1. Runs(t) \/ \E i \in DOMAIN workTasks[home[t]] : workTasks[home[t]][i] = Do("run", t)
      BY DEF IInv, Tables, Polled
    <3>2. CASE Runs(t)
      <4>1. home[t] # home[s] \/ uid[t] # uid[s]
        BY <2>3 DEF Alone
      <4>2. running'[home[t]][uid[t]] = running[home[t]][uid[t]]
        BY <1>1, <1>2, <2>1, <4>1 DEF IInv, TypeOK
      <4> QED BY <2>1, <3>2, <4>2 DEF Runs
    <3>3. CASE \E i \in DOMAIN workTasks[home[t]] : workTasks[home[t]][i] = Do("run", t)
      BY <1>2, <2>1, <2>3, <3>3 DEF Do
    <3> QED BY <3>1, <3>2, <3>3
  <2> QED BY <2>2, <2>3
<1> QED BY <1>3, <1>4, <1>5, <1>6, <1>7 DEF IInv, Tables

LEMMA NextIInv == IInv /\ [Next]_vars => IInv'
<1> SUFFICES ASSUME IInv, [Next]_vars PROVE IInv'
  OBVIOUS
<1>1. ASSUME NEW s \in Session, NEW e \in Endpoint, Connect(s, e) PROVE IInv'
  BY <1>1, ConnectIInv
<1>2. ASSUME NEW s \in Session,
             GreetingSent(s) \/ TimerRuns(s) \/ FallsSilent(s) \/ DoReadRemoves(s)
      PROVE  IInv'
  BY <1>2, GreetingIInv, IdleIInv
<1>3. ASSUME NEW s \in Session, WorkerStep(s) PROVE IInv'
  BY <1>3, WorkerIInv, RemovePostedIInv DEF WorkerStep
<1>4. ASSUME NEW e \in Endpoint, NEW u \in Uid, Answer(e, u) PROVE IInv'
  BY <1>4, AnswerIInv
<1>5. CASE PureUdpTooLong
  <2>1. UNCHANGED <<phase, made, uid, sessions, running, mainTasks, workTasks, removing, preSessions>>
    BY <1>5 DEF PureUdpTooLong, flags
  <2>2. loops' \in 0 .. Loops
    BY <1>5 DEF PureUdpTooLong, IInv, TypeOK
  <2>3. TypeOK'
    BY <1>5, <2>2 DEF PureUdpTooLong, IInv, TypeOK, made, flags
  <2>4. Keyless' /\ Housed' /\ PreWaits' /\ RemovingJoined'
    BY <2>1 DEF IInv, Keyless, Housed, PreWaits, RemovingJoined, made
  <2>5. Queues' /\ Tables'
    BY <2>1, Aside DEF made
  <2> QED BY <2>3, <2>4, <2>5 DEF IInv
<1>6. CASE MainStep
  BY <1>6, AddSessionIInv, RemoveSelfIInv DEF MainStep
<1>7. CASE UNCHANGED vars
  <2>1. UNCHANGED <<phase, made, uid, timer, flags, loops, preSessions, sessions, running,
                    mainTasks, workTasks>>
    BY <1>7 DEF vars, made, flags
  <2>2. TypeOK'
    BY <2>1 DEF IInv, TypeOK, made, flags
  <2>3. Keyless' /\ Housed' /\ PreWaits' /\ RemovingJoined'
    BY <2>1 DEF IInv, Keyless, Housed, PreWaits, RemovingJoined, made, flags
  <2>4. Queues' /\ Tables'
    BY <2>1, Aside DEF made
  <2> QED BY <2>2, <2>3, <2>4 DEF IInv
<1> QED BY <1>1, <1>2, <1>3, <1>4, <1>5, <1>6, <1>7 DEF Next

-----------------------------------------------------------------------------
(* The invariant holds. *)
THEOREM KcpInvariant == Spec => []IInv
BY InitIInv, NextIInv, PTL DEF Spec

(* The server's variables keep their types, and only sessions with a key   *)
(* join.                                                                   *)
THEOREM KcpTypeCorrect == Spec => []TypeOK
<1>1. IInv => TypeOK
  BY DEF IInv
<1> QED BY <1>1, KcpInvariant, PTL

(* A session joins at most once, however answers are repeated or late.     *)
THEOREM KcpJoinsOnce == Spec => []JoinsOnce
<1>1. IInv => JoinsOnce
  <2> SUFFICES ASSUME IInv, NEW s \in Session
               PROVE  /\ \A i, j \in Queued(mainTasks, "add", s) : i = j
                      /\ Queued(mainTasks, "add", s) # {} <=> phase[s] = "joining"
                      /\ phase[s] \in {"joining", "joined"} =>
                           \A e \in Endpoint : preSessions[e] # s
    BY DEF JoinsOnce
  <2>1. \A i, j \in Queued(mainTasks, "add", s) : i = j
    BY DEF Queued, Do, IInv, Queues, AddsOnce
  <2>2. Queued(mainTasks, "add", s) # {} => phase[s] = "joining"
    BY DEF Queued, Do, IInv, Queues, MainPhases
  <2>3. phase[s] = "joining" => Queued(mainTasks, "add", s) # {}
    BY DEF Queued, IInv, Queues, JoiningIsQueued
  <2>4. phase[s] \in {"joining", "joined"} => \A e \in Endpoint : preSessions[e] # s
    BY DEF IInv, PreWaits
  <2> QED BY <2>1, <2>2, <2>3, <2>4
<1> QED BY <1>1, KcpInvariant, PTL

(* A session in m_sessions is polled by its worker, or about to be, if no  *)
(* other session of its client has that worker.                            *)
THEOREM KcpKnownIsPolled == Spec => []KnownIsPolled
<1>1. IInv => KnownIsPolled
  BY DEF KnownIsPolled, Queued, IInv, Tables, Polled
<1> QED BY <1>1, KcpInvariant, PTL

-----------------------------------------------------------------------------
(* The client, its streams and time leave the server's variables alone.    *)
LEMMA ClientLeavesServer ==
  ASSUME \/ ConnectC \/ ArmTimerC \/ UserCloses \/ Client \/ Tick
         \/ \E d \in wire : Greeted(d.hash)
         \/ \E m \in Message : ClientSends(m)
  PROVE  UNCHANGED vars
<1>1. CASE ConnectC \/ ArmTimerC \/ UserCloses \/ Tick
  BY <1>1 DEF ConnectC, ArmTimerC, UserCloses, Tick
<1>2. CASE Client
  BY <1>2 DEF Client, TimerRunsC, WaitFailsC, HandleMessageC, ClientPolls, ClientReceives
<1>3. CASE \E d \in wire : Greeted(d.hash)
  BY <1>3 DEF Greeted
<1>4. CASE \E m \in Message : ClientSends(m)
  BY <1>4 DEF ClientSends
<1> QED BY <1>1, <1>2, <1>3, <1>4

(* The server's datagrams, polls and closures are steps of the server.     *)
LEMMA DatagramSteps ==
  ASSUME \/ \E s \in Session, e \in Endpoint : ServerConnect(s, e)
         \/ \E d \in wire, e \in Endpoint, u \in Uid : ServerAnswered(e, u, d.hash)
  PROVE  [Next]_vars
<1>1. CASE \E s \in Session, e \in Endpoint : ServerConnect(s, e)
  BY <1>1 DEF ServerConnect, Next
<1>2. CASE \E d \in wire, e \in Endpoint, u \in Uid : ServerAnswered(e, u, d.hash)
  BY <1>2 DEF ServerAnswered, Next
<1> QED BY <1>1, <1>2

LEMMA ServerSteps ==
  ASSUME NEW s \in Session, Server(s)
  PROVE  [Next]_vars
<1>1. CASE ServerGreeted(s) \/ ServerTimer(s) \/ ServerInserts(s)
  BY <1>1 DEF ServerGreeted, ServerTimer, ServerInserts, Next, WorkerStep
<1>2. CASE ServerPolls(s)
  BY <1>2 DEF ServerPolls, Next
<1>3. CASE HandleOrSend(s) \/ ServerReceives(s)
  BY <1>3 DEF HandleOrSend, ServerReceives
<1> QED BY <1>1, <1>2, <1>3 DEF Server

LEMMA InsideSteps ==
  ASSUME ServerInside \/ PureArrives
  PROVE  [Next]_vars
<1>1. CASE ServerInside
  BY <1>1 DEF ServerInside, Next, WorkerStep
<1>2. CASE PureArrives
  BY <1>2 DEF PureArrives, PureHandled, PureTooLong, Next
<1> QED BY <1>1, <1>2

(* The composition implements the server alone.                            *)
THEOREM KcpLinkImplementsServer == SpecLink => Spec
<1>1. InitLink => Init
  BY DEF InitLink
<1>2. [NextLink]_linkVars => [Next]_vars
  <2>1. ASSUME UNCHANGED linkVars PROVE UNCHANGED vars
    BY <2>1 DEF linkVars
  <2> QED BY <2>1, ClientLeavesServer, DatagramSteps, ServerSteps, InsideSteps
       DEF NextLink, Arrival
<1> QED BY <1>1, <1>2, PTL DEF SpecLink, Spec

(* However the network repeats, delays and loses datagrams, a session      *)
(* joins at most once ...                                                  *)
THEOREM KcpLinkJoinsOnce == SpecLink => []JoinsOnce
BY KcpLinkImplementsServer, KcpJoinsOnce, PTL

(* ... and one that m_sessions knows is polled, if its worker has no other *)
(* session of its client.                                                  *)
THEOREM KcpLinkKnownIsPolled == SpecLink => []KnownIsPolled
BY KcpLinkImplementsServer, KcpKnownIsPolled, PTL

-----------------------------------------------------------------------------
(***************************************************************************)
(* The ordered channel from the client's sendMessage to the server's       *)
(* handlers.  What was accepted and not delivered is in the inbox of the   *)
(* client's session and in the ikcp's queue, in this order, between pings  *)
(* and answers to them.                                                    *)
(***************************************************************************)
Control == {"READY", "REQ", "ACK"}
Word == Message \cup Control

(* Of a[lo + 1], ..., a[hi], queue q carries each once and in order; f[i]  *)
(* is how far its first i words go.                                        *)
Carries(a, q, lo, hi) ==
  \E f \in [0 .. Len(q) -> Nat] :
    /\ f[0] = lo /\ f[Len(q)] = hi
    /\ \A i, j \in 0 .. Len(q) : i <= j => f[i] <= f[j]
    /\ \A i \in 1 .. Len(q) :
         IF q[i] \in Message THEN f[i] = f[i-1] + 1 /\ a[f[i]] = q[i] ELSE f[i] = f[i-1]

Broken == peer # None /\ closed[peer]

ChannelTypes ==
  /\ accepted \in Seq(Message) /\ delivered \in Seq(Message)
  /\ up \in Seq(Word) /\ inbox \in [Session -> Seq(Word)]
  /\ peer \in Session \cup {None}

(* Only the session the client's ikcp talks to is given messages. *)
Foreign ==
  \A s \in Session : s # peer => \A i \in 1 .. Len(inbox[s]) : inbox[s][i] \notin Message

Flow ==
  ~Broken =>
    /\ Len(delivered) <= Len(accepted)
    /\ \A i \in 1 .. Len(delivered) : delivered[i] = accepted[i]
    /\ \E k \in Nat :
         /\ IF peer = None THEN k = Len(delivered) ELSE Carries(accepted, inbox[peer], Len(delivered), k)
         /\ Carries(accepted, up, k, Len(accepted))

ChannelInv == ChannelTypes /\ Foreign /\ Flow

-----------------------------------------------------------------------------
(* Queues that carry messages                                              *)

LEMMA CarriesNothing ==
  ASSUME NEW a, NEW q \in Seq(Word), NEW k \in Nat,
         \A i \in 1 .. Len(q) : q[i] \notin Message
  PROVE  Carries(a, q, k, k)
<1> DEFINE f == [i \in 0 .. Len(q) |-> k]
<1>1. Len(q) \in Nat
  BY LenProperties
<1>2. /\ f \in [0 .. Len(q) -> Nat] /\ f[0] = k /\ f[Len(q)] = k
      /\ \A i, j \in 0 .. Len(q) : i <= j => f[i] <= f[j]
      /\ \A i \in 1 .. Len(q) : f[i] = f[i-1]
  BY <1>1
<1> HIDE DEF f
<1> QED BY <1>2 DEF Carries

LEMMA CarriesWithin ==
  ASSUME NEW a, NEW q \in Seq(Word), NEW lo \in Nat, NEW hi \in Nat, Carries(a, q, lo, hi)
  PROVE  lo <= hi
<1>1. PICK f \in [0 .. Len(q) -> Nat] :
        /\ f[0] = lo /\ f[Len(q)] = hi
        /\ \A i, j \in 0 .. Len(q) : i <= j => f[i] <= f[j]
  BY DEF Carries
<1>2. 0 \in 0 .. Len(q) /\ Len(q) \in 0 .. Len(q) /\ 0 <= Len(q)
  BY LenProperties
<1> QED BY <1>1, <1>2

(* What more is accepted does not matter to it. *)
LEMMA CarriesLonger ==
  ASSUME NEW a \in Seq(Message), NEW b \in Seq(Message), NEW q \in Seq(Word),
         NEW lo \in Nat, NEW hi \in 0 .. Len(a),
         \A i \in 1 .. Len(a) : b[i] = a[i],
         Carries(a, q, lo, hi)
  PROVE  Carries(b, q, lo, hi)
<1>1. PICK f \in [0 .. Len(q) -> Nat] :
        /\ f[0] = lo /\ f[Len(q)] = hi
        /\ \A i, j \in 0 .. Len(q) : i <= j => f[i] <= f[j]
        /\ \A i \in 1 .. Len(q) :
             IF q[i] \in Message THEN f[i] = f[i-1] + 1 /\ a[f[i]] = q[i] ELSE f[i] = f[i-1]
  BY DEF Carries
<1>2. Len(q) \in Nat /\ Len(a) \in Nat
  BY LenProperties
<1>3. ASSUME NEW i \in 1 .. Len(q), q[i] \in Message
      PROVE  b[f[i]] = q[i]
  <2>1. /\ i \in 0 .. Len(q) /\ i - 1 \in 0 .. Len(q) /\ Len(q) \in 0 .. Len(q) /\ i <= Len(q)
    BY <1>2
  <2>2. f[i] \in Nat /\ f[i-1] \in Nat /\ f[i] <= hi
    BY <1>1, <2>1
  <2>3. f[i] = f[i-1] + 1 /\ a[f[i]] = q[i]
    BY <1>1, <1>3
  <2>4. f[i] \in 1 .. Len(a)
    BY <1>2, <2>2, <2>3
  <2> QED BY <2>3, <2>4
<1> QED BY <1>1, <1>3 DEF Carries

(* A word joins the queue: the next message, or one that is none. *)
LEMMA CarriesAppend ==
  ASSUME NEW a, NEW q \in Seq(Word), NEW lo \in Nat, NEW hi \in Nat, Carries(a, q, lo, hi),
         NEW m \in Word, NEW n \in Nat,
         IF m \in Message THEN n = hi + 1 /\ a[n] = m ELSE n = hi
  PROVE  Carries(a, Append(q, m), lo, n)
<1>1. PICK f \in [0 .. Len(q) -> Nat] :
        /\ f[0] = lo /\ f[Len(q)] = hi
        /\ \A i, j \in 0 .. Len(q) : i <= j => f[i] <= f[j]
        /\ \A i \in 1 .. Len(q) :
             IF q[i] \in Message THEN f[i] = f[i-1] + 1 /\ a[f[i]] = q[i] ELSE f[i] = f[i-1]
  BY DEF Carries
<1> DEFINE p == Append(q, m)
           g == [i \in 0 .. Len(q) + 1 |-> IF i = Len(q) + 1 THEN n ELSE f[i]]
<1>2. /\ Len(q) \in Nat /\ Len(p) = Len(q) + 1 /\ p[Len(q) + 1] = m
      /\ \A i \in 1 .. Len(q) : p[i] = q[i]
  BY LenProperties, AppendProperties
<1> HIDE DEF p
<1>3. /\ g \in [0 .. Len(q) + 1 -> Nat]
      /\ g[Len(q) + 1] = n
      /\ \A i \in 0 .. Len(q) : g[i] = f[i] /\ f[i] \in Nat
  <2>1. \A i \in 0 .. Len(q) + 1 : i # Len(q) + 1 => i \in 0 .. Len(q)
    BY <1>2
  <2>2. \A i \in 0 .. Len(q) : f[i] \in Nat
    BY <1>1
  <2>3. \A i \in 0 .. Len(q) : i \in 0 .. Len(q) + 1 /\ i # Len(q) + 1
    BY <1>2
  <2>4. Len(q) + 1 \in 0 .. Len(q) + 1
    BY <1>2
  <2> QED BY <2>1, <2>2, <2>3, <2>4
<1> HIDE DEF g
<1>4. hi <= n /\ \A i \in 0 .. Len(q) : f[i] <= hi
  BY <1>1, <1>2
<1>5. ASSUME NEW i \in 0 .. Len(q) + 1, NEW j \in 0 .. Len(q) + 1, i <= j
      PROVE  g[i] <= g[j]
  <2>1. CASE j = Len(q) + 1 /\ i = Len(q) + 1
    BY <1>3, <2>1
  <2>2. CASE j = Len(q) + 1 /\ i # Len(q) + 1
    <3>1. i \in 0 .. Len(q)
      BY <1>2, <2>2
    <3>2. g[i] = f[i] /\ f[i] \in Nat /\ f[i] <= hi /\ g[j] = n
      BY <1>3, <1>4, <2>2, <3>1
    <3> QED BY <1>4, <3>2
  <2>3. CASE j # Len(q) + 1
    <3>1. i \in 0 .. Len(q) /\ j \in 0 .. Len(q)
      BY <1>2, <1>5, <2>3
    <3> QED BY <1>1, <1>3, <1>5, <3>1
  <2> QED BY <2>1, <2>2, <2>3
<1>6. ASSUME NEW i \in 1 .. Len(q) + 1
      PROVE  IF p[i] \in Message THEN g[i] = g[i-1] + 1 /\ a[g[i]] = p[i] ELSE g[i] = g[i-1]
  <2>1. CASE i = Len(q) + 1
    <3>1. i - 1 = Len(q) /\ Len(q) \in 0 .. Len(q)
      BY <1>2, <2>1
    <3>2. g[i-1] = hi /\ g[i] = n /\ p[i] = m
      BY <1>1, <1>2, <1>3, <2>1, <3>1
    <3> QED BY <3>2
  <2>2. CASE i # Len(q) + 1
    <3>1. i \in 1 .. Len(q) /\ i \in 0 .. Len(q) /\ i - 1 \in 0 .. Len(q)
      BY <1>2, <2>2
    <3>2. g[i] = f[i] /\ g[i-1] = f[i-1] /\ p[i] = q[i]
      BY <1>2, <1>3, <3>1
    <3> QED BY <1>1, <3>1, <3>2
  <2> QED BY <2>1, <2>2
<1>7. g[0] = lo /\ g[Len(p)] = n /\ g \in [0 .. Len(p) -> Nat]
  BY <1>1, <1>2, <1>3
<1>8. Carries(a, p, lo, n)
  BY <1>2, <1>5, <1>6, <1>7 DEF Carries
<1> QED BY <1>8 DEF p

(* Its first word leaves it. *)
LEMMA CarriesTail ==
  ASSUME NEW a, NEW q \in Seq(Word), NEW lo \in Nat, NEW hi \in Nat, Carries(a, q, lo, hi),
         q # <<>>
  PROVE  \E n \in Nat :
           /\ IF Head(q) \in Message THEN n = lo + 1 /\ a[n] = Head(q) ELSE n = lo
           /\ Carries(a, Tail(q), n, hi)
<1>1. PICK f \in [0 .. Len(q) -> Nat] :
        /\ f[0] = lo /\ f[Len(q)] = hi
        /\ \A i, j \in 0 .. Len(q) : i <= j => f[i] <= f[j]
        /\ \A i \in 1 .. Len(q) :
             IF q[i] \in Message THEN f[i] = f[i-1] + 1 /\ a[f[i]] = q[i] ELSE f[i] = f[i-1]
  BY DEF Carries
<1> DEFINE p == Tail(q)
           g == [i \in 0 .. Len(q) - 1 |-> f[i+1]]
<1>2. /\ Len(q) \in Nat \ {0} /\ Len(p) = Len(q) - 1 /\ Head(q) = q[1]
      /\ \A i \in 1 .. Len(p) : p[i] = q[i+1]
  <2>1. Len(q) \in Nat \ {0}
    BY EmptySeq
  <2>2. Len(p) = Len(q) - 1 /\ \A i \in 1 .. Len(p) : p[i] = q[i+1]
    BY HeadTailProperties
  <2> QED BY <2>1, <2>2
<1> HIDE DEF p
<1>3. \A i \in 0 .. Len(q) - 1 : i + 1 \in 0 .. Len(q) /\ g[i] = f[i+1] /\ f[i+1] \in Nat
  <2>1. \A i \in 0 .. Len(q) - 1 : i + 1 \in 0 .. Len(q)
    BY <1>2
  <2> QED BY <1>1, <2>1
<1>4. g \in [0 .. Len(q) - 1 -> Nat]
  BY <1>3
<1> HIDE DEF g
<1>5. ASSUME NEW i \in 0 .. Len(q) - 1, NEW j \in 0 .. Len(q) - 1, i <= j
      PROVE  g[i] <= g[j]
  <2>1. i + 1 <= j + 1
    BY <1>2, <1>5
  <2> QED BY <1>1, <1>3, <2>1
<1>6. ASSUME NEW i \in 1 .. Len(q) - 1
      PROVE  IF p[i] \in Message THEN g[i] = g[i-1] + 1 /\ a[g[i]] = p[i] ELSE g[i] = g[i-1]
  <2>1. /\ i \in 0 .. Len(q) - 1 /\ i - 1 \in 0 .. Len(q) - 1 /\ i + 1 \in 1 .. Len(q)
        /\ (i - 1) + 1 = i /\ (i + 1) - 1 = i
    BY <1>2
  <2>2. g[i] = f[i+1] /\ g[i-1] = f[i] /\ p[i] = q[i+1]
    BY <1>2, <1>3, <2>1
  <2>3. IF q[i+1] \in Message THEN f[i+1] = f[(i+1)-1] + 1 /\ a[f[i+1]] = q[i+1]
                              ELSE f[i+1] = f[(i+1)-1]
    BY <1>1, <2>1
  <2> QED BY <2>1, <2>2, <2>3
<1>7. 0 \in 0 .. Len(q) - 1 /\ Len(q) - 1 \in 0 .. Len(q) - 1 /\ (Len(q) - 1) + 1 = Len(q)
      /\ 0 + 1 = 1 /\ 1 - 1 = 0 /\ 1 \in 1 .. Len(q)
  BY <1>2
<1>8. g[0] = f[1] /\ g[Len(q) - 1] = hi /\ f[1] \in Nat
  BY <1>1, <1>3, <1>7
<1>9. IF q[1] \in Message THEN f[1] = lo + 1 /\ a[f[1]] = q[1] ELSE f[1] = lo
  BY <1>1, <1>7
<1>10. Carries(a, p, f[1], hi)
  BY <1>2, <1>4, <1>5, <1>6, <1>8 DEF Carries
<1> QED BY <1>2, <1>8, <1>9, <1>10 DEF p

(* One of the user's messages is none of the words of the link itself. *)
LEMMA Apart == Control \cap Message = {} /\ Control \subseteq Word /\ Message \subseteq Word
BY MessageAssumption DEF Control, Word

(* A word is queued, unless it is a ping, or an answer, behind another. *)
LEMMA QueueIs ==
  ASSUME NEW q \in Seq(Word), NEW m \in Word
  PROVE  /\ Queue(q, m) \in Seq(Word)
         /\ Queue(q, m) = Append(q, m) \/ (m \in Control /\ Queue(q, m) = q)
<1>1. Append(q, m) \in Seq(Word)
  BY AppendProperties
<1>2. Queue(q, m) = Append(q, m) \/ (m \in Control /\ Queue(q, m) = q)
  <2>1. CASE m \in {"REQ", "ACK"} /\ q # <<>> /\ Last(q) = m
    BY <2>1 DEF Queue, Control
  <2>2. CASE ~(m \in {"REQ", "ACK"} /\ q # <<>> /\ Last(q) = m)
    BY <2>2 DEF Queue
  <2> QED BY <2>1, <2>2
<1> QED BY <1>1, <1>2

LEMMA AppendControl ==
  ASSUME NEW a, NEW q \in Seq(Word), NEW lo \in Nat, NEW hi \in Nat, Carries(a, q, lo, hi),
         NEW m \in Control
  PROVE  Carries(a, Append(q, m), lo, hi)
<1>1. m \in Word /\ IF m \in Message THEN hi = hi + 1 /\ a[hi] = m ELSE hi = hi
  BY Apart
<1> QED BY <1>1, CarriesAppend

LEMMA QueueControl ==
  ASSUME NEW a, NEW q \in Seq(Word), NEW lo \in Nat, NEW hi \in Nat, Carries(a, q, lo, hi),
         NEW m \in Control
  PROVE  Carries(a, Queue(q, m), lo, hi)
<1>1. m \in Word
  BY Apart
<1>2. Carries(a, Append(q, m), lo, hi)
  BY AppendControl
<1>3. Queue(q, m) = Append(q, m) \/ Queue(q, m) = q
  BY <1>1, QueueIs
<1> QED BY <1>2, <1>3

(* What is queued without messages has none. *)
LEMMA AppendNone ==
  ASSUME NEW q \in Seq(Word), NEW m \in Word, m \notin Message,
         \A i \in 1 .. Len(q) : q[i] \notin Message
  PROVE  \A i \in 1 .. Len(Append(q, m)) : Append(q, m)[i] \notin Message
<1>1. /\ Len(Append(q, m)) = Len(q) + 1 /\ Len(q) \in Nat
      /\ \A i \in 1 .. Len(q) : Append(q, m)[i] = q[i]
      /\ Append(q, m)[Len(q) + 1] = m
  BY AppendProperties, LenProperties
<1>2. \A i \in 1 .. Len(q) + 1 : i \in 1 .. Len(q) \/ i = Len(q) + 1
  BY <1>1
<1> QED BY <1>1, <1>2

LEMMA TailNone ==
  ASSUME NEW q \in Seq(Word), q # <<>>,
         \A i \in 1 .. Len(q) : q[i] \notin Message
  PROVE  /\ Head(q) \notin Message
         /\ \A i \in 1 .. Len(Tail(q)) : Tail(q)[i] \notin Message
<1>1. /\ Len(Tail(q)) = Len(q) - 1 /\ Len(q) \in Nat \ {0} /\ Head(q) = q[1]
      /\ \A i \in 1 .. Len(Tail(q)) : Tail(q)[i] = q[i+1]
  BY HeadTailProperties, EmptySeq
<1>2. 1 \in 1 .. Len(q) /\ \A i \in 1 .. Len(q) - 1 : i + 1 \in 1 .. Len(q)
  BY <1>1
<1> QED BY <1>1, <1>2

-----------------------------------------------------------------------------
(* The steps that accept, move and deliver messages                        *)

LEMMA InitChannel == InitLink => ChannelInv
<1> SUFFICES ASSUME InitLink PROVE ChannelInv
  OBVIOUS
<1>1. /\ accepted = <<>> /\ delivered = <<>> /\ up = <<>> /\ peer = None
      /\ inbox = [s \in Session |-> <<>>]
  BY DEF InitLink
<1>2. <<>> \in Seq(Word) /\ <<>> \in Seq(Message) /\ Len(<<>>) = 0
  BY EmptySeq
<1>3. ChannelTypes
  BY <1>1, <1>2 DEF ChannelTypes
<1>4. Foreign
  BY <1>1, <1>2 DEF Foreign
<1>5. Carries(accepted, up, 0, 0)
  <2>1. 0 \in Nat /\ up \in Seq(Word) /\ \A i \in 1 .. Len(up) : up[i] \notin Message
    BY <1>1, <1>2
  <2> QED BY <2>1, CarriesNothing
<1>6. Flow
  BY <1>1, <1>2, <1>5 DEF Flow
<1> QED BY <1>3, <1>4, <1>6 DEF ChannelInv

(* Where messages are that were accepted and not delivered, if the client  *)
(* talks to s or has not talked yet.                                       *)
LEMMA Carried ==
  ASSUME ChannelInv, NEW s \in Session, peer \in {None, s}, ~Broken
  PROVE  /\ Len(delivered) \in Nat /\ Len(accepted) \in Nat /\ Len(delivered) <= Len(accepted)
         /\ \A i \in 1 .. Len(delivered) : delivered[i] = accepted[i]
         /\ \E k \in Nat : /\ Carries(accepted, inbox[s], Len(delivered), k)
                           /\ Carries(accepted, up, k, Len(accepted))
<1>1. Len(delivered) \in Nat /\ Len(accepted) \in Nat /\ inbox[s] \in Seq(Word)
  BY LenProperties DEF ChannelInv, ChannelTypes
<1>2. /\ Len(delivered) <= Len(accepted)
      /\ \A i \in 1 .. Len(delivered) : delivered[i] = accepted[i]
  BY DEF ChannelInv, Flow
<1>3. PICK k \in Nat :
        /\ IF peer = None THEN k = Len(delivered) ELSE Carries(accepted, inbox[peer], Len(delivered), k)
        /\ Carries(accepted, up, k, Len(accepted))
  BY DEF ChannelInv, Flow
<1>4. Carries(accepted, inbox[s], Len(delivered), k)
  <2>1. CASE peer = None
    <3>1. \A i \in 1 .. Len(inbox[s]) : inbox[s][i] \notin Message
      BY <2>1 DEF ChannelInv, Foreign
    <3> QED BY <1>1, <1>3, <2>1, <3>1, CarriesNothing
  <2>2. CASE peer = s /\ peer # None
    BY <1>3, <2>2
  <2> QED BY <2>1, <2>2
<1> QED BY <1>1, <1>2, <1>3, <1>4

(* Closed sessions stay closed. *)
LEMMA ClosedStays ==
  ASSUME IInv, [Next]_vars, NEW s \in Session, closed[s]
  PROVE  closed'[s]
<1>0. closed \in [Session -> BOOLEAN]
  BY DEF IInv, TypeOK
<1>1. ASSUME NEW old, Close(old) PROVE closed'[s]
  BY <1>0, <1>1 DEF Close
<1>2. CASE MainStep
  BY <1>1, <1>2 DEF MainStep, AddSession, RemoveSelfImpl
<1>3. CASE UNCHANGED closed
  BY <1>3
<1>4. [Next]_vars => MainStep \/ UNCHANGED closed
  BY DEF Next, vars, flags, Connect, GreetingSent, TimerRuns, FallsSilent, DoReadRemoves, WorkerStep,
     Insert, Erase, RemovePosted, Answer, PureUdpTooLong
<1> QED BY <1>2, <1>3, <1>4

(* Pings, answers and READY join the queues; nothing else happens.         *)
LEMMA Chatter ==
  ASSUME ChannelInv, UNCHANGED <<accepted, delivered, peer>>,
         \A s \in Session : closed[s] => closed'[s],
         inbox' \in [Session -> Seq(Word)],
         \A s \in Session : \/ inbox'[s] = inbox[s]
                            \/ \E m \in Control : inbox'[s] = Append(inbox[s], m),
         up' = up \/ \E m \in Control : up' = Append(up, m)
  PROVE  ChannelInv'
<1>1. Control \subseteq Word /\ \A m \in Control : m \notin Message
  BY Apart
<1>2. ChannelTypes'
  <2>1. up \in Seq(Word) /\ \A m \in Control : m \in Word
    BY <1>1 DEF ChannelInv, ChannelTypes
  <2>2. up' \in Seq(Word)
    BY <2>1, AppendProperties
  <2> QED BY <2>2 DEF ChannelInv, ChannelTypes
<1>3. Foreign'
  <2> SUFFICES ASSUME NEW s \in Session, s # peer
               PROVE  \A i \in 1 .. Len(inbox'[s]) : inbox'[s][i] \notin Message
    BY DEF Foreign
  <2>1. inbox[s] \in Seq(Word) /\ \A i \in 1 .. Len(inbox[s]) : inbox[s][i] \notin Message
    BY DEF ChannelInv, ChannelTypes, Foreign
  <2> QED BY <1>1, <2>1, AppendNone
<1>4. Flow'
  <2> SUFFICES ASSUME ~Broken'
               PROVE  /\ Len(delivered) <= Len(accepted)
                      /\ \A i \in 1 .. Len(delivered) : delivered[i] = accepted[i]
                      /\ \E k \in Nat :
                           /\ IF peer = None THEN k = Len(delivered)
                              ELSE Carries(accepted, inbox'[peer], Len(delivered), k)
                           /\ Carries(accepted, up', k, Len(accepted))
    BY DEF Flow
  <2>1. ~Broken
    BY DEF Broken, ChannelInv, ChannelTypes
  <2>2. PICK k \in Nat :
          /\ IF peer = None THEN k = Len(delivered) ELSE Carries(accepted, inbox[peer], Len(delivered), k)
          /\ Carries(accepted, up, k, Len(accepted))
    BY <2>1 DEF ChannelInv, Flow
  <2>3. Len(delivered) \in Nat /\ Len(accepted) \in Nat /\ up \in Seq(Word)
    BY LenProperties DEF ChannelInv, ChannelTypes
  <2>4. Carries(accepted, up', k, Len(accepted))
    <3>1. ASSUME NEW m \in Control PROVE Carries(accepted, Append(up, m), k, Len(accepted))
      BY <2>2, <2>3, AppendControl
    <3> QED BY <2>2, <3>1
  <2>5. ASSUME peer # None PROVE Carries(accepted, inbox'[peer], Len(delivered), k)
    <3>1. peer \in Session /\ inbox[peer] \in Seq(Word)
      BY <2>5 DEF ChannelInv, ChannelTypes
    <3>2. Carries(accepted, inbox[peer], Len(delivered), k)
      BY <2>2, <2>5
    <3>3. inbox'[peer] = inbox[peer] \/ \E m \in Control : inbox'[peer] = Append(inbox[peer], m)
      BY <3>1
    <3>4. ASSUME NEW m \in Control
          PROVE  Carries(accepted, Append(inbox[peer], m), Len(delivered), k)
      BY <2>2, <2>3, <3>1, <3>2, AppendControl
    <3> QED BY <3>2, <3>3, <3>4
  <2>6. /\ Len(delivered) <= Len(accepted)
        /\ \A i \in 1 .. Len(delivered) : delivered[i] = accepted[i]
    BY <2>1 DEF ChannelInv, Flow
  <2> QED BY <2>2, <2>4, <2>5, <2>6
<1> QED BY <1>2, <1>3, <1>4 DEF ChannelInv

(* The client's user sends. *)
LEMMA SendsChannel ==
  ASSUME ChannelInv, NEW m \in Message, ClientSends(m)
  PROVE  ChannelInv'
<1>1. accepted' = Append(accepted, m) /\ UNCHANGED <<delivered, inbox, peer, closed>>
  BY DEF ClientSends, polling, vars, flags
<1>2. up' = Append(up, m)
  BY Apart, QueueIs DEF ClientSends, ChannelInv, ChannelTypes
<1>3. m \in Word /\ accepted \in Seq(Message) /\ up \in Seq(Word) /\ delivered \in Seq(Message)
  BY Apart DEF ChannelInv, ChannelTypes
<1>4. /\ accepted' \in Seq(Message) /\ Len(accepted') = Len(accepted) + 1
      /\ \A i \in 1 .. Len(accepted) : accepted'[i] = accepted[i]
      /\ accepted'[Len(accepted) + 1] = m
      /\ Len(accepted) \in Nat /\ Len(delivered) \in Nat
  BY <1>1, <1>3, AppendProperties, LenProperties
<1>5. ChannelTypes' /\ Foreign'
  <2>1. up' \in Seq(Word)
    BY <1>2, <1>3, AppendProperties
  <2> QED BY <1>1, <1>4, <2>1 DEF ChannelInv, ChannelTypes, Foreign
<1>6. Flow'
  <2> SUFFICES ASSUME ~Broken
               PROVE  /\ Len(delivered) <= Len(accepted')
                      /\ \A i \in 1 .. Len(delivered) : delivered[i] = accepted'[i]
                      /\ \E k \in Nat :
                           /\ IF peer = None THEN k = Len(delivered)
                              ELSE Carries(accepted', inbox[peer], Len(delivered), k)
                           /\ Carries(accepted', up', k, Len(accepted'))
    BY <1>1 DEF Flow, Broken
  <2>1. PICK k \in Nat :
          /\ IF peer = None THEN k = Len(delivered) ELSE Carries(accepted, inbox[peer], Len(delivered), k)
          /\ Carries(accepted, up, k, Len(accepted))
    BY DEF ChannelInv, Flow
  <2>2. k <= Len(accepted) /\ k \in 0 .. Len(accepted) /\ Len(accepted) \in 0 .. Len(accepted)
    BY <1>3, <1>4, <2>1, CarriesWithin
  <2>3. Carries(accepted', up, k, Len(accepted))
    BY <1>3, <1>4, <2>1, <2>2, CarriesLonger
  <2>4. Carries(accepted', up', k, Len(accepted'))
    <3>1. Len(accepted) + 1 \in Nat
      BY <1>4
    <3>2. IF m \in Message THEN Len(accepted) + 1 = Len(accepted) + 1 /\ accepted'[Len(accepted) + 1] = m
                            ELSE Len(accepted) + 1 = Len(accepted)
      BY <1>4
    <3>3. Carries(accepted', Append(up, m), k, Len(accepted) + 1)
      BY <1>3, <1>4, <2>3, <3>1, <3>2, CarriesAppend
    <3> QED BY <1>2, <1>4, <3>3
  <2>5. ASSUME peer # None PROVE Carries(accepted', inbox[peer], Len(delivered), k)
    <3>1. inbox[peer] \in Seq(Word)
      BY <2>5 DEF ChannelInv, ChannelTypes
    <3> QED BY <1>3, <1>4, <2>1, <2>2, <2>5, <3>1, CarriesLonger
  <2>6. /\ Len(delivered) <= Len(accepted)
        /\ \A i \in 1 .. Len(delivered) : delivered[i] = accepted[i] /\ i \in 1 .. Len(accepted)
    BY <1>4 DEF ChannelInv, Flow
  <2> QED BY <1>4, <2>1, <2>4, <2>5, <2>6
<1> QED BY <1>5, <1>6 DEF ChannelInv

(* doRead posts the first word of the ikcp's queue to the main thread.     *)
LEMMA ReceivesChannel ==
  ASSUME ChannelInv, NEW s \in Session, ServerReceives(s)
  PROVE  ChannelInv'
<1> DEFINE w == Head(up)
           q == IF ping[s] = "due" THEN Queue(inbox[s], "REQ") ELSE inbox[s]
           r == IF w = "ACK" THEN q ELSE Append(q, w)
<1>1. /\ up \in Seq(Word) /\ inbox \in [Session -> Seq(Word)] /\ inbox[s] \in Seq(Word)
      /\ accepted \in Seq(Message) /\ delivered \in Seq(Message)
      /\ peer \in {None, s} /\ s # None
  BY NoneAssumption DEF ChannelInv, ChannelTypes, ServerReceives, Linked
<1>2. /\ UNCHANGED <<accepted, delivered, closed>> /\ peer' = s /\ up' = Tail(up)
      /\ inbox' = [inbox EXCEPT ![s] = q \o (IF w = "ACK" THEN <<>> ELSE <<w>>)]
  BY DEF ServerReceives, client, vars, flags
<1>3. up # <<>>
  <2>1. CASE up = <<>>
    <3>1. Len(up) = 0
      BY <2>1
    <3>2. Receivable(up) = 0
      BY <3>1 DEF Receivable, SelectInSeq
    <3>3. Fits(up) = 0
      BY <3>1, <3>2 DEF Fits
    <3> QED BY <3>3 DEF ServerReceives, Finds
  <2> QED BY <2>1
<1>4. w \in Word /\ Tail(up) \in Seq(Word)
  BY <1>1, <1>3, HeadTailProperties
<1>5. "REQ" \in Control /\ "REQ" \in Word /\ "ACK" \in Control /\ "ACK" \notin Message /\ "REQ" \notin Message
  BY Apart DEF Control
<1>6. q \in Seq(Word)
  BY <1>1, <1>5, QueueIs
<1>7. \A a : \A lo, hi \in Nat : Carries(a, inbox[s], lo, hi) => Carries(a, q, lo, hi)
  BY <1>1, <1>5, QueueControl
<1> HIDE DEF q
<1>8. inbox' = [inbox EXCEPT ![s] = r] /\ r \in Seq(Word)
  <2>1. CASE w = "ACK"
    BY <1>2, <1>6, <2>1, ConcatEmptySeq
  <2>2. CASE w # "ACK"
    <3>1. Append(q, w) = q \o <<w>> /\ Append(q, w) \in Seq(Word)
      BY <1>4, <1>6, AppendIsConcat, AppendProperties
    <3> QED BY <1>2, <2>2, <3>1
  <2> QED BY <2>1, <2>2
<1>9. ASSUME NEW a, NEW lo \in Nat, NEW hi \in Nat, NEW n \in Nat, Carries(a, inbox[s], lo, hi),
             IF w \in Message THEN n = hi + 1 /\ a[n] = w ELSE n = hi
      PROVE  Carries(a, r, lo, n)
  <2>1. Carries(a, q, lo, hi)
    BY <1>7, <1>9
  <2>2. CASE w = "ACK"
    BY <1>5, <1>9, <2>1, <2>2
  <2>3. CASE w # "ACK"
    BY <1>4, <1>6, <1>9, <2>1, <2>3, CarriesAppend
  <2> QED BY <2>2, <2>3
<1> HIDE DEF r, w
<1>10. inbox'[s] = r /\ \A t \in Session \ {s} : inbox'[t] = inbox[t]
  BY <1>1, <1>8
<1>11. ChannelTypes'
  BY <1>1, <1>2, <1>4, <1>8 DEF ChannelTypes
<1>12. Foreign'
  BY SMTT(30), <1>1, <1>2, <1>10 DEF ChannelInv, Foreign
<1>13. Flow'
  <2> SUFFICES ASSUME ~closed[s]
               PROVE  /\ Len(delivered) <= Len(accepted)
                      /\ \A i \in 1 .. Len(delivered) : delivered[i] = accepted[i]
                      /\ \E k \in Nat : /\ Carries(accepted, r, Len(delivered), k)
                                        /\ Carries(accepted, Tail(up), k, Len(accepted))
    BY <1>1, <1>2, <1>10 DEF Flow, Broken
  <2>1. ~Broken
    BY <1>1 DEF Broken
  <2>2. /\ Len(delivered) \in Nat /\ Len(accepted) \in Nat /\ Len(delivered) <= Len(accepted)
        /\ \A i \in 1 .. Len(delivered) : delivered[i] = accepted[i]
        /\ \E k \in Nat : /\ Carries(accepted, inbox[s], Len(delivered), k)
                          /\ Carries(accepted, up, k, Len(accepted))
    BY <1>1, <2>1, Carried
  <2>3. PICK k \in Nat : /\ Carries(accepted, inbox[s], Len(delivered), k)
                         /\ Carries(accepted, up, k, Len(accepted))
    BY <2>2
  <2>4. PICK n \in Nat : /\ IF w \in Message THEN n = k + 1 /\ accepted[n] = w ELSE n = k
                         /\ Carries(accepted, Tail(up), n, Len(accepted))
    BY <1>1, <1>3, <2>2, <2>3, CarriesTail DEF w
  <2>5. Carries(accepted, r, Len(delivered), n)
    BY <1>9, <2>2, <2>3, <2>4
  <2> QED BY <2>2, <2>4, <2>5
<1> QED BY <1>11, <1>12, <1>13 DEF ChannelInv

(* The client's ikcp hears of a session before it has sent it anything, or *)
(* of the one it knows.                                                    *)
LEMMA ClientHears ==
  ASSUME ChannelInv, NEW s \in Session, ClientReceives(s)
  PROVE  ChannelInv'
<1>1. /\ UNCHANGED <<accepted, delivered, closed, up, inbox>> /\ peer' = s
      /\ peer \in {None, s} /\ s # None
  BY NoneAssumption DEF ClientReceives, Linked, polling, vars, flags
<1>2. ChannelTypes' /\ Foreign'
  BY <1>1 DEF ChannelInv, ChannelTypes, Foreign
<1>3. Flow'
  <2> SUFFICES ASSUME ~closed[s]
               PROVE  /\ Len(delivered) <= Len(accepted)
                      /\ \A i \in 1 .. Len(delivered) : delivered[i] = accepted[i]
                      /\ \E k \in Nat : /\ Carries(accepted, inbox[s], Len(delivered), k)
                                        /\ Carries(accepted, up, k, Len(accepted))
    BY <1>1 DEF Flow, Broken
  <2>1. ~Broken
    BY <1>1 DEF Broken
  <2> QED BY <1>1, <2>1, Carried
<1> QED BY <1>2, <1>3 DEF ChannelInv

(* The server's main thread handles a message or sends a word of its own.  *)
LEMMA HandlesChannel ==
  ASSUME ChannelInv, NEW s \in Session, HandleOrSend(s)
  PROVE  /\ ChannelInv'
         /\ UNCHANGED accepted /\ Broken' = Broken
         /\ \/ UNCHANGED delivered
            \/ /\ ~Broken /\ Len(delivered) \in Nat /\ Len(delivered) + 1 <= Len(accepted)
               /\ delivered' = SubSeq(accepted, 1, Len(delivered) + 1)
<1> DEFINE m == Head(inbox[s])
<1>1. /\ inbox[s] # <<>> /\ inbox' = [inbox EXCEPT ![s] = Tail(@)]
      /\ delivered' = IF ~closed[s] /\ m \in Message THEN Append(delivered, m) ELSE delivered
      /\ UNCHANGED <<accepted, peer, up, closed>>
  BY DEF HandleOrSend, client, vars, flags
<1>2. /\ up \in Seq(Word) /\ inbox \in [Session -> Seq(Word)] /\ inbox[s] \in Seq(Word)
      /\ accepted \in Seq(Message) /\ delivered \in Seq(Message)
      /\ s # None /\ peer \in Session \cup {None}
  BY NoneAssumption DEF ChannelInv, ChannelTypes
<1>3. m \in Word /\ Tail(inbox[s]) \in Seq(Word)
  BY <1>1, <1>2, HeadTailProperties
<1>4. /\ inbox'[s] = Tail(inbox[s]) /\ \A t \in Session \ {s} : inbox'[t] = inbox[t]
      /\ inbox' \in [Session -> Seq(Word)]
  BY <1>1, <1>2, <1>3
<1>5. Broken' = Broken
  BY <1>1 DEF Broken
<1>6. s # peer => m \notin Message /\ \A i \in 1 .. Len(Tail(inbox[s])) : Tail(inbox[s])[i] \notin Message
  BY <1>1, <1>2, TailNone DEF ChannelInv, Foreign
<1>7. Foreign'
  BY <1>1, <1>4, <1>6 DEF ChannelInv, Foreign
<1>8. ChannelTypes'
  <2>1. delivered' \in Seq(Message)
    BY <1>1, <1>2, AppendProperties
  <2> QED BY <1>1, <1>2, <1>4, <2>1 DEF ChannelTypes
<1> HIDE DEF m
<1>9. Len(delivered) \in Nat /\ Len(accepted) \in Nat
  BY <1>2, LenProperties
<1>10. CASE Broken
  <2>1. s = peer => closed[s]
    BY <1>10 DEF Broken
  <2>2. delivered' = delivered
    BY <1>1, <1>6, <2>1
  <2>3. Flow'
    BY <1>5, <1>10 DEF Flow
  <2> QED BY <1>1, <1>5, <1>7, <1>8, <2>2, <2>3 DEF ChannelInv
<1>11. CASE ~Broken /\ s # peer
  <2>1. delivered' = delivered
    BY <1>1, <1>6, <1>11
  <2>2. peer # None => inbox'[peer] = inbox[peer]
    BY <1>2, <1>4, <1>11
  <2>3. Flow'
    BY <1>1, <1>5, <1>11, <2>1, <2>2 DEF ChannelInv, Flow
  <2> QED BY <1>1, <1>5, <1>7, <1>8, <2>1, <2>3 DEF ChannelInv
<1>12. CASE ~Broken /\ s = peer
  <2>0. ~closed[s]
    BY <1>2, <1>12 DEF Broken
  <2>1. /\ Len(delivered) <= Len(accepted)
        /\ \A i \in 1 .. Len(delivered) : delivered[i] = accepted[i]
    BY <1>12 DEF ChannelInv, Flow
  <2>2. PICK k \in Nat : /\ Carries(accepted, inbox[s], Len(delivered), k)
                         /\ Carries(accepted, up, k, Len(accepted))
    BY <1>2, <1>12 DEF ChannelInv, Flow
  <2>3. PICK n \in Nat :
          /\ IF m \in Message THEN n = Len(delivered) + 1 /\ accepted[n] = m ELSE n = Len(delivered)
          /\ Carries(accepted, Tail(inbox[s]), n, k)
    BY <1>1, <1>2, <1>9, <2>2, CarriesTail DEF m
  <2>4. n <= Len(accepted)
    <3>1. n <= k /\ k <= Len(accepted)
      BY <1>2, <1>3, <1>9, <2>2, <2>3, CarriesWithin
    <3> QED BY <1>9, <3>1
  <2>5. /\ Len(delivered') = n
        /\ \A i \in 1 .. n : delivered'[i] = accepted[i]
    <3>1. CASE m \in Message
      <4>1. /\ delivered' = Append(delivered, m) /\ n = Len(delivered) + 1
            /\ accepted[Len(delivered) + 1] = m
        BY <1>1, <2>0, <2>3, <3>1
      <4>2. /\ Len(Append(delivered, m)) = Len(delivered) + 1
            /\ \A i \in 1 .. Len(delivered) : Append(delivered, m)[i] = delivered[i]
            /\ Append(delivered, m)[Len(delivered) + 1] = m
        BY <1>2, <3>1, AppendProperties
      <4>3. \A i \in 1 .. Len(delivered) + 1 : i \in 1 .. Len(delivered) \/ i = Len(delivered) + 1
        BY <1>9
      <4> QED BY <2>1, <4>1, <4>2, <4>3
    <3>2. CASE m \notin Message
      BY <1>1, <2>1, <2>3, <3>2
    <3> QED BY <3>1, <3>2
  <2>6. Flow'
    <3>1. Carries(accepted, inbox'[peer], n, k) /\ peer # None
      BY <1>2, <1>4, <1>12, <2>3
    <3> QED BY <1>1, <2>2, <2>4, <2>5, <3>1 DEF Flow
  <2>7. CASE m \in Message
    <3>1. delivered' \in Seq(Message) /\ n = Len(delivered) + 1
      BY <1>8, <2>3, <2>7 DEF ChannelTypes
    <3>2. \A i \in 1 .. n : accepted[i] \in Message
      <4>1. \A i \in 1 .. n : i \in 1 .. Len(accepted)
        BY <1>9, <2>4
      <4> QED BY <1>2, <4>1, ElementOfSeq
    <3>3. /\ SubSeq(accepted, 1, n) \in Seq(Message) /\ Len(SubSeq(accepted, 1, n)) = n
          /\ \A i \in 1 .. n : SubSeq(accepted, 1, n)[i] = accepted[i]
      <4>1. 1 \in Int /\ n \in Int /\ 1 <= n /\ n - 1 + 1 = n
        BY <1>9, <3>1
      <4>2. /\ SubSeq(accepted, 1, n) \in Seq(Message)
            /\ Len(SubSeq(accepted, 1, n)) = IF 1 <= n THEN n - 1 + 1 ELSE 0
            /\ \A i \in 1 .. n - 1 + 1 : SubSeq(accepted, 1, n)[i] = accepted[1 + i - 1]
        BY <3>2, <4>1, SubSeqProperties
      <4>3. \A i \in 1 .. n : 1 + i - 1 = i
        OBVIOUS
      <4> QED BY <4>1, <4>2, <4>3
    <3>4. delivered' = SubSeq(accepted, 1, n)
      BY <2>5, <3>1, <3>3, SeqEqual
    <3> QED BY <1>1, <1>5, <1>7, <1>8, <1>9, <1>12, <2>4, <2>6, <3>1, <3>4 DEF ChannelInv
  <2>8. CASE m \notin Message
    BY <1>1, <1>5, <1>7, <1>8, <2>6, <2>8 DEF ChannelInv
  <2> QED BY <2>7, <2>8
<1> QED BY <1>10, <1>11, <1>12

(* The steps that accept, deliver and receive nothing.                     *)
Aloof ==
  /\ UNCHANGED <<accepted, delivered, peer>>
  /\ inbox' \in [Session -> Seq(Word)]
  /\ \A s \in Session : \/ inbox'[s] = inbox[s]
                        \/ \E m \in Control : inbox'[s] = Append(inbox[s], m)
  /\ up' = up \/ \E m \in Control : up' = Append(up, m)

LEMMA OneGrows ==
  ASSUME ChannelTypes, NEW s \in Session, NEW q,
         inbox' = [inbox EXCEPT ![s] = q],
         q = inbox[s] \/ \E m \in Control : q = Append(inbox[s], m)
  PROVE  /\ inbox' \in [Session -> Seq(Word)]
         /\ \A t \in Session : \/ inbox'[t] = inbox[t]
                               \/ \E m \in Control : inbox'[t] = Append(inbox[t], m)
<1>1. inbox \in [Session -> Seq(Word)] /\ inbox[s] \in Seq(Word) /\ \A m \in Control : m \in Word
  BY Apart DEF ChannelTypes
<1>2. q \in Seq(Word)
  BY <1>1, AppendProperties
<1>3. inbox'[s] = q /\ \A t \in Session \ {s} : inbox'[t] = inbox[t]
  BY <1>1
<1> QED BY <1>1, <1>2, <1>3

LEMMA AloofSteps ==
  ASSUME ChannelTypes,
         \/ ConnectC \/ ArmTimerC \/ UserCloses \/ TimerRunsC \/ WaitFailsC
         \/ HandleMessageC \/ ClientPolls \/ Arrival
         \/ \E s \in Session : \/ ServerGreeted(s) \/ ServerTimer(s)
                               \/ ServerInserts(s) \/ ServerPolls(s)
         \/ ServerInside \/ PureArrives \/ Tick
         \/ UNCHANGED linkVars
  PROVE  Aloof
<1>0. /\ inbox \in [Session -> Seq(Word)] /\ up \in Seq(Word)
      /\ "READY" \in Control /\ "REQ" \in Control /\ "ACK" \in Control
      /\ "REQ" \in Word /\ "ACK" \in Word
  BY Apart DEF ChannelTypes, Control
<1>1. ASSUME UNCHANGED <<accepted, delivered, peer, inbox, up>> PROVE Aloof
  BY <1>0, <1>1 DEF Aloof
<1>2. CASE ConnectC \/ ArmTimerC \/ UserCloses \/ TimerRunsC \/ WaitFailsC \/ ClientPolls \/ Tick
  BY <1>1, <1>2 DEF ConnectC, ArmTimerC, UserCloses, TimerRunsC, WaitFailsC, ClientPolls, Tick,
     streams, polling
<1>3. CASE Arrival
  BY <1>1, <1>3 DEF Arrival, Greeted, ServerAnswered, ServerConnect, client, streams, polling
<1>4. CASE ServerInside \/ PureArrives \/ UNCHANGED linkVars
  BY <1>1, <1>4 DEF ServerInside, PureArrives, PureHandled, PureTooLong, linkVars, client, streams, polling
<1>5. CASE \E s \in Session : ServerGreeted(s) \/ ServerTimer(s)
  BY <1>1, <1>5 DEF ServerGreeted, ServerTimer, client, streams, polling
<1>6. ASSUME NEW s \in Session, ServerInserts(s) PROVE Aloof
  <2>1. /\ inbox' = [inbox EXCEPT ![s] = Append(inbox[s], "READY")]
        /\ UNCHANGED <<accepted, delivered, peer, up>>
    BY <1>6 DEF ServerInserts, client, streams
  <2> QED BY <1>0, <2>1, OneGrows DEF Aloof
<1>7. ASSUME NEW s \in Session, ServerPolls(s) PROVE Aloof
  <2> DEFINE q == IF ping[s] = "due" THEN Queue(inbox[s], "REQ") ELSE inbox[s]
  <2>1. /\ inbox' = [inbox EXCEPT ![s] = q]
        /\ UNCHANGED <<accepted, delivered, peer, up>>
    BY <1>7 DEF ServerPolls, Pinged, client, streams
  <2>2. q = inbox[s] \/ q = Append(inbox[s], "REQ")
    <3>1. inbox[s] \in Seq(Word)
      BY <1>0
    <3> QED BY <1>0, <3>1, QueueIs
  <2> HIDE DEF q
  <2> QED BY <1>0, <2>1, <2>2, OneGrows DEF Aloof
<1>8. CASE HandleMessageC
  <2>1. up' = up \/ up' = Queue(up, "ACK")
    BY <1>8 DEF HandleMessageC
  <2>2. up' = up \/ up' = Append(up, "ACK")
    BY <1>0, <2>1, QueueIs
  <2>3. UNCHANGED <<accepted, delivered, peer, inbox>>
    BY <1>8 DEF HandleMessageC, polling
  <2> QED BY <1>0, <2>2, <2>3 DEF Aloof
<1> QED BY <1>2, <1>3, <1>4, <1>5, <1>6, <1>7, <1>8

(* What a step of the link is to the channel.                              *)
LEMMA LinkStep ==
  ASSUME IInv, ChannelInv, [NextLink]_linkVars
  PROVE  ChannelInv' /\ [Channel!Next]_(Channel!vars)
<1>1. \A s \in Session : closed[s] => closed'[s]
  <2>1. [Next]_vars
    <3>1. UNCHANGED linkVars => UNCHANGED vars
      BY DEF linkVars
    <3> QED BY <3>1, ClientLeavesServer, DatagramSteps, ServerSteps, InsideSteps DEF NextLink, Arrival
  <2> QED BY <2>1, ClosedStays
<1>2. ASSUME UNCHANGED <<accepted, delivered>>, peer' = peer \/ peer = None
      PROVE  [Channel!Next]_(Channel!vars)
  <2>1. Broken => Broken'
    BY <1>1, <1>2 DEF Broken, ChannelInv, ChannelTypes
  <2>2. CASE ~Broken'
    <3>1. Broken' = Broken
      BY <2>1, <2>2 DEF Broken
    <3> QED BY <1>2, <3>1 DEF Channel!vars, Broken
  <2>3. CASE Broken'
    BY <1>2, <2>3 DEF Channel!Next, Channel!Break, Broken
  <2> QED BY <2>1, <2>2, <2>3
<1>3. CASE Aloof
  <2>1. ChannelInv'
    BY <1>1, <1>3, Chatter DEF Aloof
  <2> QED BY <1>2, <1>3, <2>1 DEF Aloof
<1>4. ASSUME NEW m \in Message, ClientSends(m)
      PROVE  ChannelInv' /\ [Channel!Next]_(Channel!vars)
  <2>1. accepted' = Append(accepted, m) /\ UNCHANGED <<delivered, peer, closed>>
    BY <1>4 DEF ClientSends, polling, vars, flags
  <2>2. Channel!Accept(m)
    BY <2>1 DEF Channel!Accept
  <2> QED BY <1>4, <2>2, SendsChannel DEF Channel!Next
<1>5. ASSUME NEW s \in Session, ServerReceives(s) \/ ClientReceives(s)
      PROVE  ChannelInv' /\ [Channel!Next]_(Channel!vars)
  <2>1. /\ UNCHANGED <<accepted, delivered>> /\ peer \in {None, s} /\ peer' = s
    BY <1>5 DEF ServerReceives, ClientReceives, Linked, client, polling
  <2> QED BY <1>2, <1>5, <2>1, ReceivesChannel, ClientHears
<1>6. ASSUME NEW s \in Session, HandleOrSend(s)
      PROVE  ChannelInv' /\ [Channel!Next]_(Channel!vars)
  <2>1. /\ ChannelInv' /\ UNCHANGED accepted /\ Broken' = Broken
        /\ \/ UNCHANGED delivered
           \/ /\ ~Broken /\ Len(delivered) \in Nat /\ Len(delivered) + 1 <= Len(accepted)
              /\ delivered' = SubSeq(accepted, 1, Len(delivered) + 1)
    BY <1>6, HandlesChannel
  <2>2. CASE UNCHANGED delivered
    BY <2>1, <2>2 DEF Channel!vars, Broken
  <2>3. CASE /\ ~Broken /\ Len(delivered) \in Nat /\ Len(delivered) + 1 <= Len(accepted)
             /\ delivered' = SubSeq(accepted, 1, Len(delivered) + 1)
    <3>1. 1 \in 1 .. Len(accepted)
      <4>1. Len(accepted) \in Nat
        BY LenProperties DEF ChannelInv, ChannelTypes
      <4> QED BY <2>3, <4>1
    <3>2. Channel!Deliver(1)
      BY <2>1, <2>3 DEF Channel!Deliver, Broken
    <3> QED BY <2>1, <3>1, <3>2 DEF Channel!Next
  <2> QED BY <2>1, <2>2, <2>3
<1>7. ChannelTypes
  BY DEF ChannelInv
<1> QED BY <1>3, <1>4, <1>5, <1>6, <1>7, AloofSteps DEF NextLink, Client, Server

(* From sendMessage without pureUdp to the handlers of the server, the     *)
(* link is an ordered channel until the server's session is closed: of     *)
(* what the network repeats, delays and loses, of pings and of other       *)
(* sessions nothing gets into the stream, and pure UDP messages, which are *)
(* handled beside it, neither reorder nor repeat what is in it.            *)
THEOREM KcpLinkImplementsChannel == SpecLink => ImplementsChannel
<1>1. InitLink => ChannelInv /\ Channel!Init
  BY InitChannel DEF InitLink, Channel!Init
<1>2. IInv /\ ChannelInv /\ [NextLink]_linkVars => ChannelInv' /\ [Channel!Next]_(Channel!vars)
  BY LinkStep
<1>3. SpecLink => []IInv
  BY KcpLinkImplementsServer, KcpInvariant, PTL
<1> QED BY <1>1, <1>2, <1>3, PTL DEF SpecLink, ImplementsChannel, Channel!Spec
-----------------------------------------------------------------------------
(***************************************************************************)
(* On a good network nobody is taken for dead.  There the client connects  *)
(* once, its session is the only one, and every second a ping goes down    *)
(* and an answer comes up: whoever has heard nothing since the last second *)
(* has a ping, or its answer, on the way.  The second waits for them.      *)
(***************************************************************************)
Spoken == {"READY", "REQ"}

LinkTypes ==
  /\ down \in [Session -> Seq(Spoken)] /\ inboxC \in Seq(Spoken)
  /\ ping \in [Session -> {"new", "sent", "due"}]
  /\ age \in [Session -> Int] /\ ageC \in Int
  /\ second \in [Session -> Second \cup {None}]
  /\ openC \in BOOLEAN /\ closedC \in BOOLEAN

(* Only sessions that have joined are polled, and talk to the client. *)
Heard ==
  /\ \A s \in Session : phase[s] # "joined" => inbox[s] = <<>> /\ down[s] = <<>> /\ age[s] = -1
  /\ peer # None => phase[peer] = "joined"

(* There is one session, and one datagram of its handshake, if any. *)
OneSession == \A s, t \in Session : phase[s] # "none" /\ phase[t] # "none" => s = t

Connects(d) == d.what = "connect" /\ phaseC = "waiting" /\ \A s \in Session : phase[s] = "none"

Greets(d) ==
  phaseC = "waiting" /\ \E s \in Session : phase[s] # "none" /\ d = Datagram("greeting", Hash(s))

Answers(d) ==
  phaseC = "inited" /\ \E s \in Session : /\ phase[s] \in {"greeting", "waiting", "ended"}
                                          /\ hashC = Hash(s) /\ d = Datagram("answer", Hash(s))

OneDatagram ==
  /\ \A d, e \in wire : d = e
  /\ \A d \in wire : Connects(d) \/ Greets(d) \/ Answers(d)

Joins ==
  \A s \in Session : phase[s] \in {"joining", "joined"} =>
    phaseC = "inited" /\ wire = {} /\ hashC = Hash(s)

Fresh == phaseC = "new" => wire = {} /\ \A s \in Session : phase[s] = "none"

(* A greeting has its time. *)
Dated == \A s \in Session : phase[s] # "none" => second[s] \in Second

Handshake == Fresh /\ OneSession /\ OneDatagram /\ Joins /\ Dated

Once == Good /\ Reachable => Handshake

(* Nobody is about to be removed. *)
Unremoved ==
  /\ \A s \in Session : ~closed[s] /\ ~waitRemove[s] /\ ~removing[s]
  /\ \A i \in DOMAIN mainTasks : mainTasks[i].do = "add"
  /\ \A w \in Worker : \A i \in DOMAIN workTasks[w] : workTasks[w][i].do = "run"
  /\ \A s \in Session : phase[s] = "joined" => sessions[uid[s]] = s

(* The client is going to hear something; the server is. *)
Asked(s) == ping[s] = "due" \/ "REQ" \in Elements(inbox[s]) \/ down[s] # <<>>

Replied(s) ==
  \/ ping[s] = "due" \/ "REQ" \in Elements(inbox[s]) \/ "REQ" \in Elements(down[s])
  \/ "REQ" \in Elements(inboxC) \/ up # <<>>

ClientHeard ==
  /\ phaseC \in {"new", "waiting"} => ageC = -1 /\ ~closedC
  /\ phaseC = "inited" /\ wire # {} => ageC \in {-1, 0} /\ ~closedC
  /\ \A s \in Session : phase[s] \in {"joining", "joined"} =>
       ~closedC /\ ageC \in {-1, 0, 1} /\ (ageC = 1 => phase[s] = "joined" /\ Asked(s))

ServerHeard ==
  \A s \in Session : phase[s] = "joined" => age[s] \in {-1, 0, 1} /\ (age[s] = 1 => Replied(s))

Small == Big \cap Elements(up) = {}

Calm == Good /\ Reachable => Unremoved /\ ClientHeard /\ ServerHeard

LiveInv == LinkTypes /\ Heard /\ Once /\ Calm

-----------------------------------------------------------------------------
(* What queues hold                                                        *)

LEMMA HoldsAppend ==
  ASSUME NEW T, NEW q \in Seq(T), NEW m \in T
  PROVE  /\ Append(q, m) \in Seq(T) /\ Append(q, m) # <<>>
         /\ Elements(Append(q, m)) = Elements(q) \cup {m}
<1> DEFINE r == Append(q, m)
<1>1. /\ r \in Seq(T)
      /\ \A i \in DOMAIN q : i \in DOMAIN r /\ r[i] = q[i]
      /\ Len(q) + 1 \in DOMAIN r /\ r[Len(q) + 1] = m
      /\ \A i \in DOMAIN r : i \in DOMAIN q \/ i = Len(q) + 1
  BY Appended
<1>2. r # <<>>
  BY AppendProperties
<1> HIDE DEF r
<1>3. Elements(r) = Elements(q) \cup {m}
  BY <1>1 DEF Elements
<1> QED BY <1>1, <1>2, <1>3 DEF r

LEMMA HoldsTail ==
  ASSUME NEW T, NEW q \in Seq(T), q # <<>>
  PROVE  /\ Tail(q) \in Seq(T) /\ Head(q) \in T
         /\ Elements(q) = {Head(q)} \cup Elements(Tail(q))
<1>1. /\ Tail(q) \in Seq(T)
      /\ 1 \in DOMAIN q /\ q[1] = Head(q) /\ Head(q) \in T
      /\ \A i \in DOMAIN Tail(q) : i + 1 \in DOMAIN q /\ i \in Nat \ {0} /\ Tail(q)[i] = q[i+1]
      /\ \A i \in DOMAIN q : i # 1 => i - 1 \in DOMAIN Tail(q) /\ Tail(q)[i-1] = q[i]
  BY TailIs
<1>2. ASSUME NEW i \in DOMAIN q PROVE q[i] \in {Head(q)} \cup Elements(Tail(q))
  <2>1. CASE i = 1
    BY <1>1, <2>1
  <2>2. CASE i # 1
    <3>1. i - 1 \in DOMAIN Tail(q) /\ Tail(q)[i-1] = q[i]
      BY <1>1, <2>2
    <3> QED BY <3>1 DEF Elements
  <2> QED BY <2>1, <2>2
<1>3. {Head(q)} \cup Elements(Tail(q)) \subseteq Elements(q)
  BY <1>1 DEF Elements
<1>4. Elements(q) \subseteq {Head(q)} \cup Elements(Tail(q))
  BY <1>2 DEF Elements
<1> QED BY <1>1, <1>3, <1>4

LEMMA HoldsQueue ==
  ASSUME NEW T, NEW q \in Seq(T), NEW m \in T
  PROVE  /\ Queue(q, m) \in Seq(T) /\ Queue(q, m) # <<>>
         /\ Elements(Queue(q, m)) = Elements(q) \cup {m}
<1>1. CASE m \in {"REQ", "ACK"} /\ q # <<>> /\ Last(q) = m
  <2>1. Queue(q, m) = q
    BY <1>1 DEF Queue
  <2>2. Len(q) \in DOMAIN q /\ q[Len(q)] = m
    BY <1>1, EmptySeq, LenProperties DEF Last
  <2>3. m \in Elements(q)
    BY <2>2 DEF Elements
  <2> QED BY <1>1, <2>1, <2>3
<1>2. CASE ~(m \in {"REQ", "ACK"} /\ q # <<>> /\ Last(q) = m)
  <2>1. Queue(q, m) = Append(q, m)
    BY <1>2 DEF Queue
  <2> QED BY <2>1, HoldsAppend
<1> QED BY <1>1, <1>2

LEMMA HoldsNothing == Elements(<<>>) = {}
BY DEF Elements

(* A poll finds what there is, if it fits. *)
LEMMA FitsAll ==
  ASSUME NEW T, NEW q \in Seq(T), Big \cap Elements(q) = {}, Fits(q) = 0
  PROVE  q = <<>>
<1>1. {i \in 1 .. Len(q) : q[i] \in Big} = {}
  BY LenProperties DEF Elements
<1>2. Receivable(q) = 0
  BY <1>1 DEF Receivable, SelectInSeq
<1>3. Len(q) = 0
  BY <1>2 DEF Fits
<1> QED BY <1>3, EmptySeq

LEMMA FindsSmall ==
  ASSUME NEW T, NEW q \in Seq(T), Finds(q)
  PROVE  q # <<>> /\ Head(q) \notin Big
<1> DEFINE I == {i \in 1 .. Len(q) : q[i] \in Big}
<1>1. Receivable(q) = IF I # {} THEN Min(I) ELSE 0
  BY DEF Receivable, SelectInSeq
<1>2. q # <<>>
  <2> SUFFICES ASSUME q = <<>> PROVE FALSE
    OBVIOUS
  <2>1. Len(q) = 0
    BY EmptySeq
  <2>2. I = {}
    BY <2>1
  <2> QED BY <1>1, <2>1, <2>2 DEF Finds, Fits
<1>3. ASSUME Head(q) \in Big PROVE FALSE
  <2>1. Len(q) \in Nat \ {0} /\ Head(q) = q[1]
    BY <1>2, EmptySeq, LenProperties
  <2>2. 1 \in I /\ I \subseteq Nat \ {0}
    BY <1>3, <2>1
  <2>3. Min(I) = 1
    <3>1. \A y \in I : 1 <= y
      BY <2>2
    <3>2. \A x \in I : (\A y \in I : x <= y) => x = 1
      BY <2>2
    <3> HIDE DEF I
    <3> QED BY <2>2, <3>1, <3>2 DEF Min
  <2>4. Fits(q) = 0
    BY <1>1, <2>2, <2>3 DEF Fits
  <2> QED BY <2>4 DEF Finds
<1> QED BY <1>2, <1>3

-----------------------------------------------------------------------------
(* Steps of the link                                                       *)

LEMMA LinkMovesServer == [NextLink]_linkVars => [Next]_vars
<1>1. UNCHANGED linkVars => UNCHANGED vars
  BY DEF linkVars
<1> QED BY <1>1, ClientLeavesServer, DatagramSteps, ServerSteps, InsideSteps DEF NextLink, Arrival

LEMMA JoinedStays ==
  ASSUME IInv, [Next]_vars, NEW s \in Session, phase[s] = "joined"
  PROVE  phase'[s] = "joined"
<1>0. phase \in [Session -> {"none", "greeting", "waiting", "joining", "joined", "ended"}]
  BY DEF IInv, TypeOK
<1>1. ASSUME NEW t \in Session, NEW e \in Endpoint, Connect(t, e) PROVE phase'[s] = "joined"
  BY <1>0, <1>1 DEF Connect
<1>2. ASSUME NEW t \in Session, GreetingSent(t) PROVE phase'[s] = "joined"
  BY <1>0, <1>2 DEF GreetingSent
<1>3. ASSUME NEW e \in Endpoint, NEW u \in Uid, Answer(e, u) PROVE phase'[s] = "joined"
  <2>1. phase[preSessions[e]] = "waiting"
    BY <1>3 DEF Answer, IInv, PreWaits
  <2> QED BY <1>0, <1>3, <2>1 DEF Answer
<1>4. ASSUME NEW t \in Session, AddSession(t) PROVE phase'[s] = "joined"
  BY <1>0, <1>4 DEF AddSession
<1>5. CASE UNCHANGED phase
  BY <1>5
<1>6. \/ \E t \in Session, e \in Endpoint : Connect(t, e)
      \/ \E t \in Session : GreetingSent(t) \/ AddSession(t)
      \/ \E e \in Endpoint, u \in Uid : Answer(e, u)
      \/ UNCHANGED phase
  BY DEF Next, vars, TimerRuns, FallsSilent, DoReadRemoves, WorkerStep, Insert, Erase, RemovePosted,
     PureUdpTooLong, MainStep, RemoveSelfImpl
<1> QED BY <1>1, <1>2, <1>3, <1>4, <1>5, <1>6

LEMMA NetworkStays == [NextLink]_linkVars => network' = network
BY DEF NextLink, linkVars, ConnectC, ArmTimerC, UserCloses, Client, TimerRunsC, WaitFailsC,
   HandleMessageC, ClientPolls, ClientReceives, Arrival, Greeted, ServerAnswered, ServerConnect,
   ClientSends, Server, ServerGreeted, ServerTimer, ServerInserts, ServerPolls, HandleOrSend,
   ServerReceives, ServerInside, PureArrives, PureHandled, PureTooLong, Tick

(* What never fits stays.                                                  *)
LEMMA SmallBefore ==
  ASSUME ChannelTypes, [NextLink]_linkVars, Small'
  PROVE  Small
<1>0. up \in Seq(Word) /\ "ACK" \in Word /\ Message \subseteq Word
  BY Apart DEF ChannelTypes, Control
<1>1. CASE UNCHANGED up
  BY <1>1 DEF Small
<1>2. ASSUME NEW m \in Word, up' = Queue(up, m) PROVE Small
  <2>0. up \in Seq(Word) /\ m \in Word
    BY <1>0
  <2>1. Elements(Queue(up, m)) = Elements(up) \cup {m}
    BY <2>0, HoldsQueue
  <2>2. Elements(up') = Elements(up) \cup {m}
    BY <1>2, <2>1
  <2> QED BY <2>2 DEF Small
<1>3. ASSUME NEW s \in Session, ServerReceives(s) PROVE Small
  <2>1. Finds(up) /\ up' = Tail(up)
    BY <1>3 DEF ServerReceives
  <2>2. up # <<>> /\ Head(up) \notin Big
    BY <1>0, <2>1, FindsSmall
  <2>3. Elements(up) = {Head(up)} \cup Elements(up')
    BY <1>0, <2>1, <2>2, HoldsTail
  <2> QED BY <2>2, <2>3 DEF Small
<1>4. \/ UNCHANGED up \/ \E m \in Message : up' = Queue(up, m) \/ up' = Queue(up, "ACK")
      \/ up' = Queue(up, "ACK") \/ \E s \in Session : ServerReceives(s)
  BY DEF NextLink, linkVars, streams, ConnectC, ArmTimerC, UserCloses, Client, TimerRunsC, WaitFailsC,
     HandleMessageC, ClientPolls, ClientReceives, Arrival, Greeted, ServerAnswered, ServerConnect,
     ClientSends, Server, ServerGreeted, ServerTimer, ServerInserts, ServerPolls, HandleOrSend,
     ServerInside, PureArrives, PureHandled, PureTooLong, Tick
<1> QED BY <1>0, <1>1, <1>2, <1>3, <1>4

(* Nor does what ended begin again: a socket, the receive loops.           *)
LEMMA ReachableBefore ==
  ASSUME IInv, ChannelTypes, LinkTypes, [NextLink]_linkVars, Reachable'
  PROVE  Reachable /\ Small
<1>1. Small
  BY SmallBefore DEF Reachable, Small
<1>2. openC
  <2>1. openC' = openC \/ openC' = FALSE
    BY DEF NextLink, linkVars, client, ConnectC, ArmTimerC, UserCloses, Client, TimerRunsC, WaitFailsC,
       HandleMessageC, ClientPolls, ClientReceives, Arrival, Greeted, ServerAnswered, ServerConnect,
       ClientSends, Server, ServerGreeted, ServerTimer, ServerInserts, ServerPolls, HandleOrSend,
       ServerReceives, ServerInside, PureArrives, PureHandled, PureTooLong, Tick
  <2> QED BY <2>1 DEF Reachable
<1>3. hearsC
  <2>1. hearsC' = hearsC \/ hearsC' = FALSE
    BY DEF NextLink, linkVars, aside, ConnectC, ArmTimerC, UserCloses, Client, TimerRunsC, WaitFailsC,
       HandleMessageC, ClientPolls, ClientReceives, Arrival, Greeted, ServerAnswered, ServerConnect,
       ClientSends, Server, ServerGreeted, ServerTimer, ServerInserts, ServerPolls, HandleOrSend,
       ServerReceives, ServerInside, PureArrives, PureHandled, PureTooLong, Tick
  <2> QED BY <2>1 DEF Reachable
<1>4. loops > 0
  <2>1. [Next]_vars
    BY LinkMovesServer
  <2>2. loops' = loops \/ PureUdpTooLong
    BY <2>1 DEF Next, vars, Connect, GreetingSent, Answer, TimerRuns, FallsSilent, DoReadRemoves, WorkerStep,
       Insert, Erase, RemovePosted, MainStep, AddSession, RemoveSelfImpl
  <2> QED BY <2>2 DEF Reachable, PureUdpTooLong
<1> QED BY <1>1, <1>2, <1>3, <1>4 DEF Reachable, Small

LEMMA InitLive == InitLink => LiveInv
<1> SUFFICES ASSUME InitLink PROVE LiveInv
  OBVIOUS
<1>1. LinkTypes
  <2>1. <<>> \in Seq(Spoken) /\ -1 \in Int
    BY EmptySeq
  <2>2. /\ down = [s \in Session |-> <<>>] /\ inboxC = <<>>
        /\ ping = [s \in Session |-> "new"] /\ age = [s \in Session |-> -1] /\ ageC = -1
        /\ second = [s \in Session |-> None] /\ openC = TRUE /\ closedC = FALSE
    BY DEF InitLink
  <2> QED BY <2>1, <2>2 DEF LinkTypes
<1>2. Heard
  BY DEF InitLink, Heard
<1>3. Once
  BY DEF InitLink, Init, Once, Handshake, Fresh, OneSession, OneDatagram, Joins, Dated
<1>4. Calm
  BY DEF InitLink, Init, Calm, Unremoved, ClientHeard, ServerHeard
<1> QED BY <1>1, <1>2, <1>3, <1>4 DEF LiveInv

(* Types, and who talks to the client.                                     *)
LEMMA TypesStep ==
  ASSUME IInv, ChannelTypes, LinkTypes, Heard, [NextLink]_linkVars
  PROVE  LinkTypes' /\ Heard'
<1>1. \A s \in Session : phase[s] = "joined" => phase'[s] = "joined"
  BY LinkMovesServer, JoinedStays
<1>2. /\ inbox \in [Session -> Seq(Word)] /\ peer \in Session \cup {None}
      /\ "READY" \in Spoken /\ "REQ" \in Spoken
  BY DEF ChannelTypes, Spoken
<1>3. ASSUME UNCHANGED <<inbox, down, age, peer>> PROVE Heard'
  BY <1>1, <1>2, <1>3 DEF Heard
<1>4. ASSUME NEW s \in Session, phase[s] = "joined",
             \A t \in Session \ {s} : inbox'[t] = inbox[t] /\ down'[t] = down[t] /\ age'[t] = age[t],
             peer' = peer \/ peer' = s
      PROVE  Heard'
  BY <1>1, <1>2, <1>4 DEF Heard
<1>5. CASE \/ ConnectC \/ ArmTimerC \/ UserCloses \/ TimerRunsC \/ WaitFailsC
           \/ ServerInside \/ PureArrives \/ (\E m \in Message : ClientSends(m)) \/ UNCHANGED linkVars
  <2>1. /\ UNCHANGED <<down, inboxC, ping, age, ageC, second, inbox, peer>>
        /\ openC' \in BOOLEAN /\ closedC' \in BOOLEAN
    BY <1>5 DEF LinkTypes, ConnectC, ArmTimerC, UserCloses, TimerRunsC, WaitFailsC, ServerInside, PureArrives,
       PureHandled, PureTooLong, ClientSends, linkVars, client, streams, polling
  <2> QED BY <1>3, <2>1 DEF LinkTypes
<1>6. CASE Arrival
  <2>1. ASSUME NEW h, Greeted(h)
        PROVE  /\ UNCHANGED <<down, inboxC, ping, age, ageC, inbox, peer, closedC>>
               /\ openC' \in BOOLEAN /\ UNCHANGED second
    BY <2>1 DEF LinkTypes, Greeted, streams, polling
  <2>2. ASSUME NEW e \in Endpoint, NEW u \in Uid, NEW h, ServerAnswered(e, u, h)
        PROVE  UNCHANGED <<down, inboxC, ping, age, ageC, inbox, peer, closedC, openC, second>>
    BY <2>2 DEF ServerAnswered, client, streams, polling
  <2>3. ASSUME NEW s \in Session, NEW e \in Endpoint, ServerConnect(s, e)
        PROVE  /\ UNCHANGED <<down, inboxC, ping, age, ageC, inbox, peer, closedC, openC>>
               /\ second' \in [Session -> Second \cup {None}]
    BY <2>3 DEF LinkTypes, ServerConnect, client, streams, polling
  <2>4. /\ UNCHANGED <<down, inboxC, ping, age, ageC, inbox, peer, closedC>>
        /\ openC' \in BOOLEAN /\ second' \in [Session -> Second \cup {None}]
    BY <1>6, <2>1, <2>2, <2>3 DEF Arrival, LinkTypes
  <2> QED BY <1>3, <2>4 DEF LinkTypes
<1>7. CASE ClientPolls \/ HandleMessageC
  <2>1. UNCHANGED <<down, ping, age, second, inbox, peer, openC>>
    BY <1>7 DEF ClientPolls, HandleMessageC, streams, polling
  <2>2. inboxC' \in Seq(Spoken)
    BY <1>7, HoldsTail DEF LinkTypes, ClientPolls, HandleMessageC
  <2>3. ageC' \in Int
    BY <1>7 DEF LinkTypes, ClientPolls, HandleMessageC, Aged
  <2>4. closedC' \in BOOLEAN
    <3>1. closedC' = closedC \/ closedC' = (closedC \/ ageC > PongTimeout)
      BY <1>7 DEF ClientPolls, HandleMessageC
    <3>2. (closedC \/ ageC > PongTimeout) \in BOOLEAN
      OBVIOUS
    <3> QED BY <3>1, <3>2 DEF LinkTypes
  <2> QED BY <1>3, <2>1, <2>2, <2>3, <2>4 DEF LinkTypes
<1>8. ASSUME NEW s \in Session, ServerGreeted(s) \/ ServerTimer(s) PROVE LinkTypes' /\ Heard'
  <2>1. UNCHANGED <<down, inboxC, ping, age, ageC, second, inbox, peer, openC, closedC>>
    BY <1>8 DEF ServerGreeted, ServerTimer, client, streams, polling
  <2> QED BY <1>3, <2>1 DEF LinkTypes
<1>9. ASSUME NEW s \in Session, ServerInserts(s) PROVE LinkTypes' /\ Heard'
  <2>1. /\ UNCHANGED <<down, inboxC, ping, age, ageC, second, peer, openC, closedC>>
        /\ inbox' = [inbox EXCEPT ![s] = Append(@, "READY")]
    BY <1>9 DEF ServerInserts, client, streams
  <2>2. phase[s] = "joined"
    <3>1. /\ home[s] # None /\ workTasks[home[s]] # <<>>
          /\ Head(workTasks[home[s]]) = Do("run", s)
      BY <1>9 DEF ServerInserts, Insert, WorkerTakes
    <3>2. home[s] \in Worker /\ workTasks[home[s]] \in Seq(WorkTask)
      BY <3>1, QueuesTyped DEF IInv, TypeOK
    <3>3. 1 \in DOMAIN workTasks[home[s]] /\ workTasks[home[s]][1] = Do("run", s)
      BY <3>1, <3>2, TailIs
    <3> QED BY <3>2, <3>3 DEF IInv, Tables, WorkJoined, Do
  <2> QED BY <1>2, <1>4, <2>1, <2>2 DEF LinkTypes
<1>10. ASSUME NEW s \in Session, ServerPolls(s) \/ ServerReceives(s) PROVE LinkTypes' /\ Heard'
  <2>0. Aged(age[s]) \in Int /\ 0 \in Int
    BY DEF Aged, LinkTypes
  <2>1. /\ UNCHANGED <<down, inboxC, ageC, second, openC, closedC>>
        /\ \E q : inbox' = [inbox EXCEPT ![s] = q]
        /\ ping' = [ping EXCEPT ![s] = "sent"]
        /\ \E a \in Int : age' = [age EXCEPT ![s] = a]
        /\ peer' = peer \/ peer' = s
    <3>1. CASE ServerPolls(s)
      BY <2>0, <3>1 DEF ServerPolls, Pinged, client, streams
    <3>2. CASE ServerReceives(s)
      BY <2>0, <3>2 DEF ServerReceives, client
    <3> QED BY <1>10, <3>1, <3>2
  <2>2. phase[s] = "joined"
    BY <1>10 DEF ServerPolls, ServerReceives, Runs
  <2>3. LinkTypes'
    BY <2>1 DEF LinkTypes
  <2>4. \A t \in Session \ {s} : inbox'[t] = inbox[t] /\ age'[t] = age[t]
    BY <1>2, <2>1 DEF LinkTypes
  <2> QED BY <1>4, <2>1, <2>2, <2>3, <2>4
<1>11. ASSUME NEW s \in Session, ClientReceives(s) PROVE LinkTypes' /\ Heard'
  <2>1. /\ UNCHANGED <<ping, age, inbox, second, openC, closedC>> /\ ageC' = 0 /\ peer' = s
        /\ inboxC' = Queue(inboxC, Head(down[s]))
        /\ down' = [down EXCEPT ![s] = Tail(down[s])]
        /\ Finds(down[s])
    BY <1>11 DEF ClientReceives, polling
  <2>2. down[s] \in Seq(Spoken) /\ inboxC \in Seq(Spoken)
    BY DEF LinkTypes
  <2>3. down[s] # <<>>
    BY <2>1, <2>2, FindsSmall
  <2>4. Head(down[s]) \in Spoken /\ Tail(down[s]) \in Seq(Spoken)
    BY <2>2, <2>3, HoldsTail
  <2>5. inboxC' \in Seq(Spoken)
    BY <2>1, <2>2, <2>4, HoldsQueue
  <2>6. phase[s] = "joined"
    BY <2>3 DEF Heard
  <2>7. LinkTypes'
    BY <2>1, <2>4, <2>5 DEF LinkTypes
  <2> QED BY <1>4, <2>1, <2>6, <2>7 DEF LinkTypes
<1>12. ASSUME NEW s \in Session, HandleOrSend(s) PROVE LinkTypes' /\ Heard'
  <2> DEFINE q == IF ~closed[s] /\ Head(inbox[s]) \in {"READY", "REQ"}
                  THEN Queue(down[s], Head(inbox[s])) ELSE down[s]
  <2>1. /\ UNCHANGED <<ping, age, ageC, inboxC, peer, second, openC, closedC>>
        /\ inbox[s] # <<>>
        /\ inbox' = [inbox EXCEPT ![s] = Tail(inbox[s])]
        /\ down' = [down EXCEPT ![s] = q]
    BY <1>12 DEF HandleOrSend, client
  <2>2. q \in Seq(Spoken)
    BY HoldsQueue DEF LinkTypes, Spoken
  <2> HIDE DEF q
  <2>3. LinkTypes'
    BY <2>1, <2>2 DEF LinkTypes
  <2>4. phase[s] = "joined"
    BY <2>1 DEF Heard
  <2> QED BY <1>2, <1>4, <2>1, <2>3, <2>4 DEF LinkTypes
<1>13. CASE Tick
  <2>1. UNCHANGED <<down, inboxC, second, openC, closedC, inbox, peer>>
    BY <1>13 DEF Tick, streams
  <2>2. /\ ageC' = IF closedC \/ ageC \in {-1, PongTimeout + 1} THEN ageC ELSE ageC + 1
        /\ age' = [s \in Session |-> IF ~Runs(s) \/ age[s] \in {-1, PongTimeout + 1} THEN age[s] ELSE age[s] + 1]
        /\ ping' = [s \in Session |-> IF Runs(s) /\ ping[s] # "new" THEN "due" ELSE ping[s]]
    BY <1>13 DEF Tick
  <2>3. LinkTypes'
    BY <2>1, <2>2 DEF LinkTypes
  <2>4. \A s \in Session : age[s] = -1 => age'[s] = -1
    BY <2>2
  <2>5. Heard'
    BY <1>1, <1>2, <2>1, <2>4 DEF Heard
  <2> QED BY <2>3, <2>5
<1> QED BY <1>5, <1>6, <1>7, <1>8, <1>9, <1>10, <1>11, <1>12, <1>13 DEF NextLink, Client, Server
(* The handshake happens once.                                             *)
hand == <<network, wire, phaseC, hashC, second, home, phase>>

LEMMA AddsJoining ==
  ASSUME IInv, NEW s \in Session, MainTakes("add", s)
  PROVE  phase[s] = "joining" /\ uid[s] \in Uid
<1>1. mainTasks \in Seq(MainTask) /\ mainTasks # <<>> /\ Head(mainTasks) = Do("add", s)
  BY QueuesTyped DEF IInv, MainTakes
<1>2. 1 \in DOMAIN mainTasks /\ mainTasks[1] = Do("add", s)
  BY <1>1, TailIs
<1>3. phase[s] = "joining"
  BY <1>2 DEF IInv, Queues, MainPhases, Do
<1> QED BY <1>3 DEF IInv, TypeOK

LEMMA OnceStep ==
  ASSUME IInv, ChannelTypes, LinkTypes, Once, [NextLink]_linkVars
  PROVE  Once'
<1> DEFINE Goal == Fresh' /\ OneSession' /\ OneDatagram' /\ Joins' /\ Dated'
<1> SUFFICES ASSUME Good, Reachable' PROVE Goal
  BY NetworkStays DEF Once, Good, Handshake
<1>r. Reachable
  BY ReachableBefore
<1>0. Fresh /\ OneSession /\ OneDatagram /\ Joins /\ Dated
  BY <1>r DEF Once, Handshake
<1>t. /\ phase \in [Session -> {"none", "greeting", "waiting", "joining", "joined", "ended"}]
      /\ home \in [Session -> Worker \cup {None}] /\ second \in [Session -> Second \cup {None}]
  BY DEF IInv, TypeOK, LinkTypes
<1>1. ASSUME UNCHANGED hand PROVE Goal
  BY <1>0, <1>1 DEF hand, Fresh, OneSession, OneDatagram, Connects, Greets, Answers, Hash, Joins,
     Dated
<1>2. CASE ConnectC
  <2>1. /\ wire = {} /\ \A s \in Session : phase[s] = "none"
        /\ phaseC' = "waiting"
        /\ wire' = {Datagram("connect", None)} /\ phase' = phase /\ second' = second
    BY <1>0, <1>2 DEF ConnectC, Fresh, vars
  <2>2. Connects(Datagram("connect", None))'
    BY <2>1 DEF Connects, Datagram
  <2> QED BY <1>0, <2>1, <2>2 DEF Fresh, OneSession, OneDatagram, Joins, Dated
<1>3. ASSUME NEW s \in Session, NEW e \in Endpoint, ServerConnect(s, e) PROVE Goal
  <2> DEFINE d == Datagram("connect", None)
  <2>0. PICK g : g = Datagram("greeting", <<home'[s], second'[s]>>)
    OBVIOUS
  <2>1. /\ d \in wire /\ wire' = (wire \ {d}) \cup IF phase'[s] = "greeting" THEN {g} ELSE {}
        /\ UNCHANGED phaseC
    BY <1>3, <2>0 DEF ServerConnect, Receive, client
  <2>2. d.what = "connect" /\ ~Greets(d) /\ ~Answers(d)
    BY DEF Datagram, Greets, Answers
  <2>3. wire = {d} /\ phaseC = "waiting" /\ \A t \in Session : phase[t] = "none"
    BY <1>0, <2>1, <2>2 DEF OneDatagram, Connects
  <2>4. wire' \subseteq {g} /\ (wire' # {} => phase'[s] = "greeting")
    BY <2>1, <2>3
  <2>5. \A t \in Session : phase'[t] # "none" => t = s /\ phase'[t] \in {"greeting", "ended"}
    BY <1>3, <1>t, <2>3 DEF ServerConnect, Connect
  <2>6. phase'[s] = "greeting" => Greets(g)'
    BY <2>0, <2>1, <2>3 DEF Greets, Hash
  <2> HIDE DEF d
  <2>7. OneDatagram'
    BY <2>4, <2>6 DEF OneDatagram
  <2>8. second'[s] \in Second
    BY <1>3, <1>t DEF ServerConnect
  <2> QED BY <1>0, <2>1, <2>3, <2>5, <2>7, <2>8 DEF Fresh, OneSession, Joins, Dated
<1>4. ASSUME NEW s \in Session, ServerGreeted(s) PROVE Goal
  <2>1. /\ phase[s] = "greeting" /\ UNCHANGED <<wire, phaseC, hashC, second, home>>
        /\ phase'[s] \in {"waiting", "ended"} /\ \A t \in Session \ {s} : phase'[t] = phase[t]
    BY <1>4, <1>t DEF ServerGreeted, GreetingSent, client, made
  <2>2. ASSUME NEW x \in wire PROVE (Greets(x) \/ Answers(x))'
    <3>1. Greets(x) \/ Answers(x)
      BY <1>0, <2>1, <2>2 DEF OneDatagram, Connects
    <3>2. Greets(x) => Greets(x)'
      BY <2>1 DEF Greets, Hash
    <3>3. Answers(x) => Answers(x)'
      BY <2>1 DEF Answers, Hash
    <3> QED BY <3>1, <3>2, <3>3
  <2>3. OneDatagram'
    BY <1>0, <2>1, <2>2 DEF OneDatagram
  <2>4. Joins' /\ OneSession' /\ Fresh' /\ Dated'
    BY <1>0, <2>1 DEF Joins, OneSession, Fresh, Hash, Dated
  <2> QED BY <2>3, <2>4
<1>5. ASSUME NEW h, Greeted(h) PROVE Goal
  <2> DEFINE d == Datagram("greeting", h)
             a == Datagram("answer", h)
  <2>1. /\ phaseC = "waiting" /\ d \in wire /\ UNCHANGED <<second, home, phase>>
        /\ \/ phaseC' = "inited" /\ hashC' = h /\ wire' = (wire \ {d}) \cup {a}
           \/ phaseC' = "failed" /\ wire' = wire \ {d}
    BY <1>5 DEF Greeted, Receive, vars, made
  <2>2. d.what # "connect" /\ ~Answers(d)
    BY <2>1 DEF Datagram, Answers
  <2>3. wire = {d} /\ Greets(d)
    BY <1>0, <2>1, <2>2 DEF OneDatagram, Connects
  <2>4. PICK s \in Session : phase[s] # "none" /\ h = Hash(s)
    BY <2>3 DEF Greets, Datagram
  <2>5. \A t \in Session : phase[t] \notin {"joining", "joined"}
    BY <1>0, <2>1 DEF Joins
  <2>6. phaseC' = "inited" => wire' = {a} /\ Answers(a)'
    <3>1. phase[s] \in {"greeting", "waiting", "ended"}
      BY <1>t, <2>4, <2>5
    <3> QED BY <2>1, <2>3, <2>4, <3>1 DEF Answers, Hash
  <2>7. phaseC' # "inited" => phaseC' = "failed" /\ wire' = {}
    BY <2>1, <2>3
  <2> HIDE DEF d, a
  <2>8. OneDatagram'
    BY <2>6, <2>7 DEF OneDatagram
  <2> QED BY <1>0, <2>1, <2>5, <2>7, <2>8 DEF Fresh, OneSession, Joins, Dated
<1>6. ASSUME NEW e \in Endpoint, NEW u \in Uid, NEW h, ServerAnswered(e, u, h) PROVE Goal
  <2> DEFINE d == Datagram("answer", h)
             t == preSessions[e]
  <2>1. /\ d \in wire /\ wire' = wire \ {d} /\ UNCHANGED <<phaseC, hashC, second>>
        /\ \/ UNCHANGED vars
           \/ Answer(e, u) /\ phase'[t] = IF Signed(t, h) THEN "joining" ELSE "ended"
    BY <1>6 DEF ServerAnswered, Receive, client
  <2>2. d.what # "connect" /\ ~Greets(d)
    BY DEF Datagram, Greets
  <2>3. wire = {d} /\ Answers(d)
    BY <1>0, <2>1, <2>2 DEF OneDatagram, Connects
  <2>4. phaseC = "inited" /\ hashC = h /\ wire' = {}
    BY <2>1, <2>3 DEF Answers, Datagram
  <2>5. \A x \in Session : phase[x] \notin {"joining", "joined"}
    BY <1>0, <2>3 DEF Joins
  <2>6. Fresh' /\ OneDatagram'
    BY <1>0, <2>1, <2>4 DEF Fresh, OneDatagram
  <2>7. CASE UNCHANGED vars
    BY <1>0, <2>1, <2>5, <2>6, <2>7 DEF vars, OneSession, Joins, Dated
  <2>8. CASE Answer(e, u) /\ phase'[t] = IF Signed(t, h) THEN "joining" ELSE "ended"
    <3>0. PICK x \in Session : x = t /\ phase[x] = "waiting"
      BY <2>8 DEF Answer, IInv, TypeOK, PreWaits
    <3>1. x = t /\ phase[x] = "waiting"
      BY <3>0
    <3>2. /\ UNCHANGED home /\ phase'[x] \in {"joining", "ended"}
          /\ \A y \in Session \ {x} : phase'[y] = phase[y]
          /\ phase'[x] = "joining" => Signed(x, h)
      BY <1>t, <2>8, <3>1 DEF Answer, made
    <3>3. phase'[x] = "joining" => h = Hash(x)'
      BY <2>1, <3>2 DEF Signed, Hash
    <3> HIDE DEF t, d
    <3>4. OneSession' /\ Dated'
      BY <1>0, <2>1, <3>1, <3>2 DEF OneSession, Dated
    <3>5. Joins'
      BY <2>1, <2>4, <2>5, <3>1, <3>2, <3>3 DEF Joins
    <3> QED BY <2>6, <3>4, <3>5
  <2> QED BY <2>1, <2>7, <2>8
<1>7. ASSUME NEW s \in Session, AddSession(s),
             UNCHANGED <<network, wire, phaseC, hashC, second>>
      PROVE  Goal
  <2>1. phase[s] = "joining" /\ phase' = [phase EXCEPT ![s] = "joined"] /\ UNCHANGED home
    BY <1>7, AddsJoining DEF AddSession, made
  <2>2. phaseC = "inited" /\ wire = {} /\ hashC = Hash(s)
    BY <1>0, <2>1 DEF Joins
  <2>3. Fresh' /\ OneDatagram'
    BY <1>0, <1>7, <2>2 DEF Fresh, OneDatagram
  <2>4. \A t \in Session : phase'[t] # "none" => phase[t] # "none"
    BY <1>t, <2>1
  <2>5. \A t \in Session : phase'[t] \in {"joining", "joined"} => phase[t] \in {"joining", "joined"}
    BY <1>t, <2>1
  <2>6. OneSession' /\ Joins' /\ Dated'
    BY <1>0, <1>7, <2>1, <2>4, <2>5 DEF OneSession, Joins, Hash, Dated
  <2> QED BY <2>3, <2>6
<1>8. CASE WaitFailsC
  BY <1>r, <1>8 DEF WaitFailsC, Reachable
<1>9. CASE ArmTimerC \/ TimerRunsC \/ PureArrives \/ UserCloses \/ HandleMessageC \/ ClientPolls \/ Tick \/ (\E m \in Message : ClientSends(m))
           \/ UNCHANGED linkVars
  <2>1. UNCHANGED hand
    BY <1>9 DEF hand, ArmTimerC, TimerRunsC, PureArrives, PureHandled, PureTooLong, PureUdpTooLong, UserCloses,
       HandleMessageC, ClientPolls, Tick, ClientSends, linkVars, client, vars, made
  <2> QED BY <1>1, <2>1
<1>10. ASSUME NEW s \in Session,
              ServerTimer(s) \/ ServerInserts(s) \/ ServerPolls(s) \/ ServerReceives(s) \/ HandleOrSend(s)
              \/ ClientReceives(s)
       PROVE  Goal
  <2>1. UNCHANGED hand
    BY <1>10 DEF hand, ServerTimer, TimerRuns, ServerInserts, Insert, ServerPolls, DoReadRemoves, ServerReceives,
       HandleOrSend, ClientReceives, client, vars, made
  <2> QED BY <1>1, <2>1
<1>11. CASE ServerInside
  <2>1. UNCHANGED <<network, wire, phaseC, hashC, second>>
    BY <1>11 DEF ServerInside, client
  <2>2. \/ \E s \in Session : AddSession(s)
        \/ UNCHANGED <<phase, made>>
    BY <1>11 DEF ServerInside, MainStep, RemoveSelfImpl, Erase, RemovePosted
  <2>3. CASE UNCHANGED <<phase, made>>
    BY <1>1, <2>1, <2>3 DEF hand, made
  <2> QED BY <1>7, <2>1, <2>2, <2>3
<1> HIDE DEF Goal
<1> QED BY <1>2, <1>3, <1>4, <1>5, <1>6, <1>7, <1>8, <1>9, <1>10, <1>11
     DEF NextLink, Client, Server, Arrival
(* Where nobody is about to be removed and every age is a second at most,  *)
(* nobody comes to be.                                                     *)
kept == <<closed, waitRemove, removing, mainTasks, workTasks, sessions, phase, uid>>

LEMMA NoRemoval ==
  ASSUME IInv, Handshake, Unremoved, ServerHeard, [NextLink]_linkVars
  PROVE  \/ UNCHANGED kept
         \/ \E s \in Session, e \in Endpoint : Connect(s, e)
         \/ \E s \in Session : GreetingSent(s) \/ Insert(s) \/ AddSession(s)
         \/ \E e \in Endpoint, u \in Uid : Answer(e, u)
<1>1. ASSUME NEW s \in Session, RemoveSelfImpl(s) PROVE FALSE
  <2>1. mainTasks \in Seq(MainTask) /\ mainTasks # <<>> /\ Head(mainTasks) = Do("remove", s)
    BY <1>1, QueuesTyped DEF IInv, RemoveSelfImpl, MainTakes
  <2>2. 1 \in DOMAIN mainTasks /\ mainTasks[1] = Do("remove", s)
    BY <2>1, TailIs
  <2> QED BY <2>2 DEF Unremoved, Do
<1>2. ASSUME NEW s \in Session, Erase(s) PROVE FALSE
  <2>1. /\ home[s] # None /\ workTasks[home[s]] # <<>>
        /\ Head(workTasks[home[s]]) = Do("erase", s)
    BY <1>2 DEF Erase, WorkerTakes
  <2>2. home[s] \in Worker /\ workTasks[home[s]] \in Seq(WorkTask)
    BY <2>1, QueuesTyped DEF IInv, TypeOK
  <2>3. 1 \in DOMAIN workTasks[home[s]] /\ workTasks[home[s]][1] = Do("erase", s)
    BY <2>1, <2>2, TailIs
  <2> QED BY <2>2, <2>3 DEF Unremoved, Do
<1>3. ASSUME NEW s \in Session, RemovePosted(s) PROVE FALSE
  BY <1>3 DEF RemovePosted, Unremoved
<1>4. CASE ServerInside
  <2>1. \E s \in Session : AddSession(s)
    BY <1>1, <1>2, <1>3, <1>4 DEF ServerInside, MainStep
  <2> QED BY <2>1
<1>5. ASSUME NEW s \in Session, ServerPolls(s) PROVE UNCHANGED kept
  <2>1. phase[s] = "joined"
    BY <1>5 DEF ServerPolls, Runs
  <2>2. ~(age[s] > PongTimeout)
    BY <2>1, TimeoutAssumption DEF ServerHeard
  <2> QED BY <1>5, <2>2 DEF ServerPolls, kept, vars, flags
<1>6. ASSUME NEW s \in Session, Server(s)
      PROVE  UNCHANGED kept \/ GreetingSent(s) \/ Insert(s)
  BY <1>5, <1>6 DEF Server, ServerGreeted, ServerTimer, TimerRuns, ServerInserts, HandleOrSend, ServerReceives,
     kept, vars, flags
<1>7. CASE PureArrives
  BY <1>7 DEF PureArrives, PureHandled, PureTooLong, PureUdpTooLong, kept, made, vars, flags
<1>8. UNCHANGED vars => UNCHANGED kept
  BY DEF kept, vars, flags
<1>9. CASE Arrival
  BY <1>8, <1>9 DEF Arrival, Greeted, ServerAnswered, ServerConnect
<1>10. UNCHANGED linkVars => UNCHANGED vars
  BY DEF linkVars
<1> QED BY <1>4, <1>6, <1>7, <1>8, <1>9, <1>10, ClientLeavesServer DEF NextLink

LEMMA UnremovedStep ==
  ASSUME IInv, Handshake, Unremoved, ServerHeard, [NextLink]_linkVars
  PROVE  Unremoved'
<1>t. /\ phase \in [Session -> {"none", "greeting", "waiting", "joining", "joined", "ended"}]
      /\ mainTasks \in Seq(MainTask) /\ workTasks \in [Worker -> Seq(WorkTask)]
      /\ sessions \in [Uid -> Session \cup {None}] /\ uid \in [Session -> Uid \cup {None}]
  BY QueuesTyped DEF IInv, TypeOK, WorkTask
<1>u. /\ \A s \in Session : ~closed[s] /\ ~waitRemove[s] /\ ~removing[s]
      /\ \A i \in DOMAIN mainTasks : mainTasks[i].do = "add"
      /\ \A w \in Worker : \A i \in DOMAIN workTasks[w] : workTasks[w][i].do = "run"
      /\ \A s \in Session : phase[s] = "joined" => sessions[uid[s]] = s
  BY DEF Unremoved
<1>1. CASE UNCHANGED kept
  BY <1>u, <1>1 DEF kept, Unremoved
<1>2. ASSUME NEW s \in Session, NEW e \in Endpoint, Connect(s, e) PROVE Unremoved'
  BY <1>t, <1>u, <1>2 DEF Connect, flags, Unremoved
<1>3. ASSUME NEW s \in Session, GreetingSent(s) PROVE Unremoved'
  BY <1>t, <1>u, <1>3 DEF GreetingSent, flags, Unremoved
<1>4. ASSUME NEW e \in Endpoint, NEW u \in Uid, Answer(e, u) PROVE Unremoved'
  <2>1. PICK s \in Session : s = preSessions[e] /\ phase[s] = "waiting"
    BY <1>4 DEF Answer, IInv, TypeOK, PreWaits
  <2>2. /\ UNCHANGED <<closed, waitRemove, removing, workTasks, sessions>>
        /\ uid' = uid \/ uid' = [uid EXCEPT ![s] = u]
        /\ mainTasks' = mainTasks \/ mainTasks' = Append(mainTasks, Do("add", s))
        /\ \A t \in Session : phase'[t] = "joined" => phase[t] = "joined" /\ t # s
    BY <1>t, <1>4, <2>1 DEF Answer, flags
  <2>3. \A i \in DOMAIN mainTasks' : mainTasks'[i].do = "add"
    <3>1. Do("add", s) \in MainTask /\ Do("add", s).do = "add"
      BY DEF Do, MainTask
    <3>2. \A i \in DOMAIN Append(mainTasks, Do("add", s)) : Append(mainTasks, Do("add", s))[i].do = "add"
      BY <1>t, <1>u, <3>1, Appended
    <3> QED BY <1>u, <2>2, <3>2
  <2>4. \A t \in Session : t # s => uid'[t] = uid[t]
    BY <1>t, <2>2
  <2> QED BY <1>u, <2>2, <2>3, <2>4 DEF Unremoved
<1>5. ASSUME NEW s \in Session, AddSession(s) PROVE Unremoved'
  <2>1. /\ phase[s] = "joining" /\ uid[s] \in Uid /\ mainTasks # <<>> /\ home[s] \in Worker
    BY <1>5, AddsJoining DEF AddSession, MainTakes, IInv, Housed
  <2>2. sessions[uid[s]] = None
    <3> SUFFICES ASSUME sessions[uid[s]] # None PROVE FALSE
      OBVIOUS
    <3>1. sessions[uid[s]] \in Session /\ phase[sessions[uid[s]]] = "joined"
      BY <1>t, <2>1 DEF IInv, Tables, TableJoined
    <3> QED BY <2>1, <3>1 DEF Handshake, OneSession
  <2>3. /\ UNCHANGED <<closed, waitRemove, removing, uid>> /\ mainTasks' = Tail(mainTasks)
        /\ sessions' = [sessions EXCEPT ![uid[s]] = s] /\ phase' = [phase EXCEPT ![s] = "joined"]
        /\ workTasks' = [workTasks EXCEPT ![home[s]] = Append(workTasks[home[s]], Do("run", s))]
    BY <1>5, <2>2 DEF AddSession, Close, PostToWorker
  <2>4. \A i \in DOMAIN mainTasks' : mainTasks'[i].do = "add"
    BY <1>t, <1>u, <2>1, <2>3, TailIs
  <2>5. ASSUME NEW w \in Worker, NEW i \in DOMAIN workTasks'[w] PROVE workTasks'[w][i].do = "run"
    <3>1. CASE w # home[s]
      BY <1>t, <1>u, <2>1, <2>3, <2>5, <3>1
    <3>2. CASE w = home[s]
      <4>1. /\ Do("run", s) \in WorkTask /\ Do("run", s).do = "run" /\ workTasks[w] \in Seq(WorkTask)
            /\ workTasks'[w] = Append(workTasks[w], Do("run", s))
        BY <1>t, <2>1, <2>3, <3>2 DEF Do, WorkTask
      <4> QED BY <1>u, <2>5, <4>1, Appended
    <3> QED BY <3>1, <3>2
  <2>6. ASSUME NEW t \in Session, phase'[t] = "joined" PROVE sessions'[uid'[t]] = t
    <3>1. t = s
      BY <1>t, <2>1, <2>3, <2>6 DEF Handshake, OneSession
    <3> QED BY <1>t, <2>1, <2>3, <3>1
  <2> QED BY <1>u, <2>3, <2>4, <2>5, <2>6 DEF Unremoved
<1>6. ASSUME NEW s \in Session, Insert(s) PROVE Unremoved'
  <2>1. /\ UNCHANGED <<closed, waitRemove, removing, mainTasks, sessions, phase, uid>>
        /\ home[s] \in Worker /\ workTasks[home[s]] # <<>>
        /\ workTasks' = [workTasks EXCEPT ![home[s]] = Tail(workTasks[home[s]])]
    BY <1>6 DEF Insert, WorkerTakes, flags, IInv, TypeOK
  <2>2. ASSUME NEW w \in Worker, NEW i \in DOMAIN workTasks'[w] PROVE workTasks'[w][i].do = "run"
    <3>1. CASE w # home[s]
      BY <1>t, <1>u, <2>1, <2>2, <3>1
    <3>2. CASE w = home[s]
      <4>1. workTasks[w] \in Seq(WorkTask) /\ workTasks[w] # <<>> /\ workTasks'[w] = Tail(workTasks[w])
        BY <1>t, <2>1, <3>2
      <4> QED BY <1>u, <2>2, <4>1, TailIs
    <3> QED BY <3>1, <3>2
  <2> QED BY <1>u, <2>1, <2>2 DEF Unremoved
<1> QED BY <1>1, <1>2, <1>3, <1>4, <1>5, <1>6, NoRemoval
(* Pings and their answers go on.                                          *)
LEMMA HeardStep ==
  ASSUME IInv, ChannelTypes, LinkTypes, Heard, Good, Reachable, Handshake, Unremoved, ClientHeard, ServerHeard,
         [NextLink]_linkVars
  PROVE  ClientHeard' /\ ServerHeard'
<1>o. Fresh /\ OneSession /\ OneDatagram /\ Joins /\ Dated
  BY DEF Handshake
<1>t. /\ phase \in [Session -> {"none", "greeting", "waiting", "joining", "joined", "ended"}]
      /\ inbox \in [Session -> Seq(Word)] /\ down \in [Session -> Seq(Spoken)]
      /\ inboxC \in Seq(Spoken) /\ up \in Seq(Word)
      /\ age \in [Session -> Int] /\ ageC \in Int
      /\ ping \in [Session -> {"new", "sent", "due"}]
      /\ Message \subseteq Word /\ "READY" \in Word /\ "REQ" \in Word /\ "ACK" \in Word
      /\ "READY" \in Spoken /\ "REQ" \in Spoken
  BY Apart DEF IInv, TypeOK, ChannelTypes, LinkTypes, Control, Spoken
<1>c. /\ phaseC \in {"new", "waiting"} => ageC = -1 /\ ~closedC
      /\ phaseC = "inited" /\ wire # {} => ageC \in {-1, 0} /\ ~closedC
      /\ \A s \in Session : phase[s] \in {"joining", "joined"} =>
           ~closedC /\ ageC \in {-1, 0, 1} /\ (ageC = 1 => phase[s] = "joined" /\ Asked(s))
  BY DEF ClientHeard
<1>s. \A s \in Session : phase[s] = "joined" => age[s] \in {-1, 0, 1} /\ (age[s] = 1 => Replied(s))
  BY DEF ServerHeard
<1>h. \A s \in Session : phase[s] # "joined" => inbox[s] = <<>> /\ down[s] = <<>> /\ age[s] = -1
  BY DEF Heard
<1>j. \A s \in Session : phase[s] \in {"joining", "joined"} => phaseC = "inited" /\ wire = {}
  BY <1>o DEF Joins

(* Steps that move no message. *)
<1>1. ASSUME UNCHANGED <<age, ping, inbox, down, inboxC, up>> PROVE ServerHeard'
  BY <1>s, <1>h, <1>1 DEF ServerHeard, Replied
<1>2. ASSUME UNCHANGED <<phase, phaseC, wire, ageC, closedC, ping, inbox, down>> PROVE ClientHeard'
  BY <1>2 DEF ClientHeard, Asked
<1>3. CASE ConnectC
  BY <1>1, <1>3, <1>c, <1>j DEF ConnectC, ClientHeard, streams, polling, vars
<1>4. ASSUME NEW s \in Session, NEW e \in Endpoint, ServerConnect(s, e) PROVE ClientHeard' /\ ServerHeard'
  <2> DEFINE d == Datagram("connect", None)
  <2>1. /\ d \in wire /\ UNCHANGED <<phaseC, ageC, closedC, age, ping, inbox, down, inboxC, up>>
    BY <1>4 DEF ServerConnect, Receive, client, streams, polling
  <2>2. phaseC = "waiting" /\ \A t \in Session : phase[t] = "none"
    <3>1. d.what = "connect" /\ ~Greets(d) /\ ~Answers(d)
      BY DEF Datagram, Greets, Answers
    <3> QED BY <1>o, <2>1, <3>1 DEF OneDatagram, Connects
  <2>3. \A t \in Session : phase'[t] \notin {"joining", "joined"}
    BY <1>4, <1>t, <2>2 DEF ServerConnect, Connect
  <2> QED BY <1>1, <1>c, <2>1, <2>2, <2>3 DEF ClientHeard
<1>5. ASSUME NEW s \in Session, ServerGreeted(s) \/ ServerTimer(s) PROVE ClientHeard' /\ ServerHeard'
  <2>1. UNCHANGED <<phaseC, wire, ageC, closedC, age, ping, inbox, down, inboxC, up>>
    BY <1>5 DEF ServerGreeted, ServerTimer, client, streams, polling
  <2>2. \A t \in Session : phase'[t] \in {"joining", "joined"} => phase'[t] = phase[t]
    BY <1>5, <1>t DEF ServerGreeted, ServerTimer, GreetingSent, TimerRuns
  <2> QED BY <1>1, <1>c, <2>1, <2>2 DEF ClientHeard, Asked
<1>6. ASSUME NEW h, Greeted(h) PROVE ClientHeard' /\ ServerHeard'
  <2>1. /\ phaseC = "waiting" /\ phaseC' \in {"inited", "failed"}
        /\ UNCHANGED <<phase, ageC, closedC, age, ping, inbox, down, inboxC, up>>
    BY <1>6 DEF Greeted, streams, polling, vars
  <2> QED BY <1>1, <1>c, <1>j, <2>1 DEF ClientHeard
<1>7. ASSUME NEW e \in Endpoint, NEW u \in Uid, NEW h, ServerAnswered(e, u, h)
      PROVE  ClientHeard' /\ ServerHeard'
  <2> DEFINE d == Datagram("answer", h)
  <2>1. /\ d \in wire /\ wire' = wire \ {d}
        /\ UNCHANGED <<phaseC, ageC, closedC, age, ping, inbox, down, inboxC, up>>
    BY <1>7 DEF ServerAnswered, Receive, client, streams, polling
  <2>2. phaseC = "inited"
    <3>1. d.what # "connect" /\ ~Greets(d)
      BY DEF Datagram, Greets
    <3> QED BY <1>o, <2>1, <3>1 DEF OneDatagram, Connects, Answers
  <2>3. ageC \in {-1, 0} /\ ~closedC
    BY <1>c, <2>1, <2>2
  <2> HIDE DEF d
  <2> QED BY <1>1, <2>1, <2>2, <2>3 DEF ClientHeard
<1>8. CASE ServerInside
  <2>1. UNCHANGED <<phaseC, wire, ageC, closedC, age, ping, inbox, down, inboxC, up>>
    BY <1>8 DEF ServerInside, client, streams, polling
  <2>2. \A t \in Session : phase'[t] \in {"joining", "joined"} =>
          phase[t] \in {"joining", "joined"} /\ (phase[t] = "joined" => phase'[t] = "joined")
    <3>1. ASSUME NEW s \in Session, AddSession(s)
          PROVE  phase[s] = "joining" /\ phase' = [phase EXCEPT ![s] = "joined"]
      BY <3>1, AddsJoining DEF AddSession
    <3>2. UNCHANGED phase \/ \E s \in Session : AddSession(s)
      BY <1>8 DEF ServerInside, MainStep, RemoveSelfImpl, Erase, RemovePosted
    <3> QED BY <1>t, <3>1, <3>2
  <2> QED BY <1>1, <1>c, <2>1, <2>2 DEF ClientHeard, Asked
<1>9. CASE ArmTimerC \/ TimerRunsC \/ PureArrives \/ UserCloses \/ WaitFailsC
  <2>1. CASE UserCloses \/ WaitFailsC
    BY <2>1 DEF UserCloses, WaitFailsC, Reachable
  <2>2. CASE ArmTimerC \/ TimerRunsC \/ PureArrives
    <3>1. UNCHANGED <<phase, phaseC, wire, ageC, closedC, age, ping, inbox, down, inboxC, up>>
      BY <2>2 DEF ArmTimerC, TimerRunsC, PureArrives, PureHandled, PureTooLong, PureUdpTooLong, client, streams,
         polling, vars
    <3> QED BY <1>1, <1>2, <3>1
  <2> QED BY <1>9, <2>1, <2>2
<1>10. CASE ClientPolls
  <2>1. /\ phaseC = "inited" /\ ageC' = Aged(ageC) /\ closedC' = (closedC \/ ageC > PongTimeout)
        /\ UNCHANGED <<phase, phaseC, wire, age, ping, inbox, down, inboxC, up>>
    BY <1>10 DEF ClientPolls, streams, polling, vars
  <2>2. ageC \in {-1, 0, 1} /\ ~closedC => closedC' = FALSE
    <3> SUFFICES ASSUME ageC \in {-1, 0, 1}, ~closedC PROVE closedC' = FALSE
      OBVIOUS
    <3>1. ~(ageC > PongTimeout)
      BY TimeoutAssumption
    <3>2. (closedC \/ ageC > PongTimeout) = FALSE
      BY <3>1
    <3> QED BY <2>1, <3>2
  <2>3. /\ ageC \in {-1, 0} => ageC' = 0
        /\ ageC = 1 => ageC' = 1
    BY <2>1 DEF Aged
  <2> QED BY <1>1, <1>c, <2>1, <2>2, <2>3 DEF ClientHeard, Asked
<1>11. CASE UNCHANGED linkVars
  BY <1>1, <1>2, <1>11 DEF linkVars, client, streams, polling, vars

(* Steps that move one. *)
<1>12. ASSUME NEW s \in Session, ServerInserts(s) \/ ServerPolls(s) PROVE ClientHeard' /\ ServerHeard'
  <2> DEFINE q == IF ping[s] = "due" THEN Queue(inbox[s], "REQ") ELSE inbox[s]
  <2>1. UNCHANGED <<phase, phaseC, wire, ageC, closedC, down, inboxC, up>>
    BY <1>12 DEF ServerInserts, Insert, ServerPolls, DoReadRemoves, client, streams, vars
  <2>2. /\ \A t \in Session \ {s} : inbox'[t] = inbox[t] /\ ping'[t] = ping[t] /\ age'[t] = age[t]
        /\ ping[s] = "due" => ping'[s] = "due" \/ "REQ" \in Elements(inbox'[s])
        /\ "REQ" \in Elements(inbox[s]) => "REQ" \in Elements(inbox'[s])
        /\ age'[s] = age[s] \/ age'[s] = Aged(age[s])
    <3>1. CASE ServerInserts(s)
      <4>1. inbox' = [inbox EXCEPT ![s] = Append(inbox[s], "READY")] /\ UNCHANGED <<ping, age>>
        BY <3>1 DEF ServerInserts
      <4>2. inbox[s] \in Seq(Word)
        BY <1>t
      <4>3. Elements(Append(inbox[s], "READY")) = Elements(inbox[s]) \cup {"READY"}
        BY <1>t, <4>2, HoldsAppend
      <4> QED BY <1>t, <4>1, <4>3
    <3>2. CASE ServerPolls(s)
      <4>1. /\ inbox' = [inbox EXCEPT ![s] = q] /\ ping' = [ping EXCEPT ![s] = "sent"]
            /\ age' = [age EXCEPT ![s] = Aged(age[s])]
        BY <3>2 DEF ServerPolls, Pinged
      <4>2. inbox[s] \in Seq(Word)
        BY <1>t
      <4>3. Elements(Queue(inbox[s], "REQ")) = Elements(inbox[s]) \cup {"REQ"}
        BY <1>t, <4>2, HoldsQueue
      <4> QED BY <1>t, <4>1, <4>3
    <3> QED BY <1>12, <3>1, <3>2
  <2> HIDE DEF q
  <2>3. \A t \in Session : Asked(t) => Asked(t)'
    BY <2>1, <2>2 DEF Asked
  <2>4. \A t \in Session : Replied(t) => Replied(t)'
    BY <2>1, <2>2 DEF Replied
  <2>5. \A t \in Session : phase[t] = "joined" => age'[t] \in {-1, 0, 1} /\ (age'[t] = 1 => age[t] = 1)
    BY <1>s, <2>2 DEF Aged
  <2> QED BY <1>c, <1>s, <2>1, <2>3, <2>4, <2>5 DEF ClientHeard, ServerHeard
<1>13. ASSUME NEW s \in Session, ServerReceives(s) PROVE ClientHeard' /\ ServerHeard'
  <2> DEFINE q == IF ping[s] = "due" THEN Queue(inbox[s], "REQ") ELSE inbox[s]
             r == IF Head(up) = "ACK" THEN <<>> ELSE <<Head(up)>>
  <2>1. /\ UNCHANGED <<phase, phaseC, wire, ageC, closedC, down, inboxC>>
        /\ inbox' = [inbox EXCEPT ![s] = q \o r] /\ ping' = [ping EXCEPT ![s] = "sent"]
        /\ age' = [age EXCEPT ![s] = 0] /\ phase[s] = "joined" /\ Finds(up)
    BY <1>13 DEF ServerReceives, Runs, client, vars
  <2>2. q \in Seq(Word) /\ Elements(inbox[s]) \subseteq Elements(q)
        /\ (ping[s] = "due" => "REQ" \in Elements(q))
    <3>1. inbox[s] \in Seq(Word) /\ "REQ" \in Word
      BY <1>t
    <3>2. Queue(inbox[s], "REQ") \in Seq(Word)
      BY <3>1, HoldsQueue
    <3>3. Elements(Queue(inbox[s], "REQ")) = Elements(inbox[s]) \cup {"REQ"}
      BY <3>1, HoldsQueue
    <3> QED BY <3>1, <3>2, <3>3
  <2>3. r \in Seq(Word)
    <3>1. up # <<>>
      BY <1>t, <2>1, FindsSmall
    <3>2. Head(up) \in Word
      BY <1>t, <3>1, HoldsTail
    <3> QED BY <3>2, EmptySeq
  <2> HIDE DEF q, r
  <2>4. Elements(q) \subseteq Elements(q \o r)
    <3>1. \A i \in DOMAIN q : i \in DOMAIN (q \o r) /\ (q \o r)[i] = q[i]
      BY <2>2, <2>3, ConcatProperties, LenProperties
    <3> QED BY <3>1 DEF Elements
  <2>5. \A t \in Session : Asked(t) => Asked(t)'
    BY <1>t, <2>1, <2>2, <2>4 DEF Asked
  <2>6. \A t \in Session : phase[t] = "joined" => age'[t] = 0
    BY <1>o, <1>t, <2>1 DEF OneSession
  <2> QED BY <1>c, <2>1, <2>5, <2>6 DEF ClientHeard, ServerHeard
<1>14. ASSUME NEW s \in Session, ClientReceives(s) PROVE ClientHeard' /\ ServerHeard'
  <2> DEFINE m == Head(down[s])
  <2>1. /\ UNCHANGED <<phase, phaseC, wire, closedC, age, ping, inbox, up>> /\ ageC' = 0
        /\ inboxC' = Queue(inboxC, m) /\ down' = [down EXCEPT ![s] = Tail(down[s])]
        /\ Finds(down[s])
    BY <1>14 DEF ClientReceives, polling, vars
  <2>2. down[s] \in Seq(Spoken) /\ down[s] # <<>>
    BY <1>t, <2>1, FindsSmall
  <2>3. m \in Spoken /\ Elements(down[s]) = {m} \cup Elements(Tail(down[s]))
    BY <2>2, HoldsTail
  <2> HIDE DEF m
  <2>4. Elements(Queue(inboxC, m)) = Elements(inboxC) \cup {m}
    <3>1. inboxC \in Seq(Spoken) /\ m \in Spoken
      BY <1>t, <2>3
    <3> QED BY <3>1, HoldsQueue
  <2>5. phase[s] = "joined"
    BY <1>h, <2>2
  <2>6. Replied(s) => Replied(s)'
    BY <1>t, <2>1, <2>3, <2>4 DEF Replied
  <2>7. \A t \in Session : phase[t] = "joined" => t = s
    BY <1>o, <2>5 DEF OneSession
  <2>8. ServerHeard'
    BY <1>s, <2>1, <2>6, <2>7 DEF ServerHeard
  <2>9. ClientHeard'
    BY <1>c, <1>j, <2>1, <2>5 DEF ClientHeard
  <2> QED BY <2>8, <2>9
<1>15. ASSUME NEW m \in Message, ClientSends(m) PROVE ClientHeard' /\ ServerHeard'
  <2>1. /\ UNCHANGED <<phase, phaseC, wire, ageC, closedC, age, ping, inbox, down, inboxC>>
        /\ up' = Queue(up, m)
    BY <1>15 DEF ClientSends, polling, vars
  <2>2. up' # <<>>
    <3>1. m \in Word /\ up \in Seq(Word)
      BY <1>t
    <3> QED BY <2>1, <3>1, HoldsQueue
  <2> QED BY <1>2, <1>s, <2>1, <2>2 DEF ServerHeard, Replied
<1>16. CASE HandleMessageC
  <2>1. /\ UNCHANGED <<phase, phaseC, wire, ageC, closedC, age, ping, inbox, down>>
        /\ inboxC # <<>> /\ inboxC' = Tail(inboxC)
        /\ up' = IF ~closedC /\ Head(inboxC) = "REQ" THEN Queue(up, "ACK") ELSE up
    BY <1>16 DEF HandleMessageC, polling, vars
  <2>2. Elements(inboxC) = {Head(inboxC)} \cup Elements(Tail(inboxC))
    BY <1>t, <2>1, HoldsTail
  <2>3. Queue(up, "ACK") # <<>>
    BY <1>t, HoldsQueue
  <2>4. ASSUME NEW s \in Session, phase[s] = "joined", Replied(s) PROVE Replied(s)'
    <3>1. ~closedC
      BY <1>c, <2>4
    <3> QED BY <2>1, <2>2, <2>3, <2>4, <3>1 DEF Replied
  <2> QED BY <1>2, <1>s, <2>1, <2>4 DEF ServerHeard
<1>17. ASSUME NEW s \in Session, HandleOrSend(s) PROVE ClientHeard' /\ ServerHeard'
  <2> DEFINE m == Head(inbox[s])
  <2>1. /\ UNCHANGED <<phase, phaseC, wire, ageC, closedC, age, ping, inboxC, up>>
        /\ inbox[s] # <<>> /\ inbox' = [inbox EXCEPT ![s] = Tail(inbox[s])]
        /\ down' = [down EXCEPT ![s] = IF m \in {"READY", "REQ"} THEN Queue(down[s], m) ELSE down[s]]
    BY <1>17 DEF HandleOrSend, client, vars, Unremoved
  <2>2. Elements(inbox[s]) = {m} \cup Elements(Tail(inbox[s]))
    <3>1. inbox[s] \in Seq(Word)
      BY <1>t
    <3> QED BY <2>1, <3>1, HoldsTail
  <2>3. m \in Spoken => /\ Queue(down[s], m) # <<>>
                        /\ Elements(Queue(down[s], m)) = Elements(down[s]) \cup {m}
    <3> SUFFICES ASSUME m \in Spoken
                 PROVE  /\ Queue(down[s], m) # <<>>
                        /\ Elements(Queue(down[s], m)) = Elements(down[s]) \cup {m}
      OBVIOUS
    <3>1. down[s] \in Seq(Spoken)
      BY <1>t
    <3> HIDE DEF m
    <3>2. Queue(down[s], m) # <<>>
      BY <3>1, HoldsQueue
    <3>3. Elements(Queue(down[s], m)) = Elements(down[s]) \cup {m}
      BY <3>1, HoldsQueue
    <3> QED BY <3>2, <3>3
  <2> HIDE DEF m
  <2>4. /\ \A t \in Session \ {s} : inbox'[t] = inbox[t] /\ down'[t] = down[t]
        /\ "REQ" \in Elements(inbox[s]) => "REQ" \in Elements(inbox'[s]) \/ "REQ" \in Elements(down'[s])
        /\ "REQ" \in Elements(inbox[s]) => "REQ" \in Elements(inbox'[s]) \/ down'[s] # <<>>
        /\ "REQ" \in Elements(down[s]) => "REQ" \in Elements(down'[s])
        /\ down[s] # <<>> => down'[s] # <<>>
    BY <1>t, <2>1, <2>2, <2>3 DEF Spoken
  <2>5. \A t \in Session : Asked(t) => Asked(t)'
    BY <2>1, <2>4 DEF Asked
  <2>6. \A t \in Session : Replied(t) => Replied(t)'
    BY <2>1, <2>4 DEF Replied
  <2> QED BY <1>c, <1>s, <2>1, <2>5, <2>6 DEF ClientHeard, ServerHeard

(* A second passes when nothing is on the way. *)
<1>18. CASE Tick
  <2>1. /\ Quiet /\ UNCHANGED <<phase, phaseC, wire, closedC>>
        /\ ageC' = IF closedC \/ ageC \in {-1, PongTimeout + 1} THEN ageC ELSE ageC + 1
        /\ age' = [s \in Session |->
                     IF ~Runs(s) \/ age[s] \in {-1, PongTimeout + 1} THEN age[s] ELSE age[s] + 1]
        /\ ping' = [s \in Session |-> IF Runs(s) /\ ping[s] # "new" THEN "due" ELSE ping[s]]
    BY <1>18 DEF Tick, vars
  <2>r. openC /\ hearsC /\ loops > 0 /\ Big \cap Elements(up) = {}
    BY DEF Reachable
  <2>2. wire = {} /\ mainTasks = <<>> /\ \A w \in Worker : workTasks[w] = <<>>
    <3>1. ASSUME NEW d \in wire PROVE FALSE
      <4>1. ~Awaited(d)
        BY <2>1 DEF Quiet, Idle
      <4>2. d.what = "greeting" /\ phaseC # "waiting"
        BY <2>r, <4>1 DEF Awaited
      <4>3. Answers(d)
        BY <1>o, <4>2 DEF OneDatagram, Connects, Greets
      <4> QED BY <4>2, <4>3 DEF Answers, Datagram
    <3> QED BY <2>1, <3>1 DEF Quiet
  <2>3. \A s \in Session : phase[s] # "joining"
    BY <2>2 DEF IInv, Queues, JoiningIsQueued
  <2>4. ASSUME NEW s \in Session, phase[s] = "joined"
        PROVE  /\ age[s] = 0 /\ ageC = 0
               /\ age'[s] = 1 /\ ageC' = 1 /\ ping'[s] = "due"
    <3>1. sessions[uid[s]] = s /\ uid[s] \in Uid
      BY <2>4 DEF Unremoved, IInv, TypeOK
    <3>2. Alone(s)
      <4> SUFFICES ASSUME NEW t \in Session \ {s}, uid[t] = uid[s] PROVE FALSE
        BY DEF Alone
      <4>1. phase[t] # "none"
        BY <3>1, NoneAssumption DEF IInv, Keyless
      <4> QED BY <1>o, <2>4, <4>1 DEF OneSession
    <3>3. Runs(s)
      <4>1. Registered(s) /\ home[s] \in Worker
        BY <2>4, <3>1, NoneAssumption DEF Registered, IInv, Housed
      <4>2. workTasks[home[s]] = <<>>
        BY <2>2, <4>1
      <4> QED BY <3>2, <4>1, <4>2 DEF IInv, Tables, Polled
    <3>4. Linked(s)
      <4>1. phaseC = "inited" /\ hashC = Hash(s) /\ openC
        BY <1>o, <2>r, <2>4 DEF Joins
      <4>2. hashC # None /\ hashC[1] = home[s]
        <5>1. home[s] \in Worker
          BY <2>4 DEF IInv, Housed
        <5>2. second[s] \in Second
          BY <1>o, <2>4 DEF Dated
        <5> QED BY <4>1, <5>1, <5>2, HashAssumption DEF Hash
      <4>3. peer \in {None, s}
        <5>1. peer # None => peer \in Session /\ phase[peer] = "joined"
          BY DEF Heard, ChannelTypes
        <5> QED BY <1>o, <2>4, <5>1 DEF OneSession
      <4> QED BY <4>1, <4>2, <4>3 DEF Linked
    <3>5. /\ age[s] # -1 /\ ping[s] = "sent" /\ Fits(up) = 0 /\ Fits(down[s]) = 0
          /\ inboxC = <<>> /\ inbox[s] = <<>> /\ ageC # -1
      BY <1>j, <2>1, <2>r, <2>4, <3>3, <3>4 DEF Quiet
    <3>6. up = <<>>
      BY <1>t, <2>r, <3>5, FitsAll
    <3>7. down[s] = <<>>
      <4>1. down[s] \in Seq(Spoken)
        BY <1>t
      <4>2. Elements(down[s]) \subseteq Spoken
        BY <4>1, ElementOfSeq, LenProperties DEF Elements
      <4>3. Big \cap Spoken = {}
        BY MessageAssumption DEF Spoken
      <4>4. Big \cap Elements(down[s]) = {}
        BY <4>2, <4>3
      <4> QED BY <3>5, <4>1, <4>4, FitsAll
    <3>8. ~Replied(s) /\ ~Asked(s)
      BY <3>5, <3>6, <3>7, HoldsNothing DEF Replied, Asked
    <3>9. age[s] = 0 /\ ageC = 0
      BY <1>c, <1>s, <2>4, <3>5, <3>8
    <3>10. 0 \notin {-1, PongTimeout + 1}
      BY TimeoutAssumption
    <3>11. ~closedC
      BY <1>c, <2>4
    <3> QED BY <2>1, <3>3, <3>5, <3>9, <3>10, <3>11
  <2>5. ServerHeard'
    BY <2>1, <2>4 DEF ServerHeard, Replied
  <2>6. ClientHeard'
    BY <1>c, <2>1, <2>2, <2>3, <2>4 DEF ClientHeard, Asked
  <2> QED BY <2>5, <2>6
<1> QED BY <1>3, <1>4, <1>5, <1>6, <1>7, <1>8, <1>9, <1>10, <1>11, <1>12, <1>13, <1>14, <1>15, <1>16, <1>17,
           <1>18 DEF NextLink, Client, Server, Arrival

(* On a good network nobody is taken for dead as long as each side can     *)
(* reach the other (Reachable: the init timer has not closed the client's  *)
(* socket, pure UDP messages have not ended its receive loop or the last   *)
(* of the server's, what was sent fits), however many sessions the server  *)
(* may have and however long it takes to give a session up.                *)
THEOREM KcpLinkLiveStays == SpecLink => []LiveStays
<1>1. InitLink => LiveInv
  BY InitLive
<1>2. IInv /\ ChannelInv /\ LiveInv /\ [NextLink]_linkVars => LiveInv'
  <2> SUFFICES ASSUME IInv, ChannelInv, LiveInv, [NextLink]_linkVars PROVE LiveInv'
    OBVIOUS
  <2>1. ChannelTypes /\ LinkTypes /\ Heard /\ Once /\ Calm
    BY DEF ChannelInv, LiveInv
  <2>2. LinkTypes' /\ Heard' /\ Once'
    BY <2>1, TypesStep, OnceStep
  <2>3. Calm'
    <3> SUFFICES ASSUME Good, Reachable' PROVE Unremoved' /\ ClientHeard' /\ ServerHeard'
      BY NetworkStays DEF Calm, Good
    <3>1. Reachable
      BY <2>1, ReachableBefore
    <3>2. Unremoved /\ ClientHeard /\ ServerHeard /\ Handshake
      BY <2>1, <3>1 DEF Calm, Once
    <3> QED BY <2>1, <3>1, <3>2, UnremovedStep, HeardStep
  <2> QED BY <2>2, <2>3 DEF LiveInv
<1>3. IInv /\ LiveInv => LiveStays
  <2> SUFFICES ASSUME IInv, Calm, Good, Reachable, NEW s \in Session, Registered(s)
               PROVE  ~waitRemove[s] /\ ~removing[s] /\ ~closedC
    BY DEF LiveInv, LiveStays
  <2>1. phase[s] = "joined"
    <3>1. uid[s] \in Uid /\ sessions[uid[s]] = s
      BY DEF Registered, IInv, TypeOK
    <3> QED BY <3>1, NoneAssumption DEF IInv, Tables, TableJoined
  <2> QED BY <2>1 DEF Calm, Unremoved, ClientHeard
<1>4. SpecLink => []IInv
  BY KcpLinkImplementsServer, KcpInvariant, PTL
<1>5. SpecLink => []ChannelInv
  <2>1. InitLink => ChannelInv
    BY InitChannel
  <2>2. IInv /\ ChannelInv /\ [NextLink]_linkVars => ChannelInv'
    BY LinkStep
  <2> QED BY <1>4, <2>1, <2>2, PTL DEF SpecLink
<1> QED BY <1>1, <1>2, <1>3, <1>4, <1>5, PTL DEF SpecLink
=============================================================================
