------------------------------ MODULE MysqlProofs ------------------------------
(***************************************************************************)
(* Proofs about the connection pool and the phases that use it, for any    *)
(* number of tasks, services, connections and statements.                  *)
(***************************************************************************)
EXTENDS MysqlPhase, TLAPS, SequenceTheorems, FiniteSetTheorems, WellFoundedInduction

(* Every set of natural numbers that is not empty has a least member.      *)
LEMMA Least ==
  ASSUME NEW B, B \subseteq Nat, B # {}
  PROVE  \E n \in B : \A k \in B : n <= k
<1> DEFINE R == {ss \in Nat \X Nat : ss[1] < ss[2]}
<1>1. IsWellFoundedOn(R, Nat)
  BY NatLessThanWellFounded DEF OpToRel
<1>2. \A x, y \in Nat : <<y, x>> \in R <=> y < x
  OBVIOUS
<1>3. PICK n \in B : \A k \in B : ~ (<<k, n>> \in R)
  <2> HIDE DEF R
  <2> QED BY <1>1, WFMin
<1>4. \A k \in B : ~ (k < n)
  BY <1>2, <1>3
<1> QED BY <1>4

(* A sum of natural numbers: the members of a bag are numbered 1 .. n, w   *)
(* gives their weights, and S the sums up to each of them.                 *)
PartialSums(S, w, n) ==
  /\ S \in [0 .. n -> Int] /\ S[0] = 0
  /\ \A t \in 1 .. n : S[t] = S[t-1] + w[t]

(* Sums of natural numbers are natural numbers ...                         *)
LEMMA SumNonNegative ==
  ASSUME NEW n \in Nat, NEW S, NEW w, PartialSums(S, w, n), \A t \in 1 .. n : w[t] \in Nat
  PROVE  \A m \in 0 .. n : S[m] \in Nat
<1> DEFINE B == {m \in 0 .. n : S[m] \notin Nat}
<1> SUFFICES ASSUME B # {} PROVE FALSE
  OBVIOUS
<1>1. PICK m \in B : \A k \in B : m <= k
  <2>1. B \subseteq Nat
    OBVIOUS
  <2> HIDE DEF B
  <2> QED BY <2>1, Least
<1>2. m # 0 /\ m \in 1 .. n /\ m-1 \in 0 .. n /\ m-1 \notin B
  BY <1>1 DEF PartialSums
<1>3. S[m] = S[m-1] + w[m]
  BY <1>2 DEF PartialSums
<1> QED BY <1>1, <1>2, <1>3

(* ... and only grow ...                                                   *)
LEMMA SumGrows ==
  ASSUME NEW n \in Nat, NEW S, NEW w, PartialSums(S, w, n), \A t \in 1 .. n : w[t] \in Nat,
         NEW a \in 0 .. n, NEW b \in a .. n
  PROVE  S[a] <= S[b]
<1> DEFINE B == {m \in a .. n : S[m] < S[a]}
<1>0. S \in [0 .. n -> Int]
  BY DEF PartialSums
<1> SUFFICES ASSUME B # {} PROVE FALSE
  BY SMTT(30), <1>0
<1>1. PICK m \in B : \A k \in B : m <= k
  <2>1. B \subseteq Nat
    OBVIOUS
  <2> HIDE DEF B
  <2> QED BY <2>1, Least
<1>2. m # a /\ m \in 1 .. n /\ m-1 \in a .. n /\ m-1 \notin B
  BY <1>0, <1>1
<1>3. S[m] = S[m-1] + w[m] /\ S[m] < S[a] /\ S[m-1] >= S[a]
  BY <1>0, <1>1, <1>2 DEF PartialSums
<1> QED BY <1>0, <1>2, <1>3

(* ... so that each term is at most the sum.                               *)
LEMMA SumBoundsTerm ==
  ASSUME NEW n \in Nat, NEW S, NEW w, PartialSums(S, w, n), \A t \in 1 .. n : w[t] \in Nat,
         NEW t \in 1 .. n
  PROVE  w[t] <= S[n]
<1>1. S[t-1] \in Nat /\ S[t] = S[t-1] + w[t]
  <2>1. t-1 \in 0 .. n
    OBVIOUS
  <2> QED BY <2>1, SumNonNegative DEF PartialSums
<1>2. S[t] <= S[n]
  BY SumGrows
<1> QED BY <1>1, <1>2 DEF PartialSums

(* A sum of zeros is zero.                                                 *)
LEMMA SumOfZeros ==
  ASSUME NEW n \in Nat, NEW S, NEW w, PartialSums(S, w, n), \A t \in 1 .. n : w[t] = 0
  PROVE  S[n] = 0
<1> DEFINE B == {m \in 0 .. n : S[m] # 0}
<1> SUFFICES ASSUME B # {} PROVE FALSE
  OBVIOUS
<1>1. PICK m \in B : \A k \in B : m <= k
  <2>1. B \subseteq Nat
    OBVIOUS
  <2> HIDE DEF B
  <2> QED BY <2>1, Least
<1>2. m # 0 /\ m \in 1 .. n /\ m-1 \in 0 .. n /\ m-1 \notin B
  BY <1>1 DEF PartialSums
<1>3. S[m] = S[m-1] + w[m]
  BY <1>2 DEF PartialSums
<1> QED BY <1>1, <1>2, <1>3

(* To change a term is to change the sum by as much.                       *)
LEMMA SumChange ==
  ASSUME NEW n \in Nat, NEW S, NEW w, PartialSums(S, w, n), NEW t \in 1 .. n, NEW v \in Int,
         \A u \in 1 .. n : w[u] \in Int, NEW x, x[t] = v, \A u \in 1 .. n : u # t => x[u] = w[u]
  PROVE  \E Q : PartialSums(Q, x, n) /\ Q[n] = S[n] - w[t] + v
<1> DEFINE Q == [m \in 0 .. n |-> IF m < t THEN S[m] ELSE S[m] - w[t] + v]
<1>1. /\ S \in [0 .. n -> Int] /\ S[0] = 0
      /\ \A u \in 1 .. n : S[u] = S[u-1] + w[u]
  BY DEF PartialSums
<1>2. Q \in [0 .. n -> Int] /\ Q[0] = 0
  BY SMTT(30), <1>1
<1>3. ASSUME NEW u \in 1 .. n PROVE Q[u] = Q[u-1] + x[u]
  <2>1. /\ u-1 \in 0 .. n /\ u \in 0 .. n /\ S[u] = S[u-1] + w[u]
        /\ S[u] \in Int /\ S[u-1] \in Int /\ w[u] \in Int /\ w[t] \in Int
    BY <1>1
  <2>2. CASE u < t
    BY <1>1, <2>1, <2>2
  <2>3. CASE u = t
    BY <1>1, <2>1, <2>3
  <2>4. CASE u > t
    <3>1. x[u] = w[u] /\ u-1 >= t
      BY <2>4
    <3>2. Q[u] = S[u] - w[t] + v /\ Q[u-1] = S[u-1] - w[t] + v
      BY SMTT(30), <1>1, <2>1, <2>4, <3>1
    <3> HIDE DEF Q
    <3> QED BY <2>1, <3>1, <3>2
  <2> QED BY <1>1, <2>2, <2>3, <2>4
<1>4. PartialSums(Q, x, n)
  BY <1>2, <1>3 DEF PartialSums
<1>5. Q[n] = S[n] - w[t] + v
  BY <1>1
<1> QED BY <1>4, <1>5

USE PoolSizeAssumption, NoConnAssumption

(* The connections in the queue and in users' hands are those established. *)
PoolInv == PoolTypeOK /\ ConnectionsConserved

LEMMA PoolInitInv == PoolInit => PoolInv
<1> SUFFICES ASSUME PoolInit PROVE PoolInv
  OBVIOUS
<1> DEFINE first == [i \in 1 .. established |-> i]
<1>1. established \in Conn /\ established \in Nat /\ idle = first /\ open = TRUE
      /\ held = [u \in User |-> None]
  BY DEF PoolInit, Conn
<1>2. \A i \in 1 .. established : first[i] \in Conn
  BY <1>1 DEF Conn
<1>3. first \in Seq(Conn)
  BY <1>1, <1>2, IsASeq
<1>4. PoolTypeOK
  BY <1>1, <1>3 DEF PoolTypeOK
<1>5. ConnectionsConserved
  BY <1>1 DEF ConnectionsConserved, Conn
<1> QED BY <1>4, <1>5 DEF PoolInv

LEMMA PopConnInv ==
  ASSUME PoolInv, NEW u \in User, PopConn(u)
  PROVE  PoolInv'
<1>1. /\ idle \in Seq(Conn) /\ idle # <<>> /\ held \in [User -> Conn \cup {None}]
      /\ held[u] = None /\ held' = [held EXCEPT ![u] = idle[1]]
      /\ idle' = Tail(idle) /\ established' = established /\ open' = open
  BY DEF PoolInv, PoolTypeOK, PopConn
<1>2. /\ Len(idle) \in Nat /\ Len(idle) >= 1 /\ DOMAIN idle = 1 .. Len(idle)
      /\ idle' \in Seq(Conn) /\ Len(idle') = Len(idle) - 1
      /\ DOMAIN idle' = 1 .. Len(idle) - 1
      /\ \A i \in 1 .. Len(idle) - 1 : idle'[i] = idle[i+1]
  BY <1>1, HeadTailProperties, LenProperties, EmptySeq
<1>3. idle[1] \in Conn /\ idle[1] # None
  BY <1>1, <1>2, ElementOfSeq DEF Conn
<1>4. PoolTypeOK'
  BY <1>1, <1>2, <1>3 DEF PoolInv, PoolTypeOK
<1>5. \A i, j \in DOMAIN idle' : idle'[i] = idle'[j] => i = j
  <2> SUFFICES ASSUME NEW i \in DOMAIN idle', NEW j \in DOMAIN idle', idle'[i] = idle'[j]
               PROVE  i = j
    OBVIOUS
  <2>1. i+1 \in DOMAIN idle /\ j+1 \in DOMAIN idle /\ idle[i+1] = idle[j+1] /\ i \in Nat /\ j \in Nat
    BY <1>2
  <2>2. i+1 = j+1
    BY <2>1 DEF PoolInv, ConnectionsConserved
  <2> QED BY <2>1, <2>2
<1>6. \A v \in User, i \in DOMAIN idle' : held'[v] # idle'[i]
  <2> SUFFICES ASSUME NEW v \in User, NEW i \in DOMAIN idle'
               PROVE  held'[v] # idle'[i]
    OBVIOUS
  <2>1. i+1 \in DOMAIN idle /\ 1 \in DOMAIN idle /\ i \in Nat /\ i+1 # 1 /\ idle'[i] = idle[i+1]
    BY <1>2
  <2>2. idle[i+1] # idle[1] /\ held[v] # idle[i+1]
    BY <2>1 DEF PoolInv, ConnectionsConserved
  <2> QED BY <1>1, <2>1, <2>2
<1>7. \A v, w \in User : held'[v] = held'[w] /\ held'[v] # None => v = w
  <2>1. 1 \in DOMAIN idle
    BY <1>2
  <2>2. \A v \in User : held[v] # idle[1]
    BY <2>1 DEF PoolInv, ConnectionsConserved
  <2> QED BY <1>1, <2>2 DEF PoolInv, ConnectionsConserved
<1>8. open' => \A c \in 1 .. established' :
        (\E i \in DOMAIN idle' : idle'[i] = c) \/ (\E v \in User : held'[v] = c)
  <2> SUFFICES ASSUME open, NEW c \in 1 .. established
               PROVE  (\E i \in DOMAIN idle' : idle'[i] = c) \/ (\E v \in User : held'[v] = c)
    BY <1>1
  <2>1. CASE \E i \in DOMAIN idle : idle[i] = c
    <3>1. PICK i \in DOMAIN idle : idle[i] = c
      BY <2>1
    <3>2. CASE i = 1
      BY <1>1, <3>1, <3>2
    <3>3. CASE i # 1
      <4>1. i-1 \in DOMAIN idle' /\ idle'[i-1] = idle[i]
        BY <1>2, <3>3
      <4> QED BY <3>1, <4>1
    <3> QED BY <3>2, <3>3
  <2>2. CASE \E v \in User : held[v] = c
    <3>1. PICK v \in User : held[v] = c
      BY <2>2
    <3>2. c # None
      BY DEF PoolInv, PoolTypeOK, Conn
    <3>3. v # u /\ held'[v] = c
      BY <1>1, <3>1, <3>2
    <3> QED BY <3>3
  <2> QED BY <2>1, <2>2 DEF PoolInv, ConnectionsConserved
<1>9. ConnectionsConserved'
  BY <1>5, <1>6, <1>7, <1>8 DEF ConnectionsConserved
<1> QED BY <1>4, <1>9 DEF PoolInv

LEMMA PushConnInv ==
  ASSUME PoolInv, NEW u \in User, PushConn(u)
  PROVE  PoolInv'
<1>1. /\ idle \in Seq(Conn) /\ held \in [User -> Conn \cup {None}]
      /\ held[u] # None /\ held[u] \in Conn /\ held' = [held EXCEPT ![u] = None]
      /\ idle' = Append(idle, held[u]) /\ established' = established /\ open' = open
  BY DEF PoolInv, PoolTypeOK, PushConn
<1>2. /\ idle' \in Seq(Conn) /\ Len(idle') = Len(idle) + 1
      /\ \A i \in 1 .. Len(idle) : idle'[i] = idle[i]
      /\ idle'[Len(idle) + 1] = held[u]
  BY <1>1, AppendProperties
<1>3. DOMAIN idle' = 1 .. Len(idle) + 1 /\ DOMAIN idle = 1 .. Len(idle) /\ Len(idle) \in Nat
  BY <1>1, <1>2, LenProperties
<1>4. PoolTypeOK'
  BY <1>1, <1>2 DEF PoolInv, PoolTypeOK
<1>5. \A i \in DOMAIN idle' : \/ i = Len(idle) + 1 /\ idle'[i] = held[u]
                              \/ i \in DOMAIN idle /\ idle'[i] = idle[i]
  BY <1>2, <1>3
<1>6. /\ \A i, j \in DOMAIN idle : idle[i] = idle[j] => i = j
      /\ \A v \in User, i \in DOMAIN idle : held[v] # idle[i]
      /\ \A v, w \in User : held[v] = held[w] /\ held[v] # None => v = w
  BY DEF PoolInv, ConnectionsConserved
<1>7. \A i, j \in DOMAIN idle' : idle'[i] = idle'[j] => i = j
  BY <1>5, <1>6
<1>8. \A i \in DOMAIN idle' : idle'[i] \in Conn /\ idle'[i] # None
  BY <1>2, ElementOfSeq, <1>3 DEF Conn
<1>9. \A v \in User, i \in DOMAIN idle' : held'[v] # idle'[i]
  BY <1>1, <1>5, <1>6, <1>8
<1>10. \A v, w \in User : held'[v] = held'[w] /\ held'[v] # None => v = w
  BY <1>1, <1>6
<1>11. open' => \A c \in 1 .. established' :
         (\E i \in DOMAIN idle' : idle'[i] = c) \/ (\E v \in User : held'[v] = c)
  <2> SUFFICES ASSUME open, NEW c \in 1 .. established
               PROVE  (\E i \in DOMAIN idle' : idle'[i] = c) \/ (\E v \in User : held'[v] = c)
    BY <1>1
  <2>1. CASE \E i \in DOMAIN idle : idle[i] = c
    BY <1>2, <1>3, <2>1
  <2>2. CASE held[u] = c
    BY <1>2, <1>3, <2>2
  <2>3. CASE \E v \in User \ {u} : held[v] = c
    BY <1>1, <2>3
  <2> QED BY <2>1, <2>2, <2>3 DEF PoolInv, ConnectionsConserved
<1>12. ConnectionsConserved'
  BY <1>7, <1>9, <1>10, <1>11 DEF ConnectionsConserved
<1> QED BY <1>4, <1>12 DEF PoolInv

LEMMA ClosePoolInv ==
  ASSUME PoolInv, ClosePool
  PROVE  PoolInv'
<1>1. idle' = <<>> /\ open' = FALSE /\ established' = established /\ held' = held
  BY DEF ClosePool
<1>2. PoolTypeOK'
  BY <1>1, EmptySeq DEF PoolInv, PoolTypeOK
<1>3. ConnectionsConserved'
  BY <1>1 DEF PoolInv, ConnectionsConserved
<1> QED BY <1>2, <1>3 DEF PoolInv

LEMMA PoolInvStep == PoolInv /\ [PoolNext]_poolVars => PoolInv'
<1> SUFFICES ASSUME PoolInv, [PoolNext]_poolVars PROVE PoolInv'
  OBVIOUS
<1>1. CASE UNCHANGED poolVars
  BY <1>1 DEF PoolInv, PoolTypeOK, ConnectionsConserved, poolVars
<1>2. ASSUME NEW u \in User, PopConn(u) PROVE PoolInv'
  BY <1>2, PopConnInv
<1>3. ASSUME NEW u \in User, PushConn(u) PROVE PoolInv'
  BY <1>3, PushConnInv
<1>4. CASE ClosePool
  BY <1>4, ClosePoolInv
<1> QED BY <1>1, <1>2, <1>3, <1>4 DEF PoolNext

(* Whoever uses a pool as PoolSpec says, and whatever its statements do,   *)
(* no connection is shared or lost: popConn and the destructor of          *)
(* MysqlConnection keep them.                                              *)
THEOREM PoolConserves == PoolSpec => []PoolInv
BY PoolInitInv, PoolInvStep, PTL DEF PoolSpec

(* Every step of a phase is a step of its pool or leaves it alone.         *)
LEMMA PhaseUsesPool == Next => [PoolNext]_poolVars
<1> SUFFICES ASSUME Next PROVE [PoolNext]_poolVars
  OBVIOUS
<1>1. CASE Tick
  BY <1>1 DEF Tick
<1>2. ASSUME NEW t \in Task, TaskStep(t) PROVE [PoolNext]_poolVars
  <2>1. t \in User
    BY PhaseAssumption
  <2>2. CASE GetMilliSeconds(t)
    BY <2>2 DEF GetMilliSeconds, ReadClock, StoreMillisecond, LoadMillisecond, KeepMillisecond,
                ReturnMillisecond
  <2>3. CASE LoadRecord(t) \/ Swap(t) \/ PoolEmpty(t) \/ AddCounts(t) \/ MarkDone(t)
    BY <2>3 DEF LoadRecord, Swap, PoolEmpty, AddCounts, MarkDone
  <2>4. CASE TakeConn(t)
    BY <2>1, <2>4 DEF TakeConn, PoolNext
  <2>5. CASE Queried(t)
    BY <2>1, <2>5 DEF Queried, PoolNext
  <2> QED BY <1>2, <2>2, <2>3, <2>4, <2>5 DEF TaskStep
<1>3. CASE Runner
  BY <1>3 DEF Runner, Post, ReadResult
<1>4. CASE EndOfProgram
  BY <1>4 DEF EndOfProgram, PoolNext
<1> QED BY <1>1, <1>2, <1>3, <1>4 DEF Next

(* A phase uses its pool as the pool may be used: what is proved of the    *)
(* pool holds in every phase.                                              *)
THEOREM PhaseImplementsPool == Spec => PoolSpec
<1>1. Init => PoolInit
  BY DEF Init
<1>2. [Next]_vars => [PoolNext]_poolVars
  <2>1. CASE UNCHANGED vars
    BY <2>1 DEF vars, poolVars
  <2> QED BY <2>1, PhaseUsesPool
<1> QED BY <1>1, <1>2, PTL DEF Spec, PoolSpec

(* In every phase, no two tasks have the same connection, and none is      *)
(* lost, whatever the statements do.                                       *)
THEOREM PhaseConserves == Spec => []ConnectionsConserved
<1>1. PoolInv => ConnectionsConserved
  BY DEF PoolInv
<1> QED BY <1>1, PoolConserves, PhaseImplementsPool, PTL

-----------------------------------------------------------------------------
(* The invariant of a phase.  The types, with counts that are not yet      *)
(* known to be bounded ...                                                 *)
PC == {"none", "entered", "store", "load", "keep", "return", "got", "swap",
       "working", "querying", "counted", "recorded", "over"}

Counts == [start : Time, end : Time, done : Nat, success : Nat, error : Nat]

PhaseTypes ==
  /\ established \in Conn
  /\ clock \in Clocks
  /\ time \in Time /\ millisecond \in Time /\ retMillisecond \in Time
  /\ service \in [Task -> Service \cup {None}]
  /\ pc \in [Task -> PC]
  /\ records \in [Task -> {"start", "end"}]
  /\ now \in [Task -> Time] /\ expected \in [Task -> Time]
  /\ left \in [Task -> Nat] /\ succ \in [Task -> Nat] /\ errs \in [Task -> Nat]
  /\ times \in [Task -> [start : Time, end : Time]]
  /\ coord \in Counts
  /\ result \in Counts \cup {None}

(* ... the tasks are posted in order, and those of a service run in order, *)
(* each to its end ...                                                     *)
Posting ==
  /\ \A t \in Task : service[t] = None <=> pc[t] = "none"
  /\ \A t, u \in Task : u < t /\ service[t] # None => service[u] # None

InTurn ==
  \A t, u \in Task :
    u < t /\ pc[t] \notin {"none", "entered"} /\ service[u] = service[t] => pc[u] = "over"

(* ... a task holds a connection while it queries for a statement ...      *)
Holding ==
  \A t \in Task : /\ held[t] # None <=> pc[t] = "querying"
                  /\ pc[t] = "querying" => left[t] > 0

(* ... the coordinator counts the tasks that are over, the runner reads    *)
(* when all are, and the pool closes after that.                           *)
Over == {t \in Task : pc[t] = "over"}

Finishing ==
  /\ coord.done = Cardinality(Over)
  /\ result # None => Over = Task
  /\ ~ open => result # None

PhaseInv == PoolInv /\ PhaseTypes /\ Posting /\ InTurn /\ Holding /\ Finishing

(* What the steps of a task have in common.                                *)
Moves(t) ==
  \E to \in PC \ {"none", "entered"} :
    /\ pc' = [pc EXCEPT ![t] = to]
    /\ pc[t] \notin {"none", "over"}
    /\ pc[t] = "entered" => Turn(t)

LEMMA TimeFacts == 0 \in Time /\ 1 \in Time /\ Time \subseteq Nat
BY PhaseAssumption DEF Time

LEMMA TaskFacts ==
  /\ Task \subseteq Nat /\ User = Task
  /\ IsFiniteSet(Task) /\ Cardinality(Task) = ThreadNum /\ ThreadNum \in Nat \ {0}
BY PhaseAssumption, FS_Interval DEF Task

LEMMA DistributeNat == \A t \in Task : DistributeOps(t) \in Nat
<1>1. TotalOps \div ThreadNum \in Nat /\ TotalOps % ThreadNum \in Nat
  BY PhaseAssumption
<1> QED BY <1>1 DEF DistributeOps

LEMMA InitPhaseInv == Init => PhaseInv
<1> SUFFICES ASSUME Init PROVE PhaseInv
  OBVIOUS
<1>1. PoolInv
  BY PoolInitInv DEF Init
<1>2. PhaseTypes
  <2>1. left \in [Task -> Nat]
    BY DistributeNat DEF Init
  <2> QED BY <1>1, <2>1, TimeFacts DEF Init, PhaseTypes, PC, Counts, PoolInv, PoolTypeOK
<1>3. Posting /\ InTurn /\ Holding
  BY PhaseAssumption DEF Init, PoolInit, Posting, InTurn, Holding
<1>4. Finishing
  <2>1. Over = {}
    BY DEF Init, Over
  <2> QED BY <2>1, FS_EmptySet DEF Init, PoolInit, Finishing
<1> QED BY <1>1, <1>2, <1>3, <1>4 DEF PhaseInv

LEMMA TaskStepMoves ==
  ASSUME PhaseTypes, NEW t \in Task, TaskStep(t)
  PROVE  /\ Moves(t) \/ pc' = pc
         /\ service' = service /\ result' = result /\ clock' = clock /\ time' = time
<1>1. CASE GetMilliSeconds(t)
  <2>1. CASE ReadClock(t)
    BY <2>1 DEF PhaseTypes, ReadClock, Goes, Moves, PC, clockVars
  <2>2. CASE StoreMillisecond(t) \/ LoadMillisecond(t)
    BY <2>2 DEF PhaseTypes, StoreMillisecond, LoadMillisecond, Goes, Moves, PC, clockVars
  <2>3. CASE KeepMillisecond(t) \/ ReturnMillisecond(t)
    BY <2>3 DEF PhaseTypes, KeepMillisecond, ReturnMillisecond, Goes, Moves, PC, clockVars
  <2> QED BY <1>1, <2>1, <2>2, <2>3 DEF GetMilliSeconds
<1>2. CASE LoadRecord(t) \/ Swap(t)
  BY <1>2 DEF PhaseTypes, LoadRecord, Swap, Recorded, Goes, Moves, PC, clockVars
<1>3. CASE TakeConn(t) \/ PoolEmpty(t) \/ Queried(t)
  BY <1>3 DEF PhaseTypes, TakeConn, PoolEmpty, Queried, Goes, Moves, PC, clockVars
<1>4. CASE AddCounts(t) \/ MarkDone(t)
  BY <1>4 DEF PhaseTypes, AddCounts, MarkDone, Goes, Moves, PC, clockVars
<1> QED BY <1>1, <1>2, <1>3, <1>4 DEF TaskStep

LEMMA TypesStep == ASSUME PhaseTypes, Holding, PoolInv', Next PROVE PhaseTypes'
<1>0. established' \in Conn
  BY DEF PoolInv, PoolTypeOK
<1>1. CASE Tick
  BY <1>0, <1>1, PhaseAssumption DEF Tick, PhaseTypes, Time, members, work
<1>2. ASSUME NEW t \in Task, TaskStep(t) PROVE PhaseTypes'
  <2>0. /\ pc' \in [Task -> PC] /\ service' = service /\ result' = result
        /\ clock' = clock /\ time' = time
    <3>1. /\ Moves(t) \/ pc' = pc
          /\ service' = service /\ result' = result /\ clock' = clock /\ time' = time
      BY <1>2, TaskStepMoves
    <3> QED BY <3>1 DEF Moves, PhaseTypes
  <2>1. CASE GetMilliSeconds(t)
    <3>1. /\ millisecond' \in Time /\ retMillisecond' \in Time /\ now' \in [Task -> Time]
          /\ UNCHANGED <<records, expected, work, times, coord>>
      BY <2>1 DEF PhaseTypes, GetMilliSeconds, ReadClock, StoreMillisecond, LoadMillisecond,
                  KeepMillisecond, ReturnMillisecond, clockVars
    <3> QED BY <1>0, <2>0, <3>1 DEF PhaseTypes, work
  <2>2. CASE LoadRecord(t)
    <3>1. /\ times' \in [Task -> [start : Time, end : Time]] /\ expected' \in [Task -> Time]
          /\ UNCHANGED <<millisecond, retMillisecond, now, records, work, coord>>
      BY <2>2 DEF PhaseTypes, LoadRecord, clockVars, Counts
    <3> QED BY <1>0, <2>0, <3>1 DEF PhaseTypes, work
  <2>3. CASE Swap(t)
    <3>1. /\ coord' \in Counts /\ expected' \in [Task -> Time]
          /\ UNCHANGED <<millisecond, retMillisecond, now, records, work, times>>
      BY <2>3 DEF PhaseTypes, Swap, clockVars, Counts
    <3> QED BY <1>0, <2>0, <3>1 DEF PhaseTypes, work
  <2>4. CASE TakeConn(t) \/ PoolEmpty(t) \/ Queried(t)
    <3>1. /\ left' \in [Task -> Nat] /\ succ' \in [Task -> Nat] /\ errs' \in [Task -> Nat]
          /\ UNCHANGED <<millisecond, retMillisecond, now, records, expected, times, coord>>
      <4>1. CASE TakeConn(t)
        BY <4>1 DEF PhaseTypes, TakeConn, clockVars, work
      <4>2. CASE PoolEmpty(t)
        BY <4>2 DEF PhaseTypes, PoolEmpty, clockVars
      <4>3. CASE Queried(t)
        BY <4>3 DEF PhaseTypes, Holding, Queried, Goes, clockVars
      <4> QED BY <2>4, <4>1, <4>2, <4>3
    <3> QED BY <1>0, <2>0, <3>1 DEF PhaseTypes
  <2>5. CASE AddCounts(t)
    <3>1. /\ coord' \in Counts /\ records' \in [Task -> {"start", "end"}]
          /\ UNCHANGED <<millisecond, retMillisecond, now, expected, work, times>>
      <4>1. coord \in Counts /\ succ[t] \in Nat /\ errs[t] \in Nat
        BY DEF PhaseTypes
      <4>2. coord' = [coord EXCEPT !.success = coord.success + succ[t], !.error = coord.error + errs[t]]
        BY <2>5 DEF AddCounts
      <4> DEFINE s == coord.success + succ[t]
                 e == coord.error + errs[t]
      <4>3. coord' = [coord EXCEPT !.success = s, !.error = e] /\ s \in Nat /\ e \in Nat
        BY <4>1, <4>2 DEF Counts
      <4>4. coord' \in Counts
        <5> HIDE DEF s, e
        <5> QED BY <4>1, <4>3 DEF Counts
      <4> QED BY <2>5, <4>4 DEF PhaseTypes, AddCounts, clockVars
    <3> QED BY <1>0, <2>0, <3>1 DEF PhaseTypes, work
  <2>6. CASE MarkDone(t)
    <3>1. /\ coord' \in Counts
          /\ UNCHANGED <<millisecond, retMillisecond, now, records, expected, work, times>>
      BY <2>6 DEF PhaseTypes, MarkDone, clockVars, Counts
    <3> QED BY <1>0, <2>0, <3>1 DEF PhaseTypes, work
  <2> QED BY <1>2, <2>1, <2>2, <2>3, <2>4, <2>5, <2>6 DEF TaskStep
<1>3. ASSUME NEW t \in Task, Post(t) PROVE PhaseTypes'
  BY <1>0, <1>3 DEF Post, Goes, PhaseTypes, PC, clockVars, work
<1>4. CASE ReadResult
  BY <1>0, <1>4 DEF ReadResult, PhaseTypes, clockVars, work
<1>5. CASE EndOfProgram
  BY <1>0, <1>5 DEF EndOfProgram, PhaseTypes, clockVars, work
<1> QED BY <1>1, <1>2, <1>3, <1>4, <1>5 DEF Next, Runner

LEMMA PostingStep == ASSUME PhaseTypes, Posting, Next PROVE Posting'
<1>0. Task \subseteq Nat
  BY TaskFacts
<1>1. ASSUME UNCHANGED <<pc, service>> PROVE Posting'
  BY <1>1 DEF Posting
<1>2. ASSUME NEW t \in Task, TaskStep(t) PROVE Posting'
  <2>1. (Moves(t) \/ pc' = pc) /\ service' = service
    BY <1>2, TaskStepMoves
  <2> QED BY <2>1, PhaseAssumption DEF Posting, Moves, PhaseTypes
<1>3. ASSUME NEW t \in Task, Post(t) PROVE Posting'
  <2>1. PICK s \in Service : service' = [service EXCEPT ![t] = s]
    BY <1>3 DEF Post
  <2>2. /\ service[t] = None /\ pc[t] = "none" /\ pc' = [pc EXCEPT ![t] = "entered"]
        /\ \A u \in Task : u < t => service[u] # None
    BY <1>3, <1>0, PhaseAssumption DEF Post, Goes, Task
  <2>3. s # None
    BY PhaseAssumption
  <2>4. /\ service'[t] # None /\ pc'[t] # "none"
        /\ \A u \in Task \ {t} : service'[u] = service[u] /\ pc'[u] = pc[u]
    BY <2>1, <2>2, <2>3 DEF PhaseTypes
  <2>5. \A u \in Task : service'[u] = None <=> pc'[u] = "none"
    BY <2>4 DEF Posting
  <2>6. ASSUME NEW a \in Task, NEW b \in Task, b < a, service'[a] # None PROVE service'[b] # None
    BY <1>0, <2>2, <2>4, <2>6 DEF Posting
  <2> QED BY <2>5, <2>6 DEF Posting
<1>4. CASE ReadResult \/ Tick \/ EndOfProgram
  BY <1>1, <1>4 DEF ReadResult, Tick, EndOfProgram
<1> QED BY <1>2, <1>3, <1>4 DEF Next, Runner

LEMMA InTurnStep == ASSUME PhaseTypes, Posting, InTurn, Next PROVE InTurn'
<1>0. Task \subseteq Nat
  BY TaskFacts
<1>1. ASSUME UNCHANGED <<pc, service>> PROVE InTurn'
  BY <1>1 DEF InTurn
<1>2. ASSUME NEW t \in Task, TaskStep(t) PROVE InTurn'
  <2>1. service' = service
    BY <1>2, TaskStepMoves
  <2>2. CASE pc' = pc
    BY <1>1, <2>1, <2>2
  <2>3. CASE Moves(t)
    <3>1. PICK to \in PC \ {"none", "entered"} :
            /\ pc' = [pc EXCEPT ![t] = to]
            /\ pc[t] \notin {"none", "over"}
            /\ pc[t] = "entered" => Turn(t)
      BY <2>3 DEF Moves
    <3> SUFFICES ASSUME NEW a \in Task, NEW b \in Task, b < a, pc'[a] \notin {"none", "entered"},
                        service[b] = service[a]
                 PROVE  pc'[b] = "over"
      BY <2>1 DEF InTurn
    <3>2. CASE pc[a] \notin {"none", "entered"}
      <4>1. pc[b] = "over"
        BY <3>2 DEF InTurn
      <4> QED BY <3>1, <4>1 DEF PhaseTypes
    <3>3. CASE pc[a] \in {"none", "entered"}
      <4>1. a = t /\ pc[t] = "entered"
        BY <3>1, <3>3 DEF PhaseTypes
      <4>2. b \in 1 .. t-1
        BY <4>1, PhaseAssumption DEF Task
      <4>3. pc[b] = "over"
        BY <3>1, <4>1, <4>2 DEF Turn
      <4> QED BY <3>1, <4>1, <4>3 DEF PhaseTypes
    <3> QED BY <3>2, <3>3
  <2> QED BY <1>2, <2>2, <2>3, TaskStepMoves
<1>3. ASSUME NEW t \in Task, Post(t) PROVE InTurn'
  <2>1. /\ service[t] = None /\ pc[t] = "none" /\ pc' = [pc EXCEPT ![t] = "entered"]
        /\ \A u \in Task \ {t} : service'[u] = service[u]
    BY <1>3 DEF Post, Goes, PhaseTypes
  <2> SUFFICES ASSUME NEW a \in Task, NEW b \in Task, b < a, pc'[a] \notin {"none", "entered"},
                      service'[b] = service'[a]
               PROVE  pc'[b] = "over"
    BY DEF InTurn
  <2>2. a # t /\ pc[a] = pc'[a]
    BY <2>1 DEF PhaseTypes
  <2>3. b # t
    BY <2>1, <2>2 DEF Posting
  <2>4. pc[b] = "over"
    BY <2>1, <2>2, <2>3 DEF InTurn
  <2> QED BY <2>1, <2>3, <2>4 DEF PhaseTypes
<1>4. CASE ReadResult \/ Tick \/ EndOfProgram
  BY <1>1, <1>4 DEF ReadResult, Tick, EndOfProgram
<1> QED BY <1>2, <1>3, <1>4 DEF Next, Runner

LEMMA HoldingStep == ASSUME PoolInv, PhaseTypes, Holding, Next PROVE Holding'
<1>0. Task = User /\ held \in [Task -> Conn \cup {None}]
  BY TaskFacts DEF PoolInv, PoolTypeOK
<1>1. ASSUME NEW t \in Task, TaskStep(t) PROVE Holding'
  <2>1. CASE GetMilliSeconds(t)
    <3>1. held' = held /\ left' = left
      BY <2>1 DEF GetMilliSeconds, ReadClock, StoreMillisecond, LoadMillisecond, KeepMillisecond,
                  ReturnMillisecond, poolVars, work
    <3>2. \E to \in PC \ {"querying"} : pc[t] # "querying" /\ pc' = [pc EXCEPT ![t] = to]
      <4>1. CASE ReadClock(t)
        BY <4>1 DEF ReadClock, Goes, PC
      <4>2. CASE ~ ReadClock(t)
        BY <2>1, <4>2 DEF GetMilliSeconds, StoreMillisecond, LoadMillisecond, KeepMillisecond,
                          ReturnMillisecond, Goes, PC
      <4> QED BY <4>1, <4>2
    <3> QED BY <3>1, <3>2 DEF Holding, PhaseTypes
  <2>2. CASE LoadRecord(t) \/ Swap(t) \/ AddCounts(t) \/ MarkDone(t)
    <3>1. held' = held /\ left' = left
      BY <2>2 DEF LoadRecord, Swap, AddCounts, MarkDone, poolVars, work
    <3>2. \E to \in PC \ {"querying"} : pc[t] # "querying" /\ pc' \in {pc, [pc EXCEPT ![t] = to]}
      BY <2>2 DEF LoadRecord, Swap, AddCounts, MarkDone, Recorded, Goes, PC
    <3> QED BY <3>1, <3>2 DEF Holding, PhaseTypes
  <2>3. CASE TakeConn(t)
    <3>1. /\ pc' = [pc EXCEPT ![t] = "querying"] /\ left' = left /\ left[t] > 0
          /\ held' = [held EXCEPT ![t] = Head(idle)] /\ idle # <<>> /\ idle \in Seq(Conn)
      BY <2>3 DEF TakeConn, Goes, PopConn, work, PoolInv, PoolTypeOK
    <3>2. Head(idle) \in Conn
      BY <3>1, HeadTailProperties
    <3>3. Head(idle) # None
      BY <3>2 DEF Conn
    <3> QED BY <1>0, <3>1, <3>3 DEF Holding, PhaseTypes
  <2>4. CASE PoolEmpty(t)
    BY <1>0, <2>4 DEF PoolEmpty, Holding, PhaseTypes, poolVars
  <2>5. CASE Queried(t)
    BY <1>0, <2>5 DEF Queried, PushConn, Goes, Holding, PhaseTypes
  <2> QED BY <1>1, <2>1, <2>2, <2>3, <2>4, <2>5 DEF TaskStep
<1>2. ASSUME NEW t \in Task, Post(t) PROVE Holding'
  BY <1>2 DEF Post, Goes, Holding, PhaseTypes, poolVars, work
<1>3. CASE ReadResult \/ Tick
  BY <1>3 DEF ReadResult, Tick, Holding, poolVars, work
<1>4. CASE EndOfProgram
  BY <1>4 DEF EndOfProgram, ClosePool, Holding, work
<1> QED BY <1>1, <1>2, <1>3, <1>4 DEF Next, Runner

LEMMA FinishingStep == ASSUME PhaseTypes, Posting, Finishing, Next PROVE Finishing'
<1>0. /\ Over \subseteq Task /\ IsFiniteSet(Over) /\ Cardinality(Over) \in Nat
      /\ Cardinality(Over) <= ThreadNum /\ (Cardinality(Over) = ThreadNum => Over = Task)
      /\ ThreadNum \in Nat
  <2>1. Over \in SUBSET Task
    BY DEF Over
  <2> QED BY <2>1, TaskFacts, FS_Subset, FS_CardinalityType
<1>1. ASSUME NEW t \in Task, TaskStep(t) PROVE Finishing'
  <2>0. result' = result /\ open' = open
    <3>1. result' = result
      BY <1>1, TaskStepMoves
    <3>2. CASE GetMilliSeconds(t)
      BY <3>1, <3>2 DEF GetMilliSeconds, ReadClock, StoreMillisecond, LoadMillisecond,
                        KeepMillisecond, ReturnMillisecond, poolVars
    <3>3. CASE ~ GetMilliSeconds(t)
      BY <1>1, <3>1, <3>3 DEF TaskStep, LoadRecord, Swap, AddCounts, MarkDone, PoolEmpty,
                        TakeConn, Queried, PopConn, PushConn, poolVars
    <3> QED BY <3>2, <3>3
  <2>1. CASE MarkDone(t)
    <3>1. /\ pc[t] = "recorded" /\ pc' = [pc EXCEPT ![t] = "over"]
          /\ coord' = [coord EXCEPT !.done = @ + 1]
      BY <2>1 DEF MarkDone, Goes
    <3>2. t \notin Over /\ Over' = Over \cup {t}
      BY <3>1 DEF Over, PhaseTypes
    <3>3. Cardinality(Over') = Cardinality(Over) + 1
      BY <1>0, <3>2, FS_AddElement
    <3>4. coord'.done = Cardinality(Over')
      BY <3>1, <3>3 DEF Finishing, PhaseTypes, Counts
    <3>5. result' # None => Over' = Task
      BY <2>0, <3>2 DEF Finishing
    <3> QED BY <2>0, <3>4, <3>5 DEF Finishing
  <2>2. CASE ~ MarkDone(t)
    <3>1. Over' = Over
      <4>1. \E to \in PC \ {"over"} : pc' \in {pc, [pc EXCEPT ![t] = to]}
        <5>1. CASE GetMilliSeconds(t)
          BY <5>1 DEF GetMilliSeconds, ReadClock, StoreMillisecond, LoadMillisecond,
                        KeepMillisecond, ReturnMillisecond, Goes, PC
        <5>2. CASE ~ GetMilliSeconds(t)
          BY <1>1, <2>2, <5>2 DEF TaskStep, LoadRecord, Swap, AddCounts, PoolEmpty, TakeConn,
                                  Queried, Goes, Recorded, PC
        <5> QED BY <5>1, <5>2
      <4>2. Moves(t) \/ pc' = pc
        BY <1>1, TaskStepMoves
      <4>3. pc[t] # "over" \/ pc' = pc
        BY <4>2 DEF Moves
      <4> QED BY <4>1, <4>3 DEF Over, PhaseTypes
    <3>2. coord'.done = coord.done
      <4>1. CASE GetMilliSeconds(t)
          BY <4>1 DEF GetMilliSeconds, ReadClock, StoreMillisecond, LoadMillisecond,
                        KeepMillisecond, ReturnMillisecond
      <4>2. CASE Swap(t)
        BY <4>2 DEF Swap, PhaseTypes, Counts
      <4>3. CASE AddCounts(t)
        BY <4>3 DEF AddCounts, PhaseTypes, Counts
      <4>4. CASE LoadRecord(t) \/ PoolEmpty(t) \/ TakeConn(t) \/ Queried(t)
        BY <4>4 DEF LoadRecord, PoolEmpty, TakeConn, Queried
      <4> QED BY <1>1, <2>2, <4>1, <4>2, <4>3, <4>4 DEF TaskStep
    <3> QED BY <2>0, <3>1, <3>2 DEF Finishing
  <2> QED BY <2>1, <2>2
<1>2. ASSUME NEW t \in Task, Post(t) PROVE Finishing'
  <2>1. Over' = Over /\ coord' = coord /\ result' = result /\ open' = open
    BY <1>2 DEF Post, Goes, Over, PhaseTypes, poolVars
  <2> QED BY <2>1 DEF Finishing
<1>3. CASE ReadResult
  <2>1. Over' = Over /\ coord' = coord /\ open' = open /\ result = None /\ coord.done >= ThreadNum
    BY <1>3 DEF ReadResult, IsDone, Over, poolVars
  <2>2. Over = Task
    BY <1>0, <2>1 DEF Finishing
  <2> QED BY <2>1, <2>2 DEF Finishing
<1>4. CASE Tick
  BY <1>4 DEF Tick, Finishing, Over, poolVars
<1>5. CASE EndOfProgram
  BY <1>5 DEF EndOfProgram, ClosePool, Finishing, Over
<1> QED BY <1>1, <1>2, <1>3, <1>4, <1>5 DEF Next, Runner

LEMMA PhaseInvStep == PhaseInv /\ [Next]_vars => PhaseInv'
<1> SUFFICES ASSUME PhaseInv, [Next]_vars PROVE PhaseInv'
  OBVIOUS
<1>1. CASE UNCHANGED vars
  BY <1>1 DEF vars, poolVars, clockVars, work, PhaseInv, PoolInv, PoolTypeOK, ConnectionsConserved,
              PhaseTypes, Posting, InTurn, Holding, Finishing, Over
<1>2. CASE Next
  <2>1. PoolInv'
    BY <1>2, PhaseUsesPool, PoolInvStep DEF PhaseInv
  <2> QED BY <1>2, <2>1, TypesStep, PostingStep, InTurnStep, HoldingStep, FinishingStep DEF PhaseInv
<1> QED BY <1>1, <1>2

LEMMA PhaseInvariant == Spec => []PhaseInv
BY InitPhaseInv, PhaseInvStep, PTL DEF Spec

(* Two tasks that have begun and are not over are on two services.         *)
LEMMA OneRunsPerService ==
  ASSUME PhaseInv, NEW t \in Task, NEW u \in Task, service[t] = service[u],
         pc[t] \notin {"none", "entered", "over"}, pc[u] \notin {"none", "entered", "over"}
  PROVE  t = u
<1>1. ~ t < u /\ ~ u < t
  BY DEF PhaseInv, InTurn
<1> QED BY <1>1, TaskFacts

(* With a connection for each service, no statement fails because the pool *)
(* is empty: a task at work is the only one of its service, so that at     *)
(* most one connection for each other service is out.                      *)
THEOREM PhaseServes == Spec => []ServedWhileEnough
<1>1. PhaseInv => ServedWhileEnough
  <2> SUFFICES ASSUME PhaseInv, established >= Cardinality(Service),
                      NEW t \in Task, pc[t] = "working", idle = <<>>
               PROVE  FALSE
    BY DEF ServedWhileEnough
  <2>1. open
    <3>1. t \notin Over
      BY DEF Over
    <3> QED BY <3>1 DEF PhaseInv, Finishing
  <2>2. \A c \in 1 .. established : \E u \in Task : held[u] = c
    <3>1. DOMAIN idle = {}
      OBVIOUS
    <3> QED BY <2>1, <3>1, TaskFacts DEF PhaseInv, PoolInv, ConnectionsConserved
  <2> DEFINE holder == [c \in 1 .. established |-> CHOOSE u \in Task : held[u] = c]
             Others == Service \ {service[t]}
             spread == [c \in 1 .. established |-> service[holder[c]]]
  <2>3. \A c \in 1 .. established :
          holder[c] \in Task /\ held[holder[c]] = c /\ pc[holder[c]] = "querying"
    <3> SUFFICES ASSUME NEW c \in 1 .. established
                 PROVE  holder[c] \in Task /\ held[holder[c]] = c /\ pc[holder[c]] = "querying"
      OBVIOUS
    <3>1. holder[c] \in Task /\ held[holder[c]] = c
      BY <2>2
    <3>2. c # None
      OBVIOUS
    <3> QED BY <3>1, <3>2 DEF PhaseInv, Holding
  <2> HIDE DEF holder
  <2>4. spread \in Injection(1 .. established, Others)
    <3>1. \A u \in Task : pc[u] = "querying" => service[u] \in Others
      BY OneRunsPerService DEF PhaseInv, PhaseTypes, Posting
    <3>2. spread \in [1 .. established -> Others]
      BY <2>3, <3>1
    <3>3. ASSUME NEW c \in 1 .. established, NEW d \in 1 .. established, spread[c] = spread[d]
          PROVE  c = d
      BY <2>3, <3>3, OneRunsPerService
    <3> QED BY <3>2, <3>3 DEF Injection, IsInjective
  <2>5. /\ IsFiniteSet(Others) /\ Cardinality(Others) = Cardinality(Service) - 1
        /\ Cardinality(Service) \in Nat
    <3>1. service[t] \in Service
      BY DEF PhaseInv, PhaseTypes, Posting
    <3> QED BY <3>1, ServiceAssumption, FS_RemoveElement, FS_CardinalityType
  <2>6. Cardinality(1 .. established) <= Cardinality(Service) - 1
    BY <2>4, <2>5, FS_Injection
  <2>7. established \in Nat \ {0} /\ Cardinality(1 .. established) = established
    BY FS_Interval DEF PhaseInv, PhaseTypes, Conn
  <2> QED BY <2>5, <2>6, <2>7
<1> QED BY <1>1, PhaseInvariant, PTL

-----------------------------------------------------------------------------
(* What the coordinator gathers.  A task records its start before it works *)
(* and its end after it has counted ...                                    *)
Started(t) == records[t] = "end" \/ pc[t] \in {"working", "querying"}
Ended(t) == pc[t] \in {"recorded", "over"}
Swapping(t, what) == pc[t] = "swap" /\ records[t] = what

Recording ==
  \A t \in Task :
    /\ pc[t] \in {"none", "entered", "working", "querying"} => records[t] = "start"
    /\ pc[t] \in {"counted", "recorded", "over"} => records[t] = "end"

(* ... the clock gives no time before 1, however its threads interleave .. *)
Clocked ==
  /\ time >= 1
  /\ \A t \in Task :
       /\ pc[t] \in {"store", "load", "keep", "return", "got", "swap"} => now[t] >= 1
       /\ pc[t] = "load" => millisecond >= 1
       /\ pc[t] = "return" => retMillisecond >= 1

(* ... the start kept is that of a task and not after that of any: a task  *)
(* in the loop expects nothing yet, or what has since only become earlier  *)
Starts ==
  /\ \A t \in Task :
       /\ Started(t) => /\ coord.start # 0 /\ coord.start <= times[t].start
       /\ Swapping(t, "start") => /\ now[t] = times[t].start
                                  /\ expected[t] # 0 => coord.start # 0 /\ coord.start <= expected[t]
  /\ coord.start # 0 => \E t \in Task : Started(t) /\ coord.start = times[t].start

(* ... the end kept is that of a task and not before that of any ...       *)
Ends ==
  /\ \A t \in Task :
       /\ Ended(t) => times[t].end >= 1 /\ times[t].end <= coord.end
       /\ Swapping(t, "end") => now[t] = times[t].end /\ expected[t] <= coord.end
  /\ coord.end # 0 => \E t \in Task : Ended(t) /\ coord.end = times[t].end

(* ... and a clock used in registers does not run backwards.               *)
Forwards ==
  clock = "register" =>
    \A t \in Task :
      /\ pc[t] \notin {"store", "load", "keep", "return"}
      /\ pc[t] \in {"got", "swap"} => now[t] <= time
      /\ Started(t) \/ Swapping(t, "start") => times[t].start <= time
      /\ pc[t] = "got" /\ records[t] = "end" => times[t].start <= now[t]
      /\ Ended(t) \/ Swapping(t, "end") => times[t].start <= times[t].end

TimesInv == Recording /\ Clocked /\ Starts /\ Ends /\ Forwards

LEMMA RecordingStep == ASSUME PhaseTypes, Recording, Next PROVE Recording'
<1>1. ASSUME NEW t \in Task, TaskStep(t) PROVE Recording'
  <2>1. CASE GetMilliSeconds(t)
    <3>1. CASE ReadClock(t)
      BY <3>1 DEF ReadClock, Goes, Recording, PhaseTypes
    <3>2. CASE ~ ReadClock(t)
      BY <2>1, <3>2 DEF GetMilliSeconds, StoreMillisecond, LoadMillisecond, KeepMillisecond,
                        ReturnMillisecond, Goes, Recording, PhaseTypes
    <3> QED BY <3>1, <3>2
  <2>2. CASE LoadRecord(t)
    BY <2>2 DEF LoadRecord, Goes, Recording, PhaseTypes
  <2>3. CASE Swap(t)
    BY <2>3 DEF Swap, Recorded, Goes, Recording, PhaseTypes
  <2>4. CASE TakeConn(t) \/ PoolEmpty(t) \/ Queried(t)
    BY <2>4 DEF TakeConn, PoolEmpty, Queried, Goes, Recording, PhaseTypes
  <2>5. CASE AddCounts(t)
    BY <2>5 DEF AddCounts, Goes, Recording, PhaseTypes
  <2>6. CASE MarkDone(t)
    BY <2>6 DEF MarkDone, Goes, Recording, PhaseTypes
  <2> QED BY <1>1, <2>1, <2>2, <2>3, <2>4, <2>5, <2>6 DEF TaskStep
<1>2. ASSUME NEW t \in Task, Post(t) PROVE Recording'
  BY <1>2 DEF Post, Goes, Recording, PhaseTypes
<1>3. CASE ReadResult \/ Tick \/ EndOfProgram
  BY <1>3 DEF ReadResult, Tick, EndOfProgram, Recording
<1> QED BY <1>1, <1>2, <1>3 DEF Next, Runner

LEMMA ClockedStep == ASSUME PhaseTypes, Clocked, Next PROVE Clocked'
<1>0. time \in Nat /\ millisecond \in Nat /\ retMillisecond \in Nat /\ now \in [Task -> Nat]
      /\ pc \in [Task -> PC]
  BY TimeFacts DEF PhaseTypes
<1>1. ASSUME NEW t \in Task, TaskStep(t) PROVE Clocked'
  <2>1. CASE ReadClock(t)
    BY <1>0, <2>1 DEF ReadClock, Goes, Clocked, clockVars
  <2>2. CASE StoreMillisecond(t)
    BY <1>0, <2>2 DEF StoreMillisecond, Goes, Clocked
  <2>3. CASE LoadMillisecond(t)
    BY <1>0, <2>3 DEF LoadMillisecond, Goes, Clocked, clockVars
  <2>4. CASE KeepMillisecond(t)
    BY <1>0, <2>4 DEF KeepMillisecond, Goes, Clocked
  <2>5. CASE ReturnMillisecond(t)
    BY <1>0, <2>5 DEF ReturnMillisecond, Goes, Clocked, clockVars
  <2>6. CASE LoadRecord(t) \/ Swap(t)
    BY <1>0, <2>6 DEF LoadRecord, Swap, Recorded, Goes, Clocked, clockVars
  <2>7. CASE TakeConn(t) \/ PoolEmpty(t) \/ Queried(t) \/ AddCounts(t) \/ MarkDone(t)
    BY <1>0, <2>7 DEF TakeConn, PoolEmpty, Queried, AddCounts, MarkDone, Goes, Clocked, clockVars
  <2> QED BY <1>1, <2>1, <2>2, <2>3, <2>4, <2>5, <2>6, <2>7 DEF TaskStep, GetMilliSeconds
<1>2. ASSUME NEW t \in Task, Post(t) PROVE Clocked'
  BY <1>0, <1>2 DEF Post, Goes, Clocked, clockVars
<1>3. CASE Tick
  BY <1>0, <1>3 DEF Tick, Clocked, members
<1>4. CASE ReadResult \/ EndOfProgram
  BY <1>4 DEF ReadResult, EndOfProgram, Clocked, clockVars
<1> QED BY <1>1, <1>2, <1>3, <1>4 DEF Next, Runner

(* The types the arithmetic on times needs.                                *)
LEMMA TimesTypes ==
  ASSUME PhaseTypes
  PROVE  /\ pc \in [Task -> PC] /\ records \in [Task -> {"start", "end"}]
         /\ now \in [Task -> Nat] /\ expected \in [Task -> Nat] /\ time \in Nat
         /\ times \in [Task -> [start : Nat, end : Nat]]
         /\ coord \in [start : Nat, end : Nat, done : Nat, success : Nat, error : Nat]
BY TimeFacts DEF PhaseTypes, Counts

(* The steps of a task that touch no recorded time: of those, only         *)
(* recordStart's and recordEnd's own change whether one is being recorded. *)
LEMMA QuietStep ==
  ASSUME PhaseTypes, Recording, NEW t \in Task,
         GetMilliSeconds(t) \/ TakeConn(t) \/ PoolEmpty(t) \/ Queried(t) \/ AddCounts(t) \/ MarkDone(t)
  PROVE  /\ UNCHANGED <<times, expected>>
         /\ coord'.start = coord.start /\ coord'.end = coord.end
         /\ \A u \in Task : /\ Started(u)' <=> Started(u)
                            /\ Ended(u)' <=> Ended(u)
                            /\ \A what \in {"start", "end"} :
                                 Swapping(u, what)' <=> Swapping(u, what)
                            /\ Swapping(u, "start") \/ Swapping(u, "end") => now'[u] = now[u]
<1>0. /\ pc \in [Task -> PC] /\ records \in [Task -> {"start", "end"}] /\ now \in [Task -> Nat]
      /\ coord \in [start : Nat, end : Nat, done : Nat, success : Nat, error : Nat]
  BY TimesTypes
<1>1. CASE ReadClock(t)
  BY <1>0, <1>1 DEF ReadClock, Goes, Recording, Started, Ended, Swapping
<1>2. CASE StoreMillisecond(t) \/ LoadMillisecond(t) \/ KeepMillisecond(t) \/ ReturnMillisecond(t)
  BY <1>0, <1>2 DEF StoreMillisecond, LoadMillisecond, KeepMillisecond, ReturnMillisecond, Goes,
                    Started, Ended, Swapping
<1>3. CASE TakeConn(t) \/ PoolEmpty(t) \/ Queried(t)
  BY <1>0, <1>3 DEF TakeConn, PoolEmpty, Queried, Goes, Started, Ended, Swapping
<1>4. CASE AddCounts(t)
  BY <1>0, <1>4 DEF AddCounts, Goes, Recording, Started, Ended, Swapping
<1>5. CASE MarkDone(t)
  BY <1>0, <1>5 DEF MarkDone, Goes, Started, Ended, Swapping
<1> QED BY <1>1, <1>2, <1>3, <1>4, <1>5 DEF GetMilliSeconds

LEMMA LoadRecordStep ==
  ASSUME PhaseTypes, Starts, Ends, NEW t \in Task, LoadRecord(t)
  PROVE  Starts' /\ Ends'
<1>0. /\ pc \in [Task -> PC] /\ records \in [Task -> {"start", "end"}]
      /\ now \in [Task -> Nat] /\ expected \in [Task -> Nat]
      /\ times \in [Task -> [start : Nat, end : Nat]]
      /\ coord \in [start : Nat, end : Nat, done : Nat, success : Nat, error : Nat]
  BY TimesTypes
<1>1. /\ pc[t] = "got" /\ pc' = [pc EXCEPT ![t] = "swap"]
      /\ expected' = [expected EXCEPT ![t] = coord[records[t]]]
      /\ UNCHANGED <<records, now, coord>>
  BY DEF LoadRecord, Goes
<1>2. /\ \A u \in Task : Started(u)' <=> Started(u)
      /\ \A u \in Task : Ended(u)' <=> Ended(u)
      /\ ~ Ended(t)
  BY <1>0, <1>1 DEF Started, Ended
<1>3. /\ \A u \in Task \ {t} : times'[u] = times[u] /\ expected'[u] = expected[u]
      /\ \A u \in Task \ {t}, what \in {"start", "end"} : Swapping(u, what)' <=> Swapping(u, what)
  BY <1>0, <1>1 DEF Swapping, LoadRecord
<1>4. CASE records[t] = "start"
  <2>1. /\ ~ Started(t) /\ times'[t].start = now[t] /\ expected'[t] = coord.start
        /\ ~ Swapping(t, "end")'
    BY <1>0, <1>1, <1>4 DEF LoadRecord, Started, Swapping
  <2>2. Starts'
    BY <1>0, <1>1, <1>2, <1>3, <2>1 DEF Starts
  <2>3. Ends'
    BY <1>0, <1>1, <1>2, <1>3, <2>1 DEF Ends
  <2> QED BY <2>2, <2>3
<1>5. CASE records[t] = "end"
  <2>1. /\ times'[t].start = times[t].start /\ times'[t].end = now[t] /\ expected'[t] = coord.end
        /\ ~ Swapping(t, "start")'
    BY <1>0, <1>1, <1>5 DEF LoadRecord, Swapping
  <2>2. Starts'
    BY <1>0, <1>1, <1>2, <1>3, <2>1 DEF Starts
  <2>3. Ends'
    BY <1>0, <1>1, <1>2, <1>3, <2>1 DEF Ends
  <2> QED BY <2>2, <2>3
<1> QED BY <1>0, <1>4, <1>5

(* A turn of recordStart's loop: only an earlier start is stored, and only *)
(* over the one expected.                                                  *)
LEMMA SwapStartStep ==
  ASSUME PhaseTypes, Clocked, Starts, Ends, NEW t \in Task, Swap(t), records[t] = "start"
  PROVE  Starts' /\ Ends'
<1>0. /\ pc \in [Task -> PC] /\ records \in [Task -> {"start", "end"}]
      /\ now \in [Task -> Nat] /\ expected \in [Task -> Nat]
      /\ times \in [Task -> [start : Nat, end : Nat]]
      /\ coord \in [start : Nat, end : Nat, done : Nat, success : Nat, error : Nat]
  BY TimesTypes
<1>1. /\ Swapping(t, "start") /\ ~ Started(t) /\ now[t] >= 1 /\ now[t] = times[t].start
      /\ UNCHANGED <<times, now, records>>
  BY <1>0 DEF Swap, Recorded, Goes, Swapping, Started, Starts, Clocked
<1>2. CASE /\ Improves(t) /\ coord.start = expected[t]
           /\ Recorded(t) /\ coord' = [coord EXCEPT !.start = now[t]] /\ UNCHANGED expected
  <2>1. /\ Started(t)' /\ ~ Swapping(t, "start")' /\ ~ Swapping(t, "end")'
        /\ \A u \in Task \ {t} : (Started(u)' <=> Started(u))
        /\ \A u \in Task \ {t}, what \in {"start", "end"} : Swapping(u, what)' <=> Swapping(u, what)
        /\ \A u \in Task : (Ended(u)' <=> Ended(u))
    BY <1>0, <1>1, <1>2 DEF Recorded, Goes, Started, Ended, Swapping
  <2>2. /\ coord'.start = now[t] /\ coord'.end = coord.end
        /\ coord.start = 0 \/ now[t] < coord.start
    BY <1>0, <1>1, <1>2 DEF Improves, Swapping
  <2>3. Starts'
    BY <1>0, <1>1, <1>2, <2>1, <2>2 DEF Starts
  <2>4. Ends'
    BY <1>0, <1>1, <1>2, <2>1, <2>2 DEF Ends
  <2> QED BY <2>3, <2>4
<1>3. CASE /\ Improves(t) /\ coord.start # expected[t]
           /\ expected' = [expected EXCEPT ![t] = coord.start] /\ UNCHANGED <<pc, coord>>
  <2>1. /\ \A u \in Task : (Started(u)' <=> Started(u)) /\ (Ended(u)' <=> Ended(u))
        /\ \A u \in Task, what \in {"start", "end"} : Swapping(u, what)' <=> Swapping(u, what)
        /\ \A u \in Task : Swapping(u, "end") => u # t
    BY <1>0, <1>1, <1>3 DEF Started, Ended, Swapping
  <2>2. Starts'
    BY <1>0, <1>1, <1>3, <2>1 DEF Starts
  <2>3. Ends'
    BY <1>0, <1>1, <1>3, <2>1 DEF Ends
  <2> QED BY <2>2, <2>3
<1>4. CASE ~ Improves(t) /\ Recorded(t) /\ UNCHANGED <<expected, coord>>
  <2>1. /\ Started(t)' /\ ~ Swapping(t, "start")' /\ ~ Swapping(t, "end")'
        /\ \A u \in Task \ {t} : (Started(u)' <=> Started(u))
        /\ \A u \in Task \ {t}, what \in {"start", "end"} : Swapping(u, what)' <=> Swapping(u, what)
        /\ \A u \in Task : (Ended(u)' <=> Ended(u))
    BY <1>0, <1>1, <1>4 DEF Recorded, Goes, Started, Ended, Swapping
  <2>2. coord.start # 0 /\ coord.start <= now[t]
    <3>1. expected[t] # 0 /\ expected[t] <= now[t]
      BY <1>0, <1>1, <1>4 DEF Improves, Swapping
    <3> QED BY <1>0, <1>1, <3>1 DEF Starts
  <2>3. Starts'
    BY <1>0, <1>1, <1>4, <2>1, <2>2 DEF Starts
  <2>4. Ends'
    BY <1>0, <1>1, <1>4, <2>1, <2>2 DEF Ends
  <2> QED BY <2>3, <2>4
<1> QED BY <1>2, <1>3, <1>4 DEF Swap

(* A turn of recordEnd's loop.                                             *)
LEMMA SwapEndStep ==
  ASSUME PhaseTypes, Clocked, Starts, Ends, NEW t \in Task, Swap(t), records[t] = "end"
  PROVE  Starts' /\ Ends'
<1>0. /\ pc \in [Task -> PC] /\ records \in [Task -> {"start", "end"}]
      /\ now \in [Task -> Nat] /\ expected \in [Task -> Nat]
      /\ times \in [Task -> [start : Nat, end : Nat]]
      /\ coord \in [start : Nat, end : Nat, done : Nat, success : Nat, error : Nat]
  BY TimesTypes
<1>1. /\ Swapping(t, "end") /\ ~ Ended(t) /\ now[t] >= 1 /\ now[t] = times[t].end
      /\ UNCHANGED <<times, now, records>>
  BY <1>0 DEF Swap, Recorded, Goes, Swapping, Ended, Ends, Clocked
<1>2. CASE /\ Improves(t) /\ coord.end = expected[t]
           /\ Recorded(t) /\ coord' = [coord EXCEPT !.end = now[t]] /\ UNCHANGED expected
  <2>1. /\ Ended(t)' /\ ~ Swapping(t, "start")' /\ ~ Swapping(t, "end")'
        /\ \A u \in Task \ {t} : (Ended(u)' <=> Ended(u))
        /\ \A u \in Task \ {t}, what \in {"start", "end"} : Swapping(u, what)' <=> Swapping(u, what)
        /\ \A u \in Task : (Started(u)' <=> Started(u))
    BY <1>0, <1>1, <1>2 DEF Recorded, Goes, Started, Ended, Swapping
  <2>2. /\ coord'.end = now[t] /\ coord'.start = coord.start /\ now[t] > coord.end
    BY <1>0, <1>1, <1>2 DEF Improves, Swapping
  <2>3. Starts'
    BY <1>0, <1>1, <1>2, <2>1, <2>2 DEF Starts
  <2>4. Ends'
    BY <1>0, <1>1, <1>2, <2>1, <2>2 DEF Ends
  <2> QED BY <2>3, <2>4
<1>3. CASE /\ Improves(t) /\ coord.end # expected[t]
           /\ expected' = [expected EXCEPT ![t] = coord.end] /\ UNCHANGED <<pc, coord>>
  <2>1. /\ \A u \in Task : (Started(u)' <=> Started(u)) /\ (Ended(u)' <=> Ended(u))
        /\ \A u \in Task, what \in {"start", "end"} : Swapping(u, what)' <=> Swapping(u, what)
        /\ \A u \in Task : Swapping(u, "start") => u # t
    BY <1>0, <1>1, <1>3 DEF Started, Ended, Swapping
  <2>2. Starts'
    BY <1>0, <1>1, <1>3, <2>1 DEF Starts
  <2>3. Ends'
    BY <1>0, <1>1, <1>3, <2>1 DEF Ends
  <2> QED BY <2>2, <2>3
<1>4. CASE ~ Improves(t) /\ Recorded(t) /\ UNCHANGED <<expected, coord>>
  <2>1. /\ Ended(t)' /\ ~ Swapping(t, "start")' /\ ~ Swapping(t, "end")'
        /\ \A u \in Task \ {t} : (Ended(u)' <=> Ended(u))
        /\ \A u \in Task \ {t}, what \in {"start", "end"} : Swapping(u, what)' <=> Swapping(u, what)
        /\ \A u \in Task : (Started(u)' <=> Started(u))
    BY <1>0, <1>1, <1>4 DEF Recorded, Goes, Started, Ended, Swapping
  <2>2. now[t] <= coord.end
    <3>1. now[t] <= expected[t]
      BY <1>0, <1>1, <1>4 DEF Improves, Swapping
    <3> QED BY <1>0, <1>1, <3>1 DEF Ends
  <2>3. Starts'
    BY <1>0, <1>1, <1>4, <2>1, <2>2 DEF Starts
  <2>4. Ends'
    BY <1>0, <1>1, <1>4, <2>1, <2>2 DEF Ends
  <2> QED BY <2>3, <2>4
<1> QED BY <1>2, <1>3, <1>4 DEF Swap

LEMMA StartsEndsStep ==
  ASSUME PhaseTypes, Recording, Clocked, Starts, Ends, Next
  PROVE  Starts' /\ Ends'
<1>0. records \in [Task -> {"start", "end"}]
  BY TimesTypes
<1>1. ASSUME UNCHANGED <<times, expected, now, records, pc, coord>>
      PROVE  Starts' /\ Ends'
  BY <1>1 DEF Starts, Ends, Started, Ended, Swapping
<1>2. ASSUME NEW t \in Task, TaskStep(t) PROVE Starts' /\ Ends'
  <2>1. CASE LoadRecord(t)
    BY <2>1, LoadRecordStep
  <2>2. CASE Swap(t)
    BY <1>0, <2>2, SwapStartStep, SwapEndStep
  <2>3. CASE \/ GetMilliSeconds(t) \/ TakeConn(t) \/ PoolEmpty(t) \/ Queried(t)
             \/ AddCounts(t) \/ MarkDone(t)
    <3>1. /\ UNCHANGED <<times, expected>>
          /\ coord'.start = coord.start /\ coord'.end = coord.end
          /\ \A u \in Task : /\ Started(u)' <=> Started(u)
                             /\ Ended(u)' <=> Ended(u)
                             /\ \A what \in {"start", "end"} :
                                  Swapping(u, what)' <=> Swapping(u, what)
                             /\ Swapping(u, "start") \/ Swapping(u, "end") => now'[u] = now[u]
      BY <2>3, QuietStep
    <3>2. Starts'
      BY <3>1 DEF Starts
    <3>3. Ends'
      BY <3>1 DEF Ends
    <3> QED BY <3>2, <3>3
  <2> QED BY <1>2, <2>1, <2>2, <2>3 DEF TaskStep
<1>3. ASSUME NEW t \in Task, Post(t) PROVE Starts' /\ Ends'
  <2>1. /\ UNCHANGED <<times, expected, now, records, coord>>
        /\ \A u \in Task : /\ Started(u)' <=> Started(u)
                           /\ Ended(u)' <=> Ended(u)
                           /\ \A what \in {"start", "end"} :
                                Swapping(u, what)' <=> Swapping(u, what)
    BY <1>3 DEF Post, Goes, PhaseTypes, Started, Ended, Swapping
  <2> QED BY <2>1 DEF Starts, Ends
<1>4. CASE ReadResult \/ Tick \/ EndOfProgram
  BY <1>1, <1>4 DEF ReadResult, Tick, EndOfProgram
<1> QED BY <1>2, <1>3, <1>4 DEF Next, Runner

LEMMA ForwardsStep ==
  ASSUME PhaseTypes, Recording, Starts, Ends, Forwards, Next
  PROVE  Forwards'
<1>0. /\ pc \in [Task -> PC] /\ records \in [Task -> {"start", "end"}]
      /\ now \in [Task -> Nat] /\ time \in Nat
      /\ times \in [Task -> [start : Nat, end : Nat]]
  BY TimesTypes
<1>1. ASSUME UNCHANGED <<clock, time, times, now, records, pc>>
      PROVE  Forwards'
  BY <1>1 DEF Forwards, Started, Ended, Swapping
<1>2. ASSUME NEW t \in Task, TaskStep(t) PROVE Forwards'
  <2>0. clock' = clock /\ time' = time
    BY <1>2, TaskStepMoves
  <2> SUFFICES ASSUME clock = "register" PROVE Forwards'
    BY <2>0 DEF Forwards
  <2>1. CASE GetMilliSeconds(t)
    <3>1. pc[t] \notin {"store", "load", "keep", "return"}
      BY DEF Forwards
    <3>2. PICK from \in {"entered", "counted"} :
            /\ pc[t] = from /\ pc' = [pc EXCEPT ![t] = "got"]
            /\ now' = [now EXCEPT ![t] = time] /\ UNCHANGED <<times, records>>
      BY <2>1, <3>1 DEF GetMilliSeconds, ReadClock, StoreMillisecond, LoadMillisecond,
                        KeepMillisecond, ReturnMillisecond, Goes
    <3>3. pc[t] = "entered" => records[t] = "start"
      BY DEF Recording
    <3>4. \A u \in Task : /\ Started(u)' <=> Started(u)
                          /\ Ended(u)' <=> Ended(u)
                          /\ \A what \in {"start", "end"} : Swapping(u, what)' <=> Swapping(u, what)
      BY <1>0, <3>2 DEF Started, Ended, Swapping
    <3>5. records[t] = "end" => Started(t)
      BY DEF Started
    <3> QED BY <1>0, <2>0, <3>2, <3>3, <3>4, <3>5 DEF Forwards
  <2>2. CASE LoadRecord(t)
    <3>1. /\ pc[t] = "got" /\ pc' = [pc EXCEPT ![t] = "swap"] /\ UNCHANGED <<now, records>>
          /\ times' = [times EXCEPT ![t][records[t]] = now[t]]
      BY <2>2 DEF LoadRecord, Goes
    <3>2. \A u \in Task : /\ Started(u)' <=> Started(u)
                          /\ Ended(u)' <=> Ended(u)
                          /\ u # t => \A what \in {"start", "end"} :
                                        Swapping(u, what)' <=> Swapping(u, what)
      BY <1>0, <3>1 DEF Started, Ended, Swapping
    <3>3. records[t] = "end" => /\ times'[t].start = times[t].start /\ times'[t].end = now[t]
                                /\ ~ Swapping(t, "start")' /\ Started(t)
      BY <1>0, <3>1 DEF Swapping, Started
    <3>4. records[t] = "start" => /\ times'[t].start = now[t] /\ ~ Swapping(t, "end")'
      BY <1>0, <3>1 DEF Swapping
    <3>5. ~ Ended(t)
      BY <3>1 DEF Ended
    <3> QED BY <1>0, <2>0, <3>1, <3>2, <3>3, <3>4, <3>5 DEF Forwards
  <2>3. CASE Swap(t)
    <3>1. UNCHANGED <<times, now, records>> /\ pc[t] = "swap"
      BY <2>3 DEF Swap, Recorded, Goes
    <3>2. CASE UNCHANGED pc
      BY <1>1, <2>0, <3>1, <3>2
    <3>3. CASE Recorded(t)
      <4>1. \A u \in Task \ {t} : /\ Started(u)' <=> Started(u)
                                  /\ Ended(u)' <=> Ended(u)
                                  /\ \A what \in {"start", "end"} :
                                        Swapping(u, what)' <=> Swapping(u, what)
        BY <1>0, <3>1, <3>3 DEF Recorded, Goes, Started, Ended, Swapping
      <4>2. /\ Started(t)' => Started(t) \/ Swapping(t, "start")
            /\ Ended(t)' => Swapping(t, "end")
            /\ ~ Swapping(t, "start")' /\ ~ Swapping(t, "end")'
            /\ pc'[t] \in {"working", "recorded"}
            /\ \A u \in Task \ {t} : pc'[u] = pc[u]
        BY <1>0, <3>1, <3>3 DEF Recorded, Goes, Started, Ended, Swapping
      <4> QED BY <1>0, <2>0, <3>1, <4>1, <4>2 DEF Forwards
    <3> QED BY <2>3, <3>2, <3>3 DEF Swap
  <2>4. CASE TakeConn(t) \/ PoolEmpty(t) \/ Queried(t) \/ AddCounts(t) \/ MarkDone(t)
    <3>1. /\ UNCHANGED times
          /\ \A u \in Task : /\ Started(u)' <=> Started(u)
                             /\ Ended(u)' <=> Ended(u)
                             /\ \A what \in {"start", "end"} :
                                  Swapping(u, what)' <=> Swapping(u, what)
      BY <2>4, QuietStep
    <3>2. /\ UNCHANGED now /\ pc'[t] \in {"working", "querying", "counted", "over"}
          /\ \A u \in Task \ {t} : pc'[u] = pc[u] /\ records'[u] = records[u]
      BY <1>0, <2>4 DEF TakeConn, PoolEmpty, Queried, AddCounts, MarkDone, Goes
    <3> QED BY <1>0, <2>0, <3>1, <3>2 DEF Forwards
  <2> QED BY <1>2, <2>1, <2>2, <2>3, <2>4 DEF TaskStep
<1>3. ASSUME NEW t \in Task, Post(t) PROVE Forwards'
  <2>1. /\ UNCHANGED <<clock, time, times, now, records>>
        /\ pc' = [pc EXCEPT ![t] = "entered"]
        /\ \A u \in Task : /\ Started(u)' <=> Started(u)
                           /\ Ended(u)' <=> Ended(u)
                           /\ \A what \in {"start", "end"} :
                                Swapping(u, what)' <=> Swapping(u, what)
    BY <1>0, <1>3 DEF Post, Goes, clockVars, Started, Ended, Swapping
  <2> QED BY <1>0, <2>1 DEF Forwards
<1>4. CASE Tick
  <2>1. time' = time + 1 /\ UNCHANGED <<clock, times, now, records, pc>>
    BY <1>4 DEF Tick
  <2> QED BY <1>0, <2>1 DEF Forwards, Started, Ended, Swapping
<1>5. CASE ReadResult \/ EndOfProgram
  BY <1>1, <1>5 DEF ReadResult, EndOfProgram, clockVars
<1> QED BY <1>2, <1>3, <1>4, <1>5 DEF Next, Runner

-----------------------------------------------------------------------------
(* The statements a task has not yet counted.                              *)
Uncounted == [t \in Task |-> IF records[t] = "end" THEN 0 ELSE left[t] + succ[t] + errs[t]]

(* Every statement is counted by the coordinator or not yet by its task.   *)
Counting ==
  /\ \A t \in Task : left[t] + succ[t] + errs[t] = DistributeOps(t)
  /\ \E S : PartialSums(S, Uncounted, ThreadNum) /\ coord.success + coord.error + S[ThreadNum] = TotalOps

(* distributeOps shares out the statements, each to one task.              *)
LEMMA DistributeAll ==
  \E S : PartialSums(S, [t \in Task |-> DistributeOps(t)], ThreadNum) /\ S[ThreadNum] = TotalOps
<1> DEFINE q == TotalOps \div ThreadNum
           r == TotalOps % ThreadNum
           lesser(n) == IF n <= r THEN n ELSE r
<1>1. q \in Nat /\ r \in 0 .. ThreadNum - 1 /\ TotalOps = q * ThreadNum + r /\ ThreadNum \in Nat
  BY PhaseAssumption
<1> DEFINE S == [n \in 0 .. ThreadNum |-> q * n + lesser(n)]
<1>2. \A t \in Task : DistributeOps(t) = q + (IF t <= r THEN 1 ELSE 0)
  BY DEF DistributeOps
<1> HIDE DEF q, r
<1>3. S \in [0 .. ThreadNum -> Int] /\ S[0] = 0
  BY <1>1
<1>4. ASSUME NEW t \in Task PROVE S[t] = S[t-1] + DistributeOps(t)
  <2>1. t \in Nat /\ t-1 \in 0 .. ThreadNum /\ t \in 0 .. ThreadNum /\ q * t = q * (t-1) + q
    BY <1>1 DEF Task
  <2>2. lesser(t) = lesser(t-1) + (IF t <= r THEN 1 ELSE 0)
    BY <1>1, <2>1
  <2> QED BY <1>1, <1>2, <2>1, <2>2
<1>5. S[ThreadNum] = TotalOps
  BY <1>1
<1> HIDE DEF S
<1>6. PartialSums(S, [t \in Task |-> DistributeOps(t)], ThreadNum)
  BY <1>3, <1>4 DEF PartialSums, Task
<1> QED BY <1>5, <1>6

LEMMA UncountedNat == PhaseTypes => \A t \in Task : Uncounted[t] \in Nat
BY DEF PhaseTypes, Uncounted

LEMMA CountingStep ==
  ASSUME PhaseTypes, Recording, Holding, Counting, Next
  PROVE  Counting'
<1>1. ASSUME UNCHANGED <<left, succ, errs, records>>,
             coord'.success = coord.success /\ coord'.error = coord.error
      PROVE  Counting'
  <2>1. Uncounted' = Uncounted
    BY <1>1 DEF Uncounted
  <2> QED BY <1>1, <2>1 DEF Counting, DistributeOps
<1>2. ASSUME NEW t \in Task, TaskStep(t) PROVE Counting'
  <2>1. CASE GetMilliSeconds(t) \/ LoadRecord(t) \/ TakeConn(t)
    BY <1>1, <2>1 DEF GetMilliSeconds, ReadClock, StoreMillisecond, LoadMillisecond,
                      KeepMillisecond, ReturnMillisecond, LoadRecord, TakeConn, work
  <2>2. CASE Swap(t) \/ MarkDone(t)
    <3>1. coord'.success = coord.success /\ coord'.error = coord.error
      BY <2>2 DEF Swap, MarkDone, PhaseTypes, Counts
    <3> QED BY <1>1, <2>2, <3>1 DEF Swap, MarkDone, work
  <2>3. CASE PoolEmpty(t) \/ Queried(t)
    <3>1. left[t] > 0
      BY <2>3 DEF PoolEmpty, Queried, Goes, Holding
    <3>2. /\ left'[t] + succ'[t] + errs'[t] = left[t] + succ[t] + errs[t]
          /\ \A u \in Task \ {t} : left'[u] = left[u] /\ succ'[u] = succ[u] /\ errs'[u] = errs[u]
          /\ UNCHANGED <<records, coord>>
      <4>0. /\ left \in [Task -> Nat] /\ succ \in [Task -> Nat] /\ errs \in [Task -> Nat]
        BY DEF PhaseTypes
      <4>1. CASE PoolEmpty(t)
        BY <3>1, <4>0, <4>1 DEF PoolEmpty
      <4>2. CASE Queried(t) /\ UNCHANGED errs
        BY <3>1, <4>0, <4>2 DEF Queried
      <4>3. CASE Queried(t) /\ UNCHANGED succ
        BY <3>1, <4>0, <4>3 DEF Queried
      <4> QED BY <2>3, <4>1, <4>2, <4>3 DEF Queried
    <3>3. \A u \in Task : left'[u] + succ'[u] + errs'[u] = left[u] + succ[u] + errs[u]
      BY <3>2
    <3>4. Uncounted' = Uncounted
      BY <3>2, <3>3 DEF Uncounted
    <3> QED BY <3>2, <3>3, <3>4 DEF Counting, DistributeOps
  <2>4. CASE AddCounts(t)
    <3>1. /\ left[t] = 0 /\ pc[t] = "working" /\ UNCHANGED <<left, succ, errs>>
          /\ records' = [records EXCEPT ![t] = "end"]
          /\ coord'.success = coord.success + succ[t] /\ coord'.error = coord.error + errs[t]
      BY <2>4 DEF AddCounts, Goes, work, PhaseTypes, Counts
    <3>2. records[t] = "start"
      BY <3>1 DEF Recording
    <3>3. /\ Uncounted[t] = succ[t] + errs[t]
          /\ Uncounted'[t] = 0
          /\ \A u \in Task \ {t} : Uncounted'[u] = Uncounted[u]
      BY <3>1, <3>2 DEF Uncounted, PhaseTypes
    <3>4. PICK S : PartialSums(S, Uncounted, ThreadNum) /\ coord.success + coord.error + S[ThreadNum] = TotalOps
      BY DEF Counting
    <3>5. \A u \in Task : Uncounted[u] \in Int
      BY UncountedNat
    <3>6. PICK Q : PartialSums(Q, Uncounted', ThreadNum) /\ Q[ThreadNum] = S[ThreadNum] - Uncounted[t] + 0
      BY SMTT(30), <3>3, <3>4, <3>5, SumChange, TaskFacts DEF Task
    <3>7. S[ThreadNum] \in Int /\ succ[t] \in Nat /\ errs[t] \in Nat
          /\ coord.success \in Nat /\ coord.error \in Nat
      BY <3>4, TaskFacts DEF PartialSums, PhaseTypes, Counts
    <3>8. coord'.success + coord'.error + Q[ThreadNum] = TotalOps
      BY <3>1, <3>3, <3>4, <3>6, <3>7
    <3> QED BY <3>1, <3>6, <3>8 DEF Counting, DistributeOps
  <2> QED BY <1>2, <2>1, <2>2, <2>3, <2>4 DEF TaskStep
<1>3. ASSUME NEW t \in Task, Post(t) PROVE Counting'
  BY <1>1, <1>3 DEF Post, work
<1>4. CASE ReadResult \/ Tick \/ EndOfProgram
  BY <1>1, <1>4 DEF ReadResult, Tick, EndOfProgram, work
<1> QED BY <1>2, <1>3, <1>4 DEF Next, Runner

(* What the runner has read is what the coordinator still holds.           *)
Reading == result # None => result = coord

LEMMA ReadingStep == ASSUME Finishing, Reading, Next PROVE Reading'
<1>1. ASSUME NEW t \in Task, TaskStep(t) PROVE Reading'
  <2>1. pc[t] # "over"
    <3>1. CASE GetMilliSeconds(t)
      BY <3>1 DEF GetMilliSeconds, ReadClock, StoreMillisecond, LoadMillisecond, KeepMillisecond,
                  ReturnMillisecond, Goes
    <3>2. CASE ~ GetMilliSeconds(t)
      BY <1>1, <3>2 DEF TaskStep, LoadRecord, Swap, Recorded, TakeConn, PoolEmpty, Queried,
                        AddCounts, MarkDone, Goes
    <3> QED BY <3>1, <3>2
  <2>2. result = None
    BY <2>1 DEF Finishing, Over
  <2>3. result' = result
    <3>1. CASE GetMilliSeconds(t)
      BY <3>1 DEF GetMilliSeconds, ReadClock, StoreMillisecond, LoadMillisecond, KeepMillisecond,
                  ReturnMillisecond
    <3>2. CASE ~ GetMilliSeconds(t)
      BY <1>1, <3>2 DEF TaskStep, LoadRecord, Swap, TakeConn, PoolEmpty, Queried,
                        AddCounts, MarkDone
    <3> QED BY <3>1, <3>2
  <2> QED BY <2>2, <2>3 DEF Reading
<1>2. ASSUME NEW t \in Task, Post(t) PROVE Reading'
  BY <1>2 DEF Post, Reading
<1>3. CASE ReadResult \/ Tick \/ EndOfProgram
  BY <1>3 DEF ReadResult, Tick, EndOfProgram, Reading
<1> QED BY <1>1, <1>2, <1>3 DEF Next, Runner

(* The whole invariant of a phase.                                         *)
WholeInv == PhaseInv /\ TimesInv /\ Counting /\ Reading

LEMMA InitWholeInv == Init => WholeInv
<1> SUFFICES ASSUME Init PROVE WholeInv
  OBVIOUS
<1>1. PhaseInv
  BY InitPhaseInv
<1>2. TimesInv
  BY DEF Init, TimesInv, Recording, Clocked, Starts, Ends, Forwards, Started, Ended, Swapping
<1>3. Counting
  <2>1. \A t \in Task : left[t] + succ[t] + errs[t] = DistributeOps(t)
    BY DistributeNat DEF Init
  <2>2. Uncounted = [t \in Task |-> DistributeOps(t)]
    <3>1. \A t \in Task : records[t] = "start"
      BY DEF Init
    <3> QED BY <2>1, <3>1 DEF Uncounted
  <2>3. PICK S : PartialSums(S, Uncounted, ThreadNum) /\ S[ThreadNum] = TotalOps
    BY <2>2, DistributeAll
  <2>4. coord.success + coord.error + S[ThreadNum] = TotalOps
    BY <2>3, PhaseAssumption DEF Init
  <2> QED BY <2>1, <2>3, <2>4 DEF Counting
<1>4. Reading
  BY DEF Init, Reading
<1> QED BY <1>1, <1>2, <1>3, <1>4 DEF WholeInv

LEMMA WholeInvStep == WholeInv /\ [Next]_vars => WholeInv'
<1> SUFFICES ASSUME WholeInv, [Next]_vars PROVE WholeInv'
  OBVIOUS
<1>0. PhaseInv'
  BY PhaseInvStep DEF WholeInv
<1>1. CASE UNCHANGED vars
  <2>1. TimesInv' /\ Reading'
    BY <1>1 DEF vars, clockVars, WholeInv, TimesInv, Recording, Clocked, Starts, Ends, Forwards,
                Started, Ended, Swapping, Reading
  <2>2. Counting'
    <3>1. Uncounted' = Uncounted
      BY <1>1 DEF vars, work, Uncounted
    <3> QED BY <1>1, <3>1 DEF vars, work, WholeInv, Counting, DistributeOps
  <2> QED BY <1>0, <2>1, <2>2 DEF WholeInv
<1>2. CASE Next
  <2>1. TimesInv'
    BY <1>2, RecordingStep, ClockedStep, StartsEndsStep, ForwardsStep
       DEF WholeInv, PhaseInv, TimesInv
  <2>2. Counting'
    BY <1>2, CountingStep DEF WholeInv, PhaseInv, TimesInv
  <2>3. Reading'
    BY <1>2, ReadingStep DEF WholeInv, PhaseInv
  <2> QED BY <1>0, <2>1, <2>2, <2>3 DEF WholeInv
<1> QED BY <1>1, <1>2

LEMMA WholeInvariant == Spec => []WholeInv
BY InitWholeInv, WholeInvStep, PTL DEF Spec

(* What the runner of a phase reads from the coordinator is the phase as a *)
(* whole, with any number of tasks, services, connections and statements:  *)
(* all tasks are over, each statement is counted once, and the times are   *)
(* the earliest start and the latest end the tasks were given.             *)
THEOREM PhaseResult == Spec => []ResultIsWhole
<1>1. WholeInv => ResultIsWhole
  <2> SUFFICES ASSUME WholeInv, result # None
               PROVE  /\ \A t \in Task : pc[t] = "over"
                      /\ coord.success + coord.error = TotalOps
                      /\ \A t \in Task : coord.start <= times[t].start /\ times[t].end <= coord.end
                      /\ \E t \in Task : coord.start = times[t].start
                      /\ \E t \in Task : coord.end = times[t].end
                      /\ clock = "register" => coord.start <= coord.end
    BY DEF ResultIsWhole, WholeInv, Reading
  <2>1. \A t \in Task : pc[t] = "over"
    BY DEF WholeInv, PhaseInv, Finishing, Over
  <2>2. \A t \in Task : records[t] = "end" /\ Started(t) /\ Ended(t)
    BY <2>1 DEF WholeInv, TimesInv, Recording, Started, Ended
  <2>3. coord.success + coord.error = TotalOps
    <3>1. PICK S : PartialSums(S, Uncounted, ThreadNum) /\ coord.success + coord.error + S[ThreadNum] = TotalOps
      BY DEF WholeInv, Counting
    <3>2. \A t \in Task : Uncounted[t] = 0
      BY <2>2 DEF Uncounted
    <3>3. S[ThreadNum] = 0
      BY <3>1, <3>2, SumOfZeros, TaskFacts DEF Task
    <3>4. coord.success \in Nat /\ coord.error \in Nat
      BY DEF WholeInv, PhaseInv, PhaseTypes, Counts
    <3> QED BY <3>1, <3>3, <3>4
  <2>4. PICK one \in Task : TRUE
    BY TaskFacts DEF Task
  <2>5. \A t \in Task : /\ coord.start # 0 /\ coord.start <= times[t].start
                        /\ times[t].end >= 1 /\ times[t].end <= coord.end
    BY <2>2 DEF WholeInv, TimesInv, Starts, Ends
  <2>6. \E t \in Task : coord.start = times[t].start
    BY <2>4, <2>5 DEF WholeInv, TimesInv, Starts
  <2>7. coord.end # 0
    BY <2>4, <2>5, TimesTypes DEF WholeInv, PhaseInv
  <2>8. \E t \in Task : coord.end = times[t].end
    BY <2>7 DEF WholeInv, TimesInv, Ends
  <2>9. clock = "register" => coord.start <= coord.end
    <3>1. clock = "register" => times[one].start <= times[one].end
      BY <2>2, <2>4 DEF WholeInv, TimesInv, Forwards
    <3>2. /\ times[one].start \in Nat /\ times[one].end \in Nat
          /\ coord.start \in Nat /\ coord.end \in Nat
      BY <2>4, TimesTypes DEF WholeInv, PhaseInv
    <3> QED BY <2>4, <2>5, <3>1, <3>2
  <2> QED BY <2>1, <2>3, <2>5, <2>6, <2>8, <2>9
<1> QED BY <1>1, WholeInvariant, PTL

(* Every variable of a phase has its type, the counts within their bounds. *)
THEOREM PhaseTypeCorrect == Spec => []TypeOK
<1>1. WholeInv => TypeOK
  <2> SUFFICES ASSUME WholeInv PROVE TypeOK
    OBVIOUS
  <2>1. PICK S : PartialSums(S, Uncounted, ThreadNum) /\ coord.success + coord.error + S[ThreadNum] = TotalOps
    BY DEF WholeInv, Counting
  <2>2. S[ThreadNum] \in Nat
    BY <2>1, UncountedNat, SumNonNegative, TaskFacts DEF WholeInv, PhaseInv, Task
  <2>3. coord.success \in Count /\ coord.error \in Count
    BY <2>1, <2>2, PhaseAssumption DEF WholeInv, PhaseInv, PhaseTypes, Counts, Count
  <2>4. coord.done \in 0 .. ThreadNum
    <3>1. Over \in SUBSET Task
      BY DEF Over
    <3>2. IsFiniteSet(Over) /\ Cardinality(Over) <= ThreadNum /\ Cardinality(Over) \in Nat
      BY <3>1, TaskFacts, FS_Subset, FS_CardinalityType
    <3> QED BY <3>2, TaskFacts DEF WholeInv, PhaseInv, Finishing
  <2>5. coord \in Coordinator
    BY <2>3, <2>4 DEF WholeInv, PhaseInv, PhaseTypes, Counts, Coordinator
  <2>6. result \in Coordinator \cup {None}
    BY <2>5 DEF WholeInv, Reading
  <2>7. ASSUME NEW t \in Task PROVE left[t] \in Count /\ succ[t] \in Count /\ errs[t] \in Count
    <3>1. left[t] \in Nat /\ succ[t] \in Nat /\ errs[t] \in Nat
          /\ left[t] + succ[t] + errs[t] = DistributeOps(t)
      BY DEF WholeInv, PhaseInv, PhaseTypes, Counting
    <3>2. DistributeOps(t) <= TotalOps
      <4>1. PICK D : PartialSums(D, [u \in Task |-> DistributeOps(u)], ThreadNum) /\ D[ThreadNum] = TotalOps
        BY DistributeAll
      <4> DEFINE w == [u \in Task |-> DistributeOps(u)]
      <4>2. \A u \in Task : w[u] \in Nat
        BY DistributeNat
      <4>3. w[t] <= TotalOps
        <5> HIDE DEF w
        <5> QED BY <4>1, <4>2, SumBoundsTerm, TaskFacts DEF w, Task
      <4> QED BY <4>3
    <3> QED BY <3>1, <3>2, DistributeNat, PhaseAssumption DEF Count
  <2> QED BY <2>5, <2>6, <2>7 DEF TypeOK, WholeInv, PhaseInv, PoolInv, PhaseTypes, PC
<1> QED BY <1>1, WholeInvariant, PTL
=============================================================================
