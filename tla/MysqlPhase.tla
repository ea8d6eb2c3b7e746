------------------------------ MODULE MysqlPhase ------------------------------
(***************************************************************************)
(* One phase of a benchmark (src/mysqlBenchmark.cpp; mongoBenchmarkV2.cpp  *)
(* has the same coordinator): the runner shares statements out to tasks,   *)
(* posts the tasks to the database services, polls until all are done, and *)
(* reads the counts and times a TaskCoordinator on its stack has gathered. *)
(* The coordinator keeps the earliest start and the latest end with        *)
(* compare-and-swap loops; the tasks share the connections of MysqlPool.   *)
(*                                                                         *)
(* The times come from Clock::getMilliSeconds (src/Clock.cpp), which all   *)
(* threads call on one Clock and which passes its value through two of the *)
(* Clock's members with no lock.  The library is built without             *)
(* optimisation by default (CMakeLists.txt), and then each access is one   *)
(* of memory (clock = "memory"); an optimising compiler keeps the value in *)
(* a register (clock = "register").                                        *)
(***************************************************************************)
EXTENDS MysqlPool, FiniteSets

CONSTANTS
  ThreadNum,               \* tasks of the phase
  TotalOps,                \* statements of the phase
  Service,                 \* gDBServices, one thread each
  Clocks,                  \* the values of clock to consider
  MaxTime                  \* bound: the last millisecond

Task == 1 .. ThreadNum

ASSUME PhaseAssumption ==
  /\ ThreadNum \in Nat \ {0} /\ TotalOps \in Nat /\ MaxTime \in Nat \ {0}
  /\ User = Task /\ None \notin Service /\ Clocks \subseteq {"memory", "register"}

ASSUME ServiceAssumption == IsFiniteSet(Service)

VARIABLES
  clock,                   \* how Clock.cpp was built, see above
  time,                    \* CLOCK_MONOTONIC
  millisecond,             \* the Clock's m_millisecond
  retMillisecond,          \* and m_retMillisecond
  service,                 \* where each task was posted
  pc,                      \* how far each task is
  records,                 \* the time it records next: its start or its end
  now, expected,           \* locals of recordStart and recordEnd
  left, succ, errs,        \* statements it has to do and has done
  times,                   \* history: the times the clock gave it
  coord,                   \* the TaskCoordinator's atomics
  result                   \* what the runner has read from it

clockVars == <<clock, time, millisecond, retMillisecond>>
members == <<millisecond, retMillisecond>>
work == <<left, succ, errs>>
vars == <<poolVars, clockVars, service, pc, records, now, expected, work, times, coord, result>>

Time == 0 .. MaxTime
Count == 0 .. TotalOps
Coordinator == [start : Time, end : Time, done : 0 .. ThreadNum, success : Count, error : Count]

TypeOK ==
  /\ PoolTypeOK
  /\ clock \in Clocks
  /\ time \in Time /\ millisecond \in Time /\ retMillisecond \in Time
  /\ service \in [Task -> Service \cup {None}]
  /\ pc \in [Task -> {"none", "entered", "store", "load", "keep", "return", "got", "swap",
                      "working", "querying", "counted", "recorded", "over"}]
  /\ records \in [Task -> {"start", "end"}]
  /\ now \in [Task -> Time] /\ expected \in [Task -> Time]
  /\ left \in [Task -> Count] /\ succ \in [Task -> Count] /\ errs \in [Task -> Count]
  /\ times \in [Task -> [start : Time, end : Time]]
  /\ coord \in Coordinator
  /\ result \in Coordinator \cup {None}

(* distributeOps *)
DistributeOps(t) ==
  TotalOps \div ThreadNum + (IF t <= TotalOps % ThreadNum THEN 1 ELSE 0)

Init ==
  /\ PoolInit
  /\ clock \in Clocks
  /\ time = 1 /\ millisecond = 0 /\ retMillisecond = 0
  /\ service = [t \in Task |-> None] /\ pc = [t \in Task |-> "none"]
  /\ records = [t \in Task |-> "start"]
  /\ now = [t \in Task |-> 0] /\ expected = [t \in Task |-> 0]
  /\ left = [t \in Task |-> DistributeOps(t)]
  /\ succ = [t \in Task |-> 0] /\ errs = [t \in Task |-> 0]
  /\ times = [t \in Task |-> [start |-> 0, end |-> 0]]
  /\ coord = [start |-> 0, end |-> 0, done |-> 0, success |-> 0, error |-> 0]
  /\ result = None

Goes(t, from, to) == pc[t] = from /\ pc' = [pc EXCEPT ![t] = to]

(* A service runs its tasks to their ends, in the order they were posted. *)
Turn(t) ==
  /\ service[t] # None
  /\ \A u \in 1 .. t-1 : service[u] = service[t] => pc[u] = "over"

Tick ==
  /\ time < MaxTime
  /\ time' = time + 1
  /\ UNCHANGED <<poolVars, clock, members, service, pc, records, now, expected, work, times,
                 coord, result>>

(* The runner posts the tasks, each to any of the services. *)
Post(t) ==
  /\ service[t] = None /\ \A u \in 1 .. t-1 : service[u] # None
  /\ \E s \in Service : service' = [service EXCEPT ![t] = s]
  /\ Goes(t, "none", "entered")
  /\ UNCHANGED <<poolVars, clockVars, records, now, expected, work, times, coord, result>>

-----------------------------------------------------------------------------
(* Clock::getMilliSeconds, called first by recordStart and recordEnd: the  *)
(* time is read ...                                                        *)
ReadClock(t) ==
  /\ Turn(t)
  /\ \E from \in {"entered", "counted"} :
       Goes(t, from, IF clock = "memory" THEN "store" ELSE "got")
  /\ now' = [now EXCEPT ![t] = time]
  /\ UNCHANGED <<poolVars, clockVars, service, records, expected, work, times, coord, result>>

(* ... stored in m_millisecond ...                                         *)
StoreMillisecond(t) ==
  /\ Goes(t, "store", "load")
  /\ millisecond' = now[t]
  /\ UNCHANGED <<poolVars, clock, time, retMillisecond, service, records, now, expected, work,
                 times, coord, result>>

(* ... loaded from there ...                                               *)
LoadMillisecond(t) ==
  /\ Goes(t, "load", "keep")
  /\ now' = [now EXCEPT ![t] = millisecond]
  /\ UNCHANGED <<poolVars, clockVars, service, records, expected, work, times, coord, result>>

(* ... stored in m_retMillisecond ...                                      *)
KeepMillisecond(t) ==
  /\ Goes(t, "keep", "return")
  /\ retMillisecond' = now[t]
  /\ UNCHANGED <<poolVars, clock, time, millisecond, service, records, now, expected, work,
                 times, coord, result>>

(* ... and returned from there.                                            *)
ReturnMillisecond(t) ==
  /\ Goes(t, "return", "got")
  /\ now' = [now EXCEPT ![t] = retMillisecond]
  /\ UNCHANGED <<poolVars, clockVars, service, records, expected, work, times, coord, result>>

(* recordStart and recordEnd have their time and load the one recorded. *)
LoadRecord(t) ==
  /\ Goes(t, "got", "swap")
  /\ times' = [times EXCEPT ![t][records[t]] = now[t]]
  /\ expected' = [expected EXCEPT ![t] = coord[records[t]]]
  /\ UNCHANGED <<poolVars, clockVars, service, records, now, work, coord, result>>

Improves(t) == IF records[t] = "start" THEN expected[t] = 0 \/ now[t] < expected[t]
                                       ELSE now[t] > expected[t]

Recorded(t) == Goes(t, "swap", IF records[t] = "start" THEN "working" ELSE "recorded")

(* Mutant: the time is stored without a comparison. *)
SwapStores(t) ==
  /\ \/ /\ Improves(t) /\ Recorded(t)
        /\ coord' = [coord EXCEPT ![records[t]] = now[t]]
     \/ ~Improves(t) /\ Recorded(t) /\ UNCHANGED coord
  /\ UNCHANGED <<poolVars, clockVars, service, records, now, expected, work, times, result>>

(* One turn of their loops: compare_exchange_weak stores the time, or      *)
(* loads the one another task has recorded meanwhile.  (If it fails for    *)
(* nothing, nothing changes.)                                              *)
Swap(t) ==
  /\ \/ /\ Improves(t) /\ coord[records[t]] = expected[t]
        /\ Recorded(t)
        /\ coord' = [coord EXCEPT ![records[t]] = now[t]]
        /\ UNCHANGED expected
     \/ /\ Improves(t) /\ coord[records[t]] # expected[t]
        /\ pc[t] = "swap"
        /\ expected' = [expected EXCEPT ![t] = coord[records[t]]]
        /\ UNCHANGED <<pc, coord>>
     \/ /\ ~Improves(t)
        /\ Recorded(t)
        /\ UNCHANGED <<expected, coord>>
  /\ UNCHANGED <<poolVars, clockVars, service, records, now, work, times, result>>

-----------------------------------------------------------------------------
(* execute or query: take a connection ... *)
TakeConn(t) ==
  /\ Goes(t, "working", "querying")
  /\ left[t] > 0
  /\ PopConn(t)
  /\ UNCHANGED <<clockVars, service, records, now, expected, work, times, coord, result>>

(* ... or none is idle, an error ("pool empty").                           *)
PoolEmpty(t) ==
  /\ pc[t] = "working" /\ left[t] > 0 /\ idle = <<>>
  /\ left' = [left EXCEPT ![t] = @ - 1]
  /\ errs' = [errs EXCEPT ![t] = @ + 1]
  /\ UNCHANGED <<poolVars, clockVars, service, pc, records, now, expected, succ, times, coord, result>>

(* The statement succeeds or fails, and the connection goes back.          *)
Queried(t) ==
  /\ Goes(t, "querying", "working")
  /\ PushConn(t)
  /\ left' = [left EXCEPT ![t] = @ - 1]
  /\ \/ succ' = [succ EXCEPT ![t] = @ + 1] /\ UNCHANGED errs
     \/ errs' = [errs EXCEPT ![t] = @ + 1] /\ UNCHANGED succ
  /\ UNCHANGED <<clockVars, service, records, now, expected, times, coord, result>>

(* addSuccess and addError (nobody reads before the task is done).         *)
AddCounts(t) ==
  /\ Goes(t, "working", "counted")
  /\ left[t] = 0
  /\ coord' = [coord EXCEPT !.success = @ + succ[t], !.error = @ + errs[t]]
  /\ records' = [records EXCEPT ![t] = "end"]
  /\ UNCHANGED <<poolVars, clockVars, service, now, expected, work, times, result>>

MarkDone(t) ==
  /\ Goes(t, "recorded", "over")
  /\ coord' = [coord EXCEPT !.done = @ + 1]
  /\ UNCHANGED <<poolVars, clockVars, service, records, now, expected, work, times, result>>

-----------------------------------------------------------------------------
(* Mutant: the runner waits for one task more. *)
IsDoneStrict == coord.done > ThreadNum

IsDone == coord.done >= ThreadNum

(* The runner finds all tasks done, reads the coordinator and leaves the   *)
(* frame it is in.                                                         *)
ReadResult ==
  /\ result = None /\ (\A t \in Task : service[t] # None) /\ IsDone
  /\ result' = coord
  /\ UNCHANGED <<poolVars, clockVars, service, pc, records, now, expected, work, times, coord>>

(* The phase over, the program may end, and the pool with it.              *)
EndOfProgram ==
  /\ result # None /\ ClosePool
  /\ UNCHANGED <<clockVars, service, pc, records, now, expected, work, times, coord, result>>

GetMilliSeconds(t) ==
  ReadClock(t) \/ StoreMillisecond(t) \/ LoadMillisecond(t) \/ KeepMillisecond(t)
    \/ ReturnMillisecond(t)

TaskStep(t) ==
  \/ GetMilliSeconds(t) \/ LoadRecord(t) \/ Swap(t)
  \/ TakeConn(t) \/ PoolEmpty(t) \/ Queried(t) \/ AddCounts(t) \/ MarkDone(t)

Runner == (\E t \in Task : Post(t)) \/ ReadResult

Next == Tick \/ (\E t \in Task : TaskStep(t)) \/ Runner \/ EndOfProgram

(* The services' threads and the runner's run; a statement ends, by the    *)
(* connection's five-second timeouts at the latest.                        *)
Fairness == WF_vars(Runner) /\ \A t \in Task : WF_vars(TaskStep(t))

Spec == Init /\ [][Next]_vars
FairSpec == Spec /\ Fairness

-----------------------------------------------------------------------------
(* With a connection for each service, no statement fails because the pool *)
(* is empty: every task about to execute one finds an idle connection.     *)
ServedWhileEnough ==
  established >= Cardinality(Service) =>
    \A t \in Task : pc[t] = "working" /\ left[t] > 0 => idle # <<>>

(* What the runner reads is the phase as a whole: every task is over and   *)
(* will not touch the coordinator, which is about to go; every statement   *)
(* was counted once; the times are the earliest start and the latest end   *)
(* the clock gave, in that order if the clock is used in registers.        *)
ResultIsWhole ==
  result # None =>
    /\ \A t \in Task : pc[t] = "over"
    /\ result.success + result.error = TotalOps
    /\ \A t \in Task : result.start <= times[t].start /\ times[t].end <= result.end
    /\ \E t \in Task : result.start = times[t].start
    /\ \E t \in Task : result.end = times[t].end
    /\ clock = "register" => result.start <= result.end

(* Every phase ends. *)
PhaseEnds == <>(result # None)

=============================================================================
