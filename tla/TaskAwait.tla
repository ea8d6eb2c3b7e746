------------------------------ MODULE TaskAwait ------------------------------
(***************************************************************************)
(* nicehero::Task (src/Task.hpp): a coroutine that runs in the service     *)
(* "executer" and resumes the coroutine that awaits it in the service      *)
(* "return_context".                                                       *)
(*                                                                         *)
(* One coroutine, the caller, works through a program of the steps C++     *)
(* compiles a function's body to: create a task (call the function), await *)
(* it, destroy it (the end of the full expression or of the scope).  The   *)
(* Task object and the promise in the coroutine's frame point at each      *)
(* other; each clears the other's pointer in its destructor, and the two   *)
(* destructors run on different threads with no lock.  A read of a pointer *)
(* and the write through it are therefore two steps.  An access to an      *)
(* object that is gone, and a resume() before the coroutine is suspended,  *)
(* are undefined; they are recorded in faults, with the outcome builds     *)
(* show, which is that execution goes on.                                  *)
(***************************************************************************)
EXTENDS Naturals, Sequences, FiniteSets

CONSTANTS
  Task,                    \* the tasks of the program
  Service,                 \* TO_MAIN, TO_MULTIWORKER, ...
  Executer, ReturnTo,      \* the template arguments of each task
  Thread,                  \* the threads, and the service each one runs
  ServiceOf,
  CallerThread,            \* the thread the caller starts on
  Programs,                \* the programs a caller may have
  None                     \* no thread, no task, no service

Step == [op : {"create", "await", "destroy"}, task : Task]

ASSUME ServicesAssumption ==
  /\ Executer \in [Task -> Service] /\ ReturnTo \in [Task -> Service]
  /\ ServiceOf \in [Thread -> Service] /\ CallerThread \in Thread
  /\ None \notin Thread \cup Task \cup Service
(* A call makes a task once; the Task it returns is awaited once or not at *)
(* all, and destroyed after that.                                          *)
At(p, op, t) == {i \in DOMAIN p : p[i] = [op |-> op, task |-> t]}
WellFormed(p) ==
  /\ \A i, j \in DOMAIN p : p[i] = p[j] => i = j
  /\ \A i \in DOMAIN p : p[i].op # "create" => \E j \in At(p, "create", p[i].task) : j < i
  /\ \A t \in Task : \A i \in At(p, "await", t), j \in At(p, "destroy", t) : i < j

ASSUME ProgramsAssumption ==
  \A p \in Programs : p \in Seq(Step) /\ WellFormed(p)

VARIABLES
  program, pc,             \* the caller's steps, and the next one
  at,                      \* the thread the caller runs on, None if suspended
  inside,                  \* what the caller is in the middle of
  task,                    \* the Task objects
  promise,                 \* the promises
  queue,                   \* the services' queues of closures
  job,                     \* what each thread does for a task
  got,                     \* history: tasks whose await has returned, in order
  faults                   \* history: undefined operations performed

vars == <<program, pc, at, inside, task, promise, queue, job, got, faults>>

Objects == {"task", "promise", "suspension"}
NoTask == [alive |-> FALSE, promise |-> FALSE, handle |-> FALSE, ret |-> FALSE, first |-> None]
NoPromise == [alive |-> FALSE, task |-> FALSE, suspended |-> FALSE, count |-> 0]
Idle == [does |-> "idle", task |-> None]

TypeOK ==
  /\ program \in Programs /\ pc \in 1 .. Len(program) + 1
  /\ at \in Thread \cup {None}
  /\ inside \in {"nothing", "create", "resumed", "destroy"}
  /\ task \in [Task -> [alive : BOOLEAN, promise : BOOLEAN, handle : BOOLEAN,
                        ret : BOOLEAN, first : Service \cup {None}]]
  /\ promise \in [Task -> [alive : BOOLEAN, task : BOOLEAN, suspended : BOOLEAN,
                           count : 0 .. 1]]
  /\ queue \in [Service -> Seq([do : {"run", "resume"}, task : Task])]
  /\ job \in [Thread -> [does : {"idle", "return", "deref", "wait", "reply",
                                 "nested", "free", "unlink"}, task : Task \cup {None}]]
  /\ got \in Seq([task : Task, ret : BOOLEAN, service : Service])
  /\ faults \subseteq Objects \X Task

Init ==
  /\ program \in Programs /\ pc = 1
  /\ at = CallerThread /\ inside = "nothing"
  /\ task = [t \in Task |-> NoTask]
  /\ promise = [t \in Task |-> NoPromise]
  /\ queue = [s \in Service |-> <<>>]
  /\ job = [th \in Thread |-> Idle]
  /\ got = <<>> /\ faults = {}

Post(do, t, s) == queue' = [queue EXCEPT ![s] = Append(@, [do |-> do, task |-> t])]

Fault(object, t, happens) == faults' = faults \cup {f \in {<<object, t>>} : happens}

(* The caller is about to perform this step, on this thread. *)
CallerDoes(op, t, th) ==
  /\ at = th /\ inside = "nothing"
  /\ pc <= Len(program) /\ program[pc] = [op |-> op, task |-> t]

(* The thread can take a closure of its service: it runs neither a task    *)
(* nor the caller.                                                         *)
Takes(do, t, th) ==
  /\ job[th] = Idle /\ at # th
  /\ LET s == ServiceOf[th] IN
       /\ queue[s] # <<>> /\ Head(queue[s]) = [do |-> do, task |-> t]
       /\ queue' = [queue EXCEPT ![s] = Tail(@)]

-----------------------------------------------------------------------------
(* The function is called on a thread of the executer: its body runs in    *)
(* the call, return_value() finds no handle to resume, and the promise is  *)
(* gone when the call returns.                                             *)
CreateHere(t, th) ==
  /\ CallerDoes("create", t, th) /\ Executer[t] = ServiceOf[th]
  /\ task' = [task EXCEPT ![t] = [NoTask EXCEPT !.alive = TRUE, !.ret = TRUE,
                                                !.first = ServiceOf[th]]]
  /\ pc' = pc + 1
  /\ UNCHANGED <<program, at, inside, promise, queue, job, got, faults>>

(* Elsewhere: Task's constructor, called by get_return_object(), posts the *)
(* resumption of the coroutine to the executer ...                         *)
CreateThere(t, th) ==
  /\ CallerDoes("create", t, th) /\ Executer[t] # ServiceOf[th]
  /\ task' = [task EXCEPT ![t] = [NoTask EXCEPT !.alive = TRUE, !.promise = TRUE,
                                                !.first = ServiceOf[th]]]
  /\ promise' = [promise EXCEPT ![t] = [NoPromise EXCEPT !.alive = TRUE, !.task = TRUE]]
  /\ Post("run", t, Executer[t])
  /\ inside' = "create"
  /\ UNCHANGED <<program, pc, at, job, got, faults>>

(* ... and only then does initial_suspend() suspend it. *)
InitialSuspend ==
  /\ inside = "create"
  /\ promise' = [promise EXCEPT ![program[pc].task].suspended = TRUE]
  /\ inside' = "nothing" /\ pc' = pc + 1
  /\ UNCHANGED <<program, at, task, queue, job, got, faults>>

(* await_suspend(), for a task whose body ran in the call and that returns *)
(* to the same service: the caller is resumed on the spot.                 *)
AwaitHere(t, th) ==
  /\ CallerDoes("await", t, th)
  /\ task[t].first = Executer[t] /\ ReturnTo[t] = Executer[t]
  /\ inside' = "resumed"
  /\ UNCHANGED <<program, pc, at, task, promise, queue, job, got, faults>>

(* The same, for one that returns elsewhere: the caller is posted there. *)
AwaitMoves(t, th) ==
  /\ CallerDoes("await", t, th)
  /\ task[t].first = Executer[t] /\ ReturnTo[t] # Executer[t]
  /\ Post("resume", t, ReturnTo[t])
  /\ at' = None /\ inside' = "resumed"
  /\ UNCHANGED <<program, pc, task, promise, job, got, faults>>

(* Mutant: the handle is left, and the executer not told. *)
AwaitSuspendsNoSignal(t, th) ==
  /\ CallerDoes("await", t, th)
  /\ task[t].first # Executer[t]
  /\ task' = [task EXCEPT ![t].handle = TRUE]
  /\ at' = None /\ inside' = "resumed"
  /\ UNCHANGED <<program, pc, promise, queue, job, got, faults>>

(* Mutant: the caller is posted at once, the executer not told. *)
AwaitSuspendsMovesAtOnce(t, th) ==
  /\ CallerDoes("await", t, th)
  /\ task[t].first # Executer[t]
  /\ Post("resume", t, ReturnTo[t])
  /\ at' = None /\ inside' = "resumed"
  /\ UNCHANGED <<program, pc, task, promise, job, got, faults>>

(* For one that runs elsewhere: leave the handle, tell the executer. *)
AwaitSuspends(t, th) ==
  /\ CallerDoes("await", t, th)
  /\ task[t].first # Executer[t]
  /\ task' = [task EXCEPT ![t].handle = TRUE]
  /\ promise' = [promise EXCEPT ![t].count = IF task[t].promise THEN @ + 1 ELSE @]
  /\ at' = None /\ inside' = "resumed"
  /\ UNCHANGED <<program, pc, queue, job, got, faults>>

(* await_resume(), once a thread runs the caller again. *)
AwaitResume(th) ==
  /\ at = th /\ inside = "resumed"
  /\ LET t == program[pc].task IN
       got' = Append(got, [task |-> t, ret |-> task[t].ret, service |-> ServiceOf[th]])
  /\ inside' = "nothing" /\ pc' = pc + 1
  /\ UNCHANGED <<program, at, task, promise, queue, job, faults>>

(* ~Task(): read m_promise; if it is null there is nothing to do ...       *)
Destroy(t, th) ==
  /\ CallerDoes("destroy", t, th)
  /\ \/ /\ task[t].promise
        /\ inside' = "destroy"
        /\ UNCHANGED <<pc, task>>
     \/ /\ ~task[t].promise
        /\ task' = [task EXCEPT ![t] = NoTask]
        /\ pc' = pc + 1 /\ UNCHANGED inside
  /\ UNCHANGED <<program, at, promise, queue, job, got, faults>>

(* Mutant: the promise keeps its pointer to the task. *)
DestroyUnlinksNot ==
  /\ inside = "destroy"
  /\ LET t == program[pc].task IN
       /\ Fault("promise", t, ~promise[t].alive)
       /\ task' = [task EXCEPT ![t] = NoTask]
  /\ inside' = "nothing" /\ pc' = pc + 1
  /\ UNCHANGED <<program, at, promise, queue, job, got>>

(* ... otherwise clear the promise's m_task.                               *)
DestroyUnlinks ==
  /\ inside = "destroy"
  /\ LET t == program[pc].task IN
       /\ Fault("promise", t, ~promise[t].alive)
       /\ promise' = [promise EXCEPT ![t].task = FALSE]
       /\ task' = [task EXCEPT ![t] = NoTask]
  /\ inside' = "nothing" /\ pc' = pc + 1
  /\ UNCHANGED <<program, at, queue, job, got>>

(* The caller's body is over. *)
CallerEnds ==
  /\ at # None /\ pc = Len(program) + 1
  /\ at' = None
  /\ UNCHANGED <<program, pc, inside, task, promise, queue, job, got, faults>>

-----------------------------------------------------------------------------
(* A thread of the executer resumes the coroutine; its body runs. *)
Run(t, th) ==
  /\ Takes("run", t, th)
  /\ Fault("suspension", t, ~promise[t].suspended)
  /\ job' = [job EXCEPT ![th] = [does |-> "return", task |-> t]]
  /\ UNCHANGED <<program, pc, at, inside, task, promise, got>>

Goes(th, from, to) ==
  /\ job[th].does = from
  /\ job' = [job EXCEPT ![th].does = to]

(* return_value(): read m_task; without a task there is nobody to tell. *)
ReadTask(th) ==
  /\ job[th].does = "return"
  /\ Goes(th, "return", IF promise[job[th].task].task THEN "deref" ELSE "free")
  /\ UNCHANGED <<program, pc, at, inside, task, promise, queue, got, faults>>

(* The task's first_context is not the executer. *)
ReadContext(th) ==
  /\ job[th].does = "deref" /\ Goes(th, "deref", "wait")
  /\ Fault("task", job[th].task, ~task[job[th].task].alive)
  /\ UNCHANGED <<program, pc, at, inside, task, promise, queue, got>>

(* m_semaphore.wait(): until the caller has left its handle. *)
Wait(th) ==
  /\ job[th].does = "wait" /\ promise[job[th].task].count > 0
  /\ Goes(th, "wait", "reply")
  /\ promise' = [promise EXCEPT ![job[th].task].count = @ - 1]
  /\ UNCHANGED <<program, pc, at, inside, task, queue, got, faults>>

(* Mutant: the result is stored after the caller is posted. *)
ReplyLate(th) ==
  LET t == job[th].task IN
  /\ job[th].does = "reply"
  /\ UNCHANGED task
  /\ \/ /\ ~task[t].handle /\ Goes(th, "reply", "free") /\ UNCHANGED <<at, queue>>
     \/ /\ task[t].handle /\ ReturnTo[t] = ServiceOf[th]
        /\ Goes(th, "reply", "nested") /\ at' = th /\ UNCHANGED queue
     \/ /\ task[t].handle /\ ReturnTo[t] # ServiceOf[th]
        /\ Goes(th, "reply", "free") /\ Post("resume", t, ReturnTo[t]) /\ UNCHANGED at
  /\ UNCHANGED <<program, pc, inside, promise, got, faults>>

(* Mutant: the caller is posted as well as resumed. *)
ReplyTwice(th) ==
  LET t == job[th].task IN
  /\ job[th].does = "reply"
  /\ task' = [task EXCEPT ![t].ret = TRUE]
  /\ \/ /\ ~task[t].handle /\ Goes(th, "reply", "free") /\ UNCHANGED <<at, queue>>
     \/ /\ task[t].handle /\ ReturnTo[t] = ServiceOf[th]
        /\ Goes(th, "reply", "nested") /\ at' = th /\ Post("resume", t, ReturnTo[t])
     \/ /\ task[t].handle /\ ReturnTo[t] # ServiceOf[th]
        /\ Goes(th, "reply", "free") /\ Post("resume", t, ReturnTo[t]) /\ UNCHANGED at
  /\ UNCHANGED <<program, pc, inside, promise, got, faults>>

(* Store the result; resume the caller here, inside this call, if this is  *)
(* the service it returns to, otherwise post it there.                     *)
Reply(th) ==
  LET t == job[th].task IN
  /\ job[th].does = "reply"
  /\ task' = [task EXCEPT ![t].ret = TRUE]
  /\ \/ /\ ~task[t].handle /\ Goes(th, "reply", "free") /\ UNCHANGED <<at, queue>>
     \/ /\ task[t].handle /\ ReturnTo[t] = ServiceOf[th]
        /\ Goes(th, "reply", "nested") /\ at' = th /\ UNCHANGED queue
     \/ /\ task[t].handle /\ ReturnTo[t] # ServiceOf[th]
        /\ Goes(th, "reply", "free") /\ Post("resume", t, ReturnTo[t]) /\ UNCHANGED at
  /\ UNCHANGED <<program, pc, inside, promise, got, faults>>

(* resume() returns when the caller suspends again or ends. *)
NestedReturns(th) ==
  /\ at # th
  /\ Goes(th, "nested", "free")
  /\ UNCHANGED <<program, pc, at, inside, task, promise, queue, got, faults>>

(* The coroutine is over and its frame freed.  ~promise_type(): read       *)
(* m_task; if it is null there is nothing to do ...                        *)
FreePromise(th) ==
  LET t == job[th].task IN
  /\ job[th].does = "free"
  /\ \/ /\ promise[t].task
        /\ Goes(th, "free", "unlink")
        /\ UNCHANGED promise
     \/ /\ ~promise[t].task
        /\ promise' = [promise EXCEPT ![t].alive = FALSE]
        /\ job' = [job EXCEPT ![th] = Idle]
  /\ UNCHANGED <<program, pc, at, inside, task, queue, got, faults>>

(* ... otherwise clear the task's m_promise.                               *)
FreeUnlinks(th) ==
  LET t == job[th].task IN
  /\ job[th].does = "unlink"
  /\ Fault("task", t, ~task[t].alive)
  /\ task' = [task EXCEPT ![t].promise = FALSE]
  /\ promise' = [promise EXCEPT ![t].alive = FALSE, ![t].task = FALSE]
  /\ job' = [job EXCEPT ![th] = Idle]
  /\ UNCHANGED <<program, pc, at, inside, queue, got>>

(* A thread takes the caller from its service's queue. *)
Resume(t, th) ==
  /\ Takes("resume", t, th)
  /\ at' = th
  /\ UNCHANGED <<program, pc, inside, task, promise, job, got, faults>>

CallerStep ==
  \/ \E t \in Task, th \in Thread :
       \/ CreateHere(t, th) \/ CreateThere(t, th)
       \/ AwaitHere(t, th) \/ AwaitMoves(t, th) \/ AwaitSuspends(t, th)
       \/ Destroy(t, th)
  \/ \E th \in Thread : AwaitResume(th)
  \/ InitialSuspend \/ DestroyUnlinks \/ CallerEnds

ThreadStep(th) ==
  \/ \E t \in Task : Run(t, th) \/ Resume(t, th)
  \/ ReadTask(th) \/ ReadContext(th) \/ Wait(th) \/ Reply(th)
  \/ NestedReturns(th) \/ FreePromise(th) \/ FreeUnlinks(th)

Next == CallerStep \/ \E th \in Thread : ThreadStep(th)

(* The operating system runs every thread, the caller's included. *)
Fairness == WF_vars(CallerStep) /\ \A th \in Thread : WF_vars(ThreadStep(th))

Spec == Init /\ [][Next]_vars
FairSpec == Spec /\ Fairness

-----------------------------------------------------------------------------
(* Task t is created, something else is awaited, and only then t. *)
Kept(p, t) ==
  \E i \in At(p, "create", t), j \in At(p, "await", t) :
    \E k \in i + 1 .. j - 1 : p[k].op = "await"

(* Every co_await returns the value of its task, in the service the task's *)
(* type names, and exactly once, in the order of the program.  The one     *)
(* exception: a task that ran in the call that made it, and returns there, *)
(* resumes its caller where it is (l. 158), which is elsewhere when an     *)
(* await in between moved the caller.                                      *)
AwaitsReturn ==
  /\ \A i \in DOMAIN got : got[i].ret
  /\ \A i \in DOMAIN got : LET t == got[i].task IN
       \/ got[i].service = ReturnTo[t]
       \/ ReturnTo[t] = Executer[t] /\ Kept(program, t)
  /\ LET awaits == {i \in 1 .. pc - 1 : program[i].op = "await"} IN
       /\ Len(got) = Cardinality(awaits)
       /\ \A i \in awaits : got[Cardinality(awaits \cap 1 .. i)].task = program[i].task

(* The caller is suspended for a task that will resume it, or on exactly   *)
(* one thread: it is never queued or handed over twice.                    *)
Resumes == {e \in UNION {{s} \X DOMAIN queue[s] : s \in Service} :
              queue[e[1]][e[2]].do = "resume"}
ResumedOnce ==
  /\ \A e, f \in Resumes : e = f
  /\ at # None => Resumes = {}

(* A thread of an executer that waits for a task's caller waits for an     *)
(* await that is still to come: no task can take its thread away for good. *)
(* A caller may drop its task: "f();//do coroutine" (README.md:82).        *)
WaitersAreAwaited ==
  \A th \in Thread : job[th].does = "wait" =>
    LET t == job[th].task IN
    \/ promise[t].count > 0
    \/ \E i \in At(program, "await", t) : i >= pc

(* The tasks that may hold a thread of service s when step i, an await of  *)
(* t, is reached: created and not awaited yet.                             *)
Holding(p, i, s) ==
  {u \in Task : /\ Executer[u] = s
                /\ \E k \in At(p, "create", u) : k < i
                /\ \A k \in At(p, "await", u) : k >= i}

CreatedBefore(p, u, t) ==
  \E k \in At(p, "create", u) : \E l \in At(p, "create", t) : k < l

ThreadsOf(s) == {th \in Thread : ServiceOf[th] = s}

(* Each await finds a thread to run its task, which was queued behind the  *)
(* tasks created before it, and one to take the caller back.               *)
NeverStarved(p) ==
  \A i \in DOMAIN p : p[i].op = "await" =>
    LET t == p[i].task
        ahead == {u \in Holding(p, i, Executer[t]) : CreatedBefore(p, u, t)}
        others == Holding(p, i, ReturnTo[t]) \ {t}
    IN  /\ Cardinality(ahead) < Cardinality(ThreadsOf(Executer[t]))
        /\ ReturnTo[t] # Executer[t] =>
             Cardinality(others) < Cardinality(ThreadsOf(ReturnTo[t]))

(* A caller whose awaits are never starved gets to its end.  (Another may  *)
(* wait for ever for a task, or for its own return, queued behind a thread *)
(* that waits for the caller to await something else.)                     *)
AwaitsFinish == NeverStarved(program) => <>(pc = Len(program) + 1 /\ at = None)

(* Task t returns to the service it runs in, and is destroyed, if at all,  *)
(* after its await and before the next one, as co_await f() destroys it.   *)
Prompt(p, t) ==
  /\ Executer[t] = ReturnTo[t]
  /\ \A k \in At(p, "destroy", t) : \E i \in At(p, "await", t) :
       \A j \in i + 1 .. k - 1 : p[j].op # "await"

(* The Task and the promise point at each other, and each clears the       *)
(* other's pointer as it ends.  Of a prompt task neither is used after its *)
(* end.  Of any other the two destructors may run on two threads, and each *)
(* may read the other's pointer before it is cleared (l. 140 and 192).     *)
ObjectsOutliveUse ==
  \A f \in faults : f[1] \in {"task", "promise"} => ~Prompt(program, f[2])
=============================================================================
