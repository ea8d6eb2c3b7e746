--------------------------- MODULE TaskAwaitProofs ---------------------------
(***************************************************************************)
(* Proofs about TaskAwait, for any tasks, services, threads and programs:  *)
(* the caller is in one place, every await returns the value of its task   *)
(* in the service it names, once and in order, no prompt task is used      *)
(* after its end, and, in a program that awaits what it creates, a thread  *)
(* that waits for the caller waits for an await that is still to come.     *)
(*                                                                         *)
(* The invariant follows a task's coroutine from the executer's queue to   *)
(* the thread that runs it, and the caller from its await to the queue of  *)
(* the service it returns to, or to the thread that told it.               *)
(***************************************************************************)
EXTENDS TaskAwait, TLAPS, SequenceTheorems, FiniteSetTheorems

(* The caller has done this step. *)
Done(op, t) == \E k \in 1 .. pc - 1 : program[k] = [op |-> op, task |-> t]
(* It has made the task; it is suspended in the await of the task, or      *)
(* about to return from it.                                                *)
Begun(t) == Done("create", t) \/ (inside = "create" /\ program[pc].task = t)
Awaiting(t) == inside = "resumed" /\ program[pc].task = t
WillDestroy(t) == \E k \in At(program, "destroy", t) : k >= pc
(* The caller has awaited something since it made the task. *)
Moved(t) == \E i, j \in 1 .. pc - 1 :
              i < j /\ program[i] = [op |-> "create", task |-> t] /\ program[j].op = "await"

(* There is a coroutine of the task; it has not told its caller yet. *)
Queued(t) == \E s \in Service : \E i \in DOMAIN queue[s] : queue[s][i] = [do |-> "run", task |-> t]
Early == {"return", "deref", "wait", "reply"}
Pre(t) == Queued(t) \/ \E th \in Thread : job[th].task = t /\ job[th].does \in Early
Exists(t) == Queued(t) \/ \E th \in Thread : job[th].task = t

Caller ==
  /\ inside # "nothing" => pc <= Len(program)
  /\ inside = "create" => program[pc].op = "create" /\ at # None
  /\ inside = "resumed" => program[pc].op = "await"
  /\ inside = "destroy" => program[pc].op = "destroy" /\ at # None

Tasks == \A t \in Task :
  /\ Begun(t) /\ ~Done("destroy", t) => task[t].alive
  /\ task[t].first = Executer[t] => task[t].ret /\ ~task[t].promise
  /\ inside = "destroy" /\ program[pc].task = t => task[t].first # Executer[t]
  /\ promise[t].count > 0 => Done("await", t) \/ Awaiting(t)

Placed == \A t \in Task :
  at # None /\ inside # "resumed" /\ Begun(t) /\ ~Done("destroy", t) /\ ~Moved(t)
    => task[t].first = ServiceOf[at]

Jobs == \A th \in Thread :
  /\ job[th].does = "idle" <=> job[th].task = None
  /\ \A t \in Task : job[th].task = t =>
       /\ ServiceOf[th] = Executer[t]
       /\ ~Queued(t)
       /\ \A other \in Thread : job[other].task = t => other = th
       /\ job[th].does = "reply" => Awaiting(t)
       /\ job[th].does = "nested" => Done("await", t) \/ (Awaiting(t) /\ at = th)

Closures ==
  \A s, r \in Service : \A i \in DOMAIN queue[s], j \in DOMAIN queue[r] :
    /\ queue[s][i].do = queue[r][j].do
    /\ queue[s][i].do = "resume" \/ queue[s][i].task = queue[r][j].task
    => s = r /\ i = j

Runs == \A s \in Service : \A i \in DOMAIN queue[s] :
  queue[s][i].do = "run" => s = Executer[queue[s][i].task]

Coroutines == \A t \in Task : Exists(t) =>
  Begun(t) /\ promise[t].alive /\ task[t].first # Executer[t]
  /\ IF Done("destroy", t) THEN ~promise[t].task ELSE task[t].promise

Untold == \A t \in Task : Pre(t) =>
  /\ ~Done("await", t)
  /\ (task[t].handle <=> Awaiting(t))
  /\ Awaiting(t) => at = None /\ Resumes = {}
  /\ promise[t].task \/ Done("destroy", t)

Resuming == \A s \in Service : \A i \in DOMAIN queue[s] : queue[s][i].do = "resume" =>
  LET t == queue[s][i].task IN
  /\ at = None /\ Awaiting(t) /\ task[t].ret
  /\ s = ReturnTo[t] /\ ReturnTo[t] # Executer[t]

Back == at # None /\ inside = "resumed" =>
  LET t == program[pc].task IN
  /\ task[t].ret
  /\ \/ ServiceOf[at] = ReturnTo[t]
     \/ ReturnTo[t] = Executer[t] /\ Moved(t)

Returned ==
  /\ \A i \in DOMAIN got : got[i].ret
  /\ \A i \in DOMAIN got : LET t == got[i].task IN
       \/ got[i].service = ReturnTo[t]
       \/ ReturnTo[t] = Executer[t] /\ Kept(program, t)

Under == \A t \in Task :
  Prompt(program, t) /\ WillDestroy(t) /\ task[t].first # Executer[t] =>
    /\ Done("await", t) => at # None
    /\ at # None /\ (Done("await", t) \/ Awaiting(t)) =>
         job[at] = [does |-> "nested", task |-> t]

Freed == \A th \in Thread : job[th].does \in {"free", "unlink"} =>
  LET t == job[th].task IN
  Prompt(program, t) =>
    ~WillDestroy(t) /\ (job[th].does = "unlink" => ~Done("destroy", t))

IInv ==
  /\ TypeOK /\ Caller /\ Tasks /\ Placed /\ Jobs /\ Closures /\ Runs
  /\ Coroutines /\ Untold /\ Resuming /\ Back /\ Under /\ Freed

-----------------------------------------------------------------------------
LEMMA ProgramTypes ==
  ASSUME program \in Programs, pc \in 1 .. Len(program) + 1
  PROVE  /\ Len(program) \in Nat /\ DOMAIN program = 1 .. Len(program)
         /\ \A i \in 1 .. Len(program) :
              /\ program[i] \in Step
              /\ program[i] = [op |-> program[i].op, task |-> program[i].task]
         /\ pc \in Nat \ {0} /\ 1 .. pc - 1 \subseteq 1 .. Len(program)
         /\ WellFormed(program)
<1>1. program \in Seq(Step) /\ WellFormed(program)
  BY ProgramsAssumption
<1>2. Len(program) \in Nat /\ DOMAIN program = 1 .. Len(program)
  BY <1>1
<1>3. \A i \in 1 .. Len(program) : program[i] \in Step
  BY <1>1
<1>4. \A x \in Step : x = [op |-> x.op, task |-> x.task]
  BY DEF Step
<1>5. pc \in Nat \ {0} /\ 1 .. pc - 1 \subseteq 1 .. Len(program)
  BY <1>2
<1> QED
  BY <1>1, <1>2, <1>3, <1>4, <1>5

(* What the caller has done when it comes to a step. *)
LEMMA Ordered ==
  ASSUME program \in Programs, pc \in 1 .. Len(program)
  PROVE  LET t == program[pc].task IN
         /\ t \in Task
         /\ program[pc].op = "create" => \A op \in {"create", "await", "destroy"} : ~Done(op, t)
         /\ program[pc].op = "await" =>
              Done("create", t) /\ ~Done("await", t) /\ ~Done("destroy", t)
         /\ program[pc].op = "destroy" => Done("create", t) /\ ~Done("destroy", t)
<1> DEFINE t == program[pc].task
           S(op) == [op |-> op, task |-> t]
<1>1. /\ Len(program) \in Nat /\ DOMAIN program = 1 .. Len(program)
      /\ program[pc] \in Step /\ program[pc] = S(program[pc].op)
      /\ pc \in Nat \ {0} /\ 1 .. pc - 1 \subseteq 1 .. Len(program)
      /\ WellFormed(program)
  <2>1. pc \in 1 .. Len(program) + 1
    BY ProgramsAssumption
  <2> QED
    BY <2>1, ProgramTypes
<1>2. t \in Task
  BY <1>1 DEF Step
<1>3. ~Done(program[pc].op, t)
  <2>1. SUFFICES ASSUME NEW k \in 1 .. pc - 1, program[k] = S(program[pc].op) PROVE FALSE
    BY DEF Done
  <2>2. k = pc
    BY <1>1, <2>1 DEF WellFormed
  <2> QED
    BY <2>2, <1>1
<1>4. program[pc].op # "create" => Done("create", t)
  <2>1. SUFFICES ASSUME program[pc].op # "create" PROVE Done("create", t)
    OBVIOUS
  <2>2. PICK j \in At(program, "create", t) : j < pc
    BY <2>1, <1>1 DEF WellFormed
  <2>3. j \in 1 .. pc - 1 /\ program[j] = S("create")
    BY <2>2, <1>1 DEF At
  <2> QED
    BY <2>3 DEF Done
<1>5. program[pc].op = "await" => ~Done("destroy", t)
  <2>1. SUFFICES ASSUME program[pc].op = "await",
                        NEW k \in 1 .. pc - 1, program[k] = S("destroy")
                 PROVE  FALSE
    BY DEF Done
  <2>2. pc \in At(program, "await", t) /\ k \in At(program, "destroy", t)
    BY <2>1, <1>1 DEF At
  <2>3. pc < k
    BY <2>2, <1>1, <1>2 DEF WellFormed
  <2> QED
    BY <2>3, <1>1
<1>6. program[pc].op = "create" => ~Done("await", t) /\ ~Done("destroy", t)
  <2>1. SUFFICES ASSUME program[pc].op = "create", NEW op \in {"await", "destroy"},
                        NEW k \in 1 .. pc - 1, program[k] = S(op)
                 PROVE  FALSE
    BY DEF Done
  <2>2. k \in DOMAIN program /\ program[k].op # "create" /\ program[k].task = t
    BY <2>1, <1>1
  <2>3. PICK j \in At(program, "create", t) : j < k
    BY <2>2, <1>1 DEF WellFormed
  <2>4. j \in DOMAIN program /\ program[j] = program[pc]
    BY <2>1, <2>3, <1>1 DEF At
  <2>5. j = pc
    BY <2>4, <1>1 DEF WellFormed
  <2> QED
    BY <2>3, <2>5, <1>1
<1> QED
  BY <1>2, <1>3, <1>4, <1>5, <1>6

(* Of a prompt task: between its await and its destruction the caller does *)
(* not await, and does not end.                                            *)
LEMMA Promptly ==
  ASSUME program \in Programs, pc \in 1 .. Len(program) + 1, NEW t \in Task,
         Prompt(program, t)
  PROVE  /\ Done("destroy", t) => Done("await", t)
         /\ WillDestroy(t) /\ Done("await", t) =>
              pc <= Len(program) /\ program[pc].op # "await"
         /\ pc <= Len(program) /\ program[pc] = [op |-> "destroy", task |-> t] =>
              Done("await", t) /\ WillDestroy(t)
<1> DEFINE S(op) == [op |-> op, task |-> t]
<1>1. /\ Len(program) \in Nat /\ DOMAIN program = 1 .. Len(program)
      /\ pc \in Nat \ {0} /\ 1 .. pc - 1 \subseteq 1 .. Len(program)
      /\ WellFormed(program)
  BY ProgramTypes
<1>2. ASSUME NEW k \in At(program, "destroy", t)
      PROVE  \E i \in At(program, "await", t) :
               i < k /\ \A j \in i + 1 .. k - 1 : program[j].op # "await"
  <2>1. PICK i \in At(program, "await", t) :
               \A j \in i + 1 .. k - 1 : program[j].op # "await"
    BY <1>2 DEF Prompt
  <2>2. i < k
    BY <2>1, <1>1, <1>2 DEF WellFormed
  <2> QED
    BY <2>1, <2>2
<1>3. ASSUME NEW k \in At(program, "destroy", t), k <= pc
      PROVE  Done("await", t)
  <2>1. PICK i \in At(program, "await", t) : i < k
    BY <1>2, <1>3
  <2>2. i \in 1 .. pc - 1 /\ program[i] = S("await")
    BY <2>1, <1>1, <1>3 DEF At
  <2> QED
    BY <2>2 DEF Done
<1>4. Done("destroy", t) => Done("await", t)
  <2>1. SUFFICES ASSUME NEW k \in 1 .. pc - 1, program[k] = S("destroy")
                 PROVE  Done("await", t)
    BY DEF Done
  <2>2. k \in At(program, "destroy", t) /\ k <= pc
    BY <2>1, <1>1 DEF At
  <2> QED
    BY <2>2, <1>3
<1>5. ASSUME WillDestroy(t), Done("await", t)
      PROVE  pc <= Len(program) /\ program[pc].op # "await"
  <2>1. PICK k \in At(program, "destroy", t) : k >= pc
    BY <1>5 DEF WillDestroy
  <2>2. PICK l \in 1 .. pc - 1 : program[l] = S("await")
    BY <1>5 DEF Done
  <2>3. PICK i \in At(program, "await", t) :
          i < k /\ \A j \in i + 1 .. k - 1 : program[j].op # "await"
    BY <1>2
  <2>4. k \in 1 .. Len(program) /\ program[k] = S("destroy") /\ i \in DOMAIN program
         /\ program[i] = S("await") /\ l \in DOMAIN program
    BY <1>1, <2>1, <2>2, <2>3 DEF At
  <2>5. i = l
    BY <1>1, <2>2, <2>4 DEF WellFormed
  <2>6. pc = k \/ pc \in i + 1 .. k - 1
    BY <1>1, <2>1, <2>2, <2>4, <2>5
  <2>7. program[pc].op # "await"
    BY <2>3, <2>4, <2>6
  <2> QED
    BY <2>7, <2>1, <2>4, <1>1
<1>6. ASSUME pc <= Len(program), program[pc] = S("destroy")
      PROVE  Done("await", t) /\ WillDestroy(t)
  <2>1. pc \in At(program, "destroy", t)
    BY <1>1, <1>6 DEF At
  <2>2. pc <= pc /\ pc >= pc
    BY <1>1
  <2> QED
    BY <2>1, <2>2, <1>3 DEF WillDestroy
<1> QED
  BY <1>4, <1>5, <1>6

(* What a step does to the caller's past and future. *)
LEMMA Stands ==
  ASSUME UNCHANGED <<program, pc>>
  PROVE  /\ \A op, t : Done(op, t)' <=> Done(op, t)
         /\ \A t : (Moved(t)' <=> Moved(t)) /\ (WillDestroy(t)' <=> WillDestroy(t))
         /\ \A t : Prompt(program, t)' <=> Prompt(program, t)
<1>1. \A op, t : Done(op, t)' <=> Done(op, t)
  BY DEF Done
<1>2. \A t : Moved(t)' <=> Moved(t)
  BY DEF Moved
<1>3. \A t : WillDestroy(t)' <=> WillDestroy(t)
  BY DEF WillDestroy
<1> QED
  BY <1>1, <1>2, <1>3

LEMMA Advances ==
  ASSUME program \in Programs, pc \in 1 .. Len(program),
         program' = program, pc' = pc + 1
  PROVE  LET x == program[pc] IN
         /\ pc' \in 1 .. Len(program) + 1
         /\ \A op, t : Done(op, t)' <=> Done(op, t) \/ x = [op |-> op, task |-> t]
         /\ \A t : Moved(t)' <=> Moved(t) \/ (Done("create", t) /\ x.op = "await")
         /\ \A t : WillDestroy(t)' => WillDestroy(t) /\ x # [op |-> "destroy", task |-> t]
<1> DEFINE x == program[pc]
<1>1. /\ Len(program) \in Nat /\ DOMAIN program = 1 .. Len(program)
      /\ pc \in Nat \ {0} /\ pc' \in Nat \ {0} /\ pc' - 1 = pc
      /\ WellFormed(program) /\ pc' \in 1 .. Len(program) + 1
  BY ProgramsAssumption
<1>2. 1 .. pc' - 1 = (1 .. pc - 1) \cup {pc}
  BY <1>1
<1>3. \A op, t : Done(op, t)' <=> Done(op, t) \/ x = [op |-> op, task |-> t]
  BY <1>2 DEF Done
<1>4. ASSUME NEW t PROVE Moved(t)' <=> Moved(t) \/ (Done("create", t) /\ x.op = "await")
  <2>1. Moved(t) => Moved(t)'
    BY <1>2 DEF Moved
  <2>2. ASSUME Done("create", t), x.op = "await" PROVE Moved(t)'
    <3>1. PICK i \in 1 .. pc - 1 : program[i] = [op |-> "create", task |-> t]
      BY <2>2 DEF Done
    <3>2. i < pc /\ i \in 1 .. pc' - 1 /\ pc \in 1 .. pc' - 1
      BY <1>1
    <3> QED
      BY <2>2, <3>1, <3>2 DEF Moved
  <2>3. ASSUME Moved(t)', ~Moved(t) PROVE Done("create", t) /\ x.op = "await"
    <3>1. PICK i, j \in 1 .. pc' - 1 :
            i < j /\ program[i] = [op |-> "create", task |-> t] /\ program[j].op = "await"
      BY <2>3 DEF Moved
    <3>2. ~(i \in 1 .. pc - 1 /\ j \in 1 .. pc - 1)
      BY <2>3, <3>1 DEF Moved
    <3>3. j = pc /\ i \in 1 .. pc - 1
      BY <1>1, <3>1, <3>2
    <3> QED
      BY <3>1, <3>3 DEF Done
  <2> QED
    BY <2>1, <2>2, <2>3
<1>5. ASSUME NEW t, WillDestroy(t)' PROVE WillDestroy(t) /\ x # [op |-> "destroy", task |-> t]
  <2>1. PICK k \in At(program, "destroy", t) : k >= pc'
    BY <1>5 DEF WillDestroy
  <2>2. k \in DOMAIN program /\ k > pc /\ program[k] = [op |-> "destroy", task |-> t]
    BY <2>1, <1>1 DEF At
  <2>3. k >= pc /\ k # pc
    BY <2>2, <1>1
  <2>4. x # program[k]
    BY <2>2, <2>3, <1>1 DEF WellFormed
  <2> QED
    BY <2>1, <2>2, <2>3, <2>4 DEF WillDestroy
<1> QED
  BY <1>1, <1>3, <1>4, <1>5

LEMMA AdvancesBy ==
  ASSUME program \in Programs, pc \in 1 .. Len(program),
         NEW op, NEW u, program[pc] = [op |-> op, task |-> u],
         program' = program, pc' = pc + 1
  PROVE  /\ pc' \in 1 .. Len(program) + 1
         /\ \A o, t : Done(o, t)' <=> Done(o, t) \/ (o = op /\ t = u)
         /\ \A t : Moved(t)' <=> Moved(t) \/ (Done("create", t) /\ op = "await")
         /\ \A t : WillDestroy(t)' => WillDestroy(t) /\ ~(op = "destroy" /\ t = u)
<1>1. program[pc].op = op
  OBVIOUS
<1>2. \A o, t : program[pc] = [op |-> o, task |-> t] <=> o = op /\ t = u
  OBVIOUS
<1> QED
  BY ZenonT(30), <1>1, <1>2, Advances

(* What a step does to the queues. *)
Closure == [do : {"run", "resume"}, task : Task]

LEMMA ResumesIn ==
  ASSUME NEW q
  PROVE  {e \in UNION {{s} \X DOMAIN q[s] : s \in Service} : q[e[1]][e[2]].do = "resume"} = {}
           <=> \A s \in Service : \A i \in DOMAIN q[s] : q[s][i].do # "resume"
<1> DEFINE E == UNION {{s} \X DOMAIN q[s] : s \in Service}
<1>1. \A s \in Service : \A i \in DOMAIN q[s] : <<s, i>> \in E
  <2>1. SUFFICES ASSUME NEW s \in Service, NEW i \in DOMAIN q[s] PROVE <<s, i>> \in E
    OBVIOUS
  <2>2. <<s, i>> \in {s} \X DOMAIN q[s]
    OBVIOUS
  <2> QED
    BY <2>2
<1>2. \A e \in E : \E s \in Service : \E i \in DOMAIN q[s] : e = <<s, i>>
  OBVIOUS
<1> DEFINE R == {e \in E : q[e[1]][e[2]].do = "resume"}
<1> HIDE DEF E
<1>3. ASSUME R = {}, NEW s \in Service, NEW i \in DOMAIN q[s] PROVE q[s][i].do # "resume"
  <2>1. <<s, i>> \in E /\ <<s, i>> \notin R
    BY <1>1, <1>3
  <2>2. <<s, i>>[1] = s /\ <<s, i>>[2] = i
    OBVIOUS
  <2> QED
    BY <2>1, <2>2
<1>4. ASSUME \A s \in Service : \A i \in DOMAIN q[s] : q[s][i].do # "resume", NEW e \in R
      PROVE  FALSE
  <2>1. PICK s \in Service : \E i \in DOMAIN q[s] : e = <<s, i>>
    BY <1>2
  <2>2. PICK i \in DOMAIN q[s] : e = <<s, i>>
    BY <2>1
  <2>3. e[1] = s /\ e[2] = i
    BY <2>2
  <2> QED
    BY <1>4, <2>3
<1> QED
  BY <1>3, <1>4 DEF E

LEMMA NoResumes ==
  /\ Resumes = {} <=> \A s \in Service : \A i \in DOMAIN queue[s] : queue[s][i].do # "resume"
  /\ Resumes' = {} <=> \A s \in Service : \A i \in DOMAIN queue'[s] : queue'[s][i].do # "resume"
BY ResumesIn DEF Resumes

LEMMA SameQueues ==
  ASSUME queue' = queue
  PROVE  (\A t : Queued(t)' <=> Queued(t)) /\ Resumes' = Resumes
BY DEF Queued, Resumes

LEMMA Posted ==
  ASSUME queue \in [Service -> Seq(Closure)], NEW do \in {"run", "resume"},
         NEW t \in Task, NEW s \in Service, Post(do, t, s)
  PROVE  /\ queue' \in [Service -> Seq(Closure)]
         /\ \A r \in Service : \A i \in DOMAIN queue'[r] :
              \/ i \in DOMAIN queue[r] /\ queue'[r][i] = queue[r][i]
              \/ r = s /\ i = Len(queue[s]) + 1 /\ queue'[r][i] = [do |-> do, task |-> t]
                 /\ i \notin DOMAIN queue[s]
         /\ \A u : Queued(u)' <=> Queued(u) \/ (do = "run" /\ u = t)
         /\ do = "run" => (Resumes' = {} <=> Resumes = {})
<1> DEFINE c == [do |-> do, task |-> t]
<1>1. queue' = [queue EXCEPT ![s] = Append(@, c)] /\ c \in Closure
  BY DEF Post, Closure
<1>2. \A r \in Service : queue[r] \in Seq(Closure) /\ Len(queue[r]) \in Nat
                         /\ DOMAIN queue[r] = 1 .. Len(queue[r])
  OBVIOUS
<1>3. \A r \in Service : r # s => queue'[r] = queue[r]
  BY <1>1
<1>4. queue'[s] = Append(queue[s], c)
  BY <1>1
<1>5. /\ DOMAIN queue'[s] = DOMAIN queue[s] \cup {Len(queue[s]) + 1}
      /\ Len(queue[s]) + 1 \notin DOMAIN queue[s]
      /\ \A i \in DOMAIN queue[s] : queue'[s][i] = queue[s][i]
      /\ queue'[s][Len(queue[s]) + 1] = c
      /\ queue'[s] \in Seq(Closure)
  BY <1>1, <1>2, <1>4
<1>6. queue' \in [Service -> Seq(Closure)]
  BY <1>1, <1>2
<1>7. \A r \in Service : \A i \in DOMAIN queue'[r] :
        \/ i \in DOMAIN queue[r] /\ queue'[r][i] = queue[r][i]
        \/ r = s /\ i = Len(queue[s]) + 1 /\ queue'[r][i] = c /\ i \notin DOMAIN queue[s]
  BY <1>3, <1>5
<1>8. \A r \in Service : \A i \in DOMAIN queue[r] :
        i \in DOMAIN queue'[r] /\ queue'[r][i] = queue[r][i]
  BY <1>3, <1>5
<1>9. ASSUME NEW u PROVE Queued(u)' <=> Queued(u) \/ (do = "run" /\ u = t)
  <2>1. Queued(u) => Queued(u)'
    BY <1>8 DEF Queued
  <2>2. do = "run" /\ u = t => Queued(u)'
    BY <1>5 DEF Queued
  <2>3. Queued(u)' => Queued(u) \/ (do = "run" /\ u = t)
    BY <1>7 DEF Queued
  <2> QED
    BY <2>1, <2>2, <2>3
<1>10. ASSUME do = "run" PROVE Resumes' = {} <=> Resumes = {}
  <2>1. Resumes' = {} <=> \A r \in Service : \A i \in DOMAIN queue'[r] : queue'[r][i].do # "resume"
    BY NoResumes
  <2>2. c.do # "resume"
    BY <1>10
  <2> QED
    BY <2>1, <2>2, <1>7, <1>8, NoResumes
<1> QED
  BY <1>6, <1>7, <1>9, <1>10

LEMMA ClosureTypes ==
  ASSUME queue \in [Service -> Seq(Closure)]
  PROVE  \A s \in Service : \A i \in DOMAIN queue[s] :
           /\ queue[s][i].do \in {"run", "resume"} /\ queue[s][i].task \in Task
           /\ queue[s][i] = [do |-> queue[s][i].do, task |-> queue[s][i].task]
<1>1. \A c \in Closure : /\ c.do \in {"run", "resume"} /\ c.task \in Task
                        /\ c = [do |-> c.do, task |-> c.task]
  BY DEF Closure
<1>2. \A s \in Service : \A i \in DOMAIN queue[s] : queue[s][i] \in Closure
  OBVIOUS
<1> QED
  BY <1>1, <1>2

(* What is posted is the only closure of its kind. *)
LEMMA PostedOnce ==
  ASSUME queue \in [Service -> Seq(Closure)], NEW do \in {"run", "resume"},
         NEW t \in Task, NEW s \in Service, Post(do, t, s), Closures, Runs,
         do = "run" => s = Executer[t] /\ ~Queued(t),
         do = "resume" => Resumes = {}
  PROVE  Closures' /\ Runs'
<1> DEFINE c == [do |-> do, task |-> t]
           Old(r, i) == i \in DOMAIN queue[r] /\ queue'[r][i] = queue[r][i]
           New(r, i) == r = s /\ i = Len(queue[s]) + 1 /\ queue'[r][i] = c
<1>1. \A r \in Service : \A i \in DOMAIN queue'[r] : Old(r, i) \/ New(r, i)
  BY Posted
<1>2. c.do = do /\ c.task = t
  OBVIOUS
<1>3. ASSUME NEW r \in Service, NEW i \in DOMAIN queue[r], queue[r][i].do = do
      PROVE  do = "run" /\ queue[r][i].task # t
  <2>1. queue[r][i] = [do |-> do, task |-> queue[r][i].task]
    BY <1>3, ClosureTypes
  <2>2. do # "resume"
    BY <1>3, NoResumes
  <2> QED
    BY <2>1, <2>2 DEF Queued
<1> HIDE DEF c
<1>4. ASSUME NEW r1 \in Service, NEW r2 \in Service,
             NEW i \in DOMAIN queue'[r1], NEW j \in DOMAIN queue'[r2],
             queue'[r1][i].do = queue'[r2][j].do,
             queue'[r1][i].do = "resume" \/ queue'[r1][i].task = queue'[r2][j].task
      PROVE  r1 = r2 /\ i = j
  <2>1. CASE Old(r1, i) /\ Old(r2, j)
    BY <1>4, <2>1 DEF Closures
  <2>2. CASE New(r1, i) /\ New(r2, j)
    BY <2>2
  <2>3. CASE Old(r1, i) /\ New(r2, j)
    BY <1>2, <1>3, <1>4, <2>3
  <2>4. CASE New(r1, i) /\ Old(r2, j)
    BY <1>2, <1>3, <1>4, <2>4
  <2> QED
    BY <1>1, <2>1, <2>2, <2>3, <2>4
<1>5. Closures'
  BY <1>4 DEF Closures
<1>6. ASSUME NEW r \in Service, NEW i \in DOMAIN queue'[r], queue'[r][i].do = "run"
      PROVE  r = Executer[queue'[r][i].task]
  <2>1. CASE Old(r, i)
    BY <1>6, <2>1 DEF Runs
  <2>2. CASE New(r, i)
    BY <1>2, <1>6, <2>2
  <2> QED
    BY <1>1, <2>1, <2>2
<1> QED
  BY <1>5, <1>6 DEF Runs

(* A closure of queue'[r] stood one place further back if r is the queue   *)
(* the thread took one from.                                               *)
Before(r, s, i) == IF r = s THEN i + 1 ELSE i

LEMMA Taken ==
  ASSUME queue \in [Service -> Seq(Closure)], NEW do \in {"run", "resume"},
         NEW t \in Task, NEW th \in Thread, Takes(do, t, th)
  PROVE  LET s == ServiceOf[th] IN
         /\ s \in Service /\ queue' \in [Service -> Seq(Closure)]
         /\ 1 \in DOMAIN queue[s] /\ queue[s][1] = [do |-> do, task |-> t]
         /\ \A r \in Service : \A i \in DOMAIN queue'[r] :
              /\ i \in Nat \ {0}
              /\ Before(r, s, i) \in DOMAIN queue[r]
              /\ queue'[r][i] = queue[r][Before(r, s, i)]
         /\ \A u : Queued(u)' => Queued(u)
         /\ Resumes = {} => Resumes' = {}
<1> DEFINE s == ServiceOf[th]
           c == [do |-> do, task |-> t]
<1>1. /\ s \in Service /\ queue[s] # <<>> /\ Head(queue[s]) = c
      /\ queue' = [queue EXCEPT ![s] = Tail(@)]
  BY ServicesAssumption DEF Takes
<1>2. \A r \in Service : queue[r] \in Seq(Closure) /\ Len(queue[r]) \in Nat
                         /\ DOMAIN queue[r] = 1 .. Len(queue[r])
  OBVIOUS
<1>3. Len(queue[s]) >= 1
  BY <1>1, <1>2
<1>4. 1 \in DOMAIN queue[s] /\ queue[s][1] = c
  BY <1>1, <1>2, <1>3
<1>5. \A r \in Service : r # s => queue'[r] = queue[r]
  BY <1>1
<1>6. queue'[s] = Tail(queue[s])
  BY <1>1
<1>7. /\ queue'[s] \in Seq(Closure)
      /\ \A i \in DOMAIN queue'[s] : i \in Nat \ {0} /\ i + 1 \in DOMAIN queue[s]
                                   /\ queue'[s][i] = queue[s][i + 1]
  <2>1. queue[s] \in Seq(Closure) /\ queue[s] # <<>>
    BY <1>1, <1>2
  <2>2. /\ Tail(queue[s]) \in Seq(Closure) /\ Len(Tail(queue[s])) = Len(queue[s]) - 1
        /\ \A i \in 1 .. Len(Tail(queue[s])) : Tail(queue[s])[i] = queue[s][i + 1]
    BY <2>1, HeadTailProperties
  <2>3. DOMAIN Tail(queue[s]) = 1 .. Len(queue[s]) - 1
    BY <2>2
  <2> QED
    BY <1>1, <1>2, <1>3, <1>6, <2>2, <2>3
<1>8. queue' \in [Service -> Seq(Closure)]
  BY <1>1, <1>2, <1>7
<1>9. \A r \in Service : \A i \in DOMAIN queue'[r] :
        /\ i \in Nat \ {0}
        /\ Before(r, s, i) \in DOMAIN queue[r]
        /\ queue'[r][i] = queue[r][Before(r, s, i)]
  BY <1>2, <1>5, <1>7 DEF Before
<1>10. \A u : Queued(u)' => Queued(u)
  BY <1>9 DEF Queued
<1>11. Resumes = {} => Resumes' = {}
  <2>1. Resumes' = {} <=> \A r \in Service : \A i \in DOMAIN queue'[r] : queue'[r][i].do # "resume"
    BY NoResumes
  <2> QED
    BY <2>1, <1>9, NoResumes
<1> QED
  BY <1>1, <1>4, <1>8, <1>9, <1>10, <1>11

LEMMA TakenWas ==
  ASSUME queue \in [Service -> Seq(Closure)], NEW do \in {"run", "resume"},
         NEW t \in Task, NEW th \in Thread, Takes(do, t, th)
  PROVE  \A r \in Service : \A i \in DOMAIN queue'[r] :
           \E j \in DOMAIN queue[r] : queue'[r][i] = queue[r][j]
<1> DEFINE s == ServiceOf[th]
<1>1. /\ queue[s][1] = [do |-> do, task |-> t]
      /\ \A r \in Service : \A i \in DOMAIN queue'[r] :
           /\ Before(r, s, i) \in DOMAIN queue[r]
           /\ queue'[r][i] = queue[r][Before(r, s, i)]
  BY Taken
<1> QED
  BY <1>1

(* What is taken was the only closure of its kind. *)
LEMMA TakenOnce ==
  ASSUME queue \in [Service -> Seq(Closure)], NEW do \in {"run", "resume"},
         NEW t \in Task, NEW th \in Thread, Takes(do, t, th), Closures, Runs
  PROVE  /\ Closures' /\ Runs'
         /\ do = "run" => Queued(t) /\ ~Queued(t)' /\ ServiceOf[th] = Executer[t]
         /\ do = "resume" => Resumes # {} /\ Resumes' = {}
<1> DEFINE s == ServiceOf[th]
           c == [do |-> do, task |-> t]
           b(r, i) == Before(r, s, i)
<1>1. /\ s \in Service /\ 1 \in DOMAIN queue[s] /\ queue[s][1] = c
      /\ \A r \in Service : \A i \in DOMAIN queue'[r] :
           /\ i \in Nat \ {0} /\ b(r, i) \in DOMAIN queue[r]
           /\ queue'[r][i] = queue[r][b(r, i)]
  BY Taken
<1>2. c.do = do /\ c.task = t
  OBVIOUS
<1>3. ASSUME NEW r1 \in Service, NEW r2 \in Service,
             NEW i \in DOMAIN queue'[r1], NEW j \in DOMAIN queue'[r2],
             queue'[r1][i].do = queue'[r2][j].do,
             queue'[r1][i].do = "resume" \/ queue'[r1][i].task = queue'[r2][j].task
      PROVE  r1 = r2 /\ i = j
  <2>1. r1 = r2 /\ b(r1, i) = b(r2, j)
    BY <1>1, <1>3 DEF Closures
  <2> QED
    BY <1>1, <2>1 DEF Before
<1>4. ASSUME NEW r \in Service, NEW i \in DOMAIN queue'[r],
             queue'[r][i].do = do, do = "resume" \/ queue'[r][i].task = t
      PROVE  FALSE
  <2>1. r = s /\ b(r, i) = 1
    BY <1>1, <1>2, <1>4 DEF Closures
  <2> QED
    BY <1>1, <2>1 DEF Before
<1>5. Closures'
  BY <1>3 DEF Closures
<1>6. Runs'
  BY <1>1 DEF Runs
<1>7. do = "run" => Queued(t) /\ ~Queued(t)' /\ ServiceOf[th] = Executer[t]
  <2>1. SUFFICES ASSUME do = "run" PROVE Queued(t) /\ ~Queued(t)' /\ s = Executer[t]
    OBVIOUS
  <2>2. Queued(t)
    BY <1>1, <2>1 DEF Queued
  <2>3. ~Queued(t)'
    <3>1. SUFFICES ASSUME NEW r \in Service, NEW i \in DOMAIN queue'[r], queue'[r][i] = c
                   PROVE  FALSE
      BY <2>1 DEF Queued
    <3> QED
      BY <1>2, <1>4, <3>1
  <2>4. s = Executer[t]
    BY <1>1, <1>2, <2>1 DEF Runs
  <2> QED
    BY <2>2, <2>3, <2>4
<1>8. do = "resume" => Resumes # {} /\ Resumes' = {}
  <2>1. SUFFICES ASSUME do = "resume" PROVE Resumes # {} /\ Resumes' = {}
    OBVIOUS
  <2>2. Resumes # {}
    BY <1>1, <1>2, <2>1, NoResumes
  <2>3. Resumes' = {}
    BY <1>4, <2>1, NoResumes
  <2> QED
    BY <2>2, <2>3
<1> QED
  BY <1>5, <1>6, <1>7, <1>8

-----------------------------------------------------------------------------
(* What the steps make of a task and of a promise. *)
Object == [alive : BOOLEAN, promise : BOOLEAN, handle : BOOLEAN,
           ret : BOOLEAN, first : Service \cup {None}]

LEMMA TaskHandled ==
  ASSUME NEW x \in Object
  PROVE  LET T == [x EXCEPT !.handle = TRUE]
         IN  /\ T \in Object /\ T.handle /\ T.alive = x.alive /\ T.promise = x.promise
             /\ T.ret = x.ret /\ T.first = x.first
BY DEF Object

LEMMA TaskReturned ==
  ASSUME NEW x \in Object
  PROVE  LET T == [x EXCEPT !.ret = TRUE]
         IN  /\ T \in Object /\ T.ret /\ T.alive = x.alive /\ T.promise = x.promise
             /\ T.handle = x.handle /\ T.first = x.first
BY DEF Object

LEMMA TaskLoses ==
  ASSUME NEW x \in Object
  PROVE  LET T == [x EXCEPT !.promise = FALSE]
         IN  /\ T \in Object /\ T.ret = x.ret /\ T.alive = x.alive /\ ~T.promise
             /\ T.handle = x.handle /\ T.first = x.first
BY DEF Object

Promise == [alive : BOOLEAN, task : BOOLEAN, suspended : BOOLEAN, count : 0 .. 1]

LEMMA NewPromise ==
  LET P == [NoPromise EXCEPT !.alive = TRUE, !.task = TRUE]
  IN  P \in Promise /\ P.alive /\ P.task /\ P.count = 0
<1>1. ASSUME NEW p \in Promise
      PROVE  LET P == [p EXCEPT !.alive = TRUE, !.task = TRUE]
             IN  P \in Promise /\ P.alive /\ P.task /\ P.count = p.count
  BY DEF Promise
<1>2. NoPromise \in Promise
  BY DEF NoPromise, Promise
<1>3. NoPromise.count = 0
  BY DEF NoPromise
<1> QED
  BY <1>1, <1>2, <1>3

LEMMA PromiseSuspends ==
  ASSUME NEW p \in Promise
  PROVE  LET P == [p EXCEPT !.suspended = TRUE]
         IN  P \in Promise /\ P.alive = p.alive /\ P.task = p.task /\ P.count = p.count
BY DEF Promise

LEMMA PromiseCounts ==
  ASSUME NEW p \in Promise, NEW n \in 0 .. 1
  PROVE  LET P == [p EXCEPT !.count = n]
         IN  P \in Promise /\ P.alive = p.alive /\ P.task = p.task /\ P.count = n
BY DEF Promise

LEMMA PromiseLoses ==
  ASSUME NEW p \in Promise
  PROVE  LET P == [p EXCEPT !.task = FALSE]
         IN  P \in Promise /\ P.alive = p.alive /\ ~P.task /\ P.count = p.count
BY DEF Promise

LEMMA PromiseEnds ==
  ASSUME NEW p \in Promise
  PROVE  LET P == [p EXCEPT !.alive = FALSE]
         IN  P \in Promise /\ ~P.alive /\ P.task = p.task /\ P.count = p.count
BY DEF Promise

(* Where the caller is when it takes a step. *)
LEMMA CallerAt ==
  ASSUME IInv, NEW op \in {"create", "await", "destroy"}, NEW u \in Task, NEW th \in Thread,
         CallerDoes(op, u, th)
  PROVE  /\ program \in Programs /\ pc \in 1 .. Len(program)
         /\ program[pc] = [op |-> op, task |-> u]
         /\ at = th /\ at # None /\ inside = "nothing" /\ Resumes = {}
         /\ \A t : ~Awaiting(t) /\ (Begun(t) <=> Done("create", t))
         /\ op = "create" => /\ \A o \in {"create", "await", "destroy"} : ~Done(o, u)
                             /\ ~Begun(u) /\ ~Exists(u) /\ ~Queued(u)
         /\ op = "await" => Begun(u) /\ ~Done("await", u) /\ ~Done("destroy", u)
         /\ op = "destroy" => Begun(u) /\ ~Done("destroy", u)
<1>1. /\ at = th /\ inside = "nothing"
      /\ pc <= Len(program) /\ program[pc] = [op |-> op, task |-> u]
  BY DEF CallerDoes
<1>2. program \in Programs /\ pc \in 1 .. Len(program)
  <2>1. program \in Programs /\ pc \in 1 .. Len(program) + 1
    BY DEF IInv, TypeOK
  <2>2. Len(program) \in Nat
    BY <2>1, ProgramTypes
  <2> QED
    BY <1>1, <2>1, <2>2
<1>3. at # None
  BY <1>1, ServicesAssumption
<1>4. Resumes = {}
  BY <1>3, NoResumes DEF IInv, Resuming
<1>5. \A t : ~Awaiting(t) /\ (Begun(t) <=> Done("create", t))
  BY <1>1 DEF Awaiting, Begun
<1>6. program[pc].op = op /\ program[pc].task = u
  BY <1>1
<1>7. op = "create" => \A o \in {"create", "await", "destroy"} : ~Done(o, u)
  BY <1>2, <1>6, Ordered
<1>8. op = "await" => Done("create", u) /\ ~Done("await", u) /\ ~Done("destroy", u)
  BY <1>2, <1>6, Ordered
<1>9. op = "destroy" => Done("create", u) /\ ~Done("destroy", u)
  BY <1>2, <1>6, Ordered
<1>10. Exists(u) => Begun(u)
  BY DEF IInv, Coroutines
<1>11. Queued(u) => Exists(u)
  BY DEF Exists
<1> QED
  BY <1>1, <1>2, <1>3, <1>4, <1>5, <1>7, <1>8, <1>9, <1>10, <1>11

(* The parts that a step which leaves the queues alone keeps. *)
LEMMA SameClosures ==
  ASSUME queue' = queue, Closures, Runs
  PROVE  Closures' /\ Runs'
BY DEF Closures, Runs

LEMMA CreateHereKeeps ==
  ASSUME IInv, NEW u \in Task, NEW th \in Thread, CreateHere(u, th)
  PROVE  IInv'
<1> USE ServicesAssumption
<1> DEFINE T == [NoTask EXCEPT !.alive = TRUE, !.ret = TRUE, !.first = ServiceOf[th]]
<1>1. /\ CallerDoes("create", u, th) /\ Executer[u] = ServiceOf[th]
      /\ task' = [task EXCEPT ![u] = T] /\ pc' = pc + 1
      /\ UNCHANGED <<program, at, inside, promise, queue, job, got, faults>>
  BY DEF CreateHere
<1>2. /\ T.alive /\ T.ret /\ ~T.promise /\ ~T.handle /\ T.first = ServiceOf[th]
      /\ T \in [alive : BOOLEAN, promise : BOOLEAN, handle : BOOLEAN,
                 ret : BOOLEAN, first : Service \cup {None}]
  BY DEF NoTask
<1>3. TypeOK
  BY DEF IInv
<1>4. task'[u] = T /\ \A t \in Task \ {u} : task'[t] = task[t]
  BY <1>1, <1>3 DEF TypeOK
<1> HIDE DEF T
<1>5. /\ program \in Programs /\ pc \in 1 .. Len(program)
      /\ program[pc] = [op |-> "create", task |-> u]
      /\ at = th /\ at # None /\ inside = "nothing" /\ Resumes = {}
      /\ \A t : ~Awaiting(t) /\ (Begun(t) <=> Done("create", t))
      /\ \A o \in {"create", "await", "destroy"} : ~Done(o, u)
      /\ ~Begun(u) /\ ~Exists(u) /\ ~Queued(u)
  BY <1>1, CallerAt
<1>6. /\ pc' \in 1 .. Len(program) + 1
      /\ \A t : Done("create", t)' <=> Done("create", t) \/ t = u
      /\ \A t : Done("await", t)' <=> Done("await", t)
      /\ \A t : Done("destroy", t)' <=> Done("destroy", t)
      /\ \A t : Moved(t)' <=> Moved(t)
      /\ \A t : WillDestroy(t)' => WillDestroy(t)
  BY <1>1, <1>5, AdvancesBy
<1>7. \A t : ~Awaiting(t)' /\ (Begun(t)' <=> Begun(t) \/ t = u)
  BY <1>1, <1>5, <1>6 DEF Awaiting, Begun
<1>8. (\A t : Queued(t)' <=> Queued(t)) /\ Resumes' = {}
  BY <1>1, <1>5, SameQueues
<1>9. \A t : (Exists(t)' <=> Exists(t)) /\ (Pre(t)' <=> Pre(t))
  BY <1>1, <1>8 DEF Exists, Pre
<1>10. \A t : Pre(t) => Exists(t)
  BY DEF Pre, Exists
<1>11. TypeOK'
  BY <1>1, <1>2, <1>3, <1>6 DEF TypeOK
<1>12. Caller'
  BY <1>1, <1>5 DEF Caller
<1>13. Tasks'
  BY <1>1, <1>2, <1>4, <1>5, <1>6, <1>7 DEF IInv, Tasks
<1>14. Placed'
  BY <1>1, <1>2, <1>4, <1>5, <1>6, <1>7 DEF IInv, Placed
<1>15. Jobs'
  BY <1>1, <1>5, <1>6, <1>7, <1>8 DEF IInv, Jobs
<1>16. Closures' /\ Runs'
  BY <1>1, SameClosures DEF IInv
<1>17. Coroutines'
  BY <1>1, <1>4, <1>5, <1>6, <1>7, <1>9 DEF IInv, Coroutines
<1>18. Untold'
  BY <1>1, <1>4, <1>5, <1>6, <1>7, <1>9, <1>10 DEF IInv, Untold
<1>19. Resuming'
  BY <1>8, NoResumes DEF Resuming
<1>20. Back'
  BY <1>1, <1>5 DEF Back
<1>21. Under'
  BY <1>1, <1>2, <1>4, <1>5, <1>6, <1>7 DEF IInv, Under
<1>22. Freed'
  BY <1>1, <1>5, <1>6 DEF IInv, Freed
<1> QED
  BY <1>11, <1>12, <1>13, <1>14, <1>15, <1>16, <1>17, <1>18, <1>19, <1>20, <1>21, <1>22 DEF IInv

LEMMA CreateThereKeeps ==
  ASSUME IInv, NEW u \in Task, NEW th \in Thread, CreateThere(u, th)
  PROVE  IInv'
<1> USE ServicesAssumption
<1> DEFINE T == [NoTask EXCEPT !.alive = TRUE, !.promise = TRUE, !.first = ServiceOf[th]]
           P == [NoPromise EXCEPT !.alive = TRUE, !.task = TRUE]
<1>1. /\ CallerDoes("create", u, th) /\ Executer[u] # ServiceOf[th]
      /\ task' = [task EXCEPT ![u] = T] /\ promise' = [promise EXCEPT ![u] = P]
      /\ Post("run", u, Executer[u]) /\ inside' = "create"
      /\ UNCHANGED <<program, pc, at, job, got, faults>>
  BY DEF CreateThere
<1>2. /\ T.alive /\ ~T.ret /\ T.promise /\ ~T.handle /\ T.first = ServiceOf[th]
      /\ T \in [alive : BOOLEAN, promise : BOOLEAN, handle : BOOLEAN,
                 ret : BOOLEAN, first : Service \cup {None}]
      /\ P \in Promise /\ P.alive /\ P.task /\ P.count = 0
  BY NewPromise DEF NoTask
<1>3. TypeOK
  BY DEF IInv
<1>4. /\ task'[u] = T /\ \A t \in Task \ {u} : task'[t] = task[t]
      /\ promise'[u] = P /\ \A t \in Task \ {u} : promise'[t] = promise[t]
  BY <1>1, <1>3 DEF TypeOK
<1> HIDE DEF T, P
<1>5. /\ program \in Programs /\ pc \in 1 .. Len(program)
      /\ program[pc] = [op |-> "create", task |-> u]
      /\ at = th /\ at # None /\ inside = "nothing" /\ Resumes = {}
      /\ \A t : ~Awaiting(t) /\ (Begun(t) <=> Done("create", t))
      /\ ~Done("create", u) /\ ~Done("await", u) /\ ~Done("destroy", u)
      /\ ~Begun(u) /\ ~Exists(u) /\ ~Queued(u)
  <2>1. \A o \in {"create", "await", "destroy"} : ~Done(o, u)
    BY <1>1, CallerAt
  <2> QED
    BY <1>1, CallerAt, <2>1
<1>6. /\ \A o, t : Done(o, t)' <=> Done(o, t)
      /\ \A t : (Moved(t)' <=> Moved(t)) /\ (WillDestroy(t)' <=> WillDestroy(t))
  BY <1>1, Stands
<1>7. \A t : ~Awaiting(t)' /\ (Begun(t)' <=> Begun(t) \/ t = u)
  BY <1>1, <1>5, <1>6 DEF Awaiting, Begun
<1>8. /\ queue' \in [Service -> Seq(Closure)] /\ Resumes' = {}
      /\ \A t : Queued(t)' <=> Queued(t) \/ t = u
  <2>1. queue \in [Service -> Seq(Closure)] /\ Executer[u] \in Service
    BY <1>3 DEF TypeOK, Closure
  <2> QED
    BY <1>1, <1>5, <2>1, Posted
<1>9. \A t : (Exists(t)' <=> Exists(t) \/ t = u) /\ (Pre(t)' <=> Pre(t) \/ t = u)
  BY <1>1, <1>8 DEF Exists, Pre
<1>10. \A t : Pre(t) => Exists(t)
  BY DEF Pre, Exists
<1>11. TypeOK'
  BY <1>1, <1>2, <1>3, <1>8 DEF TypeOK, Closure, Promise
<1>12. Caller'
  BY <1>1, <1>5, <1>3, ProgramTypes DEF Caller, TypeOK
<1>13. Tasks'
  BY <1>1, <1>2, <1>4, <1>5, <1>6, <1>7 DEF IInv, Tasks
<1>14. Placed'
  BY <1>1, <1>2, <1>4, <1>5, <1>6, <1>7 DEF IInv, Placed
<1>15. Jobs'
  <2>1. \A other \in Thread : job[other].task # u
    BY <1>5 DEF Exists
  <2> QED
    BY <1>1, <1>5, <1>6, <1>7, <1>8, <2>1 DEF IInv, Jobs
<1>16. Closures' /\ Runs'
  <2>1. queue \in [Service -> Seq(Closure)] /\ Executer[u] \in Service
    BY <1>3 DEF TypeOK, Closure
  <2>2. Closures /\ Runs
    BY DEF IInv
  <2> QED
    BY <1>1, <1>5, <2>1, <2>2, PostedOnce
<1>18. Coroutines'
  BY <1>1, <1>2, <1>4, <1>5, <1>6, <1>7, <1>9 DEF IInv, Coroutines
<1>19. Untold'
  BY <1>1, <1>2, <1>4, <1>5, <1>6, <1>7, <1>9, <1>10 DEF IInv, Untold
<1>20. Resuming'
  BY <1>8, NoResumes DEF Resuming
<1>21. Back'
  BY <1>1 DEF Back
<1>22. Under'
  BY <1>1, <1>2, <1>4, <1>5, <1>6, <1>7 DEF IInv, Under
<1>23. Freed'
  <2>1. \A other \in Thread : job[other].task # u
    BY <1>5 DEF Exists
  <2> QED
    BY <1>1, <1>5, <1>6, <2>1 DEF IInv, Freed
<1> QED
  BY <1>11, <1>12, <1>13, <1>14, <1>15, <1>16, <1>18, <1>19, <1>20, <1>21, <1>22, <1>23 DEF IInv

LEMMA InitialSuspendKeeps ==
  ASSUME IInv, InitialSuspend
  PROVE  IInv'
<1> USE ServicesAssumption
<1> DEFINE u == program[pc].task
<1>1. /\ inside = "create" /\ inside' = "nothing" /\ pc' = pc + 1
      /\ promise' = [promise EXCEPT ![u].suspended = TRUE]
      /\ UNCHANGED <<program, at, task, queue, job, got, faults>>
  BY DEF InitialSuspend
<1>2. TypeOK /\ Caller
  BY DEF IInv
<1>3. /\ program \in Programs /\ pc \in 1 .. Len(program) /\ u \in Task
      /\ program[pc] = [op |-> "create", task |-> u]
  <2>1. program \in Programs /\ pc \in 1 .. Len(program)
    BY <1>1, <1>2, ProgramTypes DEF TypeOK, Caller
  <2> QED
    BY <1>1, <1>2, <2>1, ProgramTypes, Ordered DEF Caller, TypeOK
<1>4. at # None
  BY <1>1, <1>2 DEF Caller
<1>5. promise' \in [Task -> Promise]
      /\ \A t \in Task : promise'[t].alive = promise[t].alive /\ promise'[t].task = promise[t].task
                        /\ promise'[t].count = promise[t].count
  <2> DEFINE P == [promise[u] EXCEPT !.suspended = TRUE]
  <2>1. promise[u] \in Promise
    BY <1>2, <1>3 DEF TypeOK, Promise
  <2>2. /\ P \in Promise
        /\ P.alive = promise[u].alive /\ P.task = promise[u].task /\ P.count = promise[u].count
    BY <2>1, PromiseSuspends
  <2>3. promise' = [promise EXCEPT ![u] = P]
    BY <1>1
  <2> HIDE DEF P
  <2> QED
    BY <1>2, <1>3, <2>2, <2>3 DEF TypeOK, Promise
<1> HIDE DEF u
<1>6. /\ pc' \in 1 .. Len(program) + 1
      /\ \A t : Done("create", t)' <=> Done("create", t) \/ t = u
      /\ \A t : Done("await", t)' <=> Done("await", t)
      /\ \A t : Done("destroy", t)' <=> Done("destroy", t)
      /\ \A t : Moved(t)' <=> Moved(t)
      /\ \A t : WillDestroy(t)' => WillDestroy(t)
  BY <1>1, <1>3, AdvancesBy
<1>7. \A t : ~Awaiting(t) /\ ~Awaiting(t)' /\ (Begun(t)' <=> Begun(t))
  BY <1>1, <1>3, <1>6 DEF Awaiting, Begun
<1>8. (\A t : Queued(t)' <=> Queued(t)) /\ Resumes' = Resumes
  BY <1>1, SameQueues
<1>9. \A t : (Exists(t)' <=> Exists(t)) /\ (Pre(t)' <=> Pre(t))
  BY <1>1, <1>8 DEF Exists, Pre
<1>11. TypeOK'
  BY <1>1, <1>2, <1>5, <1>6 DEF TypeOK, Promise
<1>12. Caller'
  BY <1>1 DEF Caller
<1>13. Tasks'
  BY <1>1, <1>5, <1>6, <1>7 DEF IInv, Tasks
<1>14. Placed'
  BY <1>1, <1>5, <1>6, <1>7 DEF IInv, Placed
<1>15. Jobs'
  BY <1>1, <1>5, <1>6, <1>7, <1>8 DEF IInv, Jobs
<1>16. Closures' /\ Runs'
  BY <1>1, SameClosures DEF IInv
<1>17. Coroutines'
  BY <1>1, <1>5, <1>6, <1>7, <1>9 DEF IInv, Coroutines
<1>18. Untold'
  BY <1>1, <1>5, <1>6, <1>7, <1>8, <1>9 DEF IInv, Untold
<1>19. Resuming'
  BY <1>1, <1>4 DEF IInv, Resuming
<1>20. Back'
  BY <1>1 DEF Back
<1>21. Under'
  BY <1>1, <1>5, <1>6, <1>7 DEF IInv, Under
<1>22. Freed'
  BY <1>1, <1>5, <1>6 DEF IInv, Freed
<1> QED
  BY <1>11, <1>12, <1>13, <1>14, <1>15, <1>16, <1>17, <1>18, <1>19, <1>20, <1>21, <1>22 DEF IInv

LEMMA AwaitHereKeeps ==
  ASSUME IInv, NEW u \in Task, NEW th \in Thread, AwaitHere(u, th)
  PROVE  IInv'
<1> USE ServicesAssumption
<1>1. /\ CallerDoes("await", u, th) /\ inside' = "resumed"
      /\ task[u].first = Executer[u] /\ ReturnTo[u] = Executer[u]
      /\ UNCHANGED <<program, pc, at, task, promise, queue, job, got, faults>>
  BY DEF AwaitHere
<1>2. TypeOK
  BY DEF IInv
<1>3. /\ program \in Programs /\ pc \in 1 .. Len(program)
      /\ program[pc] = [op |-> "await", task |-> u]
      /\ at = th /\ at # None /\ inside = "nothing" /\ Resumes = {}
      /\ \A t : ~Awaiting(t) /\ (Begun(t) <=> Done("create", t))
      /\ Begun(u) /\ ~Done("await", u) /\ ~Done("destroy", u)
  BY <1>1, CallerAt
<1>4. /\ \A o, t : Done(o, t)' <=> Done(o, t)
      /\ \A t : (Moved(t)' <=> Moved(t)) /\ (WillDestroy(t)' <=> WillDestroy(t))
  BY <1>1, Stands
<1>5. \A t : (Awaiting(t)' <=> t = u) /\ (Begun(t)' <=> Begun(t))
  BY <1>1, <1>3, <1>4 DEF Awaiting, Begun
<1>6. (\A t : Queued(t)' <=> Queued(t)) /\ Resumes' = {}
  BY <1>1, <1>3, SameQueues
<1>7. \A t : (Exists(t)' <=> Exists(t)) /\ (Pre(t)' <=> Pre(t))
  BY <1>1, <1>6 DEF Exists, Pre
<1>8. ~Exists(u) /\ ~Pre(u) /\ \A other \in Thread : job[other].task # u
  <2>1. ~Exists(u)
    BY <1>1 DEF IInv, Coroutines
  <2> QED
    BY <2>1 DEF Exists, Pre
<1>9. task[u].ret /\ (ServiceOf[at] = ReturnTo[u] \/ Moved(u))
  BY <1>1, <1>3 DEF IInv, Tasks, Placed
<1>11. TypeOK'
  BY <1>1, <1>2 DEF TypeOK
<1>12. Caller'
  BY <1>1, <1>2, <1>3, ProgramTypes DEF Caller, TypeOK
<1>13. Tasks'
  BY <1>1, <1>3, <1>4, <1>5 DEF IInv, Tasks
<1>14. Placed'
  BY <1>1 DEF Placed
<1>15. Jobs'
  BY <1>1, <1>3, <1>4, <1>5, <1>6, <1>8 DEF IInv, Jobs
<1>16. Closures' /\ Runs'
  BY <1>1, SameClosures DEF IInv
<1>17. Coroutines'
  BY <1>1, <1>4, <1>5, <1>7 DEF IInv, Coroutines
<1>18. Untold'
  BY <1>1, <1>3, <1>4, <1>5, <1>6, <1>7, <1>8 DEF IInv, Untold
<1>19. Resuming'
  BY <1>6, NoResumes DEF Resuming
<1>20. Back'
  BY <1>1, <1>3, <1>4, <1>9 DEF Back
<1>21. Under'
  BY <1>1, <1>3, <1>4, <1>5 DEF IInv, Under
<1>22. Freed'
  BY <1>1, <1>4 DEF IInv, Freed
<1> QED
  BY <1>11, <1>12, <1>13, <1>14, <1>15, <1>16, <1>17, <1>18, <1>19, <1>20, <1>21, <1>22 DEF IInv

LEMMA AwaitMovesKeeps ==
  ASSUME IInv, NEW u \in Task, NEW th \in Thread, AwaitMoves(u, th)
  PROVE  IInv'
<1> USE ServicesAssumption
<1>1. /\ CallerDoes("await", u, th) /\ inside' = "resumed" /\ at' = None
      /\ task[u].first = Executer[u] /\ ReturnTo[u] # Executer[u]
      /\ Post("resume", u, ReturnTo[u])
      /\ UNCHANGED <<program, pc, task, promise, job, got, faults>>
  BY DEF AwaitMoves
<1>2. TypeOK
  BY DEF IInv
<1>3. /\ program \in Programs /\ pc \in 1 .. Len(program)
      /\ program[pc] = [op |-> "await", task |-> u] /\ program[pc].op = "await"
      /\ at = th /\ at # None /\ inside = "nothing" /\ Resumes = {}
      /\ \A t : ~Awaiting(t) /\ (Begun(t) <=> Done("create", t))
      /\ Begun(u) /\ ~Done("await", u) /\ ~Done("destroy", u)
  BY <1>1, CallerAt
<1>4. /\ \A o, t : Done(o, t)' <=> Done(o, t)
      /\ \A t : (Moved(t)' <=> Moved(t)) /\ (WillDestroy(t)' <=> WillDestroy(t))
      /\ \A t : Prompt(program, t)' <=> Prompt(program, t)
  BY <1>1, Stands
<1>5. \A t : (Awaiting(t)' <=> t = u) /\ (Begun(t)' <=> Begun(t))
  BY <1>1, <1>3, <1>4 DEF Awaiting, Begun
<1>6. queue \in [Service -> Seq(Closure)] /\ ReturnTo[u] \in Service
  BY <1>2 DEF TypeOK, Closure
<1>7. /\ queue' \in [Service -> Seq(Closure)]
      /\ \A r \in Service : \A i \in DOMAIN queue'[r] :
           \/ i \in DOMAIN queue[r] /\ queue'[r][i] = queue[r][i]
           \/ r = ReturnTo[u] /\ queue'[r][i] = [do |-> "resume", task |-> u]
      /\ \A t : Queued(t)' <=> Queued(t)
  BY <1>1, <1>6, Posted
<1>8. \A t : (Exists(t)' <=> Exists(t)) /\ (Pre(t)' <=> Pre(t))
  BY <1>1, <1>7 DEF Exists, Pre
<1>9. ~Exists(u) /\ ~Pre(u) /\ \A other \in Thread : job[other].task # u
  <2>1. ~Exists(u)
    BY <1>1 DEF IInv, Coroutines
  <2> QED
    BY <2>1 DEF Exists, Pre
<1>10. task[u].ret
  BY <1>1 DEF IInv, Tasks
<1>11. TypeOK'
  BY <1>1, <1>2, <1>7 DEF TypeOK, Closure
<1>12. Caller'
  BY <1>1, <1>2, <1>3, ProgramTypes DEF Caller, TypeOK
<1>13. Tasks'
  BY <1>1, <1>3, <1>4, <1>5 DEF IInv, Tasks
<1>14. Placed'
  BY <1>1 DEF Placed
<1>15. Jobs'
  BY <1>1, <1>3, <1>4, <1>5, <1>7, <1>9 DEF IInv, Jobs
<1>16. Closures' /\ Runs'
  <2>1. Closures /\ Runs
    BY DEF IInv
  <2> QED
    BY <1>1, <1>3, <1>6, <2>1, PostedOnce
<1>17. Coroutines'
  BY <1>1, <1>4, <1>5, <1>8 DEF IInv, Coroutines
<1>18. Untold'
  BY <1>1, <1>3, <1>4, <1>5, <1>8, <1>9 DEF IInv, Untold
<1>19. Resuming'
  <2>1. \A r \in Service : \A i \in DOMAIN queue'[r] :
          queue'[r][i].do = "resume" => r = ReturnTo[u] /\ queue'[r][i].task = u
    BY <1>3, <1>7, NoResumes
  <2> QED
    BY <1>1, <1>5, <1>10, <2>1 DEF Resuming
<1>20. Back'
  BY <1>1 DEF Back
<1>21. Under'
  BY <1>1, <1>2, <1>3, <1>4, Promptly DEF TypeOK, Under
<1>22. Freed'
  BY <1>1, <1>4 DEF IInv, Freed
<1> QED
  BY <1>11, <1>12, <1>13, <1>14, <1>15, <1>16, <1>17, <1>18, <1>19, <1>20, <1>21, <1>22 DEF IInv

LEMMA AwaitSuspendsKeeps ==
  ASSUME IInv, NEW u \in Task, NEW th \in Thread, AwaitSuspends(u, th)
  PROVE  IInv'
<1> USE ServicesAssumption
<1> DEFINE T == [task[u] EXCEPT !.handle = TRUE]
           n == IF task[u].promise THEN promise[u].count + 1 ELSE promise[u].count
           P == [promise[u] EXCEPT !.count = n]
<1>1. /\ CallerDoes("await", u, th) /\ inside' = "resumed" /\ at' = None
      /\ task[u].first # Executer[u]
      /\ task' = [task EXCEPT ![u].handle = TRUE]
      /\ promise' = [promise EXCEPT ![u].count = IF task[u].promise THEN @ + 1 ELSE @]
      /\ UNCHANGED <<program, pc, queue, job, got, faults>>
  BY DEF AwaitSuspends
<1>2. TypeOK
  BY DEF IInv
<1>3. /\ program \in Programs /\ pc \in 1 .. Len(program)
      /\ program[pc] = [op |-> "await", task |-> u] /\ program[pc].op = "await"
      /\ at = th /\ at # None /\ inside = "nothing" /\ Resumes = {}
      /\ \A t : ~Awaiting(t) /\ (Begun(t) <=> Done("create", t))
      /\ Begun(u) /\ ~Done("await", u) /\ ~Done("destroy", u)
  BY <1>1, CallerAt
<1>4. /\ \A o, t : Done(o, t)' <=> Done(o, t)
      /\ \A t : (Moved(t)' <=> Moved(t)) /\ (WillDestroy(t)' <=> WillDestroy(t))
      /\ \A t : Prompt(program, t)' <=> Prompt(program, t)
  BY <1>1, Stands
<1>5. \A t : (Awaiting(t)' <=> t = u) /\ (Begun(t)' <=> Begun(t))
  BY <1>1, <1>3, <1>4 DEF Awaiting, Begun
<1>6. (\A t : Queued(t)' <=> Queued(t)) /\ Resumes' = {}
  BY <1>1, <1>3, SameQueues
<1>7. \A t : (Exists(t)' <=> Exists(t)) /\ (Pre(t)' <=> Pre(t))
  BY <1>1, <1>6 DEF Exists, Pre
<1>8. /\ T \in Object /\ T.handle /\ T.alive = task[u].alive
      /\ T.promise = task[u].promise /\ T.ret = task[u].ret /\ T.first = task[u].first
  <2>1. task[u] \in Object
    BY <1>2 DEF TypeOK, Object
  <2> QED
    BY <2>1, TaskHandled
<1>9. P \in Promise /\ P.alive = promise[u].alive /\ P.task = promise[u].task
  <2>1. promise[u] \in Promise
    BY <1>2 DEF TypeOK, Promise
  <2>2. ~(promise[u].count > 0) /\ promise[u].count \in 0 .. 1
    BY <2>1, <1>3 DEF Promise, IInv, Tasks
  <2>3. n \in 0 .. 1
    BY <2>2
  <2> HIDE DEF n
  <2> QED
    BY <2>1, <2>3, PromiseCounts
<1>10. /\ task'[u] = T /\ \A t \in Task \ {u} : task'[t] = task[t]
       /\ promise'[u] = P /\ \A t \in Task \ {u} : promise'[t] = promise[t]
       /\ task' = [task EXCEPT ![u] = T] /\ promise' = [promise EXCEPT ![u] = P]
  <2>1. task' = [task EXCEPT ![u] = T]
    BY <1>1
  <2>2. promise' = [promise EXCEPT ![u] = P]
    BY <1>1
  <2> HIDE DEF T, P
  <2> QED
    BY <1>2, <2>1, <2>2 DEF TypeOK
<1> HIDE DEF T, P
<1>11. TypeOK'
  BY <1>1, <1>2, <1>8, <1>9, <1>10 DEF TypeOK, Promise, Object
<1>12. Caller'
  BY <1>1, <1>2, <1>3, ProgramTypes DEF Caller, TypeOK
<1>13. Tasks'
  BY <1>1, <1>3, <1>4, <1>5, <1>8, <1>10 DEF IInv, Tasks
<1>14. Placed'
  BY <1>1 DEF Placed
<1>15. Jobs'
  BY <1>1, <1>3, <1>4, <1>5, <1>6 DEF IInv, Jobs
<1>16. Closures' /\ Runs'
  BY <1>1, SameClosures DEF IInv
<1>17. Coroutines'
  BY <1>1, <1>4, <1>5, <1>7, <1>8, <1>9, <1>10 DEF IInv, Coroutines
<1>18. Untold'
  BY <1>1, <1>3, <1>4, <1>5, <1>6, <1>7, <1>8, <1>9, <1>10 DEF IInv, Untold
<1>19. Resuming'
  BY <1>6, NoResumes DEF Resuming
<1>20. Back'
  BY <1>1 DEF Back
<1>21. Under'
  BY <1>1, <1>2, <1>3, <1>4, Promptly DEF TypeOK, Under
<1>22. Freed'
  BY <1>1, <1>4 DEF IInv, Freed
<1> QED
  BY <1>11, <1>12, <1>13, <1>14, <1>15, <1>16, <1>17, <1>18, <1>19, <1>20, <1>21, <1>22 DEF IInv

LEMMA AwaitResumeKeeps ==
  ASSUME IInv, NEW th \in Thread, AwaitResume(th)
  PROVE  IInv'
<1> USE ServicesAssumption
<1> DEFINE u == program[pc].task
           g == [task |-> u, ret |-> task[u].ret, service |-> ServiceOf[th]]
<1>1. /\ at = th /\ inside = "resumed" /\ inside' = "nothing" /\ pc' = pc + 1
      /\ got' = Append(got, g)
      /\ UNCHANGED <<program, at, task, promise, queue, job, faults>>
  BY DEF AwaitResume
<1>2. TypeOK /\ Caller
  BY DEF IInv
<1>3. /\ program \in Programs /\ pc \in 1 .. Len(program) /\ u \in Task
      /\ program[pc] = [op |-> "await", task |-> u]
      /\ Done("create", u) /\ ~Done("await", u) /\ ~Done("destroy", u)
  <2>1. program \in Programs /\ pc \in 1 .. Len(program)
    BY <1>1, <1>2, ProgramTypes DEF TypeOK, Caller
  <2> QED
    BY <1>1, <1>2, <2>1, ProgramTypes, Ordered DEF Caller, TypeOK
<1>4. at # None /\ Resumes = {}
  BY <1>1, NoResumes DEF IInv, Resuming
<1>5. got' \in Seq([task : Task, ret : BOOLEAN, service : Service])
  <2>1. g \in [task : Task, ret : BOOLEAN, service : Service]
    BY <1>2, <1>3 DEF TypeOK
  <2> QED
    BY <1>1, <1>2, <2>1 DEF TypeOK
<1>6. Awaiting(u) /\ \A t : t # u => ~Awaiting(t)
  BY <1>1 DEF Awaiting
<1> HIDE DEF u, g
<1>7. /\ pc' \in 1 .. Len(program) + 1
      /\ \A t : Done("create", t)' <=> Done("create", t)
      /\ \A t : Done("await", t)' <=> Done("await", t) \/ t = u
      /\ \A t : Done("destroy", t)' <=> Done("destroy", t)
      /\ \A t : Moved(t)' <=> Moved(t) \/ Done("create", t)
      /\ \A t : WillDestroy(t)' => WillDestroy(t)
  BY <1>1, <1>3, AdvancesBy
<1>8. \A t : ~Awaiting(t)' /\ (Begun(t)' <=> Begun(t)) /\ (Begun(t) <=> Done("create", t))
  BY <1>1, <1>7 DEF Awaiting, Begun
<1>9. (\A t : Queued(t)' <=> Queued(t)) /\ Resumes' = {}
  BY <1>1, <1>4, SameQueues
<1>10. \A t : (Exists(t)' <=> Exists(t)) /\ (Pre(t)' <=> Pre(t))
  BY <1>1, <1>9 DEF Exists, Pre
<1>11. TypeOK'
  BY <1>1, <1>2, <1>5, <1>7 DEF TypeOK
<1>12. Caller'
  BY <1>1 DEF Caller
<1>13. Tasks'
  BY <1>1, <1>6, <1>7, <1>8 DEF IInv, Tasks
<1>14. Placed'
  BY <1>1, <1>7, <1>8 DEF Placed
<1>15. ~Pre(u)
  BY <1>3, <1>4, <1>6 DEF IInv, Untold
<1>16. Jobs'
  <2>1. ASSUME NEW other \in Thread PROVE job[other].does # "reply" \/ job[other].task # u
    BY <1>15 DEF Pre, Early
  <2> QED
    BY <1>1, <1>6, <1>7, <1>8, <1>9, <2>1 DEF IInv, Jobs
<1>17. Closures' /\ Runs'
  BY <1>1, SameClosures DEF IInv
<1>18. Coroutines'
  BY <1>1, <1>7, <1>8, <1>10 DEF IInv, Coroutines
<1>19. Untold'
  BY <1>1, <1>6, <1>7, <1>8, <1>9, <1>10, <1>15 DEF IInv, Untold
<1>20. Resuming'
  BY <1>9, NoResumes DEF Resuming
<1>21. Back'
  BY <1>1 DEF Back
<1>22. Under'
  BY <1>1, <1>3, <1>4, <1>6, <1>7, <1>8 DEF IInv, Under
<1>23. Freed'
  BY <1>1, <1>7 DEF IInv, Freed
<1> QED
  BY <1>11, <1>12, <1>13, <1>14, <1>16, <1>17, <1>18, <1>19, <1>20, <1>21, <1>22, <1>23 DEF IInv

LEMMA NoTaskFacts ==
  /\ NoTask \in Object /\ NoTask.first = None /\ ~NoTask.handle
  /\ \A t \in Task : NoTask.first # Executer[t]
<1>1. /\ NoTask \in Object /\ NoTask.first = None /\ ~NoTask.handle
  BY DEF NoTask, Object
<1>2. \A t \in Task : Executer[t] # None
  BY ServicesAssumption
<1> QED
  BY <1>1, <1>2

LEMMA DestroyKeeps ==
  ASSUME IInv, NEW u \in Task, NEW th \in Thread, Destroy(u, th)
  PROVE  IInv'
<1> USE ServicesAssumption
<1>1. CallerDoes("destroy", u, th) /\ UNCHANGED <<program, at, promise, queue, job, got, faults>>
  BY DEF Destroy
<1>2. TypeOK
  BY DEF IInv
<1>3. /\ program \in Programs /\ pc \in 1 .. Len(program)
      /\ program[pc] = [op |-> "destroy", task |-> u] /\ program[pc].op = "destroy"
      /\ at = th /\ at # None /\ inside = "nothing" /\ Resumes = {}
      /\ \A t : ~Awaiting(t) /\ (Begun(t) <=> Done("create", t))
      /\ Begun(u) /\ ~Done("destroy", u)
  BY <1>1, CallerAt
<1>4. (\A t : Queued(t)' <=> Queued(t)) /\ Resumes' = {}
  BY <1>1, <1>3, SameQueues
<1>5. \A t : (Exists(t)' <=> Exists(t)) /\ (Pre(t)' <=> Pre(t))
  BY <1>1, <1>4 DEF Exists, Pre
<1>6. Closures' /\ Runs' /\ Resuming'
  BY <1>1, <1>4, SameClosures, NoResumes DEF IInv, Resuming
<1>7. CASE task[u].promise /\ inside' = "destroy" /\ UNCHANGED <<pc, task>>
  <2>1. /\ \A o, t : Done(o, t)' <=> Done(o, t)
        /\ \A t : (Moved(t)' <=> Moved(t)) /\ (WillDestroy(t)' <=> WillDestroy(t))
    BY <1>1, <1>7, Stands
  <2>2. \A t : ~Awaiting(t)' /\ (Begun(t)' <=> Begun(t))
    BY <1>1, <1>3, <1>7, <2>1 DEF Awaiting, Begun
  <2>3. TypeOK' /\ Caller'
    <3>1. TypeOK'
      BY <1>1, <1>2, <1>7 DEF TypeOK
    <3>2. pc <= Len(program)
      BY <1>2, <1>3, ProgramTypes DEF TypeOK
    <3> QED
      BY <1>1, <1>3, <1>7, <3>1, <3>2 DEF Caller
  <2>4. task[u].first # Executer[u]
    BY <1>7 DEF IInv, Tasks
  <2>5. Tasks'
    BY <1>1, <1>3, <1>7, <2>1, <2>2, <2>4 DEF IInv, Tasks
  <2>6. Placed'
    BY <1>1, <1>3, <1>7, <2>1, <2>2 DEF IInv, Placed
  <2>7. Jobs'
    BY <1>1, <1>3, <1>4, <2>1, <2>2 DEF IInv, Jobs
  <2>8. Coroutines'
    BY <1>1, <1>5, <1>7, <2>1, <2>2 DEF IInv, Coroutines
  <2>9. Untold'
    BY <1>1, <1>3, <1>5, <1>7, <2>1, <2>2 DEF IInv, Untold
  <2>10. Back'
    BY <1>7 DEF Back
  <2>11. Under'
    BY <1>1, <1>3, <1>7, <2>1, <2>2 DEF IInv, Under
  <2>12. Freed'
    BY <1>1, <2>1 DEF IInv, Freed
  <2> QED
    BY <1>6, <2>3, <2>5, <2>6, <2>7, <2>8, <2>9, <2>10, <2>11, <2>12 DEF IInv
<1>8. CASE /\ ~task[u].promise /\ task' = [task EXCEPT ![u] = NoTask]
           /\ pc' = pc + 1 /\ UNCHANGED inside
  <2>1. /\ pc' \in 1 .. Len(program) + 1
        /\ \A t : Done("create", t)' <=> Done("create", t)
        /\ \A t : Done("await", t)' <=> Done("await", t)
        /\ \A t : Done("destroy", t)' <=> Done("destroy", t) \/ t = u
        /\ \A t : Moved(t)' <=> Moved(t)
        /\ \A t : WillDestroy(t)' => WillDestroy(t) /\ t # u
    BY <1>1, <1>3, <1>8, AdvancesBy
  <2>2. \A t : ~Awaiting(t)' /\ (Begun(t)' <=> Begun(t))
    BY <1>1, <1>3, <1>8, <2>1 DEF Awaiting, Begun
  <2>3. task'[u] = NoTask /\ \A t \in Task \ {u} : task'[t] = task[t]
    BY <1>2, <1>8 DEF TypeOK
  <2>4. TypeOK' /\ Caller'
    BY <1>1, <1>2, <1>3, <1>8, <2>1, NoTaskFacts DEF TypeOK, Caller, Object
  <2>5. Tasks'
    BY <1>1, <1>3, <1>8, <2>1, <2>2, <2>3, NoTaskFacts DEF IInv, Tasks
  <2>6. Placed'
    BY <1>1, <1>3, <1>8, <2>1, <2>2, <2>3 DEF IInv, Placed
  <2>7. Jobs'
    BY <1>1, <1>3, <1>4, <2>1, <2>2 DEF IInv, Jobs
  <2>8. Coroutines'
    <3>1. ~Exists(u)
      BY <1>3, <1>8 DEF IInv, Coroutines
    <3> QED
      BY <1>1, <1>5, <2>1, <2>2, <2>3, <3>1 DEF IInv, Coroutines
  <2>9. Untold'
    BY <1>1, <1>3, <1>5, <2>1, <2>2, <2>3, NoTaskFacts DEF IInv, Untold
  <2>10. Back'
    BY <1>3, <1>8 DEF Back
  <2>11. Under'
    BY <1>1, <1>3, <2>1, <2>2, <2>3 DEF IInv, Under
  <2>12. Freed'
    BY <1>1, <1>3, <2>1, Promptly DEF IInv, Freed, WillDestroy, At
  <2> QED
    BY <1>6, <2>4, <2>5, <2>6, <2>7, <2>8, <2>9, <2>10, <2>11, <2>12 DEF IInv
<1> QED
  BY <1>7, <1>8 DEF Destroy

LEMMA DestroyUnlinksKeeps ==
  ASSUME IInv, DestroyUnlinks
  PROVE  IInv'
<1> USE ServicesAssumption
<1> DEFINE u == program[pc].task
           P == [promise[u] EXCEPT !.task = FALSE]
<1>1. /\ inside = "destroy" /\ inside' = "nothing" /\ pc' = pc + 1
      /\ Fault("promise", u, ~promise[u].alive)
      /\ promise' = [promise EXCEPT ![u].task = FALSE]
      /\ task' = [task EXCEPT ![u] = NoTask]
      /\ UNCHANGED <<program, at, queue, job, got>>
  BY DEF DestroyUnlinks
<1>2. TypeOK /\ Caller
  BY DEF IInv
<1>3. /\ program \in Programs /\ pc \in 1 .. Len(program) /\ u \in Task
      /\ program[pc] = [op |-> "destroy", task |-> u]
      /\ Done("create", u) /\ ~Done("destroy", u)
  <2>1. program \in Programs /\ pc \in 1 .. Len(program)
    BY <1>1, <1>2, ProgramTypes DEF TypeOK, Caller
  <2> QED
    BY <1>1, <1>2, <2>1, ProgramTypes, Ordered DEF Caller, TypeOK
<1>4. at # None /\ Resumes = {}
  BY <1>1, <1>2, NoResumes DEF Caller, IInv, Resuming
<1>5. P \in Promise /\ P.alive = promise[u].alive /\ ~P.task /\ P.count = promise[u].count
  <2>1. promise[u] \in Promise
    BY <1>2, <1>3 DEF TypeOK, Promise
  <2> QED
    BY <2>1, PromiseLoses
<1>6. /\ task'[u] = NoTask /\ \A t \in Task \ {u} : task'[t] = task[t]
      /\ promise'[u] = P /\ \A t \in Task \ {u} : promise'[t] = promise[t]
      /\ promise' = [promise EXCEPT ![u] = P]
  <2>1. promise' = [promise EXCEPT ![u] = P]
    BY <1>1
  <2> HIDE DEF P, u
  <2> QED
    BY <1>1, <1>2, <1>3, <2>1 DEF TypeOK
<1> HIDE DEF P, u
<1>7. /\ pc' \in 1 .. Len(program) + 1
      /\ \A t : Done("create", t)' <=> Done("create", t)
      /\ \A t : Done("await", t)' <=> Done("await", t)
      /\ \A t : Done("destroy", t)' <=> Done("destroy", t) \/ t = u
      /\ \A t : Moved(t)' <=> Moved(t)
      /\ \A t : WillDestroy(t)' => WillDestroy(t) /\ t # u
  BY <1>1, <1>3, AdvancesBy
<1>8. \A t : ~Awaiting(t) /\ ~Awaiting(t)' /\ (Begun(t)' <=> Begun(t))
  BY <1>1, <1>3, <1>7 DEF Awaiting, Begun
<1>9. (\A t : Queued(t)' <=> Queued(t)) /\ Resumes' = {}
  BY <1>1, <1>4, SameQueues
<1>10. \A t : (Exists(t)' <=> Exists(t)) /\ (Pre(t)' <=> Pre(t))
  BY <1>1, <1>9 DEF Exists, Pre
<1>11. TypeOK'
  <2>1. faults' \subseteq Objects \X Task
    BY <1>1, <1>2, <1>3 DEF TypeOK, Fault, Objects
  <2> QED
    BY <1>1, <1>2, <1>3, <1>5, <1>6, <1>7, <2>1, NoTaskFacts DEF TypeOK, Object, Promise
<1>12. Caller'
  BY <1>1 DEF Caller
<1>13. Tasks'
  BY <1>1, <1>3, <1>5, <1>6, <1>7, <1>8, NoTaskFacts DEF IInv, Tasks
<1>14. Placed'
  BY <1>1, <1>3, <1>6, <1>7, <1>8 DEF IInv, Placed
<1>15. Jobs'
  BY <1>1, <1>7, <1>8, <1>9 DEF IInv, Jobs
<1>16. Closures' /\ Runs' /\ Resuming'
  BY <1>1, <1>9, SameClosures, NoResumes DEF IInv, Resuming
<1>17. Coroutines'
  BY <1>1, <1>3, <1>5, <1>6, <1>7, <1>8, <1>10, NoTaskFacts DEF IInv, Coroutines
<1>18. Untold'
  BY <1>1, <1>3, <1>5, <1>6, <1>7, <1>8, <1>9, <1>10, NoTaskFacts DEF IInv, Untold
<1>19. Back'
  BY <1>1 DEF Back
<1>20. Under'
  BY <1>1, <1>6, <1>7, <1>8 DEF IInv, Under
<1>21. Freed'
  <2>1. Prompt(program, u) => WillDestroy(u)
    BY <1>2, <1>3, Promptly DEF TypeOK
  <2> QED
    BY <1>1, <1>3, <1>7, <2>1 DEF IInv, Freed
<1> QED
  BY <1>11, <1>12, <1>13, <1>14, <1>15, <1>16, <1>17, <1>18, <1>19, <1>20, <1>21 DEF IInv

LEMMA CallerEndsKeeps ==
  ASSUME IInv, CallerEnds
  PROVE  IInv'
<1> USE ServicesAssumption
<1>1. /\ at # None /\ pc = Len(program) + 1 /\ at' = None
      /\ UNCHANGED <<program, pc, inside, task, promise, queue, job, got, faults>>
  BY DEF CallerEnds
<1>2. TypeOK /\ Caller
  BY DEF IInv
<1>3. /\ inside = "nothing" /\ \A t : ~WillDestroy(t) /\ ~WillDestroy(t)'
  <2>1. Len(program) \in Nat /\ DOMAIN program = 1 .. Len(program)
    BY <1>2, ProgramTypes DEF TypeOK
  <2> QED
    BY <1>1, <1>2, <2>1 DEF Caller, WillDestroy, At
<1>4. Resumes = {}
  BY <1>1, NoResumes DEF IInv, Resuming
<1>5. \A o, t : Done(o, t)' <=> Done(o, t)
  BY <1>1, Stands
<1>6. \A t : ~Awaiting(t) /\ ~Awaiting(t)' /\ (Begun(t)' <=> Begun(t))
  BY <1>1, <1>3, <1>5 DEF Awaiting, Begun
<1>7. (\A t : Queued(t)' <=> Queued(t)) /\ Resumes' = {}
  BY <1>1, <1>4, SameQueues
<1>8. \A t : (Exists(t)' <=> Exists(t)) /\ (Pre(t)' <=> Pre(t))
  BY <1>1, <1>7 DEF Exists, Pre
<1>9. TypeOK' /\ Caller'
  BY <1>1, <1>2, <1>3 DEF TypeOK, Caller
<1>10. Tasks'
  BY <1>1, <1>5, <1>6 DEF IInv, Tasks
<1>11. Placed' /\ Back'
  BY <1>1 DEF Placed, Back
<1>12. Jobs'
  BY <1>1, <1>5, <1>6, <1>7 DEF IInv, Jobs
<1>13. Closures' /\ Runs' /\ Resuming'
  BY <1>1, <1>7, SameClosures, NoResumes DEF IInv, Resuming
<1>14. Coroutines'
  BY <1>1, <1>5, <1>6, <1>8 DEF IInv, Coroutines
<1>15. Untold'
  BY <1>1, <1>5, <1>6, <1>7, <1>8 DEF IInv, Untold
<1>16. Under'
  BY <1>1, <1>3 DEF Under
<1>17. Freed'
  BY <1>1, <1>3, <1>5 DEF IInv, Freed
<1> QED
  BY <1>9, <1>10, <1>11, <1>12, <1>13, <1>14, <1>15, <1>16, <1>17 DEF IInv

-----------------------------------------------------------------------------
Doings == {"return", "deref", "wait", "reply", "nested", "free", "unlink"}
Job == [does : {"idle"} \cup Doings, task : Task \cup {None}]

(* What a thread does to its own job. *)
LEMMA GoesTo ==
  ASSUME TypeOK, NEW th \in Thread, NEW from, NEW to, Goes(th, from, to)
  PROVE  /\ job[th].does = from /\ job'[th].does = to /\ job'[th].task = job[th].task
         /\ \A other \in Thread \ {th} : job'[other] = job[other]
<1> DEFINE J == [job[th] EXCEPT !.does = to]
<1>1. job[th].does = from /\ job' = [job EXCEPT ![th] = J]
  BY DEF Goes
<1>2. job \in [Thread -> Job]
  BY DEF TypeOK, Job, Doings
<1>3. J.does = to /\ J.task = job[th].task
  BY <1>2 DEF Job
<1> HIDE DEF J
<1>4. job'[th] = J /\ \A other \in Thread \ {th} : job'[other] = job[other]
  BY <1>1, <1>2
<1> QED
  BY <1>1, <1>3, <1>4

LEMMA GoesTyped ==
  ASSUME TypeOK, NEW th \in Thread, NEW from, NEW to \in Doings, Goes(th, from, to)
  PROVE  job' \in [Thread -> Job]
<1> DEFINE J == [job[th] EXCEPT !.does = to]
<1>1. job' = [job EXCEPT ![th] = J]
  BY DEF Goes
<1>2. job \in [Thread -> Job]
  BY DEF TypeOK, Job, Doings
<1>3. J \in Job
  BY <1>2 DEF Job
<1> HIDE DEF J
<1> QED
  BY <1>1, <1>2, <1>3

(* A thread that has something to do has a coroutine. *)
LEMMA Busy ==
  ASSUME IInv, NEW th \in Thread, job[th].does # "idle"
  PROVE  LET t == job[th].task IN
         /\ t \in Task /\ Exists(t) /\ ~Queued(t) /\ ServiceOf[th] = Executer[t]
         /\ \A other \in Thread : job[other].task = t => other = th
         /\ Begun(t) /\ promise[t].alive /\ task[t].first # Executer[t]
         /\ IF Done("destroy", t) THEN ~promise[t].task ELSE task[t].promise
         /\ job[th].does \in Early => Pre(t)
         /\ job[th].does = "reply" => Awaiting(t)
         /\ job[th].does = "nested" => Done("await", t) \/ (Awaiting(t) /\ at = th)
<1>1. job[th].task \in Task
  BY DEF IInv, Jobs, TypeOK
<1>2. /\ ServiceOf[th] = Executer[job[th].task]
      /\ ~Queued(job[th].task)
      /\ \A other \in Thread : job[other].task = job[th].task => other = th
      /\ job[th].does = "reply" => Awaiting(job[th].task)
      /\ job[th].does = "nested" => \/ Done("await", job[th].task)
                                    \/ Awaiting(job[th].task) /\ at = th
  BY <1>1 DEF IInv, Jobs
<1>3. Exists(job[th].task)
  BY DEF Exists
<1>4. job[th].does \in Early => Pre(job[th].task)
  BY DEF Pre
<1> QED
  BY <1>1, <1>2, <1>3, <1>4 DEF IInv, Coroutines

(* What the caller awaits. *)
LEMMA Awaited ==
  ASSUME TypeOK, Caller, inside = "resumed"
  PROVE  /\ program \in Programs /\ pc \in 1 .. Len(program)
         /\ program[pc].task \in Task /\ program[pc].op = "await"
         /\ ~Done("await", program[pc].task)
<1>1. program \in Programs /\ pc \in 1 .. Len(program) /\ program[pc].op = "await"
  BY ProgramTypes DEF TypeOK, Caller
<1> QED
  BY <1>1, Ordered

(* A thread that does not touch the caller leaves these alone. *)
LEMMA Apart ==
  ASSUME IInv, UNCHANGED <<program, pc, at, inside, queue>>
  PROVE  /\ \A o, t : Done(o, t)' <=> Done(o, t)
         /\ \A t : (Moved(t)' <=> Moved(t)) /\ (WillDestroy(t)' <=> WillDestroy(t))
         /\ \A t : Prompt(program, t)' <=> Prompt(program, t)
         /\ \A t : (Awaiting(t)' <=> Awaiting(t)) /\ (Begun(t)' <=> Begun(t))
         /\ \A t : Queued(t)' <=> Queued(t)
         /\ Resumes' = Resumes /\ Closures' /\ Runs' /\ Caller'
<1>1. /\ \A o, t : Done(o, t)' <=> Done(o, t)
      /\ \A t : (Moved(t)' <=> Moved(t)) /\ (WillDestroy(t)' <=> WillDestroy(t))
      /\ \A t : Prompt(program, t)' <=> Prompt(program, t)
  BY Stands
<1>2. \A t : (Awaiting(t)' <=> Awaiting(t)) /\ (Begun(t)' <=> Begun(t))
  BY <1>1 DEF Awaiting, Begun
<1>3. (\A t : Queued(t)' <=> Queued(t)) /\ Resumes' = Resumes
  BY SameQueues
<1>4. Closures' /\ Runs'
  BY SameClosures DEF IInv
<1>5. Caller'
  BY DEF IInv, Caller
<1> QED
  BY <1>1, <1>2, <1>3, <1>4, <1>5

(* The steps in which a thread goes on with its coroutine. *)
Proceeds(th, from, to) ==
  /\ Goes(th, from, to) /\ from # "idle"
  /\ to \in {"deref", "wait", "reply", "free", "unlink"}
  /\ to \in Early => from \in Early
  /\ from = "nested" => at # th
  /\ to = "reply" => Awaiting(job[th].task)
  /\ to \in {"free", "unlink"} /\ Prompt(program, job[th].task) =>
       ~WillDestroy(job[th].task) /\ (to = "unlink" => ~Done("destroy", job[th].task))
  /\ UNCHANGED <<program, pc, at, inside, queue, task>>
  /\ \A t \in Task :
       /\ promise'[t].alive = promise[t].alive /\ promise'[t].task = promise[t].task
       /\ promise'[t].count > 0 => promise[t].count > 0

LEMMA GoesOn ==
  ASSUME IInv, NEW th \in Thread, NEW from, NEW to, Proceeds(th, from, to), TypeOK'
  PROVE  IInv'
<1> USE ServicesAssumption
<1> DEFINE u == job[th].task
<1>0. /\ UNCHANGED <<program, pc, at, inside, queue, task>>
      /\ \A t \in Task :
           /\ promise'[t].alive = promise[t].alive /\ promise'[t].task = promise[t].task
           /\ promise'[t].count > 0 => promise[t].count > 0
  BY DEF Proceeds
<1>1. /\ job[th].does = from /\ job'[th].does = to /\ job'[th].task = u
      /\ \A other \in Thread \ {th} : job'[other] = job[other]
  <2>1. TypeOK
    BY DEF IInv
  <2>2. Goes(th, from, to)
    BY DEF Proceeds
  <2> QED
    BY <2>1, <2>2, GoesTo
<1>2. /\ u \in Task /\ ~Queued(u) /\ ServiceOf[th] = Executer[u]
      /\ \A other \in Thread : job[other].task = u => other = th
  BY <1>1, Busy DEF Proceeds
<1> HIDE DEF u
<1>3. /\ \A o, t : Done(o, t)' <=> Done(o, t)
      /\ \A t : (Moved(t)' <=> Moved(t)) /\ (WillDestroy(t)' <=> WillDestroy(t))
      /\ \A t : Prompt(program, t)' <=> Prompt(program, t)
      /\ \A t : (Awaiting(t)' <=> Awaiting(t)) /\ (Begun(t)' <=> Begun(t))
      /\ \A t : Queued(t)' <=> Queued(t)
      /\ Resumes' = Resumes /\ Closures' /\ Runs' /\ Caller'
  BY <1>0, Apart
<1>4. \A other \in Thread : job'[other].task = job[other].task
  BY <1>1 DEF u
<1>5. \A t : Exists(t)' <=> Exists(t)
  BY <1>3, <1>4 DEF Exists
<1>6. \A t : Pre(t)' => Pre(t)
  <2>1. \A other \in Thread : job'[other].does \in Early => job[other].does \in Early
    BY <1>1 DEF Proceeds
  <2> QED
    BY <1>3, <1>4, <2>1 DEF Pre
<1>7. Tasks'
  BY <1>0, <1>3 DEF IInv, Tasks
<1>8. Placed'
  BY <1>0, <1>3 DEF IInv, Placed
<1>9. Jobs'
  <2>1. ASSUME NEW other \in Thread \ {th}, NEW t \in Task, job'[other].task = t
        PROVE  /\ ServiceOf[other] = Executer[t] /\ ~Queued(t)'
               /\ \A x \in Thread : job'[x].task = t => x = other
               /\ job'[other].does = "reply" => Awaiting(t)'
               /\ job'[other].does = "nested" => Done("await", t)' \/ (Awaiting(t)' /\ at' = other)
    BY <1>0, <1>1, <1>3, <1>4, <2>1 DEF IInv, Jobs
  <2>2. job'[th].does \notin {"nested", "idle"}
    BY <1>1 DEF Proceeds
  <2>3. \A other \in Thread : job'[other].does = "idle" <=> job'[other].task = None
    <3>1. job'[th].does # "idle" /\ job'[th].task # None
      BY <1>1, <1>2, <2>2
    <3>2. \A other \in Thread \ {th} : job'[other].does = "idle" <=> job'[other].task = None
      BY <1>1 DEF IInv, Jobs
    <3> QED
      BY <3>1, <3>2
  <2>4. ASSUME NEW other \in Thread, NEW t \in Task, job'[other].task = t
        PROVE  /\ ServiceOf[other] = Executer[t] /\ ~Queued(t)'
               /\ \A x \in Thread : job'[x].task = t => x = other
               /\ job'[other].does = "reply" => Awaiting(t)'
               /\ job'[other].does = "nested" => Done("await", t)' \/ (Awaiting(t)' /\ at' = other)
    <3>1. CASE other = th
      <4>1. t = u
        BY <1>1, <2>4, <3>1
      <4> QED
        BY <1>1, <1>2, <1>3, <1>4, <2>2, <3>1, <4>1 DEF u, Proceeds
    <3>2. CASE other # th
      BY <2>1, <2>4, <3>2
    <3> QED
      BY <3>1, <3>2
  <2> QED
    BY <2>3, <2>4 DEF Jobs
<1>10. Coroutines'
  BY <1>0, <1>3, <1>5 DEF IInv, Coroutines
<1>11. Untold'
  BY <1>0, <1>3, <1>6 DEF IInv, Untold
<1>12. Resuming'
  BY <1>0, <1>3 DEF IInv, Resuming
<1>13. Back'
  BY <1>0, <1>3 DEF IInv, Back
<1>14. Under'
  <2>1. ASSUME NEW t \in Task, at # None, job[at] = [does |-> "nested", task |-> t]
        PROVE  job'[at] = job[at]
    <3>1. at \in Thread
      BY <2>1 DEF IInv, TypeOK
    <3>2. at # th
      BY <1>1, <2>1 DEF Proceeds
    <3> QED
      BY <1>1, <3>1, <3>2
  <2> QED
    BY <1>0, <1>3, <2>1 DEF IInv, Under
<1>15. Freed'
  BY <1>0, <1>1, <1>3 DEF IInv, Freed, u, Proceeds
<1> QED
  BY <1>3, <1>7, <1>8, <1>9, <1>10, <1>11, <1>12, <1>13, <1>14, <1>15 DEF IInv

LEMMA ReadTaskKeeps ==
  ASSUME IInv, NEW th \in Thread, ReadTask(th)
  PROVE  IInv'
<1> DEFINE u == job[th].task
           to == IF promise[u].task THEN "deref" ELSE "free"
<1>1. /\ job[th].does = "return" /\ Goes(th, "return", to)
      /\ UNCHANGED <<program, pc, at, inside, task, promise, queue, got, faults>>
  BY DEF ReadTask
<1>2. TypeOK
  BY DEF IInv
<1>3. to \in Doings /\ to \in {"deref", "free"} /\ (to = "free" => ~promise[u].task)
  BY DEF Doings
<1>4. u \in Task /\ Pre(u)
  BY <1>1, Busy DEF Early
<1>5. ~promise[u].task => Done("destroy", u) /\ ~Done("await", u)
  BY <1>4 DEF IInv, Untold
<1>6. ~promise[u].task => ~Prompt(program, u)
  BY <1>2, <1>4, <1>5, Promptly DEF TypeOK
<1> HIDE DEF to
<1>7. Proceeds(th, "return", to)
  BY <1>1, <1>3, <1>6 DEF Proceeds, Early
<1>8. job' \in [Thread -> Job]
  BY <1>1, <1>2, <1>3, GoesTyped
<1>9. TypeOK'
  BY <1>1, <1>2, <1>8 DEF TypeOK, Job, Doings
<1> QED
  BY <1>7, <1>9, GoesOn

LEMMA ReadContextKeeps ==
  ASSUME IInv, NEW th \in Thread, ReadContext(th)
  PROVE  IInv'
<1>1. /\ job[th].does = "deref" /\ Goes(th, "deref", "wait")
      /\ Fault("task", job[th].task, ~task[job[th].task].alive)
      /\ UNCHANGED <<program, pc, at, inside, task, promise, queue, got>>
  BY DEF ReadContext
<1>2. TypeOK
  BY DEF IInv
<1>3. job[th].task \in Task
  BY <1>1, Busy
<1>4. Proceeds(th, "deref", "wait")
  BY <1>1 DEF Proceeds, Early
<1>5. faults' \subseteq Objects \X Task
  BY <1>1, <1>2, <1>3 DEF TypeOK, Fault, Objects
<1>6. job' \in [Thread -> Job]
  BY <1>1, <1>2, GoesTyped DEF Doings
<1>7. TypeOK'
  BY <1>1, <1>2, <1>5, <1>6 DEF TypeOK, Job, Doings
<1> QED
  BY <1>4, <1>7, GoesOn

LEMMA WaitKeeps ==
  ASSUME IInv, NEW th \in Thread, Wait(th)
  PROVE  IInv'
<1> DEFINE u == job[th].task
           n == promise[u].count - 1
           P == [promise[u] EXCEPT !.count = n]
<1>1. /\ job[th].does = "wait" /\ promise[u].count > 0
      /\ Goes(th, "wait", "reply")
      /\ promise' = [promise EXCEPT ![u] = P]
      /\ UNCHANGED <<program, pc, at, inside, task, queue, got, faults>>
  BY DEF Wait
<1>2. TypeOK
  BY DEF IInv
<1>3. u \in Task /\ Pre(u)
  BY <1>1, Busy DEF Early
<1>4. Awaiting(u)
  BY <1>1, <1>3 DEF IInv, Tasks, Untold
<1>5. P \in Promise /\ P.alive = promise[u].alive /\ P.task = promise[u].task /\ P.count = n
      /\ ~(n > 0)
  <2>1. promise[u] \in Promise
    BY <1>2, <1>3 DEF TypeOK, Promise
  <2>2. n \in 0 .. 1 /\ ~(n > 0)
    BY <1>1, <2>1 DEF Promise
  <2> HIDE DEF n
  <2> QED
    BY <2>1, <2>2, PromiseCounts
<1> HIDE DEF P, n
<1>6. /\ promise'[u] = P /\ \A t \in Task \ {u} : promise'[t] = promise[t]
      /\ promise' \in [Task -> Promise]
  BY <1>1, <1>2, <1>3, <1>5 DEF TypeOK, Promise
<1>7. \A t \in Task :
        /\ promise'[t].alive = promise[t].alive /\ promise'[t].task = promise[t].task
        /\ promise'[t].count > 0 => promise[t].count > 0
  BY <1>5, <1>6
<1>8. Proceeds(th, "wait", "reply")
  BY <1>1, <1>4, <1>7 DEF Proceeds, Early
<1>9. job' \in [Thread -> Job]
  BY <1>1, <1>2, GoesTyped DEF Doings
<1>10. TypeOK'
  BY <1>1, <1>2, <1>6, <1>9 DEF TypeOK, Job, Doings, Promise
<1> QED
  BY <1>8, <1>10, GoesOn

LEMMA NestedReturnsKeeps ==
  ASSUME IInv, NEW th \in Thread, NestedReturns(th)
  PROVE  IInv'
<1> USE ServicesAssumption
<1> DEFINE u == job[th].task
<1>1. /\ at # th /\ job[th].does = "nested" /\ Goes(th, "nested", "free")
      /\ UNCHANGED <<program, pc, at, inside, task, promise, queue, got, faults>>
  BY DEF NestedReturns, Goes
<1>2. TypeOK
  BY DEF IInv
<1>3. /\ u \in Task /\ task[u].first # Executer[u] /\ Done("await", u)
      /\ \A other \in Thread : job[other].task = u => other = th
  BY <1>1, Busy
<1>4. Prompt(program, u) => ~WillDestroy(u)
  <2>1. SUFFICES ASSUME Prompt(program, u), WillDestroy(u) PROVE FALSE
    OBVIOUS
  <2>2. at # None /\ job[at] = [does |-> "nested", task |-> u]
    BY <1>3, <2>1 DEF IInv, Under
  <2>3. at \in Thread /\ job[at].task = u
    BY <1>2, <2>2 DEF TypeOK
  <2> QED
    BY <1>1, <1>3, <2>3
<1>5. Proceeds(th, "nested", "free")
  BY <1>1, <1>4 DEF Proceeds, Early
<1>6. job' \in [Thread -> Job]
  BY <1>1, <1>2, GoesTyped DEF Doings
<1>7. TypeOK'
  BY <1>1, <1>2, <1>6 DEF TypeOK, Job, Doings
<1> QED
  BY <1>5, <1>7, GoesOn

(* The steps in which a coroutine ends. *)
Finishes(th) ==
  /\ job[th].does \in {"free", "unlink"} /\ job' = [job EXCEPT ![th] = Idle]
  /\ UNCHANGED <<program, pc, at, inside, queue>>
  /\ \A t \in Task :
       /\ t # job[th].task => task'[t] = task[t] /\ promise'[t] = promise[t]
       /\ task'[t].alive = task[t].alive /\ task'[t].handle = task[t].handle
       /\ task'[t].ret = task[t].ret /\ task'[t].first = task[t].first
       /\ task'[t].promise => task[t].promise
       /\ promise'[t].count = promise[t].count

LEMMA Over ==
  ASSUME IInv, NEW th \in Thread, Finishes(th), TypeOK'
  PROVE  IInv'
<1> USE ServicesAssumption
<1> DEFINE u == job[th].task
<1>0. /\ UNCHANGED <<program, pc, at, inside, queue>>
      /\ \A t \in Task :
           /\ t # u => task'[t] = task[t] /\ promise'[t] = promise[t]
           /\ task'[t].alive = task[t].alive /\ task'[t].handle = task[t].handle
           /\ task'[t].ret = task[t].ret /\ task'[t].first = task[t].first
           /\ task'[t].promise => task[t].promise
           /\ promise'[t].count = promise[t].count
  BY DEF Finishes
<1>1. /\ job'[th] = Idle /\ job'[th].does = "idle" /\ job'[th].task = None
      /\ \A other \in Thread \ {th} : job'[other] = job[other]
  BY DEF Finishes, IInv, TypeOK, Idle
<1>2. /\ u \in Task /\ ~Queued(u) /\ job[th].does \in {"free", "unlink"}
      /\ \A other \in Thread : job[other].task = u => other = th
  BY Busy DEF Finishes
<1> HIDE DEF u
<1>3. /\ \A o, t : Done(o, t)' <=> Done(o, t)
      /\ \A t : (Moved(t)' <=> Moved(t)) /\ (WillDestroy(t)' <=> WillDestroy(t))
      /\ \A t : Prompt(program, t)' <=> Prompt(program, t)
      /\ \A t : (Awaiting(t)' <=> Awaiting(t)) /\ (Begun(t)' <=> Begun(t))
      /\ \A t : Queued(t)' <=> Queued(t)
      /\ Resumes' = Resumes /\ Closures' /\ Runs' /\ Caller'
  BY <1>0, Apart
<1>4. \A t \in Task : (Exists(t)' => Exists(t) /\ t # u) /\ (Pre(t)' => Pre(t) /\ t # u)
  <2>1. \A other \in Thread, t \in Task : job'[other].task = t => other # th /\ t # u
    BY <1>1, <1>2
  <2> QED
    BY <1>1, <1>2, <1>3, <2>1 DEF Exists, Pre
<1>5. Tasks'
  BY <1>0, <1>3 DEF IInv, Tasks
<1>6. Placed'
  BY <1>0, <1>3 DEF IInv, Placed
<1>7. Jobs'
  <2>1. \A other \in Thread : job'[other].does = "idle" <=> job'[other].task = None
    BY <1>1 DEF IInv, Jobs
  <2>2. ASSUME NEW other \in Thread, NEW t \in Task, job'[other].task = t
        PROVE  /\ ServiceOf[other] = Executer[t] /\ ~Queued(t)'
               /\ \A x \in Thread : job'[x].task = t => x = other
               /\ job'[other].does = "reply" => Awaiting(t)'
               /\ job'[other].does = "nested" => Done("await", t)' \/ (Awaiting(t)' /\ at' = other)
    BY <1>0, <1>1, <1>3, <2>2 DEF IInv, Jobs
  <2> QED
    BY <2>1, <2>2 DEF Jobs
<1>8. Coroutines'
  BY <1>0, <1>3, <1>4 DEF IInv, Coroutines
<1>9. Untold'
  BY <1>0, <1>3, <1>4 DEF IInv, Untold
<1>10. Resuming'
  <2>1. \A s \in Service : \A i \in DOMAIN queue[s] : queue[s][i].task \in Task
    BY ClosureTypes DEF IInv, TypeOK, Closure
  <2> QED
    BY <1>0, <1>3, <2>1 DEF IInv, Resuming
<1>11. Back'
  <2>1. inside = "resumed" => program[pc].task \in Task
    BY Awaited DEF IInv
  <2> QED
    BY <1>0, <1>3, <2>1 DEF IInv, Back
<1>12. Under'
  <2>1. ASSUME NEW t \in Task, at # None, job[at] = [does |-> "nested", task |-> t]
        PROVE  job'[at] = job[at]
    <3>1. at \in Thread
      BY <2>1 DEF IInv, TypeOK
    <3>2. at # th
      BY <1>2, <2>1
    <3> QED
      BY <1>1, <3>1, <3>2
  <2> QED
    BY <1>0, <1>3, <2>1 DEF IInv, Under
<1>13. Freed'
  BY <1>0, <1>1, <1>3 DEF IInv, Freed
<1> QED
  BY <1>3, <1>5, <1>6, <1>7, <1>8, <1>9, <1>10, <1>11, <1>12, <1>13 DEF IInv

LEMMA FreePromiseKeeps ==
  ASSUME IInv, NEW th \in Thread, FreePromise(th)
  PROVE  IInv'
<1> DEFINE u == job[th].task
           P == [promise[u] EXCEPT !.alive = FALSE]
<1>1. /\ job[th].does = "free"
      /\ UNCHANGED <<program, pc, at, inside, task, queue, got, faults>>
  BY DEF FreePromise
<1>2. TypeOK
  BY DEF IInv
<1>3. u \in Task /\ (Done("destroy", u) => ~promise[u].task)
  BY <1>1, Busy
<1>4. CASE promise[u].task /\ Goes(th, "free", "unlink") /\ UNCHANGED promise
  <2>1. Prompt(program, u) => ~WillDestroy(u)
    BY <1>1 DEF IInv, Freed
  <2>2. Proceeds(th, "free", "unlink")
    BY <1>1, <1>3, <1>4, <2>1 DEF Proceeds, Early
  <2>3. job' \in [Thread -> Job]
    BY <1>2, <1>4, GoesTyped DEF Doings
  <2>4. TypeOK'
    BY <1>1, <1>2, <1>4, <2>3 DEF TypeOK, Job, Doings
  <2> QED
    BY <2>2, <2>4, GoesOn
<1>5. CASE ~promise[u].task /\ promise' = [promise EXCEPT ![u] = P] /\ job' = [job EXCEPT ![th] = Idle]
  <2>1. P \in Promise /\ P.count = promise[u].count
    <3>1. promise[u] \in Promise
      BY <1>2, <1>3 DEF TypeOK, Promise
    <3> QED
      BY <3>1, PromiseEnds
  <2> HIDE DEF P
  <2>2. /\ promise' \in [Task -> Promise] /\ promise'[u] = P
        /\ \A t \in Task \ {u} : promise'[t] = promise[t]
    BY <1>2, <1>3, <1>5, <2>1 DEF TypeOK, Promise
  <2>3. Finishes(th)
    BY <1>1, <1>5, <2>1, <2>2 DEF Finishes
  <2>4. TypeOK'
    BY <1>1, <1>2, <1>5, <2>2 DEF TypeOK, Idle, Promise
  <2> QED
    BY <2>3, <2>4, Over
<1> QED
  BY <1>4, <1>5 DEF FreePromise

LEMMA FreeUnlinksKeeps ==
  ASSUME IInv, NEW th \in Thread, FreeUnlinks(th)
  PROVE  IInv'
<1> DEFINE u == job[th].task
           T == [task[u] EXCEPT !.promise = FALSE]
           Q == [promise[u] EXCEPT !.alive = FALSE]
           P == [Q EXCEPT !.task = FALSE]
<1>1. /\ job[th].does = "unlink" /\ Fault("task", u, ~task[u].alive)
      /\ task' = [task EXCEPT ![u] = T]
      /\ promise' = [promise EXCEPT ![u].alive = FALSE, ![u].task = FALSE]
      /\ job' = [job EXCEPT ![th] = Idle]
      /\ UNCHANGED <<program, pc, at, inside, queue, got>>
  BY DEF FreeUnlinks
<1>2. TypeOK
  BY DEF IInv
<1>3. u \in Task
  BY <1>1, Busy
<1>4. P \in Promise /\ P.count = promise[u].count
  <2>1. promise[u] \in Promise
    BY <1>2, <1>3 DEF TypeOK, Promise
  <2>2. Q \in Promise /\ Q.count = promise[u].count
    BY <2>1, PromiseEnds
  <2> HIDE DEF Q
  <2> QED
    BY <2>2, PromiseLoses
<1>5. /\ T \in Object /\ T.ret = task[u].ret /\ T.alive = task[u].alive /\ ~T.promise
      /\ T.handle = task[u].handle /\ T.first = task[u].first
  <2>1. task[u] \in Object
    BY <1>2, <1>3 DEF TypeOK, Object
  <2> QED
    BY <2>1, TaskLoses
<1>6. promise' = [promise EXCEPT ![u] = P]
  BY <1>1, <1>2, <1>3 DEF TypeOK
<1> HIDE DEF P, Q, T
<1>7. /\ promise' \in [Task -> Promise] /\ promise'[u] = P
      /\ \A t \in Task \ {u} : promise'[t] = promise[t]
      /\ task' \in [Task -> Object] /\ task'[u] = T
      /\ \A t \in Task \ {u} : task'[t] = task[t]
  <2>1. promise \in [Task -> Promise] /\ task \in [Task -> Object]
    BY <1>2 DEF TypeOK, Promise, Object
  <2> QED
    BY ZenonT(30), <1>1, <1>3, <1>4, <1>5, <1>6, <2>1
<1>8. Finishes(th)
  BY <1>1, <1>4, <1>5, <1>7 DEF Finishes
<1>9. faults' \subseteq Objects \X Task
  BY <1>1, <1>2, <1>3 DEF TypeOK, Fault, Objects
<1>10. TypeOK'
  BY <1>1, <1>2, <1>7, <1>9 DEF TypeOK, Idle, Promise, Object
<1> QED
  BY <1>8, <1>10, Over

LEMMA RunKeeps ==
  ASSUME IInv, NEW u \in Task, NEW th \in Thread, Run(u, th)
  PROVE  IInv'
<1> USE ServicesAssumption
<1> DEFINE J == [does |-> "return", task |-> u]
<1>1. /\ Takes("run", u, th) /\ job[th] = Idle /\ at # th
      /\ Fault("suspension", u, ~promise[u].suspended)
      /\ job' = [job EXCEPT ![th] = J]
      /\ UNCHANGED <<program, pc, at, inside, task, promise, got>>
  BY DEF Run, Takes
<1>2. TypeOK /\ Closures /\ Runs
  BY DEF IInv
<1>3. queue \in [Service -> Seq(Closure)]
  BY <1>2 DEF TypeOK, Closure
<1>4. /\ queue' \in [Service -> Seq(Closure)] /\ Closures' /\ Runs'
      /\ Queued(u) /\ ~Queued(u)' /\ ServiceOf[th] = Executer[u]
      /\ \A t : Queued(t)' => Queued(t)
      /\ Resumes = {} => Resumes' = {}
  BY <1>1, <1>2, <1>3, Taken, TakenOnce
<1>5. /\ J.does = "return" /\ J.task = u /\ J \in Job
  BY DEF Job, Doings
<1> HIDE DEF J
<1>6. /\ job'[th] = J /\ \A other \in Thread \ {th} : job'[other] = job[other]
      /\ job' \in [Thread -> Job]
  BY <1>1, <1>2, <1>5 DEF TypeOK, Job, Doings
<1>7. \A other \in Thread : job[other].task # u
  BY <1>4 DEF IInv, Jobs
<1>8. /\ \A o, t : Done(o, t)' <=> Done(o, t)
      /\ \A t : (Moved(t)' <=> Moved(t)) /\ (WillDestroy(t)' <=> WillDestroy(t))
      /\ \A t : Prompt(program, t)' <=> Prompt(program, t)
  BY <1>1, Stands
<1>9. \A t : (Awaiting(t)' <=> Awaiting(t)) /\ (Begun(t)' <=> Begun(t))
  BY <1>1, <1>8 DEF Awaiting, Begun
<1>10. \A t \in Task : (Exists(t)' => Exists(t)) /\ (Pre(t)' => Pre(t))
  BY <1>4, <1>5, <1>6 DEF Exists, Pre
<1>11. TypeOK'
  <2>1. faults' \subseteq Objects \X Task
    BY <1>1, <1>2 DEF TypeOK, Fault, Objects
  <2> QED
    BY <1>1, <1>2, <1>4, <1>6, <2>1 DEF TypeOK, Job, Doings, Closure
<1>12. Caller'
  BY <1>1 DEF IInv, Caller
<1>13. Tasks'
  BY <1>1, <1>8, <1>9 DEF IInv, Tasks
<1>14. Placed'
  BY <1>1, <1>8, <1>9 DEF IInv, Placed
<1>15. Jobs'
  <2>1. \A other \in Thread : job'[other].does = "idle" <=> job'[other].task = None
    BY <1>5, <1>6 DEF IInv, Jobs
  <2>2. ASSUME NEW other \in Thread, NEW t \in Task, job'[other].task = t
        PROVE  /\ ServiceOf[other] = Executer[t] /\ ~Queued(t)'
               /\ \A x \in Thread : job'[x].task = t => x = other
               /\ job'[other].does = "reply" => Awaiting(t)'
               /\ job'[other].does = "nested" => Done("await", t)' \/ (Awaiting(t)' /\ at' = other)
    <3>1. CASE other = th
      <4>1. t = u
        BY <1>5, <1>6, <2>2, <3>1
      <4> QED
        BY <1>4, <1>5, <1>6, <1>7, <3>1, <4>1
    <3>2. CASE other # th
      <4>1. job[other].task = t /\ t # u
        BY <1>6, <1>7, <2>2, <3>2
      <4>2. /\ ServiceOf[other] = Executer[t] /\ ~Queued(t)
            /\ \A x \in Thread : job[x].task = t => x = other
            /\ job[other].does = "reply" => Awaiting(t)
            /\ job[other].does = "nested" => Done("await", t) \/ (Awaiting(t) /\ at = other)
        BY <4>1 DEF IInv, Jobs
      <4>3. \A x \in Thread : job'[x].task = t => job[x].task = t
        BY <1>5, <1>6, <4>1
      <4> QED
        BY <1>1, <1>4, <1>6, <1>8, <1>9, <3>2, <4>2, <4>3
    <3> QED
      BY <3>1, <3>2
  <2> QED
    BY <2>1, <2>2 DEF Jobs
<1>16. Coroutines'
  BY <1>1, <1>8, <1>9, <1>10 DEF IInv, Coroutines
<1>17. Untold'
  BY <1>1, <1>4, <1>8, <1>9, <1>10 DEF IInv, Untold
<1>18. Resuming'
  <2>1. \A r \in Service : \A i \in DOMAIN queue'[r] :
          \E j \in DOMAIN queue[r] : queue'[r][i] = queue[r][j]
    BY <1>1, <1>3, TakenWas
  <2> QED
    BY <1>1, <1>9, <2>1 DEF IInv, Resuming
<1>19. Back'
  BY <1>1, <1>8 DEF IInv, Back
<1>20. Under'
  <2>1. ASSUME at # None PROVE job'[at] = job[at]
    BY <1>1, <1>2, <1>6, <2>1 DEF TypeOK
  <2> QED
    BY <1>1, <1>8, <1>9, <2>1 DEF IInv, Under
<1>21. Freed'
  BY <1>1, <1>5, <1>6, <1>8 DEF IInv, Freed
<1> QED
  BY <1>4, <1>11, <1>12, <1>13, <1>14, <1>15, <1>16, <1>17, <1>18, <1>19, <1>20, <1>21 DEF IInv

LEMMA ResumeKeeps ==
  ASSUME IInv, NEW u \in Task, NEW th \in Thread, Resume(u, th)
  PROVE  IInv'
<1> USE ServicesAssumption
<1>1. /\ Takes("resume", u, th) /\ at' = th
      /\ UNCHANGED <<program, pc, inside, task, promise, job, got, faults>>
  BY DEF Resume
<1>2. TypeOK /\ Closures /\ Runs /\ Caller
  BY DEF IInv
<1>3. queue \in [Service -> Seq(Closure)]
  BY <1>2 DEF TypeOK, Closure
<1>4. /\ queue' \in [Service -> Seq(Closure)] /\ Closures' /\ Runs'
      /\ Resumes # {} /\ Resumes' = {}
      /\ \A t : Queued(t)' => Queued(t)
  BY <1>1, <1>2, <1>3, Taken, TakenOnce
<1>5. /\ at = None /\ Awaiting(u) /\ task[u].ret /\ ServiceOf[th] = ReturnTo[u]
      /\ ReturnTo[u] # Executer[u]
  <2>1. /\ ServiceOf[th] \in Service /\ 1 \in DOMAIN queue[ServiceOf[th]]
        /\ queue[ServiceOf[th]][1] = [do |-> "resume", task |-> u]
    BY <1>1, <1>3, Taken
  <2> QED
    BY <2>1 DEF IInv, Resuming
<1>6. inside = "resumed" /\ program[pc].task = u
  BY <1>5 DEF Awaiting
<1>7. /\ \A o, t : Done(o, t)' <=> Done(o, t)
      /\ \A t : (Moved(t)' <=> Moved(t)) /\ (WillDestroy(t)' <=> WillDestroy(t))
      /\ \A t : Prompt(program, t)' <=> Prompt(program, t)
  BY <1>1, Stands
<1>8. \A t : (Awaiting(t)' <=> Awaiting(t)) /\ (Begun(t)' <=> Begun(t))
  BY <1>1, <1>7 DEF Awaiting, Begun
<1>9. \A t \in Task : (Exists(t)' => Exists(t)) /\ (Pre(t)' => Pre(t))
  BY <1>1, <1>4 DEF Exists, Pre
<1>10. \A t \in Task : Pre(t) => ~Awaiting(t)
  BY <1>4 DEF IInv, Untold
<1>11. TypeOK'
  BY <1>1, <1>2, <1>4 DEF TypeOK, Closure
<1>12. Caller'
  BY <1>1, <1>2 DEF Caller
<1>13. Tasks'
  BY <1>1, <1>7, <1>8 DEF IInv, Tasks
<1>14. Placed'
  BY <1>1, <1>6 DEF Placed
<1>15. Jobs'
  BY <1>1, <1>4, <1>5, <1>7, <1>8 DEF IInv, Jobs
<1>16. Coroutines'
  BY <1>1, <1>7, <1>8, <1>9 DEF IInv, Coroutines
<1>17. Untold'
  BY <1>1, <1>7, <1>8, <1>9, <1>10 DEF IInv, Untold
<1>18. Resuming'
  BY <1>4, NoResumes DEF Resuming
<1>19. Back'
  BY <1>1, <1>5, <1>6 DEF Back
<1>20. Under'
  <2>1. ASSUME NEW t \in Task, Prompt(program, t) PROVE ~Awaiting(t)
    <3>1. Executer[t] = ReturnTo[t]
      BY <2>1 DEF Prompt
    <3>2. t # u
      BY <1>5, <3>1
    <3> QED
      BY <1>6, <3>2 DEF Awaiting
  <2> QED
    BY <1>1, <1>5, <1>7, <1>8, <2>1 DEF IInv, Under
<1>21. Freed'
  BY <1>1, <1>7 DEF IInv, Freed
<1> QED
  BY <1>4, <1>11, <1>12, <1>13, <1>14, <1>15, <1>16, <1>17, <1>18, <1>19, <1>20, <1>21 DEF IInv

(* What a thread knows when it replies. *)
LEMMA Replies ==
  ASSUME IInv, NEW th \in Thread, job[th].does = "reply"
  PROVE  LET u == job[th].task IN
         /\ u \in Task /\ Awaiting(u) /\ task[u].handle /\ ~Done("await", u)
         /\ at = None /\ Resumes = {} /\ ~Queued(u) /\ ServiceOf[th] = Executer[u]
         /\ \A other \in Thread : job[other].task = u => other = th
         /\ \A t \in Task : Pre(t) /\ Awaiting(t) => t = u
<1> DEFINE u == job[th].task
<1>1. /\ u \in Task /\ Pre(u) /\ Awaiting(u) /\ ~Queued(u) /\ ServiceOf[th] = Executer[u]
      /\ \A other \in Thread : job[other].task = u => other = th
  BY Busy DEF Early
<1> HIDE DEF u
<1>2. task[u].handle /\ ~Done("await", u) /\ at = None /\ Resumes = {}
  BY <1>1 DEF IInv, Untold
<1>3. \A t \in Task : Awaiting(t) => t = u
  BY <1>1 DEF Awaiting
<1> QED
  BY <1>1, <1>2, <1>3 DEF u

(* Storing the result. *)
LEMMA Stored ==
  ASSUME TypeOK, NEW u \in Task, task' = [task EXCEPT ![u].ret = TRUE]
  PROVE  /\ task' \in [Task -> Object] /\ task'[u].ret
         /\ \A t \in Task : /\ task'[t].alive = task[t].alive
                            /\ task'[t].promise = task[t].promise
                            /\ task'[t].handle = task[t].handle
                            /\ task'[t].first = task[t].first
                            /\ task[t].ret => task'[t].ret
<1> DEFINE T == [task[u] EXCEPT !.ret = TRUE]
<1>1. task \in [Task -> Object]
  BY DEF TypeOK, Object
<1>2. /\ T \in Object /\ T.ret /\ T.alive = task[u].alive /\ T.promise = task[u].promise
      /\ T.handle = task[u].handle /\ T.first = task[u].first
  BY <1>1, TaskReturned
<1>3. task' = [task EXCEPT ![u] = T]
  OBVIOUS
<1> HIDE DEF T
<1>4. task'[u] = T /\ \A t \in Task \ {u} : task'[t] = task[t]
  BY <1>1, <1>3
<1> QED
  BY <1>1, <1>2, <1>3, <1>4

LEMMA ReplyKeeps ==
  ASSUME IInv, NEW th \in Thread, Reply(th)
  PROVE  IInv'
<1> USE ServicesAssumption
<1> DEFINE u == job[th].task
           to == IF ReturnTo[u] = ServiceOf[th] THEN "nested" ELSE "free"
<1>1. /\ job[th].does = "reply" /\ task' = [task EXCEPT ![u].ret = TRUE]
      /\ UNCHANGED <<program, pc, inside, promise, got, faults>>
  BY DEF Reply
<1>2. TypeOK /\ Closures /\ Runs /\ Caller
  BY DEF IInv
<1>3. /\ u \in Task /\ Awaiting(u) /\ task[u].handle /\ ~Done("await", u)
      /\ at = None /\ Resumes = {} /\ ~Queued(u) /\ ServiceOf[th] = Executer[u]
      /\ \A other \in Thread : job[other].task = u => other = th
      /\ \A t \in Task : Pre(t) /\ Awaiting(t) => t = u
  BY <1>1, Replies
<1>4. /\ Goes(th, "reply", to)
      /\ \/ to = "nested" /\ ReturnTo[u] = Executer[u] /\ at' = th /\ UNCHANGED queue
         \/ /\ to = "free" /\ ReturnTo[u] # Executer[u]
            /\ Post("resume", u, ReturnTo[u]) /\ UNCHANGED at
  BY <1>3 DEF Reply
<1>5. to \in {"nested", "free"} /\ to \in Doings
  BY DEF Doings
<1>6. inside = "resumed" /\ program[pc].task = u
  BY <1>3 DEF Awaiting
<1> HIDE DEF to
<1>7. /\ job'[th].does = to /\ job'[th].task = u
      /\ \A other \in Thread \ {th} : job'[other] = job[other]
      /\ job' \in [Thread -> Job]
  BY <1>2, <1>4, <1>5, GoesTo, GoesTyped
<1> HIDE DEF u
<1>8. /\ task' \in [Task -> Object] /\ task'[u].ret
      /\ \A t \in Task :
           /\ task'[t].alive = task[t].alive /\ task'[t].promise = task[t].promise
           /\ task'[t].handle = task[t].handle /\ task'[t].first = task[t].first
           /\ task[t].ret => task'[t].ret
  BY <1>1, <1>2, <1>3, Stored
<1>9. queue \in [Service -> Seq(Closure)] /\ ReturnTo[u] \in Service
  BY <1>2, <1>3 DEF TypeOK, Closure
<1>10. /\ queue' \in [Service -> Seq(Closure)] /\ Closures' /\ Runs'
       /\ \A t : Queued(t)' <=> Queued(t)
  <2>1. CASE UNCHANGED queue
    BY <1>2, <1>9, <2>1, SameQueues, SameClosures
  <2>2. CASE Post("resume", u, ReturnTo[u])
    BY ZenonT(30), <1>2, <1>3, <1>9, <2>2, Posted, PostedOnce
  <2> QED
    BY <1>4, <2>1, <2>2
<1>11. /\ \A o, t : Done(o, t)' <=> Done(o, t)
       /\ \A t : (Moved(t)' <=> Moved(t)) /\ (WillDestroy(t)' <=> WillDestroy(t))
       /\ \A t : Prompt(program, t)' <=> Prompt(program, t)
  BY <1>1, Stands
<1>12. \A t : (Awaiting(t)' <=> Awaiting(t)) /\ (Begun(t)' <=> Begun(t))
  BY <1>1, <1>11 DEF Awaiting, Begun
<1>13. \A other \in Thread : job'[other].task = job[other].task
  BY <1>7 DEF u
<1>14. \A t : Exists(t)' <=> Exists(t)
  BY <1>10, <1>13 DEF Exists
<1>15. \A t \in Task : Pre(t)' => Pre(t) /\ t # u
  BY <1>3, <1>5, <1>7, <1>10, <1>13 DEF Pre, Early
<1>16. TypeOK'
  <2>1. at' \in Thread \cup {None}
    BY <1>2, <1>4 DEF TypeOK
  <2>2. /\ program' \in Programs /\ pc' \in 1 .. Len(program') + 1
        /\ inside' \in {"nothing", "create", "resumed", "destroy"}
        /\ got' \in Seq([task : Task, ret : BOOLEAN, service : Service])
        /\ faults' \subseteq Objects \X Task
    BY <1>1, <1>2 DEF TypeOK
  <2>3. promise' \in [Task -> [alive : BOOLEAN, task : BOOLEAN, suspended : BOOLEAN,
                               count : 0 .. 1]]
    BY <1>1, <1>2 DEF TypeOK
  <2>4. job' \in [Thread -> [does : {"idle", "return", "deref", "wait", "reply",
                                     "nested", "free", "unlink"}, task : Task \cup {None}]]
    BY <1>7 DEF Job, Doings
  <2> QED
    BY <1>8, <1>10, <2>1, <2>2, <2>3, <2>4 DEF TypeOK, Object, Closure
<1>17. Caller'
  BY <1>1, <1>2, <1>6 DEF Caller
<1>18. Tasks'
  BY <1>1, <1>8, <1>11, <1>12 DEF IInv, Tasks
<1>19. Placed'
  BY <1>1, <1>6 DEF Placed
<1>20. Jobs'
  <2>1. \A other \in Thread : job'[other].does = "idle" <=> job'[other].task = None
    BY <1>3, <1>5, <1>7 DEF IInv, Jobs
  <2>2. ASSUME NEW other \in Thread, NEW t \in Task, job'[other].task = t
        PROVE  /\ ServiceOf[other] = Executer[t] /\ ~Queued(t)'
               /\ \A x \in Thread : job'[x].task = t => x = other
               /\ job'[other].does = "reply" => Awaiting(t)'
               /\ job'[other].does = "nested" => Done("await", t)' \/ (Awaiting(t)' /\ at' = other)
    <3>1. CASE other = th
      <4>1. t = u
        BY <1>7, <2>2, <3>1
      <4> QED
        BY <1>3, <1>4, <1>5, <1>7, <1>10, <1>12, <1>13, <3>1, <4>1
    <3>2. CASE other # th
      <4>1. job[other].task = t
        BY <1>7, <2>2, <3>2
      <4>2. /\ ServiceOf[other] = Executer[t] /\ ~Queued(t)
            /\ \A x \in Thread : job[x].task = t => x = other
            /\ job[other].does = "reply" => Awaiting(t)
            /\ job[other].does = "nested" => Done("await", t) \/ (Awaiting(t) /\ at = other)
        BY <4>1 DEF IInv, Jobs
      <4>3. at # other
        BY <1>3
      <4> QED
        BY <1>7, <1>10, <1>11, <1>12, <1>13, <3>2, <4>2, <4>3
    <3> QED
      BY <3>1, <3>2
  <2> QED
    BY <2>1, <2>2 DEF Jobs
<1>21. Coroutines'
  BY <1>1, <1>8, <1>11, <1>12, <1>14 DEF IInv, Coroutines
<1>22. Untold'
  <2>1. ASSUME NEW t \in Task, Pre(t)' PROVE Pre(t) /\ ~Awaiting(t)
    BY <1>3, <1>15, <2>1
  <2> QED
    BY <1>1, <1>8, <1>11, <1>12, <2>1 DEF IInv, Untold
<1>23. Resuming'
  <2>1. CASE to = "nested"
    <3>1. Resumes' = {}
      BY <1>3, <1>4, <2>1, SameQueues
    <3> QED
      BY <3>1, NoResumes DEF Resuming
  <2>2. CASE to = "free"
    <3>1. \A r \in Service : \A i \in DOMAIN queue'[r] :
            \/ i \in DOMAIN queue[r] /\ queue'[r][i] = queue[r][i]
            \/ r = ReturnTo[u] /\ queue'[r][i] = [do |-> "resume", task |-> u]
      BY <1>3, <1>4, <1>9, <2>2, Posted
    <3>2. \A r \in Service : \A i \in DOMAIN queue'[r] :
            queue'[r][i].do = "resume" => r = ReturnTo[u] /\ queue'[r][i].task = u
      BY <1>3, <3>1, NoResumes
    <3>3. at' = None /\ ReturnTo[u] # Executer[u]
      BY <1>3, <1>4, <2>2
    <3> QED
      BY <1>3, <1>8, <1>12, <3>2, <3>3 DEF Resuming
  <2> QED
    BY <1>5, <2>1, <2>2
<1>24. Back'
  BY <1>1, <1>3, <1>4, <1>6, <1>8 DEF Back
<1>25. Under'
  <2>1. CASE to = "nested"
    <3>1. at' = th /\ at' # None
      BY <1>4, <2>1
    <3>2. job'[th] = [does |-> "nested", task |-> u]
      BY <1>7, <2>1 DEF Job
    <3>3. \A t \in Task : Awaiting(t) => t = u
      BY <1>6 DEF Awaiting
    <3> QED
      BY <1>1, <1>3, <1>8, <1>11, <1>12, <3>1, <3>2, <3>3 DEF IInv, Under
  <2>2. CASE to = "free"
    <3>1. at' = None
      BY <1>3, <1>4, <2>2
    <3> QED
      BY <1>1, <1>3, <1>8, <1>11, <1>12, <3>1 DEF IInv, Under
  <2> QED
    BY <1>5, <2>1, <2>2
<1>26. Freed'
  <2>1. to = "free" => ~Prompt(program, u)
    BY <1>4 DEF Prompt
  <2> QED
    BY <1>1, <1>5, <1>7, <1>11, <2>1 DEF IInv, Freed
<1> QED
  BY <1>10, <1>16, <1>17, <1>18, <1>19, <1>20, <1>21, <1>22, <1>23, <1>24, <1>25, <1>26 DEF IInv

(* A step that changes nothing. *)
LEMMA StutterKeeps ==
  ASSUME IInv, UNCHANGED vars
  PROVE  IInv'
<1>1. /\ \A o, t : Done(o, t)' <=> Done(o, t)
      /\ \A t : (Moved(t)' <=> Moved(t)) /\ (WillDestroy(t)' <=> WillDestroy(t))
      /\ \A t : Prompt(program, t)' <=> Prompt(program, t)
  BY Stands DEF vars
<1>2. \A t : (Awaiting(t)' <=> Awaiting(t)) /\ (Begun(t)' <=> Begun(t))
  BY <1>1 DEF Awaiting, Begun, vars
<1>3. (\A t : Queued(t)' <=> Queued(t)) /\ Resumes' = Resumes
  BY DEF Queued, Resumes, vars
<1>4. \A t : (Exists(t)' <=> Exists(t)) /\ (Pre(t)' <=> Pre(t))
  BY <1>3 DEF Exists, Pre, vars
<1>5. TypeOK' /\ Caller' /\ Closures' /\ Runs'
  <2>1. TypeOK'
    BY DEF IInv, TypeOK, vars
  <2>2. Caller'
    BY DEF IInv, Caller, vars
  <2>3. Closures' /\ Runs'
    BY SameClosures DEF IInv, vars
  <2> QED
    BY <2>1, <2>2, <2>3
<1>6. Tasks' /\ Placed'
  BY <1>1, <1>2 DEF IInv, Tasks, Placed, vars
<1>7. Jobs'
  BY <1>1, <1>2, <1>3 DEF IInv, Jobs, vars
<1>8. Coroutines' /\ Untold'
  BY <1>1, <1>2, <1>3, <1>4 DEF IInv, Coroutines, Untold, vars
<1>9. Resuming' /\ Back'
  BY <1>1, <1>2 DEF IInv, Resuming, Back, vars
<1>10. Under' /\ Freed'
  BY <1>1, <1>2 DEF IInv, Under, Freed, vars
<1> QED
  BY <1>5, <1>6, <1>7, <1>8, <1>9, <1>10 DEF IInv

LEMMA StepKeeps == IInv /\ [Next]_vars => IInv'
<1>1. SUFFICES ASSUME IInv, [Next]_vars PROVE IInv'
  OBVIOUS
<1>2. CASE CallerStep
  <2>1. CASE \E t \in Task, th \in Thread :
               \/ CreateHere(t, th) \/ CreateThere(t, th)
               \/ AwaitHere(t, th) \/ AwaitMoves(t, th) \/ AwaitSuspends(t, th)
               \/ Destroy(t, th)
    <3>1. PICK t \in Task, th \in Thread :
               \/ CreateHere(t, th) \/ CreateThere(t, th)
               \/ AwaitHere(t, th) \/ AwaitMoves(t, th) \/ AwaitSuspends(t, th)
               \/ Destroy(t, th)
      BY <2>1
    <3> QED
      BY <1>1, <3>1, CreateHereKeeps, CreateThereKeeps, AwaitHereKeeps, AwaitMovesKeeps,
         AwaitSuspendsKeeps, DestroyKeeps
  <2>2. CASE \E th \in Thread : AwaitResume(th)
    BY <1>1, <2>2, AwaitResumeKeeps
  <2>3. CASE InitialSuspend \/ DestroyUnlinks \/ CallerEnds
    BY <1>1, <2>3, InitialSuspendKeeps, DestroyUnlinksKeeps, CallerEndsKeeps
  <2> QED
    BY <1>2, <2>1, <2>2, <2>3 DEF CallerStep
<1>3. CASE \E th \in Thread : ThreadStep(th)
  <2>1. PICK th \in Thread : ThreadStep(th)
    BY <1>3
  <2>2. CASE \E t \in Task : Run(t, th) \/ Resume(t, th)
    BY <1>1, <2>2, RunKeeps, ResumeKeeps
  <2>3. CASE ReadTask(th) \/ ReadContext(th) \/ Wait(th) \/ Reply(th)
    BY <1>1, <2>3, ReadTaskKeeps, ReadContextKeeps, WaitKeeps, ReplyKeeps
  <2>4. CASE NestedReturns(th) \/ FreePromise(th) \/ FreeUnlinks(th)
    BY <1>1, <2>4, NestedReturnsKeeps, FreePromiseKeeps, FreeUnlinksKeeps
  <2> QED
    BY <2>1, <2>2, <2>3, <2>4 DEF ThreadStep
<1>4. CASE UNCHANGED vars
  BY <1>1, <1>4, StutterKeeps
<1> QED
  BY <1>1, <1>2, <1>3, <1>4 DEF Next

LEMMA InitHolds == Init => IInv
<1> USE ServicesAssumption
<1>1. SUFFICES ASSUME Init PROVE IInv
  OBVIOUS
<1>2. /\ program \in Programs /\ pc = 1 /\ at = CallerThread /\ inside = "nothing"
      /\ task = [t \in Task |-> NoTask] /\ promise = [t \in Task |-> NoPromise]
      /\ queue = [s \in Service |-> <<>>] /\ job = [th \in Thread |-> Idle]
      /\ got = <<>> /\ faults = {}
  BY <1>1 DEF Init
<1>3. Len(program) \in Nat
  BY <1>2, ProgramsAssumption
<1>4. TypeOK
  <2>1. pc \in 1 .. Len(program) + 1
    BY <1>2, <1>3
  <2>2. task \in [Task -> [alive : BOOLEAN, promise : BOOLEAN, handle : BOOLEAN,
                           ret : BOOLEAN, first : Service \cup {None}]]
    BY <1>2 DEF NoTask
  <2>3. promise \in [Task -> [alive : BOOLEAN, task : BOOLEAN, suspended : BOOLEAN,
                              count : 0 .. 1]]
    BY <1>2 DEF NoPromise
  <2>4. queue \in [Service -> Seq([do : {"run", "resume"}, task : Task])]
    BY <1>2
  <2>5. job \in [Thread -> [does : {"idle", "return", "deref", "wait", "reply",
                                    "nested", "free", "unlink"}, task : Task \cup {None}]]
    BY <1>2 DEF Idle
  <2> QED
    BY <1>2, <2>1, <2>2, <2>3, <2>4, <2>5 DEF TypeOK
<1>5. \A op, t : ~Done(op, t)
  BY <1>2 DEF Done
<1>6. \A t : ~Begun(t) /\ ~Awaiting(t)
  BY <1>2, <1>5 DEF Begun, Awaiting
<1>7. (\A s \in Service : DOMAIN queue[s] = {}) /\ (\A t : ~Queued(t))
  BY <1>2 DEF Queued
<1>8. \A th \in Thread : job[th].does = "idle" /\ job[th].task = None
  BY <1>2 DEF Idle
<1>9. \A t \in Task : t # None /\ ~Exists(t) /\ ~Pre(t)
  BY <1>7, <1>8 DEF Exists, Pre
<1>10. \A t \in Task : task[t].first # Executer[t] /\ promise[t].count = 0
  BY <1>2 DEF NoTask, NoPromise
<1>11. Caller
  BY <1>2 DEF Caller
<1>12. Tasks
  BY <1>2, <1>6, <1>10 DEF Tasks
<1>13. Placed /\ Coroutines /\ Untold
  BY <1>6, <1>9 DEF Placed, Coroutines, Untold
<1>14. Jobs /\ Freed
  BY <1>8, <1>9 DEF Jobs, Freed
<1>15. Closures /\ Runs /\ Resuming
  BY <1>7 DEF Closures, Runs, Resuming
<1>16. Back /\ Under
  BY <1>2, <1>5, <1>6 DEF Back, Under
<1> QED
  BY <1>4, <1>11, <1>12, <1>13, <1>14, <1>15, <1>16 DEF IInv

LEMMA Invariance == Spec => []IInv
BY InitHolds, StepKeeps, PTL DEF Spec

(* The types of the state, for any program. *)
THEOREM TaskTypeCorrect == Spec => []TypeOK
<1>1. IInv => TypeOK
  BY DEF IInv
<1> QED
  BY <1>1, Invariance, PTL

(* A suspended caller is in one queue, once, or in none; a running one in  *)
(* none: nothing resumes it twice (Task.hpp, await_suspend and             *)
(* return_value).                                                          *)
THEOREM TaskResumesOnce == Spec => []ResumedOnce
<1>1. IInv => ResumedOnce
  <2>1. SUFFICES ASSUME IInv PROVE ResumedOnce
    OBVIOUS
  <2>2. \A e \in Resumes : \E s \in Service : \E i \in DOMAIN queue[s] :
          e = <<s, i>> /\ queue[s][i].do = "resume"
    <3>1. SUFFICES ASSUME NEW e \in Resumes
                   PROVE  \E s \in Service : \E i \in DOMAIN queue[s] :
                            e = <<s, i>> /\ queue[s][i].do = "resume"
      OBVIOUS
    <3>2. PICK s \in Service : e \in {s} \X DOMAIN queue[s]
      BY <3>1 DEF Resumes
    <3>3. PICK i \in DOMAIN queue[s] : e = <<s, i>>
      BY <3>2
    <3>4. e[1] = s /\ e[2] = i
      BY <3>3
    <3>5. queue[e[1]][e[2]].do = "resume"
      BY <3>1 DEF Resumes
    <3> QED
      BY <3>3, <3>4, <3>5
  <2>3. ASSUME NEW e \in Resumes, NEW f \in Resumes PROVE e = f
    <3>1. PICK s \in Service : \E i \in DOMAIN queue[s] :
                 e = <<s, i>> /\ queue[s][i].do = "resume"
      BY <2>2
    <3>2. PICK i \in DOMAIN queue[s] : e = <<s, i>> /\ queue[s][i].do = "resume"
      BY <3>1
    <3>3. PICK r \in Service : \E j \in DOMAIN queue[r] :
                 f = <<r, j>> /\ queue[r][j].do = "resume"
      BY <2>2
    <3>4. PICK j \in DOMAIN queue[r] : f = <<r, j>> /\ queue[r][j].do = "resume"
      BY <3>3
    <3>5. s = r /\ i = j
      BY <2>1, <3>2, <3>4 DEF IInv, Closures
    <3> QED
      BY <3>2, <3>4, <3>5
  <2>4. at # None => Resumes = {}
    BY <2>1, NoResumes DEF IInv, Resuming
  <2> QED
    BY <2>3, <2>4 DEF ResumedOnce
<1> QED
  BY <1>1, Invariance, PTL

(* The caller awaits every task it makes. *)
AwaitsAll(p) == \A t \in Task : At(p, "create", t) # {} => At(p, "await", t) # {}

(* Of a caller that does, a thread in m_semaphore.wait() (Task.hpp:112)    *)
(* waits for a signal that was given or for an await that is still to come.*)
THEOREM TaskWaitersAwaited == Spec => [](AwaitsAll(program) => WaitersAreAwaited)
<1>1. IInv => (AwaitsAll(program) => WaitersAreAwaited)
  <2>1. SUFFICES ASSUME IInv, AwaitsAll(program), NEW th \in Thread, job[th].does = "wait"
                 PROVE  \E i \in At(program, "await", job[th].task) : i >= pc
    BY DEF WaitersAreAwaited
  <2> DEFINE u == job[th].task
  <2>2. /\ Len(program) \in Nat /\ DOMAIN program = 1 .. Len(program)
        /\ \A i \in 1 .. Len(program) :
             program[i] = [op |-> program[i].op, task |-> program[i].task]
        /\ pc \in Nat \ {0} /\ 1 .. pc - 1 \subseteq 1 .. Len(program)
    BY <2>1, ProgramTypes DEF IInv, TypeOK
  <2>3. u \in Task /\ Begun(u) /\ Pre(u)
    BY <2>1, Busy DEF Early
  <2> HIDE DEF u
  <2>4. At(program, "create", u) # {}
    <3>1. CASE Done("create", u)
      BY <2>2, <3>1 DEF Done, At
    <3>2. CASE inside = "create" /\ program[pc].task = u
      <4>1. pc \in 1 .. Len(program) /\ program[pc].op = "create"
        BY <2>1, <2>2, <3>2 DEF IInv, Caller
      <4> QED
        BY <2>2, <3>2, <4>1 DEF At
    <3> QED
      BY <2>3, <3>1, <3>2 DEF Begun
  <2>5. PICK i \in At(program, "await", u) : TRUE
    BY <2>1, <2>3, <2>4 DEF AwaitsAll
  <2>6. i \in 1 .. Len(program) /\ program[i] = [op |-> "await", task |-> u]
    BY <2>2, <2>5 DEF At
  <2>7. ~Done("await", u)
    BY <2>1, <2>3 DEF IInv, Untold
  <2>8. i >= pc
    BY <2>2, <2>6, <2>7 DEF Done
  <2> QED
    BY <2>5, <2>8 DEF u
<1> QED
  BY <1>1, Invariance, PTL

-----------------------------------------------------------------------------
(* Only three steps touch an object that may be gone. *)
LEMMA Unfaulted ==
  ASSUME Next
  PROVE  /\ program' = program
         /\ \/ UNCHANGED faults
            \/ \E u \in Task, th \in Thread : Run(u, th)
            \/ \E th \in Thread : ReadContext(th) \/ FreeUnlinks(th)
            \/ DestroyUnlinks
<1>1. CASE CallerStep
  BY <1>1 DEF CallerStep, CreateHere, CreateThere, AwaitHere, AwaitMoves, AwaitSuspends,
              Destroy, AwaitResume, InitialSuspend, DestroyUnlinks, CallerEnds
<1>2. CASE \E th \in Thread : ThreadStep(th)
  BY <1>2 DEF ThreadStep, Run, Resume, ReadTask, ReadContext, Wait, Reply, NestedReturns,
              FreePromise, FreeUnlinks
<1> QED
  BY <1>1, <1>2 DEF Next

LEMMA AliveInUse ==
  ASSUME IInv, NEW th \in Thread, Prompt(program, job[th].task),
         job[th].does \in {"deref", "unlink"}
  PROVE  task[job[th].task].alive
<1> DEFINE u == job[th].task
<1>1. u \in Task /\ Begun(u) /\ (job[th].does = "deref" => Pre(u))
  BY Busy DEF Early
<1>2. ~Done("destroy", u)
  <2>1. CASE job[th].does = "deref"
    <3>1. ~Done("await", u)
      BY <1>1, <2>1 DEF IInv, Untold
    <3> QED
      BY <1>1, <3>1, Promptly DEF IInv, TypeOK
  <2>2. CASE job[th].does = "unlink"
    BY <2>2 DEF IInv, Freed
  <2> QED
    BY <2>1, <2>2
<1> QED
  BY <1>1, <1>2 DEF IInv, Tasks

LEMMA PromiseInUse ==
  ASSUME IInv, inside = "destroy", Prompt(program, program[pc].task)
  PROVE  promise[program[pc].task].alive
<1> DEFINE u == program[pc].task
<1>1. /\ program \in Programs /\ pc \in 1 .. Len(program) + 1 /\ pc <= Len(program)
      /\ program[pc].op = "destroy" /\ at # None /\ at \in Thread
  BY DEF IInv, TypeOK, Caller
<1>2. pc \in 1 .. Len(program) /\ program[pc] = [op |-> "destroy", task |-> u] /\ u \in Task
  <2>1. pc \in 1 .. Len(program)
    BY <1>1, ProgramTypes
  <2> QED
    BY <1>1, <2>1, ProgramTypes, Ordered
<1>3. Done("await", u) /\ WillDestroy(u)
  BY <1>1, <1>2, Promptly
<1>4. task[u].first # Executer[u]
  BY <1>2 DEF IInv, Tasks
<1>5. job[at] = [does |-> "nested", task |-> u]
  BY <1>1, <1>2, <1>3, <1>4 DEF IInv, Under
<1>6. job[at].does # "idle" /\ job[at].task = u
  BY <1>5
<1> QED
  BY <1>1, <1>6, Busy

(* Of a prompt task, neither the Task object nor the promise is used after *)
(* its end: return_value() and the two destructors (Task.hpp, l. 100-140   *)
(* and 180-200) find the other object there whenever they look at it.      *)
THEOREM TaskObjectsOutlive == Spec => []ObjectsOutliveUse
<1>1. Init => ObjectsOutliveUse
  BY DEF Init, ObjectsOutliveUse
<1>2. IInv /\ ObjectsOutliveUse /\ [Next]_vars => ObjectsOutliveUse'
  <2>1. SUFFICES ASSUME IInv, ObjectsOutliveUse, [Next]_vars PROVE ObjectsOutliveUse'
    OBVIOUS
  <2>2. CASE UNCHANGED <<program, faults>>
    BY <2>1, <2>2 DEF ObjectsOutliveUse, Prompt, At
  <2>3. ASSUME program' = program, NEW object, NEW u, NEW happens \in BOOLEAN,
               Fault(object, u, happens),
               object \in {"task", "promise"} /\ happens => ~Prompt(program, u)
        PROVE  ObjectsOutliveUse'
    <3>1. \A f \in faults' : f \in faults \/ (f = <<object, u>> /\ happens)
      BY <2>3 DEF Fault
    <3>2. \A f \in faults' : f[1] \in {"task", "promise"} => ~Prompt(program, f[2])
      BY <2>1, <2>3, <3>1 DEF ObjectsOutliveUse
    <3> QED
      BY <2>3, <3>2 DEF ObjectsOutliveUse, Prompt, At
  <2>4. CASE \E u \in Task, th \in Thread : Run(u, th)
    <3>1. PICK u \in Task, th \in Thread : Run(u, th)
      BY <2>4
    <3> QED
      BY <2>3, <3>1 DEF Run
  <2>5. CASE \E th \in Thread : ReadContext(th) \/ FreeUnlinks(th)
    <3>1. PICK th \in Thread : ReadContext(th) \/ FreeUnlinks(th)
      BY <2>5
    <3> DEFINE u == job[th].task
    <3>2. /\ program' = program /\ Fault("task", u, ~task[u].alive)
          /\ job[th].does \in {"deref", "unlink"}
      BY <3>1 DEF ReadContext, FreeUnlinks
    <3>3. Prompt(program, u) => task[u].alive
      BY <2>1, <3>2, AliveInUse
    <3> HIDE DEF u
    <3> QED
      BY <2>3, <3>2, <3>3
  <2>6. CASE DestroyUnlinks
    <3> DEFINE u == program[pc].task
    <3>1. program' = program /\ Fault("promise", u, ~promise[u].alive) /\ inside = "destroy"
      BY <2>6 DEF DestroyUnlinks
    <3>2. Prompt(program, u) => promise[u].alive
      BY <2>1, <3>1, PromiseInUse
    <3> HIDE DEF u
    <3> QED
      BY <2>3, <3>1, <3>2
  <2>7. CASE UNCHANGED vars
    BY <2>2, <2>7 DEF vars
  <2> QED
    BY <2>1, <2>2, <2>4, <2>5, <2>6, <2>7, Unfaulted
<1> QED
  BY <1>1, <1>2, Invariance, PTL DEF Spec

-----------------------------------------------------------------------------
(* The awaits the caller has returned from: got has one entry for each, in *)
(* their order.                                                            *)
Awaits == {i \in 1 .. pc - 1 : program[i].op = "await"}
InTurn ==
  /\ Len(got) = Cardinality(Awaits)
  /\ \A i \in Awaits : got[Cardinality(Awaits \cap 1 .. i)].task = program[i].task

ReturnInv == Returned /\ InTurn

(* got grows at the end of an await, and only there. *)
LEMMA Grows ==
  ASSUME IInv, [Next]_vars
  PROVE  /\ program' = program
         /\ \/ UNCHANGED <<pc, got>>
            \/ /\ pc \in 1 .. Len(program) /\ program[pc].op # "await"
               /\ pc' = pc + 1 /\ got' = got
            \/ \E th \in Thread : AwaitResume(th)
<1>1. /\ pc <= Len(program) => pc \in 1 .. Len(program)
      /\ inside # "nothing" => pc \in 1 .. Len(program)
      /\ inside = "create" => program[pc].op = "create"
      /\ inside = "destroy" => program[pc].op = "destroy"
  BY ProgramTypes DEF IInv, TypeOK, Caller
<1>2. CASE \E t \in Task, th \in Thread :
             \/ CreateHere(t, th) \/ CreateThere(t, th)
             \/ AwaitHere(t, th) \/ AwaitMoves(t, th) \/ AwaitSuspends(t, th)
             \/ Destroy(t, th)
  BY <1>1, <1>2 DEF CreateHere, CreateThere, AwaitHere, AwaitMoves, AwaitSuspends, Destroy,
                    CallerDoes
<1>3. CASE InitialSuspend \/ DestroyUnlinks \/ CallerEnds
  BY <1>1, <1>3 DEF InitialSuspend, DestroyUnlinks, CallerEnds
<1>4. CASE \E th \in Thread : AwaitResume(th)
  BY <1>4 DEF AwaitResume
<1>5. CASE \E th \in Thread : ThreadStep(th)
  BY <1>5 DEF ThreadStep, Run, Resume, ReadTask, ReadContext, Wait, Reply, NestedReturns,
              FreePromise, FreeUnlinks
<1>6. CASE UNCHANGED vars
  BY <1>6 DEF vars
<1> QED
  BY <1>2, <1>3, <1>4, <1>5, <1>6 DEF Next, CallerStep

LEMMA InitReturnInv == Init => ReturnInv
<1>1. SUFFICES ASSUME Init PROVE ReturnInv
  OBVIOUS
<1>2. got = <<>> /\ Awaits = {}
  BY <1>1 DEF Init, Awaits
<1> QED
  BY <1>2, FS_EmptySet, EmptySeq DEF ReturnInv, Returned, InTurn

LEMMA AwaitsFinite ==
  ASSUME TypeOK
  PROVE  /\ Awaits \subseteq 1 .. pc - 1 /\ IsFiniteSet(Awaits)
         /\ Cardinality(Awaits) \in Nat
         /\ \A i \in Awaits : Cardinality(Awaits \cap 1 .. i) \in 1 .. Cardinality(Awaits)
<1>1. pc \in Nat \ {0}
  BY ProgramTypes DEF TypeOK
<1>2. Awaits \subseteq 1 .. pc - 1 /\ IsFiniteSet(1 .. pc - 1)
  BY <1>1, FS_Interval DEF Awaits
<1>3. IsFiniteSet(Awaits) /\ Cardinality(Awaits) \in Nat
  BY <1>2, FS_Subset, FS_CardinalityType
<1>4. ASSUME NEW i \in Awaits
      PROVE  Cardinality(Awaits \cap 1 .. i) \in 1 .. Cardinality(Awaits)
  <2>1. i \in Awaits \cap 1 .. i
    BY <1>1, <1>2
  <2>2. /\ IsFiniteSet(Awaits \cap 1 .. i) /\ Cardinality(Awaits \cap 1 .. i) \in Nat
        /\ Cardinality(Awaits \cap 1 .. i) <= Cardinality(Awaits)
    BY <1>3, FS_Subset, FS_CardinalityType
  <2>3. Cardinality(Awaits \cap 1 .. i) # 0
    BY <2>1, <2>2, FS_EmptySet
  <2> QED
    BY <1>3, <2>2, <2>3
<1> QED
  BY <1>2, <1>3, <1>4

(* The end of an await. *)
LEMMA AwaitResumeReturns ==
  ASSUME IInv, ReturnInv, NEW th \in Thread, AwaitResume(th)
  PROVE  ReturnInv'
<1> USE ServicesAssumption
<1> DEFINE u == program[pc].task
           g == [task |-> u, ret |-> task[u].ret, service |-> ServiceOf[th]]
           G == [task : Task, ret : BOOLEAN, service : Service]
<1>1. /\ at = th /\ at # None /\ inside = "resumed" /\ pc' = pc + 1 /\ got' = Append(got, g)
      /\ program' = program
  BY DEF AwaitResume
<1>2. TypeOK /\ Caller
  BY DEF IInv
<1>3. /\ program \in Programs /\ pc \in 1 .. Len(program) /\ u \in Task
      /\ program[pc].op = "await"
  BY <1>1, <1>2, Awaited
<1>4. /\ DOMAIN program = 1 .. Len(program) /\ Len(program) \in Nat /\ pc \in Nat \ {0}
      /\ program[pc] = [op |-> "await", task |-> u]
      /\ 1 .. pc - 1 \subseteq 1 .. Len(program)
  BY <1>2, <1>3, ProgramTypes DEF TypeOK
<1>5. g \in G /\ g.task = u /\ g.ret = task[u].ret /\ g.service = ServiceOf[th]
  BY <1>2, <1>3 DEF TypeOK
<1>6. /\ task[u].ret
      /\ ServiceOf[th] = ReturnTo[u] \/ (ReturnTo[u] = Executer[u] /\ Moved(u))
  BY <1>1 DEF IInv, Back
<1>7. Moved(u) => Kept(program, u)
  <2>1. SUFFICES ASSUME Moved(u) PROVE Kept(program, u)
    OBVIOUS
  <2>2. PICK i, j \in 1 .. pc - 1 :
          i < j /\ program[i] = [op |-> "create", task |-> u] /\ program[j].op = "await"
    BY <2>1 DEF Moved
  <2>3. i \in At(program, "create", u) /\ pc \in At(program, "await", u)
    BY <1>3, <1>4, <2>2 DEF At
  <2>4. j \in i + 1 .. pc - 1
    BY <1>4, <2>2
  <2> QED
    BY <2>2, <2>3, <2>4 DEF Kept
<1> HIDE DEF u, g
<1>8. /\ Len(got) \in Nat /\ DOMAIN got = 1 .. Len(got)
      /\ Len(got') = Len(got) + 1 /\ DOMAIN got' = 1 .. Len(got) + 1
      /\ \A i \in 1 .. Len(got) : got'[i] = got[i]
      /\ got'[Len(got) + 1] = g
  <2>1. got \in Seq(G)
    BY <1>2 DEF TypeOK
  <2> HIDE DEF G
  <2> QED
    BY <1>1, <1>5, <2>1, AppendProperties
<1>9. \A i \in DOMAIN got' : (i \in DOMAIN got /\ got'[i] = got[i]) \/ got'[i] = g
  BY <1>8
<1>10. Returned'
  <2>1. \A i \in DOMAIN got' : got'[i].ret
    BY <1>5, <1>6, <1>9 DEF ReturnInv, Returned
  <2>2. \A i \in DOMAIN got' : \/ got'[i].service = ReturnTo[got'[i].task]
                               \/ /\ ReturnTo[got'[i].task] = Executer[got'[i].task]
                                  /\ Kept(program, got'[i].task)
    BY <1>5, <1>6, <1>7, <1>9 DEF ReturnInv, Returned
  <2> QED
    BY <1>1, <2>1, <2>2 DEF Returned
<1>11. InTurn'
  <2>1. Awaits' = Awaits \cup {pc} /\ pc \notin Awaits
    BY <1>1, <1>3, <1>4 DEF Awaits
  <2>2. /\ Awaits \subseteq 1 .. pc - 1 /\ IsFiniteSet(Awaits) /\ Cardinality(Awaits) \in Nat
        /\ \A i \in Awaits : Cardinality(Awaits \cap 1 .. i) \in 1 .. Cardinality(Awaits)
    BY <1>2, AwaitsFinite
  <2>3. Cardinality(Awaits') = Cardinality(Awaits) + 1
    BY <2>1, <2>2, FS_AddElement
  <2>4. Len(got) = Cardinality(Awaits)
    BY DEF ReturnInv, InTurn
  <2>5. ASSUME NEW i \in Awaits'
        PROVE  got'[Cardinality(Awaits' \cap 1 .. i)].task = program[i].task
    <3>1. CASE i = pc
      <4>1. \A k \in Awaits' : k \in 1 .. i
        BY <1>4, <2>1, <2>2, <3>1
      <4>2. Awaits' \cap 1 .. i = Awaits'
        BY <4>1
      <4> QED
        BY <1>5, <1>8, <2>3, <2>4, <3>1, <4>2 DEF u
    <3>2. CASE i # pc
      <4>1. i \in Awaits /\ i < pc
        BY <1>4, <2>1, <2>2, <3>2
      <4>2. Awaits' \cap 1 .. i = Awaits \cap 1 .. i
        BY <1>4, <2>1, <2>2, <4>1
      <4>3. Cardinality(Awaits \cap 1 .. i) \in 1 .. Len(got)
        BY <2>2, <2>4, <4>1
      <4> QED
        BY <1>8, <4>1, <4>2, <4>3 DEF ReturnInv, InTurn
    <3> QED
      BY <3>1, <3>2
  <2> QED
    BY <1>1, <1>8, <2>3, <2>4, <2>5 DEF InTurn
<1> QED
  BY <1>10, <1>11 DEF ReturnInv

(* Every co_await returns the value its task left (ret, Task.hpp), in the  *)
(* service the task's type names, once each and in the order of the        *)
(* program; l. 158 makes the exception AwaitsReturn names.                 *)
THEOREM TaskAwaitsReturn == Spec => []AwaitsReturn
<1>1. IInv /\ ReturnInv /\ [Next]_vars => ReturnInv'
  <2>1. SUFFICES ASSUME IInv, ReturnInv, [Next]_vars PROVE ReturnInv'
    OBVIOUS
  <2>2. CASE UNCHANGED <<pc, got>> /\ program' = program
    <3>1. Awaits' = Awaits
      BY <2>2 DEF Awaits
    <3> QED
      BY <2>1, <2>2, <3>1 DEF ReturnInv, Returned, InTurn, Kept, At
  <2>3. CASE /\ pc \in 1 .. Len(program) /\ program[pc].op # "await"
             /\ pc' = pc + 1 /\ got' = got /\ program' = program
    <3>1. Awaits' = Awaits
      <4>1. pc \in Nat \ {0} /\ 1 .. pc' - 1 = (1 .. pc - 1) \cup {pc}
        BY <2>1, <2>3, ProgramTypes DEF IInv, TypeOK
      <4> QED
        BY <2>3, <4>1 DEF Awaits
    <3> QED
      BY <2>1, <2>3, <3>1 DEF ReturnInv, Returned, InTurn, Kept, At
  <2>4. CASE \E th \in Thread : AwaitResume(th)
    BY <2>1, <2>4, AwaitResumeReturns
  <2> QED
    BY <2>1, <2>2, <2>3, <2>4, Grows
<1>2. ReturnInv => AwaitsReturn
  BY DEF ReturnInv, Returned, InTurn, Awaits, AwaitsReturn
<1> QED
  BY <1>1, <1>2, InitReturnInv, Invariance, PTL DEF Spec
=============================================================================
