-------------------------- MODULE SchedulerProofs --------------------------
(***************************************************************************)
(* Proofs that the Scheduler keeps its invariants, and implements module   *)
(* Iteration, for every dependency graph, every number of tasks, queues,   *)
(* workers and calls, and every set of tasks that throw.                   *)
(*                                                                         *)
(* The invariants the runs check speak of one moment each: an iteration in *)
(* progress, a returned call, a destructor.  IInv ties them together.  It  *)
(* has one part per mechanism: the records of the TaskManager, the life of *)
(* the threads and of doneq_, the termination ids and the wakeups of each  *)
(* queue, the places of the tasks in flight, the iteration IOManager sees. *)
(***************************************************************************)
EXTENDS Scheduler, FiniteSetTheorems, SequenceTheorems, TLAPS

TMP == INSTANCE TaskManagerProofs WITH Names <- Tasks, Debug <- FALSE, TestBuild <- FALSE

-----------------------------------------------------------------------------
(***************************************************************************)
(* The inductive invariant.                                                *)
(***************************************************************************)

\* The TaskManager keeps its own invariant, over exactly the registered tasks.
ManagerInv ==
  /\ TMP!IInv
  /\ Len(tasks_) = NumTasks
  /\ InIteration => finalised_
  /\ assigned_tasks_ # {} => finalised_

Busy(w) == worker[w] \in {"run", "done"}

\* Queues not yet created have no running worker; doneq_ lives until the destructor
\* begins; the main thread sleeps on an empty doneq_ only.
ThreadInv ==
  /\ \A w \in Workers : QueueOf[w] > created => worker[w] = "new"
  /\ \A w \in Workers : Busy(w) => task_id[w] # Term
  /\ doneqAlive <=> dying = 0
  /\ InIteration \/ ClientHasControl => doneqAlive
  /\ main \in {"terminate", "destroyed"} => ~doneqAlive
  /\ main = "waiting" => doneq_ = <<>>

Blocked(q) == {w \in WorkersOf(q) : worker[w] = "blocked"}
Exited(q)  == {w \in WorkersOf(q) : worker[w] = "exited"}
Awake(q)   == {w \in WorkersOf(q) : worker[w] \notin {"blocked", "exited"}}

\* Termination ids the destructor has put into queue q, and those still in it.
TermsSent(q) == IF q < dying THEN Slots(q) ELSE IF q = dying THEN terms ELSE 0
TermsLeft(q) == TermsSent(q) - Cardinality(Exited(q))

\* Each exited worker has taken one termination id; those that remain are behind
\* all tasks.  If a worker sleeps, a worker is awake for each id in the queue.
QueueInv(q) ==
  /\ TermsSent(q) \in 0..Slots(q)
  /\ TermsLeft(q) \in 0..Len(queue_[q])
  /\ \A i \in 1..Len(queue_[q]) :
       queue_[q][i] = Term <=> i > Len(queue_[q]) - TermsLeft(q)
  /\ (TermsSent(q) > 0 /\ TermsLeft(q) = 0) => queue_[q] = <<>>
  /\ Blocked(q) # {} => Len(queue_[q]) <= Cardinality(Awake(q))

\* A task is in queue q, held by worker w, or reported in doneq_.
InQueue(t, q) == t \in TMP!Elements(queue_[q])
HeldBy(t, w)  == Busy(w) /\ task_id[w] = t
InDoneq(t)    == t \in TMP!Elements(doneq_)

\* No task occurs twice in a queue; termination ids may.
DistinctTasks(s) ==
  \A i, j \in 1..Len(s) : (s[i] = s[j] /\ s[i] # Term) => i = j

\* A task is in at most one place, in one exactly when it is assigned; finished is
\* what has been completed, reported or is about to be.
TaskInv(t) ==
  /\ \A q, r \in Queues : InQueue(t, q) /\ InQueue(t, r) => q = r
  /\ \A v, w \in Workers : HeldBy(t, v) /\ HeldBy(t, w) => v = w
  /\ \A q \in Queues, w \in Workers : ~(InQueue(t, q) /\ HeldBy(t, w))
  /\ \A q \in Queues : ~(InQueue(t, q) /\ InDoneq(t))
  /\ \A w \in Workers : ~(HeldBy(t, w) /\ InDoneq(t))
  /\ t \in assigned_tasks_ <=>
       \/ \E q \in Queues : InQueue(t, q)
       \/ \E w \in Workers : HeldBy(t, w)
       \/ InDoneq(t)
  /\ t \in finished <=>
       \/ t \in completed
       \/ \E w \in Workers : worker[w] = "done" /\ task_id[w] = t
       \/ InDoneq(t)

\* The tasks in flight as long as no iteration was aborted.
FlightInv ==
  /\ \A q \in Queues : DistinctTasks(queue_[q])
  /\ TMP!Distinct(doneq_)
  /\ \A t \in Tasks : TaskInv(t)
  /\ ClientHasControl => assigned_tasks_ = {} /\ completed = {}
  /\ ~doneqAlive => assigned_tasks_ = {}

\* IOManager is told the iteration before its first task is enqueued.
IoInv ==
  /\ InIteration => ioIteration = iter_count_
  /\ ~aborted /\ assigned_tasks_ # {} => ioIteration = iter_count_

IInv ==
  /\ TypeOK
  /\ ManagerInv
  /\ ThreadInv
  /\ \A q \in Queues : QueueInv(q)
  /\ ~aborted => FlightInv
  /\ IoInv

-----------------------------------------------------------------------------
(***************************************************************************)
(* Facts about vectors and finite sets.                                    *)
(***************************************************************************)

\* push() adds one element and keeps tasks distinct if it is new.
LEMMA PushElements ==
  ASSUME NEW T, NEW s \in Seq(T), NEW x \in T
  PROVE  /\ Append(s, x) \in Seq(T)
         /\ Len(Append(s, x)) = Len(s) + 1
         /\ \A i \in 1..Len(s) : Append(s, x)[i] = s[i]
         /\ Append(s, x)[Len(s) + 1] = x
         /\ TMP!Elements(Append(s, x)) = TMP!Elements(s) \union {x}
         /\ (DistinctTasks(s) /\ (x = Term \/ x \notin TMP!Elements(s)))
              => DistinctTasks(Append(s, x))
         /\ (TMP!Distinct(s) /\ x \notin TMP!Elements(s)) => TMP!Distinct(Append(s, x))
  <1> DEFINE u == Append(s, x)
  <1>1. /\ u \in Seq(T)
        /\ Len(u) = Len(s) + 1
        /\ \A i \in 1..Len(s) : u[i] = s[i]
        /\ u[Len(s) + 1] = x
    BY AppendProperties
  <1>2. Len(s) \in Nat /\ 1..Len(u) = (1..Len(s)) \union {Len(s) + 1}
    BY <1>1
  <1>3. TMP!Elements(u) = TMP!Elements(s) \union {x}
    BY <1>1, <1>2 DEF TMP!Elements
  <1>4. (DistinctTasks(s) /\ (x = Term \/ x \notin TMP!Elements(s))) => DistinctTasks(u)
    BY <1>1, <1>2 DEF DistinctTasks, TMP!Elements
  <1>5. (TMP!Distinct(s) /\ x \notin TMP!Elements(s)) => TMP!Distinct(u)
    BY <1>1, <1>2 DEF TMP!Distinct, TMP!Elements
  <1>. QED
    BY <1>1, <1>3, <1>4, <1>5

\* front() and pop() remove the first element; a task that was there once is gone.
LEMMA TakeElements ==
  ASSUME NEW T, NEW s \in Seq(T), s # <<>>
  PROVE  /\ Tail(s) \in Seq(T)
         /\ Len(s) \in Nat \ {0}
         /\ Len(Tail(s)) = Len(s) - 1
         /\ \A i \in 1..Len(Tail(s)) : Tail(s)[i] = s[i + 1]
         /\ Head(s) = s[1] /\ Head(s) \in T /\ Head(s) \in TMP!Elements(s)
         /\ DistinctTasks(s) =>
              /\ DistinctTasks(Tail(s))
              /\ \A x : x # Term =>
                   (x \in TMP!Elements(Tail(s)) <=> x \in TMP!Elements(s) /\ x # Head(s))
  <1> DEFINE u == Tail(s)
  <1>1. /\ u \in Seq(T)
        /\ Len(s) \in Nat \ {0}
        /\ Len(u) = Len(s) - 1
        /\ \A i \in 1..Len(u) : u[i] = s[i + 1]
        /\ Head(s) = s[1] /\ Head(s) \in T
    BY HeadTailProperties, EmptySeq
  <1>2. Head(s) \in TMP!Elements(s)
    BY <1>1 DEF TMP!Elements
  <1>3. ASSUME DistinctTasks(s) PROVE DistinctTasks(u)
    <2> SUFFICES ASSUME NEW i \in 1..Len(u), NEW j \in 1..Len(u), u[i] = u[j], u[i] # Term
                 PROVE  i = j
      BY DEF DistinctTasks
    <2>1. i + 1 \in 1..Len(s) /\ j + 1 \in 1..Len(s) /\ s[i + 1] = s[j + 1] /\ s[i + 1] # Term
      BY <1>1
    <2>2. i + 1 = j + 1
      BY <1>3, <2>1 DEF DistinctTasks
    <2>. QED
      BY <1>1, <2>2
  <1>4. ASSUME DistinctTasks(s), NEW x, x # Term
        PROVE  x \in TMP!Elements(u) <=> x \in TMP!Elements(s) /\ x # Head(s)
    <2>1. ASSUME NEW i \in 1..Len(u), x = u[i]
          PROVE  x \in TMP!Elements(s) /\ x # Head(s)
      <3>1. i + 1 \in 1..Len(s) /\ x = s[i + 1] /\ i + 1 # 1 /\ 1 \in 1..Len(s)
        BY <1>1, <2>1
      <3>2. x \in TMP!Elements(s)
        BY <3>1 DEF TMP!Elements
      <3>3. x # s[1]
        BY <1>4, <3>1 DEF DistinctTasks
      <3>. QED
        BY <1>1, <3>2, <3>3
    <2>2. ASSUME NEW i \in 1..Len(s), x = s[i], x # Head(s)
          PROVE  x \in TMP!Elements(u)
      <3>1. i - 1 \in 1..Len(u) /\ u[i - 1] = s[i]
        BY <1>1, <2>2
      <3>. QED
        BY <2>2, <3>1 DEF TMP!Elements
    <2>. QED
      BY <2>1, <2>2 DEF TMP!Elements
  <1>. QED
    BY <1>1, <1>2, <1>3, <1>4

\* The elements of a vector are of its type.
LEMMA ElementsType ==
  ASSUME NEW T, NEW s \in Seq(T)
  PROVE  /\ TMP!Elements(s) \subseteq T
         /\ s = <<>> <=> TMP!Elements(s) = {}
         /\ s # <<>> => s[Len(s)] \in TMP!Elements(s) /\ s[Len(s)] \in T
  BY DEF TMP!Elements

\* The two instances of TaskManager are the same machine.
LEMMA SameManager ==
  /\ TM!IterTaskPop <=> TMP!IterTaskPop
  /\ \A t : TM!IterTaskDone(t) <=> TMP!IterTaskDone(t)
  /\ TM!IterReset <=> TMP!IterReset
  /\ TM!Finalise <=> TMP!Finalise
  /\ TM!NextReady = TMP!NextReady
  /\ TM!IterCompleted <=> TMP!IterCompleted
  /\ TM!IterTaskAvailable <=> TMP!IterTaskAvailable
  <1>1. TM!IterTaskPop <=> TMP!IterTaskPop
    BY DEF TM!IterTaskPop, TMP!IterTaskPop, TM!NextReady, TMP!NextReady, TM!graphVars,
       TMP!graphVars, TM!IterTaskAvailable, TMP!IterTaskAvailable
  <1>2. ASSUME NEW t PROVE TM!IterTaskDone(t) <=> TMP!IterTaskDone(t)
    <2>1. TM!Released(t) = TMP!Released(t)
      BY DEF TM!Released, TMP!Released
    <2>2. TM!Ascending(TMP!Released(t)) = TMP!Ascending(TMP!Released(t))
      BY DEF TM!Ascending, TMP!Ascending, TM!Cardinality, TMP!Cardinality, TM!IsFiniteSet, TMP!IsFiniteSet
    <2>. QED
      BY <2>1, <2>2 DEF TM!IterTaskDone, TMP!IterTaskDone, TM!graphVars, TMP!graphVars
  <1>3. TM!ResetIteration <=> TMP!ResetIteration
    <2>1. TM!Ascending(roots_) = TMP!Ascending(roots_)
      BY DEF TM!Ascending, TMP!Ascending, TM!Cardinality, TMP!Cardinality, TM!IsFiniteSet, TMP!IsFiniteSet
    <2>. QED
      BY <2>1 DEF TM!ResetIteration, TMP!ResetIteration, TM!TaskId, TMP!TaskId
  <1>4. (TM!IterReset <=> TMP!IterReset) /\ (TM!Finalise <=> TMP!Finalise)
    BY <1>3 DEF TM!IterReset, TMP!IterReset, TM!Finalise, TMP!Finalise, TM!graphVars,
       TMP!graphVars
  <1>. QED
    BY <1>1, <1>2, <1>4 DEF TM!NextReady, TMP!NextReady, TM!IterTaskAvailable,
       TMP!IterTaskAvailable, TM!IterCompleted, TMP!IterCompleted

-----------------------------------------------------------------------------
(***************************************************************************)
(* The TaskManager inside the Scheduler.                                   *)
(***************************************************************************)

\* Task ids are the numbers of the registered tasks.
LEMMA TaskIdIsTasks ==
  ASSUME Len(tasks_) = NumTasks
  PROVE  TMP!TaskId = Tasks
  BY DEF TMP!TaskId, Tasks

\* The TaskManager handed to the Scheduler satisfies its invariant.
LEMMA InitManager == Init => ManagerInv
  <1> SUFFICES ASSUME Init PROVE ManagerInv
    OBVIOUS
  <1> USE DEF Init
  <1>1. NumTasks \in Nat /\ parents_ \in [Tasks -> SUBSET Tasks]
    BY ConstantsAssumption
  <1>2. tasks_ \in [1..NumTasks -> Tasks]
    BY DEF Tasks
  <1>3. tasks_ \in Seq(Tasks) /\ Len(tasks_) = NumTasks
    BY <1>1, <1>2
  <1>4. TMP!TaskId = Tasks
    BY <1>3, TaskIdIsTasks
  <1>5. TMP!TypeOK
    <2>1. \A T : <<>> \in Seq(T)
      OBVIOUS
    <2>. QED
      BY <1>1, <1>3, <1>4, <2>1 DEF TMP!TypeOK
  <1>6. TMP!GraphConsistent
    BY <1>1, <1>4 DEF TMP!GraphConsistent
  <1>7. TMP!IInv
    BY <1>5, <1>6 DEF TMP!IInv, TMP!IterationPartition, TMP!PendingDepsExact,
       TMP!DependenciesMet, TMP!PendingExact
  <1>. QED
    BY <1>3, <1>7 DEF ManagerInv, InIteration

\* While the graph and the iteration data stand still, so does the invariant.
LEMMA ManagerStutter ==
  ASSUME TMP!IInv, UNCHANGED tmVars
  PROVE  TMP!IInv'
  BY DEF tmVars, TMP!IInv, TMP!TypeOK, TMP!TaskId, TMP!GraphConsistent,
     TMP!IterationPartition, TMP!PendingDepsExact, TMP!DependenciesMet, TMP!PendingExact

\* Every step of the Scheduler uses the TaskManager within its contract.
LEMMA NextManager == IInv /\ [Next]_vars => ManagerInv'
  <1> SUFFICES ASSUME IInv, [Next]_vars PROVE ManagerInv'
    OBVIOUS
  <1>1. /\ TMP!IInv /\ Len(tasks_) = NumTasks /\ doneq_ \in Seq(Tasks)
        /\ InIteration => finalised_
        /\ assigned_tasks_ # {} => finalised_
    BY DEF IInv, ManagerInv, TypeOK
  <1>2. CASE TM!Finalise \/ TM!IterReset
    <2>1. TMP!Finalise \/ TMP!IterReset
      BY <1>2, SameManager
    <2>2. TMP!IInv'
      <3>1. finalised_ \in BOOLEAN
        BY <1>1 DEF TMP!IInv, TMP!TypeOK
      <3>2. TMP!ResetIteration /\ finalised_' = TRUE /\ UNCHANGED TMP!graphVars
        BY <2>1, <3>1 DEF TMP!Finalise, TMP!IterReset
      <3>. QED
        BY <1>1, <3>2, TMP!ResetIterationIInv
    <2>. QED
      BY <1>1, <2>1, <2>2 DEF ManagerInv, TMP!Finalise, TMP!IterReset, TMP!graphVars
  <1>3. CASE TM!IterTaskPop
    <2>1. TMP!IterTaskPop
      BY <1>3, SameManager
    <2>2. TMP!IInv'
      BY <1>1, <2>1, TMP!PopIInv
    <2>. QED
      BY <1>1, <2>1, <2>2 DEF ManagerInv, TMP!IterTaskPop, TMP!graphVars
  <1>4. CASE DrainOne
    <2>1. doneq_[Len(doneq_)] \in Tasks
      BY <1>1, <1>4, ElementsType DEF DrainOne
    <2>2. doneq_[Len(doneq_)] \in TMP!TaskId
      BY <1>1, <2>1, TaskIdIsTasks
    <2>3. TMP!IterTaskDone(doneq_[Len(doneq_)])
      BY <1>4, SameManager DEF DrainOne
    <2>4. TMP!IInv'
      BY <1>1, <2>2, <2>3, TMP!DoneIInv
    <2>. QED
      BY <1>1, <2>3, <2>4 DEF ManagerInv, TMP!IterTaskDone, TMP!graphVars
  <1>5. ASSUME UNCHANGED tmVars, InIteration' => InIteration
        PROVE  ManagerInv'
    BY <1>1, <1>5, ManagerStutter DEF ManagerInv, tmVars
  <1>6. \/ TM!Finalise \/ TM!IterReset \/ TM!IterTaskPop \/ DrainOne
        \/ UNCHANGED tmVars /\ (InIteration' => InIteration)
    BY DEF Next, vars, Configure, MainStep, WorkerStep, Ended, CreateQueue, AssignType,
       RunIteration, Destroy, EnqueueTask, EnqueueTaskThrows, AwaitDone, Woken, DrainThrows,
       ScheduleMore, IterationReturns, EnqueueTerm, Join, Destroyed, MainSpuriousWakeup,
       GetNextTaskWaits, GetNextTask, RunTask, TaskDone, TaskDoneTooLate, SpuriousWakeup,
       RunTaskThrows, InIteration
  <1>. QED
    BY <1>2, <1>3, <1>4, <1>5, <1>6

\* The task IterTaskPop() hands out is a registered one, neither assigned nor
\* completed, and all it depends on is completed.
LEMMA PoppedTask ==
  ASSUME IInv, TM!IterTaskPop
  PROVE  /\ TM!NextReady \in Tasks
         /\ TM!NextReady \notin assigned_tasks_ /\ TM!NextReady \notin completed
         /\ parents_[TM!NextReady] \subseteq completed
         /\ assigned_tasks_' = assigned_tasks_ \union {TM!NextReady}
         /\ completed' = completed
  <1>1. TMP!IInv /\ TMP!TaskId = Tasks
    BY TaskIdIsTasks DEF IInv, ManagerInv
  <1>2. TMP!IterTaskPop /\ TM!NextReady = TMP!NextReady
    BY SameManager
  <1>3. ready_tasks_ \in Seq(Tasks) /\ ready_tasks_ # <<>> /\ finalised_
    BY <1>1, <1>2 DEF TMP!IInv, TMP!TypeOK, TMP!IterTaskPop, TMP!IterTaskAvailable
  <1>4. TMP!NextReady \in TMP!Elements(ready_tasks_) /\ TMP!NextReady \in Tasks
    BY <1>3, ElementsType DEF TMP!NextReady
  <1>5. TMP!NextReady \notin assigned_tasks_ /\ TMP!NextReady \notin completed
    BY <1>1, <1>3, <1>4 DEF TMP!IInv, TMP!IterationPartition
  <1>6. parents_[TMP!NextReady] \subseteq completed
    BY <1>1, <1>3, <1>4 DEF TMP!IInv, TMP!DependenciesMet
  <1>. QED
    BY <1>2, <1>4, <1>5, <1>6 DEF TMP!IterTaskPop

-----------------------------------------------------------------------------
(***************************************************************************)
(* Types, threads and the iteration number.                                *)
(***************************************************************************)

\* Enqueue() appends to one queue and wakes at most one of its blocked workers.
LEMMA EnqueueEffect ==
  ASSUME TypeOK, NEW q \in Queues, NEW id \in Tasks \union {Term}, Enqueue(q, id)
  PROVE  /\ queue_' = [queue_ EXCEPT ![q] = Append(queue_[q], id)]
         /\ queue_' \in [Queues -> Seq(Tasks \union {Term})]
         /\ task_id' = task_id
         /\ \/ Blocked(q) = {} /\ worker' = worker
            \/ \E w \in Blocked(q) : worker' = [worker EXCEPT ![w] = "get"]
         /\ worker' \in [Workers -> {"new", "get", "blocked", "run", "done", "exited"}]
  <1>1. queue_[q] \in Seq(Tasks \union {Term})
    BY DEF TypeOK
  <1>2. Append(queue_[q], id) \in Seq(Tasks \union {Term})
    BY <1>1, PushElements
  <1>3. queue_' \in [Queues -> Seq(Tasks \union {Term})]
    BY <1>2 DEF TypeOK, Enqueue
  <1>4. \/ Blocked(q) = {} /\ worker' = worker
        \/ \E w \in Blocked(q) : worker' = [worker EXCEPT ![w] = "get"]
    BY DEF Enqueue, NotifyOne, Blocked
  <1>. QED
    BY <1>3, <1>4 DEF Enqueue, TypeOK, Blocked, WorkersOf

\* Every variable has its type initially.
LEMMA InitTypes == Init => TypeOK
  <1> SUFFICES ASSUME Init PROVE TypeOK
    OBVIOUS
  <1>1. \A T : <<>> \in Seq(T)
    OBVIOUS
  <1>2. created \in 0..NumQueues /\ dying \in 0..NumQueues + 1 /\ calls \in 0..MaxCalls
    BY ConstantsAssumption DEF Init
  <1>3. doneqAlive \in BOOLEAN /\ aborted \in BOOLEAN
    BY DEF Init
  <1>. QED
    BY <1>1, <1>2, <1>3 DEF Init, TypeOK, Term, None

\* Every step keeps the types.
LEMMA NextTypes == IInv /\ [Next]_vars => TypeOK'
  <1> SUFFICES ASSUME IInv, [Next]_vars PROVE TypeOK'
    OBVIOUS
  <1>1. TypeOK
    BY DEF IInv
  <1> USE DEF confVars, ioVars, doneVars, dtorVars, workVars, histVars
  <1>2. CASE CreateQueue
    BY <1>1, <1>2, ConstantsAssumption DEF CreateQueue, TypeOK
  <1>3. ASSUME NEW q \in Queues, NEW y \in Types, AssignType(q, y) PROVE TypeOK'
    BY <1>1, <1>3 DEF AssignType, TypeOK
  <1>4. CASE RunIteration
    BY <1>1, <1>4, ConstantsAssumption DEF RunIteration, TypeOK
  <1>5. CASE Destroy
    <2>1. doneqAlive' \in BOOLEAN
      BY <1>5 DEF Destroy
    <2>2. dying' \in 0..NumQueues + 1
      BY <1>5, ConstantsAssumption DEF Destroy
    <2>. QED
      BY <1>1, <1>5, <2>1, <2>2 DEF Destroy, TypeOK
  <1>6. CASE EnqueueTask
    <2>1. TM!NextReady \in Tasks \union {Term}
      BY <1>6, PoppedTask DEF EnqueueTask
    <2>2. route_[TypeOf[TM!NextReady]] \in Queues
      BY <1>1, <1>6, PoppedTask, ConstantsAssumption DEF EnqueueTask, TypeOK
    <2>3. Enqueue(route_[TypeOf[TM!NextReady]], TM!NextReady)
      BY <1>6 DEF EnqueueTask
    <2>4. /\ queue_' \in [Queues -> Seq(Tasks \union {Term})]
          /\ worker' \in [Workers -> {"new", "get", "blocked", "run", "done", "exited"}]
          /\ task_id' = task_id
      BY <1>1, <2>1, <2>2, <2>3, EnqueueEffect
    <2>. QED
      BY <1>1, <1>6, <2>4 DEF EnqueueTask, TypeOK
  <1>7. CASE EnqueueTaskThrows \/ AwaitDone \/ Woken \/ DrainThrows \/ ScheduleMore
             \/ MainSpuriousWakeup \/ Destroyed
    BY <1>1, <1>7 DEF EnqueueTaskThrows, AwaitDone, Woken, DrainThrows, ScheduleMore,
       MainSpuriousWakeup, Destroyed, TypeOK
  <1>8. CASE DrainOne
    <2>1. doneq_' \in Seq(Tasks)
      BY <1>1, <1>8 DEF DrainOne, TypeOK
    <2>. QED
      BY <1>1, <1>8, <2>1 DEF DrainOne, TypeOK
  <1>9. CASE IterationReturns
    BY <1>1, <1>9 DEF IterationReturns, TypeOK
  <1>10. CASE EnqueueTerm
    <2>1. dying \in Queues
      BY <1>1, <1>10, ConstantsAssumption
         DEF EnqueueTerm, TypeOK, IInv, ThreadInv, Queues
    <2>2. /\ queue_' \in [Queues -> Seq(Tasks \union {Term})]
          /\ worker' \in [Workers -> {"new", "get", "blocked", "run", "done", "exited"}]
          /\ task_id' = task_id
      BY <1>1, <1>10, <2>1, EnqueueEffect DEF EnqueueTerm
    <2>. QED
      BY <1>1, <1>10, <2>2 DEF EnqueueTerm, TypeOK
  <1>11. CASE Join
    BY <1>1, <1>11, ConstantsAssumption DEF Join, TypeOK
  <1>12. ASSUME NEW w \in Workers, GetNextTask(w) PROVE TypeOK'
    <2>1. QueueOf[w] \in Queues /\ queue_[QueueOf[w]] \in Seq(Tasks \union {Term})
      BY <1>1, ConstantsAssumption DEF TypeOK
    <2>2. /\ Tail(queue_[QueueOf[w]]) \in Seq(Tasks \union {Term})
          /\ Head(queue_[QueueOf[w]]) \in Tasks \union {Term}
      BY <1>12, <2>1, TakeElements DEF GetNextTask
    <2>. QED
      BY <1>1, <1>12, <2>1, <2>2 DEF GetNextTask, TypeOK
  <1>13. ASSUME NEW w \in Workers,
                GetNextTaskWaits(w) \/ SpuriousWakeup(w) \/ RunTaskThrows(w)
                  \/ TaskDoneTooLate(w)
         PROVE  TypeOK'
    BY <1>1, <1>13 DEF GetNextTaskWaits, SpuriousWakeup, RunTaskThrows, TaskDoneTooLate, TypeOK
  <1>14. ASSUME NEW w \in Workers, RunTask(w) PROVE TypeOK'
    <2>1. task_id[w] \in Tasks
      BY <1>1, <1>14 DEF RunTask, IInv, ThreadInv, Busy, TypeOK
    <2>. QED
      BY <1>1, <1>14, <2>1 DEF RunTask, TypeOK
  <1>15. ASSUME NEW w \in Workers, TaskDone(w) PROVE TypeOK'
    <2>1. task_id[w] \in Tasks
      BY <1>1, <1>15 DEF TaskDone, IInv, ThreadInv, Busy, TypeOK
    <2>2. doneq_' \in Seq(Tasks)
      BY <1>1, <1>15, <2>1 DEF TaskDone, TypeOK
    <2>. QED
      BY <1>1, <1>15, <2>2 DEF TaskDone, TypeOK
  <1>16. CASE UNCHANGED vars
    BY <1>1, <1>16 DEF vars, TypeOK
  <1>. QED
    BY <1>2, <1>3, <1>4, <1>5, <1>6, <1>7, <1>8, <1>9, <1>10, <1>11, <1>12, <1>13, <1>14,
       <1>15, <1>16 DEF Next, Configure, MainStep, WorkerStep, Ended

\* Threads and doneq_ start in order.
LEMMA InitThreads == Init => ThreadInv /\ IoInv
  BY DEF Init, ThreadInv, IoInv, InIteration, ClientHasControl, Busy

\* A worker that holds a task holds no termination id; doneq_ outlives every
\* iteration; a worker that reports wakes the main thread.
LEMMA NextThreads == IInv /\ [Next]_vars => ThreadInv'
  <1> SUFFICES ASSUME IInv, [Next]_vars PROVE ThreadInv'
    OBVIOUS
  <1>1. TypeOK /\ ThreadInv
    BY DEF IInv
  <1> USE DEF confVars, ioVars, doneVars, dtorVars, workVars, histVars, InIteration,
              ClientHasControl
  <1>2. CASE CreateQueue
    <2>1. \A w \in Workers : QueueOf[w] \in Nat
      BY ConstantsAssumption DEF Queues
    <2>. QED
      BY <1>1, <1>2, <2>1 DEF CreateQueue, ThreadInv, TypeOK, Busy
  <1>3. ASSUME NEW q \in Queues, NEW y \in Types, AssignType(q, y) PROVE ThreadInv'
    BY <1>1, <1>3 DEF AssignType, ThreadInv, Busy
  <1>4. CASE RunIteration
    BY <1>1, <1>4 DEF RunIteration, ThreadInv, Busy
  <1>5. CASE Destroy
    BY <1>1, <1>5 DEF Destroy, ThreadInv, Busy
  <1>6. ASSUME NEW q \in Queues, NEW id \in Tasks \union {Term}, Enqueue(q, id),
               UNCHANGED <<main, created, doneVars, dying>>
        PROVE  ThreadInv'
    <2>1. task_id' = task_id
      BY <1>6 DEF Enqueue
    <2>2. \A w \in Workers : worker'[w] = worker[w] \/ (worker[w] = "blocked" /\ worker'[w] = "get")
      BY <1>1, <1>6, <2>1, EnqueueEffect DEF Blocked, TypeOK
    <2>. QED
      BY <1>1, <1>6, <2>1, <2>2 DEF ThreadInv, Busy
  <1>7. CASE EnqueueTask
    <2>1. TM!NextReady \in Tasks \union {Term} /\ route_[TypeOf[TM!NextReady]] \in Queues
      BY <1>1, <1>7, PoppedTask, ConstantsAssumption DEF EnqueueTask, TypeOK
    <2>. QED
      BY <1>6, <1>7, <2>1 DEF EnqueueTask
  <1>8. CASE EnqueueTerm
    <2>1. dying \in Queues
      BY <1>1, <1>8, ConstantsAssumption DEF EnqueueTerm, TypeOK, ThreadInv, Queues
    <2>. QED
      BY <1>6, <1>8, <2>1 DEF EnqueueTerm
  <1>9. CASE EnqueueTaskThrows \/ AwaitDone \/ Woken \/ DrainThrows \/ ScheduleMore
             \/ MainSpuriousWakeup \/ Destroyed \/ DrainOne \/ IterationReturns
    BY <1>1, <1>9 DEF EnqueueTaskThrows, AwaitDone, Woken, DrainThrows, ScheduleMore,
       MainSpuriousWakeup, Destroyed, DrainOne, IterationReturns, ThreadInv, Busy
  <1>10. CASE Join
    BY <1>1, <1>10 DEF Join, ThreadInv, Busy, TypeOK
  <1>11. ASSUME NEW w \in Workers, GetNextTask(w) PROVE ThreadInv'
    BY <1>1, <1>11 DEF GetNextTask, ThreadInv, Busy, TypeOK
  <1>12. ASSUME NEW w \in Workers,
                GetNextTaskWaits(w) \/ SpuriousWakeup(w) \/ RunTaskThrows(w)
                  \/ TaskDoneTooLate(w) \/ RunTask(w) \/ TaskDone(w)
         PROVE  ThreadInv'
    BY <1>1, <1>12 DEF GetNextTaskWaits, SpuriousWakeup, RunTaskThrows, TaskDoneTooLate,
       RunTask, TaskDone, ThreadInv, Busy, TypeOK
  <1>13. CASE UNCHANGED vars
    BY <1>1, <1>13 DEF vars, ThreadInv, Busy
  <1>. QED
    BY <1>2, <1>3, <1>4, <1>5, <1>7, <1>8, <1>9, <1>10, <1>11, <1>12, <1>13
       DEF Next, Configure, MainStep, WorkerStep, Ended

\* The number of the iteration changes only when no task is assigned.
LEMMA NextIo == IInv /\ [Next]_vars => IoInv'
  <1> SUFFICES ASSUME IInv, [Next]_vars PROVE IoInv'
    OBVIOUS
  <1>1. IoInv
    BY DEF IInv
  <1> USE DEF confVars, ioVars, doneVars, dtorVars, workVars, histVars, InIteration,
              ClientHasControl
  <1>2. CASE RunIteration
    BY <1>2 DEF RunIteration, IoInv, TM!Finalise, TM!ResetIteration
  <1>3. CASE IterationReturns
    BY <1>3 DEF IterationReturns, IoInv, TM!IterReset, TM!ResetIteration
  <1>4. CASE EnqueueTask \/ EnqueueTaskThrows
    BY <1>1, <1>4 DEF EnqueueTask, EnqueueTaskThrows, IoInv
  <1>5. CASE DrainOne
    BY <1>1, <1>5 DEF DrainOne, IoInv
  <1>6. ASSUME UNCHANGED <<tmVars, ioVars, aborted>>, InIteration' => InIteration
        PROVE  IoInv'
    BY <1>1, <1>6 DEF IoInv, tmVars
  <1>7. \/ RunIteration \/ IterationReturns \/ EnqueueTask \/ EnqueueTaskThrows \/ DrainOne
        \/ UNCHANGED <<tmVars, ioVars, aborted>> /\ (InIteration' => InIteration)
    BY DEF Next, vars, Configure, MainStep, WorkerStep, Ended, CreateQueue, AssignType,
       Destroy, AwaitDone, Woken, DrainThrows, ScheduleMore, EnqueueTerm, Join, Destroyed,
       MainSpuriousWakeup, GetNextTaskWaits, GetNextTask, RunTask, TaskDone, TaskDoneTooLate,
       SpuriousWakeup, RunTaskThrows
  <1>. QED
    BY <1>2, <1>3, <1>4, <1>5, <1>6, <1>7

-----------------------------------------------------------------------------
(***************************************************************************)
(* Termination ids and wakeups of one queue.                               *)
(***************************************************************************)

\* A queue has finitely many workers, and at least one.
LEMMA WorkerSets ==
  ASSUME NEW q \in Queues
  PROVE  /\ Slots(q) \in Nat \ {0}
         /\ IsFiniteSet(WorkersOf(q))
         /\ \A S \in SUBSET WorkersOf(q) :
              /\ IsFiniteSet(S)
              /\ Cardinality(S) \in 0..Slots(q)
              /\ Cardinality(S) = Slots(q) => S = WorkersOf(q)
              /\ Cardinality(S) = 0 <=> S = {}
  <1>1. IsFiniteSet(WorkersOf(q))
    BY ConstantsAssumption, FS_Subset DEF WorkersOf
  <1>2. WorkersOf(q) # {}
    BY ConstantsAssumption DEF WorkersOf
  <1>3. Slots(q) \in Nat \ {0}
    BY <1>1, <1>2, FS_CardinalityType, FS_EmptySet DEF Slots
  <1>4. ASSUME NEW S \in SUBSET WorkersOf(q)
        PROVE  /\ IsFiniteSet(S)
               /\ Cardinality(S) \in 0..Slots(q)
               /\ Cardinality(S) = Slots(q) => S = WorkersOf(q)
               /\ Cardinality(S) = 0 <=> S = {}
    <2>1. /\ IsFiniteSet(S)
          /\ Cardinality(S) <= Slots(q)
          /\ Slots(q) = Cardinality(S) => WorkersOf(q) = S
      BY <1>1, FS_Subset DEF Slots
    <2>2. Cardinality(S) \in Nat
      BY <2>1, FS_CardinalityType
    <2>3. Cardinality(S) = 0 <=> S = {}
      BY <2>1, FS_EmptySet
    <2>. QED
      BY <1>3, <2>1, <2>2, <2>3
  <1>. QED
    BY <1>1, <1>3, <1>4

\* The workers of a queue are blocked, exited or awake.
LEMMA WorkerKinds ==
  ASSUME NEW q \in Queues
  PROVE  /\ Blocked(q) \in SUBSET WorkersOf(q)
         /\ Exited(q) \in SUBSET WorkersOf(q)
         /\ Awake(q) \in SUBSET WorkersOf(q)
         /\ Blocked(q) = WorkersOf(q) \ (Exited(q) \union Awake(q))
  BY DEF Blocked, Exited, Awake

\* Workers that go from one waking state to another, or wake, disturb nothing.
LEMMA QueueUndisturbed ==
  ASSUME NEW q \in Queues, QueueInv(q), queue_'[q] = queue_[q],
         queue_[q] \in Seq(Tasks \union {Term}),
         TermsSent(q)' = TermsSent(q), Exited(q)' = Exited(q), Awake(q) \subseteq Awake(q)'
  PROVE  QueueInv(q)'
  <1>1. TermsLeft(q)' = TermsLeft(q)
    BY DEF TermsLeft
  <1>2. Awake(q)' \in SUBSET WorkersOf(q) /\ Blocked(q)' \subseteq Blocked(q)
    BY DEF Blocked, Awake, Exited, WorkersOf
  <1>3. /\ Cardinality(Awake(q)') \in Nat /\ Cardinality(Awake(q)) \in Nat
        /\ Cardinality(Awake(q)) <= Cardinality(Awake(q)')
    <2>1. IsFiniteSet(Awake(q)')
      BY <1>2, WorkerSets
    <2>2. IsFiniteSet(Awake(q)) /\ Cardinality(Awake(q)) <= Cardinality(Awake(q)')
      BY <2>1, FS_Subset
    <2>. QED
      BY <2>1, <2>2, FS_CardinalityType
  <1>4. Len(queue_[q]) \in Nat
    OBVIOUS
  <1>. QED
    BY <1>1, <1>2, <1>3, <1>4 DEF QueueInv

\* Enqueue() of a task before the destructor, or of one more termination id.
LEMMA QueuePush ==
  ASSUME NEW q \in Queues, NEW id \in Tasks \union {Term}, TypeOK, QueueInv(q), Enqueue(q, id),
         \/ id # Term /\ TermsSent(q) = 0 /\ TermsSent(q)' = 0
         \/ id = Term /\ TermsSent(q) < Slots(q) /\ TermsSent(q)' = TermsSent(q) + 1
  PROVE  QueueInv(q)'
  <1> DEFINE s == queue_[q]
             u == queue_'[q]
  <1>1. s \in Seq(Tasks \union {Term}) /\ u = Append(s, id) /\ Len(s) \in Nat
    BY DEF TypeOK, Enqueue
  <1>2. /\ Len(u) = Len(s) + 1
        /\ \A i \in 1..Len(s) : u[i] = s[i]
        /\ u[Len(s) + 1] = id
    BY <1>1, PushElements
  <1>3. Exited(q)' = Exited(q)
    BY EnqueueEffect DEF Exited, Blocked, WorkersOf, TypeOK
  <1>4. Cardinality(Exited(q)) \in Nat /\ Slots(q) \in Nat /\ TermsSent(q) \in Nat
    BY WorkerKinds, WorkerSets DEF QueueInv
  <1>5. /\ id # Term => TermsLeft(q) = 0 /\ TermsLeft(q)' = 0
        /\ id = Term => TermsLeft(q)' = TermsLeft(q) + 1
    BY <1>3, <1>4 DEF TermsLeft, QueueInv
  <1>6. TermsSent(q)' \in 0..Slots(q) /\ TermsLeft(q)' \in 0..Len(u)
    BY <1>1, <1>2, <1>4, <1>5 DEF QueueInv
  <1>7. \A i \in 1..Len(u) : u[i] = Term <=> i > Len(u) - TermsLeft(q)'
    <2> SUFFICES ASSUME NEW i \in 1..Len(u)
                 PROVE  u[i] = Term <=> i > Len(u) - TermsLeft(q)'
      OBVIOUS
    <2>1. TermsLeft(q) \in 0..Len(s)
      BY DEF QueueInv
    <2>2. CASE i = Len(s) + 1
      BY <1>1, <1>2, <1>5, <2>1, <2>2
    <2>3. CASE i \in 1..Len(s)
      <3>1. u[i] = Term <=> i > Len(s) - TermsLeft(q)
        BY <1>2, <2>3 DEF QueueInv
      <3>. QED
        BY <1>1, <1>2, <1>5, <2>1, <2>3, <3>1
    <2>. QED
      BY <1>1, <1>2, <2>2, <2>3
  <1>8. (TermsSent(q)' > 0 /\ TermsLeft(q)' = 0) => u = <<>>
    BY <1>5 DEF QueueInv
  <1>9. Blocked(q)' # {} => Len(u) <= Cardinality(Awake(q)')
    <2>1. CASE Blocked(q) = {} /\ worker' = worker
      BY <2>1 DEF Blocked
    <2>2. ASSUME NEW w \in Blocked(q), worker' = [worker EXCEPT ![w] = "get"]
          PROVE  Len(u) <= Cardinality(Awake(q)')
      <3>1. Awake(q)' = Awake(q) \union {w} /\ w \notin Awake(q)
        BY <2>2 DEF Awake, Blocked, WorkersOf, TypeOK
      <3>2. IsFiniteSet(Awake(q)) /\ Cardinality(Awake(q)) \in Nat
        BY WorkerKinds, WorkerSets
      <3>3. Cardinality(Awake(q)') = Cardinality(Awake(q)) + 1
        BY <3>1, <3>2, FS_AddElement
      <3>4. Len(s) <= Cardinality(Awake(q))
        BY <2>2 DEF QueueInv
      <3>. QED
        BY <1>1, <1>2, <3>2, <3>3, <3>4
    <2>. QED
      BY <2>1, <2>2, EnqueueEffect
  <1>. QED
    BY <1>6, <1>7, <1>8, <1>9 DEF QueueInv

\* GetNextTask() takes a task, or the worker leaves with a termination id.
LEMMA QueueTake ==
  ASSUME NEW w \in Workers, NEW q \in Queues, q = QueueOf[w], TypeOK, QueueInv(q), GetNextTask(w)
  PROVE  QueueInv(q)'
  <1> DEFINE s == queue_[q]
             u == queue_'[q]
  <1>1. s \in Seq(Tasks \union {Term}) /\ s # <<>> /\ u = Tail(s)
    BY DEF TypeOK, GetNextTask
  <1>2. /\ u \in Seq(Tasks \union {Term})
        /\ Len(s) \in Nat \ {0}
        /\ Len(u) = Len(s) - 1
        /\ \A i \in 1..Len(u) : u[i] = s[i + 1]
        /\ Head(s) = s[1]
    BY <1>1, TakeElements
  <1>3. /\ Cardinality(Exited(q)) \in Nat /\ IsFiniteSet(Exited(q))
        /\ Cardinality(Awake(q)) \in Nat /\ IsFiniteSet(Awake(q)) /\ Slots(q) \in Nat
    BY WorkerKinds, WorkerSets
  <1>4. TermsSent(q)' = TermsSent(q) /\ TermsSent(q) \in 0..Slots(q)
    BY DEF GetNextTask, TermsSent, dtorVars, QueueInv
  <1>5. w \in Awake(q) /\ w \notin Exited(q)
    BY DEF Awake, Exited, WorkersOf, GetNextTask
  <1>6. Blocked(q)' = Blocked(q)
    BY DEF Blocked, WorkersOf, GetNextTask, TypeOK
  <1>7. CASE Head(s) = Term
    <2>1. worker' = [worker EXCEPT ![w] = "exited"]
      BY <1>7 DEF GetNextTask
    <2>2. Exited(q)' = Exited(q) \union {w} /\ Awake(q)' = Awake(q) \ {w}
      BY <1>5, <2>1 DEF Exited, Awake, WorkersOf, TypeOK
    <2>3. Cardinality(Exited(q)') = Cardinality(Exited(q)) + 1
      BY <1>3, <1>5, <2>2, FS_AddElement
    <2>4. Cardinality(Awake(q)') = Cardinality(Awake(q)) - 1
      BY <1>3, <1>5, <2>2, FS_RemoveElement
    <2>5. TermsLeft(q)' = TermsLeft(q) - 1 /\ TermsLeft(q) \in 0..Len(s)
      BY <1>3, <1>4, <2>3 DEF TermsLeft, QueueInv
    <2>6. TermsLeft(q) = Len(s)
      <3>1. 1 > Len(s) - TermsLeft(q)
        BY <1>2, <1>7 DEF QueueInv
      <3>. QED
        BY <1>2, <2>5, <3>1
    <2>7. TermsLeft(q)' = Len(u)
      BY <1>2, <2>5, <2>6
    <2>8. \A i \in 1..Len(u) : u[i] = Term <=> i > Len(u) - TermsLeft(q)'
      <3> SUFFICES ASSUME NEW i \in 1..Len(u) PROVE u[i] = Term /\ i > Len(u) - Len(u)
        BY <2>7
      <3>1. s[i + 1] = Term
        BY <1>2, <2>6 DEF QueueInv
      <3>. QED
        BY <1>2, <3>1
    <2>9. TermsLeft(q)' = 0 => u = <<>>
      BY <1>2, <2>7
    <2>10. Blocked(q)' # {} => Len(u) <= Cardinality(Awake(q)')
      BY <1>2, <1>3, <1>6, <2>4 DEF QueueInv
    <2>11. TermsLeft(q)' \in 0..Len(u)
      BY <1>2, <2>7
    <2>. QED
      BY <1>4, <2>8, <2>9, <2>10, <2>11 DEF QueueInv
  <1>8. CASE Head(s) # Term
    <2>1. worker' = [worker EXCEPT ![w] = "run"]
      BY <1>8 DEF GetNextTask
    <2>2. Exited(q)' = Exited(q) /\ Awake(q)' = Awake(q)
      BY <1>5, <2>1 DEF Exited, Awake, WorkersOf, TypeOK
    <2>3. TermsLeft(q)' = TermsLeft(q) /\ TermsLeft(q) \in 0..Len(s)
      BY <1>4, <2>2 DEF TermsLeft, QueueInv
    <2>4. TermsLeft(q) < Len(s)
      <3>1. ~(1 > Len(s) - TermsLeft(q))
        BY <1>2, <1>8 DEF QueueInv
      <3>. QED
        BY <1>2, <2>3, <3>1
    <2>5. \A i \in 1..Len(u) : u[i] = Term <=> i > Len(u) - TermsLeft(q)'
      <3> SUFFICES ASSUME NEW i \in 1..Len(u)
                   PROVE  u[i] = Term <=> i > Len(u) - TermsLeft(q)
        BY <2>3
      <3>1. i + 1 \in 1..Len(s) /\ u[i] = s[i + 1]
        BY <1>2
      <3>2. s[i + 1] = Term <=> i + 1 > Len(s) - TermsLeft(q)
        BY <3>1 DEF QueueInv
      <3>. QED
        BY <1>2, <2>3, <3>1, <3>2
    <2>6. ~(TermsSent(q)' > 0 /\ TermsLeft(q)' = 0)
      BY <1>1, <1>4, <2>3 DEF QueueInv
    <2>7. Blocked(q)' # {} => Len(u) <= Cardinality(Awake(q)')
      BY <1>2, <1>3, <1>6, <2>2 DEF QueueInv
    <2>8. TermsLeft(q)' \in 0..Len(u)
      BY <1>2, <2>3, <2>4
    <2>. QED
      BY <1>4, <2>5, <2>6, <2>7, <2>8 DEF QueueInv
  <1>. QED
    BY <1>7, <1>8

\* Queues start empty, without exited workers.
LEMMA InitQueues == Init => \A q \in Queues : QueueInv(q)
  <1> SUFFICES ASSUME Init, NEW q \in Queues PROVE QueueInv(q)
    OBVIOUS
  <1>1. Exited(q) = {} /\ Blocked(q) = {}
    BY DEF Init, Exited, Blocked, WorkersOf
  <1>2. TermsSent(q) = 0
    BY ConstantsAssumption DEF Init, TermsSent, Queues
  <1>3. queue_[q] = <<>> /\ TermsLeft(q) = 0 /\ Slots(q) \in Nat
    BY <1>1, <1>2, FS_EmptySet, WorkerSets DEF Init, TermsLeft
  <1>. QED
    BY <1>1, <1>2, <1>3 DEF QueueInv

\* Before the destructor no termination id has been sent.
LEMMA NoTermsSent ==
  ASSUME TypeOK, dying = 0
  PROVE  \A q \in Queues : TermsSent(q) = 0
  BY ConstantsAssumption DEF TermsSent, Queues

\* Every step keeps the accounts of every queue.
LEMMA NextQueues == IInv /\ [Next]_vars => \A q \in Queues : QueueInv(q)'
  <1> SUFFICES ASSUME IInv, [Next]_vars, NEW q \in Queues PROVE QueueInv(q)'
    OBVIOUS
  <1>1. TypeOK /\ ThreadInv /\ QueueInv(q) /\ queue_[q] \in Seq(Tasks \union {Term})
    BY DEF IInv, TypeOK
  <1> USE DEF confVars, ioVars, doneVars, dtorVars, workVars, histVars
  <1>3. ASSUME UNCHANGED <<queue_, dtorVars>>,
               \A w \in WorkersOf(q) :
                 /\ worker[w] = "exited" <=> worker'[w] = "exited"
                 /\ worker'[w] = "blocked" => worker[w] = "blocked"
        PROVE  QueueInv(q)'
    <2>1. TermsSent(q)' = TermsSent(q)
      BY <1>3 DEF TermsSent
    <2>2. Exited(q)' = Exited(q) /\ Awake(q) \subseteq Awake(q)'
      BY <1>3 DEF Exited, Awake
    <2>. QED
      BY <1>1, <1>3, <2>1, <2>2, QueueUndisturbed
  <1>4. CASE CreateQueue
    <2>1. \A w \in WorkersOf(q) : worker'[w] = worker[w] \/ (worker[w] = "new" /\ worker'[w] = "get")
      <3>1. \A w \in Workers : QueueOf[w] \in Nat
        BY ConstantsAssumption DEF Queues
      <3>. QED
        BY <1>1, <1>4, <3>1 DEF CreateQueue, ThreadInv, WorkersOf, TypeOK
    <2>. QED
      BY <1>3, <1>4, <2>1 DEF CreateQueue
  <1>5. ASSUME NEW r \in Queues, NEW y \in Types, AssignType(r, y) PROVE QueueInv(q)'
    BY <1>3, <1>5 DEF AssignType
  <1>6. CASE RunIteration \/ EnqueueTaskThrows \/ AwaitDone \/ Woken \/ DrainThrows
             \/ ScheduleMore \/ MainSpuriousWakeup \/ Destroyed \/ DrainOne \/ IterationReturns
    BY <1>3, <1>6 DEF RunIteration, EnqueueTaskThrows, AwaitDone, Woken, DrainThrows,
       ScheduleMore, MainSpuriousWakeup, Destroyed, DrainOne, IterationReturns
  <1>7. ASSUME UNCHANGED workVars, TermsSent(q)' = TermsSent(q)
        PROVE  QueueInv(q)'
    BY <1>1, <1>7, QueueUndisturbed DEF Exited, Awake
  <1>8. CASE Destroy
    <2>1. TermsSent(q) = 0
      BY <1>1, <1>8, NoTermsSent DEF Destroy, ThreadInv
    <2>2. TermsSent(q)' = 0
      BY <1>8, ConstantsAssumption DEF Destroy, TermsSent, Queues
    <2>. QED
      BY <1>7, <1>8, <2>1, <2>2 DEF Destroy
  <1>9. CASE Join
    <2>1. TermsSent(q)' = TermsSent(q)
      BY <1>1, <1>9, ConstantsAssumption DEF Join, TermsSent, Queues, TypeOK
    <2>. QED
      BY <1>7, <1>9, <2>1 DEF Join
  <1>10. ASSUME NEW r \in Queues, NEW id \in Tasks \union {Term}, Enqueue(r, id), q # r,
                TermsSent(q)' = TermsSent(q)
         PROVE  QueueInv(q)'
    <2>1. queue_'[q] = queue_[q]
      BY <1>1, <1>10 DEF Enqueue, TypeOK
    <2>2. \A w \in WorkersOf(q) : worker'[w] = worker[w]
      BY <1>1, <1>10, EnqueueEffect DEF Blocked, WorkersOf, TypeOK
    <2>3. Exited(q)' = Exited(q) /\ Awake(q)' = Awake(q)
      BY <2>2 DEF Exited, Awake
    <2>. QED
      BY <1>1, <1>10, <2>1, <2>3, QueueUndisturbed
  <1>11. CASE EnqueueTask
    <2> DEFINE r == route_[TypeOf[TM!NextReady]]
    <2>1. TM!NextReady \in Tasks /\ r \in Queues /\ Enqueue(r, TM!NextReady)
      BY <1>1, <1>11, PoppedTask, ConstantsAssumption DEF EnqueueTask, TypeOK
    <2>2. TM!NextReady # Term
      BY <2>1, ConstantsAssumption DEF Tasks, Term
    <2>3. dying = 0 /\ dying' = 0
      BY <1>1, <1>11 DEF EnqueueTask, ThreadInv, InIteration
    <2>4. TermsSent(q) = 0 /\ TermsSent(q)' = 0
      BY <1>1, <2>3, NoTermsSent, ConstantsAssumption DEF TermsSent, Queues
    <2> HIDE DEF r
    <2>5. CASE q = r
      BY <1>1, <2>1, <2>2, <2>4, <2>5, QueuePush
    <2>6. CASE q # r
      BY <1>10, <2>1, <2>4, <2>6
    <2>. QED
      BY <2>5, <2>6
  <1>12. CASE EnqueueTerm
    <2>1. dying \in Queues /\ Term \in Tasks \union {Term} /\ Enqueue(dying, Term)
      BY <1>1, <1>12, ConstantsAssumption DEF EnqueueTerm, TypeOK, ThreadInv, Queues
    <2>2. dying' = dying /\ terms' = terms + 1 /\ terms < Slots(dying) /\ terms \in Nat
      BY <1>1, <1>12 DEF EnqueueTerm, TypeOK
    <2>3. CASE q = dying
      <3>1. TermsSent(q) = terms /\ TermsSent(q)' = terms + 1
        BY <2>1, <2>2, <2>3, ConstantsAssumption DEF TermsSent, Queues
      <3>. QED
        BY <1>1, <2>1, <2>2, <2>3, <3>1, QueuePush
    <2>4. CASE q # dying
      <3>1. TermsSent(q)' = TermsSent(q)
        BY <2>2, <2>4 DEF TermsSent
      <3>. QED
        BY <1>10, <2>1, <2>4, <3>1
    <2>. QED
      BY <2>3, <2>4
  <1>13. ASSUME NEW w \in Workers, GetNextTask(w) PROVE QueueInv(q)'
    <2>1. CASE q = QueueOf[w]
      BY <1>1, <1>13, <2>1, QueueTake
    <2>2. CASE q # QueueOf[w]
      <3>1. queue_'[q] = queue_[q] /\ TermsSent(q)' = TermsSent(q)
        BY <1>1, <1>13, <2>2 DEF GetNextTask, TermsSent, TypeOK
      <3>2. Exited(q)' = Exited(q) /\ Awake(q)' = Awake(q)
        BY <1>1, <1>13, <2>2 DEF GetNextTask, Exited, Awake, WorkersOf, TypeOK
      <3>. QED
        BY <1>1, <3>1, <3>2, QueueUndisturbed
    <2>. QED
      BY <2>1, <2>2
  <1>14. ASSUME NEW w \in Workers, GetNextTaskWaits(w) PROVE QueueInv(q)'
    <2>1. queue_'[q] = queue_[q] /\ TermsSent(q)' = TermsSent(q)
      BY <1>14 DEF GetNextTaskWaits, TermsSent
    <2>2. Exited(q)' = Exited(q)
      BY <1>1, <1>14 DEF GetNextTaskWaits, Exited, WorkersOf, TypeOK
    <2>3. CASE q = QueueOf[w]
      <3>1. queue_[q] = <<>>
        BY <1>14, <2>3 DEF GetNextTaskWaits
      <3>2. Awake(q)' \in SUBSET WorkersOf(q)
        BY DEF Awake, WorkersOf
      <3>3. Cardinality(Awake(q)') \in Nat
        BY <3>2, WorkerSets
      <3>4. TermsLeft(q)' = TermsLeft(q)
        BY <2>1, <2>2 DEF TermsLeft
      <3>. QED
        BY <1>1, <2>1, <3>1, <3>3, <3>4 DEF QueueInv
    <2>4. CASE q # QueueOf[w]
      <3>1. Awake(q)' = Awake(q)
        BY <1>1, <1>14, <2>4 DEF GetNextTaskWaits, Awake, WorkersOf, TypeOK
      <3>. QED
        BY <1>1, <2>1, <2>2, <3>1, QueueUndisturbed
    <2>. QED
      BY <2>3, <2>4
  <1>15. ASSUME NEW w \in Workers,
                SpuriousWakeup(w) \/ RunTaskThrows(w) \/ TaskDoneTooLate(w) \/ RunTask(w)
                  \/ TaskDone(w)
         PROVE  QueueInv(q)'
    BY <1>1, <1>3, <1>15 DEF SpuriousWakeup, RunTaskThrows, TaskDoneTooLate, RunTask,
       TaskDone, WorkersOf, TypeOK
  <1>16. CASE UNCHANGED vars
    BY <1>3, <1>16 DEF vars
  <1>. QED
    BY <1>4, <1>5, <1>6, <1>8, <1>9, <1>11, <1>12, <1>13, <1>14, <1>15, <1>16
       DEF Next, Configure, MainStep, WorkerStep, Ended

-----------------------------------------------------------------------------
(***************************************************************************)
(* The tasks in flight.                                                    *)
(***************************************************************************)

\* Initially no task is anywhere.
LEMMA InitFlight == Init => FlightInv
  <1> SUFFICES ASSUME Init PROVE FlightInv
    OBVIOUS
  <1>1. TMP!Elements(<<>>) = {} /\ DistinctTasks(<<>>) /\ TMP!Distinct(<<>>)
    BY DEF TMP!Elements, DistinctTasks, TMP!Distinct
  <1>2. \A q \in Queues : queue_[q] = <<>>
    BY DEF Init
  <1>3. \A t \in Tasks : TaskInv(t)
    BY <1>1, <1>2 DEF Init, TaskInv, InQueue, HeldBy, InDoneq, Busy
  <1>. QED
    BY <1>1, <1>2, <1>3 DEF Init, FlightInv

\* Threads that do not touch a task leave it where it is.
LEMMA FlightUndisturbed ==
  ASSUME FlightInv, UNCHANGED <<queue_, doneq_, task_id, assigned_tasks_, completed, finished>>,
         \A w \in Workers : /\ worker[w] = "run" <=> worker'[w] = "run"
                            /\ worker[w] = "done" <=> worker'[w] = "done",
         ClientHasControl' => ClientHasControl, ~doneqAlive' => ~doneqAlive \/ ClientHasControl
  PROVE  FlightInv'
  <1>1. ASSUME NEW t \in Tasks PROVE TaskInv(t)'
    <2>1. TaskInv(t)
      BY DEF FlightInv
    <2>2. \A w \in Workers : HeldBy(t, w)' <=> HeldBy(t, w)
      BY DEF HeldBy, Busy
    <2>3. InDoneq(t)' <=> InDoneq(t)
      BY DEF InDoneq
    <2>4. \A q \in Queues : InQueue(t, q)' <=> InQueue(t, q)
      BY DEF InQueue
    <2>. QED
      BY <2>1, <2>2, <2>3, <2>4 DEF TaskInv
  <1>. QED
    BY <1>1 DEF FlightInv

\* EnqueueTask() puts a task that was nowhere into one queue.
LEMMA EnqueueTaskFlight ==
  ASSUME IInv, FlightInv, EnqueueTask
  PROVE  FlightInv'
  <1> DEFINE n == TM!NextReady
             r == route_[TypeOf[n]]
  <1>1. TypeOK
    BY DEF IInv
  <1>2. /\ n \in Tasks /\ n \notin assigned_tasks_
        /\ assigned_tasks_' = assigned_tasks_ \union {n} /\ completed' = completed
    BY PoppedTask DEF EnqueueTask
  <1>3. r \in Queues /\ Enqueue(r, n)
    BY <1>1, <1>2, ConstantsAssumption DEF EnqueueTask, TypeOK
  <1>4. UNCHANGED <<doneq_, doneqAlive, finished, main>> /\ main = "schedule"
    BY DEF EnqueueTask, doneVars, histVars
  <1> HIDE DEF n, r
  <1>5. /\ queue_' = [queue_ EXCEPT ![r] = Append(queue_[r], n)]
        /\ task_id' = task_id
        /\ \A w \in Workers : /\ worker[w] = "run" <=> worker'[w] = "run"
                              /\ worker[w] = "done" <=> worker'[w] = "done"
    BY <1>1, <1>2, <1>3, EnqueueEffect DEF Blocked, TypeOK
  <1>6. queue_[r] \in Seq(Tasks \union {Term})
    BY <1>1, <1>3 DEF TypeOK
  <1>7. n \notin TMP!Elements(queue_[r])
    BY <1>2, <1>3 DEF FlightInv, TaskInv, InQueue
  <1>8. /\ queue_'[r] = Append(queue_[r], n)
        /\ \A q \in Queues : q # r => queue_'[q] = queue_[q]
    BY <1>1, <1>3, <1>5 DEF TypeOK
  <1>9. /\ TMP!Elements(queue_'[r]) = TMP!Elements(queue_[r]) \union {n}
        /\ DistinctTasks(queue_[r]) => DistinctTasks(queue_'[r])
    <2> DEFINE T == Tasks \union {Term}
               u == Append(queue_[r], n)
    <2>1. queue_[r] \in Seq(T) /\ n \in T
      BY <1>2, <1>6
    <2> HIDE DEF T
    <2>2. /\ TMP!Elements(u) = TMP!Elements(queue_[r]) \union {n}
          /\ DistinctTasks(queue_[r]) => DistinctTasks(u)
      BY <1>7, <2>1, PushElements
    <2>. QED
      BY <1>8, <2>2
  <1>10. \A q \in Queues : DistinctTasks(queue_'[q])
    BY <1>8, <1>9 DEF FlightInv
  <1>11. ASSUME NEW t \in Tasks PROVE TaskInv(t)'
    <2>1. TaskInv(t)
      BY DEF FlightInv
    <2>2. \A w \in Workers : HeldBy(t, w)' <=> HeldBy(t, w)
      BY <1>5 DEF HeldBy, Busy
    <2>3. InDoneq(t)' <=> InDoneq(t)
      BY <1>4 DEF InDoneq
    <2>4. \A q \in Queues : InQueue(t, q)' <=> InQueue(t, q) \/ (q = r /\ t = n)
      BY <1>8, <1>9 DEF InQueue
    <2>5. t \in finished' <=>
            \/ t \in completed'
            \/ \E w \in Workers : worker'[w] = "done" /\ task_id'[w] = t
            \/ InDoneq(t)'
      BY <1>2, <1>4, <1>5, <2>1, <2>3 DEF TaskInv
    <2>6. CASE t = n
      BY <1>2, <1>3, <2>1, <2>2, <2>3, <2>4, <2>5, <2>6 DEF TaskInv
    <2>7. CASE t # n
      BY <1>2, <2>1, <2>2, <2>3, <2>4, <2>5, <2>7 DEF TaskInv
    <2>. QED
      BY <2>6, <2>7
  <1>. QED
    BY <1>2, <1>4, <1>10, <1>11, IInv DEF FlightInv, ClientHasControl, IInv, ThreadInv, InIteration

\* A termination id is no task.
LEMMA EnqueueTermFlight ==
  ASSUME IInv, FlightInv, EnqueueTerm
  PROVE  FlightInv'
  <1>1. TypeOK
    BY DEF IInv
  <1>2. dying \in Queues /\ Enqueue(dying, Term) /\ Term \in Tasks \union {Term}
    BY <1>1, ConstantsAssumption DEF EnqueueTerm, TypeOK, IInv, ThreadInv, Queues
  <1>3. UNCHANGED <<doneq_, doneqAlive, finished, main, assigned_tasks_, completed>>
    BY DEF EnqueueTerm, doneVars, histVars, tmVars
  <1>4. /\ queue_' = [queue_ EXCEPT ![dying] = Append(queue_[dying], Term)]
        /\ task_id' = task_id
        /\ \A w \in Workers : /\ worker[w] = "run" <=> worker'[w] = "run"
                              /\ worker[w] = "done" <=> worker'[w] = "done"
    BY <1>1, <1>2, EnqueueEffect DEF Blocked, TypeOK
  <1>5. queue_[dying] \in Seq(Tasks \union {Term})
    BY <1>1, <1>2 DEF TypeOK
  <1>6. /\ queue_'[dying] = Append(queue_[dying], Term)
        /\ \A q \in Queues : q # dying => queue_'[q] = queue_[q]
    BY <1>1, <1>2, <1>4 DEF TypeOK
  <1>7. /\ TMP!Elements(queue_'[dying]) = TMP!Elements(queue_[dying]) \union {Term}
        /\ DistinctTasks(queue_[dying]) => DistinctTasks(queue_'[dying])
    <2> DEFINE T == Tasks \union {Term}
               u == Append(queue_[dying], Term)
    <2>1. queue_[dying] \in Seq(T) /\ Term \in T
      BY <1>5
    <2> HIDE DEF T
    <2>2. /\ TMP!Elements(u) = TMP!Elements(queue_[dying]) \union {Term}
          /\ DistinctTasks(queue_[dying]) => DistinctTasks(u)
      BY <2>1, PushElements
    <2>. QED
      BY <1>6, <2>2
  <1>8. \A q \in Queues : DistinctTasks(queue_'[q])
    BY <1>6, <1>7 DEF FlightInv
  <1>9. ASSUME NEW t \in Tasks PROVE TaskInv(t)'
    <2>1. TaskInv(t) /\ t # Term
      BY ConstantsAssumption DEF FlightInv, Tasks, Term
    <2>2. \A w \in Workers : HeldBy(t, w)' <=> HeldBy(t, w)
      BY <1>4 DEF HeldBy, Busy
    <2>3. InDoneq(t)' <=> InDoneq(t)
      BY <1>3 DEF InDoneq
    <2>4. \A q \in Queues : InQueue(t, q)' <=> InQueue(t, q)
      BY <1>6, <1>7, <2>1 DEF InQueue
    <2>. QED
      BY <1>3, <1>4, <2>1, <2>2, <2>3, <2>4 DEF TaskInv
  <1>. QED
    BY <1>3, <1>8, <1>9 DEF FlightInv, ClientHasControl

\* GetNextTask() moves a task from the queue to the worker.
LEMMA GetNextTaskFlight ==
  ASSUME IInv, FlightInv, NEW w \in Workers, GetNextTask(w)
  PROVE  FlightInv'
  <1> DEFINE q0 == QueueOf[w]
             h  == Head(queue_[q0])
  <1>1. TypeOK /\ q0 \in Queues
    BY ConstantsAssumption DEF IInv
  <1>2. queue_[q0] \in Seq(Tasks \union {Term}) /\ queue_[q0] # <<>>
    BY <1>1 DEF TypeOK, GetNextTask
  <1>3. /\ worker[w] = "get"
        /\ task_id' = [task_id EXCEPT ![w] = h]
        /\ worker' = [worker EXCEPT ![w] = IF h = Term THEN "exited" ELSE "run"]
        /\ UNCHANGED <<doneq_, doneqAlive, finished, main, assigned_tasks_, completed>>
    BY DEF GetNextTask, doneVars, histVars, tmVars
  <1>4. /\ queue_'[q0] = Tail(queue_[q0])
        /\ \A q \in Queues : q # q0 => queue_'[q] = queue_[q]
    BY <1>1 DEF GetNextTask, TypeOK
  <1> HIDE DEF h, q0
  <1>5. DistinctTasks(queue_[q0])
    BY <1>1 DEF FlightInv
  <1>6. /\ DistinctTasks(queue_'[q0])
        /\ h \in TMP!Elements(queue_[q0])
        /\ \A x : x # Term => (x \in TMP!Elements(queue_'[q0]) <=>
                                 x \in TMP!Elements(queue_[q0]) /\ x # h)
    <2>1. h = Head(queue_[q0])
      BY DEF h, q0
    <2>. QED
      BY <1>2, <1>4, <1>5, <2>1, TakeElements
  <1>7. \A q \in Queues : DistinctTasks(queue_'[q])
    BY <1>4, <1>6 DEF FlightInv
  <1>8. ASSUME NEW t \in Tasks PROVE TaskInv(t)'
    <2>1. TaskInv(t) /\ t # Term
      BY ConstantsAssumption DEF FlightInv, Tasks, Term
    <2>2. \A v \in Workers : HeldBy(t, v)' <=> HeldBy(t, v) \/ (v = w /\ t = h)
      BY <1>1, <1>3, <2>1 DEF HeldBy, Busy, TypeOK
    <2>3. InDoneq(t)' <=> InDoneq(t)
      BY <1>3 DEF InDoneq
    <2>4. \A q \in Queues : InQueue(t, q)' <=> InQueue(t, q) /\ ~(q = q0 /\ t = h)
      BY <1>4, <1>6, <2>1 DEF InQueue
    <2>5. t = h => InQueue(t, q0)
      BY <1>6 DEF InQueue
    <2>6. t \in finished' <=>
            \/ t \in completed'
            \/ \E v \in Workers : worker'[v] = "done" /\ task_id'[v] = t
            \/ InDoneq(t)'
      <3>1. \A v \in Workers : (worker'[v] = "done" /\ task_id'[v] = t) <=>
                               (worker[v] = "done" /\ task_id[v] = t)
        BY <1>1, <1>3 DEF TypeOK
      <3>. QED
        BY <1>3, <2>1, <2>3, <3>1 DEF TaskInv
    <2>7. CASE t = h
      BY <1>1, <1>3, <2>1, <2>2, <2>3, <2>4, <2>5, <2>6, <2>7 DEF TaskInv
    <2>8. CASE t # h
      BY <1>3, <2>1, <2>2, <2>3, <2>4, <2>6, <2>8 DEF TaskInv
    <2>. QED
      BY <2>7, <2>8
  <1>. QED
    BY <1>3, <1>7, <1>8 DEF FlightInv, ClientHasControl

\* RunTask() leaves the task with its worker; it is finished from now on.
LEMMA RunTaskFlight ==
  ASSUME IInv, FlightInv, NEW w \in Workers, RunTask(w)
  PROVE  FlightInv'
  <1>1. /\ worker[w] = "run" /\ worker' = [worker EXCEPT ![w] = "done"]
        /\ worker \in [Workers -> {"new", "get", "blocked", "run", "done", "exited"}]
        /\ finished' = finished \union {task_id[w]}
        /\ UNCHANGED <<queue_, task_id, doneq_, doneqAlive, main, assigned_tasks_, completed>>
    BY DEF RunTask, doneVars, tmVars, IInv, TypeOK
  <1>2. ASSUME NEW t \in Tasks PROVE TaskInv(t)'
    <2>1. TaskInv(t)
      BY DEF FlightInv
    <2>2. \A v \in Workers : HeldBy(t, v)' <=> HeldBy(t, v)
      BY <1>1 DEF HeldBy, Busy
    <2>3. InDoneq(t)' <=> InDoneq(t)
      BY <1>1 DEF InDoneq
    <2>4. \A q \in Queues : InQueue(t, q)' <=> InQueue(t, q)
      BY <1>1 DEF InQueue
    <2>5. \A v \in Workers : (worker'[v] = "done" /\ task_id'[v] = t) <=>
                             ((worker[v] = "done" /\ task_id[v] = t) \/ (v = w /\ task_id[w] = t))
      BY <1>1
    <2>. QED
      BY <1>1, <2>1, <2>2, <2>3, <2>4, <2>5 DEF TaskInv
  <1>. QED
    BY <1>1, <1>2 DEF FlightInv, ClientHasControl

\* TaskDone() moves the task from its worker to doneq_.
LEMMA TaskDoneFlight ==
  ASSUME IInv, FlightInv, NEW w \in Workers, TaskDone(w)
  PROVE  FlightInv'
  <1> DEFINE d == task_id[w]
  <1>1. /\ worker[w] = "done" /\ worker' = [worker EXCEPT ![w] = "get"]
        /\ worker \in [Workers -> {"new", "get", "blocked", "run", "done", "exited"}]
        /\ doneq_' = Append(doneq_, d) /\ doneq_ \in Seq(Tasks)
        /\ UNCHANGED <<queue_, task_id, doneqAlive, finished, assigned_tasks_, completed>>
        /\ ClientHasControl' => ClientHasControl
    BY DEF TaskDone, doneVars, histVars, tmVars, IInv, TypeOK, ClientHasControl
  <1>2. d \in Tasks /\ HeldBy(d, w)
    BY <1>1 DEF IInv, ThreadInv, TypeOK, Busy, HeldBy
  <1>3. d \notin TMP!Elements(doneq_)
    BY <1>2 DEF FlightInv, TaskInv, InDoneq
  <1> HIDE DEF d
  <1>4. /\ TMP!Elements(doneq_') = TMP!Elements(doneq_) \union {d}
        /\ TMP!Distinct(doneq_) => TMP!Distinct(doneq_')
    BY <1>1, <1>2, <1>3, PushElements
  <1>5. ASSUME NEW t \in Tasks PROVE TaskInv(t)'
    <2>1. TaskInv(t)
      BY DEF FlightInv
    <2>2. \A v \in Workers : HeldBy(t, v)' <=> HeldBy(t, v) /\ v # w
      BY <1>1 DEF HeldBy, Busy
    <2>3. InDoneq(t)' <=> InDoneq(t) \/ t = d
      BY <1>4 DEF InDoneq
    <2>4. \A q \in Queues : InQueue(t, q)' <=> InQueue(t, q)
      BY <1>1 DEF InQueue
    <2>5. \A v \in Workers : (worker'[v] = "done" /\ task_id'[v] = t) <=>
                             (worker[v] = "done" /\ task_id[v] = t /\ v # w)
      BY <1>1
    <2>6. t = d <=> HeldBy(t, w)
      BY <1>2 DEF HeldBy, d
    <2>7. t = d <=> (worker[w] = "done" /\ task_id[w] = t)
      BY <1>1 DEF d
    <2>. QED
      BY <1>1, <2>1, <2>2, <2>3, <2>4, <2>5, <2>6, <2>7 DEF TaskInv
  <1>. QED
    BY <1>1, <1>4, <1>5 DEF FlightInv

\* DrainOne takes a reported task out of doneq_ and of assigned_tasks_.
LEMMA DrainOneFlight ==
  ASSUME IInv, FlightInv, DrainOne
  PROVE  FlightInv'
  <1> DEFINE d == doneq_[Len(doneq_)]
  <1>1. /\ doneq_ \in Seq(Tasks) /\ doneq_ # <<>> /\ TMP!Distinct(doneq_)
        /\ doneq_' = SubSeq(doneq_, 1, Len(doneq_) - 1)
        /\ UNCHANGED <<queue_, task_id, worker, doneqAlive, finished, main>>
        /\ main = "drain"
    BY DEF DrainOne, doneVars, histVars, workVars, IInv, TypeOK, FlightInv
  <1>2. assigned_tasks_' = assigned_tasks_ \ {d} /\ completed' = completed \union {d}
    BY DEF DrainOne, TM!IterTaskDone
  <1>3. /\ d \in TMP!Elements(doneq_)
        /\ TMP!Elements(doneq_') = TMP!Elements(doneq_) \ {d}
        /\ TMP!Distinct(doneq_')
    BY <1>1, TMP!PopElements
  <1> HIDE DEF d
  <1>4. ASSUME NEW t \in Tasks PROVE TaskInv(t)'
    <2>1. TaskInv(t)
      BY DEF FlightInv
    <2>2. \A v \in Workers : HeldBy(t, v)' <=> HeldBy(t, v)
      BY <1>1 DEF HeldBy, Busy
    <2>3. /\ InDoneq(t)' <=> InDoneq(t) /\ t # d
          /\ t = d => InDoneq(t)
      BY <1>3 DEF InDoneq
    <2>4. \A q \in Queues : InQueue(t, q)' <=> InQueue(t, q)
      BY <1>1 DEF InQueue
    <2>. QED
      BY <1>1, <1>2, <2>1, <2>2, <2>3, <2>4 DEF TaskInv
  <1>. QED
    BY <1>1, <1>2, <1>3, <1>4 DEF FlightInv, ClientHasControl

\* Finalise() and IterReset() start over when no task is assigned.
LEMMA ResetFlight ==
  ASSUME FlightInv, assigned_tasks_ = {}, TM!ResetIteration, finished' = {},
         UNCHANGED <<queue_, worker, task_id, doneq_>>
  PROVE  FlightInv'
  <1>1. assigned_tasks_' = {} /\ completed' = {}
    BY DEF TM!ResetIteration
  <1>2. ASSUME NEW t \in Tasks PROVE TaskInv(t)'
    <2>1. TaskInv(t)
      BY DEF FlightInv
    <2>2. \A v \in Workers : ~HeldBy(t, v)'
      BY <2>1 DEF HeldBy, Busy, TaskInv
    <2>3. ~InDoneq(t)'
      BY <2>1 DEF InDoneq, TaskInv
    <2>4. \A q \in Queues : ~InQueue(t, q)'
      BY <2>1 DEF InQueue, TaskInv
    <2>5. \A v \in Workers : ~(worker'[v] = "done" /\ task_id'[v] = t)
      BY <2>2 DEF HeldBy, Busy
    <2>. QED
      BY <1>1, <2>2, <2>3, <2>4, <2>5 DEF TaskInv
  <1>. QED
    BY <1>1, <1>2 DEF FlightInv

\* Every step that aborts no iteration moves at most one task, from one place to the
\* next.
LEMMA NextFlight == IInv /\ [Next]_vars => (~aborted' => FlightInv')
  <1> SUFFICES ASSUME IInv, [Next]_vars, ~aborted' PROVE FlightInv'
    OBVIOUS
  <1> USE DEF confVars, ioVars, doneVars, dtorVars, workVars, histVars
  <1>1. ~aborted
    BY DEF Next, vars, Configure, MainStep, WorkerStep, Ended, CreateQueue, AssignType,
       RunIteration, Destroy, EnqueueTask, EnqueueTaskThrows, AwaitDone, Woken, DrainOne,
       DrainThrows, ScheduleMore, IterationReturns, EnqueueTerm, Join, Destroyed,
       MainSpuriousWakeup, GetNextTaskWaits, GetNextTask, RunTask, TaskDone, TaskDoneTooLate,
       SpuriousWakeup, RunTaskThrows
  <1>2. TypeOK /\ ThreadInv /\ FlightInv
    BY <1>1 DEF IInv
  <1>3. CASE CreateQueue
    <2>1. \A w \in Workers : QueueOf[w] \in Nat
      BY ConstantsAssumption DEF Queues
    <2>2. \A w \in Workers : /\ worker[w] = "run" <=> worker'[w] = "run"
                             /\ worker[w] = "done" <=> worker'[w] = "done"
      BY <1>2, <1>3, <2>1 DEF CreateQueue, ThreadInv, TypeOK
    <2>. QED
      BY <1>2, <1>3, <2>2, FlightUndisturbed DEF CreateQueue, ClientHasControl, tmVars
  <1>4. ASSUME NEW r \in Queues, NEW y \in Types, AssignType(r, y) PROVE FlightInv'
    BY <1>2, <1>4, FlightUndisturbed DEF AssignType, ClientHasControl, tmVars
  <1>5. CASE RunIteration
    <2>1. assigned_tasks_ = {}
      BY <1>2, <1>5 DEF RunIteration, FlightInv
    <2>. QED
      BY <1>2, <1>5, <2>1, ResetFlight DEF RunIteration, TM!Finalise
  <1>6. CASE IterationReturns
    <2>1. assigned_tasks_ = {}
      BY <1>6 DEF IterationReturns, TM!IterCompleted
    <2>. QED
      BY <1>2, <1>6, <2>1, ResetFlight DEF IterationReturns, TM!IterReset
  <1>7. CASE AwaitDone \/ Woken \/ ScheduleMore \/ MainSpuriousWakeup \/ Destroyed \/ Join
             \/ Destroy
    BY <1>2, <1>7, FlightUndisturbed DEF AwaitDone, Woken, ScheduleMore, MainSpuriousWakeup,
       Destroyed, Join, Destroy, ClientHasControl, tmVars
  <1>8. CASE EnqueueTask
    BY <1>2, <1>8, EnqueueTaskFlight
  <1>9. CASE EnqueueTaskThrows
    BY <1>9 DEF EnqueueTaskThrows
  <1>10. CASE DrainOne
    BY <1>2, <1>10, DrainOneFlight
  <1>11. CASE DrainThrows
    <2>1. doneq_[Len(doneq_)] \in Tasks /\ InDoneq(doneq_[Len(doneq_)])
      BY <1>2, <1>11, ElementsType DEF DrainThrows, TypeOK, InDoneq
    <2>2. doneq_[Len(doneq_)] \in assigned_tasks_
      BY <1>2, <2>1 DEF FlightInv, TaskInv
    <2>. QED
      BY <1>11, <2>2 DEF DrainThrows
  <1>12. CASE EnqueueTerm
    BY <1>2, <1>12, EnqueueTermFlight
  <1>13. ASSUME NEW w \in Workers, GetNextTaskWaits(w) \/ SpuriousWakeup(w) \/ RunTaskThrows(w)
         PROVE  FlightInv'
    <2>1. \A v \in Workers : /\ worker[v] = "run" <=> worker'[v] = "run"
                             /\ worker[v] = "done" <=> worker'[v] = "done"
      BY <1>2, <1>13 DEF GetNextTaskWaits, SpuriousWakeup, RunTaskThrows, TypeOK
    <2>. QED
      BY <1>2, <1>13, <2>1, FlightUndisturbed DEF GetNextTaskWaits, SpuriousWakeup,
         RunTaskThrows, ClientHasControl, tmVars
  <1>14. ASSUME NEW w \in Workers, GetNextTask(w) PROVE FlightInv'
    BY <1>2, <1>14, GetNextTaskFlight
  <1>15. ASSUME NEW w \in Workers, RunTask(w) PROVE FlightInv'
    BY <1>2, <1>15, RunTaskFlight
  <1>16. ASSUME NEW w \in Workers, TaskDone(w) PROVE FlightInv'
    BY <1>2, <1>16, TaskDoneFlight
  <1>17. ASSUME NEW w \in Workers, TaskDoneTooLate(w) PROVE FALSE
    <2>1. task_id[w] \in Tasks /\ HeldBy(task_id[w], w) /\ ~doneqAlive
      BY <1>2, <1>17 DEF TaskDoneTooLate, ThreadInv, TypeOK, Busy, HeldBy
    <2>2. task_id[w] \in assigned_tasks_
      BY <1>2, <2>1 DEF FlightInv, TaskInv
    <2>. QED
      BY <1>2, <2>1, <2>2 DEF FlightInv
  <1>18. CASE UNCHANGED vars
    BY <1>2, <1>18, FlightUndisturbed DEF vars, ClientHasControl, tmVars
  <1>. QED
    BY <1>3, <1>4, <1>5, <1>6, <1>7, <1>8, <1>9, <1>10, <1>11, <1>12, <1>13, <1>14, <1>15,
       <1>16, <1>17, <1>18 DEF Next, Configure, MainStep, WorkerStep, Ended

-----------------------------------------------------------------------------
(***************************************************************************)
(* How many places a task is in.                                           *)
(***************************************************************************)

\* The positions of a task in the queues.
LEMMA QueuedPositions ==
  ASSUME NEW t, NEW p
  PROVE  p \in Queued(t) <=>
           \E q \in Queues : \E i \in 1..Len(queue_[q]) : queue_[q][i] = t /\ p = <<q, i>>
  BY DEF Queued

\* A task that is not assigned is nowhere.
LEMMA NoCopies ==
  ASSUME FlightInv, NEW t \in Tasks, t \notin assigned_tasks_
  PROVE  Copies(t) = 0
  <1>1. TaskInv(t)
    BY DEF FlightInv
  <1>2. Queued(t) = {}
    BY <1>1, QueuedPositions DEF TaskInv, InQueue, TMP!Elements
  <1>3. Held(t) = {}
    BY <1>1 DEF TaskInv, HeldBy, Busy, Held
  <1>4. Reported(t) = {}
    BY <1>1 DEF TaskInv, InDoneq, TMP!Elements, Reported
  <1>. QED
    BY <1>2, <1>3, <1>4, FS_EmptySet DEF Copies

\* An assigned task is in one place.
LEMMA OneCopy ==
  ASSUME FlightInv, NEW t \in Tasks, t \in assigned_tasks_
  PROVE  Copies(t) = 1
  <1>1. TaskInv(t) /\ t # Term
    BY ConstantsAssumption DEF FlightInv, Tasks, Term
  <1>2. ASSUME NEW q \in Queues, InQueue(t, q)
        PROVE  Copies(t) = 1
    <2>1. PICK i \in 1..Len(queue_[q]) : queue_[q][i] = t
      BY <1>2 DEF InQueue, TMP!Elements
    <2>2. \A r \in Queues : \A j \in 1..Len(queue_[r]) :
            queue_[r][j] = t => r = q /\ j = i
      <3> SUFFICES ASSUME NEW r \in Queues, NEW j \in 1..Len(queue_[r]), queue_[r][j] = t
                   PROVE  r = q /\ j = i
        OBVIOUS
      <3>1. InQueue(t, r)
        BY DEF InQueue, TMP!Elements
      <3>2. r = q
        BY <1>1, <1>2, <3>1 DEF TaskInv
      <3>3. DistinctTasks(queue_[q])
        BY DEF FlightInv
      <3>. QED
        BY <1>1, <2>1, <3>2, <3>3 DEF DistinctTasks
    <2>3. Queued(t) = {<<q, i>>}
      BY <2>1, <2>2, QueuedPositions
    <2>4. Held(t) = {}
      BY <1>1, <1>2 DEF TaskInv, HeldBy, Busy, Held
    <2>5. Reported(t) = {}
      BY <1>1, <1>2 DEF TaskInv, InDoneq, TMP!Elements, Reported
    <2>6. /\ Cardinality(Queued(t)) = 1
          /\ Cardinality(Held(t)) = 0
          /\ Cardinality(Reported(t)) = 0
      BY <2>3, <2>4, <2>5, FS_EmptySet, FS_Singleton
    <2>. QED
      BY <2>6 DEF Copies
  <1>3. ASSUME NEW w \in Workers, HeldBy(t, w)
        PROVE  Copies(t) = 1
    <2>1. Queued(t) = {}
      BY <1>1, <1>3, QueuedPositions DEF TaskInv, InQueue, TMP!Elements
    <2>2. Held(t) = {w}
      BY <1>1, <1>3 DEF TaskInv, HeldBy, Busy, Held
    <2>3. Reported(t) = {}
      BY <1>1, <1>3 DEF TaskInv, InDoneq, TMP!Elements, Reported
    <2>4. /\ Cardinality(Queued(t)) = 0
          /\ Cardinality(Held(t)) = 1
          /\ Cardinality(Reported(t)) = 0
      BY <2>1, <2>2, <2>3, FS_EmptySet, FS_Singleton
    <2>. QED
      BY <2>4 DEF Copies
  <1>4. ASSUME InDoneq(t)
        PROVE  Copies(t) = 1
    <2>1. Queued(t) = {}
      BY <1>1, <1>4, QueuedPositions DEF TaskInv, InQueue, TMP!Elements
    <2>2. Held(t) = {}
      BY <1>1, <1>4 DEF TaskInv, HeldBy, Busy, Held
    <2>3. PICK i \in 1..Len(doneq_) : doneq_[i] = t
      BY <1>4 DEF InDoneq, TMP!Elements
    <2>4. Reported(t) = {i}
      BY <2>3 DEF FlightInv, TMP!Distinct, Reported
    <2>5. /\ Cardinality(Queued(t)) = 0
          /\ Cardinality(Held(t)) = 0
          /\ Cardinality(Reported(t)) = 1
      BY <2>1, <2>2, <2>4, FS_EmptySet, FS_Singleton
    <2>. QED
      BY <2>5 DEF Copies
  <1>. QED
    BY <1>1, <1>2, <1>3, <1>4 DEF TaskInv

-----------------------------------------------------------------------------
(***************************************************************************)
(* The theorems.                                                           *)
(***************************************************************************)

\* Every reachable state satisfies the inductive invariant.
THEOREM SchedulerInductive == Spec => []IInv
  <1>1. Init => IInv
    BY InitTypes, InitManager, InitThreads, InitQueues, InitFlight DEF IInv
  <1>2. IInv /\ [Next]_vars => IInv'
    BY NextTypes, NextManager, NextThreads, NextQueues, NextFlight, NextIo DEF IInv
  <1>. QED
    BY <1>1, <1>2, PTL DEF Spec

\* Threads, queues and doneq_ keep their types; no termination id is ever reported.
THEOREM SchedulerTypes == Spec => []TypeOK
  <1>1. IInv => TypeOK
    BY DEF IInv
  <1>. QED
    BY <1>1, SchedulerInductive, PTL

\* On its way from EnqueueTask to IterTaskDone no task is lost or duplicated, however
\* the workers and the main thread interleave.
THEOREM NoTaskLostInFlight == Spec => []AssignedAccounted
  <1>1. IInv => AssignedAccounted
    BY NoCopies, OneCopy DEF IInv, AssignedAccounted
  <1>. QED
    BY <1>1, SchedulerInductive, PTL

\* RunIteration() returns only when no task is queued, running or unreported.
THEOREM ReturnsOnlyWhenDone == Spec => []ReturnsWhenAllDone
  <1>1. ASSUME IInv PROVE ReturnsWhenAllDone
    <2>1. main = "idle" /\ ~aborted => FlightInv /\ assigned_tasks_ = {}
      BY <1>1 DEF IInv, FlightInv, ClientHasControl
    <2>. QED
      BY <2>1, NoCopies DEF ReturnsWhenAllDone
  <1>. QED
    BY <1>1, SchedulerInductive, PTL

\* No worker can report to a doneq_ that the destructor has freed.
THEOREM CallbackSafe == Spec => []CallbackTargetAlive
  <1>1. ASSUME IInv PROVE CallbackTargetAlive
    <2>1. ~doneqAlive /\ ~aborted => FlightInv /\ assigned_tasks_ = {}
      BY <1>1 DEF IInv, FlightInv
    <2>. QED
      BY <2>1, NoCopies DEF CallbackTargetAlive
  <1>. QED
    BY <1>1, SchedulerInductive, PTL

(***************************************************************************)
(* One notify_one() per enqueued id is enough for any number of workers.   *)
(* If a worker sleeps, at least one is awake for each id in the queue.  If *)
(* none sleeps and all have exited, all termination ids have been taken,   *)
(* and they were the last ids of the queue.                                *)
(***************************************************************************)
THEOREM NoWakeupLost == Spec => []NoLostWakeup
  <1>1. ASSUME IInv, NEW q \in Queues, queue_[q] # <<>>
        PROVE  \E w \in WorkersOf(q) : worker[w] \notin {"blocked", "exited"}
    <2>1. QueueInv(q) /\ queue_[q] \in Seq(Tasks \union {Term})
      BY <1>1 DEF IInv, TypeOK
    <2>2. Len(queue_[q]) \in Nat \ {0}
      BY <1>1, <2>1, EmptySeq
    <2>3. Awake(q) # {}
      <3>1. CASE Blocked(q) # {}
        <4>1. Len(queue_[q]) <= Cardinality(Awake(q))
          BY <2>1, <3>1 DEF QueueInv
        <4>2. Cardinality(Awake(q)) # 0 /\ Cardinality({}) = 0
          BY <2>2, <4>1, FS_EmptySet
        <4>. QED
          BY <4>2
      <3>2. CASE Blocked(q) = {} /\ Awake(q) = {}
        <4>1. Exited(q) = WorkersOf(q)
          BY <3>2, WorkerKinds
        <4>2. Cardinality(Exited(q)) = Slots(q) /\ Slots(q) \in Nat \ {0}
          BY <4>1, WorkerSets DEF Slots
        <4>3. TermsSent(q) > 0 /\ TermsLeft(q) = 0
          BY <2>1, <4>2 DEF QueueInv, TermsLeft
        <4>. QED
          BY <1>1, <2>1, <4>3 DEF QueueInv
      <3>. QED
        BY <3>1, <3>2
    <2>. QED
      BY <2>3 DEF Awake
  <1>2. IInv => NoLostWakeup
    BY <1>1 DEF NoLostWakeup, IInv, ThreadInv
  <1>. QED
    BY <1>2, SchedulerInductive, PTL

\* A running task sees the number of its own iteration in IOManager.
THEOREM IoIterationAlwaysCurrent == Spec => []IoIterationCurrent
  <1>1. ASSUME IInv, ~aborted, NEW w \in Workers, worker[w] = "run"
        PROVE  ioIteration = iter_count_
    <2>1. task_id[w] \in Tasks /\ HeldBy(task_id[w], w)
      BY <1>1 DEF IInv, TypeOK, ThreadInv, Busy, HeldBy
    <2>2. task_id[w] \in assigned_tasks_
      BY <1>1, <2>1 DEF IInv, FlightInv, TaskInv
    <2>. QED
      BY <1>1, <2>2 DEF IInv, IoInv
  <1>2. IInv => IoIterationCurrent
    BY <1>1 DEF IoIterationCurrent
  <1>. QED
    BY <1>2, SchedulerInductive, PTL

-----------------------------------------------------------------------------
(***************************************************************************)
(* The Scheduler implements module Iteration.                              *)
(***************************************************************************)
Running(t) == \E w \in Workers : worker[w] = "run" /\ task_id[w] = t

\* A running task is assigned, and not yet finished.
LEMMA RunningTask ==
  ASSUME FlightInv, NEW t \in Tasks, Running(t)
  PROVE  t \in assigned_tasks_ /\ Status(t) = "running"
  BY DEF FlightInv, TaskInv, HeldBy, Busy, Running, Status

\* A completed task is finished and no longer running.
LEMMA CompletedFinished ==
  ASSUME IInv, FlightInv, finalised_, NEW t \in completed
  PROVE  t \in Tasks /\ Status(t) = "finished"
  <1>1. TMP!IInv /\ TMP!TaskId = Tasks
    BY TaskIdIsTasks DEF IInv, ManagerInv
  <1>2. t \in Tasks /\ t \notin assigned_tasks_
    BY <1>1 DEF TMP!IInv, TMP!TypeOK, TMP!IterationPartition
  <1>3. t \in finished
    BY <1>2 DEF FlightInv, TaskInv
  <1>4. ~Running(t)
    BY <1>2, RunningTask
  <1>. QED
    BY <1>2, <1>3, <1>4 DEF Status, Running

\* What changes neither a running task nor the history changes no status.
LEMMA StatusUnchanged ==
  ASSUME UNCHANGED <<task_id, finished>>,
         \A w \in Workers : worker[w] = "run" <=> worker'[w] = "run"
  PROVE  [t \in Tasks |-> Status(t)]' = [t \in Tasks |-> Status(t)]
  <1>1. \A t \in Tasks : Status(t)' = Status(t)
    BY DEF Status
  <1>. QED
    BY <1>1

\* Taking a task from a queue starts it: its dependencies have finished.
LEMMA StartStep ==
  ASSUME IInv, FlightInv, NEW w \in Workers, GetNextTask(w), ~aborted
  PROVE  [Iter!Next]_(Iter!vars)
  <1> DEFINE q0 == QueueOf[w]
  <1>0. PICK h : h = Head(queue_[q0])
    OBVIOUS
  <1>1. TypeOK /\ q0 \in Queues
    BY ConstantsAssumption DEF IInv
  <1>2. /\ queue_[q0] \in Seq(Tasks \union {Term}) /\ queue_[q0] # <<>>
        /\ worker[w] = "get"
        /\ task_id' = [task_id EXCEPT ![w] = h]
        /\ worker' = [worker EXCEPT ![w] = IF h = Term THEN "exited" ELSE "run"]
        /\ UNCHANGED <<finished, parents_, iter_count_, aborted>>
    BY <1>0, <1>1 DEF TypeOK, GetNextTask, histVars, tmVars, ioVars
  <1>3. h \in Tasks \union {Term} /\ h \in TMP!Elements(queue_[q0])
    BY <1>0, <1>2, TakeElements
  <1> HIDE DEF q0
  <1>4. \A t \in Tasks : Running(t)' <=> Running(t) \/ (t = h /\ h # Term)
    BY <1>1, <1>2 DEF Running, TypeOK
  <1>5. CASE h = Term
    <2>1. \A t \in Tasks : Status(t)' = Status(t)
      BY <1>2, <1>4, <1>5 DEF Status, Running
    <2>. QED
      BY <1>2, <2>1 DEF Iter!vars
  <1>6. CASE h # Term
    <2>1. h \in Tasks /\ InQueue(h, q0)
      BY <1>3, <1>6 DEF InQueue
    <2>2. h \in assigned_tasks_ /\ ~Running(h)
      BY <1>1, <2>1 DEF FlightInv, TaskInv, HeldBy, Busy, Running
    <2>3. TMP!IInv /\ TMP!TaskId = Tasks
      BY TaskIdIsTasks DEF IInv, ManagerInv
    <2>4. finalised_
      BY <2>2 DEF IInv, ManagerInv
    <2>5. parents_[h] \subseteq completed /\ h \notin completed
      BY <2>2, <2>3, <2>4 DEF TMP!IInv, TMP!DependenciesMet, TMP!IterationPartition
    <2>6. \A d \in parents_[h] : d \in Tasks /\ Status(d) = "finished"
      BY <2>4, <2>5, CompletedFinished
    <2>7. h \notin finished
      BY <1>1, <2>1, <2>5 DEF FlightInv, TaskInv, HeldBy, Busy
    <2>8. Status(h) = "waiting" /\ Status(h)' = "running"
      BY <1>4, <1>6, <2>1, <2>2, <2>7 DEF Status, Running
    <2>9. \A t \in Tasks : t # h => Status(t)' = Status(t)
      BY <1>2, <1>4 DEF Status, Running
    <2>10. Iter!Start(h)
      BY <1>2, <2>1, <2>6, <2>8, <2>9 DEF Iter!Start
    <2>. QED
      BY <1>2, <2>1, <2>10 DEF Iter!Next
  <1>. QED
    BY <1>5, <1>6

\* Return of Run() finishes the task.
LEMMA FinishStep ==
  ASSUME IInv, FlightInv, NEW w \in Workers, RunTask(w), ~aborted
  PROVE  [Iter!Next]_(Iter!vars)
  <1>0. PICK d : d = task_id[w]
    OBVIOUS
  <1>1. /\ worker[w] = "run" /\ worker' = [worker EXCEPT ![w] = "done"]
        /\ worker \in [Workers -> {"new", "get", "blocked", "run", "done", "exited"}]
        /\ finished' = finished \union {d}
        /\ UNCHANGED <<task_id, parents_, iter_count_, aborted>>
    BY <1>0 DEF RunTask, tmVars, ioVars, IInv, TypeOK
  <1>2. d \in Tasks /\ Running(d) /\ HeldBy(d, w)
    BY <1>0, <1>1 DEF IInv, ThreadInv, TypeOK, Busy, Running, HeldBy
  <1>3. \A v \in Workers : HeldBy(d, v) => v = w
    BY <1>2 DEF FlightInv, TaskInv
  <1>4. \A t \in Tasks : Running(t)' <=> Running(t) /\ t # d
    BY <1>1, <1>2, <1>3 DEF Running, HeldBy, Busy
  <1>5. Status(d) = "running" /\ Status(d)' = "finished"
    BY <1>1, <1>2, <1>4 DEF Status, Running
  <1>6. \A t \in Tasks : t # d => Status(t)' = Status(t)
    BY <1>1, <1>4 DEF Status, Running
  <1>7. Iter!Finish(d)
    BY <1>1, <1>2, <1>5, <1>6 DEF Iter!Finish
  <1>. QED
    BY <1>1, <1>2, <1>7 DEF Iter!Next

\* RunIteration() returns with every task finished and none running.
LEMMA AdvanceStep ==
  ASSUME IInv, FlightInv, IterationReturns, ~aborted
  PROVE  [Iter!Next]_(Iter!vars)
  <1>1. TMP!IInv /\ TMP!TaskId = Tasks /\ finalised_
    BY TaskIdIsTasks DEF IInv, ManagerInv, IterationReturns, InIteration
  <1>2. assigned_tasks_ = {} /\ completed = Tasks
    <2>1. assigned_tasks_ = {} /\ pending_tasks_ = {} /\ ready_tasks_ = <<>>
      BY DEF IterationReturns, TM!IterCompleted
    <2>2. TMP!Elements(ready_tasks_) = {}
      BY <2>1 DEF TMP!Elements
    <2>. QED
      BY <1>1, <2>1, <2>2 DEF TMP!IInv, TMP!IterationPartition
  <1>3. \A t \in Tasks : Status(t) = "finished"
    BY <1>1, <1>2, CompletedFinished
  <1>4. \A t \in Tasks : ~Running(t)
    BY <1>2, RunningTask
  <1>5. finished' = {} /\ UNCHANGED <<worker, task_id, parents_, aborted>>
        /\ iter_count_' = iter_count_ + 1
    BY DEF IterationReturns, TM!IterReset, TM!graphVars, workVars
  <1>6. \A t \in Tasks : Status(t)' = "waiting"
    BY <1>4, <1>5 DEF Status, Running
  <1>7. Iter!Advance
    BY <1>3, <1>5, <1>6 DEF Iter!Advance
  <1>. QED
    BY <1>5, <1>7 DEF Iter!Next

\* invalid_type abandons an iteration whose popped task has not finished.
LEMMA AbandonStep ==
  ASSUME IInv, FlightInv, EnqueueTaskThrows, ~aborted
  PROVE  [Iter!Next]_(Iter!vars)
  <1> DEFINE n == TM!NextReady
  <1>1. n \in Tasks /\ n \notin assigned_tasks_ /\ n \notin completed
    BY PoppedTask DEF EnqueueTaskThrows
  <1> HIDE DEF n
  <1>2. n \notin finished
    BY <1>1 DEF FlightInv, TaskInv, HeldBy, Busy
  <1>3. Status(n) # "finished"
    BY <1>2 DEF Status
  <1>4. aborted' = TRUE /\ UNCHANGED <<worker, task_id, finished, parents_, iter_count_>>
    BY DEF EnqueueTaskThrows, TM!IterTaskPop, TM!graphVars, workVars, ioVars
  <1>5. [t \in Tasks |-> Status(t)]' = [t \in Tasks |-> Status(t)]
    BY <1>4, StatusUnchanged
  <1>6. Iter!Abandon
    BY <1>1, <1>3, <1>4, <1>5 DEF Iter!Abandon
  <1>. QED
    BY <1>6 DEF Iter!Next

(***************************************************************************)
(* RunIteration() runs every task once per iteration, after all it depends *)
(* on, up to the first abandoned iteration.                                *)
(***************************************************************************)
THEOREM SchedulerImplementsIteration == Spec => ImplementsIteration
  <1>1. Init => Iter!Init
    <2> SUFFICES ASSUME Init PROVE Iter!Init
      OBVIOUS
    <2>1. \A t \in Tasks : Status(t) = "waiting"
      BY DEF Init, Status
    <2>2. parents_ \in [Tasks -> SUBSET Tasks] /\ iter_count_ \in Nat /\ aborted = FALSE
      BY ConstantsAssumption DEF Init
    <2>. QED
      BY <2>1, <2>2 DEF Iter!Init
  <1>2. IInv /\ [Next]_vars => [Iter!Next]_(Iter!vars)
    <2> SUFFICES ASSUME IInv, [Next]_vars PROVE [Iter!Next]_(Iter!vars)
      OBVIOUS
    <2> USE DEF confVars, ioVars, doneVars, dtorVars, workVars, histVars
    <2>1. CASE aborted
      <3>1. aborted'
        BY <2>1 DEF Next, vars, Configure, MainStep, WorkerStep, Ended, CreateQueue, AssignType,
           RunIteration, Destroy, EnqueueTask, EnqueueTaskThrows, AwaitDone, Woken, DrainOne,
           DrainThrows, ScheduleMore, IterationReturns, EnqueueTerm, Join, Destroyed,
           MainSpuriousWakeup, GetNextTaskWaits, GetNextTask, RunTask, TaskDone,
           TaskDoneTooLate, SpuriousWakeup, RunTaskThrows
      <3>. QED
        BY <2>1, <3>1 DEF Iter!Next
    <2>2. CASE ~aborted
      <3>1. TypeOK /\ ThreadInv /\ FlightInv
        BY <2>2 DEF IInv
      <3>2. ASSUME UNCHANGED <<task_id, finished, parents_, iter_count_, aborted>>,
                   \A w \in Workers : worker[w] = "run" <=> worker'[w] = "run"
            PROVE  UNCHANGED Iter!vars
        BY <3>2, StatusUnchanged DEF Iter!vars
      <3>3. CASE CreateQueue
        <4>1. \A w \in Workers : QueueOf[w] \in Nat
          BY ConstantsAssumption DEF Queues
        <4>2. \A w \in Workers : worker[w] = "run" <=> worker'[w] = "run"
          BY <3>1, <3>3, <4>1 DEF CreateQueue, ThreadInv, TypeOK
        <4>. QED
          BY <3>2, <3>3, <4>2 DEF CreateQueue, tmVars
      <3>4. ASSUME NEW r \in Queues, NEW y \in Types, AssignType(r, y)
            PROVE  UNCHANGED Iter!vars
        BY <3>2, <3>4 DEF AssignType, tmVars
      <3>5. CASE RunIteration
        <4>1. finished \subseteq Tasks /\ assigned_tasks_ = {} /\ completed = {}
          BY <3>1, <3>5 DEF RunIteration, FlightInv, TypeOK
        <4>2. finished = {}
          BY <3>1, <4>1 DEF FlightInv, TaskInv, HeldBy, Busy
        <4>. QED
          BY <3>2, <3>5, <4>2 DEF RunIteration, TM!Finalise, TM!graphVars
      <3>6. CASE AwaitDone \/ Woken \/ ScheduleMore \/ MainSpuriousWakeup \/ Destroyed \/ Join
                 \/ Destroy \/ DrainThrows
        BY <3>2, <3>6 DEF AwaitDone, Woken, ScheduleMore, MainSpuriousWakeup, Destroyed, Join,
           Destroy, DrainThrows, tmVars
      <3>7. CASE DrainOne
        BY <3>2, <3>7 DEF DrainOne, TM!IterTaskDone, TM!graphVars
      <3>8. ASSUME NEW r \in Queues, NEW id \in Tasks \union {Term}, Enqueue(r, id),
                   UNCHANGED <<finished, parents_, iter_count_, aborted>>
            PROVE  UNCHANGED Iter!vars
        <4>1. /\ task_id' = task_id
              /\ \A w \in Workers : worker[w] = "run" <=> worker'[w] = "run"
          BY <3>1, <3>8, EnqueueEffect DEF Blocked, TypeOK
        <4>. QED
          BY <3>2, <3>8, <4>1
      <3>9. CASE EnqueueTask
        <4>1. TM!NextReady \in Tasks \union {Term} /\ route_[TypeOf[TM!NextReady]] \in Queues
          BY <3>1, <3>9, PoppedTask, ConstantsAssumption DEF EnqueueTask, TypeOK
        <4>. QED
          BY <3>8, <3>9, <4>1 DEF EnqueueTask, TM!IterTaskPop, TM!graphVars
      <3>10. CASE EnqueueTerm
        <4>1. dying \in Queues
          BY <3>1, <3>10, ConstantsAssumption DEF EnqueueTerm, TypeOK, ThreadInv, Queues
        <4>. QED
          BY <3>8, <3>10, <4>1 DEF EnqueueTerm, tmVars
      <3>11. ASSUME NEW w \in Workers,
                    GetNextTaskWaits(w) \/ SpuriousWakeup(w) \/ RunTaskThrows(w) \/ TaskDone(w)
                      \/ TaskDoneTooLate(w)
             PROVE  UNCHANGED Iter!vars
        <4>1. \A v \in Workers : worker[v] = "run" <=> worker'[v] = "run"
          BY <3>1, <3>11 DEF GetNextTaskWaits, SpuriousWakeup, RunTaskThrows, TaskDone,
             TaskDoneTooLate, TypeOK
        <4>. QED
          BY <3>2, <3>11, <4>1 DEF GetNextTaskWaits, SpuriousWakeup, RunTaskThrows, TaskDone,
             TaskDoneTooLate, tmVars
      <3>12. CASE UNCHANGED vars
        BY <3>2, <3>12 DEF vars, tmVars
      <3>. QED
        BY <2>2, <3>1, <3>3, <3>4, <3>5, <3>6, <3>7, <3>9, <3>10, <3>11, <3>12, StartStep,
           FinishStep, AdvanceStep, AbandonStep
           DEF Next, Configure, MainStep, WorkerStep, Ended
    <2>. QED
      BY <2>1, <2>2
  <1>. QED
    BY <1>1, <1>2, SchedulerInductive, PTL DEF Spec, ImplementsIteration, Iter!Spec

=============================================================================
