----------------------------- MODULE Scheduler -----------------------------
(***************************************************************************)
(* flame::exe::Scheduler driving a TaskManager, its FIFOTaskQueues and     *)
(* their WorkerThreads (flame2/exe/scheduler.cpp, fifo_task_queue.cpp,     *)
(* worker_thread.cpp).                                                     *)
(*                                                                         *)
(* One process is the main thread, which owns the Scheduler and calls      *)
(* RunIteration() and the destructor; the others are the workers of the    *)
(* queues.  A critical section that takes one mutex and calls nothing that *)
(* blocks is one action.  The exception is the draining of doneq_, during  *)
(* which the main thread keeps doneq_mutex_ over several steps.  Condition *)
(* variables may wake a thread spuriously.                                 *)
(***************************************************************************)
EXTENDS Naturals, Sequences, FiniteSets

CONSTANTS
  NumTasks,    \* tasks registered with the TaskManager
  Graphs,      \* dependency graphs to consider: functions parents_
  Types,       \* task types
  TypeOf,      \* the type of each task
  NumQueues,   \* queues the client creates, in the order 1..NumQueues
  Workers,     \* worker threads of all queues
  QueueOf,     \* the queue each worker serves
  MaxCalls,    \* bound on the calls of RunIteration()
  Throwing     \* tasks whose Run() may throw

Tasks  == 1..NumTasks
Queues == 1..NumQueues
Term   == 0          \* Task::GetTermTaskId(), an id no task has
None   == 0          \* no queue: the type is not in route_

ASSUME ConstantsAssumption ==
  /\ NumTasks \in Nat /\ NumQueues \in Nat \ {0} /\ MaxCalls \in Nat
  /\ Graphs \subseteq [Tasks -> SUBSET Tasks]
  /\ TypeOf \in [Tasks -> Types]
  /\ QueueOf \in [Workers -> Queues]
  /\ IsFiniteSet(Workers)
  /\ \A q \in Queues : \E w \in Workers : QueueOf[w] = q
  /\ Throwing \subseteq Tasks

VARIABLES
  tasks_, parents_, children_, roots_, leaves_, finalised_,     \* TaskManager
  pending_deps_, ready_tasks_, pending_tasks_, assigned_tasks_, completed,
  main,        \* where the main thread is
  created,     \* number of queues created: queues_.size()
  route_,      \* queue assigned to each task type, or None
  doneq_,      \* completions not yet seen by the main thread
  doneqAlive,  \* doneq_ has not been destroyed
  iter_count_, \* number of the next iteration
  ioIteration, \* the iteration IOManager has been told
  queue_,      \* queue_[q]: the task ids in queue q
  worker,      \* worker[w]: where worker w is
  task_id,     \* task_id[w]: the task worker w holds
  dying,       \* the queue whose destructor runs
  terms,       \* Term ids that destructor has enqueued
  calls,       \* calls of RunIteration() so far
  finished,    \* history: tasks whose Run() has returned in this iteration
  aborted      \* history: an iteration was left with tasks still queued or running

tmVars == <<tasks_, parents_, children_, roots_, leaves_, finalised_,
            pending_deps_, ready_tasks_, pending_tasks_, assigned_tasks_, completed>>
confVars == <<created, route_>>
ioVars   == <<iter_count_, ioIteration>>
doneVars == <<doneq_, doneqAlive>>
dtorVars == <<dying, terms>>
workVars == <<queue_, worker, task_id>>
histVars == <<finished, aborted>>
vars == <<tmVars, main, confVars, doneVars, ioVars, workVars, dtorVars, calls, histVars>>

TM == INSTANCE TaskManager WITH Names <- Tasks, Debug <- FALSE, TestBuild <- FALSE

WorkersOf(q) == {w \in Workers : QueueOf[w] = q}
Slots(q) == Cardinality(WorkersOf(q))

(***************************************************************************)
(* The client has registered NumTasks tasks and their dependencies.        *)
(***************************************************************************)
Init ==
  /\ tasks_ = [t \in Tasks |-> t]
  /\ parents_ \in Graphs
  /\ children_ = [d \in Tasks |-> {t \in Tasks : d \in parents_[t]}]
  /\ roots_ = {t \in Tasks : parents_[t] = {}}
  /\ leaves_ = {t \in Tasks : children_[t] = {}}
  /\ finalised_ = FALSE
  /\ pending_deps_ = <<>> /\ ready_tasks_ = <<>> /\ pending_tasks_ = {}
  /\ assigned_tasks_ = {} /\ completed = {}
  /\ main = "idle"
  /\ created = 0
  /\ route_ = [y \in Types |-> None]
  /\ doneq_ = <<>> /\ doneqAlive = TRUE
  /\ iter_count_ = 1 /\ ioIteration = 0
  /\ queue_ = [q \in Queues |-> <<>>]
  /\ worker = [w \in Workers |-> "new"]
  /\ task_id = [w \in Workers |-> Term]
  /\ dying = 0 /\ terms = 0
  /\ calls = 0
  /\ finished = {} /\ aborted = FALSE

-----------------------------------------------------------------------------
(***************************************************************************)
(* FIFOTaskQueue, under its mutex_.                                        *)
(***************************************************************************)

\* ready_.notify_one(): some blocked worker of the queue wakes up, if there is one.
NotifyOne(q) ==
  LET blocked == {w \in WorkersOf(q) : worker[w] = "blocked"}
  IN  IF blocked = {} THEN UNCHANGED worker
                      ELSE \E w \in blocked : worker' = [worker EXCEPT ![w] = "get"]

Enqueue(q, id) ==
  /\ queue_' = [queue_ EXCEPT ![q] = Append(@, id)]
  /\ NotifyOne(q)
  /\ UNCHANGED task_id

\* The wait in GetNextTask() releases the mutex; the loop tests again on waking.
GetNextTaskWaits(w) ==
  /\ worker[w] = "get"
  /\ queue_[QueueOf[w]] = <<>>
  /\ worker' = [worker EXCEPT ![w] = "blocked"]
  /\ UNCHANGED <<tmVars, main, confVars, doneVars, ioVars, queue_, task_id,
                 dtorVars, calls, histVars>>

\* Mutant: front() without pop().
GetNextTaskNoPop(w) ==
  LET q == QueueOf[w] IN
  /\ worker[w] = "get"
  /\ queue_[q] # <<>>
  /\ task_id' = [task_id EXCEPT ![w] = Head(queue_[q])]
  /\ worker' = [worker EXCEPT ![w] = IF Head(queue_[q]) = Term THEN "exited" ELSE "run"]
  /\ UNCHANGED <<tmVars, main, confVars, doneVars, ioVars, queue_, dtorVars, calls,
                 histVars>>

\* GetNextTask() returns; ProcessQueue() leaves its loop on the termination task.
GetNextTask(w) ==
  LET q == QueueOf[w] IN
  /\ worker[w] = "get"
  /\ queue_[q] # <<>>
  /\ queue_' = [queue_ EXCEPT ![q] = Tail(@)]
  /\ task_id' = [task_id EXCEPT ![w] = Head(queue_[q])]
  /\ worker' = [worker EXCEPT ![w] = IF Head(queue_[q]) = Term THEN "exited" ELSE "run"]
  /\ UNCHANGED <<tmVars, main, confVars, doneVars, ioVars, dtorVars, calls, histVars>>

\* boost::condition_variable::wait may return without a notification.
SpuriousWakeup(w) ==
  /\ worker[w] = "blocked"
  /\ worker' = [worker EXCEPT ![w] = "get"]
  /\ UNCHANGED <<tmVars, main, confVars, doneVars, ioVars, queue_, task_id,
                 dtorVars, calls, histVars>>

\* RunTask(): Task::Run() of the held task returns.
RunTask(w) ==
  /\ worker[w] = "run"
  /\ worker' = [worker EXCEPT ![w] = "done"]
  /\ finished' = finished \union {task_id[w]}
  /\ UNCHANGED <<tmVars, main, confVars, doneVars, ioVars, queue_, task_id,
                 dtorVars, calls, aborted>>

\* No handler surrounds ProcessQueue(): an exception of a task ends the process.
RunTaskThrows(w) ==
  /\ worker[w] = "run"
  /\ task_id[w] \in Throwing
  /\ main' = "terminated"
  /\ UNCHANGED <<tmVars, confVars, doneVars, ioVars, workVars, dtorVars, calls, histVars>>

\* Mutant: the callback does not notify doneq_cond_.
TaskDoneSilent(w) ==
  /\ worker[w] = "done"
  /\ main # "drain"
  /\ doneqAlive
  /\ doneq_' = Append(doneq_, task_id[w])
  /\ worker' = [worker EXCEPT ![w] = "get"]
  /\ UNCHANGED <<tmVars, main, confVars, doneqAlive, ioVars, queue_, task_id, dtorVars,
                 calls, histVars>>

(***************************************************************************)
(* FIFOTaskQueue::TaskDone() runs Scheduler::TaskDoneCallback() under      *)
(* doneq_mutex_, which the main thread holds while it drains doneq_.       *)
(***************************************************************************)
TaskDone(w) ==
  /\ worker[w] = "done"
  /\ main # "drain"
  /\ doneqAlive
  /\ doneq_' = Append(doneq_, task_id[w])
  /\ main' = IF main = "waiting" THEN "woken" ELSE main
  /\ worker' = [worker EXCEPT ![w] = "get"]
  /\ UNCHANGED <<tmVars, confVars, doneqAlive, ioVars, queue_, task_id, dtorVars,
                 calls, histVars>>

\* push_back on the destroyed vector: it may go unnoticed or end the process.
TaskDoneTooLate(w) ==
  /\ worker[w] = "done"
  /\ ~doneqAlive
  /\ \/ worker' = [worker EXCEPT ![w] = "get"] /\ UNCHANGED main
     \/ main' = "terminated" /\ UNCHANGED worker
  /\ UNCHANGED <<tmVars, confVars, doneVars, ioVars, queue_, task_id, dtorVars,
                 calls, histVars>>

-----------------------------------------------------------------------------
(***************************************************************************)
(* The main thread: configuration.                                         *)
(***************************************************************************)

\* RunIteration() has returned or thrown; the client may call again in both cases.
ClientHasControl == main \in {"idle", "threw"}

\* CreateQueue<FIFOTaskQueue>(slots) starts the workers of the new queue.
CreateQueue ==
  /\ ClientHasControl
  /\ created < NumQueues
  /\ created' = created + 1
  /\ worker' = [w \in Workers |->
                  IF QueueOf[w] = created + 1 THEN "get" ELSE worker[w]]
  /\ UNCHANGED <<tmVars, main, route_, doneVars, ioVars, queue_, task_id, dtorVars,
                 calls, histVars>>

\* A type is assigned once, to a queue that exists.
AssignType(q, type) ==
  /\ ClientHasControl
  /\ q <= created
  /\ route_[type] = None
  /\ route_' = [route_ EXCEPT ![type] = q]
  /\ UNCHANGED <<tmVars, main, created, doneVars, ioVars, workVars, dtorVars,
                 calls, histVars>>

-----------------------------------------------------------------------------
(***************************************************************************)
(* The main thread: RunIteration().                                        *)
(***************************************************************************)

\* Mutant: IOManager is not told the number of the iteration.
RunIterationIoStale ==
  /\ ClientHasControl
  /\ calls < MaxCalls
  /\ calls' = calls + 1
  /\ TM!Finalise
  /\ main' = IF ready_tasks_' = <<>> THEN "threw" ELSE "schedule"
  /\ finished' = {}
  /\ UNCHANGED <<confVars, doneVars, ioVars, workVars, dtorVars, aborted>>

\* Finalise() resets the iteration; without a runnable task the call throws.
RunIteration ==
  /\ ClientHasControl
  /\ calls < MaxCalls
  /\ calls' = calls + 1
  /\ TM!Finalise
  /\ ioIteration' = iter_count_
  /\ main' = IF ready_tasks_' = <<>> THEN "threw" ELSE "schedule"
  /\ finished' = {}
  /\ UNCHANGED <<confVars, doneVars, iter_count_, workVars, dtorVars, aborted>>

\* EnqueueTask(tm.IterTaskPop()): the popped task goes to the queue of its type.
EnqueueTask ==
  /\ main = "schedule"
  /\ TM!IterTaskPop
  /\ route_[TypeOf[TM!NextReady]] # None
  /\ Enqueue(route_[TypeOf[TM!NextReady]], TM!NextReady)
  /\ UNCHANGED <<main, confVars, doneVars, ioVars, dtorVars, calls, histVars>>

\* invalid_type leaves RunIteration() with the task popped and others in the queues.
EnqueueTaskThrows ==
  /\ main = "schedule"
  /\ TM!IterTaskPop
  /\ route_[TypeOf[TM!NextReady]] = None
  /\ main' = "threw"
  /\ aborted' = TRUE
  /\ UNCHANGED <<confVars, doneVars, ioVars, workVars, dtorVars, calls, finished>>

\* Mutant: wait without testing doneq_.
AwaitDoneBlindly ==
  /\ main = "schedule"
  /\ ~TM!IterTaskAvailable
  /\ main' = "waiting"
  /\ UNCHANGED <<tmVars, confVars, doneVars, ioVars, workVars, dtorVars, calls, histVars>>

\* Nothing is ready: take doneq_mutex_, and wait once if doneq_ is empty.
AwaitDone ==
  /\ main = "schedule"
  /\ ~TM!IterTaskAvailable
  /\ main' = IF doneq_ = <<>> THEN "waiting" ELSE "drain"
  /\ UNCHANGED <<tmVars, confVars, doneVars, ioVars, workVars, dtorVars, calls, histVars>>

MainSpuriousWakeup ==
  /\ main = "waiting"
  /\ main' = "woken"
  /\ UNCHANGED <<tmVars, confVars, doneVars, ioVars, workVars, dtorVars, calls, histVars>>

\* The wait returns with the mutex held.  doneq_ is not tested again by an inner
\* loop: if it is empty there is nothing to drain and the outer loop goes round.
Woken ==
  /\ main = "woken"
  /\ main' = IF doneq_ = <<>> THEN "schedule" ELSE "drain"
  /\ UNCHANGED <<tmVars, confVars, doneVars, ioVars, workVars, dtorVars, calls, histVars>>

\* Mutant: the last completion is handled and the first one removed.
DrainOneWrongEnd ==
  /\ main = "drain"
  /\ doneq_ # <<>>
  /\ TM!IterTaskDone(doneq_[Len(doneq_)])
  /\ doneq_' = Tail(doneq_)
  /\ UNCHANGED <<main, confVars, doneqAlive, ioVars, workVars, dtorVars, calls, histVars>>

\* tm.IterTaskDone(doneq_.back()); doneq_.pop_back().
DrainOne ==
  /\ main = "drain"
  /\ doneq_ # <<>>
  /\ TM!IterTaskDone(doneq_[Len(doneq_)])
  /\ doneq_' = SubSeq(doneq_, 1, Len(doneq_) - 1)
  /\ UNCHANGED <<main, confVars, doneqAlive, ioVars, workVars, dtorVars, calls, histVars>>

\* IterTaskDone() throws on a task it has not assigned; the id stays in doneq_.
DrainThrows ==
  /\ main = "drain"
  /\ doneq_ # <<>>
  /\ doneq_[Len(doneq_)] \notin assigned_tasks_
  /\ main' = "threw"
  /\ UNCHANGED <<tmVars, confVars, doneVars, ioVars, workVars, dtorVars, calls, histVars>>

\* doneq_ is empty and its mutex released, but the iteration goes on.
ScheduleMore ==
  /\ main = "drain"
  /\ doneq_ = <<>>
  /\ ~TM!IterCompleted
  /\ main' = "schedule"
  /\ UNCHANGED <<tmVars, confVars, doneVars, ioVars, workVars, dtorVars, calls, histVars>>

\* Mutant: returns as soon as no task is ready, with tasks pending or assigned.
IterationReturnsEarly ==
  /\ main = "drain"
  /\ doneq_ = <<>>
  /\ ready_tasks_ = <<>>
  /\ TM!IterReset
  /\ iter_count_' = iter_count_ + 1
  /\ main' = "idle"
  /\ finished' = {}
  /\ UNCHANGED <<confVars, doneVars, ioIteration, workVars, dtorVars, calls, aborted>>

\* All tasks completed: IterReset(), ++iter_count_, return.
IterationReturns ==
  /\ main = "drain"
  /\ doneq_ = <<>>
  /\ TM!IterCompleted
  /\ TM!IterReset
  /\ iter_count_' = iter_count_ + 1
  /\ main' = "idle"
  /\ finished' = {}
  /\ UNCHANGED <<confVars, doneVars, ioIteration, workVars, dtorVars, calls, aborted>>

-----------------------------------------------------------------------------
(***************************************************************************)
(* The main thread: destruction.  Members go in reverse order of           *)
(* declaration: doneq_ first, then route_, then the queues, each of which  *)
(* enqueues one termination task per worker and joins its workers.         *)
(***************************************************************************)
Destroy ==
  /\ ClientHasControl
  /\ main' = "terminate"
  /\ doneqAlive' = FALSE
  /\ dying' = 1 /\ terms' = 0
  /\ UNCHANGED <<tmVars, confVars, doneq_, ioVars, workVars, calls, histVars>>

\* Mutant: one termination task for all workers of the queue.
EnqueueTermOnce ==
  /\ main = "terminate"
  /\ dying <= created
  /\ terms < Slots(dying)
  /\ Enqueue(dying, Term)
  /\ terms' = Slots(dying)
  /\ UNCHANGED <<tmVars, main, confVars, doneVars, ioVars, dying, calls, histVars>>

EnqueueTerm ==
  /\ main = "terminate"
  /\ dying <= created
  /\ terms < Slots(dying)
  /\ Enqueue(dying, Term)
  /\ terms' = terms + 1
  /\ UNCHANGED <<tmVars, main, confVars, doneVars, ioVars, dying, calls, histVars>>

\* join() returns for every worker of the queue; on to the next queue.
Join ==
  /\ main = "terminate"
  /\ dying <= created
  /\ terms = Slots(dying)
  /\ \A w \in WorkersOf(dying) : worker[w] = "exited"
  /\ dying' = dying + 1 /\ terms' = 0
  /\ UNCHANGED <<tmVars, main, confVars, doneVars, ioVars, workVars, calls, histVars>>

Destroyed ==
  /\ main = "terminate"
  /\ dying > created
  /\ main' = "destroyed"
  /\ UNCHANGED <<tmVars, confVars, doneVars, ioVars, workVars, dtorVars, calls, histVars>>

-----------------------------------------------------------------------------
Configure == CreateQueue \/ \E q \in Queues, y \in Types : AssignType(q, y)

\* Steps of the main thread inside a call, which it always goes on with.
MainStep ==
  \/ EnqueueTask \/ EnqueueTaskThrows \/ AwaitDone \/ Woken
  \/ DrainOne \/ DrainThrows \/ ScheduleMore \/ IterationReturns
  \/ EnqueueTerm \/ Join \/ Destroyed

WorkerStep(w) ==
  \/ GetNextTaskWaits(w) \/ GetNextTask(w)
  \/ RunTask(w) \/ TaskDone(w) \/ TaskDoneTooLate(w)

\* The process has ended, or the Scheduler is gone and the client does not return.
Ended == main \in {"terminated", "destroyed"} /\ UNCHANGED vars

Next ==
  \/ /\ main # "terminated"
     /\ \/ Configure
        \/ RunIteration
        \/ Destroy
        \/ MainStep
        \/ MainSpuriousWakeup
        \/ \E w \in Workers : WorkerStep(w) \/ SpuriousWakeup(w) \/ RunTaskThrows(w)
  \/ Ended

(***************************************************************************)
(* Every thread that can take a step is eventually scheduled, and every    *)
(* Task::Run() returns.  Weak fairness suffices for the mutexes too: the   *)
(* main thread leaves doneq_mutex_ after finitely many steps.  Nothing is  *)
(* assumed of the client or of spurious wakeups.                           *)
(***************************************************************************)
Fairness ==
  /\ WF_vars(main # "terminated" /\ MainStep)
  /\ \A w \in Workers : WF_vars(main # "terminated" /\ WorkerStep(w))

Spec == Init /\ [][Next]_vars /\ Fairness

-----------------------------------------------------------------------------
(***************************************************************************)
(* Properties.                                                             *)
(***************************************************************************)

\* Threads are at one of their program points, and queues hold task ids; only a
\* destructor puts termination ids into a queue.
TypeOK ==
  /\ main \in {"idle", "schedule", "waiting", "woken", "drain", "threw",
               "terminate", "destroyed", "terminated"}
  /\ worker \in [Workers -> {"new", "get", "blocked", "run", "done", "exited"}]
  /\ task_id \in [Workers -> Tasks \union {Term}]
  /\ queue_ \in [Queues -> Seq(Tasks \union {Term})]
  /\ doneq_ \in Seq(Tasks)
  /\ route_ \in [Types -> Queues \union {None}]
  /\ created \in 0..NumQueues
  /\ iter_count_ \in Nat /\ ioIteration \in Nat /\ calls \in 0..MaxCalls
  /\ finished \subseteq Tasks /\ aborted \in BOOLEAN
  /\ doneqAlive \in BOOLEAN
  /\ dying \in 0..NumQueues + 1 /\ terms \in Nat

InIteration == main \in {"schedule", "waiting", "woken", "drain"}

\* Places a task can be between EnqueueTask and IterTaskDone.
Queued(t)   == UNION {{q} \X {i \in 1..Len(queue_[q]) : queue_[q][i] = t} : q \in Queues}
Held(t)     == {w \in Workers : worker[w] \in {"run", "done"} /\ task_id[w] = t}
Reported(t) == {i \in 1..Len(doneq_) : doneq_[i] = t}
Copies(t)   == Cardinality(Queued(t)) + Cardinality(Held(t)) + Cardinality(Reported(t))

\* No task is lost or run twice on its way through queue, worker and doneq_: while
\* an iteration runs, an assigned task is in exactly one of these places, and a
\* task that is not assigned is in none.  Tasks left over from an aborted iteration
\* are the exception: the next call enqueues them once more.
AssignedAccounted ==
  (InIteration /\ ~aborted) =>
    \A t \in Tasks : Copies(t) = IF t \in assigned_tasks_ THEN 1 ELSE 0

\* "A call to this method is blocking and returns once all tasks have been
\* completed": when RunIteration() has returned no task is queued, running or
\* waiting to be reported, unless an earlier call was aborted.
ReturnsWhenAllDone ==
  (main = "idle" /\ ~aborted) => \A t \in Tasks : Copies(t) = 0

\* A worker reports to doneq_ only while it exists.  Destruction starts with
\* doneq_, before the workers are joined, so this needs every task to be through by
\* then; that is so when no iteration was aborted.
CallbackTargetAlive ==
  (~doneqAlive /\ ~aborted) =>
    \A t \in Tasks : Copies(t) = 0

\* No wakeup is lost: the main thread never sleeps on a reported completion, and a
\* queue with a task in it always has a worker that is awake.
NoLostWakeup ==
  /\ main = "waiting" => doneq_ = <<>>
  /\ \A q \in Queues :
       queue_[q] # <<>> => \E w \in WorkersOf(q) : worker[w] \notin {"blocked", "exited"}

\* While any task runs IOManager holds the number of the iteration in progress: it
\* is not moved on while an output task of the previous iteration still runs.
IoIterationCurrent ==
  (~aborted /\ \E w \in Workers : worker[w] = "run") => ioIteration = iter_count_

(***************************************************************************)
(* RunIteration() implements the promise of module Iteration: a task is    *)
(* running while a worker is inside Run(), finished once it has returned.  *)
(***************************************************************************)
Status(t) ==
  IF \E w \in Workers : worker[w] = "run" /\ task_id[w] = t THEN "running"
  ELSE IF t \in finished THEN "finished" ELSE "waiting"

Iter == INSTANCE Iteration WITH
          deps <- parents_,
          status <- [t \in Tasks |-> Status(t)],
          iteration <- iter_count_,
          abandoned <- aborted

\* Every task runs once per iteration, after its dependencies have finished, up to
\* the first iteration that is abandoned.
ImplementsIteration == Iter!Spec

\* RunIteration() returns or throws: whatever wakeups and orders of completion
\* there are, late completions of an aborted iteration included, it does not wait
\* for ever on an acyclic graph.
RunIterationReturns ==
  (main = "schedule") ~> (main \in {"idle", "threw", "terminated"})

\* The destructor ends: each worker gets a termination task behind its last task.
DestructorReturns == (main = "terminate") ~> (main \in {"destroyed", "terminated"})

=============================================================================
