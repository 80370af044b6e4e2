---------------------------- MODULE TaskManager ----------------------------
(***************************************************************************)
(* flame::exe::TaskManager: the registry of tasks, their dependency graph  *)
(* and the bookkeeping of one iteration over that graph                    *)
(* (flame2/exe/task_manager.cpp).                                          *)
(*                                                                         *)
(* A C++ vector is a sequence here, so the task id i stands for the C++    *)
(* index i - 1.  A call whose guard is false throws in the code and        *)
(* changes nothing; no action is taken for it.                             *)
(***************************************************************************)
EXTENDS Naturals, Sequences, FiniteSets

CONSTANTS
  Names,      \* task names a client may register
  Debug,      \* the build defines DEBUG: AddDependency looks for cycles
  TestBuild   \* the build defines TESTBUILD: Reset() exists

ASSUME BuildAssumption == Debug \in BOOLEAN /\ TestBuild \in BOOLEAN

VARIABLES
  tasks_,          \* the name of each task; name_map_ is the inverse
  parents_,        \* parents_[t]: the dependencies of t
  children_,       \* children_[t]: the dependents of t
  roots_,          \* tasks without a dependency
  leaves_,         \* tasks without a dependent
  finalised_,      \* Finalise() has been called
  pending_deps_,   \* pending_deps_[t]: dependencies of t not yet fulfilled
  ready_tasks_,    \* vector used as a stack of tasks ready for execution
  pending_tasks_,  \* tasks that are not yet ready
  assigned_tasks_, \* tasks popped and not yet completed
  completed        \* history: tasks completed in this iteration

graphVars == <<tasks_, parents_, children_, roots_, leaves_>>
iterVars  == <<pending_deps_, ready_tasks_, pending_tasks_, assigned_tasks_,
               completed>>
vars      == <<graphVars, finalised_, iterVars>>

TaskId == 1..Len(tasks_)

\* The values of the elements of a vector.
Elements(s) == {s[i] : i \in 1..Len(s)}

\* No value occurs twice in a vector.
Distinct(s) == \A i, j \in 1..Len(s) : s[i] = s[j] => i = j

\* A std::set iterated from begin() to end(): its elements in ascending order.
Ascending(S) ==
  {s \in [1..Cardinality(S) -> S] :
     /\ \A i, j \in 1..Cardinality(S) : i < j => s[i] < s[j]
     /\ {s[i] : i \in 1..Cardinality(S)} = S}

Init ==
  /\ tasks_ = <<>>
  /\ parents_ = <<>>
  /\ children_ = <<>>
  /\ roots_ = {}
  /\ leaves_ = {}
  /\ finalised_ = FALSE
  /\ pending_deps_ = <<>>
  /\ ready_tasks_ = <<>>
  /\ pending_tasks_ = {}
  /\ assigned_tasks_ = {}
  /\ completed = {}

-----------------------------------------------------------------------------
(***************************************************************************)
(* Registration.                                                           *)
(***************************************************************************)

\* Mutant: the vector of children does not grow with the tasks.
RegisterTaskNoChildren(name) ==
  /\ ~finalised_
  /\ name \notin Elements(tasks_)
  /\ tasks_' = Append(tasks_, name)
  /\ parents_' = Append(parents_, {})
  /\ roots_' = roots_ \union {Len(tasks_) + 1}
  /\ leaves_' = leaves_ \union {Len(tasks_) + 1}
  /\ UNCHANGED <<children_, finalised_, iterVars>>

\* Create{Agent,MessageBoard,IO}Task end here; a duplicate name throws.
RegisterTask(name) ==
  /\ ~finalised_
  /\ name \notin Elements(tasks_)
  /\ tasks_' = Append(tasks_, name)
  /\ parents_' = Append(parents_, {})
  /\ children_' = Append(children_, {})
  /\ roots_' = roots_ \union {Len(tasks_) + 1}
  /\ leaves_' = leaves_ \union {Len(tasks_) + 1}
  /\ UNCHANGED <<finalised_, iterVars>>

\* Mutant: only the direct dependencies of target are looked at.
CyclicDirectOnly(task, target) == task \in parents_[target] \union {target}

(***************************************************************************)
(* The depth-first traversal of WillCauseCyclicDependency visits the       *)
(* smallest set that holds target and is closed under parents_; it answers *)
(* true when task is met.                                                  *)
(***************************************************************************)
WillCauseCyclicDependency(task, target) ==
  \A A \in SUBSET TaskId :
    (target \in A /\ \A i \in A : parents_[i] \subseteq A) => task \in A

\* Mutant: the dependency remains a leaf.
AddDependencyKeepsLeaf(task, dependency) ==
  /\ task # dependency
  /\ ~finalised_
  /\ Debug => ~WillCauseCyclicDependency(task, dependency)
  /\ parents_' = [parents_ EXCEPT ![task] = @ \union {dependency}]
  /\ children_' = [children_ EXCEPT ![dependency] = @ \union {task}]
  /\ roots_' = roots_ \ {task}
  /\ UNCHANGED <<tasks_, leaves_, finalised_, iterVars>>

AddDependency(task, dependency) ==
  /\ task # dependency
  /\ ~finalised_
  /\ Debug => ~WillCauseCyclicDependency(task, dependency)
  /\ parents_' = [parents_ EXCEPT ![task] = @ \union {dependency}]
  /\ children_' = [children_ EXCEPT ![dependency] = @ \union {task}]
  /\ roots_' = roots_ \ {task}
  /\ leaves_' = leaves_ \ {dependency}
  /\ UNCHANGED <<tasks_, finalised_, iterVars>>

-----------------------------------------------------------------------------
(***************************************************************************)
(* Iteration.                                                              *)
(***************************************************************************)

ResetIteration ==
  /\ pending_deps_' = parents_
  /\ assigned_tasks_' = {}
  /\ ready_tasks_' \in Ascending(roots_)
  /\ pending_tasks_' = TaskId \ roots_
  /\ completed' = {}

IterReset ==
  /\ finalised_
  /\ ResetIteration
  /\ UNCHANGED <<graphVars, finalised_>>

Finalise ==
  /\ finalised_' = TRUE
  /\ ResetIteration
  /\ UNCHANGED graphVars

IterTaskAvailable == ready_tasks_ # <<>>

IterCompleted ==
  pending_tasks_ = {} /\ assigned_tasks_ = {} /\ ready_tasks_ = <<>>

\* The task IterTaskPop() returns: ready_tasks_.back().
NextReady == ready_tasks_[Len(ready_tasks_)]

IterTaskPop ==
  /\ finalised_
  /\ IterTaskAvailable
  /\ ready_tasks_' = SubSeq(ready_tasks_, 1, Len(ready_tasks_) - 1)
  /\ assigned_tasks_' = assigned_tasks_ \union {NextReady}
  /\ UNCHANGED <<graphVars, finalised_, pending_deps_, pending_tasks_, completed>>

\* Mutant: a dependent is released by the first dependency that completes.
ReleasedAtOnce(task) == {c \in children_[task] : task \in pending_deps_[c]}

\* Dependents of a task that wait for nothing else once it is done.
Released(task) == {c \in children_[task] : pending_deps_[c] \subseteq {task}}

\* Mutant: a released task stays in pending_tasks_.
IterTaskDoneKeepsPending(task) ==
  /\ finalised_
  /\ task \in assigned_tasks_
  /\ assigned_tasks_' = assigned_tasks_ \ {task}
  /\ pending_deps_' = [c \in DOMAIN pending_deps_ |->
                         IF c \in children_[task] THEN pending_deps_[c] \ {task}
                                                  ELSE pending_deps_[c]]
  /\ \E s \in Ascending(Released(task)) : ready_tasks_' = ready_tasks_ \o s
  /\ completed' = completed \union {task}
  /\ UNCHANGED <<graphVars, finalised_, pending_tasks_>>

IterTaskDone(task) ==
  /\ finalised_
  /\ task \in assigned_tasks_
  /\ assigned_tasks_' = assigned_tasks_ \ {task}
  /\ pending_deps_' = [c \in DOMAIN pending_deps_ |->
                         IF c \in children_[task] THEN pending_deps_[c] \ {task}
                                                  ELSE pending_deps_[c]]
  /\ \E s \in Ascending(Released(task)) : ready_tasks_' = ready_tasks_ \o s
  /\ pending_tasks_' = pending_tasks_ \ Released(task)
  /\ completed' = completed \union {task}
  /\ UNCHANGED <<graphVars, finalised_>>

\* TESTBUILD only: forgets everything.
Reset ==
  /\ TestBuild
  /\ tasks_' = <<>> /\ parents_' = <<>> /\ children_' = <<>>
  /\ roots_' = {} /\ leaves_' = {} /\ finalised_' = FALSE
  /\ pending_deps_' = <<>> /\ ready_tasks_' = <<>>
  /\ pending_tasks_' = {} /\ assigned_tasks_' = {} /\ completed' = {}

Next ==
  \/ \E n \in Names : RegisterTask(n)
  \/ \E t, d \in TaskId : AddDependency(t, d)
  \/ Finalise
  \/ IterReset
  \/ IterTaskPop
  \/ \E t \in TaskId : IterTaskDone(t)
  \/ Reset

Spec == Init /\ [][Next]_vars

-----------------------------------------------------------------------------
(***************************************************************************)
(* Properties.                                                             *)
(***************************************************************************)

\* Every variable has its C++ type: vectors of one length per task, id sets,
\* and, once the manager is finalised, iteration data sized like the graph.
TypeOK ==
  /\ tasks_ \in Seq(Names)
  /\ parents_ \in [TaskId -> SUBSET TaskId]
  /\ children_ \in [TaskId -> SUBSET TaskId]
  /\ roots_ \subseteq TaskId
  /\ leaves_ \subseteq TaskId
  /\ finalised_ \in BOOLEAN
  /\ ready_tasks_ \in Seq(TaskId)
  /\ pending_tasks_ \subseteq TaskId
  /\ assigned_tasks_ \subseteq TaskId
  /\ completed \subseteq TaskId
  /\ finalised_ => pending_deps_ \in [TaskId -> SUBSET TaskId]

\* The four redundant records of the dependency graph agree however calls of
\* RegisterTask and AddDependency are interleaved: children_ is the converse of
\* parents_, roots_ and leaves_ are exactly the tasks with nothing in them.
GraphConsistent ==
  /\ \A t, d \in TaskId : d \in parents_[t] <=> t \in children_[d]
  /\ roots_ = {t \in TaskId : parents_[t] = {}}
  /\ leaves_ = {t \in TaskId : children_[t] = {}}

\* No task is lost or duplicated while an iteration runs: each one is in exactly
\* one of ready_tasks_ (once), pending_tasks_, assigned_tasks_ and completed.
IterationPartition ==
  finalised_ =>
    /\ Distinct(ready_tasks_)
    /\ TaskId = Elements(ready_tasks_) \union pending_tasks_
                  \union assigned_tasks_ \union completed
    /\ Elements(ready_tasks_) \intersect
         (pending_tasks_ \union assigned_tasks_ \union completed) = {}
    /\ pending_tasks_ \intersect (assigned_tasks_ \union completed) = {}
    /\ assigned_tasks_ \intersect completed = {}

\* pending_deps_ is exact at every moment: what a task still waits for is what it
\* depends on and IterTaskDone has not yet reported in this iteration.
PendingDepsExact ==
  finalised_ => \A t \in TaskId : pending_deps_[t] = parents_[t] \ completed

\* A task is offered, assigned or completed only after all it depends on.
DependenciesMet ==
  finalised_ =>
    \A t \in Elements(ready_tasks_) \union assigned_tasks_ \union completed :
      parents_[t] \subseteq completed

\* pending_tasks_ holds exactly the tasks with an unfulfilled dependency.
PendingExact ==
  finalised_ => pending_tasks_ = {t \in TaskId : pending_deps_[t] # {}}

\* The dependency graph has no cycle: every set of tasks has a member that
\* depends on no member ("the directed acyclic dependency graph" of children_).
Acyclic ==
  \A S \in SUBSET TaskId :
    S # {} => \E t \in S : parents_[t] \intersect S = {}

\* With the cycle check of DEBUG builds an unfinished iteration can always go on:
\* a task is ready, or one is assigned and its completion is awaited.
NeverStuck ==
  (Debug /\ finalised_) =>
    (IterCompleted \/ IterTaskAvailable \/ assigned_tasks_ # {})

=============================================================================
