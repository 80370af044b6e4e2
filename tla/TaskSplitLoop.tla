--------------------------- MODULE TaskSplitLoop ---------------------------
(***************************************************************************)
(* AgentTask::SplitTask() as it runs: the early returns, the choice of     *)
(* num_splits, and the loop that accumulates offset while it creates one   *)
(* subtask per turn.                                                       *)
(***************************************************************************)
EXTENDS TaskSplit

CONSTANTS
  MaxSize,      \* agents in memory, at most
  MaxSplits,    \* largest max_tasks tried
  MaxMinSize    \* largest min_task_size tried

ASSUME BoundsAssumption ==
  MaxSize \in Nat /\ MaxSplits \in Nat /\ MaxMinSize \in Nat

VARIABLES
  size,           \* agents in memory: shadow_ptr_->get_size()
  first,          \* offset_ of the task being split, 0 for a whole task
  population,     \* its count_, or the whole size
  max_tasks, min_task_size,
  pc, num_splits, i, offset,
  vec             \* TaskSplitter::TaskVector under construction

loopVars == <<size, first, population, max_tasks, min_task_size, pc, num_splits, i,
              offset, vec>>
args == <<size, first, population, max_tasks, min_task_size>>

\* Any part of a population: a subtask can be split again.
LoopInit ==
  /\ size \in 0..MaxSize
  /\ first \in 0..MaxSize
  /\ population \in 0..MaxSize
  /\ first + population <= size
  /\ max_tasks \in 1..MaxSplits
  /\ min_task_size \in 1..MaxMinSize
  /\ pc = "start"
  /\ num_splits = 0 /\ i = 0 /\ offset = 0
  /\ vec = <<>>

ReturnNull ==
  /\ pc = "start"
  /\ TooSmall(population, max_tasks, min_task_size)
  /\ pc' = "null"
  /\ UNCHANGED <<args, num_splits, i, offset, vec>>

ChooseSplits ==
  /\ pc = "start"
  /\ ~TooSmall(population, max_tasks, min_task_size)
  /\ num_splits' = NumSplits(population, max_tasks, min_task_size)
  /\ offset' = first
  /\ pc' = "loop"
  /\ UNCHANGED <<args, i, vec>>

\* Mutant: the offset does not account for the remainder.
CreateSubtaskDrifts ==
  /\ pc = "loop"
  /\ i < num_splits
  /\ vec' = Append(vec, [offset |-> offset,
                         count  |-> SegmentSize(population, num_splits, i)])
  /\ offset' = offset + population \div num_splits
  /\ i' = i + 1
  /\ UNCHANGED <<args, pc, num_splits>>

CreateSubtask ==
  /\ pc = "loop"
  /\ i < num_splits
  /\ LET s == SegmentSize(population, num_splits, i)
     IN  /\ vec' = Append(vec, [offset |-> offset, count |-> s])
         /\ offset' = offset + s
  /\ i' = i + 1
  /\ UNCHANGED <<args, pc, num_splits>>

ReturnSplitter ==
  /\ pc = "loop"
  /\ i >= num_splits
  /\ pc' = "split"
  /\ UNCHANGED <<args, num_splits, i, offset, vec>>

Done == pc \in {"null", "split"} /\ UNCHANGED loopVars

LoopNext == ReturnNull \/ ChooseSplits \/ CreateSubtask \/ ReturnSplitter \/ Done

LoopSpec == LoopInit /\ [][LoopNext]_loopVars

-----------------------------------------------------------------------------
\* The accumulated offsets are the closed form of module TaskSplit, on which the
\* model of the splitting queue relies.
LoopComputesSegments ==
  pc = "split" => vec = Segments(first, population, num_splits)

\* The subtasks partition the agents of the task: each agent is visited by exactly
\* one of them, no subtask reaches outside, and none makes its MemoryIterator throw in a
\* worker thread.
SubtasksPartition ==
  pc = "split" =>
    /\ UNION {AgentsOf(vec[k]) : k \in 1..Len(vec)} = first .. (first + population - 1)
    /\ \A k, l \in 1..Len(vec) :
         k # l => AgentsOf(vec[k]) \intersect AgentsOf(vec[l]) = {}
    /\ \A k \in 1..Len(vec) : IteratorAccepts(vec[k], size)

\* "Minimum population size per task after split", "Maximum subtasks that should be
\* created": a split gives at least two and at most max_tasks subtasks, none of
\* them smaller than min_task_size and no two differing by more than one agent.
SizesRespected ==
  pc = "split" =>
    /\ Len(vec) \in 2..max_tasks
    /\ \A k \in 1..Len(vec) : vec[k].count >= min_task_size
    /\ \A k, l \in 1..Len(vec) : vec[k].count <= vec[l].count + 1
=============================================================================
