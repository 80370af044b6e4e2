----------------------------- MODULE TaskSplit -----------------------------
(***************************************************************************)
(* The arithmetic of AgentTask::SplitTask() (flame2/exe/agent_task.cpp):   *)
(* into how many subtasks a population is divided, and which agents each   *)
(* subtask gets.  Products are taken modulo SizeMod, the number of values  *)
(* of size_t.                                                              *)
(***************************************************************************)
EXTENDS Naturals, Sequences

CONSTANT SizeMod

ASSUME SizeModAssumption == SizeMod \in Nat \ {0}

\* SplitTask() returns a null handle: splitting is not wanted or not worth it.
TooSmall(population, max_tasks, min_task_size) ==
  max_tasks < 2 \/ population < (min_task_size * 2) % SizeMod

\* Mutant: one subtask too many when the population is small.
NumSplitsOneMore(population, max_tasks, min_task_size) ==
  IF population >= (min_task_size * max_tasks) % SizeMod
  THEN max_tasks
  ELSE population \div min_task_size + 1

NumSplits(population, max_tasks, min_task_size) ==
  IF population >= (min_task_size * max_tasks) % SizeMod
  THEN max_tasks
  ELSE population \div min_task_size

\* Mutant: one subtask too many gets an agent of the remainder.
SegmentSizeOneMore(population, n, i) ==
  population \div n + (IF i <= population % n THEN 1 ELSE 0)

\* Agents of the subtask created for i, counting from 0: the first ones take one
\* agent of the remainder each.
SegmentSize(population, n, i) ==
  population \div n + (IF i < population % n THEN 1 ELSE 0)

\* Closed form of the offset the loop has accumulated when it reaches i.
SegmentOffset(offset, population, n, i) ==
  offset + i * (population \div n)
         + (IF i < population % n THEN i ELSE population % n)

\* The subtasks SplitTask() hands to TaskSplitter, in the order they are run.
Segments(offset, population, n) ==
  [k \in 1..n |-> [offset |-> SegmentOffset(offset, population, n, k - 1),
                   count  |-> SegmentSize(population, n, k - 1)]]

\* The agents the MemoryIterator of a segment visits.
AgentsOf(segment) == segment.offset .. (segment.offset + segment.count - 1)

\* MemoryIterator(shadow, offset, count) throws unless this holds.
IteratorAccepts(segment, size) ==
  /\ segment.offset < size
  /\ segment.count # 0
  /\ segment.offset + segment.count <= size
=============================================================================
