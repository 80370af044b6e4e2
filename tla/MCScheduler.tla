---------------------------- MODULE MCScheduler ----------------------------
(***************************************************************************)
(* Instances of Scheduler for TLC: dependency graphs, task types and       *)
(* worker placements.                                                      *)
(***************************************************************************)
EXTENDS Scheduler

\* The shapes of an acyclic graph on three tasks: independent tasks, chain, fork and
\* join, and a join and a chain against the ascending order in which IterReset and
\* IterTaskDone list ids.
Dags3 ==
  {<<{}, {}, {}>>, <<{}, {1}, {2}>>, <<{}, {1}, {1}>>, <<{}, {}, {1, 2}>>,
   <<{2, 3}, {}, {}>>, <<{2}, {3}, {}>>}

AgentAndIo == [t \in Tasks |-> IF t = 2 THEN "io" ELSE "agent"]
FirstWorker == CHOOSE w \in Workers : TRUE
TwoQueues == [w \in Workers |-> IF w = FirstWorker THEN 1 ELSE 2]
=============================================================================
