----------------------------- MODULE Iteration -----------------------------
(***************************************************************************)
(* What the execution layer promises a simulation: Scheduler::RunIteration *)
(* runs every task exactly once, each one only after all the tasks it      *)
(* depends on have finished, and the next iteration begins only when all   *)
(* tasks of this one have finished.  An iteration may be abandoned, after  *)
(* which nothing is promised.  Threads, queues and bookkeeping are absent; *)
(* module Scheduler implements this specification.                         *)
(***************************************************************************)
EXTENDS Naturals

CONSTANT Tasks

VARIABLES
  deps,       \* deps[t]: the tasks t depends on
  status,     \* what has happened to each task in this iteration
  iteration,  \* number of the current iteration
  abandoned   \* an iteration was abandoned: nothing is promised any more

vars == <<deps, status, iteration, abandoned>>

Init ==
  /\ deps \in [Tasks -> SUBSET Tasks]
  /\ status = [t \in Tasks |-> "waiting"]
  /\ iteration \in Nat
  /\ abandoned = FALSE

Start(t) ==
  /\ status[t] = "waiting"
  /\ \A d \in deps[t] : status[d] = "finished"
  /\ status' = [status EXCEPT ![t] = "running"]
  /\ UNCHANGED <<deps, iteration>>

Finish(t) ==
  /\ status[t] = "running"
  /\ status' = [status EXCEPT ![t] = "finished"]
  /\ UNCHANGED <<deps, iteration>>

Advance ==
  /\ \A t \in Tasks : status[t] = "finished"
  /\ status' = [t \in Tasks |-> "waiting"]
  /\ iteration' = iteration + 1
  /\ UNCHANGED deps

Abandon ==
  /\ \E t \in Tasks : status[t] # "finished"
  /\ abandoned' = TRUE
  /\ UNCHANGED <<deps, status, iteration>>

Next ==
  \/ /\ ~abandoned /\ UNCHANGED abandoned
     /\ (\E t \in Tasks : Start(t) \/ Finish(t)) \/ Advance
  \/ ~abandoned /\ Abandon
  \/ abandoned /\ abandoned'

Spec == Init /\ [][Next]_vars
=============================================================================
