-------------------------- MODULE MCSplittingQueue --------------------------
(***************************************************************************)
(* An instance of SplittingQueue for TLC.  Workers are interchangeable,    *)
(* but symmetry is not used since liveness is checked.                     *)
(***************************************************************************)
EXTENDS SplittingQueue

\* Task 1 visits seven agents, task 2 is an I/O task.
Sizes == [t \in Tasks |-> IF t = 1 THEN 7 ELSE 1]
Kinds == [t \in Tasks |-> IF t = 2 THEN "io" ELSE "agent"]
=============================================================================
