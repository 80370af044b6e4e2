----------------------------- MODULE TaskQueue -----------------------------
(***************************************************************************)
(* What a task queue promises the scheduler: once a task has been enqueued *)
(* each of its agents is processed exactly once, in any grouping and by    *)
(* any thread, and completion is reported once, after the last of them.    *)
(* Module SplittingQueue implements this specification.                    *)
(***************************************************************************)
EXTENDS Naturals

CONSTANTS
  Tasks,
  Agents       \* Agents[t]: the agents task t has to visit

VARIABLES
  accepted,    \* tasks enqueued and not yet reported
  unvisited    \* unvisited[t]: agents of t not yet visited

vars == <<accepted, unvisited>>

Init == accepted = {} /\ unvisited = [t \in Tasks |-> {}]

Accept(t) ==
  /\ t \notin accepted
  /\ accepted' = accepted \union {t}
  /\ unvisited' = [unvisited EXCEPT ![t] = Agents[t]]

Visit(t) ==
  /\ t \in accepted
  /\ \E A \in SUBSET unvisited[t] : unvisited' = [unvisited EXCEPT ![t] = @ \ A]
  /\ UNCHANGED accepted

Report(t) ==
  /\ t \in accepted
  /\ unvisited[t] = {}
  /\ accepted' = accepted \ {t}
  /\ UNCHANGED unvisited

Next == \E t \in Tasks : Accept(t) \/ Visit(t) \/ Report(t)

Spec == Init /\ [][Next]_vars
=============================================================================
