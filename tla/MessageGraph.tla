---------------------------- MODULE MessageGraph ----------------------------
(***************************************************************************)
(* How XGraph turns the communication of a model into tasks and their      *)
(* dependencies (flame2/model/xgraph.cpp), for one message.  Each agent    *)
(* has a graph with an edge from every posting function to the message     *)
(* vertex and from it to every reading function, next to the dependencies  *)
(* between its functions.  The graph of an agent is reduced transitively;  *)
(* the reduced graphs are merged, the message vertex becomes the sync task *)
(* of the board, and a clear task is added behind the targets of the sync. *)
(***************************************************************************)
EXTENDS TaskGraph

CONSTANTS
  Agents,       \* agent types
  Functions,    \* transition functions that use the message, of all agents
  AgentOf,      \* the agent each function belongs to
  Posts,        \* functions that output the message
  Reads,        \* functions that input the message
  DataDeps      \* pairs <<f, g>> of one agent: g needs data of f

Sync  == "sync"     \* the message vertex, later the xmessage_sync task
Clear == "clear"    \* the xmessage_clear task

ASSUME ModelAssumption ==
  /\ AgentOf \in [Functions -> Agents]
  /\ Posts \union Reads = Functions /\ Posts \intersect Reads = {}
  /\ IsFiniteSet(Functions)
  /\ DataDeps \subseteq Functions \X Functions
  /\ \A d \in DataDeps : AgentOf[d[1]] = AgentOf[d[2]]
  /\ {Sync, Clear} \intersect Functions = {}

\* generateStateGraph() and addDataDependencies(): the graph of one agent.
AgentGraph(a) ==
  LET own == {f \in Functions : AgentOf[f] = a} IN
  [node |-> own \union {Sync},
   edge |-> {d \in DataDeps : d[1] \in own}
              \union {<<f, Sync>> : f \in own \intersect Posts}
              \union {<<Sync, f>> : f \in own \intersect Reads}]

\* importGraphs() and changeMessageTasksToSync().
Merged == UNION {Reduced(AgentGraph(a)).edge : a \in Agents}

\* Mutant: the clear task comes behind the sync task, next to the readers.
ClearAfterSync == {<<Sync, Clear>>}

\* Mutant: the clear task waits for nothing.
ClearUnordered == {}

\* addMessageClearTasks(): behind the direct targets of the sync task.
ClearEdges == {<<e[2], Clear>> : e \in {d \in Merged : d[1] = Sync}}

BoardTasks == Functions \union {Sync, Clear}

\* registerDependencies(): what each task waits for.
Dependencies ==
  [t \in BoardTasks |-> {e[1] : e \in {d \in Merged \union ClearEdges : d[2] = t}}]

-----------------------------------------------------------------------------
\* Task s is t or comes before it: it is in every set of tasks that holds t and what
\* its members wait for.
Precedes(s, t) ==
  \A S \in SUBSET BoardTasks :
    (t \in S /\ \A u \in S : Dependencies[u] \subseteq S) => s \in S

\* The order the users of a board rely on.
Ordered ==
  /\ \A f \in Posts : Precedes(f, Sync)
  /\ \A f \in Reads : Precedes(Sync, f) /\ Precedes(f, Clear)
  /\ Precedes(Sync, Clear)

\* What XModelValidate and the order in which data dependencies are added ensure.
Acyclic == \A a \in Agents : ~Cyclic(AgentGraph(a))

\* No reading function comes after another of its agent.
ReadersApart ==
  \A f, g \in Reads : AgentOf[f] = AgentOf[g] => f \notin After(AgentGraph(AgentOf[g]), g)

=============================================================================
