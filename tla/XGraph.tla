------------------------------- MODULE XGraph -------------------------------
(***************************************************************************)
(* From the state machines of a model to the tasks of an iteration:        *)
(* flame::model::XGraph (flame2/model/xgraph.cpp) as XModelValidate and    *)
(* XModel::generateGraph() drive it.                                       *)
(*                                                                         *)
(* Validation builds the state graph of each agent.  When the simulation   *)
(* starts, each of these graphs is turned in place into a dependency graph *)
(* of tasks; all are imported into one graph, messages become sync and     *)
(* clear tasks, and tasks and edges are registered with the task manager.  *)
(* Edges of type Dependency::state are kept apart, in `state', from all    *)
(* others, in `edge'.  The naming of conditions by a counter is left out.  *)
(***************************************************************************)
EXTENDS TaskGraph

CONSTANT Models       \* the models that are tried: sequences of agents

\* Models have agents with different names, and functions that use the variables of
\* their agent, which are numbered in the order of their names.
ASSUME ModelsAssumption ==
  \A m \in Models :
    /\ m \in Seq(Range(m)) /\ Len(m) > 0
    /\ \A i, j \in DOMAIN m : m[i].name = m[j].name => i = j
    /\ \A i \in DOMAIN m :
         /\ IsFiniteSet(m[i].functions)
         /\ IsFiniteSet(m[i].vars) /\ m[i].vars \subseteq Nat
         /\ \A f \in m[i].functions :
              f.ro \union f.rw \subseteq m[i].vars /\ IsFiniteSet(f.outs \union f.ins)

VARIABLES
  model,        \* agents_: [name, vars, functions]
  step,         \* where the generation is
  agent,        \* the agent whose graph is being generated
  graph,        \* functionDependencyGraph_ of each agent
  lastWrites,   \* lastWrites_ of the tasks of this agent visited so far
  lastReads,    \* lastReads_ of those tasks
  modelGraph,   \* the graph of the model
  tasks,        \* tasks created in the task manager
  deps          \* dependencies <<source, target>> added there

vars == <<model, step, agent, graph, lastWrites, lastReads, modelGraph, tasks, deps>>

\* Task::Task(parentName, name, type) and what getTaskName() tells apart.
Task(type, parent, name) == <<type, parent, name>>
Type(t) == t[1]
OfType(S, type) == {t \in S : Type(t) = type}

\* Two maps in one; the first has the say where both are defined.
Joined(f, g) == [x \in DOMAIN f \union DOMAIN g |-> IF x \in DOMAIN f THEN f[x] ELSE g[x]]

Fn(a, f) == Task("xfunction", a.name, f.name)
St(a, s) == Task("xstate", a.name, s)
Msg(m)   == Task("xmessage", m, m)
Start    == Task("start_model", "model", "Start")
Finish   == Task("finish_model", "model", "Finish")
StartOf(a) == Task("start_agent", a.name, a.name)
EndOf(a)   == Task("finish_agent", a.name, a.name)

Init ==
  /\ model \in Models
  /\ step = "validate" /\ agent = 1
  /\ graph = <<>>
  /\ lastWrites = <<>> /\ lastReads = <<>>
  /\ modelGraph = EmptyGraph
  /\ tasks = {} /\ deps = {}

-----------------------------------------------------------------------------
(* Validation: the state graph *)

Currents(a) == {f.current : f \in a.functions}
Nexts(a)    == {f.next : f \in a.functions}

\* XMachine::findStartEndStates()
StartStates(a) == Currents(a) \ Nexts(a)
EndStates(a)   == Nexts(a) \ Currents(a)

\* XGraph::generateStateGraph(), the variables each task reads and writes included.
StateGraph(a) ==
  LET fs == a.functions IN
  [node  |-> {Fn(a, f) : f \in fs} \union {St(a, s) : s \in Currents(a) \union Nexts(a)}
               \union {Msg(m) : m \in UNION {f.outs \union f.ins : f \in fs}},
   state |-> {<<St(a, f.current), Fn(a, f)>> : f \in fs}
               \union {<<Fn(a, f), St(a, f.next)>> : f \in fs},
   edge  |-> UNION {{<<Fn(a, f), Msg(m)>> : m \in f.outs}
                      \union {<<Msg(m), Fn(a, f)>> : m \in f.ins} : f \in fs},
   reads  |-> [t \in {Fn(a, f) : f \in fs} |->
                 UNION {f.ro \union f.rw : f \in {g \in fs : Fn(a, g) = t}}],
   writes |-> [t \in {Fn(a, f) : f \in fs} |->
                 UNION {f.rw : f \in {g \in fs : Fn(a, g) = t}}],
   start |-> {St(a, s) : s \in StartStates(a)},
   ends  |-> {Fn(a, f) : f \in {g \in fs : g.next \in EndStates(a)}}]

\* All edges of a graph, whatever their type.
Whole(g) == [node |-> g.node, edge |-> g.edge \union g.state]

Branching(g) == {v \in OfType(g.node, "xstate") : OutDegree(Whole(g), v) > 1}

\* XGraph::checkFunctionConditions()
CheckFunctionConditions(a, g) ==
  \A f \in a.functions : St(a, f.current) \in Branching(g) => f.cond

\* XGraph::checkCyclicDependencies(): no back edge in a depth first search.
CheckCyclicDependencies(g) == ~Cyclic(Whole(g))

\* XModelValidate::validateAgents(), as far as the graph is concerned.
Validate ==
  /\ step = "validate"
  /\ graph' = [i \in DOMAIN model |-> StateGraph(model[i])]
  /\ step' = IF \A i \in DOMAIN model :
                  /\ Cardinality(StartStates(model[i])) = 1
                  /\ CheckCyclicDependencies(graph'[i])
                  /\ CheckFunctionConditions(model[i], graph'[i])
             THEN "transform" ELSE "rejected"
  /\ UNCHANGED <<model, agent, lastWrites, lastReads, modelGraph, tasks, deps>>

-----------------------------------------------------------------------------
(* XGraph::generateDependencyGraph(), for one agent after the other *)

a_ == model[agent]
g_ == graph[agent]

Becomes(g, next) ==
  /\ graph' = [graph EXCEPT ![agent] = g]
  /\ step' = next
  /\ UNCHANGED <<model, modelGraph, tasks, deps>>

\* transformConditionalStatesToConditions(): a state with more than one function
\* becomes a task that reads and writes every variable.
TransformConditionalStatesToConditions ==
  /\ step = "transform"
  /\ LET branching == Branching(g_)
         new(v) == IF v \in branching THEN Task("xcondition", v[2], v[3]) ELSE v
         conditions == {new(v) : v \in branching}
         all == [t \in conditions |-> a_.vars]
     IN Becomes([g_ EXCEPT !.node = {new(v) : v \in @},
                           !.state = {<<new(e[1]), new(e[2])>> : e \in @},
                           !.start = {new(v) : v \in @},
                           !.reads = Joined(@, all),
                           !.writes = Joined(@, all)], "contract")
  /\ UNCHANGED <<agent, lastWrites, lastReads>>

\* contractStateVertices(): the function under a start state becomes the start.
ContractStateVertices ==
  /\ step = "contract"
  /\ LET states == OfType(g_.node, "xstate")
         whole  == RemoveVertices(Whole(g_), states)
     IN Becomes([g_ EXCEPT !.node = whole.node,
                           !.state = (@ \intersect whole.edge) \union Bridges(@, states),
                           !.start = UNION {IF v \in states
                                            THEN Successors(Whole(g_), v) ELSE {v} : v \in @}],
                "start")
  /\ UNCHANGED <<agent, lastWrites, lastReads>>

\* addStartTask() and addEndTask()
AddStartAndEndTask ==
  /\ step = "start"
  /\ Becomes([g_ EXCEPT !.node = @ \union {StartOf(a_), EndOf(a_)},
                        !.edge = @ \union {<<StartOf(a_), v>> : v \in g_.start}
                                   \union {<<v, EndOf(a_)>> : v \in g_.ends},
                        !.reads  = Joined(@, [t \in {StartOf(a_), EndOf(a_)} |-> {}]),
                        !.writes = Joined(@, [t \in {StartOf(a_), EndOf(a_)} |->
                                                IF t = StartOf(a_) THEN a_.vars ELSE {}])],
             "data")
  /\ lastWrites' = <<>> /\ lastReads' = <<>>
  /\ UNCHANGED agent

\* The tasks addDataDependencies() looks at; messages are passed over.
HasData(v) == Type(v) # "xmessage"

\* Every topological order of the vertices is tried.
ReadyVertices(g) ==
  {v \in g.node : /\ HasData(v) /\ v \notin DOMAIN lastWrites
                  /\ \A u \in g.node : HasData(u) /\ v \in After(Whole(g), u) => u \in DOMAIN lastWrites}

\* copyWritingAndReadingVerticesFromInEdges()
FromInEdges(last, g, v) ==
  [x \in a_.vars |->
     UNION {last[u][x] : u \in {w \in Predecessors(Whole(g), v) : HasData(w)}}]

\* addReadDependencies(): behind the last writers of what v reads.
ReadDependencies(g, v, writers) == From(UNION {writers[x] : x \in g.reads[v]}, v)

\* Mutant: a writer does not wait for the readers before it.
NoWriteDependencies(g, v, readers) == {}

\* addWriteDependencies(): behind the last readers of what v writes.
WriteDependencies(g, v, readers) == From(UNION {readers[x] : x \in g.writes[v]}, v)

\* addDataDependencies(), for the next vertex in topological order.
AddDataDependencies ==
  /\ step = "data"
  /\ \E v \in ReadyVertices(g_) :
     LET writers == FromInEdges(lastWrites, g_, v)
         readers == FromInEdges(lastReads, g_, v)
     IN
     /\ Becomes([g_ EXCEPT !.edge = @ \union ReadDependencies(g_, v, writers)
                                      \union WriteDependencies(g_, v, readers)],
                "data")
     /\ lastWrites' = Joined(lastWrites, [u \in {v} |->
          [x \in a_.vars |-> IF x \in g_.writes[v] THEN {v} ELSE writers[x]]])
     /\ lastReads' = Joined(lastReads, [u \in {v} |->
          [x \in a_.vars |-> (IF x \in g_.writes[v] THEN {} ELSE readers[x])
                               \union (IF x \in g_.reads[v] THEN {v} ELSE {})]])
  /\ UNCHANGED agent

\* removeStateDependencies()
RemoveStateDependencies ==
  /\ step = "data"
  /\ ReadyVertices(g_) = {}
  /\ Becomes([g_ EXCEPT !.state = {}], "output")
  /\ UNCHANGED <<agent, lastWrites, lastReads>>

\* AddVariableOutput(): variables with the same last writers share an output task,
\* named after the first of them; the end task goes.
AddVariableOutput ==
  /\ step = "output"
  /\ LET last == lastWrites[EndOf(a_)]
         group(x) == {y \in a_.vars : last[y] = last[x]}
         first == {x \in a_.vars : x = Min(group(x))}
         out(x) == Task("io_pop_write", a_.name, x)
         kept == RemoveVertices(Whole(g_), {EndOf(a_)})
     IN Becomes([g_ EXCEPT !.node = kept.node \union {out(x) : x \in first},
                           !.edge = kept.edge \union UNION {From(last[x], out(x)) : x \in first},
                           !.writes = Joined(@, [t \in {out(x) : x \in first} |-> group(t[3])])],
                "reduce")
  /\ UNCHANGED <<agent, lastWrites, lastReads>>

\* removeRedundantDependencies(); then XModel::generateGraph() goes on to the next agent.
RemoveRedundantDependencies ==
  /\ step = "reduce"
  /\ Becomes([g_ EXCEPT !.edge = Reduced([node |-> g_.node, edge |-> @]).edge],
             IF agent = Len(model) THEN "import" ELSE "transform")
  /\ agent' = IF agent = Len(model) THEN agent ELSE agent + 1
  /\ UNCHANGED <<lastWrites, lastReads>>

-----------------------------------------------------------------------------
(* The graph of the model *)

Imported == UNION {graph[i].node : i \in DOMAIN graph}

\* Mutant: output tasks are not joined to the end.
ImportWithoutFinish ==
  [node |-> Imported \union {Start, Finish},
   edge |-> (UNION {graph[i].edge : i \in DOMAIN graph})
              \union {<<Start, v>> : v \in OfType(Imported, "start_agent")}]

\* import() of every agent's graph.
Import ==
  [node |-> Imported \union {Start, Finish},
   edge |-> (UNION {graph[i].edge : i \in DOMAIN graph})
              \union {<<Start, v>> : v \in OfType(Imported, "start_agent")}
              \union {<<v, Finish>> : v \in OfType(Imported, "io_pop_write")}]

\* importGraphs(), up to the contraction of the start agents.
ImportGraphs ==
  /\ step = "import"
  /\ LET starts == OfType(Import.node, "start_agent")
         rest   == RemoveVertices(Import, starts)
     IN modelGraph' = [rest EXCEPT !.edge = @ \union Bridges(Import.edge, starts)]
  /\ step' = "sync"
  /\ UNCHANGED <<model, agent, graph, lastWrites, lastReads, tasks, deps>>

ToSync(v) == IF Type(v) = "xmessage" THEN Task("xmessage_sync", v[2], v[3]) ELSE v

\* Mutant: only the readers are moved to the sync task.
SyncLosesPosts(G) ==
  [node |-> {ToSync(v) : v \in G.node},
   edge |-> {<<ToSync(e[1]), e[2]>> : e \in {d \in G.edge : Type(d[2]) # "xmessage"}}]

\* changeMessageTasksToSync(): the message vertices of all agents become one sync task.
WithSync(G) ==
  [node |-> {ToSync(v) : v \in G.node},
   edge |-> {<<ToSync(e[1]), ToSync(e[2])>> : e \in G.edge}]

\* Mutant: the targets are joined to the sync task itself.
WithClearOnSync(G) ==
  LET syncs == OfType(G.node, "xmessage_sync") IN
  [G EXCEPT !.edge = @ \union UNION {{<<v, s>> : v \in Successors(G, s)} : s \in syncs}]

\* addMessageClearTasks(): behind the direct targets of the sync task.
WithClear(G) ==
  LET syncs == OfType(G.node, "xmessage_sync")
      clear(s) == Task("xmessage_clear", s[2], s[3])
  IN [node |-> G.node \union {clear(s) : s \in syncs},
      edge |-> G.edge \union UNION {{<<v, clear(s)>> : v \in Successors(G, s)} : s \in syncs}]

AddMessageTasks ==
  /\ step = "sync"
  /\ modelGraph' = WithClear(WithSync(modelGraph))
  /\ step' = "register"
  /\ UNCHANGED <<model, agent, graph, lastWrites, lastReads, tasks, deps>>

\* registerDataTask(): an output vertex becomes one task for each of its variables.
DataTasks(v) ==
  {Task("io_pop_write", v[2], x) :
     x \in UNION {graph[i].writes[v] : i \in {j \in DOMAIN graph : v \in graph[j].node}}}

\* registerAgentTask(): a function or a condition needs an entry in funcMap.
Callable ==
  (UNION {{Fn(a, f) : f \in {g \in a.functions : g.impl}} : a \in Range(model)})
    \union UNION {OfType(modelGraph.node, "xcondition") : a \in {b \in Range(model) : b.condImpl}}

\* registerTasksAndDependenciesWithTaskManager(): a function without an entry is
\* reported and passed over.  An edge is registered between the tasks that carry the
\* names of its two vertices; AddDependency() throws when there is no such task, for an
\* edge from a task to itself and, in a DEBUG build, when the edge closes a cycle.  What
\* was added before such an edge is left out: start() ends with the exception.
Register ==
  /\ step = "register"
  /\ tasks' = UNION {CASE Type(v) = "io_pop_write" -> DataTasks(v)
                       [] Type(v) \in {"xfunction", "xcondition"} -> {v} \intersect Callable
                       [] OTHER -> {v} : v \in modelGraph.node}
  /\ \E debug \in BOOLEAN :
       IF /\ \A e \in modelGraph.edge : {e[1], e[2]} \subseteq tasks' /\ e[1] # e[2]
          /\ debug => ~Cyclic([node |-> tasks', edge |-> modelGraph.edge])
       THEN deps' = modelGraph.edge /\ step' = "registered"
       ELSE UNCHANGED deps /\ step' = "threw"
  /\ UNCHANGED <<model, agent, graph, lastWrites, lastReads, modelGraph>>

Next ==
  \/ Validate \/ TransformConditionalStatesToConditions \/ ContractStateVertices
  \/ AddStartAndEndTask
  \/ AddDataDependencies \/ RemoveStateDependencies \/ AddVariableOutput \/ RemoveRedundantDependencies
  \/ ImportGraphs \/ AddMessageTasks \/ Register

Spec == Init /\ [][Next]_vars

-----------------------------------------------------------------------------
(* Properties *)

Registered == [node |-> tasks, edge |-> deps]

\* The agent's machine as the model describes it, a state being the test at a branch.
Steps(a) ==
  [node |-> {Fn(a, f) : f \in a.functions} \union {St(a, s) : s \in Currents(a) \union Nexts(a)},
   edge |-> StateGraph(a).state]

\* The task that carries out a function or the test of a branching state.
Carrier(a, v) ==
  IF v \in Branching(StateGraph(a)) THEN Task("xcondition", v[2], v[3]) ELSE v

ReadBy(a, v)    == IF Type(v) = "xstate" THEN a.vars ELSE StateGraph(a).reads[v]
WrittenBy(a, v) == IF Type(v) = "xstate" THEN a.vars ELSE StateGraph(a).writes[v]
Carried(a) == {Fn(a, f) : f \in a.functions} \union Branching(StateGraph(a))

\* Two tasks of an agent on one path of its state machine, one of which writes a
\* variable the other uses, run in the order of the machine: addDataDependencies()
\* replaces the state edges it is going to remove, across branches and joins, and
\* transitive reduction and message tasks keep the order.
ConflictsOrdered ==
  step = "registered" =>
    LET after == [t \in tasks |-> After(Registered, t)] IN
    \A i \in DOMAIN model :
      LET a == model[i]  behind == [v \in Steps(a).node |-> After(Steps(a), v)] IN
      \A u, v \in Carried(a) :
        /\ v \in behind[u]
        /\ \/ WrittenBy(a, u) \intersect (ReadBy(a, v) \union WrittenBy(a, v)) # {}
           \/ ReadBy(a, u) \intersect WrittenBy(a, v) # {}
        /\ {Carrier(a, u), Carrier(a, v)} \subseteq tasks
        => Carrier(a, v) \in after[Carrier(a, u)]

\* The task that ends the iteration's output (OP_FIN writes the population to the
\* file) comes after every function and condition that writes a variable.
FinaliseAfterWriters ==
  step = "registered" =>
    LET after == [t \in tasks |-> After(Registered, t)] IN
    \A i \in DOMAIN model : \A v \in Carried(model[i]) :
      /\ WrittenBy(model[i], v) # {} /\ Carrier(model[i], v) \in tasks
      => Finish \in after[Carrier(model[i], v)]

\* Every function that posts a message comes before the sync task of its board, and
\* every function that reads it after that, whatever agents they belong to.
MessagesOrdered ==
  step = "registered" =>
    LET after == [t \in tasks |-> After(Registered, t)] IN
    \A i \in DOMAIN model : \A f \in model[i].functions :
      /\ \A m \in f.outs : Task("xmessage_sync", m, m) \in after[Fn(model[i], f)]
      /\ \A m \in f.ins  : Fn(model[i], f) \in after[Task("xmessage_sync", m, m)]

\* What the model demands of the order of its functions and messages.
ModelOrder ==
  [node |-> UNION {StateGraph(a).node : a \in Range(model)},
   edge |-> UNION {StateGraph(a).edge \union StateGraph(a).state : a \in Range(model)}]

\* Dependency generation introduces no cycle: when the agents' machines and messages
\* taken together have none, neither have the registered tasks, so the iteration ends.
\* (Messages between agents are not part of the cycle check of the validation.)
NoCycleIntroduced ==
  step = "registered" /\ ~Cyclic(ModelOrder) => ~Cyclic(Registered)

\* Every output task of a variable comes after the tasks that last write it and before
\* the end of the output, as the comments of AddVariableOutput() say.
OutputsAfterWriters ==
  step = "registered" =>
    LET after == [t \in tasks |-> After(Registered, t)] IN
    \A i \in DOMAIN model : \A v \in Carried(model[i]) :
      \A x \in WrittenBy(model[i], v) :
        Carrier(model[i], v) \in tasks =>
          Task("io_pop_write", model[i].name, x) \in after[Carrier(model[i], v)]
=============================================================================
