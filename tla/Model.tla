-------------------------------- MODULE Model -------------------------------
(***************************************************************************)
(* flame::model::Model and flame::sim::Simulation: a model is loaded from  *)
(* files or put together by calls, validated, given to a simulation and    *)
(* started.  It composes the reader (ModelReader), the validation          *)
(* (ModelValidate) and the registrations with the memory manager, the      *)
(* message board manager and the task manager.                             *)
(***************************************************************************)
EXTENDS ModelValidate

CONSTANTS
  Edits,        \* the editing calls: records [call, args...]
  MaxCalls,     \* bound: editing and validating calls for a model that starts empty ...
  MaxEdits,     \* ... and for one that was loaded
  Names         \* names that functions and message boards are registered with

VARIABLES
  object,       \* Model object: "none", "exists" or "failed" (its constructor threw)
  validated,    \* validated_
  calls,        \* history: editing and validating calls
  funcMap,      \* names of registered agent functions
  boards,       \* registered message boards
  agentMap,     \* agents and variables registered with the memory manager
  sim           \* "none", "ready", "started", "threw", "start threw"

modelVars == <<object, validated, calls>>
simVars   == <<funcMap, boards, agentMap, sim>>
vars == <<readerVars, modelVars, simVars>>

\* Model(path) reads files, Model() starts empty.
Init ==
  /\ \/ ReaderInit /\ object = "none"
     \/ /\ files = <<>> /\ stack = <<>> /\ docs = <<>> /\ thrown = None
        /\ reading = "loaded" /\ readFiles = <<>> /\ xmodel = EmptyModel
        /\ object = "exists"
  /\ validated = FALSE /\ calls = 0
  /\ funcMap = {} /\ boards = {} /\ agentMap = <<>> /\ sim = "none"

Read == ReaderNext /\ UNCHANGED <<modelVars, simVars>>

-----------------------------------------------------------------------------
(* Model *)

MayCall == calls < IF files = <<>> THEN MaxCalls ELSE MaxEdits

\* XModel::validate(): the model is rewritten whether there are errors or not.
RunValidation ==
  /\ xmodel' = Validated(xmodel).m
  /\ UNCHANGED <<files, stack, docs, thrown, reading, readFiles, simVars>>

\* Model::Model(path), after loadModel().
Construct ==
  /\ object = "none" /\ reading \in {"loaded", "failed"}
  /\ IF reading = "failed"
     THEN object' = "failed" /\ UNCHANGED <<readerVars, simVars, validated>>
     ELSE /\ RunValidation
          /\ object' = IF Validated(xmodel).ok THEN "exists" ELSE "failed"
          /\ validated' = Validated(xmodel).ok
  /\ UNCHANGED calls

\* Model::validate(): validated_ keeps its value when there are errors.
Validate ==
  /\ object = "exists" /\ sim = "none" /\ MayCall
  /\ RunValidation
  /\ validated' = (validated \/ Validated(xmodel).ok)
  /\ calls' = calls + 1
  /\ UNCHANGED object

\* XMachine::addVariable(type, name), also of a message.
NewVariable(type, name) ==
  ReadVariable([type |-> type, suffix |-> FALSE, name |-> name, bracket |-> None, constant |-> None])

\* XMachine::addFunction(name, current, next): XFunction::XFunction() sets
\* memoryAccessInfoAvailable_.
NewFunction(c) ==
  ReadTransition([name |-> c.func, current |-> c.current, next |-> c.next, condition |-> <<>>,
                  access |-> <<[readOnly |-> <<>>, readWrite |-> <<>>]>>,
                  inputs |-> <<>>, outputs |-> <<>>])

NewIOput(message) == ReadIOput([message |-> message, sort |-> <<>>, random |-> None, filter |-> <<>>])

\* Model::getAgent() and XMachine::getFunction(): they throw when there is none.
FunctionAt(agent, c) ==
  SelectInSeq(agent.functions,
              LAMBDA f : f.name = c.func /\ f.current = c.current /\ f.next = c.next)

\* The editing calls.
EditCalls ==
  {"addAgent", "addMessage", "addMessageVariable", "addAgentVariable", "addAgentFunction",
   "addAgentFunctionInput", "addAgentFunctionOutput", "addAgentFunctionReadWriteVariable",
   "addAgentFunctionReadOnlyVariable"}

\* What becomes of messages, of a function, of an agent and of the model.
EditMessages(m, c) ==
  LET x == MessageAt(m, c.agent) IN
  IF c.call = "addMessage" THEN Append(m.messages, [name |-> c.name, variables |-> <<>>])
  ELSE [m.messages EXCEPT ![x] = [m.messages[x] EXCEPT !.variables = Append(@, NewVariable(c.type, c.name))]]

EditFunction(f, c) ==
  CASE c.call = "addAgentFunctionInput" -> [f EXCEPT !.inputs = Append(@, NewIOput(c.name))]
    [] c.call = "addAgentFunctionOutput" -> [f EXCEPT !.outputs = Append(@, NewIOput(c.name))]
    [] c.call = "addAgentFunctionReadWriteVariable" -> [f EXCEPT !.readWrite = Append(@, c.name)]
    [] c.call = "addAgentFunctionReadOnlyVariable" -> [f EXCEPT !.readOnly = Append(@, c.name)]

EditAgent(a, c) ==
  LET f == FunctionAt(a, c) IN
  CASE c.call = "addAgentVariable" -> [a EXCEPT !.variables = Append(@, NewVariable(c.type, c.name))]
    [] c.call = "addAgentFunction" -> [a EXCEPT !.functions = Append(@, NewFunction(c))]
    [] OTHER -> [a EXCEPT !.functions = [a.functions EXCEPT ![f] = EditFunction(a.functions[f], c)]]

Edited(m, c) ==
  LET a == AgentAt(m, c.agent) IN
  CASE c.call = "addAgent" -> AddAgent(m, c.agent)
    [] c.call \in {"addMessage", "addMessageVariable"} -> [m EXCEPT !.messages = EditMessages(m, c)]
    [] OTHER -> SetAgent(m, a, EditAgent(m.agents[a], c))

\* The call does not get that far.  addMessageVariable() is not called for a message
\* there is none of: it would follow a null pointer.
EditThrows(m, c) ==
  LET a == AgentAt(m, c.agent) IN
  CASE c.call \in {"addAgent", "addMessage"} -> FALSE
    [] c.call = "addMessageVariable" -> MessageAt(m, c.agent) = 0
    [] c.call \in {"addAgentVariable", "addAgentFunction"} -> a = 0
    [] OTHER -> a = 0 \/ FunctionAt(m.agents[a], c) = 0

\* Mutant: a new function does not make the model invalid.
ResetsNotForFunctions(c) == c.call # "addAgentFunction"

\* "model changed so not validated"
ResetsValidated(c) == TRUE

ASSUME EditsAssumption == \A c \in Edits : c.call \in EditCalls

\* An editing call; one that throws changes nothing.
EditModel ==
  /\ object = "exists" /\ sim = "none" /\ MayCall
  /\ \E c \in Edits :
       /\ ~EditThrows(xmodel, c)
       /\ xmodel' = Edited(xmodel, c)
       /\ validated' = IF ResetsValidated(c) THEN FALSE ELSE validated
  /\ calls' = calls + 1
  /\ UNCHANGED <<files, stack, docs, thrown, reading, readFiles, object, simVars>>

\* registerAgentFunction(): a name that has been registered keeps its function.
RegisterAgentFunction ==
  /\ object = "exists" /\ sim = "none"
  /\ \E name \in Names.functions \ funcMap : funcMap' = funcMap \union {name}
  /\ UNCHANGED <<readerVars, modelVars, boards, agentMap, sim>>

\* registerMessageType()
RegisterMessageType ==
  /\ object = "exists" /\ sim = "none"
  /\ \E name \in Names.boards \ boards : boards' = boards \union {name}
  /\ UNCHANGED <<readerVars, modelVars, funcMap, agentMap, sim>>

-----------------------------------------------------------------------------
(* Simulation *)

\* XMachine::registerWithMemoryManager(): only int and double become memory.
MemoryOf(agent) ==
  {v.name : v \in {w \in Range(agent.variables) : w.type \in {"int", "double"}}}

\* MemoryManager: RegisterAgent() throws when the name is taken, HintPopulationSize() when
\* there is no memory.
NameTaken(map, i) ==
  xmodel.agents[i].name \in DOMAIN map \union {xmodel.agents[j].name : j \in 1..(i - 1)}
RegisterThrows(map, i) == NameTaken(map, i) \/ MemoryOf(xmodel.agents[i]) = {}

\* XModel::registerWithMemoryManager(): agents before one that throws stay registered.
RegisterAgents(map) ==
  LET reached == {i \in DOMAIN xmodel.agents : \A j \in 1..(i - 1) : ~RegisterThrows(map, j)}
      added   == {i \in reached : ~NameTaken(map, i)}
      agent(n) == CHOOSE i \in added : xmodel.agents[i].name = n
  IN [n \in DOMAIN map \union {xmodel.agents[i].name : i \in added} |->
        IF n \in DOMAIN map THEN map[n] ELSE MemoryOf(xmodel.agents[agent(n)])]

\* Simulation::Simulation(): refuses a model that is not validated; reading the
\* population may throw.
NewSimulation ==
  /\ object = "exists" /\ validated /\ sim \in {"none", "threw"}
  /\ agentMap' = RegisterAgents(agentMap)
  /\ sim' \in IF \E i \in DOMAIN xmodel.agents : RegisterThrows(agentMap, i) THEN {"threw"}
              ELSE {"ready", "threw"}
  /\ UNCHANGED <<readerVars, modelVars, funcMap, boards>>

\* AgentTask::AllowAccess(): a variable that is not there, or granted before, throws.
AccessThrows(a, readOnly, readWrite) ==
  \/ ~(readOnly \union readWrite \subseteq agentMap[a.name])
  \/ readOnly \intersect readWrite # {}

\* What the functions of the graph and the conditions at branching states are given.
\* Conditions are numbered for each agent; "condition" stands for these numbers.
FunctionThrows(a, f) == f.name \in funcMap /\ AccessThrows(a, Range(f.readOnly), Range(f.readWrite))
ConditionThrows(a, s) ==
  \/ "condition" \notin funcMap       \* dependencies on a task that was not created
  \/ AccessThrows(a, UNION {f.reads : f \in {g \in Range(a.graph) : g.current = s}},
                  Named(a.variables))

\* XModel::registerWithTaskManager(): two tasks with one name, a task that may not
\* have what it asks for, an output task for a variable that is not in memory, a
\* message without a board.
RegistrationThrows ==
  \E a \in Range(xmodel.agents) :
    \/ ~Distinct(a.graph)
    \/ \E f \in Range(a.graph) :
         FunctionThrows(a, f) \/ ~(Ios(f.inputs) \union Ios(f.outputs) \subseteq boards)
    \/ \E s \in Branching(a.graph) : ConditionThrows(a, s)
    \/ ~(Named(a.variables) \subseteq agentMap[a.name])

\* A function that is not registered is passed over.  Whether that throws depends on
\* its having a dependency: module XGraph.
Unregistered == \E a \in Range(xmodel.agents) : ~(Named(a.graph) \subseteq funcMap)

\* The functions, states and messages of all agents: a message joins agents.
Place(i, v) == IF v[1] = "message" THEN v ELSE <<v[1], i, v[2]>>
ModelOrder ==
  LET graph(i) == Digraph(xmodel.agents[i].graph) IN
  [node |-> UNION {{Place(i, v) : v \in graph(i).node} : i \in DOMAIN xmodel.agents},
   edge |-> UNION {{<<Place(i, e[1]), Place(i, e[2])>> : e \in graph(i).edge} : i \in DOMAIN xmodel.agents}]

\* TaskManager::AddDependency() throws in a DEBUG build when it would close a cycle.  There
\* is none among the tasks when there is none here; whether one is left when state edges
\* have become data dependencies depends on the variables: module XGraph.
MayBeCyclic == Cyclic(ModelOrder)

\* Simulation::start(), up to the first iteration.
Start ==
  /\ sim = "ready"
  /\ sim' \in CASE RegistrationThrows -> {"start threw"}
               [] ~RegistrationThrows /\ (Unregistered \/ MayBeCyclic) -> {"start threw", "started"}
               [] OTHER -> {"started"}
  /\ UNCHANGED <<readerVars, modelVars, funcMap, boards, agentMap>>

Next ==
  \/ Read \/ Construct \/ Validate \/ EditModel
  \/ RegisterAgentFunction \/ RegisterMessageType \/ NewSimulation \/ Start

Spec == Init /\ [][Next]_vars

-----------------------------------------------------------------------------
(* Properties *)

\* A libxml2 document is freed at most once and not used after that, on every path
\* through included files and exceptions; when a model is loaded all have been freed.
DocumentsFreed ==
  /\ \A d \in DOMAIN docs : docs[d] <= 1
  /\ \A i \in DOMAIN stack : stack[i].doc # 0 => docs[stack[i].doc] = 0
  /\ reading = "loaded" => \A d \in DOMAIN docs : docs[d] = 1

\* Files that include each other, or a third file twice, are not read over and over: a
\* model that was loaded has no path in it twice, and as long as no file is reached under
\* two paths the recursion is no deeper than there are files, the first one read once
\* more.  (Under another path a file is read again.)
ReadOnce ==
  /\ reading = "loaded" => \A i, j \in DOMAIN readFiles : readFiles[i] = readFiles[j] => i = j
  /\ (\A i, j \in DOMAIN stack :
        Resolve(stack[i].path) = Resolve(stack[j].path) => stack[i].path = stack[j].path)
       => Len(stack) <= Cardinality(DOMAIN files) + 1

\* An agent described in several files has, in the loaded model, the variables and the
\* functions of all of them.
NothingLost ==
  reading = "loaded" =>
    \A i \in DOMAIN readFiles :
      \A e \in Range(FileOf(files, readFiles[i]).elements) :
        e.tag = "xagent" =>
          \E a \in Range(xmodel.agents) :
            /\ a.name = e.name
            /\ \A v \in Range(e.memory) : \E w \in Range(a.variables) : w.name = v.name
            /\ \A f \in Range(e.functions) :
                 \E g \in Range(a.functions) :
                   g.name = f.name /\ g.current = f.current /\ g.next = f.next

\* What the rest of FLAME relies on in a validated model: an agent has distinct
\* variables and a machine with one start, no cycle and a condition on every branch,
\* and every message that is posted or read is defined.
WellFormed(m) ==
  /\ \A a \in Range(m.agents) :
       /\ Distinct(a.variables)
       /\ SingleStart(a.functions) /\ GraphOK(a.functions)
       /\ \A f \in Range(a.functions) :
            Ios(f.inputs) \union Ios(f.outputs) \subseteq Named(m.messages)
  /\ Distinct(m.messages)

\* isValidated() tells the truth, whatever calls were made after the validation.
ValidatedWellFormed == validated => WellFormed(xmodel)

\* The types a variable of this type is made of.
PartsOf(m, type) ==
  LET inner(t) == {v.type : v \in UNION {Range(x.variables) : x \in {y \in Range(m.adts) : y.name = t}}}
      reach[n \in 0..Len(m.adts)] ==
        IF n = 0 THEN {type} ELSE LET r == reach[n - 1] IN r \union UNION {inner(t) : t \in r}
  IN reach[Len(m.adts)]

\* Messages and constants of a validated model have no dynamic array in them, at any
\* depth of data types: they are copied as plain data.
NoDynamicMessages ==
  validated =>
    \A v \in (UNION {Range(x.variables) : x \in Range(xmodel.messages)}) \union Range(xmodel.constants) :
      /\ ~v.isDynamicArray
      /\ \A x \in Range(xmodel.adts) :
           x.name \in PartsOf(xmodel, v.type) => \A w \in Range(x.variables) : ~w.isDynamicArray

\* A simulation that has started runs the model as it is, however often it was validated
\* and whatever was added in between: every function is in the graph once and none is
\* left over from an earlier validation, the functions that are run have access to
\* variables of their agent, to none in two ways, and every message in use has a board.
\* (Validation appends to the graph each time and drops the errors in memory access.)
StartedSound ==
  sim = "started" =>
    \A a \in Range(xmodel.agents) :
      /\ a.graph = a.functions /\ Distinct(a.functions)
      /\ \A f \in Range(a.functions) :
           /\ Ios(f.inputs) \union Ios(f.outputs) \subseteq boards
           /\ f.name \in funcMap =>
                /\ Range(f.readOnly) \union Range(f.readWrite) \subseteq Named(a.variables)
                /\ Range(f.readOnly) \intersect Range(f.readWrite) = {}

\* "Else check memory access variables are valid": the functions of a validated model
\* use variables of their agent, none of them twice.
AccessChecked ==
  validated =>
    \A a \in Range(xmodel.agents) : \A f \in Range(a.functions) :
      /\ Range(f.readOnly) \union Range(f.readWrite) \subseteq Named(a.variables)
      /\ Range(f.readOnly) \intersect Range(f.readWrite) = {}
=============================================================================
