----------------------------- MODULE Population -----------------------------
(***************************************************************************)
(* Agent memory from population file to population file: IOXMLPop and      *)
(* IOManager (flame2/io), AgentMemory, VectorWrapper, AgentShadow and      *)
(* MemoryIterator (flame2/mem), AgentTask::Run() and AgentAPI.             *)
(*                                                                         *)
(* The memory of an agent type is one vector for each variable; row i of   *)
(* all of them is an agent.  A population file lists agents, each a name   *)
(* and texts for variables.  A variable is a number, its place in the      *)
(* order of names, which is the order of mem_map_.  A double is counted in *)
(* units of 10^-7, or is one of the infinities and not-a-numbers.          *)
(***************************************************************************)
EXTENDS Integers, FiniteSets, SequencesExt, FiniteSetsExt, Functions

CONSTANTS
  Agents,        \* agent types of the model, with their variables in model order
  Files,         \* population files that are tried
  Writes,        \* Writes[a]: variables the function of agent type a may set
  NonFinite,     \* value of a double that is infinite or not a number
  Poles,         \* doubles at which the agent functions divide by zero
  MaxIterations, \* bound: iterations of one simulation
  MaxSims        \* bound: simulations, the managers being Reset() in between

Value == Int \union {NonFinite}

\* Agents of a population file: a name, and texts for variables.
TextOf == [kind : {"number", "large", "word"}, val : Int] \union [kind : {"INF", "inf"}, val : {NonFinite}]
AgentEntry == [name : STRING, texts : Seq([var : Nat, text : TextOf])]

\* Agent types have at least one variable (for one without the loop of writeAgents() does
\* not end), their names differ, and a function has access to variables of its agent.
ASSUME PopulationAssumption ==
  /\ IsFiniteSet(DOMAIN Agents) /\ DOMAIN Agents \subseteq STRING
  /\ \A a \in DOMAIN Agents :
       /\ Agents[a] \in Seq([name : Nat, type : {"int", "double"}]) /\ Agents[a] # <<>>
       /\ \A i, j \in DOMAIN Agents[a] : Agents[a][i].name = Agents[a][j].name => i = j
       /\ Writes[a] \subseteq {Agents[a][i].name : i \in DOMAIN Agents[a]}
  /\ NonFinite \notin Int /\ Poles \subseteq Int
  /\ Files \subseteq Seq(AgentEntry)
  /\ MaxIterations \in Nat /\ MaxSims \in Nat

VARIABLES
  debug,         \* compiled with DEBUG
  phase,         \* "idle", "reading", "ready", "running" or "threw"
  file,          \* the file that is read: agents [name, texts]
  node,          \* position of the reader: agent and text
  memory,        \* memory[a][v]: the vector of variable v of agent type a
  cachedSize,    \* cached_size_ of each agent type
  agentVarMap,   \* agentVarMap_: variables in the order they are written
  iteration,     \* iteration_
  jobs,          \* agent tasks and subtasks of this iteration
  before,        \* history: memory when the iteration began
  output,        \* the last population file written, with its iteration
  sims           \* history: simulations constructed

popVars == <<file, node, agentVarMap, output>>
vars == <<debug, phase, popVars, memory, cachedSize, iteration, jobs, before, sims>>

\* XMachine::getVariables(): records [name, type].
VariablesOf(a) == Agents[a]
NamesOf(a) == [i \in DOMAIN Agents[a] |-> Agents[a][i].name]
TypeOf(a, v) == (CHOOSE x \in Range(Agents[a]) : x.name = v).type

\* registerWithMemoryManager(): an empty vector for each variable.
EmptyMemory == [a \in DOMAIN Agents |-> [v \in Range(NamesOf(a)) |-> <<>>]]
NoOutput == [itno |-> 0, agents |-> <<>>]

Init ==
  /\ debug \in BOOLEAN
  /\ phase = "idle" /\ file = <<>> /\ node = <<1, 1>>
  /\ memory = EmptyMemory
  /\ cachedSize = [a \in DOMAIN Agents |-> 0]
  /\ agentVarMap = <<>> /\ iteration = 0 /\ jobs = <<>>
  /\ before = EmptyMemory /\ output = NoOutput /\ sims = 0

-----------------------------------------------------------------------------
(* Reading a population *)

\* Texts: a number fits the type; "large" is an xs:integer that is no int; "INF" is what
\* xs:double has for a value that is not finite (INF, -INF, NaN), "inf" what printf() has
\* (inf, -inf, nan, -nan); "word" is neither integer nor double.
Text(val) == [kind |-> "number", val |-> val]

\* boost::lexical_cast<int>, <double>: the second takes inf and nan in either case.
TextFits(t, type) == t.kind = "number" \/ (t.kind \in {"large", "INF", "inf"} /\ type = "double")

\* xs:integer and xs:double.
SchemaFits(t, type) == t.kind \in {"number", "large"} \/ (t.kind = "INF" /\ type = "double")

\* createDataSchemaAgentNameType()
SchemaNameType(e) == e.name \in DOMAIN Agents

\* createDataSchemaAgentVars(), createDataSchemaAgentVar(): the variables of type a, in
\* model order, each once.
SchemaVars(e, a) ==
  /\ [j \in DOMAIN e.texts |-> e.texts[j].var] = NamesOf(a)
  /\ \A j \in DOMAIN e.texts : SchemaFits(e.texts[j].text, VariablesOf(a)[j].type)

\* createDataSchemaAgentVarChoice(): those of some type, not of the type the agent names.
SchemaVarChoice(e) == \E a \in DOMAIN Agents : SchemaVars(e, a)

\* createDataSchema(), createDataSchemaDefineAgents() and ...DefineTags(): any number
\* of agents, each with a name and a choice of variables.
DataSchema(f) == \A i \in DOMAIN f : SchemaNameType(f[i]) /\ SchemaVarChoice(f[i])

\* validateData() with openXMLDoc() and openXMLSchema()
ValidateData(f) == phase' = IF DataSchema(f) THEN "reading" ELSE "threw"

\* Simulation::Simulation(): registration, then IOManager::readPop(), which makes and
\* removes the schema; later simulations read what an earlier one wrote.
NewSimulation ==
  /\ phase \in {"idle", "ready"} /\ sims < MaxSims
  /\ file' \in IF sims = 0 THEN Files ELSE {output.agents}
  /\ sims = 0 \/ output # NoOutput
  /\ memory' = EmptyMemory
  /\ cachedSize' = [a \in DOMAIN Agents |-> 0]
  /\ ValidateData(file')
  /\ node' = <<1, 1>> /\ sims' = sims + 1
  /\ iteration' = 0 /\ jobs' = <<>>
  /\ UNCHANGED <<debug, agentVarMap, before, output>>

Current == file[node[1]]
AtText == phase = "reading" /\ node[1] <= Len(file) /\ node[2] <= Len(Current.texts)

\* Mutant: a value that cannot be cast is passed over.
PushSkips(a, v, t) ==
  IF v \in Range(NamesOf(a))
  THEN /\ memory' = IF TextFits(t, TypeOf(a, v)) THEN [memory EXCEPT ![a][v] = Append(@, t.val)] ELSE memory
       /\ UNCHANGED phase
  ELSE phase' = "threw" /\ UNCHANGED memory

\* processTextVariableCast(): what has been read before stays.
Push(a, v, t) ==
  IF v \in Range(NamesOf(a)) /\ TextFits(t, TypeOf(a, v))
  THEN memory' = [memory EXCEPT ![a][v] = Append(@, t.val)] /\ UNCHANGED phase
  ELSE phase' = "threw" /\ UNCHANGED memory

\* processTextVariable() and processTextAgent(): the variable the text is for.
PushText(e, i) == Push(e.name, e.texts[i].var, e.texts[i].text)

\* processNode() and processStartNode(): the text of one variable.
ReadText ==
  /\ AtText
  /\ PushText(Current, node[2])
  /\ node' = <<node[1], node[2] + 1>>
  /\ UNCHANGED <<debug, file, agentVarMap, output, cachedSize, iteration, jobs, before, sims>>

\* processEndNode() of an agent.
EndAgent ==
  /\ phase = "reading" /\ node[1] <= Len(file) /\ node[2] > Len(Current.texts)
  /\ node' = <<node[1] + 1, 1>>
  /\ UNCHANGED <<debug, phase, file, agentVarMap, output, memory, cachedSize, iteration, jobs, before, sims>>

\* Mutant: variables are written in the order of their names.
SavedByName == [a \in DOMAIN Agents |-> SetToSortSeq(Range(NamesOf(a)), LAMBDA u, v : u < v)]

\* saveAgentVariableData()
SaveAgentVariableData == [a \in DOMAIN Agents |-> NamesOf(a)]

\* The end of readPop().
EndRead ==
  /\ phase = "reading" /\ node[1] > Len(file)
  /\ agentVarMap' = SaveAgentVariableData
  /\ phase' = "ready"
  /\ UNCHANGED <<debug, file, node, output, memory, cachedSize, iteration, jobs, before, sims>>

-----------------------------------------------------------------------------
(* Running agent functions *)

Sizes(a) == {Len(memory[a][v]) : v \in Range(NamesOf(a))}

\* AgentMemory::GetPopulationSize(): the size of the first vector; a DEBUG build looks
\* at the others when that has changed.
FirstSize(a) == Len(memory[a][Min(Range(NamesOf(a)))])
SizeThrows(a) == debug /\ FirstSize(a) # cachedSize[a] /\ Sizes(a) # {FirstSize(a)}
GetPopulationSize(a) ==
  cachedSize' = IF debug THEN [cachedSize EXCEPT ![a] = FirstSize(a)] ELSE cachedSize

\* AgentTask::AgentTask(parent, offset, count) and the task that is not split.
Whole(a) == [agent |-> a, split |-> FALSE, offset |-> 0, count |-> 0, pos |-> -1]
Segment(a, offset, count) ==
  [agent |-> a, split |-> TRUE, offset |-> offset, count |-> count, pos |-> -1]

\* AgentTask::SplitTask() into at most two subtasks (all splits: module TaskSplit).
Splits(a) ==
  {<<Whole(a)>>}
  \union {<<Segment(a, 0, (n + 1) \div 2), Segment(a, (n + 1) \div 2, n \div 2)>> :
            n \in {FirstSize(a)} \ {0, 1}}

\* Scheduler::RunIteration() and setIteration(): one task for each agent type.
BeginIteration ==
  /\ phase = "ready" /\ iteration < MaxIterations
  /\ iteration' = iteration + 1
  /\ \E choice \in [DOMAIN Agents -> UNION {Splits(a) : a \in DOMAIN Agents}] :
       /\ \A a \in DOMAIN Agents : choice[a] \in Splits(a)
       /\ jobs' = FlattenSeq([i \in 1..Cardinality(DOMAIN Agents) |->
                                choice[SetToSeq(DOMAIN Agents)[i]]])
  /\ before' = memory /\ phase' = "running"
  /\ UNCHANGED <<debug, popVars, memory, cachedSize, sims>>

\* MemoryIterator::MemoryIterator(), for the whole population or a segment.
NewIterator(i) ==
  LET j == jobs[i]  size == FirstSize(j.agent) IN
  /\ phase = "running" /\ j.pos = -1
  /\ IF SizeThrows(j.agent) \/ (j.split /\ (j.offset >= size \/ j.count = 0 \/ j.offset + j.count > size))
     THEN phase' = "threw" /\ UNCHANGED <<jobs, cachedSize>>
     ELSE /\ GetPopulationSize(j.agent)
          /\ jobs' = [jobs EXCEPT ![i].pos = 0, ![i].count = IF j.split THEN @ ELSE size]
          /\ UNCHANGED phase
  /\ UNCHANGED <<debug, popVars, memory, iteration, before, sims>>

\* Mutant: the iterator of a segment starts at the first agent.
RowFromStart(j) == j.pos + 1

\* GetRawPtr(offset), StepRawPtr(): the row the iterator points at.
Row(j) == j.offset + j.pos + 1

\* What the agent function computes for one variable of value x.
Delta(type) == IF type = "int" THEN 1 ELSE 3
Computed(type, x) ==
  IF x = NonFinite \/ (type = "double" /\ x \in Poles) THEN NonFinite ELSE x + Delta(type)

\* AgentAPI::SetMem() and MemoryIterator::Set(): a variable without write access throws.
MayWrite(a, v) == v \in Writes[a]

\* GetMem() and SetMem() of the variables of W in one row.
SetRow(vec, a, W, row) ==
  [v \in DOMAIN vec |-> IF v \in W THEN [vec[v] EXCEPT ![row] = Computed(TypeOf(a, v), @)] ELSE vec[v]]

\* One turn of the loop in AgentTask::Run(): the function sets its variables from what
\* it gets, and may try one it has no access to; Step().  A vector that is too short
\* gives a null pointer.
RunAgent(i) ==
  LET j == jobs[i]  a == j.agent  row == Row(j) IN
  /\ phase = "running" /\ j.pos >= 0 /\ j.pos < j.count
  /\ \E tries \in {Writes[a], Range(NamesOf(a))} :
       IF \A v \in tries : MayWrite(a, v) /\ row <= Len(memory[a][v])
       THEN /\ memory' = [memory EXCEPT ![a] = SetRow(@, a, tries, row)]
            /\ jobs' = [jobs EXCEPT ![i].pos = @ + 1]
            /\ UNCHANGED phase
       ELSE phase' = "threw" /\ UNCHANGED <<memory, jobs>>
  /\ UNCHANGED <<debug, popVars, cachedSize, iteration, before, sims>>

-----------------------------------------------------------------------------
(* Writing a population *)

\* writeXMLTag(): "%d" writes an int as it is, "%f" a finite double to six places.
Written(type, x) ==
  IF x = NonFinite
  THEN [kind |-> "inf", val |-> NonFinite]
  ELSE Text(IF type = "int" THEN x ELSE ((x + 5) \div 10) * 10)

\* Mutant: the last agent is not written.
RowCountShort(vs, vec) ==
  IF \E v \in Range(vs) : vec[v] = <<>> THEN 0 ELSE Len(vec[Last(vs)]) - 1

\* writeAgents(): no agent when a vector is empty, else as many as the vector of the
\* last variable has.
RowCount(vs, vec) ==
  IF \E v \in Range(vs) : vec[v] = <<>> THEN 0 ELSE Len(vec[Last(vs)])

Rows(a) ==
  LET vs == agentVarMap[a] IN
  [i \in 1..RowCount(vs, memory[a]) |->
     [name |-> a,
      texts |-> [k \in DOMAIN vs |->
                   [var |-> vs[k], text |-> Written(TypeOf(a, vs[k]), memory[a][vs[k]][i])]]]]

\* A shorter vector gives a null pointer before the last row.
WriteFails(a) ==
  \E v \in Range(agentVarMap[a]) : Len(memory[a][v]) < RowCount(agentVarMap[a], memory[a])

\* IOTask::Run() with OP_FIN: finaliseData() writes <iteration>.xml.  OP_INIT and
\* OP_OUTPUT call initialiseData() and writePop(), which are empty.
FinaliseData ==
  /\ phase = "running" /\ \A i \in DOMAIN jobs : jobs[i].pos = jobs[i].count
  /\ IF \E a \in DOMAIN Agents : WriteFails(a)
     THEN phase' = "threw" /\ UNCHANGED output
     ELSE /\ output' = [itno |-> iteration,
                        agents |-> FlattenSeq([i \in 1..Cardinality(DOMAIN Agents) |->
                                                 Rows(SetToSeq(DOMAIN Agents)[i])])]
          /\ phase' = "ready"
  /\ jobs' = <<>>
  /\ UNCHANGED <<debug, file, node, agentVarMap, memory, cachedSize, iteration, before, sims>>

Next ==
  \/ NewSimulation \/ ReadText \/ EndAgent \/ EndRead
  \/ BeginIteration \/ FinaliseData
  \/ \E i \in DOMAIN jobs : NewIterator(i) \/ RunAgent(i)

Spec == Init /\ [][Next]_vars

-----------------------------------------------------------------------------
(* Properties *)

\* The agents of a file that are given the variables of their own type.
OwnVariables(f) ==
  \A i \in DOMAIN f : [j \in DOMAIN f[i].texts |-> f[i].texts[j].var] = NamesOf(f[i].name)

\* Value of variable v in an agent of a file.
ValueIn(e, v) == (CHOOSE t \in Range(e.texts) : t.var = v).text.val

\* How many of the first n agents of a file are of type a.
Count(f, a, n) == Cardinality({k \in 1..n : f[k].name = a})

\* A population that was read without an exception is the one in the file: agent i of a
\* type has in row i of every vector what the file says, although values are appended
\* one by one to different vectors and reading can stop between any two of them.
PopulationRead ==
  phase = "ready" /\ iteration = 0 /\ OwnVariables(file) =>
    \A a \in DOMAIN Agents : \A v \in Range(NamesOf(a)) :
      /\ Len(memory[a][v]) = Count(file, a, Len(file))
      /\ \A k \in DOMAIN file : file[k].name = a =>
           memory[a][v][Count(file, a, k)] = ValueIn(file[k], v)

\* However an agent task is split and its subtasks interleave, at the end of the
\* iteration the function has been applied exactly once to every agent and no variable
\* it has no write access to has changed.
EachAgentOnce ==
  phase = "ready" /\ iteration > 0 /\ OwnVariables(file) =>
    \A a \in DOMAIN Agents : \A v \in Range(NamesOf(a)) :
      memory[a][v] = [i \in DOMAIN before[a][v] |->
                        IF v \in Writes[a] THEN Computed(TypeOf(a, v), before[a][v][i]) ELSE before[a][v][i]]

\* The file of an iteration holds all agents: as many of a type as there are rows.
AllWritten ==
  phase = "ready" /\ iteration > 0 /\ OwnVariables(file) =>
    /\ output.itno = iteration
    /\ \A a \in DOMAIN Agents : Count(output.agents, a, Len(output.agents)) = FirstSize(a)

\* The values of a file are finite.
Finite(f) == \A i \in DOMAIN f : \A j \in DOMAIN f[i].texts : f[i].texts[j].text.val # NonFinite

\* What FLAME writes FLAME can read, as long as its doubles are finite and only then: a
\* file written by finaliseData() passes the schema generated from the model and every
\* value can be cast, unless "%f" wrote an infinity or a not-a-number, which no xs:double is.
OutputReadable ==
  sims > 1 /\ iteration = 0 => (phase = "threw" <=> ~Finite(file))

\* "Throws flame::exceptions::flame_mem_exception when the sizes are inconsistent"
\* (GetPopulationSize() in a DEBUG build): a task that has its iterator runs over
\* vectors of one size.
SizesChecked ==
  debug => \A i \in DOMAIN jobs : jobs[i].pos >= 0 => Cardinality(Sizes(jobs[i].agent)) = 1
=============================================================================
