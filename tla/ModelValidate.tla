---------------------------- MODULE ModelValidate ---------------------------
(***************************************************************************)
(* flame::model::XModelValidate (flame2/model/xmodel_validate.cpp).        *)
(*                                                                         *)
(* Validation checks a model and at the same time rewrites it: arrays are  *)
(* taken out of names and types, conditions get C++ operators, data types  *)
(* are added to the allowed ones, graphs grow.  For a part x of the model  *)
(* Process...(x) is what becomes of it and ...OK says that no error is     *)
(* counted.  The wording and the number of the errors are left out.        *)
(***************************************************************************)
EXTENDS Integers, TaskGraph, ModelReader

CONSTANTS
  BadNames,     \* names with a character that is not allowed
  CppFiles,     \* names that end in .cpp
  Positive,     \* texts that lexical_cast accepts and whose value is at least 1
  \* XCondition (module Conditions):
  Processed(_),       \* processSymbols() rewrites a condition ...
  SymbolsFit(_),      \* ... without an error
  Valid(_, _, _, _),  \* validate(), for an agent, at most one message and a model
  ReadsOf(_)          \* readOnlyVariables_ of a valid condition

\* name_is_allowed()
NameIsAllowed(name) == name \notin BadNames

Distinct(s) == \A i, j \in DOMAIN s : s[i].name = s[j].name => i = j
Named(s) == {s[i].name : i \in DOMAIN s}

\* The names of variables; one that still has its [n] is not found by its name.
VariableNames(vs) == {vs[i].name : i \in {j \in DOMAIN vs : vs[j].bracket = None}}

-----------------------------------------------------------------------------
(* Variables *)

\* Mutant: a data type that holds a dynamic array does not mark its variables.
ProcessVariableShallow(m, v) ==
  [v EXCEPT !.suffix = FALSE, !.bracket = None,
            !.isDynamicArray = @ \/ v.suffix, !.holdsDynamicArray = @ \/ v.suffix]

\* processVariableDynamicArray(): the suffix _array is taken off the type.
ProcessDynamicArray(v) ==
  [v EXCEPT !.suffix = FALSE, !.isDynamicArray = @ \/ v.suffix, !.holdsDynamicArray = @ \/ v.suffix]

\* processVariable(), which also takes [n] off the name.
ProcessVariable(m, v) ==
  [ProcessDynamicArray(v) EXCEPT
     !.bracket = None,
     !.holdsDynamicArray = @ \/ \E i \in DOMAIN m.adts : /\ m.adts[i].name = v.type
                                                          /\ m.adts[i].holdsDynamicArray]

\* processVariableStaticArray(): the size of a static array is a positive integer.
StaticArrayOK(v) == v.bracket \in Positive \union {None}

ProcessVariableOK(v) == StaticArrayOK(v) /\ v.constant \in {"true", "false", None}

ProcessVariables(m, vs) == [i \in DOMAIN vs |-> ProcessVariable(m, vs[i])]

\* validateVariableName()
VariableNameOK(v) == NameIsAllowed(v.name)

\* validateVariableType()
VariableTypeOK(m, v, allowDynamicArrays) ==
  v.type \in m.allowed /\ (allowDynamicArrays \/ ~v.holdsDynamicArray)

\* validateVariables(): vs as it was before processVariables().
ValidateVariablesOK(m, vs, allowDynamicArrays) ==
  LET ps == ProcessVariables(m, vs) IN
  /\ \A i \in DOMAIN vs : ProcessVariableOK(vs[i])
  /\ \A i \in DOMAIN ps : VariableNameOK(ps[i]) /\ VariableTypeOK(m, ps[i], allowDynamicArrays)
  /\ Distinct(ps)

\* validateADT(): the name is allowed before the variables of the type are looked at.
ValidateADT(v, i) ==
  LET m   == v.m
      adt == m.adts[i]
      fresh == NameIsAllowed(adt.name) /\ adt.name \notin m.allowed
      n   == [m EXCEPT !.allowed = @ \union {adt.name}]
      ps  == ProcessVariables(n, adt.variables)
      holds == adt.holdsDynamicArray \/ \E j \in DOMAIN ps : ps[j].holdsDynamicArray
  IN IF ~fresh THEN [m |-> m, ok |-> FALSE]
     ELSE [m  |-> [n EXCEPT !.adts = [@ EXCEPT ![i] = [adt EXCEPT !.variables = ps, !.holdsDynamicArray = holds]]],
           ok |-> v.ok /\ ValidateVariablesOK(n, adt.variables, TRUE)]

-----------------------------------------------------------------------------
(* Time units *)

\* processTimeUnit(), processTimeUnitUnit(), processTimeUnitPeriod() and
\* validateTimeUnit(): a unit is the iteration or another time unit.
TimeUnitOK(u, units) ==
  /\ u.unit \in {"iteration"} \union (Named(units) \ {u.name})
  /\ u.period \in Positive
  /\ NameIsAllowed(u.name) /\ u.name # "iteration"

\* validateTimeUnits()
TimeUnitsOK(units) ==
  /\ \A i \in DOMAIN units : TimeUnitOK(units[i], units)
  /\ Distinct(units)

-----------------------------------------------------------------------------
(* Functions *)

\* validateAgentConditionOrFilter(), for a condition that may be absent.
ProcessOptional(cs) == [i \in DOMAIN cs |-> Processed(cs[i])]
OptionalOK(cs, agent, message, m) ==
  \A i \in DOMAIN cs : SymbolsFit(cs[i]) /\ Valid(Processed(cs[i]), agent, message, m)

MessageAt(m, name) == SelectInSeq(m.messages, LAMBDA x : x.name = name)
GetMessage(m, name) == IF MessageAt(m, name) = 0 THEN <<>> ELSE <<m.messages[MessageAt(m, name)]>>

\* validateRandomString()
ProcessRandom(io) == [io EXCEPT !.isRandom = CASE io.random = "true" -> TRUE
                                               [] io.random = "false" -> FALSE
                                               [] OTHER -> @]

ProcessIOput(io) == [ProcessRandom(io) EXCEPT !.filter = ProcessOptional(@)]

\* validateSort()
SortOK(sort, message) ==
  /\ sort.key \in VariableNames(message.variables)
  /\ sort.order \in {"ascend", "descend"}

\* validateAgentCommunication(): no sorting together with a random order.
IOputOK(io, agent, m) ==
  LET message == GetMessage(m, io.message) IN
  /\ message # <<>>
  /\ OptionalOK(io.filter, agent, message, m)
  /\ io.sort # <<>> => SortOK(io.sort[1], message[1]) /\ ~ProcessRandom(io).isRandom
  /\ io.random \in {"true", "false", None}

\* processAgentFunction(): a function that does not say what it uses may write
\* everything.  The errors it counts for variables that do not exist or are named
\* twice are dropped by its caller.
ProcessAgentFunction(f, agent) ==
  IF f.infoAvailable THEN f
  ELSE [f EXCEPT !.infoAvailable = TRUE,
                 !.readWrite = @ \o [i \in DOMAIN agent.variables |-> agent.variables[i].name]]

\* validateAgentFunctionIOput()
ProcessIOputs(ios) == [i \in DOMAIN ios |-> ProcessIOput(ios[i])]
IOputsOK(ios, agent, m) == \A i \in DOMAIN ios : IOputOK(ios[i], agent, m)

\* validateAgentFunction()
ProcessFunction(f, agent) ==
  [ProcessAgentFunction(f, agent) EXCEPT
     !.condition = ProcessOptional(@),
     !.reads = UNION {ReadsOf(Processed(f.condition[i])) : i \in DOMAIN f.condition},
     !.inputs = ProcessIOputs(@), !.outputs = ProcessIOputs(@)]

FunctionOK(f, agent, m) ==
  /\ NameIsAllowed(f.name) /\ NameIsAllowed(f.current) /\ NameIsAllowed(f.next)
  /\ OptionalOK(f.condition, agent, <<>>, m)
  /\ IOputsOK(f.inputs, agent, m) /\ IOputsOK(f.outputs, agent, m)

-----------------------------------------------------------------------------
(* Agents *)

\* The state graph of an agent is kept as the list of its function vertices:
\* generateStateGraph() adds one for each function at every call and finds the
\* vertices of states and messages again.
Ios(ios) == {ios[i].message : i \in DOMAIN ios}
Vertices(f, i) ==
  {<<"function", i>>, <<"state", f.current>>, <<"state", f.next>>}
    \union {<<"message", x>> : x \in Ios(f.inputs) \union Ios(f.outputs)}
Edges(f, i) ==
  {<<<<"state", f.current>>, <<"function", i>>>>, <<<<"function", i>>, <<"state", f.next>>>>}
    \union {<<<<"function", i>>, <<"message", x>>>> : x \in Ios(f.outputs)}
    \union {<<<<"message", x>>, <<"function", i>>>> : x \in Ios(f.inputs)}
Digraph(fs) == [node |-> UNION {Vertices(fs[i], i) : i \in DOMAIN fs},
                edge |-> UNION {Edges(fs[i], i) : i \in DOMAIN fs}]

Branching(fs) == {s \in {fs[i].current : i \in DOMAIN fs} :
                    Cardinality({i \in DOMAIN fs : fs[i].current = s}) > 1}

\* findStartEndStates()
SingleStart(fs) ==
  Cardinality({fs[i].current : i \in DOMAIN fs} \ {fs[i].next : i \in DOMAIN fs}) = 1

\* checkCyclicDependencies() and checkFunctionConditions()
GraphOK(fs) ==
  /\ ~Cyclic(Digraph(fs))
  /\ \A i \in DOMAIN fs : fs[i].current \in Branching(fs) => fs[i].condition # <<>>

\* Mutant: a graph that has been made is kept.
StateGraphKept(graph, fs) == IF SingleStart(fs) /\ graph = <<>> THEN fs ELSE graph

\* validateAgentStateGraph(): without a single start state no graph is made.
StateGraph(graph, fs) == IF SingleStart(fs) THEN graph \o fs ELSE graph
StateGraphOK(graph, fs) == SingleStart(fs) /\ GraphOK(StateGraph(graph, fs))

\* validateAgent(); agents never share a name.
ProcessAgent(m, a) ==
  LET vs == ProcessVariables(m, a.variables)
      b  == [a EXCEPT !.variables = vs]
      fs == [j \in DOMAIN a.functions |-> ProcessFunction(a.functions[j], b)]
  IN [b EXCEPT !.functions = fs, !.graph = StateGraph(a.graph, fs)]

AgentOK(m, a) ==
  LET b == [a EXCEPT !.variables = ProcessVariables(m, a.variables)] IN
  /\ NameIsAllowed(a.name)
  /\ ValidateVariablesOK(m, a.variables, TRUE)
  /\ \A j \in DOMAIN a.functions : FunctionOK(a.functions[j], b, m)
  /\ StateGraphOK(a.graph, ProcessAgent(m, a).functions)

\* validateMessage()
ProcessMessage(m, x) == [x EXCEPT !.variables = ProcessVariables(m, x.variables)]
MessageOK(m, x) ==
  /\ NameIsAllowed(x.name) /\ Distinct(m.messages)
  /\ ValidateVariablesOK(m, x.variables, FALSE)

-----------------------------------------------------------------------------
\* validateFunctionFile()
FunctionFilesOK(names) == Range(names) \subseteq CppFiles

\* The data types are validated one after the other: an earlier one is allowed in a
\* later one.
ValidateADTs(m) ==
  LET after[i \in 0..Len(m.adts)] ==
        IF i = 0 THEN [m |-> m, ok |-> TRUE] ELSE ValidateADT(after[i - 1], i)
  IN after[Len(m.adts)]

\* XModelValidate::validate(): all parts are rewritten, whatever errors there are.
Validated(m) ==
  LET adts == ValidateADTs(m)  n == adts.m IN
  [m  |-> [n EXCEPT !.constants = ProcessVariables(n, m.constants),
                    !.agents = [i \in DOMAIN m.agents |-> ProcessAgent(n, m.agents[i])],
                    !.messages = [i \in DOMAIN m.messages |-> ProcessMessage(n, m.messages[i])]],
   ok |-> /\ adts.ok /\ FunctionFilesOK(m.functionFiles)
          /\ ValidateVariablesOK(n, m.constants, FALSE) /\ TimeUnitsOK(m.timeUnits)
          /\ \A i \in DOMAIN m.agents : AgentOK(n, m.agents[i])
          /\ \A i \in DOMAIN m.messages : MessageOK(n, m.messages[i])]
=============================================================================
