----------------------------- MODULE Conditions -----------------------------
(***************************************************************************)
(* flame::model::XCondition (flame2/model/xcondition.cpp): conditions of   *)
(* functions and filters of messages, which are read from nested elements  *)
(* (flame2/io/io_xml_model.cpp), rewritten and validated.                  *)
(***************************************************************************)
EXTENDS ModelValidate

CONSTANT Numbers      \* texts that lexical_cast accepts

ASSUME NumbersAssumption == Positive \subseteq Numbers

\* One side of a comparison: text with its prefix "a." or "m.", or a condition.
Side == [pre |-> "", name |-> None, isValue |-> FALSE, isAgentVariable |-> FALSE,
         isMessageVariable |-> FALSE, condition |-> <<>>]

\* XCondition::XCondition()
NewCondition ==
  [isNot |-> FALSE, isTime |-> FALSE, period |-> None, phase |-> Side, duration |-> None,
   isValues |-> FALSE, isConditions |-> FALSE, temp |-> Side, op |-> None,
   lhs |-> Side, rhs |-> Side]

RECURSIVE ReadCondition(_, _)

\* readConditionLhs(), readConditionRhs(): a side that holds no value is a condition.
ReadSide(elements, side) ==
  LET nested == ReadCondition(elements, NewCondition) IN
  IF nested.temp # Side
  THEN [side EXCEPT !.pre = nested.temp.pre, !.name = nested.temp.name,
                    !.isValue = TRUE, !.condition = <<>>]
  ELSE [side EXCEPT !.condition = <<nested>>]

\* readConditionTime()
ReadConditionTime(c, e) ==
  [c EXCEPT !.isTime = TRUE, !.isValues = FALSE, !.isConditions = FALSE,
            !.period = e.period, !.phase = e.phase, !.duration = e.duration]

\* readCondition()
ReadCondition(elements, xc) ==
  LET child(c, e) ==
        CASE e.tag = "not"  -> ReadCondition(e.elements, [c EXCEPT !.isNot = TRUE])
          [] e.tag = "time" -> ReadConditionTime(c, e)
          [] e.tag = "lhs"  -> [c EXCEPT !.temp = Side, !.lhs = ReadSide(e.elements, @)]
          [] e.tag = "rhs"  -> [c EXCEPT !.temp = Side, !.rhs = ReadSide(e.elements, @)]
          [] e.tag = "op"    -> [c EXCEPT !.op = e.value]
          [] e.tag = "value" -> [c EXCEPT !.temp = e.value]
          [] OTHER -> c
  IN FoldLeft(child, xc, elements)

-----------------------------------------------------------------------------
(* Validation *)

\* processSymbolsValue(): a variable loses its prefix and is no longer a value.
ProcessSide(s) ==
  [s EXCEPT !.pre = "", !.isValue = (s.pre = ""),
            !.isAgentVariable = @ \/ s.pre = "a.", !.isMessageVariable = @ \/ s.pre = "m."]
SideOK(s) == s.pre # "" \/ s.name \in Numbers

BothValues(c) == c.lhs.isValue /\ c.rhs.isValue
BothConditions(c) == c.lhs.condition # <<>> /\ c.rhs.condition # <<>>

Compares == [EQ |-> "==", NEQ |-> "!=", LEQ |-> "<=", GEQ |-> ">=", LT |-> "<", GT |-> ">"]
Joins    == [AND |-> "&&", OR |-> "||"]
Translate(ops, op) == IF op \in DOMAIN ops THEN ops[op] ELSE op

\* processSymbolsTime(): the phase is a variable of the agent or a number.
ProcessPhase(s) == [s EXCEPT !.pre = IF @ = "a." THEN "" ELSE @, !.isAgentVariable = (s.pre = "a.")]
TimeSymbolsOK(c) ==
  /\ c.phase.pre = "a." \/ (c.phase.pre = "" /\ c.phase.name \in Numbers)
  /\ c.duration \in Numbers \union {None}

RECURSIVE ProcessSymbols(_), SymbolsOK(_), ConditionOK(_, _, _, _), ConditionReads(_)

\* processSymbols(), processSymbolsValues(), processSymbolsConditions()
ProcessSymbols(c) ==
  CASE c.isTime -> [c EXCEPT !.phase = ProcessPhase(@)]
    [] ~c.isTime /\ BothValues(c) ->
         [c EXCEPT !.isValues = TRUE, !.lhs = ProcessSide(@), !.rhs = ProcessSide(@),
                   !.op = Translate(Compares, @)]
    [] ~c.isTime /\ ~BothValues(c) /\ BothConditions(c) ->
         [c EXCEPT !.isConditions = TRUE, !.op = Translate(Joins, @),
                   !.lhs.condition = <<ProcessSymbols(@[1])>>,
                   !.rhs.condition = <<ProcessSymbols(@[1])>>]
    [] OTHER -> c

SymbolsOK(c) ==
  \/ c.isTime /\ TimeSymbolsOK(c)
  \/ /\ ~c.isTime /\ BothValues(c)
     /\ SideOK(c.lhs) /\ SideOK(c.rhs) /\ c.op \in DOMAIN Compares
  \/ /\ ~c.isTime /\ ~BothValues(c) /\ BothConditions(c)
     /\ SymbolsOK(c.lhs.condition[1]) /\ SymbolsOK(c.rhs.condition[1]) /\ c.op \in DOMAIN Joins

\* validateTime(): period and phase exist.
TimeOK(c, agent, m) ==
  /\ c.period \in Named(m.timeUnits)
  /\ c.phase.isAgentVariable => c.phase.name \in VariableNames(agent.variables)

\* validateValue(): message is a sequence of at most one message.
ValueOK(s, agent, message) ==
  /\ s.isAgentVariable => s.name \in VariableNames(agent.variables)
  /\ ~s.isAgentVariable /\ s.isMessageVariable =>
       message # <<>> /\ s.name \in VariableNames(message[1].variables)

\* XCondition::validate() and validateValues(), on the processed condition.
ConditionOK(c, agent, message, m) ==
  \/ c.isTime /\ TimeOK(c, agent, m)
  \/ ~c.isTime /\ c.isValues /\ ValueOK(c.lhs, agent, message) /\ ValueOK(c.rhs, agent, message)
  \/ /\ ~c.isTime /\ ~c.isValues /\ c.isConditions
     /\ ConditionOK(c.lhs.condition[1], agent, message, m)
     /\ ConditionOK(c.rhs.condition[1], agent, message, m)

\* readOnlyVariables_ of a valid root condition: the agent variables in it.
ConditionReads(c) ==
  LET side(s) == (IF s.isAgentVariable THEN {s.name} ELSE {})
                   \union (IF s.condition = <<>> THEN {} ELSE ConditionReads(s.condition[1]))
  IN IF c.isTime THEN side(c.phase) ELSE side(c.lhs) \union side(c.rhs)
=============================================================================
