------------------------------ MODULE MCXGraph ------------------------------
(***************************************************************************)
(* Models for XGraph: one agent of three functions with every use of two   *)
(* variables, over several shapes of state machine, and two agents that    *)
(* exchange messages.                                                      *)
(***************************************************************************)
EXTENDS XGraph

CONSTANT Vars         \* agent variables, numbered in the order of their names

\* Shapes: the current and the next state of each function.
Chain == <<<<"0", "1">>, <<"1", "2">>, <<"2", "3">>>>
Join  == <<<<"0", "1">>, <<"0", "1">>, <<"1", "2">>>>
Fork  == <<<<"0", "1">>, <<"1", "2">>, <<"1", "3">>>>
Wide  == <<<<"0", "1">>, <<"0", "2">>, <<"0", "3">>>>

Uses == {u \in (SUBSET Vars) \X (SUBSET Vars) : u[1] \intersect u[2] = {}}
Branches(shape, i) == \E j \in DOMAIN shape : j # i /\ shape[j][1] = shape[i][1]

Names == <<"f", "g", "h">>

Machine(name, shape, use, cond, impl) ==
  [name |-> name, vars |-> Vars, condImpl |-> TRUE,
   functions |-> {[name |-> Names[i], current |-> shape[i][1], next |-> shape[i][2],
                   ro |-> use[i][1], rw |-> use[i][2], cond |-> Branches(shape, i) /\ cond,
                   outs |-> {}, ins |-> {}, impl |-> i \in impl] : i \in DOMAIN shape}]

\* Every use of the variables; conditions, or an implementation, may be missing.
Accesses ==
  {<<Machine("a", shape, use, TRUE, 1..3)>> :
     shape \in {Chain, Join, Fork}, use \in [1..3 -> Uses]}
  \union {<<Machine("a", shape, use, cond, impl)>> :
     shape \in {Wide, Join}, cond \in BOOLEAN, impl \in {{1, 2}, {1, 3}},
     use \in [1..3 -> {<<{}, {}>>, <<{}, Vars>>}]}
  \union {<<Machine("a", <<<<"0", "1">>, <<"1", "0">>>>, [i \in 1..2 |-> <<{}, {}>>], TRUE, {})>>}

\* Message roles: posts or reads of m or n.
Roles == {<<{}, {}>>, <<{"m"}, {}>>, <<{}, {"m"}>>, <<{}, {"n"}>>, <<{"n"}, {"m"}>>}

Talker(name, roles, use) ==
  [Machine(name, <<<<"0", "1">>, <<"1", "2">>>>, use, TRUE, 1..2) EXCEPT
     !.functions = {[f EXCEPT !.outs = roles[IF f.name = "f" THEN 1 ELSE 2][1],
                              !.ins = roles[IF f.name = "f" THEN 1 ELSE 2][2]] : f \in @}]

\* Two agents of two functions; the functions of the first share a variable or none.
Messages ==
  {<<Talker("a", r, use), Talker("b", s, [i \in 1..2 |-> <<{}, Vars>>])>> :
     r \in [1..2 -> Roles], s \in [1..2 -> Roles],
     use \in {[i \in 1..2 |-> <<{}, {}>>], <<<<{}, Vars>>, <<{}, Vars>>>>}}

AllModels == Accesses \union Messages
=============================================================================
