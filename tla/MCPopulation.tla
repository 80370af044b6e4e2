---------------------------- MODULE MCPopulation ----------------------------
(***************************************************************************)
(* Two agent types and small population files for module Population.       *)
(***************************************************************************)
EXTENDS Population

V(name, type) == [name |-> name, type |-> type]
AgentTypes == [a |-> <<V(2, "double"), V(1, "int"), V(3, "int")>>, b |-> <<V(3, "int")>>]
Access == [a |-> {1, 2}, b |-> {3}]

Large == [kind |-> "large", val |-> 0]
Word  == [kind |-> "word", val |-> 0]
Inf   == [kind |-> "INF", val |-> NonFinite]
PrintedInf == [kind |-> "inf", val |-> NonFinite]
Entry(var, text) == [var |-> var, text |-> text]
A(x, y) == [name |-> "a", texts |-> <<Entry(2, x), Entry(1, y), Entry(3, Text(7))>>]
B(z) == [name |-> "b", texts |-> <<Entry(3, z)>>]
\* An agent that is given the variables of the other type.
Other(name, as) == [name |-> name, texts |-> as.texts]

N == Text(4)
AgentEntries ==
  {A(N, N), A(Large, N), A(N, Large), A(Word, N), A(Inf, N), A(PrintedInf, N), B(N), B(Large), B(Inf),
   Other("a", B(N)), Other("b", A(N, N)), [A(N, N) EXCEPT !.name = "c"],
   [name |-> "a", texts |-> <<Entry(1, N), Entry(2, N), Entry(3, N)>>]}
Good == {A(N, N), A(Text(0), Text(1)), B(N)}
AllFiles ==
  UNION {[1..n -> AgentEntries] : n \in 0..2} \union UNION {[1..n -> Good] : n \in 3..4}
=============================================================================
