----------------------------- MODULE TaskGraph ------------------------------
(***************************************************************************)
(* Operations of flame::model::XGraph (flame2/model/xgraph.cpp) on a graph *)
(* of tasks, for modules MessageGraph and XGraph.  A graph is a record of  *)
(* module Graphs.                                                          *)
(***************************************************************************)
EXTENDS Graphs

\* addEdge() from every vertex of S to v, which is never joined to itself.
From(S, v) == {<<u, v>> : u \in S \ {v}}

\* removeVertices(): the vertices in S go with all their edges.
RemoveVertices(G, S) ==
  [node |-> G.node \ S, edge |-> {e \in G.edge : e[1] \notin S /\ e[2] \notin S}]

\* contractVertices(): sources of the vertices in S are joined to their targets.
Bridges(E, S) ==
  {<<p[1][1], p[2][2]>> :
     p \in {q \in E \X E : q[1][2] \in S /\ q[1][2] = q[2][1]}}

\* What comes after v: the vertices a path of one edge or more leads to.
After(G, v) ==
  LET reach[n \in 0..Cardinality(G.node)] ==
        IF n = 0 THEN Successors(G, v)
        ELSE LET r == reach[n - 1] IN r \union {e[2] : e \in {d \in G.edge : d[1] \in r}}
  IN reach[Cardinality(G.node)]

Cyclic(G) == \E v \in G.node : v \in After(G, v)

\* removeRedundantDependencies(): an edge goes when a longer path has its ends.
Reduced(G) ==
  LET after == [v \in G.node |-> After(G, v)] IN
  [G EXCEPT !.edge = {e \in G.edge : ~ \E n \in Successors(G, e[1]) : e[2] \in after[n]}]
=============================================================================
