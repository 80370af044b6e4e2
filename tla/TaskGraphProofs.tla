-------------------------- MODULE TaskGraphProofs ---------------------------
(***************************************************************************)
(* XGraph::removeRedundantDependencies() takes edges away but no order: in *)
(* a graph without cycles, what comes after a task comes after it still.   *)
(*                                                                         *)
(* After is computed in as many rounds as there are vertices.  The first   *)
(* lemmas show that this is enough: a round that adds nothing is followed  *)
(* by none that does, and each earlier one adds a vertex.                  *)
(***************************************************************************)
EXTENDS TaskGraph, SequencesExt, FiniteSetTheorems, SequenceTheorems, WellFoundedInduction,
        TLAPS

\* Every set of numbers has a least one: the form of induction used here.
LEMMA LeastNumber ==
  ASSUME NEW T \in SUBSET Nat, T # {}
  PROVE  \E n \in T : \A m \in T : n <= m
  <1>1. \E R : IsWellFoundedOn(R, Nat) /\ R = {p \in Nat \X Nat : p[1] < p[2]}
    <2>1. OpToRel(<, Nat) = {p \in Nat \X Nat : p[1] < p[2]}
      BY DEF OpToRel
    <2>2. IsWellFoundedOn({p \in Nat \X Nat : p[1] < p[2]}, Nat)
      BY <2>1, NatLessThanWellFounded, Zenon
    <2>. QED
      BY <2>2
  <1>2. PICK R : IsWellFoundedOn(R, Nat) /\ R = {p \in Nat \X Nat : p[1] < p[2]}
    BY <1>1
  <1>3. PICK n \in T : \A m \in T : ~(<<m, n>> \in R)
    BY <1>2, WFMin
  <1>4. ASSUME NEW m \in T PROVE n <= m
    <2>1. m \in Nat /\ n \in Nat
      OBVIOUS
    <2>2. m < n => <<m, n>> \in R
      BY <1>2, <2>1
    <2>. QED
      BY <1>3, <2>1, <2>2
  <1>. QED
    BY <1>4

\* A finite graph of module Graphs.
FiniteGraph(G) == IsDirectedGraph(G) /\ IsFiniteSet(G.node)

-----------------------------------------------------------------------------
(***************************************************************************)
(* The rounds of After.                                                    *)
(***************************************************************************)

\* What one round adds to r.
Grow(G, r) == r \union {e[2] : e \in {d \in G.edge : d[1] \in r}}

\* f[n] is what n rounds find, starting from s.
Rounds(f, G, s, N) == \A n \in 0..N : f[n] = IF n = 0 THEN s ELSE Grow(G, f[n - 1])

\* There is a function that holds the vertices found in each round.
LEMMA RoundsExist ==
  ASSUME NEW G, NEW s, NEW N \in Nat
  PROVE  \E f : f = [n \in 0..N |-> f[n]] /\ Rounds(f, G, s, N)
  <1> DEFINE P(m) == \E f : f = [n \in 0..m |-> f[n]] /\ Rounds(f, G, s, m)
             T == {m \in Nat : ~P(m)}
  <1>1. ASSUME T # {} PROVE FALSE
    <2>1. PICK m \in T : \A k \in T : m <= k
      <3>1. T \in SUBSET Nat
        OBVIOUS
      <3> HIDE DEF T
      <3>. QED
        BY <1>1, <3>1, LeastNumber
    <2>2. m \in Nat /\ ~P(m)
      OBVIOUS
    <2>3. m # 0
      <3>1. ASSUME m = 0 PROVE P(m)
        <4>1. PICK f : f = [n \in 0..m |-> s]
          OBVIOUS
        <4>2. \A n \in 0..m : n = 0
          BY <3>1
        <4>3. f = [n \in 0..m |-> f[n]] /\ Rounds(f, G, s, m)
          BY <4>1, <4>2 DEF Rounds
        <4>. QED
          BY <4>3
      <3>. QED
        BY <2>2, <3>1
    <2>4. m - 1 \in Nat /\ ~(m <= m - 1)
      BY <2>2, <2>3
    <2>5. P(m - 1)
      BY <2>1, <2>4
    <2>6. PICK g : g = [n \in 0..(m - 1) |-> g[n]] /\ Rounds(g, G, s, m - 1)
      BY <2>5
    <2>7. PICK f : f = [n \in 0..m |-> IF n = m THEN Grow(G, g[m - 1]) ELSE g[n]]
      OBVIOUS
    <2>8. f = [n \in 0..m |-> f[n]]
      BY <2>7
    <2>9. ASSUME NEW n \in 0..m PROVE f[n] = IF n = 0 THEN s ELSE Grow(G, f[n - 1])
      <3>1. n = m \/ n \in 0..(m - 1)
        BY <2>2
      <3>2. n # 0 => n - 1 \in 0..m /\ n - 1 # m /\ f[n - 1] = g[n - 1]
        BY <2>2, <2>7
      <3>3. CASE n = m
        BY <2>3, <2>7, <3>2, <3>3
      <3>4. CASE n # m
        <4>1. f[n] = g[n]
          BY <2>7, <3>4
        <4>. QED
          BY <2>6, <3>1, <3>2, <3>4, <4>1 DEF Rounds
      <3>. QED
        BY <3>3, <3>4
    <2>10. P(m)
      BY <2>8, <2>9 DEF Rounds
    <2>. QED
      BY <2>2, <2>10
  <1>2. N \notin T
    BY <1>1
  <1>. QED
    BY <1>2

\* After is what the rounds find, as many as there are vertices.
LEMMA AfterRounds ==
  ASSUME NEW G, FiniteGraph(G), NEW v
  PROVE  \E f : /\ Rounds(f, G, Successors(G, v), Cardinality(G.node))
                /\ After(G, v) = f[Cardinality(G.node)]
  <1> DEFINE reach[n \in 0..Cardinality(G.node)] ==
               IF n = 0 THEN Successors(G, v)
               ELSE LET r == reach[n - 1]
                    IN  r \union {e[2] : e \in {d \in G.edge : d[1] \in r}}
  <1>1. Cardinality(G.node) \in Nat
    BY FS_CardinalityType DEF FiniteGraph
  <1>2. After(G, v) = reach[Cardinality(G.node)]
    BY Zenon DEF After
  <1>3. PICK N \in Nat : N = Cardinality(G.node)
    BY <1>1
  <1>4. reach = [n \in 0..N |-> IF n = 0 THEN Successors(G, v) ELSE Grow(G, reach[n - 1])]
    <2>1. PICK f : f = [n \in 0..N |-> f[n]] /\ Rounds(f, G, Successors(G, v), N)
      BY RoundsExist
    <2>2. f = [n \in 0..N |-> IF n = 0 THEN Successors(G, v) ELSE Grow(G, f[n - 1])]
      BY <2>1 DEF Rounds
    <2>3. f = [n \in 0..Cardinality(G.node) |->
                 IF n = 0 THEN Successors(G, v)
                 ELSE LET r == f[n - 1]
                      IN  r \union {e[2] : e \in {d \in G.edge : d[1] \in r}}]
      BY <1>3, <2>2 DEF Grow
    <2>4. reach = [n \in 0..Cardinality(G.node) |->
                 IF n = 0 THEN Successors(G, v)
                 ELSE LET r == reach[n - 1]
                      IN  r \union {e[2] : e \in {d \in G.edge : d[1] \in r}}]
      BY <2>3
    <2> HIDE DEF reach
    <2>. QED
      BY <1>3, <2>4 DEF Grow
  <1> HIDE DEF reach
  <1>5. PICK f : f = reach
    OBVIOUS
  <1>6. Rounds(f, G, Successors(G, v), N)
    BY <1>4, <1>5 DEF Rounds
  <1>. QED
    BY <1>2, <1>3, <1>5, <1>6

Growing(f, G, s, N) ==
  /\ \A n \in 0..N : f[n] \in SUBSET G.node /\ s \subseteq f[n]
  /\ \A n \in 1..N : f[n - 1] \subseteq f[n]

\* Rounds never lose a vertex and find only vertices.
LEMMA RoundsGrow ==
  ASSUME NEW G, FiniteGraph(G), NEW s \in SUBSET G.node, NEW N \in Nat, NEW f, Rounds(f, G, s, N)
  PROVE  Growing(f, G, s, N)
  <1> DEFINE Good(n) == f[n] \in SUBSET G.node /\ s \subseteq f[n]
             T == {n \in 0..N : ~Good(n)}
  <1>1. \A r \in SUBSET G.node : Grow(G, r) \in SUBSET G.node /\ r \subseteq Grow(G, r)
    BY DEF Grow, FiniteGraph, IsDirectedGraph
  <1>2. ASSUME T # {} PROVE FALSE
    <2>1. PICK n \in T : \A k \in T : n <= k
      <3>1. T \in SUBSET Nat
        OBVIOUS
      <3> HIDE DEF T
      <3>. QED
        BY <1>2, <3>1, LeastNumber
    <2>2. n \in 0..N /\ ~Good(n)
      OBVIOUS
    <2>3. n # 0
      BY <2>2 DEF Rounds
    <2>4. n - 1 \in 0..N /\ ~(n <= n - 1)
      BY <2>2, <2>3
    <2>5. Good(n - 1)
      BY <2>1, <2>4
    <2>6. f[n] = Grow(G, f[n - 1])
      BY <2>2, <2>3 DEF Rounds
    <2>. QED
      BY <1>1, <2>2, <2>5, <2>6
  <1>3. \A n \in 0..N : Good(n)
    <2>1. T = {}
      BY <1>2
    <2>. QED
      BY <2>1
  <1>4. ASSUME NEW n \in 1..N PROVE f[n - 1] \subseteq f[n]
    <2>1. n \in 0..N /\ n # 0 /\ n - 1 \in 0..N
      OBVIOUS
    <2>2. f[n] = Grow(G, f[n - 1]) /\ f[n - 1] \in SUBSET G.node
      BY <1>3, <2>1 DEF Rounds
    <2>. QED
      BY <1>1, <2>2
  <1>. QED
    BY <1>3, <1>4 DEF Growing

\* A round that adds nothing is followed by none that does.
LEMMA RoundsStop ==
  ASSUME NEW G, NEW s, NEW N \in Nat, NEW f, Rounds(f, G, s, N),
         NEW k \in 0..N, Grow(G, f[k]) = f[k]
  PROVE  f[N] = f[k]
  <1> DEFINE T == {n \in k..N : f[n] # f[k]}
  <1>1. ASSUME T # {} PROVE FALSE
    <2>1. PICK n \in T : \A m \in T : n <= m
      <3>1. T \in SUBSET Nat
        OBVIOUS
      <3> HIDE DEF T
      <3>. QED
        BY <1>1, <3>1, LeastNumber
    <2>2. n \in k..N /\ n # k /\ f[n] # f[k]
      OBVIOUS
    <2>3. n - 1 \in k..N /\ ~(n <= n - 1) /\ n \in 0..N /\ n # 0
      BY <2>2
    <2>4. f[n - 1] = f[k]
      BY <2>1, <2>3
    <2>5. f[n] = Grow(G, f[n - 1])
      BY <2>3 DEF Rounds
    <2>. QED
      BY <2>2, <2>4, <2>5
  <1>2. N \in k..N
    OBVIOUS
  <1>3. T = {}
    BY <1>1
  <1>. QED
    BY <1>2, <1>3

\* As many rounds as there are vertices are enough.
LEMMA RoundsSuffice ==
  ASSUME NEW G, FiniteGraph(G), NEW s \in SUBSET G.node, NEW f,
         NEW N \in Nat, N = Cardinality(G.node), Rounds(f, G, s, N)
  PROVE  Grow(G, f[N]) = f[N]
  <1>0. Growing(f, G, s, N)
    BY RoundsGrow
  <1>1. /\ \A n \in 0..N : f[n] \in SUBSET G.node /\ s \subseteq f[n]
        /\ \A n \in 1..N : f[n - 1] \subseteq f[n]
    BY <1>0 DEF Growing
  <1>2. \A n \in 0..N : IsFiniteSet(f[n]) /\ Cardinality(f[n]) \in Nat /\ Cardinality(f[n]) <= N
    BY <1>1, FS_Subset, FS_CardinalityType DEF FiniteGraph
  <1> DEFINE T == {n \in 0..N : Cardinality(f[n]) <= n}
  <1>3. N \in T
    BY <1>2
  <1>4. PICK n \in T : \A m \in T : n <= m
    <2>1. T \in SUBSET Nat /\ T # {}
      BY <1>3
    <2> HIDE DEF T
    <2>. QED
      BY <2>1, LeastNumber
  <1>5. n \in 0..N /\ Cardinality(f[n]) <= n
    OBVIOUS
  <1>6. PICK k \in 0..N : Grow(G, f[k]) = f[k]
    <2>1. CASE n = 0
      <3>1. Cardinality(f[0]) = 0
        BY <1>2, <1>5, <2>1
      <3>2. f[0] = {}
        BY <1>2, <1>5, <2>1, <3>1, FS_EmptySet
      <3>3. Grow(G, f[0]) = f[0]
        BY <3>2 DEF Grow
      <3>. QED
        BY <1>5, <2>1, <3>3
    <2>2. CASE n # 0
      <3>1. n - 1 \in 0..N /\ ~(n <= n - 1) /\ n \in 1..N
        BY <1>5, <2>2
      <3>2. ~(Cardinality(f[n - 1]) <= n - 1)
        BY <1>4, <3>1
      <3>3. f[n - 1] \subseteq f[n] /\ IsFiniteSet(f[n]) /\ Cardinality(f[n - 1]) \in Nat
            /\ Cardinality(f[n]) \in Nat
        BY <1>1, <1>2, <1>5, <3>1
      <3>4. Cardinality(f[n]) <= Cardinality(f[n - 1])
        BY <1>5, <3>1, <3>2, <3>3
      <3>5. Cardinality(f[n - 1]) <= Cardinality(f[n])
        BY <3>3, FS_Subset
      <3>6. Cardinality(f[n - 1]) = Cardinality(f[n])
        BY <3>3, <3>4, <3>5
      <3>7. f[n - 1] = f[n]
        BY <3>3, <3>6, FS_Subset
      <3>8. f[n] = Grow(G, f[n - 1])
        BY <1>5, <2>2 DEF Rounds
      <3>. QED
        BY <3>1, <3>7, <3>8
    <2>. QED
      BY <2>1, <2>2
  <1>7. f[N] = f[k]
    BY <1>6, RoundsStop
  <1>. QED
    BY <1>6, <1>7

\* The vertices after v are the least set that holds the targets of v and the targets
\* of its members.
LEMMA AfterLeast ==
  ASSUME NEW G, FiniteGraph(G), NEW v
  PROVE  /\ After(G, v) \in SUBSET G.node
         /\ Successors(G, v) \subseteq After(G, v)
         /\ \A e \in G.edge : e[1] \in After(G, v) => e[2] \in After(G, v)
         /\ \A S : (Successors(G, v) \subseteq S /\ \A e \in G.edge : e[1] \in S => e[2] \in S)
                     => After(G, v) \subseteq S
  <1>1. PICK N \in Nat : N = Cardinality(G.node)
    BY FS_CardinalityType DEF FiniteGraph
  <1>2. PICK f : Rounds(f, G, Successors(G, v), N) /\ After(G, v) = f[N]
    BY <1>1, AfterRounds
  <1>3. Successors(G, v) \in SUBSET G.node /\ N \in 0..N
    BY DEF Successors
  <1>4. f[N] \in SUBSET G.node /\ Successors(G, v) \subseteq f[N]
    <2>1. Growing(f, G, Successors(G, v), N)
      BY <1>2, <1>3, RoundsGrow
    <2>. QED
      BY <1>3, <2>1 DEF Growing
  <1>5. Grow(G, f[N]) = f[N]
    BY <1>1, <1>2, <1>3, RoundsSuffice
  <1>6. \A e \in G.edge : e[1] \in f[N] => e[2] \in f[N]
    BY <1>5 DEF Grow
  <1>7. ASSUME NEW S, Successors(G, v) \subseteq S, \A e \in G.edge : e[1] \in S => e[2] \in S
        PROVE  f[N] \subseteq S
    <2> DEFINE T == {n \in 0..N : ~(f[n] \subseteq S)}
    <2>1. ASSUME T # {} PROVE FALSE
      <3>1. PICK n \in T : \A m \in T : n <= m
        <4>1. T \in SUBSET Nat
          OBVIOUS
        <4> HIDE DEF T
        <4>. QED
          BY <2>1, <4>1, LeastNumber
      <3>2. n \in 0..N /\ ~(f[n] \subseteq S)
        OBVIOUS
      <3>3. n # 0
        BY <1>2, <1>7, <3>2 DEF Rounds
      <3>4. n - 1 \in 0..N /\ ~(n <= n - 1)
        BY <3>2, <3>3
      <3>5. f[n - 1] \subseteq S
        BY <3>1, <3>4
      <3>6. f[n] = Grow(G, f[n - 1])
        BY <1>2, <3>2, <3>3 DEF Rounds
      <3>. QED
        BY <1>7, <3>2, <3>5, <3>6 DEF Grow
    <2>2. T = {}
      BY <2>1
    <2>. QED
      BY <1>3, <2>2
  <1>. QED
    BY <1>2, <1>4, <1>6, <1>7

-----------------------------------------------------------------------------
(***************************************************************************)
(* What comes after a vertex.                                              *)
(***************************************************************************)

\* What comes after what comes after v comes after v.
LEMMA AfterTransitive ==
  ASSUME NEW G, FiniteGraph(G), NEW v, NEW x \in After(G, v)
  PROVE  After(G, x) \subseteq After(G, v)
  <1>1. After(G, v) \in SUBSET G.node /\ \A e \in G.edge : e[1] \in After(G, v) => e[2] \in After(G, v)
    BY AfterLeast
  <1>2. PICK S : S = After(G, v)
    OBVIOUS
  <1>3. Successors(G, x) \subseteq S
    BY <1>1, <1>2 DEF Successors
  <1>4. After(G, x) \subseteq S
    BY <1>1, <1>2, <1>3, AfterLeast
  <1>. QED
    BY <1>2, <1>4

\* A path begins with an edge.
LEMMA AfterFirst ==
  ASSUME NEW G, FiniteGraph(G), NEW v, NEW t \in After(G, v)
  PROVE  \E u \in Successors(G, v) : u = t \/ t \in After(G, u)
  <1> DEFINE From1(x) == \E u \in Successors(G, v) : u = x \/ x \in After(G, u)
  <1>1. PICK S : S = {x \in G.node : From1(x)}
    OBVIOUS
  <1>2. Successors(G, v) \subseteq S
    BY <1>1 DEF Successors
  <1>3. ASSUME NEW e \in G.edge, e[1] \in S PROVE e[2] \in S
    <2>1. e[1] \in G.node /\ e[2] \in G.node /\ e = <<e[1], e[2]>>
      BY DEF FiniteGraph, IsDirectedGraph
    <2>2. PICK u \in Successors(G, v) : u = e[1] \/ e[1] \in After(G, u)
      BY <1>1, <1>3
    <2>3. e[2] \in After(G, u)
      <3>1. CASE u = e[1]
        <4>1. e[2] \in Successors(G, u)
          BY <2>1, <3>1 DEF Successors
        <4>. QED
          BY <4>1, AfterLeast
      <3>2. CASE e[1] \in After(G, u)
        BY <3>2, AfterLeast
      <3>. QED
        BY <2>2, <3>1, <3>2
    <2>. QED
      BY <1>1, <2>1, <2>2, <2>3
  <1>4. After(G, v) \subseteq S
    BY <1>2, <1>3, AfterLeast
  <1>. QED
    BY <1>1, <1>4

\* A path ends with an edge.
LEMMA AfterLast ==
  ASSUME NEW G, FiniteGraph(G), NEW v \in G.node, NEW t \in After(G, v)
  PROVE  \E u \in G.node : <<u, t>> \in G.edge /\ (u = v \/ u \in After(G, v))
  <1>1. PICK A : A = After(G, v)
    OBVIOUS
  <1>2. A \in SUBSET G.node /\ \A e \in G.edge : e[1] \in A => e[2] \in A
    BY <1>1, AfterLeast
  <1>3. PICK S : S = {x \in A : \E u \in G.node : <<u, x>> \in G.edge /\ (u = v \/ u \in A)}
    OBVIOUS
  <1>4. Successors(G, v) \subseteq S
    <2>1. Successors(G, v) \subseteq A
      BY <1>1, AfterLeast
    <2>. QED
      BY <1>3, <2>1 DEF Successors
  <1>5. \A e \in G.edge : e = <<e[1], e[2]>> /\ e[1] \in G.node
    BY DEF FiniteGraph, IsDirectedGraph
  <1>6. \A e \in G.edge : e[1] \in S => e[2] \in S
    BY <1>2, <1>3, <1>5
  <1>7. After(G, v) \subseteq S
    BY <1>4, <1>6, AfterLeast
  <1>. QED
    BY <1>1, <1>3, <1>7

\* More vertices and edges lead further.
LEMMA AfterMonotone ==
  ASSUME NEW G, FiniteGraph(G), NEW H, FiniteGraph(H), G.node \subseteq H.node, G.edge \subseteq H.edge,
         NEW v
  PROVE  After(G, v) \subseteq After(H, v)
  <1>1. PICK S : S = After(H, v)
    OBVIOUS
  <1>2. Successors(H, v) \subseteq S /\ \A e \in H.edge : e[1] \in S => e[2] \in S
    BY <1>1, AfterLeast
  <1>3. Successors(G, v) \subseteq S /\ \A e \in G.edge : e[1] \in S => e[2] \in S
    BY <1>2 DEF Successors
  <1>4. After(G, v) \subseteq S
    BY <1>3, AfterLeast
  <1>. QED
    BY <1>1, <1>4

\* A graph whose edges lie in a transitive relation has its paths there.
LEMMA AfterWithin ==
  ASSUME NEW G, FiniteGraph(G), NEW L, G.edge \subseteq L,
         \A x, y, z \in G.node : <<x, y>> \in L /\ <<y, z>> \in L => <<x, z>> \in L,
         NEW v \in G.node
  PROVE  \A t \in After(G, v) : <<v, t>> \in L
  <1>1. PICK S : S = {t \in G.node : <<v, t>> \in L}
    OBVIOUS
  <1>2. \A e \in G.edge : e = <<e[1], e[2]>> /\ e[1] \in G.node /\ e[2] \in G.node
    BY DEF FiniteGraph, IsDirectedGraph
  <1>3. Successors(G, v) \subseteq S
    BY <1>1 DEF Successors
  <1>4. \A e \in G.edge : e[1] \in S => e[2] \in S
    BY <1>1, <1>2
  <1>5. After(G, v) \subseteq S
    BY <1>3, <1>4, AfterLeast
  <1>. QED
    BY <1>1, <1>5

\* Such a graph has no cycle if nothing is related to itself.
LEMMA AcyclicWithin ==
  ASSUME NEW G, FiniteGraph(G), NEW L, G.edge \subseteq L,
         \A x, y, z \in G.node : <<x, y>> \in L /\ <<y, z>> \in L => <<x, z>> \in L,
         \A x \in G.node : <<x, x>> \notin L
  PROVE  ~Cyclic(G)
  <1>1. SUFFICES ASSUME NEW v \in G.node, v \in After(G, v) PROVE FALSE
    BY DEF Cyclic
  <1>2. <<v, v>> \in L
    BY <1>1, AfterWithin
  <1>. QED
    BY <1>2

\* The number of vertices after x, and that it falls along a path without cycles.
LEMMA AfterFewer ==
  ASSUME NEW G, FiniteGraph(G), ~Cyclic(G), NEW v
  PROVE  /\ Cardinality(After(G, v)) \in 0..Cardinality(G.node)
         /\ \A x \in After(G, v) : Cardinality(After(G, x)) < Cardinality(After(G, v))
  <1>1. After(G, v) \in SUBSET G.node /\ IsFiniteSet(G.node)
    BY AfterLeast DEF FiniteGraph
  <1>2. /\ IsFiniteSet(After(G, v)) /\ Cardinality(After(G, v)) \in Nat
        /\ Cardinality(G.node) \in Nat /\ Cardinality(After(G, v)) <= Cardinality(G.node)
    BY <1>1, FS_Subset, FS_CardinalityType
  <1>3. ASSUME NEW x \in After(G, v)
        PROVE  Cardinality(After(G, x)) < Cardinality(After(G, v))
    <2>1. After(G, x) \subseteq After(G, v)
      BY AfterTransitive
    <2>2. x \notin After(G, x)
      BY <1>1 DEF Cyclic
    <2>3. PICK A, B : A = After(G, x) /\ B = After(G, v)
      OBVIOUS
    <2>4. A \subseteq B /\ A # B /\ IsFiniteSet(B)
      BY <1>2, <2>1, <2>2, <2>3
    <2>5. IsFiniteSet(A) /\ Cardinality(A) \in Nat /\ Cardinality(B) \in Nat
      BY <2>4, FS_Subset, FS_CardinalityType
    <2>6. Cardinality(A) <= Cardinality(B) /\ Cardinality(A) # Cardinality(B)
      BY <2>4, FS_Subset
    <2>7. Cardinality(A) < Cardinality(B)
      BY <2>5, <2>6
    <2>. QED
      BY <2>3, <2>7
  <1>. QED
    BY <1>2, <1>3

\* Without cycles, every set of vertices has one with none of the set after it, ...
LEMMA LastVertex ==
  ASSUME NEW G, FiniteGraph(G), ~Cyclic(G), NEW B, B # {}
  PROVE  \E v \in B : After(G, v) \intersect B = {}
  <1> DEFINE T == {Cardinality(After(G, v)) : v \in B}
  <1>1. T \in SUBSET Nat /\ T # {}
    BY AfterFewer
  <1>2. PICK n \in T : \A m \in T : n <= m
    <2> HIDE DEF T
    <2>. QED
      BY <1>1, LeastNumber
  <1>3. PICK v \in B : n = Cardinality(After(G, v))
    OBVIOUS
  <1>4. ASSUME NEW w \in After(G, v), w \in B PROVE FALSE
    <2>1. Cardinality(After(G, w)) < n
      BY <1>3, AfterFewer
    <2>2. PICK m \in T : m = Cardinality(After(G, w))
      BY <1>4
    <2>3. m \in Nat /\ n \in Nat
      BY <1>1
    <2> HIDE DEF T
    <2>. QED
      BY <1>2, <2>1, <2>2, <2>3
  <1>. QED
    BY <1>4

\* ... and one that comes after none of the set.
LEMMA FirstVertex ==
  ASSUME NEW G, FiniteGraph(G), ~Cyclic(G), NEW B, B # {}
  PROVE  \E u \in B : \A w \in B : u \notin After(G, w)
  <1>1. PICK N \in Nat : N = Cardinality(G.node)
    BY FS_CardinalityType DEF FiniteGraph
  <1> DEFINE Others(v) == N - Cardinality(After(G, v))
             T == {Others(v) : v \in B}
  <1>2. \A v \in B : Cardinality(After(G, v)) \in 0..N
    BY <1>1, AfterFewer
  <1>3. T \in SUBSET Nat /\ T # {}
    <2>1. \A v \in B : Others(v) \in Nat
      BY <1>2
    <2>. QED
      BY <2>1
  <1>4. PICK n \in T : \A m \in T : n <= m
    <2> HIDE DEF T
    <2>. QED
      BY <1>3, LeastNumber
  <1>5. PICK u \in B : n = Others(u)
    OBVIOUS
  <1>6. ASSUME NEW w \in B, u \in After(G, w) PROVE FALSE
    <2>1. PICK i, j : i = Cardinality(After(G, u)) /\ j = Cardinality(After(G, w))
      OBVIOUS
    <2>2. i < j /\ i \in 0..N /\ j \in 0..N
      BY <1>2, <1>6, <2>1, AfterFewer
    <2>3. Others(w) \in T
      OBVIOUS
    <2>4. N - i <= N - j
      BY <1>4, <1>5, <2>1, <2>3
    <2>. QED
      BY <2>2, <2>4
  <1>. QED
    BY <1>6

-----------------------------------------------------------------------------
(***************************************************************************)
(* The reduction.                                                          *)
(***************************************************************************)

\* Reduced takes edges away, those that a longer path makes redundant.
LEMMA ReducedEdges ==
  ASSUME NEW G, FiniteGraph(G)
  PROVE  /\ FiniteGraph(Reduced(G)) /\ Reduced(G).node = G.node
         /\ Reduced(G).edge =
              {e \in G.edge : ~ \E n \in Successors(G, e[1]) : e[2] \in After(G, n)}
  <1>1. PICK h : h = [v \in G.node |-> After(G, v)]
    OBVIOUS
  <1>2. Reduced(G) =
          [G EXCEPT !.edge = {e \in G.edge : ~ \E n \in Successors(G, e[1]) : e[2] \in h[n]}]
    BY <1>1 DEF Reduced
  <1>3. \A v : \A n \in Successors(G, v) : h[n] = After(G, n)
    BY <1>1 DEF Successors
  <1>4. G = [node |-> G.node, edge |-> G.edge] /\ G.edge \subseteq G.node \X G.node
    BY DEF FiniteGraph, IsDirectedGraph
  <1>5. PICK K : K = {e \in G.edge : ~ \E n \in Successors(G, e[1]) : e[2] \in After(G, n)}
    OBVIOUS
  <1>6. Reduced(G) = [G EXCEPT !.edge = K]
    <2>1. \A e : (\E n \in Successors(G, e[1]) : e[2] \in h[n])
                   <=> (\E n \in Successors(G, e[1]) : e[2] \in After(G, n))
      BY <1>3
    <2>2. PICK L : L = {e \in G.edge : ~ \E n \in Successors(G, e[1]) : e[2] \in h[n]}
      OBVIOUS
    <2>3. L = K
      BY <1>5, <2>1, <2>2
    <2>. QED
      BY <1>2, <2>2, <2>3
  <1>7. Reduced(G).node = G.node /\ Reduced(G).edge = K
    BY <1>4, <1>6
  <1>8. Reduced(G) = [node |-> Reduced(G).node, edge |-> Reduced(G).edge]
    BY <1>4, <1>6
  <1>9. FiniteGraph(Reduced(G))
    BY <1>4, <1>5, <1>7, <1>8 DEF FiniteGraph, IsDirectedGraph
  <1>. QED
    BY <1>5, <1>7, <1>9

\* removeRedundantDependencies() keeps the order: what comes after a task in a graph
\* without cycles comes after it in the reduced graph, and nothing else does.
THEOREM ReductionKeepsOrder ==
  ASSUME NEW G, FiniteGraph(G), ~Cyclic(G), NEW s \in G.node
  PROVE  After(Reduced(G), s) = After(G, s)
  <1>1. PICK R : R = Reduced(G)
    OBVIOUS
  <1>2. /\ FiniteGraph(R) /\ R.node = G.node
        /\ R.edge = {e \in G.edge : ~ \E n \in Successors(G, e[1]) : e[2] \in After(G, n)}
    BY <1>1, ReducedEdges
  <1>3. After(R, s) \subseteq After(G, s)
    <2>1. PICK S : S = After(G, s)
      OBVIOUS
    <2>2. Successors(R, s) \subseteq Successors(G, s)
      BY <1>2 DEF Successors
    <2>3. Successors(R, s) \subseteq S /\ \A e \in R.edge : e[1] \in S => e[2] \in S
      BY <1>2, <2>1, <2>2, AfterLeast
    <2>4. After(R, s) \subseteq S
      BY <1>2, <2>3, AfterLeast
    <2>. QED
      BY <2>1, <2>4
  <1>4. ASSUME NEW t \in After(G, s), t \notin After(R, s) PROVE FALSE
    <2>1. PICK B : B = {v \in G.node : t \in After(G, v) /\ t \notin After(R, v)}
      OBVIOUS
    <2>2. PICK v \in B : After(G, v) \intersect B = {}
      BY <1>4, <2>1, LastVertex
    <2>3. PICK C : C = {u \in Successors(G, v) : u = t \/ t \in After(G, u)}
      OBVIOUS
    <2>4. C # {}
      BY <2>1, <2>2, <2>3, AfterFirst
    <2>5. PICK u \in C : \A w \in C : u \notin After(G, w)
      BY <2>4, FirstVertex
    <2>6. u \in Successors(G, v) /\ (u = t \/ t \in After(G, u)) /\ u \in G.node
      BY <2>3, <2>5 DEF Successors
    <2>7. ASSUME NEW n \in Successors(G, v), u \in After(G, n) PROVE FALSE
      <3>1. t \in After(G, n)
        BY <2>6, <2>7, AfterTransitive
      <3>. QED
        BY <2>3, <2>5, <2>7, <3>1
    <2>8. u \in Successors(R, v)
      <3>1. <<v, u>> \in G.edge
        BY <2>6 DEF Successors
      <3>2. <<v, u>> \in R.edge
        BY <1>2, <2>7, <3>1
      <3>. QED
        BY <1>2, <2>6, <3>2 DEF Successors
    <2>9. u \in After(R, v)
      BY <1>2, <2>8, AfterLeast
    <2>10. u # t
      BY <2>1, <2>2, <2>9
    <2>11. u \in After(G, v)
      BY <2>6, AfterLeast
    <2>12. t \in After(R, u)
      BY <2>1, <2>2, <2>6, <2>10, <2>11
    <2>13. t \in After(R, v)
      BY <1>2, <2>9, <2>12, AfterTransitive
    <2>. QED
      BY <2>1, <2>2, <2>13
  <1>. QED
    BY <1>1, <1>3, <1>4

-----------------------------------------------------------------------------
(***************************************************************************)
(* Vectors, for the proofs about boards and populations.                   *)
(***************************************************************************)

Elements(s) == {s[i] : i \in 1..Len(s)}
Injective(s) == \A i, j \in 1..Len(s) : s[i] = s[j] => i = j

\* Concatenation keeps elements, and keeps them apart if they were.
LEMMA ConcatElements ==
  ASSUME NEW X, NEW s \in Seq(X), NEW t \in Seq(X)
  PROVE  /\ s \o t \in Seq(X)
         /\ Elements(s \o t) = Elements(s) \union Elements(t)
         /\ (Injective(s) /\ Injective(t) /\ Elements(s) \intersect Elements(t) = {})
              => Injective(s \o t)
  <1>9. PICK m \in Nat, n \in Nat : m = Len(s) /\ n = Len(t)
    OBVIOUS
  <1>10. PICK u : u = s \o t
    OBVIOUS
  <1>1. u = s \o t /\ m = Len(s) /\ n = Len(t)
    BY <1>9, <1>10
  <1>2. /\ u \in Seq(X) /\ Len(u) = m + n
        /\ \A i \in 1..(m + n) : u[i] = IF i <= m THEN s[i] ELSE t[i - m]
    BY <1>1, ConcatProperties
  <1>3. \A i \in 1..(m + n) : (i <= m => i \in 1..m) /\ (~(i <= m) => i - m \in 1..n)
    OBVIOUS
  <1>4. \A i \in 1..m : i \in 1..(m + n) /\ u[i] = s[i]
    BY <1>2
  <1>5. \A j \in 1..n : m + j \in 1..(m + n) /\ u[m + j] = t[j]
    <2> SUFFICES ASSUME NEW j \in 1..n PROVE m + j \in 1..(m + n) /\ u[m + j] = t[j]
      OBVIOUS
    <2>1. m + j \in 1..(m + n) /\ ~(m + j <= m) /\ (m + j) - m = j
      OBVIOUS
    <2>. QED
      BY <1>2, <2>1
  <1>6. Elements(u) = Elements(s) \union Elements(t)
    <2>1. Elements(u) \subseteq Elements(s) \union Elements(t)
      BY <1>1, <1>2, <1>3 DEF Elements
    <2>2. \A i \in 1..m : s[i] \in Elements(u)
      BY <1>2, <1>4 DEF Elements
    <2>3. \A j \in 1..n : t[j] \in Elements(u)
      <3> SUFFICES ASSUME NEW j \in 1..n PROVE \E i \in 1..Len(u) : t[j] = u[i]
        BY DEF Elements
      <3>. QED
        BY <1>2, <1>5
    <2>4. Elements(s) \subseteq Elements(u) /\ Elements(t) \subseteq Elements(u)
      <3>1. \A x \in Elements(s) : \E i \in 1..m : x = s[i]
        BY <1>1 DEF Elements
      <3>2. \A x \in Elements(t) : \E j \in 1..n : x = t[j]
        BY <1>1 DEF Elements
      <3>. QED
        BY <2>2, <2>3, <3>1, <3>2
    <2>. QED
      BY <2>1, <2>4
  <1>7. ASSUME Injective(s), Injective(t), Elements(s) \intersect Elements(t) = {}
        PROVE  Injective(u)
    <2> SUFFICES ASSUME NEW i \in 1..(m + n), NEW j \in 1..(m + n), u[i] = u[j]
                 PROVE  i = j
      BY <1>2 DEF Injective
    <2>1. CASE i <= m /\ j <= m
      BY <1>1, <1>2, <1>3, <1>7, <2>1 DEF Injective
    <2>2. CASE ~(i <= m) /\ ~(j <= m)
      <3>1. i - m \in 1..n /\ j - m \in 1..n /\ t[i - m] = t[j - m]
        BY <1>2, <1>3, <2>2
      <3>2. i - m = j - m
        BY <1>1, <1>7, <3>1 DEF Injective
      <3>. QED
        BY <3>2
    <2>3. \A k \in 1..m, l \in 1..n : s[k] # t[l]
      BY <1>1, <1>7 DEF Elements
    <2>4. ~(i <= m /\ ~(j <= m))
      BY <1>2, <1>3, <2>3
    <2>5. ~(j <= m /\ ~(i <= m))
      BY <1>2, <1>3, <2>3
    <2>. QED
      BY <2>1, <2>2, <2>4, <2>5
  <1>. QED
    BY <1>1, <1>2, <1>6, <1>7

\* f[i] is the concatenation of the first i sequences of ss.
Concatenates(f, ss, n) ==
  \A i \in 1..n : f[i] = IF i = 1 THEN ss[i] ELSE f[i - 1] \o ss[i]

\* There is a function that concatenates, and FlattenSeq() is what it computes.
LEMMA FlattenExists ==
  ASSUME NEW n \in Nat, NEW ss
  PROVE  \E f : f = [i \in 1..n |-> f[i]] /\ Concatenates(f, ss, n)
  <1> DEFINE P(m) == \E f : f = [i \in 1..m |-> f[i]] /\ Concatenates(f, ss, m)
             T == {m \in Nat : ~P(m)}
  <1>1. ASSUME T # {} PROVE FALSE
    <2>1. PICK m \in T : \A k \in T : m <= k
      <3> HIDE DEF T
      <3>1. T \in SUBSET Nat
        BY DEF T
      <3>. QED
        BY <1>1, <3>1, LeastNumber
    <2>2. m \in Nat /\ ~P(m)
      OBVIOUS
    <2>3. m # 0
      <3>1. ASSUME m = 0 PROVE P(m)
        <4>1. PICK f : f = [i \in 1..m |-> 0]
          OBVIOUS
        <4>2. 1..m = {}
          BY <3>1
        <4>3. f = [i \in 1..m |-> f[i]] /\ Concatenates(f, ss, m)
          BY <4>1, <4>2 DEF Concatenates
        <4>. QED
          BY <4>3
      <3>. QED
        BY <2>2, <3>1
    <2>4. m - 1 \in Nat /\ ~(m <= m - 1)
      BY <2>2, <2>3
    <2>5. P(m - 1)
      BY <2>1, <2>4
    <2>6. PICK g : g = [i \in 1..(m - 1) |-> g[i]] /\ Concatenates(g, ss, m - 1)
      BY <2>5
    <2>7. PICK f : f = [i \in 1..m |-> IF i = m THEN (IF m = 1 THEN ss[m] ELSE g[m - 1] \o ss[m])
                                                ELSE g[i]]
      OBVIOUS
    <2>8. f = [i \in 1..m |-> f[i]]
      BY <2>7
    <2>9. ASSUME NEW i \in 1..m PROVE f[i] = IF i = 1 THEN ss[i] ELSE f[i - 1] \o ss[i]
      <3>1. i = m \/ i \in 1..(m - 1)
        BY <2>2
      <3>2. i # 1 => i - 1 \in 1..m /\ i - 1 # m /\ f[i - 1] = g[i - 1]
        BY <2>2, <2>7
      <3>3. CASE i = m
        BY <2>7, <3>2, <3>3
      <3>4. CASE i # m
        <4>1. f[i] = g[i]
          BY <2>7, <3>4
        <4>. QED
          BY <2>6, <3>1, <3>2, <3>4, <4>1 DEF Concatenates
      <3>. QED
        BY <3>3, <3>4
    <2>10. P(m)
      BY <2>8, <2>9 DEF Concatenates
    <2>. QED
      BY <2>2, <2>10
  <1>2. n \notin T
    BY <1>1
  <1>. QED
    BY <1>2

\* FlattenSeq(), as Sync() uses it on the writers, is the last of the prefixes of
\* Concatenates.
LEMMA FlattenConcatenates ==
  ASSUME NEW X, NEW n \in Nat \ {0}, NEW ss \in [1..n -> Seq(X)]
  PROVE  \E f : Concatenates(f, ss, n) /\ FlattenSeq(ss) = f[n]
  <1> DEFINE flatten[i \in 1..Len(ss)] == IF i = 1 THEN ss[i] ELSE flatten[i - 1] \o ss[i]
  <1>1. Len(ss) = n
    OBVIOUS
  <1>2. FlattenSeq(ss) = flatten[Len(ss)]
    BY <1>1, Zenon DEF FlattenSeq
  <1>3. flatten = [i \in 1..n |-> IF i = 1 THEN ss[i] ELSE flatten[i - 1] \o ss[i]]
    <2>1. PICK f : f = [i \in 1..n |-> f[i]] /\ Concatenates(f, ss, n)
      BY FlattenExists
    <2>2. f = [i \in 1..n |-> IF i = 1 THEN ss[i] ELSE f[i - 1] \o ss[i]]
      BY <2>1 DEF Concatenates
    <2>. QED
      BY <1>1, <2>2
  <1> HIDE DEF flatten
  <1>4. Concatenates(flatten, ss, n)
    <2>1. PICK f : f = flatten
      OBVIOUS
    <2>2. f = [i \in 1..n |-> IF i = 1 THEN ss[i] ELSE f[i - 1] \o ss[i]]
      BY <1>3, <2>1
    <2>3. Concatenates(f, ss, n)
      BY <2>2 DEF Concatenates
    <2>. QED
      BY <2>1, <2>3
  <1>. QED
    BY <1>1, <1>2, <1>4

\* Flattening a sequence of sequences keeps all their elements, and keeps them apart.
LEMMA FlattenElements ==
  ASSUME NEW X, NEW n \in Nat, NEW ss \in [1..n -> Seq(X)],
         \A i \in 1..n : Injective(ss[i]),
         \A i, j \in 1..n : i # j => Elements(ss[i]) \intersect Elements(ss[j]) = {}
  PROVE  /\ FlattenSeq(ss) \in Seq(X)
         /\ Elements(FlattenSeq(ss)) = UNION {Elements(ss[i]) : i \in 1..n}
         /\ Injective(FlattenSeq(ss))
  <1>1. CASE n = 0
    <2>1. Len(ss) = 0 /\ ss \in Seq(Seq(X))
      BY <1>1
    <2>2. FlattenSeq(ss) = <<>>
      BY <2>1, EmptySeq DEF FlattenSeq
    <2>3. 1..n = {}
      BY <1>1
    <2>4. Elements(<<>>) = {} /\ Injective(<<>>) /\ <<>> \in Seq(X)
      BY DEF Elements, Injective
    <2>5. UNION {Elements(ss[i]) : i \in 1..n} = {}
      BY <2>3
    <2>. QED
      BY <2>2, <2>4, <2>5
  <1>2. CASE n # 0
    <2>1. PICK f : Concatenates(f, ss, n) /\ FlattenSeq(ss) = f[n]
      BY <1>2, FlattenConcatenates
    <2> DEFINE Good(m) == /\ f[m] \in Seq(X)
                          /\ Elements(f[m]) = UNION {Elements(ss[i]) : i \in 1..m}
                          /\ Injective(f[m])
               T == {m \in 1..n : ~Good(m)}
    <2>2. ASSUME T # {} PROVE FALSE
      <3>1. PICK m \in T : \A k \in T : m <= k
        <4>1. T \in SUBSET Nat
          OBVIOUS
        <4> HIDE DEF T
        <4>. QED
          BY <2>2, <4>1, LeastNumber
      <3>2. m \in 1..n /\ ~Good(m)
        OBVIOUS
      <3>3. f[m] = IF m = 1 THEN ss[m] ELSE f[m - 1] \o ss[m]
        BY <2>1, <3>2 DEF Concatenates
      <3>4. ss[m] \in Seq(X) /\ Injective(ss[m])
        BY <3>2
      <3>5. CASE m = 1
        <4>1. 1..m = {m} /\ f[m] = ss[m]
          BY <3>3, <3>5
        <4>2. Elements(ss[m]) = UNION {Elements(ss[i]) : i \in {m}}
          OBVIOUS
        <4>. QED
          BY <3>2, <3>4, <4>1, <4>2
      <3>6. CASE m # 1
        <4>1. m - 1 \in 1..n /\ ~(m <= m - 1) /\ 1..m = (1..(m - 1)) \union {m}
          BY <3>2, <3>6
        <4>2. Good(m - 1)
          BY <3>1, <4>1
        <4>3. Elements(f[m - 1]) \intersect Elements(ss[m]) = {}
          <5>1. \A i \in 1..(m - 1) : i \in 1..n /\ i # m
            BY <3>2
          <5>. QED
            BY <3>2, <4>2, <5>1
        <4>4. PICK s : s = f[m - 1]
          OBVIOUS
        <4>5. /\ s \in Seq(X) /\ Elements(s) = UNION {Elements(ss[i]) : i \in 1..(m - 1)}
              /\ Injective(s) /\ Elements(s) \intersect Elements(ss[m]) = {} /\ f[m] = s \o ss[m]
          BY <3>3, <3>6, <4>2, <4>3, <4>4
        <4>6. /\ f[m] \in Seq(X) /\ Elements(f[m]) = Elements(s) \union Elements(ss[m])
              /\ Injective(f[m])
          BY <3>4, <4>5, ConcatElements
        <4>7. UNION {Elements(ss[i]) : i \in 1..m}
                = (UNION {Elements(ss[i]) : i \in 1..(m - 1)}) \union Elements(ss[m])
          BY <4>1
        <4>. QED
          BY <3>2, <4>5, <4>6, <4>7
      <3>. QED
        BY <3>5, <3>6
    <2>3. Good(n)
      <3>1. n \in 1..n
        BY <1>2
      <3>2. T = {}
        BY <2>2
      <3>. QED
        BY <3>1, <3>2
    <2>. QED
      BY <2>1, <2>3
  <1>. QED
    BY <1>1, <1>2

\* A vector without repetition has as many elements as positions.
LEMMA InjectiveCount ==
  ASSUME NEW X, NEW s \in Seq(X), Injective(s)
  PROVE  Cardinality(Elements(s)) = Len(s)
  <1> DEFINE h == [i \in 1..Len(s) |-> s[i]]
  <1>1. h \in Bijection(1..Len(s), Elements(s))
    BY DEF Bijection, Injection, Surjection, IsInjective, Injective, Elements
  <1>2. Len(s) \in Nat
    OBVIOUS
  <1>3. IsFiniteSet(1..Len(s)) /\ Cardinality(1..Len(s)) = Len(s)
    BY <1>2, FS_Interval
  <1>4. ExistsBijection(1..Len(s), Elements(s))
    BY <1>1 DEF ExistsBijection
  <1>. QED
    BY <1>3, <1>4, FS_Bijection

\* push_back() adds one element and keeps the elements apart if it is new.
LEMMA AppendElements ==
  ASSUME NEW X, NEW s \in Seq(X), NEW x \in X
  PROVE  /\ Append(s, x) \in Seq(X)
         /\ Elements(Append(s, x)) = Elements(s) \union {x}
         /\ (Injective(s) /\ x \notin Elements(s)) => Injective(Append(s, x))
  <1> DEFINE u == Append(s, x)
  <1>1. /\ u \in Seq(X)
        /\ Len(u) = Len(s) + 1
        /\ \A i \in 1..Len(s) : u[i] = s[i]
        /\ u[Len(s) + 1] = x
    BY AppendProperties
  <1>2. Len(s) \in Nat /\ 1..Len(u) = (1..Len(s)) \union {Len(s) + 1}
    BY <1>1
  <1>3. Elements(u) = Elements(s) \union {x}
    BY <1>1, <1>2 DEF Elements
  <1>4. (Injective(s) /\ x \notin Elements(s)) => Injective(u)
    BY <1>1, <1>2 DEF Injective, Elements
  <1>. QED
    BY <1>1, <1>3, <1>4

=============================================================================
