---------------------------- MODULE XGraphProofs ----------------------------
(***************************************************************************)
(* The tasks XGraph registers are ordered as the state machines of the     *)
(* agents demand, for every model.                                         *)
(***************************************************************************)
EXTENDS XGraph, TaskGraphProofs

\* What ModelsAssumption says of an agent, and what the validation has found.
AgentOK(a) ==
  /\ IsFiniteSet(a.functions)
  /\ IsFiniteSet(a.vars) /\ a.vars \subseteq Nat
  /\ \A f \in a.functions :
       f.ro \union f.rw \subseteq a.vars /\ IsFiniteSet(f.outs \union f.ins)
  /\ ~Cyclic(Whole(StateGraph(a)))

-----------------------------------------------------------------------------
(***************************************************************************)
(* The state graph.                                                        *)
(***************************************************************************)

\* The fields of the state graph.
LEMMA StateGraphFields ==
  ASSUME NEW a
  PROVE  /\ DOMAIN StateGraph(a) = {"node", "state", "edge", "reads", "writes", "start", "ends"}
         /\ StateGraph(a).node =
              ({Fn(a, f) : f \in a.functions} \union {St(a, s) : s \in Currents(a) \union Nexts(a)})
                \union {Msg(m) : m \in UNION {f.outs \union f.ins : f \in a.functions}}
         /\ StateGraph(a).state =
              {<<St(a, f.current), Fn(a, f)>> : f \in a.functions}
                \union {<<Fn(a, f), St(a, f.next)>> : f \in a.functions}
         /\ StateGraph(a).edge =
              UNION {{<<Fn(a, f), Msg(m)>> : m \in f.outs}
                       \union {<<Msg(m), Fn(a, f)>> : m \in f.ins} : f \in a.functions}
         /\ StateGraph(a).reads =
              [t \in {Fn(a, f) : f \in a.functions} |->
                 UNION {f.ro \union f.rw : f \in {g \in a.functions : Fn(a, g) = t}}]
         /\ StateGraph(a).writes =
              [t \in {Fn(a, f) : f \in a.functions} |->
                 UNION {f.rw : f \in {g \in a.functions : Fn(a, g) = t}}]
         /\ StateGraph(a).start = {St(a, s) : s \in StartStates(a)}
         /\ StateGraph(a).ends =
              {Fn(a, f) : f \in {g \in a.functions : g.next \in EndStates(a)}}
  BY DEF StateGraph

\* Functions use the variables of their agent, and read what they write.
LEMMA StateGraphAccess ==
  ASSUME NEW a
  PROVE  /\ DOMAIN StateGraph(a).reads = {Fn(a, f) : f \in a.functions}
         /\ DOMAIN StateGraph(a).writes = {Fn(a, f) : f \in a.functions}
         /\ \A t \in {Fn(a, f) : f \in a.functions} :
              /\ StateGraph(a).reads[t] =
                   UNION {f.ro \union f.rw : f \in {g \in a.functions : Fn(a, g) = t}}
              /\ StateGraph(a).writes[t] = UNION {f.rw : f \in {g \in a.functions : Fn(a, g) = t}}
  BY DEF StateGraph

\* Tasks of different types differ.
LEMMA TaskTypes ==
  ASSUME NEW a, NEW f, NEW s, NEW m
  PROVE  /\ Type(Fn(a, f)) = "xfunction" /\ Type(St(a, s)) = "xstate" /\ Type(Msg(m)) = "xmessage"
         /\ Type(StartOf(a)) = "start_agent" /\ Type(EndOf(a)) = "finish_agent"
         /\ Type(Start) = "start_model" /\ Type(Finish) = "finish_model"
         /\ \A x, y : Type(Task("xcondition", x, y)) = "xcondition"
         /\ \A x, y : Type(Task("io_pop_write", x, y)) = "io_pop_write"
         /\ \A x, y : Type(Task("xmessage_sync", x, y)) = "xmessage_sync"
         /\ \A x, y : Type(Task("xmessage_clear", x, y)) = "xmessage_clear"
  BY DEF Type, Task, Fn, St, Msg, StartOf, EndOf, Start, Finish

\* The edges of the state graph join a function with a state or with a message.
LEMMA StateGraphEdges ==
  ASSUME NEW a
  PROVE  /\ \A v \in StateGraph(a).node : Type(v) \in {"xfunction", "xstate", "xmessage"}
         /\ \A v \in StateGraph(a).node : Type(v) = "xfunction" => \E f \in a.functions : v = Fn(a, f)
         /\ \A v \in StateGraph(a).node :
              Type(v) = "xstate" => \E s \in Currents(a) \union Nexts(a) : v = St(a, s)
         /\ \A e \in StateGraph(a).state :
              /\ e = <<e[1], e[2]>> /\ e[1] \in StateGraph(a).node /\ e[2] \in StateGraph(a).node
              /\ \/ Type(e[1]) = "xstate" /\ Type(e[2]) = "xfunction"
                 \/ Type(e[1]) = "xfunction" /\ Type(e[2]) = "xstate"
         /\ \A e \in StateGraph(a).edge :
              /\ e = <<e[1], e[2]>> /\ e[1] \in StateGraph(a).node /\ e[2] \in StateGraph(a).node
              /\ \/ Type(e[1]) = "xmessage" /\ Type(e[2]) = "xfunction"
                 \/ Type(e[1]) = "xfunction" /\ Type(e[2]) = "xmessage"
  <1>1. PICK N, S, E : N = StateGraph(a).node /\ S = StateGraph(a).state /\ E = StateGraph(a).edge
    OBVIOUS
  <1>2. /\ N = ({Fn(a, f) : f \in a.functions} \union {St(a, s) : s \in Currents(a) \union Nexts(a)})
                 \union {Msg(m) : m \in UNION {f.outs \union f.ins : f \in a.functions}}
        /\ S = {<<St(a, f.current), Fn(a, f)>> : f \in a.functions}
                \union {<<Fn(a, f), St(a, f.next)>> : f \in a.functions}
        /\ E = UNION {{<<Fn(a, f), Msg(m)>> : m \in f.outs}
                       \union {<<Msg(m), Fn(a, f)>> : m \in f.ins} : f \in a.functions}
    BY <1>1, StateGraphFields
  <1>3. \A f, s, m : /\ Type(Fn(a, f)) = "xfunction" /\ Type(St(a, s)) = "xstate"
                     /\ Type(Msg(m)) = "xmessage"
    BY TaskTypes
  <1>4. /\ \A v \in N : Type(v) \in {"xfunction", "xstate", "xmessage"}
        /\ \A v \in N : Type(v) = "xfunction" => \E f \in a.functions : v = Fn(a, f)
        /\ \A v \in N : Type(v) = "xstate" => \E s \in Currents(a) \union Nexts(a) : v = St(a, s)
    BY <1>2, <1>3
  <1>5. \A f \in a.functions : Fn(a, f) \in N /\ St(a, f.current) \in N /\ St(a, f.next) \in N
    BY <1>2 DEF Currents, Nexts
  <1>6. \A f \in a.functions : \A m \in f.outs \union f.ins : Msg(m) \in N
    BY <1>2
  <1>7. \A e \in S : /\ e = <<e[1], e[2]>> /\ e[1] \in N /\ e[2] \in N
                     /\ \/ Type(e[1]) = "xstate" /\ Type(e[2]) = "xfunction"
                        \/ Type(e[1]) = "xfunction" /\ Type(e[2]) = "xstate"
    BY <1>2, <1>3, <1>5
  <1>8. \A e \in E : /\ e = <<e[1], e[2]>> /\ e[1] \in N /\ e[2] \in N
                     /\ \/ Type(e[1]) = "xmessage" /\ Type(e[2]) = "xfunction"
                        \/ Type(e[1]) = "xfunction" /\ Type(e[2]) = "xmessage"
    <2>1. SUFFICES ASSUME NEW e \in E
                   PROVE  /\ e = <<e[1], e[2]>> /\ e[1] \in N /\ e[2] \in N
                          /\ \/ Type(e[1]) = "xmessage" /\ Type(e[2]) = "xfunction"
                             \/ Type(e[1]) = "xfunction" /\ Type(e[2]) = "xmessage"
      OBVIOUS
    <2>2. PICK f \in a.functions :
            \/ \E m \in f.outs : e = <<Fn(a, f), Msg(m)>>
            \/ \E m \in f.ins : e = <<Msg(m), Fn(a, f)>>
      BY <1>2
    <2>. QED
      BY <1>3, <1>5, <1>6, <2>2
  <1>. QED
    BY <1>1, <1>4, <1>7, <1>8

\* The image of a finite set is finite.
LEMMA FiniteImage ==
  ASSUME NEW S, IsFiniteSet(S), NEW h
  PROVE  IsFiniteSet({h[x] : x \in S})
  <1>1. PICK T, g : T = {h[x] : x \in S} /\ g = [x \in S |-> h[x]]
    OBVIOUS
  <1>2. g \in Surjection(S, T)
    BY <1>1 DEF Surjection
  <1>. QED
    BY <1>1, <1>2, FS_Surjection

\* The nodes of the state graph are finitely many.
LEMMA StateGraphFinite ==
  ASSUME NEW a, AgentOK(a)
  PROVE  FiniteGraph(Whole(StateGraph(a)))
  <1>1. PICK F, S, M : /\ F = {Fn(a, f) : f \in a.functions}
                       /\ S = {St(a, s) : s \in Currents(a) \union Nexts(a)}
                       /\ M = UNION {f.outs \union f.ins : f \in a.functions}
    OBVIOUS
  <1>2. IsFiniteSet(F)
    <2>1. PICK h : h = [f \in a.functions |-> Fn(a, f)]
      OBVIOUS
    <2>2. F = {h[f] : f \in a.functions}
      BY <1>1, <2>1
    <2>. QED
      BY <2>2, FiniteImage DEF AgentOK
  <1>3. IsFiniteSet(Currents(a)) /\ IsFiniteSet(Nexts(a))
    <2>1. PICK h, k : h = [f \in a.functions |-> f.current] /\ k = [f \in a.functions |-> f.next]
      OBVIOUS
    <2>2. Currents(a) = {h[f] : f \in a.functions} /\ Nexts(a) = {k[f] : f \in a.functions}
      BY <2>1 DEF Currents, Nexts
    <2>. QED
      BY <2>2, FiniteImage DEF AgentOK
  <1>4. IsFiniteSet(Currents(a) \union Nexts(a))
    BY <1>3, FS_Union
  <1>5. IsFiniteSet(S)
    <2>1. PICK h, D : D = Currents(a) \union Nexts(a) /\ h = [s \in D |-> St(a, s)]
      OBVIOUS
    <2>2. S = {h[s] : s \in D}
      BY <1>1, <2>1
    <2>. QED
      BY <1>4, <2>1, <2>2, FiniteImage
  <1>6. IsFiniteSet(M)
    <2>1. PICK T : T = {f.outs \union f.ins : f \in a.functions}
      OBVIOUS
    <2>2. IsFiniteSet(T)
      <3>1. PICK h : h = [f \in a.functions |-> f.outs \union f.ins]
        OBVIOUS
      <3>2. T = {h[f] : f \in a.functions}
        BY <2>1, <3>1
      <3>. QED
        BY <3>2, FiniteImage DEF AgentOK
    <2>3. \A x \in T : IsFiniteSet(x)
      BY <2>1 DEF AgentOK
    <2>4. IsFiniteSet(UNION T)
      BY <2>2, <2>3, FS_UNION
    <2>. QED
      BY <1>1, <2>1, <2>4
  <1>7. IsFiniteSet({Msg(m) : m \in M})
    <2>1. PICK h : h = [m \in M |-> Msg(m)]
      OBVIOUS
    <2>2. {Msg(m) : m \in M} = {h[m] : m \in M}
      BY <2>1
    <2>. QED
      BY <1>6, <2>2, FiniteImage
  <1>8. IsFiniteSet((F \union S) \union {Msg(m) : m \in M})
    BY <1>2, <1>5, <1>7, FS_Union
  <1>9. IsFiniteSet(StateGraph(a).node)
    BY <1>1, <1>8, StateGraphFields
  <1>10. Whole(StateGraph(a)).node = StateGraph(a).node
         /\ Whole(StateGraph(a)).edge = StateGraph(a).edge \union StateGraph(a).state
         /\ Whole(StateGraph(a)) = [node |-> Whole(StateGraph(a)).node, edge |-> Whole(StateGraph(a)).edge]
    BY DEF Whole
  <1>11. StateGraph(a).edge \union StateGraph(a).state \subseteq StateGraph(a).node \X StateGraph(a).node
    BY StateGraphEdges
  <1>. QED
    BY <1>9, <1>10, <1>11 DEF FiniteGraph, IsDirectedGraph

-----------------------------------------------------------------------------
(***************************************************************************)
(* Conditions in place of branching states, and the order of the tasks.    *)
(***************************************************************************)

\* A branching state becomes a condition; everything else stays what it is.
LEMMA Carriers ==
  ASSUME NEW a
  PROVE  /\ \A v \in StateGraph(a).node : Type(v) # "xstate" => Carrier(a, v) = v
         /\ \A v \in StateGraph(a).node :
              Type(v) = "xstate" /\ v \notin Branching(StateGraph(a)) => Carrier(a, v) = v
         /\ \A v \in Branching(StateGraph(a)) :
              v \in StateGraph(a).node /\ Type(v) = "xstate" /\ Type(Carrier(a, v)) = "xcondition"
         /\ \A u, v \in StateGraph(a).node : Carrier(a, u) = Carrier(a, v) => u = v
         /\ \A v \in StateGraph(a).node :
              Type(Carrier(a, v)) \in {"xfunction", "xstate", "xmessage", "xcondition"}
  <1>1. PICK N, B : N = StateGraph(a).node /\ B = Branching(StateGraph(a))
    OBVIOUS
  <1>2. \A v \in B : v \in N /\ Type(v) = "xstate"
    BY <1>1 DEF Branching, OfType
  <1>3. \A v \in N : Type(v) \in {"xfunction", "xstate", "xmessage"}
    BY <1>1, StateGraphEdges
  <1>4. \A v : Carrier(a, v) = IF v \in B THEN Task("xcondition", v[2], v[3]) ELSE v
    BY <1>1 DEF Carrier
  <1>5. \A x, y : Type(Task("xcondition", x, y)) = "xcondition"
    BY TaskTypes
  <1>6. \A v \in B : \E s : v = St(a, s)
    BY <1>1, <1>2, StateGraphEdges
  <1>7. ASSUME NEW u \in N, NEW v \in N, Carrier(a, u) = Carrier(a, v) PROVE u = v
    <2>1. u \in B <=> v \in B
      BY <1>3, <1>4, <1>5, <1>7
    <2>2. CASE u \in B
      <3>1. PICK s, t : u = St(a, s) /\ v = St(a, t)
        BY <1>6, <2>1, <2>2
      <3>2. Task("xcondition", u[2], u[3]) = Task("xcondition", v[2], v[3])
        BY <1>4, <1>7, <2>1, <2>2
      <3>3. s = t
        BY <3>1, <3>2 DEF Task, St
      <3>. QED
        BY <3>1, <3>3
    <2>3. CASE u \notin B
      BY <1>4, <1>7, <2>1, <2>3
    <2>. QED
      BY <2>2, <2>3
  <1>8. \A v \in N : Type(Carrier(a, v)) \in {"xfunction", "xstate", "xmessage", "xcondition"}
    BY <1>3, <1>4, <1>5
  <1>9. \A v \in N : (Type(v) # "xstate" \/ v \notin B) => Carrier(a, v) = v
    BY <1>2, <1>4
  <1>10. \A v \in B : v \in N /\ Type(v) = "xstate" /\ Type(Carrier(a, v)) = "xcondition"
    BY <1>2, <1>4, <1>5
  <1>. QED
    BY <1>1, <1>7, <1>8, <1>9, <1>10

\* The order of the state graph, between tasks.
Behind(a) ==
  {<<Carrier(a, p[1]), Carrier(a, p[2])>> :
     p \in {q \in StateGraph(a).node \X StateGraph(a).node :
              q[2] \in After(Whole(StateGraph(a)), q[1])}}

\* End and output tasks come last.
IsSink(v) == Type(v) \in {"finish_agent", "io_pop_write"}

\* The order all edges of an agent's graph keep to, whatever is added or taken away.
Ord(a, u, v) ==
  \/ u = StartOf(a) /\ Type(v) # "start_agent"
  \/ IsSink(v) /\ ~IsSink(u)
  \/ <<u, v>> \in Behind(a)

\* A pair of Behind(a) is the image of a vertex and one that comes after it in the state
\* machine.
LEMMA BehindMember ==
  ASSUME NEW a, NEW x, NEW y
  PROVE  <<x, y>> \in Behind(a) <=>
           \E u, v \in StateGraph(a).node :
             x = Carrier(a, u) /\ y = Carrier(a, v) /\ v \in After(Whole(StateGraph(a)), u)
  <1>1. PICK N, W : N = StateGraph(a).node /\ W = Whole(StateGraph(a))
    OBVIOUS
  <1>2. PICK P : P = {q \in N \X N : q[2] \in After(W, q[1])}
    OBVIOUS
  <1>3. Behind(a) = {<<Carrier(a, p[1]), Carrier(a, p[2])>> : p \in P}
    BY <1>1, <1>2, Zenon DEF Behind
  <1>4. ASSUME <<x, y>> \in Behind(a)
        PROVE  \E u, v \in N : x = Carrier(a, u) /\ y = Carrier(a, v) /\ v \in After(W, u)
    <2>1. PICK p \in P : <<x, y>> = <<Carrier(a, p[1]), Carrier(a, p[2])>>
      BY <1>3, <1>4
    <2>2. p[1] \in N /\ p[2] \in N /\ p[2] \in After(W, p[1])
      BY <1>2
    <2>. QED
      BY <2>1, <2>2
  <1>5. ASSUME NEW u \in N, NEW v \in N, x = Carrier(a, u), y = Carrier(a, v), v \in After(W, u)
        PROVE  <<x, y>> \in Behind(a)
    <2>1. PICK p : p = <<u, v>>
      OBVIOUS
    <2>2. p \in P /\ p[1] = u /\ p[2] = v
      BY <1>2, <1>5, <2>1
    <2>. QED
      BY <1>3, <1>5, <2>2
  <1>. QED
    BY <1>1, <1>4, <1>5

\* Behind(a) is a strict order of functions, states, messages and conditions.
LEMMA BehindOrder ==
  ASSUME NEW a, AgentOK(a)
  PROVE  /\ \A x, y, z : <<x, y>> \in Behind(a) /\ <<y, z>> \in Behind(a) => <<x, z>> \in Behind(a)
         /\ \A x : <<x, x>> \notin Behind(a)
         /\ \A x, y : <<x, y>> \in Behind(a) =>
              /\ Type(x) \in {"xfunction", "xstate", "xmessage", "xcondition"}
              /\ Type(y) \in {"xfunction", "xstate", "xmessage", "xcondition"}
  <1>1. PICK N, W : N = StateGraph(a).node /\ W = Whole(StateGraph(a))
    OBVIOUS
  <1>2. FiniteGraph(W) /\ ~Cyclic(W) /\ W.node = N
    BY <1>1, StateGraphFinite DEF AgentOK, Whole
  <1>3. \A x, y : <<x, y>> \in Behind(a) <=>
          \E u, v \in N : x = Carrier(a, u) /\ y = Carrier(a, v) /\ v \in After(W, u)
    BY <1>1, BehindMember
  <1>4. \A u, v \in N : Carrier(a, u) = Carrier(a, v) => u = v
    BY <1>1, Carriers
  <1>5. ASSUME NEW x, NEW y, NEW z, <<x, y>> \in Behind(a), <<y, z>> \in Behind(a)
        PROVE  <<x, z>> \in Behind(a)
    <2>1. PICK u \in N, v \in N : x = Carrier(a, u) /\ y = Carrier(a, v) /\ v \in After(W, u)
      BY <1>3, <1>5
    <2>2. PICK s \in N, t \in N : y = Carrier(a, s) /\ z = Carrier(a, t) /\ t \in After(W, s)
      BY <1>3, <1>5
    <2>3. s = v
      BY <1>4, <2>1, <2>2
    <2>4. t \in After(W, u)
      BY <1>2, <2>1, <2>2, <2>3, AfterTransitive
    <2>. QED
      BY <1>3, <2>1, <2>2, <2>4
  <1>6. ASSUME NEW x, <<x, x>> \in Behind(a) PROVE FALSE
    <2>1. PICK u \in N, v \in N : x = Carrier(a, u) /\ x = Carrier(a, v) /\ v \in After(W, u)
      BY <1>3, <1>6
    <2>2. u = v
      BY <1>4, <2>1
    <2>. QED
      BY <1>2, <2>1, <2>2 DEF Cyclic
  <1>7. \A v \in N : Type(Carrier(a, v)) \in {"xfunction", "xstate", "xmessage", "xcondition"}
    BY <1>1, Carriers
  <1>. QED
    BY <1>3, <1>5, <1>6, <1>7

\* Ord is a strict order.
LEMMA OrdStrict ==
  ASSUME NEW a, AgentOK(a)
  PROVE  /\ \A x, y, z : Ord(a, x, y) /\ Ord(a, y, z) => Ord(a, x, z)
         /\ \A x : ~Ord(a, x, x)
  <1>1. /\ \A x, y, z : <<x, y>> \in Behind(a) /\ <<y, z>> \in Behind(a) => <<x, z>> \in Behind(a)
        /\ \A x : <<x, x>> \notin Behind(a)
        /\ \A x, y : <<x, y>> \in Behind(a) =>
              /\ Type(x) \in {"xfunction", "xstate", "xmessage", "xcondition"}
              /\ Type(y) \in {"xfunction", "xstate", "xmessage", "xcondition"}
    BY BehindOrder
  <1>2. Type(StartOf(a)) = "start_agent"
    BY TaskTypes
  <1>. QED
    BY <1>1, <1>2 DEF Ord, IsSink

\* A graph that keeps to the order has no cycle.
LEMMA OrdAcyclic ==
  ASSUME NEW a, AgentOK(a), NEW G, FiniteGraph(G), \A e \in G.edge : Ord(a, e[1], e[2])
  PROVE  /\ ~Cyclic(G)
         /\ \A u \in G.node : \A v \in After(G, u) : Ord(a, u, v)
  <1>1. PICK L : L = {p \in G.node \X G.node : Ord(a, p[1], p[2])}
    OBVIOUS
  <1>2. G.edge \subseteq L
    BY <1>1 DEF FiniteGraph, IsDirectedGraph
  <1>3. \A x, y \in G.node : <<x, y>> \in L <=> Ord(a, x, y)
    BY <1>1
  <1>4. \A x, y, z \in G.node : <<x, y>> \in L /\ <<y, z>> \in L => <<x, z>> \in L
    BY <1>3, OrdStrict
  <1>5. \A x \in G.node : <<x, x>> \notin L
    BY <1>3, OrdStrict
  <1>6. ~Cyclic(G)
    BY <1>2, <1>4, <1>5, AcyclicWithin
  <1>7. ASSUME NEW u \in G.node, NEW v \in After(G, u) PROVE Ord(a, u, v)
    <2>1. <<u, v>> \in L
      BY <1>2, <1>4, AfterWithin
    <2>. QED
      BY <1>1, <2>1
  <1>. QED
    BY <1>6, <1>7

-----------------------------------------------------------------------------
(***************************************************************************)
(* The contraction of states.                                              *)
(***************************************************************************)

\* The graph with conditions: vertices, state edges, and states that are left.
TNode(a)  == {Carrier(a, v) : v \in StateGraph(a).node}
TState(a) == {<<Carrier(a, e[1]), Carrier(a, e[2])>> : e \in StateGraph(a).state}
Plain(a)  == OfType(TNode(a), "xstate")

\* The same without states.
CNode(a)  == TNode(a) \ Plain(a)
CState(a) == {e \in TState(a) : e[1] \notin Plain(a) /\ e[2] \notin Plain(a)}
               \union Bridges(TState(a), Plain(a))

\* The tasks that carry out functions and conditions.
CarriedTasks(a) == {Carrier(a, v) : v \in Carried(a)}

\* A vertex that is no message is carried, or is a state that contraction takes away.
LEMMA CarriedVertices ==
  ASSUME NEW a
  PROVE  /\ Carried(a) \subseteq StateGraph(a).node
         /\ \A v \in Carried(a) : /\ Type(v) # "xmessage" /\ Carrier(a, v) \notin Plain(a)
                                  /\ Type(Carrier(a, v)) \in {"xfunction", "xcondition"}
         /\ \A v \in StateGraph(a).node :
              Type(v) # "xmessage" /\ v \notin Carried(a) =>
                Type(v) = "xstate" /\ v \notin Branching(StateGraph(a)) /\ Carrier(a, v) = v
                /\ v \in Plain(a)
  <1>1. PICK N, B, F : /\ N = StateGraph(a).node /\ B = Branching(StateGraph(a))
                       /\ F = {Fn(a, f) : f \in a.functions}
    OBVIOUS
  <1>2. Carried(a) = F \union B
    BY <1>1 DEF Carried
  <1>3. F \subseteq N /\ \A v \in F : Type(v) = "xfunction"
    <2>1. F \subseteq N
      BY <1>1, StateGraphFields
    <2>2. \A f : Type(Fn(a, f)) = "xfunction"
      BY TaskTypes
    <2>. QED
      BY <1>1, <2>1, <2>2
  <1>4. \A v \in B : v \in N /\ Type(v) = "xstate" /\ Type(Carrier(a, v)) = "xcondition"
    BY <1>1, Carriers
  <1>5. \A v \in F : Carrier(a, v) = v
    BY <1>1, <1>3, Carriers
  <1>6. \A v \in Carried(a) : Type(v) # "xmessage" /\ Type(Carrier(a, v)) \in {"xfunction", "xcondition"}
    BY <1>2, <1>3, <1>4, <1>5
  <1>7. \A v : Type(v) # "xstate" => v \notin Plain(a)
    BY DEF Plain, OfType
  <1>8. ASSUME NEW v \in N, Type(v) # "xmessage", v \notin Carried(a)
        PROVE  Type(v) = "xstate" /\ v \notin B /\ Carrier(a, v) = v /\ v \in Plain(a)
    <2>1. Type(v) # "xfunction"
      <3>1. ASSUME Type(v) = "xfunction" PROVE FALSE
        <4>1. \E f \in a.functions : v = Fn(a, f)
          BY <1>1, <3>1, StateGraphEdges
        <4>. QED
          BY <1>1, <1>2, <1>8, <4>1
      <3>. QED
        BY <3>1
    <2>2. Type(v) = "xstate"
      BY <1>1, <1>8, <2>1, StateGraphEdges
    <2>3. v \notin B /\ Carrier(a, v) = v
      BY <1>1, <1>2, <1>8, <2>2, Carriers
    <2>4. v \in TNode(a)
      BY <1>1, <2>3 DEF TNode
    <2>. QED
      BY <2>2, <2>3, <2>4 DEF Plain, OfType
  <1>. QED
    BY <1>1, <1>2, <1>3, <1>4, <1>6, <1>7, <1>8

\* The vertices that are left: messages and carried tasks.
LEMMA ContractedNodes ==
  ASSUME NEW a, AgentOK(a)
  PROVE  /\ IsFiniteSet(CNode(a)) /\ CarriedTasks(a) \subseteq CNode(a)
         /\ \A v \in CNode(a) : HasData(v) => v \in CarriedTasks(a)
         /\ \A v \in CNode(a) : Type(v) \in {"xfunction", "xcondition", "xmessage"}
         /\ \A v \in CarriedTasks(a) : HasData(v) /\ Type(v) \in {"xfunction", "xcondition"}
         /\ \A v \in StateGraph(a).node : Type(v) = "xmessage" => v \in CNode(a)
  <1>1. PICK N : N = StateGraph(a).node
    OBVIOUS
  <1>2. IsFiniteSet(N)
    BY <1>1, StateGraphFinite DEF FiniteGraph, Whole
  <1>3. IsFiniteSet(TNode(a))
    <2>1. PICK h : h = [v \in N |-> Carrier(a, v)]
      OBVIOUS
    <2>2. TNode(a) = {h[v] : v \in N}
      BY <1>1, <2>1 DEF TNode
    <2>. QED
      BY <1>2, <2>2, FiniteImage
  <1>4. IsFiniteSet(CNode(a))
    BY <1>3, FS_Subset DEF CNode
  <1>5. CarriedTasks(a) \subseteq CNode(a)
    BY <1>1, CarriedVertices DEF CarriedTasks, CNode, TNode
  <1>6. \A v \in CarriedTasks(a) : HasData(v) /\ Type(v) \in {"xfunction", "xcondition"}
    BY CarriedVertices DEF CarriedTasks, HasData
  <1>7. ASSUME NEW v \in CNode(a), v \notin CarriedTasks(a) PROVE Type(v) = "xmessage"
    <2>1. PICK u \in N : v = Carrier(a, u)
      BY <1>1 DEF CNode, TNode
    <2>2. u \notin Carried(a)
      BY <1>7, <2>1 DEF CarriedTasks
    <2>3. v \notin Plain(a)
      BY DEF CNode
    <2>4. Type(u) = "xmessage"
      BY <1>1, <2>1, <2>2, <2>3, CarriedVertices
    <2>5. v = u
      BY <1>1, <2>1, <2>4, Carriers
    <2>. QED
      BY <2>4, <2>5
  <1>8. ASSUME NEW v \in N, Type(v) = "xmessage" PROVE v \in CNode(a)
    <2>1. Carrier(a, v) = v
      BY <1>1, <1>8, Carriers
    <2>. QED
      BY <1>1, <1>8, <2>1 DEF CNode, TNode, Plain, OfType
  <1>. QED
    BY <1>1, <1>4, <1>5, <1>6, <1>7, <1>8 DEF HasData

\* A state edge between carried vertices is kept; one over a plain state is bridged.
LEMMA ContractedKeeps ==
  ASSUME NEW a, NEW x, NEW y, <<x, y>> \in StateGraph(a).state
  PROVE  /\ x \in Carried(a) /\ y \in Carried(a) => <<Carrier(a, x), Carrier(a, y)>> \in CState(a)
         /\ y \notin Carried(a) =>
              \A z : <<y, z>> \in StateGraph(a).state => <<Carrier(a, x), Carrier(a, z)>> \in CState(a)
  <1>1. \A u, v : <<u, v>> \in StateGraph(a).state => <<Carrier(a, u), Carrier(a, v)>> \in TState(a)
    <2>1. SUFFICES ASSUME NEW u, NEW v, <<u, v>> \in StateGraph(a).state
                   PROVE  <<Carrier(a, u), Carrier(a, v)>> \in TState(a)
      OBVIOUS
    <2>2. PICK e : e = <<u, v>>
      OBVIOUS
    <2>3. e \in StateGraph(a).state /\ e[1] = u /\ e[2] = v
      BY <2>1, <2>2
    <2>. QED
      BY <2>3 DEF TState
  <1>2. ASSUME x \in Carried(a), y \in Carried(a) PROVE <<Carrier(a, x), Carrier(a, y)>> \in CState(a)
    <2>1. Carrier(a, x) \notin Plain(a) /\ Carrier(a, y) \notin Plain(a)
      BY <1>2, CarriedVertices
    <2>2. PICK e : e = <<Carrier(a, x), Carrier(a, y)>>
      OBVIOUS
    <2>3. e \in TState(a) /\ e[1] \notin Plain(a) /\ e[2] \notin Plain(a)
      BY <1>1, <2>1, <2>2
    <2>. QED
      BY <2>2, <2>3 DEF CState
  <1>3. ASSUME y \notin Carried(a), NEW z, <<y, z>> \in StateGraph(a).state
        PROVE  <<Carrier(a, x), Carrier(a, z)>> \in CState(a)
    <2>1. y \in StateGraph(a).node /\ Type(y) # "xmessage"
      BY <1>3, StateGraphEdges
    <2>2. Carrier(a, y) \in Plain(a)
      BY <1>3, <2>1, CarriedVertices
    <2>3. PICK E, P : E = TState(a) /\ P = Plain(a)
      OBVIOUS
    <2>4. PICK d, e : d = <<Carrier(a, x), Carrier(a, y)>> /\ e = <<Carrier(a, y), Carrier(a, z)>>
      OBVIOUS
    <2>5. d \in E /\ e \in E
      BY <1>1, <1>3, <2>3, <2>4
    <2>6. PICK p : p = <<d, e>>
      OBVIOUS
    <2>7. p \in {q \in E \X E : q[1][2] \in P /\ q[1][2] = q[2][1]}
      BY <2>2, <2>3, <2>4, <2>5, <2>6
    <2>8. <<p[1][1], p[2][2]>> = <<Carrier(a, x), Carrier(a, z)>>
      BY <2>4, <2>6
    <2>9. <<Carrier(a, x), Carrier(a, z)>> \in Bridges(E, P)
      BY <2>7, <2>8 DEF Bridges
    <2>. QED
      BY <2>3, <2>9 DEF CState
  <1>. QED
    BY <1>2, <1>3

\* State edges are in the order.
LEMMA EdgeBehind ==
  ASSUME NEW a, AgentOK(a), NEW x, NEW y, <<x, y>> \in StateGraph(a).state \union StateGraph(a).edge
  PROVE  <<Carrier(a, x), Carrier(a, y)>> \in Behind(a)
  <1>1. PICK W : W = Whole(StateGraph(a))
    OBVIOUS
  <1>2. FiniteGraph(W) /\ W.node = StateGraph(a).node /\ <<x, y>> \in W.edge
    BY <1>1, StateGraphFinite DEF Whole
  <1>3. x \in W.node /\ y \in W.node
    BY <1>2 DEF FiniteGraph, IsDirectedGraph
  <1>4. y \in Successors(W, x)
    BY <1>2, <1>3 DEF Successors
  <1>5. y \in After(W, x)
    BY <1>2, <1>4, AfterLeast
  <1>. QED
    BY <1>1, <1>2, <1>3, <1>5, BehindMember

\* The edges that are left join carried tasks, in the order of the state graph.
LEMMA ContractedEdges ==
  ASSUME NEW a, AgentOK(a), NEW e \in CState(a)
  PROVE  /\ e = <<e[1], e[2]>> /\ e \in Behind(a)
         /\ e[1] \in CarriedTasks(a) /\ e[2] \in CarriedTasks(a)
  <1>1. PICK E, P, N : E = TState(a) /\ P = Plain(a) /\ N = StateGraph(a).node
    OBVIOUS
  <1>2. \A d \in E : \E x, y : <<x, y>> \in StateGraph(a).state /\ d = <<Carrier(a, x), Carrier(a, y)>>
    <2>1. SUFFICES ASSUME NEW d \in E
                   PROVE  \E x, y : <<x, y>> \in StateGraph(a).state /\ d = <<Carrier(a, x), Carrier(a, y)>>
      OBVIOUS
    <2>2. PICK c \in StateGraph(a).state : d = <<Carrier(a, c[1]), Carrier(a, c[2])>>
      BY <1>1 DEF TState
    <2>3. c = <<c[1], c[2]>>
      BY StateGraphEdges
    <2>. QED
      BY <2>2, <2>3
  <1>3. \A x, y : <<x, y>> \in StateGraph(a).state =>
          /\ x \in N /\ y \in N
          /\ \/ Type(x) = "xstate" /\ Type(y) = "xfunction"
             \/ Type(x) = "xfunction" /\ Type(y) = "xstate"
    BY <1>1, StateGraphEdges
  <1>4. \A v \in N : Type(v) # "xmessage" /\ Carrier(a, v) \notin P => v \in Carried(a)
    BY <1>1, CarriedVertices
  <1>5. CASE e \in E /\ e[1] \notin P /\ e[2] \notin P
    <2>1. PICK x, y : <<x, y>> \in StateGraph(a).state /\ e = <<Carrier(a, x), Carrier(a, y)>>
      BY <1>2, <1>5
    <2>2. x \in Carried(a) /\ y \in Carried(a)
      BY <1>3, <1>4, <1>5, <2>1
    <2>3. e \in Behind(a)
      BY <2>1, EdgeBehind
    <2>. QED
      BY <2>1, <2>2, <2>3 DEF CarriedTasks
  <1>6. CASE e \in Bridges(E, P)
    <2>1. PICK p \in E \X E : p[1][2] \in P /\ p[1][2] = p[2][1] /\ e = <<p[1][1], p[2][2]>>
      BY <1>6 DEF Bridges
    <2>2. p[1] \in E /\ p[2] \in E
      OBVIOUS
    <2>3. PICK x, y : <<x, y>> \in StateGraph(a).state /\ p[1] = <<Carrier(a, x), Carrier(a, y)>>
      BY <1>2, <2>2
    <2>4. PICK s, z : <<s, z>> \in StateGraph(a).state /\ p[2] = <<Carrier(a, s), Carrier(a, z)>>
      BY <1>2, <2>2
    <2>5. Carrier(a, y) \in P /\ Carrier(a, y) = Carrier(a, s) /\ e = <<Carrier(a, x), Carrier(a, z)>>
      BY <2>1, <2>3, <2>4
    <2>6. y = s
      BY <1>1, <1>3, <2>3, <2>4, <2>5, Carriers
    <2>7. Type(y) = "xstate"
      <3>1. Type(y) = "xfunction" => Carrier(a, y) = y
        BY <1>1, <1>3, <2>3, Carriers
      <3>2. Type(Carrier(a, y)) = "xstate"
        BY <1>1, <2>5 DEF Plain, OfType
      <3>. QED
        BY <1>3, <2>3, <3>1, <3>2
    <2>8. Type(x) = "xfunction" /\ Type(z) = "xfunction"
      BY <1>3, <2>3, <2>4, <2>6, <2>7
    <2>9. x \in Carried(a) /\ z \in Carried(a)
      BY <1>1, <1>3, <2>3, <2>4, <2>8, CarriedVertices
    <2>10. <<Carrier(a, x), Carrier(a, y)>> \in Behind(a) /\ <<Carrier(a, y), Carrier(a, z)>> \in Behind(a)
      BY <2>3, <2>4, <2>6, EdgeBehind
    <2>11. e \in Behind(a)
      BY <2>5, <2>10, BehindOrder
    <2>. QED
      BY <2>5, <2>9, <2>11 DEF CarriedTasks
  <1>. QED
    BY <1>1, <1>5, <1>6 DEF CState

-----------------------------------------------------------------------------
(***************************************************************************)
(* The graph of an agent while it is generated.                            *)
(***************************************************************************)

GraphFields == {"node", "state", "edge", "reads", "writes", "start", "ends"}

\* What a function or condition reads and writes, in a graph with the tasks T.
Access(g, a, T) ==
  /\ DOMAIN g.reads = T /\ DOMAIN g.writes = T
  /\ \A v \in Carried(a) : /\ g.reads[Carrier(a, v)] = ReadBy(a, v)
                           /\ g.writes[Carrier(a, v)] = WrittenBy(a, v)

\* The graph with conditions, and the graph without states.
Transformed(g, a) ==
  /\ DOMAIN g = GraphFields
  /\ g.node = TNode(a) /\ g.state = TState(a) /\ g.edge = StateGraph(a).edge
  /\ g.start = {Carrier(a, v) : v \in StateGraph(a).start} /\ g.ends = StateGraph(a).ends
  /\ Access(g, a, CarriedTasks(a))

Contracted(g, a) ==
  /\ DOMAIN g = GraphFields
  /\ g.node = CNode(a) /\ g.state = CState(a) /\ g.edge = StateGraph(a).edge
  /\ g.start \subseteq CarriedTasks(a) /\ g.ends = StateGraph(a).ends
  /\ Access(g, a, CarriedTasks(a))

\* Conditions read and write every variable.
LEMMA ConditionAccess ==
  ASSUME NEW a, NEW r, NEW k,
         DOMAIN r = {Fn(a, f) : f \in a.functions},
         k = Joined(r, [t \in {Carrier(a, v) : v \in Branching(StateGraph(a))} |-> a.vars])
  PROVE  /\ DOMAIN k = CarriedTasks(a)
         /\ \A v \in Carried(a) : k[Carrier(a, v)] = IF Type(v) = "xstate" THEN a.vars ELSE r[v]
  <1>1. PICK F, B, C : /\ F = {Fn(a, f) : f \in a.functions} /\ B = Branching(StateGraph(a))
                       /\ C = {Carrier(a, v) : v \in B}
    OBVIOUS
  <1>2. \A f : Type(Fn(a, f)) = "xfunction"
    BY TaskTypes
  <1>3. \A v \in F : Type(v) = "xfunction"
    BY <1>1, <1>2
  <1>4. \A v \in B : Type(v) = "xstate" /\ Type(Carrier(a, v)) = "xcondition"
    BY <1>1, Carriers
  <1>5. \A v \in F : Carrier(a, v) = v
    BY <1>1, <1>3, <1>4 DEF Carrier
  <1>6. Carried(a) = F \union B
    BY <1>1 DEF Carried
  <1>7. CarriedTasks(a) = F \union C
    BY <1>1, <1>5, <1>6 DEF CarriedTasks
  <1>8. k = Joined(r, [t \in C |-> a.vars]) /\ DOMAIN r = F
    BY <1>1
  <1>9. DOMAIN k = F \union C /\ \A t \in F \union C : k[t] = IF t \in F THEN r[t] ELSE a.vars
    BY <1>8 DEF Joined
  <1>10. \A v \in B : Carrier(a, v) \in C /\ Carrier(a, v) \notin F
    BY <1>1, <1>3, <1>4
  <1>11. ASSUME NEW v \in Carried(a)
         PROVE  k[Carrier(a, v)] = IF Type(v) = "xstate" THEN a.vars ELSE r[v]
    BY <1>3, <1>4, <1>5, <1>6, <1>9, <1>10
  <1>. QED
    BY <1>7, <1>9, <1>11

\* What a vertex becomes when conditions are put for branching states.
Turned(g, v) == IF v \in Branching(g) THEN Task("xcondition", v[2], v[3]) ELSE v

\* transformConditionalStatesToConditions() puts a condition for each branching state.
WithConditions(g, a) ==
  LET all == [t \in {Turned(g, v) : v \in Branching(g)} |-> a.vars]
  IN  [g EXCEPT !.node = {Turned(g, v) : v \in @},
                !.state = {<<Turned(g, e[1]), Turned(g, e[2])>> : e \in @},
                !.start = {Turned(g, v) : v \in @},
                !.reads = Joined(@, all),
                !.writes = Joined(@, all)]

\* The graph after transformConditionalStatesToConditions().
LEMMA TransformGraph ==
  ASSUME NEW a, NEW g, g = StateGraph(a), NEW h, h = WithConditions(g, a)
  PROVE  Transformed(h, a)
  <1>1. PICK all : all = [t \in {Turned(g, v) : v \in Branching(g)} |-> a.vars]
    OBVIOUS
  <1>2. h = [g EXCEPT !.node = {Turned(g, v) : v \in @},
                      !.state = {<<Turned(g, e[1]), Turned(g, e[2])>> : e \in @},
                      !.start = {Turned(g, v) : v \in @},
                      !.reads = Joined(@, all),
                      !.writes = Joined(@, all)]
    BY <1>1 DEF WithConditions
  <1>3. DOMAIN g = GraphFields
    BY StateGraphFields DEF GraphFields
  <1>4. \A v : Turned(g, v) = Carrier(a, v)
    BY DEF Turned, Carrier
  <1>5. /\ DOMAIN h = GraphFields
        /\ h.node = {Carrier(a, v) : v \in g.node}
        /\ h.state = {<<Carrier(a, e[1]), Carrier(a, e[2])>> : e \in g.state}
        /\ h.start = {Carrier(a, v) : v \in g.start}
        /\ h.reads = Joined(g.reads, all) /\ h.writes = Joined(g.writes, all)
        /\ h.edge = g.edge /\ h.ends = g.ends
    <2>1. /\ DOMAIN h = GraphFields
          /\ h.node = {Turned(g, v) : v \in g.node}
          /\ h.state = {<<Turned(g, e[1]), Turned(g, e[2])>> : e \in g.state}
          /\ h.start = {Turned(g, v) : v \in g.start}
          /\ h.reads = Joined(g.reads, all) /\ h.writes = Joined(g.writes, all)
          /\ h.edge = g.edge /\ h.ends = g.ends
      BY <1>3, <1>2 DEF GraphFields
    <2>. QED
      BY <1>4, <2>1
  <1>6. all = [t \in {Carrier(a, v) : v \in Branching(StateGraph(a))} |-> a.vars]
    BY <1>4, <1>1
  <1>7. DOMAIN g.reads = {Fn(a, f) : f \in a.functions} /\ DOMAIN g.writes = {Fn(a, f) : f \in a.functions}
    BY StateGraphAccess
  <1>8. Access(h, a, CarriedTasks(a))
    <2>1. /\ DOMAIN h.reads = CarriedTasks(a)
          /\ \A v \in Carried(a) : h.reads[Carrier(a, v)] = IF Type(v) = "xstate" THEN a.vars ELSE g.reads[v]
      <3>1. h.reads = Joined(g.reads, [t \in {Carrier(a, v) : v \in Branching(StateGraph(a))} |-> a.vars])
        BY <1>5, <1>6, Zenon
      <3>. QED
        BY <1>7, <3>1, ConditionAccess
    <2>2. /\ DOMAIN h.writes = CarriedTasks(a)
          /\ \A v \in Carried(a) : h.writes[Carrier(a, v)] = IF Type(v) = "xstate" THEN a.vars ELSE g.writes[v]
      <3>1. h.writes = Joined(g.writes, [t \in {Carrier(a, v) : v \in Branching(StateGraph(a))} |-> a.vars])
        BY <1>5, <1>6, Zenon
      <3>. QED
        BY <1>7, <3>1, ConditionAccess
    <2>. QED
      BY <2>1, <2>2 DEF Access, ReadBy, WrittenBy
  <1>. QED
    BY <1>5, <1>8 DEF Transformed, TNode, TState

\* contractStateVertices() takes the states that are left away.
WithoutStates(g) ==
  LET states == OfType(g.node, "xstate")
      whole  == RemoveVertices(Whole(g), states)
  IN  [g EXCEPT !.node = whole.node,
                !.state = (@ \intersect whole.edge) \union Bridges(@, states),
                !.start = UNION {IF v \in states
                                 THEN Successors(Whole(g), v) ELSE {v} : v \in @}]

\* The graph after contractStateVertices(): no states, and state edges between carried
\* tasks.
LEMMA ContractGraph ==
  ASSUME NEW a, AgentOK(a), NEW g, Transformed(g, a), NEW h, h = WithoutStates(g)
  PROVE  Contracted(h, a)
  <1>1. PICK states, whole : /\ states = OfType(g.node, "xstate")
                             /\ whole = RemoveVertices(Whole(g), states)
    OBVIOUS
  <1>2. h = [g EXCEPT !.node = whole.node,
                      !.state = (@ \intersect whole.edge) \union Bridges(@, states),
                      !.start = UNION {IF v \in states
                                       THEN Successors(Whole(g), v) ELSE {v} : v \in @}]
    BY <1>1 DEF WithoutStates
  <1>3. states = Plain(a)
    BY <1>1 DEF Transformed, Plain
  <1>4. /\ DOMAIN h = GraphFields
        /\ h.node = whole.node
        /\ h.state = (g.state \intersect whole.edge) \union Bridges(g.state, states)
        /\ h.start = UNION {IF v \in states THEN Successors(Whole(g), v) ELSE {v} : v \in g.start}
        /\ h.reads = g.reads /\ h.writes = g.writes
        /\ h.edge = g.edge /\ h.ends = g.ends
    BY <1>2 DEF Transformed, GraphFields
  <1>5. /\ whole.node = g.node \ states
        /\ whole.edge = {e \in g.edge \union g.state : e[1] \notin states /\ e[2] \notin states}
    BY <1>1 DEF RemoveVertices, Whole
  <1>6. h.node = CNode(a)
    BY <1>3, <1>4, <1>5 DEF Transformed, CNode
  <1>7. g.state \intersect whole.edge = {e \in TState(a) : e[1] \notin Plain(a) /\ e[2] \notin Plain(a)}
    BY <1>3, <1>5 DEF Transformed
  <1>8. h.state = CState(a)
    <2>1. h.state = {e \in TState(a) : e[1] \notin Plain(a) /\ e[2] \notin Plain(a)}
                      \union Bridges(TState(a), Plain(a))
      BY <1>3, <1>4, <1>7 DEF Transformed
    <2>. QED
      BY <2>1, Zenon DEF CState
  <1>9. h.start \subseteq CarriedTasks(a)
    <2>1. SUFFICES ASSUME NEW t \in h.start PROVE t \in CarriedTasks(a)
      OBVIOUS
    <2>2. PICK v \in g.start : t \in IF v \in states THEN Successors(Whole(g), v) ELSE {v}
      BY <1>4
    <2>3. PICK s \in StateGraph(a).start : v = Carrier(a, s)
      BY DEF Transformed
    <2>4. s \in StateGraph(a).node /\ Type(s) = "xstate"
      <3>1. StateGraph(a).start = {St(a, x) : x \in StartStates(a)}
        BY StateGraphFields
      <3>2. StartStates(a) \subseteq Currents(a) \union Nexts(a)
        BY DEF StartStates
      <3>3. {St(a, x) : x \in Currents(a) \union Nexts(a)} \subseteq StateGraph(a).node
        BY StateGraphFields
      <3>4. \A x : Type(St(a, x)) = "xstate"
        BY TaskTypes
      <3>. QED
        BY <3>1, <3>2, <3>3, <3>4
    <2>5. CASE v \in states
      <3>1. t \in g.node /\ <<v, t>> \in g.edge \union g.state
        BY <2>2, <2>5 DEF Successors, Whole
      <3>2. <<v, t>> \notin g.edge
        <4>1. Type(v) = "xstate"
          BY <1>1, <2>5 DEF OfType
        <4>2. g.edge = StateGraph(a).edge
          BY DEF Transformed
        <4>. QED
          BY <4>1, <4>2, StateGraphEdges
      <3>3. <<v, t>> \in TState(a)
        BY <3>1, <3>2 DEF Transformed
      <3>4. PICK e \in StateGraph(a).state : <<v, t>> = <<Carrier(a, e[1]), Carrier(a, e[2])>>
        BY <3>3 DEF TState
      <3>5. /\ e[1] \in StateGraph(a).node /\ e[2] \in StateGraph(a).node
            /\ \/ Type(e[1]) = "xstate" /\ Type(e[2]) = "xfunction"
               \/ Type(e[1]) = "xfunction" /\ Type(e[2]) = "xstate"
        BY StateGraphEdges
      <3>6. v = Carrier(a, e[1]) /\ t = Carrier(a, e[2])
        BY <3>4
      <3>7. e[1] = s
        BY <2>3, <2>4, <3>5, <3>6, Carriers
      <3>8. Type(e[2]) = "xfunction"
        BY <2>4, <3>5, <3>7
      <3>9. e[2] \in Carried(a)
        BY <3>5, <3>8, CarriedVertices
      <3>. QED
        BY <3>6, <3>9 DEF CarriedTasks
    <2>6. CASE v \notin states
      <3>1. t = v /\ v \notin Plain(a)
        BY <1>3, <2>2, <2>6
      <3>2. s \in Carried(a)
        BY <2>3, <2>4, <3>1, CarriedVertices
      <3>. QED
        BY <2>3, <3>1, <3>2 DEF CarriedTasks
    <2>. QED
      BY <2>5, <2>6
  <1>10. Access(h, a, CarriedTasks(a))
    BY <1>4 DEF Transformed, Access
  <1>. QED
    BY <1>4, <1>6, <1>8, <1>9, <1>10 DEF Transformed, Contracted

-----------------------------------------------------------------------------
(***************************************************************************)
(* Paths of the state machine are paths of the graph without states, and   *)
(* all of them lead to the end task.                                       *)
(***************************************************************************)

\* What the data dependencies have to keep in order: the state edges and the end task.
Ordering(a) ==
  [node |-> CNode(a) \union {StartOf(a), EndOf(a)},
   edge |-> CState(a) \union {<<v, EndOf(a)>> : v \in StateGraph(a).ends}]

\* Functions whose next state is an end state are carried.
LEMMA EndsCarried ==
  ASSUME NEW a
  PROVE  \A v \in StateGraph(a).ends : v \in Carried(a) /\ Carrier(a, v) = v /\ v \in CarriedTasks(a)
  <1>1. StateGraph(a).ends \subseteq {Fn(a, f) : f \in a.functions}
    <2>1. PICK D : D = {g \in a.functions : g.next \in EndStates(a)}
      OBVIOUS
    <2>2. StateGraph(a).ends = {Fn(a, f) : f \in D} /\ D \subseteq a.functions
      BY <2>1, StateGraphFields
    <2>. QED
      BY <2>2
  <1>2. {Fn(a, f) : f \in a.functions} \subseteq Carried(a)
    BY DEF Carried
  <1>3. \A f : Type(Fn(a, f)) = "xfunction"
    BY TaskTypes
  <1>4. ASSUME NEW v \in StateGraph(a).ends
        PROVE  v \in Carried(a) /\ Carrier(a, v) = v /\ v \in CarriedTasks(a)
    <2>1. v \in Carried(a) /\ Type(v) = "xfunction"
      BY <1>1, <1>2, <1>3
    <2>2. v \in StateGraph(a).node
      BY <2>1, CarriedVertices
    <2>3. Carrier(a, v) = v
      BY <2>1, <2>2, Carriers
    <2>. QED
      BY <2>1, <2>3 DEF CarriedTasks
  <1>. QED
    BY <1>4

\* What is to be kept in order is a finite graph of carried tasks and the end task, along
\* Ord.
LEMMA OrderingGraph ==
  ASSUME NEW a, AgentOK(a)
  PROVE  /\ FiniteGraph(Ordering(a)) /\ Ordering(a).node = CNode(a) \union {StartOf(a), EndOf(a)}
         /\ \A e \in Ordering(a).edge :
              /\ e = <<e[1], e[2]>> /\ Ord(a, e[1], e[2])
              /\ e[1] \in CarriedTasks(a) /\ e[2] \in CarriedTasks(a) \union {EndOf(a)}
         /\ CState(a) \subseteq Ordering(a).edge
         /\ \A v \in StateGraph(a).ends : <<v, EndOf(a)>> \in Ordering(a).edge
  <1>1. PICK O, N, M : O = Ordering(a) /\ N = CNode(a) \union {StartOf(a), EndOf(a)}
                       /\ M = CState(a) \union {<<v, EndOf(a)>> : v \in StateGraph(a).ends}
    OBVIOUS
  <1>2. O = [node |-> N, edge |-> M] /\ O.node = N /\ O.edge = M
    BY <1>1 DEF Ordering
  <1>3. Type(EndOf(a)) = "finish_agent"
    BY TaskTypes
  <1>4. ASSUME NEW e \in M
        PROVE  /\ e = <<e[1], e[2]>> /\ Ord(a, e[1], e[2])
               /\ e[1] \in CarriedTasks(a) /\ e[2] \in CarriedTasks(a) \union {EndOf(a)}
    <2>1. CASE e \in CState(a)
      <3>1. /\ e = <<e[1], e[2]>> /\ e \in Behind(a)
            /\ e[1] \in CarriedTasks(a) /\ e[2] \in CarriedTasks(a)
        BY <2>1, ContractedEdges
      <3>. QED
        BY <3>1 DEF Ord
    <2>2. CASE e \notin CState(a)
      <3>1. PICK v \in StateGraph(a).ends : e = <<v, EndOf(a)>>
        BY <1>1, <2>2
      <3>2. v \in CarriedTasks(a)
        BY EndsCarried
      <3>3. Type(v) \in {"xfunction", "xcondition"}
        BY <3>2, ContractedNodes
      <3>. QED
        BY <1>3, <3>1, <3>2, <3>3 DEF Ord, IsSink
    <2>. QED
      BY <2>1, <2>2
  <1>5. CarriedTasks(a) \union {EndOf(a)} \subseteq N
    BY <1>1, ContractedNodes
  <1>6. M \subseteq N \X N
    BY <1>4, <1>5
  <1>7. IsFiniteSet(N)
    <2>1. IsFiniteSet({StartOf(a), EndOf(a)})
      <3>1. IsFiniteSet({StartOf(a)}) /\ IsFiniteSet({EndOf(a)})
        BY FS_Singleton
      <3>2. {StartOf(a), EndOf(a)} = {StartOf(a)} \union {EndOf(a)}
        OBVIOUS
      <3>. QED
        BY <3>1, <3>2, FS_Union
    <2>2. IsFiniteSet(CNode(a))
      BY ContractedNodes
    <2>. QED
      BY <1>1, <2>1, <2>2, FS_Union
  <1>8. FiniteGraph(O)
    BY <1>2, <1>6, <1>7 DEF FiniteGraph, IsDirectedGraph
  <1>. QED
    BY <1>1, <1>2, <1>4, <1>8

\* The state machine of an agent is a finite graph.
LEMMA StepsGraph ==
  ASSUME NEW a, AgentOK(a)
  PROVE  FiniteGraph(Steps(a)) /\ Steps(a).edge = StateGraph(a).state /\ Steps(a).node \subseteq StateGraph(a).node
  <1>1. PICK N : N = {Fn(a, f) : f \in a.functions} \union {St(a, s) : s \in Currents(a) \union Nexts(a)}
    OBVIOUS
  <1>2. Steps(a) = [node |-> N, edge |-> StateGraph(a).state]
    BY <1>1 DEF Steps
  <1>3. N \subseteq StateGraph(a).node
    BY <1>1, StateGraphFields
  <1>4. IsFiniteSet(N)
    BY <1>3, StateGraphFinite, FS_Subset DEF FiniteGraph, Whole
  <1>5. \A v \in StateGraph(a).node : Type(v) \in {"xfunction", "xstate"} => v \in N
    BY <1>1, StateGraphEdges
  <1>6. StateGraph(a).state \subseteq N \X N
    BY <1>5, StateGraphEdges
  <1>. QED
    BY <1>2, <1>3, <1>4, <1>6 DEF FiniteGraph, IsDirectedGraph

\* A path of the state machine between carried vertices is one of the ordering.
LEMMA ContractedPaths ==
  ASSUME NEW a, AgentOK(a), NEW u \in Carried(a), NEW v \in Carried(a), v \in After(Steps(a), u)
  PROVE  Carrier(a, v) \in After(Ordering(a), Carrier(a, u))
  <1>1. PICK A, E, M, C : /\ A = After(Ordering(a), Carrier(a, u)) /\ E = Ordering(a).edge
                          /\ M = StateGraph(a).state /\ C = Carried(a)
    OBVIOUS
  <1>2. /\ FiniteGraph(Ordering(a)) /\ CState(a) \subseteq E
    BY <1>1, OrderingGraph
  <1>3. /\ Successors(Ordering(a), Carrier(a, u)) \subseteq A
        /\ \A e \in E : e[1] \in A => e[2] \in A
    BY <1>1, <1>2, AfterLeast
  <1>4. \A x, y : <<x, y>> \in E /\ (x = Carrier(a, u) \/ x \in A) => y \in A
    <2>1. SUFFICES ASSUME NEW x, NEW y, <<x, y>> \in E, x = Carrier(a, u) \/ x \in A PROVE y \in A
      OBVIOUS
    <2>2. CASE x = Carrier(a, u)
      <3>1. y \in Ordering(a).node
        BY <1>1, <1>2, <2>1 DEF FiniteGraph, IsDirectedGraph
      <3>. QED
        BY <1>1, <1>3, <2>1, <2>2, <3>1 DEF Successors
    <2>3. CASE x \in A
      <3>1. PICK e : e = <<x, y>>
        OBVIOUS
      <3>2. e \in E /\ e[1] = x /\ e[2] = y
        BY <2>1, <3>1
      <3>. QED
        BY <1>3, <2>3, <3>2
    <2>. QED
      BY <2>1, <2>2, <2>3
  <1>5. \A x, y : <<x, y>> \in M =>
          /\ x \in C /\ y \in C => <<Carrier(a, x), Carrier(a, y)>> \in E
          /\ y \notin C => \A z : <<y, z>> \in M => <<Carrier(a, x), Carrier(a, z)>> \in E
    BY <1>1, <1>2, ContractedKeeps
  <1>6. \A x, y : <<x, y>> \in M => x \in C \/ y \in C
    <2>1. SUFFICES ASSUME NEW x, NEW y, <<x, y>> \in M PROVE x \in C \/ y \in C
      OBVIOUS
    <2>2. /\ x \in StateGraph(a).node /\ y \in StateGraph(a).node
          /\ Type(x) \in {"xstate", "xfunction"} /\ Type(y) \in {"xstate", "xfunction"}
          /\ Type(x) = "xfunction" \/ Type(y) = "xfunction"
      BY <1>1, <2>1, StateGraphEdges
    <2>. QED
      BY <1>1, <2>2, CarriedVertices
  <1>7. PICK S : S = {x \in Steps(a).node :
                        /\ x \in C => Carrier(a, x) \in A
                        /\ x \notin C => \E w \in C : <<w, x>> \in M /\ (w = u \/ Carrier(a, w) \in A)}
    OBVIOUS
  <1>8. FiniteGraph(Steps(a)) /\ Steps(a).edge = M
    BY <1>1, StepsGraph
  <1>9. \A x \in C : \A y \in Steps(a).node :
          <<x, y>> \in M /\ (x = u \/ Carrier(a, x) \in A) => y \in S
    <2>1. SUFFICES ASSUME NEW x \in C, NEW y \in Steps(a).node,
                          <<x, y>> \in M, x = u \/ Carrier(a, x) \in A
                   PROVE  y \in S
      OBVIOUS
    <2>2. y \in C => Carrier(a, y) \in A
      <3>1. y \in C => <<Carrier(a, x), Carrier(a, y)>> \in E
        BY <1>5, <2>1
      <3>. QED
        BY <1>4, <2>1, <3>1
    <2>. QED
      BY <1>7, <2>1, <2>2
  <1>10. Successors(Steps(a), u) \subseteq S
    BY <1>1, <1>8, <1>9 DEF Successors
  <1>11. ASSUME NEW e \in M, e[1] \in S PROVE e[2] \in S
    <2>1. PICK x, y : x = e[1] /\ y = e[2]
      OBVIOUS
    <2>2. e = <<x, y>> /\ x \in Steps(a).node /\ y \in Steps(a).node /\ <<x, y>> \in M
      BY <1>8, <2>1 DEF FiniteGraph, IsDirectedGraph
    <2>3. CASE x \in C
      BY <1>7, <1>9, <1>11, <2>1, <2>2, <2>3
    <2>4. CASE x \notin C
      <3>1. PICK w \in C : <<w, x>> \in M /\ (w = u \/ Carrier(a, w) \in A)
        BY <1>7, <1>11, <2>1, <2>4
      <3>2. <<Carrier(a, w), Carrier(a, y)>> \in E
        BY <1>5, <2>2, <2>4, <3>1
      <3>3. Carrier(a, y) \in A
        BY <1>4, <3>1, <3>2
      <3>4. y \in C
        BY <1>6, <2>2, <2>4
      <3>. QED
        BY <1>7, <2>1, <2>2, <3>3, <3>4
    <2>. QED
      BY <2>3, <2>4
  <1>12. After(Steps(a), u) \subseteq S
    BY <1>8, <1>10, <1>11, AfterLeast
  <1>. QED
    BY <1>1, <1>7, <1>12

\* From a carried vertex the ordering leads on, to the end task or to a later one.
LEMMA LeadsOn ==
  ASSUME NEW a, AgentOK(a), NEW u \in Carried(a)
  PROVE  \/ <<Carrier(a, u), EndOf(a)>> \in Ordering(a).edge
         \/ \E w \in Carried(a) : /\ <<Carrier(a, u), Carrier(a, w)>> \in Ordering(a).edge
                                  /\ w \in After(Whole(StateGraph(a)), u)
  <1>1. PICK W, M, E : W = Whole(StateGraph(a)) /\ M = StateGraph(a).state /\ E = Ordering(a).edge
    OBVIOUS
  <1>2. FiniteGraph(W) /\ W.node = StateGraph(a).node /\ W.edge = StateGraph(a).edge \union M
    BY <1>1, StateGraphFinite DEF Whole
  <1>3. \A x, y : <<x, y>> \in M => x \in W.node /\ y \in W.node /\ y \in After(W, x)
    <2>1. SUFFICES ASSUME NEW x, NEW y, <<x, y>> \in M
                   PROVE  x \in W.node /\ y \in W.node /\ y \in After(W, x)
      OBVIOUS
    <2>2. x \in W.node /\ y \in W.node /\ y \in Successors(W, x)
      BY <1>2, <2>1 DEF FiniteGraph, IsDirectedGraph, Successors
    <2>. QED
      BY <1>2, <2>2, AfterLeast
  <1>4. \A x, y, z : <<x, y>> \in M /\ <<y, z>> \in M => z \in After(W, x)
    BY <1>2, <1>3, AfterTransitive
  <1>5. CState(a) \subseteq E
    BY <1>1, OrderingGraph
  <1>6. \A f \in a.functions : /\ <<St(a, f.current), Fn(a, f)>> \in M
                               /\ <<Fn(a, f), St(a, f.next)>> \in M /\ Fn(a, f) \in Carried(a)
    <2>1. \A f \in a.functions : Fn(a, f) \in Carried(a)
      BY DEF Carried
    <2>2. M = {<<St(a, f.current), Fn(a, f)>> : f \in a.functions}
                \union {<<Fn(a, f), St(a, f.next)>> : f \in a.functions}
      BY <1>1, StateGraphFields
    <2>. QED
      BY <2>1, <2>2
  <1>7. CASE \E f \in a.functions : u = Fn(a, f)
    <2>1. PICK f \in a.functions : u = Fn(a, f)
      BY <1>7
    <2>2. CASE f.next \in EndStates(a)
      <3>1. u \in StateGraph(a).ends
        <4>1. PICK D : D = {g \in a.functions : g.next \in EndStates(a)}
          OBVIOUS
        <4>2. StateGraph(a).ends = {Fn(a, g) : g \in D} /\ f \in D
          BY <2>2, <4>1, StateGraphFields
        <4>. QED
          BY <2>1, <4>2
      <3>2. Carrier(a, u) = u
        BY <3>1, EndsCarried
      <3>. QED
        BY <3>1, <3>2, OrderingGraph
    <2>3. CASE f.next \notin EndStates(a)
      <3>1. PICK h \in a.functions : h.current = f.next
        BY <2>3 DEF EndStates, Currents, Nexts
      <3>2. <<u, St(a, f.next)>> \in M /\ <<St(a, f.next), Fn(a, h)>> \in M /\ Fn(a, h) \in Carried(a)
        BY <1>6, <2>1, <3>1
      <3>3. CASE St(a, f.next) \in Carried(a)
        <4>1. <<Carrier(a, u), Carrier(a, St(a, f.next))>> \in CState(a)
          BY <1>1, <3>2, <3>3, ContractedKeeps
        <4>. QED
          BY <1>1, <1>3, <1>5, <3>2, <3>3, <4>1
      <3>4. CASE St(a, f.next) \notin Carried(a)
        <4>1. <<Carrier(a, u), Carrier(a, Fn(a, h))>> \in CState(a)
          BY <1>1, <3>2, <3>4, ContractedKeeps
        <4>. QED
          BY <1>1, <1>4, <1>5, <3>2, <4>1
      <3>. QED
        BY <3>3, <3>4
    <2>. QED
      BY <2>2, <2>3
  <1>8. CASE ~ \E f \in a.functions : u = Fn(a, f)
    <2>1. u \in Branching(StateGraph(a))
      BY <1>8 DEF Carried
    <2>2. u \in W.node /\ Type(u) = "xstate" /\ OutDegree(W, u) > 1
      BY <1>1, <1>2, <2>1 DEF Branching, OfType
    <2>3. Successors(W, u) # {}
      BY <2>2, FS_EmptySet DEF OutDegree
    <2>4. PICK x : <<u, x>> \in W.edge
      BY <2>3 DEF Successors
    <2>5. <<u, x>> \in M /\ Type(x) = "xfunction" /\ x \in StateGraph(a).node
      BY <1>1, <1>2, <2>2, <2>4, StateGraphEdges
    <2>6. x \in Carried(a)
      BY <2>5, CarriedVertices
    <2>7. <<Carrier(a, u), Carrier(a, x)>> \in CState(a)
      BY <1>1, <2>5, <2>6, ContractedKeeps
    <2>. QED
      BY <1>1, <1>3, <1>5, <2>5, <2>6, <2>7
  <1>. QED
    BY <1>7, <1>8

\* The end task comes after every carried task.
LEMMA EndReached ==
  ASSUME NEW a, AgentOK(a), NEW u \in Carried(a)
  PROVE  EndOf(a) \in After(Ordering(a), Carrier(a, u))
  <1>1. PICK W, O, B : /\ W = Whole(StateGraph(a)) /\ O = Ordering(a)
                       /\ B = {x \in Carried(a) : EndOf(a) \notin After(O, Carrier(a, x))}
    OBVIOUS
  <1>2. FiniteGraph(W) /\ ~Cyclic(W) /\ FiniteGraph(O)
    BY <1>1, StateGraphFinite, OrderingGraph DEF AgentOK
  <1>3. \A x, y : <<x, y>> \in O.edge => y \in After(O, x)
    <2>1. SUFFICES ASSUME NEW x, NEW y, <<x, y>> \in O.edge PROVE y \in After(O, x)
      OBVIOUS
    <2>2. y \in Successors(O, x)
      BY <1>2, <2>1 DEF FiniteGraph, IsDirectedGraph, Successors
    <2>. QED
      BY <1>2, <2>2, AfterLeast
  <1>4. SUFFICES ASSUME B # {} PROVE FALSE
    BY <1>1
  <1>5. PICK x \in B : After(W, x) \intersect B = {}
    BY <1>2, <1>4, LastVertex
  <1>6. x \in Carried(a) /\ EndOf(a) \notin After(O, Carrier(a, x))
    BY <1>1
  <1>7. PICK w \in Carried(a) : <<Carrier(a, x), Carrier(a, w)>> \in O.edge /\ w \in After(W, x)
    BY <1>1, <1>3, <1>6, LeadsOn
  <1>8. EndOf(a) \in After(O, Carrier(a, w))
    BY <1>1, <1>5, <1>7
  <1>9. Carrier(a, w) \in After(O, Carrier(a, x))
    BY <1>3, <1>7
  <1>. QED
    BY <1>2, <1>6, <1>8, <1>9, AfterTransitive

\* Functions and conditions use variables of the agent, and read what they write.
LEMMA AccessOK ==
  ASSUME NEW a, AgentOK(a), NEW v \in Carried(a)
  PROVE  ReadBy(a, v) \subseteq a.vars /\ WrittenBy(a, v) \subseteq ReadBy(a, v)
  <1>1. CASE Type(v) = "xstate"
    BY <1>1 DEF ReadBy, WrittenBy
  <1>2. CASE Type(v) # "xstate"
    <2>1. \A s \in Branching(StateGraph(a)) : Type(s) = "xstate"
      BY Carriers
    <2>2. v \in {Fn(a, f) : f \in a.functions}
      BY <1>2, <2>1 DEF Carried
    <2>3. PICK D : D = {g \in a.functions : Fn(a, g) = v}
      OBVIOUS
    <2>4. /\ StateGraph(a).reads[v] = UNION {f.ro \union f.rw : f \in D}
          /\ StateGraph(a).writes[v] = UNION {f.rw : f \in D}
      BY <2>2, <2>3, StateGraphAccess
    <2>5. \A f \in D : f.ro \union f.rw \subseteq a.vars
      BY <2>3 DEF AgentOK
    <2>6. ReadBy(a, v) = UNION {f.ro \union f.rw : f \in D} /\ WrittenBy(a, v) = UNION {f.rw : f \in D}
      BY <1>2, <2>4 DEF ReadBy, WrittenBy
    <2>. QED
      BY <2>5, <2>6
  <1>. QED
    BY <1>1, <1>2

-----------------------------------------------------------------------------
(***************************************************************************)
(* Data dependencies: the inductive invariant of addDataDependencies().    *)
(***************************************************************************)

Deps(g) == [node |-> g.node, edge |-> g.edge]

\* The graph with start and end task, whatever data dependencies it has.
Dependent(g, a) ==
  /\ DOMAIN g = GraphFields
  /\ g.node = CNode(a) \union {StartOf(a), EndOf(a)}
  /\ StateGraph(a).edge \subseteq g.edge
  /\ \A v \in StateGraph(a).ends : <<v, EndOf(a)>> \in g.edge
  /\ g.edge \subseteq g.node \X g.node /\ \A e \in g.edge : Ord(a, e[1], e[2])
  /\ Access(g, a, CarriedTasks(a) \union {StartOf(a), EndOf(a)})
  /\ g.writes[StartOf(a)] = a.vars /\ g.writes[EndOf(a)] = {}
  /\ g.reads[StartOf(a)] = {} /\ g.reads[EndOf(a)] = {}

\* The last writers and readers of a visited task are tasks before it, or the task itself.
Visited(g, a, lw, lr) ==
  /\ DOMAIN lw = DOMAIN lr /\ DOMAIN lw \subseteq {v \in g.node : HasData(v)}
  /\ \A v \in DOMAIN lw : \A x \in a.vars :
       /\ \A z \in lw[v][x] \union lr[v][x] : z \in g.node /\ HasData(z) /\ (z = v \/ Ord(a, z, v))
       /\ \A z \in lw[v][x] : x \in g.writes[z]

\* Some task of Z is w or comes after it.
Reaches(g, w, Z) == \E z \in Z : z = w \/ z \in After(Deps(g), w)

\* Who writes a variable comes before a last writer, who reads it before a last writer or reader.
Covered(g, a, lw, lr) ==
  \A v \in DOMAIN lw : \A w \in CarriedTasks(a) :
    w = v \/ v \in After(Ordering(a), w) =>
      \A x \in a.vars : /\ x \in g.writes[w] => Reaches(g, w, lw[v][x])
                        /\ x \in g.reads[w] => Reaches(g, w, lw[v][x] \union lr[v][x])

\* One of the two tasks writes a variable the other uses.
Conflict(g, u, v) ==
  \/ g.writes[u] \intersect (g.reads[v] \union g.writes[v]) # {}
  \/ g.reads[u] \intersect g.writes[v] # {}

\* Tasks that conflict are in the order of the machine, as far as V goes.
Sorted(g, a, V) ==
  \A w \in CarriedTasks(a) : \A v \in CarriedTasks(a) \intersect V :
    v \in After(Ordering(a), w) /\ Conflict(g, w, v) => v \in After(Deps(g), w)

\* What copyWritingAndReadingVerticesFromInEdges() finds for v.
Sources(g, a, v, writers, readers) ==
  \A x \in a.vars :
    /\ \A z \in writers[x] \union readers[x] : z \in g.node /\ HasData(z) /\ Ord(a, z, v)
    /\ \A z \in writers[x] : x \in g.writes[z]
    /\ \A w \in CarriedTasks(a) : v \in After(Ordering(a), w) =>
         /\ x \in g.writes[w] => Reaches(g, w, writers[x])
         /\ x \in g.reads[w] => Reaches(g, w, writers[x] \union readers[x])

\* Tasks read what they write, the start task excepted.
LEMMA DependentAccess ==
  ASSUME NEW a, AgentOK(a), NEW g, Dependent(g, a), NEW v \in g.node, HasData(v)
  PROVE  /\ v \in CarriedTasks(a) \union {StartOf(a), EndOf(a)}
         /\ g.reads[v] \subseteq a.vars /\ g.writes[v] \subseteq a.vars
         /\ v # StartOf(a) => g.writes[v] \subseteq g.reads[v]
  <1>1. v \in CarriedTasks(a) \union {StartOf(a), EndOf(a)}
    BY ContractedNodes DEF Dependent
  <1>2. CASE v \in CarriedTasks(a)
    <2>1. PICK u \in Carried(a) : v = Carrier(a, u)
      BY <1>2 DEF CarriedTasks
    <2>2. g.reads[v] = ReadBy(a, u) /\ g.writes[v] = WrittenBy(a, u)
      BY <2>1 DEF Dependent, Access
    <2>3. ReadBy(a, u) \subseteq a.vars /\ WrittenBy(a, u) \subseteq ReadBy(a, u)
      BY AccessOK
    <2>. QED
      BY <1>1, <2>2, <2>3
  <1>3. CASE v = StartOf(a) \/ v = EndOf(a)
    BY <1>1, <1>3 DEF Dependent
  <1>. QED
    BY <1>1, <1>2, <1>3

\* The graph and its dependencies are finite and keep to the order.
LEMMA DependentGraph ==
  ASSUME NEW a, AgentOK(a), NEW g, Dependent(g, a)
  PROVE  /\ FiniteGraph(Deps(g)) /\ ~Cyclic(Deps(g))
         /\ Deps(g).node = g.node /\ Deps(g).edge = g.edge
         /\ g.state = CState(a) =>
              /\ FiniteGraph(Whole(g)) /\ ~Cyclic(Whole(g))
              /\ Ordering(a).node \subseteq Whole(g).node /\ Ordering(a).edge \subseteq Whole(g).edge
              /\ Whole(g).node = g.node /\ \A e \in Whole(g).edge : Ord(a, e[1], e[2])
  <1>1. IsFiniteSet(g.node)
    BY OrderingGraph DEF Dependent, FiniteGraph
  <1>2. g.edge \subseteq g.node \X g.node /\ \A e \in g.edge : Ord(a, e[1], e[2])
    BY DEF Dependent
  <1>3. FiniteGraph(Deps(g)) /\ Deps(g).node = g.node /\ Deps(g).edge = g.edge
    BY <1>1, <1>2 DEF Deps, FiniteGraph, IsDirectedGraph
  <1>4. ~Cyclic(Deps(g))
    BY <1>2, <1>3, OrdAcyclic
  <1>5. ASSUME g.state = CState(a)
        PROVE  /\ FiniteGraph(Whole(g)) /\ ~Cyclic(Whole(g))
               /\ Ordering(a).node \subseteq Whole(g).node /\ Ordering(a).edge \subseteq Whole(g).edge
               /\ Whole(g).node = g.node /\ \A e \in Whole(g).edge : Ord(a, e[1], e[2])
    <2>1. PICK W : W = Whole(g)
      OBVIOUS
    <2>2. /\ W = [node |-> W.node, edge |-> W.edge]
          /\ W.node = g.node /\ W.edge = g.edge \union CState(a)
      BY <1>5, <2>1 DEF Whole
    <2>3. \A e \in CState(a) : Ord(a, e[1], e[2]) /\ e \in g.node \X g.node
      <3>1. SUFFICES ASSUME NEW e \in CState(a) PROVE Ord(a, e[1], e[2]) /\ e \in g.node \X g.node
        OBVIOUS
      <3>2. e \in Ordering(a).edge
        BY <3>1, OrderingGraph
      <3>3. Ord(a, e[1], e[2]) /\ e \in Ordering(a).node \X Ordering(a).node
        BY <3>2, OrderingGraph DEF FiniteGraph, IsDirectedGraph
      <3>. QED
        BY <3>3, OrderingGraph DEF Dependent
    <2>4. FiniteGraph(W) /\ \A e \in W.edge : Ord(a, e[1], e[2])
      BY <1>1, <1>2, <2>2, <2>3 DEF FiniteGraph, IsDirectedGraph
    <2>5. ~Cyclic(W)
      BY <2>4, OrdAcyclic
    <2>6. Ordering(a).node \subseteq W.node
      BY <2>2, OrderingGraph DEF Dependent
    <2>7. Ordering(a).edge \subseteq W.edge
      <3>1. \A e \in Ordering(a).edge : e \in CState(a) \/ \E v \in StateGraph(a).ends : e = <<v, EndOf(a)>>
        BY DEF Ordering
      <3>. QED
        BY <2>2, <3>1 DEF Dependent
    <2>. QED
      BY <2>1, <2>2, <2>4, <2>5, <2>6, <2>7
  <1>. QED
    BY <1>3, <1>4, <1>5

\* What is known of the tasks before v holds of what v takes over from them.
LEMMA DataSources ==
  ASSUME NEW a, AgentOK(a), NEW g, Dependent(g, a), g.state = CState(a),
         NEW lw, NEW lr, Visited(g, a, lw, lr), Covered(g, a, lw, lr),
         NEW v \in g.node, HasData(v),
         \A u \in g.node : HasData(u) /\ v \in After(Whole(g), u) => u \in DOMAIN lw,
         NEW P, P = {w \in Predecessors(Whole(g), v) : HasData(w)},
         NEW writers, writers = [x \in a.vars |-> UNION {lw[u][x] : u \in P}],
         NEW readers, readers = [x \in a.vars |-> UNION {lr[u][x] : u \in P}]
  PROVE  Sources(g, a, v, writers, readers)
  <1>1. /\ FiniteGraph(Whole(g)) /\ Whole(g).node = g.node
        /\ \A e \in Whole(g).edge : Ord(a, e[1], e[2])
        /\ Ordering(a).node \subseteq Whole(g).node /\ Ordering(a).edge \subseteq Whole(g).edge
    BY DependentGraph
  <1>2. \A u : u \in P <=> u \in g.node /\ <<u, v>> \in Whole(g).edge /\ HasData(u)
    BY <1>1 DEF Predecessors
  <1>3. \A u \in P : u \in DOMAIN lw /\ Ord(a, u, v)
    <2>1. SUFFICES ASSUME NEW u \in P PROVE u \in DOMAIN lw /\ Ord(a, u, v)
      OBVIOUS
    <2>2. v \in Successors(Whole(g), u)
      BY <1>1, <1>2 DEF Successors
    <2>3. v \in After(Whole(g), u)
      BY <1>1, <2>2, AfterLeast
    <2>4. Ord(a, u, v)
      <3>1. PICK e : e = <<u, v>>
        OBVIOUS
      <3>2. e \in Whole(g).edge /\ e[1] = u /\ e[2] = v
        BY <1>2, <3>1
      <3>. QED
        BY <1>1, <3>2
    <2>. QED
      BY <1>2, <2>3, <2>4
  <1>4. SUFFICES ASSUME NEW x \in a.vars
                 PROVE  /\ \A z \in writers[x] \union readers[x] : z \in g.node /\ HasData(z) /\ Ord(a, z, v)
                        /\ \A z \in writers[x] : x \in g.writes[z]
                        /\ \A w \in CarriedTasks(a) : v \in After(Ordering(a), w) =>
                             /\ x \in g.writes[w] => Reaches(g, w, writers[x])
                             /\ x \in g.reads[w] => Reaches(g, w, writers[x] \union readers[x])
    BY DEF Sources
  <1>5. \A z : (z \in writers[x] <=> \E u \in P : z \in lw[u][x])
               /\ (z \in readers[x] <=> \E u \in P : z \in lr[u][x])
    BY <1>4
  <1>6. ASSUME NEW z \in writers[x] \union readers[x] PROVE z \in g.node /\ HasData(z) /\ Ord(a, z, v)
    <2>1. PICK u \in P : z \in lw[u][x] \union lr[u][x]
      BY <1>5, <1>6
    <2>2. z \in g.node /\ HasData(z) /\ (z = u \/ Ord(a, z, u))
      BY <1>3, <1>4, <2>1 DEF Visited
    <2>3. Ord(a, z, v)
      BY <1>3, <2>2, OrdStrict
    <2>. QED
      BY <2>2, <2>3
  <1>7. ASSUME NEW z \in writers[x] PROVE x \in g.writes[z]
    <2>1. PICK u \in P : z \in lw[u][x]
      BY <1>5, <1>7
    <2>. QED
      BY <1>3, <1>4, <2>1 DEF Visited
  <1>8. ASSUME NEW w \in CarriedTasks(a), v \in After(Ordering(a), w)
        PROVE  /\ x \in g.writes[w] => Reaches(g, w, writers[x])
               /\ x \in g.reads[w] => Reaches(g, w, writers[x] \union readers[x])
    <2>1. FiniteGraph(Ordering(a)) /\ w \in Ordering(a).node
      BY OrderingGraph, ContractedNodes
    <2>2. PICK u \in Ordering(a).node : <<u, v>> \in Ordering(a).edge /\ (u = w \/ u \in After(Ordering(a), w))
      BY <1>8, <2>1, AfterLast
    <2>3. u \in CarriedTasks(a)
      BY <2>2, OrderingGraph
    <2>4. HasData(u)
      BY <2>3, ContractedNodes
    <2>5. u \in P
      BY <1>1, <1>2, <2>2, <2>4
    <2>6. /\ x \in g.writes[w] => Reaches(g, w, lw[u][x])
          /\ x \in g.reads[w] => Reaches(g, w, lw[u][x] \union lr[u][x])
      BY <1>3, <1>4, <2>2, <2>5 DEF Covered
    <2>7. lw[u][x] \subseteq writers[x] /\ lr[u][x] \subseteq readers[x]
      BY <1>5, <2>5
    <2>. QED
      BY <2>6, <2>7 DEF Reaches
  <1>. QED
    BY <1>6, <1>7, <1>8

\* The dependencies that are added to v.
NewEdges(g, v, writers, readers) ==
  ReadDependencies(g, v, writers) \union WriteDependencies(g, v, readers)

\* The dependencies addDataDependencies() adds to v follow Ord, and there is one from every
\* source.
LEMMA NewEdgesOK ==
  ASSUME NEW a, AgentOK(a), NEW g, Dependent(g, a), NEW v \in g.node, HasData(v),
         NEW writers, NEW readers, Sources(g, a, v, writers, readers)
  PROVE  /\ \A e \in NewEdges(g, v, writers, readers) : e \in g.node \X g.node /\ Ord(a, e[1], e[2])
         /\ \A x \in g.reads[v] : \A z \in writers[x] : <<z, v>> \in NewEdges(g, v, writers, readers)
         /\ \A x \in g.writes[v] : \A z \in readers[x] : <<z, v>> \in NewEdges(g, v, writers, readers)
  <1>1. PICK R, W : R = UNION {writers[x] : x \in g.reads[v]} /\ W = UNION {readers[x] : x \in g.writes[v]}
    OBVIOUS
  <1>2. NewEdges(g, v, writers, readers) = From(R, v) \union From(W, v)
    BY <1>1 DEF NewEdges, ReadDependencies, WriteDependencies
  <1>3. g.reads[v] \subseteq a.vars /\ g.writes[v] \subseteq a.vars
    BY DependentAccess
  <1>4. \A z \in R \union W : z \in g.node /\ Ord(a, z, v)
    BY <1>1, <1>3 DEF Sources
  <1>5. v \notin R \union W
    BY <1>4, OrdStrict
  <1>6. \A e : e \in From(R, v) \union From(W, v) <=> \E z \in R \union W : e = <<z, v>>
    BY <1>5 DEF From
  <1>7. ASSUME NEW e \in From(R, v) \union From(W, v) PROVE e \in g.node \X g.node /\ Ord(a, e[1], e[2])
    <2>1. PICK z \in R \union W : e = <<z, v>>
      BY <1>6, <1>7
    <2>2. e[1] = z /\ e[2] = v
      BY <2>1
    <2>. QED
      BY <1>4, <2>1, <2>2
  <1>8. \A z \in R \union W : <<z, v>> \in From(R, v) \union From(W, v)
    BY <1>6
  <1>. QED
    BY <1>1, <1>2, <1>7, <1>8

\* With its dependencies, v comes after every task it conflicts with.
LEMMA BehindSources ==
  ASSUME NEW a, AgentOK(a), NEW g, Dependent(g, a), NEW v \in g.node, HasData(v),
         NEW writers, NEW readers, Sources(g, a, v, writers, readers),
         NEW h, Dependent(h, a), h.reads = g.reads, h.writes = g.writes, g.edge \subseteq h.edge,
         NewEdges(g, v, writers, readers) \subseteq h.edge,
         NEW w \in CarriedTasks(a), v \in After(Ordering(a), w), NEW x \in a.vars,
         \/ x \in g.writes[w] /\ x \in g.reads[v]
         \/ x \in g.reads[w] /\ x \in g.writes[v]
  PROVE  v \in After(Deps(h), w)
  <1>1. /\ FiniteGraph(Deps(g)) /\ Deps(g).node = g.node /\ Deps(g).edge = g.edge
        /\ FiniteGraph(Deps(h)) /\ Deps(h).node = h.node /\ Deps(h).edge = h.edge
    BY DependentGraph
  <1>2. g.node = h.node
    BY DEF Dependent
  <1>3. After(Deps(g), w) \subseteq After(Deps(h), w)
    BY <1>1, <1>2, AfterMonotone
  <1>4. v # StartOf(a)
    <2>1. PICK u \in Ordering(a).node : <<u, v>> \in Ordering(a).edge
      BY OrderingGraph, ContractedNodes, AfterLast
    <2>2. v \in CarriedTasks(a) \union {EndOf(a)}
      BY <2>1, OrderingGraph
    <2>3. \A t \in CarriedTasks(a) : Type(t) \in {"xfunction", "xcondition"}
      BY ContractedNodes
    <2>. QED
      BY <2>2, <2>3, TaskTypes
  <1>5. g.writes[v] \subseteq g.reads[v]
    BY <1>4, DependentAccess
  <1>6. PICK z : /\ z = w \/ z \in After(Deps(g), w)
                 /\ z \in writers[x] \/ (z \in readers[x] /\ x \in g.writes[v])
    BY DEF Sources, Reaches
  <1>7. <<z, v>> \in h.edge
    <2>1. /\ \A y \in g.reads[v] : \A t \in writers[y] : <<t, v>> \in NewEdges(g, v, writers, readers)
          /\ \A y \in g.writes[v] : \A t \in readers[y] : <<t, v>> \in NewEdges(g, v, writers, readers)
      BY NewEdgesOK
    <2>. QED
      BY <1>5, <1>6, <2>1
  <1>8. CASE z = w
    <2>1. v \in Successors(Deps(h), w)
      BY <1>1, <1>2, <1>7, <1>8 DEF Successors
    <2>. QED
      BY <1>1, <2>1, AfterLeast
  <1>9. CASE z \in After(Deps(g), w)
    <2>1. PICK e : e = <<z, v>>
      OBVIOUS
    <2>2. e \in Deps(h).edge /\ e[1] \in After(Deps(h), w) /\ e[2] = v
      BY <1>1, <1>3, <1>7, <1>9, <2>1
    <2>. QED
      BY <1>1, <2>2, AfterLeast
  <1>. QED
    BY <1>6, <1>8, <1>9

\* addDataDependencies() for one vertex keeps all this.
WithData(g, v, writers, readers) ==
  [g EXCEPT !.edge = @ \union ReadDependencies(g, v, writers)
                         \union WriteDependencies(g, v, readers)]

WritesOf(lw, g, a, v, writers) ==
  Joined(lw, [u \in {v} |-> [x \in a.vars |-> IF x \in g.writes[v] THEN {v} ELSE writers[x]]])

ReadsOf(lr, g, a, v, readers) ==
  Joined(lr, [u \in {v} |-> [x \in a.vars |-> (IF x \in g.writes[v] THEN {} ELSE readers[x])
                                                \union (IF x \in g.reads[v] THEN {v} ELSE {})]])

\* A turn of the loop of addDataDependencies() keeps: writers and readers visited reach the
\* last ones.
LEMMA DataStep ==
  ASSUME NEW a, AgentOK(a), NEW g, Dependent(g, a),
         NEW lw, NEW lr, Visited(g, a, lw, lr), Covered(g, a, lw, lr), Sorted(g, a, DOMAIN lw),
         NEW v \in g.node, HasData(v), v \notin DOMAIN lw,
         NEW writers, NEW readers, Sources(g, a, v, writers, readers),
         NEW h, h = WithData(g, v, writers, readers),
         NEW lw2, lw2 = WritesOf(lw, g, a, v, writers),
         NEW lr2, lr2 = ReadsOf(lr, g, a, v, readers)
  PROVE  /\ Dependent(h, a) /\ h.state = g.state
         /\ Visited(h, a, lw2, lr2) /\ Covered(h, a, lw2, lr2) /\ Sorted(h, a, DOMAIN lw2)
  <1>1. /\ h.node = g.node /\ h.state = g.state /\ h.reads = g.reads /\ h.writes = g.writes
        /\ h.edge = g.edge \union NewEdges(g, v, writers, readers) /\ DOMAIN h = GraphFields
    BY DEF WithData, Dependent, GraphFields, NewEdges
  <1>2. \A e \in NewEdges(g, v, writers, readers) : e \in g.node \X g.node /\ Ord(a, e[1], e[2])
    BY NewEdgesOK
  <1>3. Dependent(h, a)
    BY <1>1, <1>2 DEF Dependent, Access
  <1>4. /\ FiniteGraph(Deps(g)) /\ Deps(g).node = g.node /\ Deps(g).edge = g.edge
        /\ FiniteGraph(Deps(h)) /\ Deps(h).node = g.node /\ Deps(h).edge = h.edge
    BY <1>1, <1>3, DependentGraph
  <1>5. \A w : After(Deps(g), w) \subseteq After(Deps(h), w)
    BY <1>1, <1>4, AfterMonotone
  <1>6. /\ DOMAIN lw2 = DOMAIN lw \union {v} /\ DOMAIN lr2 = DOMAIN lr \union {v}
        /\ \A t \in DOMAIN lw : lw2[t] = lw[t]
        /\ \A t \in DOMAIN lr : lr2[t] = lr[t]
        /\ DOMAIN lw = DOMAIN lr
    BY DEF WritesOf, ReadsOf, Joined, Visited
  <1>7. \A x \in a.vars :
          /\ lw2[v][x] = IF x \in g.writes[v] THEN {v} ELSE writers[x]
          /\ lr2[v][x] = (IF x \in g.writes[v] THEN {} ELSE readers[x])
                           \union (IF x \in g.reads[v] THEN {v} ELSE {})
    <2>1. /\ lw2[v] = [x \in a.vars |-> IF x \in g.writes[v] THEN {v} ELSE writers[x]]
          /\ lr2[v] = [x \in a.vars |-> (IF x \in g.writes[v] THEN {} ELSE readers[x])
                               \union (IF x \in g.reads[v] THEN {v} ELSE {})]
      BY <1>6 DEF WritesOf, ReadsOf, Joined
    <2>. QED
      BY <2>1
  <1>8. Visited(h, a, lw2, lr2)
    <2>1. DOMAIN lw2 = DOMAIN lr2 /\ DOMAIN lw2 \subseteq {t \in h.node : HasData(t)}
      BY <1>1, <1>6 DEF Visited
    <2>2. ASSUME NEW t \in DOMAIN lw2, NEW x \in a.vars
          PROVE  /\ \A z \in lw2[t][x] \union lr2[t][x] :
                      z \in h.node /\ HasData(z) /\ (z = t \/ Ord(a, z, t))
                 /\ \A z \in lw2[t][x] : x \in h.writes[z]
      <3>1. CASE t = v
        <4>1. /\ \A z \in writers[x] \union readers[x] : z \in g.node /\ HasData(z) /\ Ord(a, z, v)
              /\ \A z \in writers[x] : x \in g.writes[z]
          BY <2>2 DEF Sources
        <4>2. /\ lw2[v][x] = IF x \in g.writes[v] THEN {v} ELSE writers[x]
              /\ lr2[v][x] = (IF x \in g.writes[v] THEN {} ELSE readers[x])
                           \union (IF x \in g.reads[v] THEN {v} ELSE {})
          BY <1>7, <2>2
        <4>. QED
          BY <1>1, <3>1, <4>1, <4>2
      <3>2. CASE t # v
        <4>1. t \in DOMAIN lw /\ lw2[t] = lw[t] /\ lr2[t] = lr[t]
          BY <1>6, <2>2, <3>2
        <4>. QED
          BY <1>1, <2>2, <4>1 DEF Visited
      <3>. QED
        BY <3>1, <3>2
    <2>. QED
      BY <2>1, <2>2 DEF Visited
  <1>9. \A w, Z, Y : Reaches(g, w, Z) /\ Z \subseteq Y => Reaches(h, w, Y)
    BY <1>5 DEF Reaches
  <1>10. \A w \in CarriedTasks(a) : \A x \in a.vars :
           /\ v \in After(Ordering(a), w)
           /\ \/ x \in g.writes[w] /\ x \in g.reads[v]
              \/ x \in g.reads[w] /\ x \in g.writes[v]
           => v \in After(Deps(h), w)
    BY <1>1, <1>3, BehindSources
  <1>11. \A w \in CarriedTasks(a) : g.writes[w] \subseteq g.reads[w]
    <2>1. SUFFICES ASSUME NEW w \in CarriedTasks(a) PROVE g.writes[w] \subseteq g.reads[w]
      OBVIOUS
    <2>2. w \in g.node /\ HasData(w) /\ Type(w) \in {"xfunction", "xcondition"}
      BY ContractedNodes DEF Dependent
    <2>3. w # StartOf(a)
      BY <2>2, TaskTypes
    <2>. QED
      BY <2>2, <2>3, DependentAccess
  <1>12. Covered(h, a, lw2, lr2)
    <2>1. SUFFICES ASSUME NEW t \in DOMAIN lw2, NEW w \in CarriedTasks(a),
                          w = t \/ t \in After(Ordering(a), w), NEW x \in a.vars
                   PROVE  /\ x \in h.writes[w] => Reaches(h, w, lw2[t][x])
                          /\ x \in h.reads[w] => Reaches(h, w, lw2[t][x] \union lr2[t][x])
      BY DEF Covered
    <2>2. CASE t # v
      <3>1. t \in DOMAIN lw /\ lw2[t] = lw[t] /\ lr2[t] = lr[t]
        BY <1>6, <2>1, <2>2
      <3>2. /\ x \in g.writes[w] => Reaches(g, w, lw[t][x])
            /\ x \in g.reads[w] => Reaches(g, w, lw[t][x] \union lr[t][x])
        BY <2>1, <3>1 DEF Covered
      <3>. QED
        BY <1>1, <1>9, <3>1, <3>2
    <2>3. CASE t = v /\ w = v
      <3>1. x \in g.writes[w] => v \in lw2[v][x]
        BY <1>7, <2>1, <2>3
      <3>2. x \in g.reads[w] => v \in lr2[v][x]
        BY <1>7, <2>1, <2>3
      <3>. QED
        BY <1>1, <2>3, <3>1, <3>2 DEF Reaches
    <2>4. CASE t = v /\ w # v
      <3>1. v \in After(Ordering(a), w)
        BY <2>1, <2>4
      <3>2. /\ x \in g.writes[w] => Reaches(g, w, writers[x])
            /\ x \in g.reads[w] => Reaches(g, w, writers[x] \union readers[x])
        BY <2>1, <3>1 DEF Sources
      <3>3. CASE x \in g.writes[v]
        <4>1. v \in lw2[v][x]
          BY <1>7, <2>1, <3>3
        <4>2. x \in g.reads[w] => v \in After(Deps(h), w)
          BY <1>10, <2>1, <3>1, <3>3
        <4>. QED
          BY <1>1, <1>11, <2>1, <2>4, <4>1, <4>2 DEF Reaches
      <3>4. CASE x \notin g.writes[v]
        <4>1. writers[x] \subseteq lw2[v][x] /\ readers[x] \subseteq lr2[v][x]
          BY <1>7, <2>1, <3>4
        <4>2. x \in g.writes[w] => Reaches(h, w, lw2[v][x])
          BY <1>9, <3>2, <4>1
        <4>3. writers[x] \union readers[x] \subseteq lw2[v][x] \union lr2[v][x]
          BY <4>1
        <4>4. x \in g.reads[w] => Reaches(h, w, lw2[v][x] \union lr2[v][x])
          BY <1>9, <3>2, <4>3
        <4>. QED
          BY <1>1, <2>4, <4>2, <4>4
      <3>. QED
        BY <3>3, <3>4
    <2>. QED
      BY <2>2, <2>3, <2>4
  <1>13. Sorted(h, a, DOMAIN lw2)
    <2>1. SUFFICES ASSUME NEW w \in CarriedTasks(a), NEW t \in CarriedTasks(a), t \in DOMAIN lw2,
                          t \in After(Ordering(a), w), Conflict(h, w, t)
                   PROVE  t \in After(Deps(h), w)
      BY DEF Sorted
    <2>2. Conflict(g, w, t)
      BY <1>1, <2>1 DEF Conflict
    <2>3. CASE t # v
      <3>1. t \in DOMAIN lw
        BY <1>6, <2>1, <2>3
      <3>2. t \in After(Deps(g), w)
        BY <2>1, <2>2, <3>1 DEF Sorted
      <3>. QED
        BY <1>5, <3>2
    <2>4. CASE t = v
      <3>1. g.writes[t] \subseteq g.reads[t]
        BY <1>11
      <3>2. w \in g.node /\ HasData(w)
        BY ContractedNodes DEF Dependent
      <3>3. g.reads[w] \subseteq a.vars /\ g.writes[w] \subseteq a.vars
        BY <3>2, DependentAccess
      <3>4. PICK x \in a.vars : \/ x \in g.writes[w] /\ x \in g.reads[v]
                                \/ x \in g.reads[w] /\ x \in g.writes[v]
        BY <2>2, <2>4, <3>1, <3>3 DEF Conflict
      <3>. QED
        BY <1>10, <2>1, <2>4, <3>4
    <2>. QED
      BY <2>3, <2>4
  <1>. QED
    BY <1>1, <1>3, <1>8, <1>12, <1>13

\* addStartTask() and addEndTask(): no task has been visited.
LEMMA StartGraph ==
  ASSUME NEW a, AgentOK(a), NEW g, Contracted(g, a), NEW h,
         h = [g EXCEPT !.node = @ \union {StartOf(a), EndOf(a)},
                       !.edge = @ \union {<<StartOf(a), v>> : v \in g.start}
                                  \union {<<v, EndOf(a)>> : v \in g.ends},
                       !.reads  = Joined(@, [t \in {StartOf(a), EndOf(a)} |-> {}]),
                       !.writes = Joined(@, [t \in {StartOf(a), EndOf(a)} |->
                                               IF t = StartOf(a) THEN a.vars ELSE {}])]
  PROVE  Dependent(h, a) /\ h.state = CState(a)
  <1>1. /\ DOMAIN h = GraphFields /\ h.node = CNode(a) \union {StartOf(a), EndOf(a)}
        /\ h.edge = (StateGraph(a).edge \union {<<StartOf(a), v>> : v \in g.start})
                      \union {<<v, EndOf(a)>> : v \in StateGraph(a).ends}
        /\ h.reads = Joined(g.reads, [t \in {StartOf(a), EndOf(a)} |-> {}])
        /\ h.writes = Joined(g.writes, [t \in {StartOf(a), EndOf(a)} |->
                                               IF t = StartOf(a) THEN a.vars ELSE {}])
        /\ h.state = CState(a)
    BY DEF Contracted, GraphFields
  <1>2. Type(StartOf(a)) = "start_agent" /\ Type(EndOf(a)) = "finish_agent"
    BY TaskTypes
  <1>3. /\ CarriedTasks(a) \subseteq CNode(a)
        /\ \A v \in CarriedTasks(a) : Type(v) \in {"xfunction", "xcondition"}
        /\ \A v \in StateGraph(a).node : Type(v) = "xmessage" => v \in CNode(a)
    BY ContractedNodes
  <1>4. ASSUME NEW e \in StateGraph(a).edge PROVE e \in h.node \X h.node /\ Ord(a, e[1], e[2])
    <2>1. /\ e = <<e[1], e[2]>> /\ e[1] \in StateGraph(a).node /\ e[2] \in StateGraph(a).node
          /\ Type(e[1]) \in {"xmessage", "xfunction"} /\ Type(e[2]) \in {"xmessage", "xfunction"}
      BY StateGraphEdges
    <2>2. Carrier(a, e[1]) = e[1] /\ Carrier(a, e[2]) = e[2]
      BY <2>1, Carriers
    <2>3. <<Carrier(a, e[1]), Carrier(a, e[2])>> \in Behind(a)
      BY <2>1, EdgeBehind
    <2>4. Ord(a, e[1], e[2])
      BY <2>2, <2>3 DEF Ord
    <2>5. \A v \in StateGraph(a).node : Type(v) \in {"xmessage", "xfunction"} => v \in CNode(a)
      <3>1. \A v \in StateGraph(a).node : Type(v) = "xfunction" => v \in Carried(a) /\ Carrier(a, v) = v
        BY CarriedVertices, Carriers
      <3>. QED
        BY <1>3, <3>1 DEF CarriedTasks
    <2>. QED
      BY <1>1, <2>1, <2>4, <2>5
  <1>5. ASSUME NEW v \in g.start PROVE v \in h.node /\ Ord(a, StartOf(a), v)
    <2>1. v \in CarriedTasks(a)
      BY DEF Contracted
    <2>. QED
      BY <1>1, <1>3, <2>1 DEF Ord
  <1>6. ASSUME NEW v \in StateGraph(a).ends PROVE v \in h.node /\ Ord(a, v, EndOf(a))
    <2>1. v \in CarriedTasks(a)
      BY EndsCarried
    <2>. QED
      BY <1>1, <1>2, <1>3, <2>1 DEF Ord, IsSink
  <1>7. ASSUME NEW e \in h.edge PROVE e \in h.node \X h.node /\ Ord(a, e[1], e[2])
    <2>1. CASE e \in StateGraph(a).edge
      BY <1>4, <2>1
    <2>2. CASE \E v \in g.start : e = <<StartOf(a), v>>
      <3>1. PICK v \in g.start : e = <<StartOf(a), v>>
        BY <2>2
      <3>2. e[1] = StartOf(a) /\ e[2] = v
        BY <3>1
      <3>. QED
        BY <1>1, <1>5, <3>1, <3>2
    <2>3. CASE \E v \in StateGraph(a).ends : e = <<v, EndOf(a)>>
      <3>1. PICK v \in StateGraph(a).ends : e = <<v, EndOf(a)>>
        BY <2>3
      <3>2. e[1] = v /\ e[2] = EndOf(a)
        BY <3>1
      <3>. QED
        BY <1>1, <1>6, <3>1, <3>2
    <2>. QED
      BY <1>1, <2>1, <2>2, <2>3
  <1>8. StartOf(a) \notin CarriedTasks(a) /\ EndOf(a) \notin CarriedTasks(a) /\ StartOf(a) # EndOf(a)
    BY <1>2, <1>3
  <1>9. /\ DOMAIN g.reads = CarriedTasks(a) /\ DOMAIN g.writes = CarriedTasks(a)
        /\ \A v \in Carried(a) : /\ g.reads[Carrier(a, v)] = ReadBy(a, v)
                                 /\ g.writes[Carrier(a, v)] = WrittenBy(a, v)
    BY DEF Contracted, Access
  <1>10. /\ DOMAIN h.reads = CarriedTasks(a) \union {StartOf(a), EndOf(a)}
         /\ \A v \in CarriedTasks(a) : h.reads[v] = g.reads[v]
         /\ h.reads[StartOf(a)] = {} /\ h.reads[EndOf(a)] = {}
    BY <1>1, <1>8, <1>9 DEF Joined
  <1>11. /\ DOMAIN h.writes = CarriedTasks(a) \union {StartOf(a), EndOf(a)}
         /\ \A v \in CarriedTasks(a) : h.writes[v] = g.writes[v]
         /\ h.writes[StartOf(a)] = a.vars /\ h.writes[EndOf(a)] = {}
    BY <1>1, <1>8, <1>9 DEF Joined
  <1>12. Access(h, a, CarriedTasks(a) \union {StartOf(a), EndOf(a)})
    <2>1. \A v \in Carried(a) : Carrier(a, v) \in CarriedTasks(a)
      BY DEF CarriedTasks
    <2>. QED
      BY <1>9, <1>10, <1>11, <2>1 DEF Access
  <1>. QED
    BY <1>1, <1>7, <1>10, <1>11, <1>12 DEF Dependent

\* Before the first turn nothing has been visited.
LEMMA NothingVisited ==
  ASSUME NEW a, NEW g, NEW lw, NEW lr, lw = <<>>, lr = <<>>
  PROVE  Visited(g, a, lw, lr) /\ Covered(g, a, lw, lr) /\ Sorted(g, a, DOMAIN lw)
  <1>1. DOMAIN lw = {} /\ DOMAIN lr = {}
    OBVIOUS
  <1>. QED
    BY <1>1 DEF Visited, Covered, Sorted

\* When no vertex is ready, all have been visited.
LEMMA AllVisited ==
  ASSUME NEW a, AgentOK(a), NEW g, Dependent(g, a), g.state = CState(a), NEW lw,
         \A v \in g.node : HasData(v) /\ v \notin DOMAIN lw =>
           \E u \in g.node : HasData(u) /\ v \in After(Whole(g), u) /\ u \notin DOMAIN lw
  PROVE  \A v \in g.node : HasData(v) => v \in DOMAIN lw
  <1>1. FiniteGraph(Whole(g)) /\ ~Cyclic(Whole(g))
    BY DependentGraph
  <1>2. PICK B : B = {v \in g.node : HasData(v) /\ v \notin DOMAIN lw}
    OBVIOUS
  <1>3. SUFFICES ASSUME B # {} PROVE FALSE
    BY <1>2
  <1>4. PICK v \in B : \A u \in B : v \notin After(Whole(g), u)
    BY <1>1, <1>3, FirstVertex
  <1>. QED
    BY <1>2, <1>4

-----------------------------------------------------------------------------
(***************************************************************************)
(* The graph of an agent when it is complete.                              *)
(***************************************************************************)

IsOutput(a, t) == t \in {Task("io_pop_write", a.name, x) : x \in a.vars}

\* One of two functions or conditions writes a variable the other uses.
Clash(a, u, v) ==
  \/ WrittenBy(a, u) \intersect (ReadBy(a, v) \union WrittenBy(a, v)) # {}
  \/ ReadBy(a, u) \intersect WrittenBy(a, v) # {}

\* What messages, state machine and output demand of the order of an agent's tasks.
Demands(g, a) ==
  /\ \A e \in StateGraph(a).edge : e[2] \in After(Deps(g), e[1])
  /\ \A u, v \in Carried(a) :
       v \in After(Steps(a), u) /\ Clash(a, u, v) => Carrier(a, v) \in After(Deps(g), Carrier(a, u))
  /\ \A u \in Carried(a) :
       WrittenBy(a, u) # {} => \E t \in After(Deps(g), Carrier(a, u)) : IsOutput(a, t)

Complete(g, a) ==
  /\ DOMAIN g = GraphFields
  /\ FiniteGraph(Deps(g)) /\ \A e \in g.edge : Ord(a, e[1], e[2])
  /\ CNode(a) \subseteq g.node
  /\ \A t \in g.node : t \in CNode(a) \/ t = StartOf(a) \/ IsOutput(a, t)
  /\ \A t \in g.node : IsOutput(a, t) => g.writes[t] \subseteq a.vars
  /\ Demands(g, a)

\* Edges that are not to the end task stay paths when it goes.
LEMMA EndRemoved ==
  ASSUME NEW a, AgentOK(a), NEW G, FiniteGraph(G), \A e \in G.edge : Ord(a, e[1], e[2]),
         NEW H, FiniteGraph(H), G.node \ {EndOf(a)} \subseteq H.node,
         \A e \in G.edge : e[1] # EndOf(a) /\ e[2] # EndOf(a) => e \in H.edge,
         NEW u, u # EndOf(a), NEW v \in After(G, u), v # EndOf(a)
  PROVE  v \in After(H, u)
  <1>1. \A e \in G.edge : e[1] # EndOf(a)
    <2>1. Type(EndOf(a)) = "finish_agent" /\ Type(StartOf(a)) = "start_agent"
      BY TaskTypes
    <2>2. \A x, y : <<x, y>> \in Behind(a) => Type(x) \in {"xfunction", "xstate", "xmessage", "xcondition"}
      BY BehindOrder
    <2>3. \A y : ~Ord(a, EndOf(a), y)
      BY <2>1, <2>2 DEF Ord, IsSink
    <2>. QED
      BY <2>3
  <1>2. PICK S : S = After(H, u) \union {EndOf(a)}
    OBVIOUS
  <1>3. \A e \in H.edge : e = <<e[1], e[2]>> /\ e[1] \in H.node /\ e[2] \in H.node
    BY DEF FiniteGraph, IsDirectedGraph
  <1>4. Successors(G, u) \subseteq S
    <2>1. SUFFICES ASSUME NEW x \in Successors(G, u), x # EndOf(a) PROVE x \in After(H, u)
      BY <1>2
    <2>2. PICK e : e = <<u, x>>
      OBVIOUS
    <2>3. e \in G.edge /\ e[1] = u /\ e[2] = x
      BY <2>2 DEF Successors
    <2>4. <<u, x>> \in H.edge
      BY <2>1, <2>2, <2>3
    <2>5. x \in Successors(H, u)
      BY <2>4 DEF Successors, FiniteGraph, IsDirectedGraph
    <2>. QED
      BY <2>5, AfterLeast
  <1>5. \A e \in G.edge : e[1] \in S => e[2] \in S
    BY <1>1, <1>2, AfterLeast
  <1>6. After(G, u) \subseteq S
    BY <1>4, <1>5, AfterLeast
  <1>. QED
    BY <1>2, <1>6

\* What the end task knows when every task has been visited.
LEMMA LastWriters ==
  ASSUME NEW a, AgentOK(a), NEW g, Dependent(g, a), NEW lw, NEW lr, Visited(g, a, lw, lr),
         Covered(g, a, lw, lr), EndOf(a) \in DOMAIN lw, NEW last, last = lw[EndOf(a)]
  PROVE  /\ \A x \in a.vars : \A z \in last[x] : z \in g.node /\ z # EndOf(a) /\ HasData(z) /\ ~IsSink(z)
         /\ \A u \in Carried(a) : \A x \in WrittenBy(a, u) : Reaches(g, Carrier(a, u), last[x])
  <1>1. Type(EndOf(a)) = "finish_agent" /\ Type(StartOf(a)) = "start_agent"
    BY TaskTypes
  <1>2. ASSUME NEW x \in a.vars, NEW z \in last[x]
        PROVE  z \in g.node /\ z # EndOf(a) /\ HasData(z) /\ ~IsSink(z)
    <2>1. z \in g.node /\ HasData(z) /\ x \in g.writes[z]
      BY <1>2 DEF Visited
    <2>2. z # EndOf(a)
      BY <2>1 DEF Dependent
    <2>3. z \in CarriedTasks(a) \/ z = StartOf(a)
      BY <2>1, <2>2, DependentAccess
    <2>4. z \in CarriedTasks(a) => Type(z) \in {"xfunction", "xcondition"}
      BY ContractedNodes
    <2>. QED
      BY <1>1, <2>1, <2>2, <2>3, <2>4 DEF IsSink
  <1>3. ASSUME NEW u \in Carried(a), NEW x \in WrittenBy(a, u) PROVE Reaches(g, Carrier(a, u), last[x])
    <2>1. x \in a.vars
      BY <1>3, AccessOK
    <2>2. Carrier(a, u) \in CarriedTasks(a) /\ x \in g.writes[Carrier(a, u)]
      BY <1>3 DEF CarriedTasks, Dependent, Access
    <2>3. EndOf(a) \in After(Ordering(a), Carrier(a, u))
      BY EndReached
    <2>. QED
      BY <2>1, <2>2, <2>3 DEF Covered
  <1>. QED
    BY <1>2, <1>3

\* The first of the variables with the same last writers, and that there is one.
Firsts(V, last) == {x \in V : x = Min({y \in V : last[y] = last[x]})}

\* Of the variables with the same last writers one is the first.
LEMMA FirstOfGroup ==
  ASSUME NEW V, V \subseteq Nat, NEW last, NEW x \in V
  PROVE  \E y \in Firsts(V, last) : last[y] = last[x]
  <1>1. PICK G : G = {z \in V : last[z] = last[x]}
    OBVIOUS
  <1>2. G \in SUBSET Nat /\ G # {}
    BY <1>1
  <1>3. \E n \in G : \A m \in G : n <= m
    BY <1>2, LeastNumber
  <1>4. Min(G) \in G
    BY <1>3 DEF Min
  <1>5. PICK y : y = Min(G)
    OBVIOUS
  <1>6. y \in V /\ last[y] = last[x]
    BY <1>1, <1>4, <1>5
  <1>7. G = {z \in V : last[z] = last[y]}
    BY <1>1, <1>6
  <1>8. y \in Firsts(V, last)
    BY <1>5, <1>6, <1>7 DEF Firsts
  <1>. QED
    BY <1>6, <1>8

\* The output tasks are finitely many.
LEMMA FiniteOutputs ==
  ASSUME NEW S, IsFiniteSet(S), NEW n
  PROVE  IsFiniteSet({Task("io_pop_write", n, x) : x \in S})
  <1>1. PICK f : f = [x \in S |-> Task("io_pop_write", n, x)]
    OBVIOUS
  <1>2. {Task("io_pop_write", n, x) : x \in S} = {f[x] : x \in S}
    BY <1>1
  <1>. QED
    BY <1>2, FiniteImage

\* AddVariableOutput(): the end task gives way to output tasks.
WithOutputs(g, a, last) ==
  LET first == Firsts(a.vars, last)
      outs  == {Task("io_pop_write", a.name, x) : x \in first}
      kept  == RemoveVertices(Whole(g), {EndOf(a)})
  IN  [g EXCEPT !.node = kept.node \union outs,
                !.edge = kept.edge \union UNION {From(last[x], Task("io_pop_write", a.name, x)) : x \in first},
                !.writes = Joined(@, [t \in outs |-> {y \in a.vars : last[y] = last[t[3]]}])]

\* After addVariableOutput() the graph demands what conflicts and messages need in its own
\* edges.
LEMMA OutputGraph ==
  ASSUME NEW a, AgentOK(a), NEW g, Dependent(g, a), g.state = {}, NEW lw, NEW lr,
         Visited(g, a, lw, lr), Covered(g, a, lw, lr), Sorted(g, a, CarriedTasks(a)),
         EndOf(a) \in DOMAIN lw, NEW last, last = lw[EndOf(a)],
         NEW h, h = WithOutputs(g, a, last)
  PROVE  Complete(h, a)
  <1>1. PICK first, outs, kept :
          /\ first = Firsts(a.vars, last)
          /\ outs = {Task("io_pop_write", a.name, x) : x \in first}
          /\ kept = RemoveVertices(Whole(g), {EndOf(a)})
    OBVIOUS
  <1>2. PICK L : L = UNION {From(last[x], Task("io_pop_write", a.name, x)) : x \in first}
    OBVIOUS
  <1>3. h = [g EXCEPT !.node = kept.node \union outs,
                       !.edge = kept.edge \union L,
                       !.writes = Joined(@, [t \in outs |-> {y \in a.vars : last[y] = last[t[3]]}])]
    BY <1>1, <1>2 DEF WithOutputs
  <1>4. /\ DOMAIN h = GraphFields
        /\ h.node = kept.node \union outs /\ h.edge = kept.edge \union L
        /\ h.writes = Joined(g.writes, [t \in outs |-> {y \in a.vars : last[y] = last[t[3]]}])
    BY <1>3 DEF Dependent, GraphFields
  <1>5. kept.node = g.node \ {EndOf(a)} /\ kept.edge = {e \in g.edge : e[1] # EndOf(a) /\ e[2] # EndOf(a)}
    <2>1. Whole(g).node = g.node /\ Whole(g).edge = g.edge
      BY DEF Whole
    <2>. QED
      BY <1>1, <2>1 DEF RemoveVertices
  <1>6. \A x, y : Type(Task("io_pop_write", x, y)) = "io_pop_write"
    BY TaskTypes
  <1>7. /\ \A x \in a.vars : \A z \in last[x] : z \in g.node /\ z # EndOf(a) /\ HasData(z) /\ ~IsSink(z)
        /\ \A u \in Carried(a) : \A x \in WrittenBy(a, u) : Reaches(g, Carrier(a, u), last[x])
    BY LastWriters
  <1>8. first \subseteq a.vars
    BY <1>1 DEF Firsts
  <1>9. ASSUME NEW e \in L PROVE e \in h.node \X h.node /\ Ord(a, e[1], e[2])
    <2>1. PICK x \in first : e \in From(last[x], Task("io_pop_write", a.name, x))
      BY <1>2, <1>9
    <2>2. PICK z \in last[x] : e = <<z, Task("io_pop_write", a.name, x)>>
      BY <2>1 DEF From
    <2>3. PICK o : o = Task("io_pop_write", a.name, x)
      OBVIOUS
    <2>4. e[1] = z /\ e[2] = o /\ e = <<z, o>>
      BY <2>2, <2>3
    <2>5. o \in h.node /\ IsSink(o)
      BY <1>1, <1>4, <1>6, <2>3 DEF IsSink
    <2>6. z \in h.node /\ ~IsSink(z)
      BY <1>4, <1>5, <1>7, <1>8, <2>1
    <2>. QED
      BY <2>4, <2>5, <2>6 DEF Ord
  <1>10. ASSUME NEW e \in kept.edge PROVE e \in h.node \X h.node /\ Ord(a, e[1], e[2])
    <2>1. e \in g.edge /\ e[1] # EndOf(a) /\ e[2] # EndOf(a)
      BY <1>5
    <2>2. e \in g.node \X g.node /\ Ord(a, e[1], e[2])
      BY <2>1 DEF Dependent
    <2>. QED
      BY <1>4, <1>5, <2>1, <2>2
  <1>11. IsFiniteSet(h.node)
    <2>1. IsFiniteSet(g.node)
      BY OrderingGraph DEF Dependent, FiniteGraph
    <2>2. IsFiniteSet(first)
      BY <1>8, FS_Subset DEF AgentOK
    <2>3. IsFiniteSet(outs)
      <3>1. \A n, S : IsFiniteSet(S) => IsFiniteSet({Task("io_pop_write", n, x) : x \in S})
        BY FiniteOutputs, Zenon
      <3>2. IsFiniteSet({Task("io_pop_write", a.name, x) : x \in first})
        BY <2>2, <3>1, Zenon
      <3>. QED
        BY <1>1, <3>2, Zenon
    <2>4. IsFiniteSet(kept.node)
      BY <1>5, <2>1, FS_Subset
    <2>5. IsFiniteSet(kept.node \union outs)
      BY <2>3, <2>4, FS_Union, Zenon
    <2>. QED
      BY <1>4, <2>5
  <1>12. /\ FiniteGraph(Deps(h)) /\ Deps(h).node = h.node /\ Deps(h).edge = h.edge
         /\ \A e \in h.edge : Ord(a, e[1], e[2])
    BY <1>4, <1>9, <1>10, <1>11 DEF FiniteGraph, IsDirectedGraph, Deps
  <1>13. /\ FiniteGraph(Deps(g)) /\ Deps(g).node = g.node /\ Deps(g).edge = g.edge
         /\ \A e \in g.edge : Ord(a, e[1], e[2])
    BY DependentGraph DEF Dependent
  <1>14. \A u : \A v \in After(Deps(g), u) : u # EndOf(a) /\ v # EndOf(a) => v \in After(Deps(h), u)
    <2>1. g.node \ {EndOf(a)} \subseteq h.node
      BY <1>4, <1>5
    <2>2. \A e \in g.edge : e[1] # EndOf(a) /\ e[2] # EndOf(a) => e \in h.edge
      BY <1>4, <1>5
    <2>. QED
      BY <1>12, <1>13, <2>1, <2>2, EndRemoved
  <1>15. Type(EndOf(a)) = "finish_agent" /\ Type(StartOf(a)) = "start_agent"
    BY TaskTypes
  <1>16. EndOf(a) \notin CNode(a) /\ CarriedTasks(a) \subseteq CNode(a)
    BY <1>15, ContractedNodes
  <1>17. ASSUME NEW e \in StateGraph(a).edge PROVE e[2] \in After(Deps(h), e[1])
    <2>1. /\ e = <<e[1], e[2]>> /\ e \in g.edge /\ e[1] # EndOf(a) /\ e[2] # EndOf(a)
      BY <1>15, StateGraphEdges DEF Dependent
    <2>2. e \in h.edge
      BY <1>4, <1>5, <2>1
    <2>3. PICK x, y : x = e[1] /\ y = e[2]
      OBVIOUS
    <2>4. <<x, y>> \in Deps(h).edge /\ y \in Deps(h).node
      <3>1. e = <<x, y>>
        BY <2>1, <2>3, Zenon
      <3>2. e \in h.node \X h.node
        BY <1>4, <1>9, <1>10, <2>2
      <3>. QED
        BY <1>12, <2>2, <3>1, <3>2
    <2>5. y \in Successors(Deps(h), x)
      BY <2>4 DEF Successors
    <2>6. y \in After(Deps(h), x)
      BY <1>12, <2>5, AfterLeast
    <2>. QED
      BY <2>3, <2>6
  <1>18. \A v \in Carried(a) : Carrier(a, v) \in CarriedTasks(a) /\ Carrier(a, v) # EndOf(a)
    BY <1>16 DEF CarriedTasks
  <1>19. ASSUME NEW u \in Carried(a), NEW v \in Carried(a), v \in After(Steps(a), u), Clash(a, u, v)
         PROVE  Carrier(a, v) \in After(Deps(h), Carrier(a, u))
    <2>1. Carrier(a, v) \in After(Ordering(a), Carrier(a, u))
      BY <1>19, ContractedPaths
    <2>2. Conflict(g, Carrier(a, u), Carrier(a, v))
      BY <1>19 DEF Clash, Conflict, Dependent, Access
    <2>3. Carrier(a, v) \in After(Deps(g), Carrier(a, u))
      BY <1>18, <2>1, <2>2 DEF Sorted
    <2>. QED
      BY <1>14, <1>18, <2>3
  <1>20. ASSUME NEW u \in Carried(a), WrittenBy(a, u) # {}
         PROVE  \E t \in After(Deps(h), Carrier(a, u)) : IsOutput(a, t)
    <2>1. PICK x \in WrittenBy(a, u) : x \in a.vars
      BY <1>20, AccessOK
    <2>2. PICK z \in last[x] : z = Carrier(a, u) \/ z \in After(Deps(g), Carrier(a, u))
      BY <1>7 DEF Reaches
    <2>3. PICK y \in first : last[y] = last[x]
      <3>1. a.vars \subseteq Nat
        BY DEF AgentOK
      <3>2. \A V, f : V \subseteq Nat => \A s \in V : \E y \in Firsts(V, f) : f[y] = f[s]
        BY FirstOfGroup, Zenon
      <3>3. \A s \in a.vars : \E y \in Firsts(a.vars, last) : last[y] = last[s]
        BY <3>1, <3>2
      <3>. QED
        BY <1>1, <2>1, <3>3
    <2>4. PICK o : o = Task("io_pop_write", a.name, y)
      OBVIOUS
    <2>5. y \in first /\ o \in outs /\ z \in last[y] /\ IsOutput(a, o)
      BY <1>1, <1>8, <2>2, <2>3, <2>4 DEF IsOutput
    <2>6. z \in g.node /\ z # EndOf(a) /\ z # o
      BY <1>6, <1>7, <2>1, <2>2, <2>4 DEF IsSink
    <2>7. <<z, o>> \in L
      <3>1. <<z, o>> \in From(last[y], o)
        BY <2>5, <2>6 DEF From
      <3>. QED
        BY <1>2, <2>4, <2>5, <3>1
    <2>8. <<z, o>> \in Deps(h).edge /\ o \in Deps(h).node
      BY <1>4, <1>12, <2>5, <2>7
    <2>9. z = Carrier(a, u) \/ z \in After(Deps(h), Carrier(a, u))
      BY <1>14, <1>18, <2>2, <2>6
    <2>10. CASE z = Carrier(a, u)
      <3>1. o \in Successors(Deps(h), Carrier(a, u))
        BY <2>8, <2>10 DEF Successors
      <3>2. o \in After(Deps(h), Carrier(a, u))
        BY <1>12, <3>1, AfterLeast
      <3>. QED
        BY <2>5, <3>2
    <2>11. CASE z \in After(Deps(h), Carrier(a, u))
      <3>1. PICK e : e = <<z, o>>
        OBVIOUS
      <3>2. e \in Deps(h).edge /\ e[1] = z /\ e[2] = o
        BY <2>8, <3>1
      <3>3. o \in After(Deps(h), Carrier(a, u))
        BY <1>12, <2>11, <3>2, AfterLeast
      <3>. QED
        BY <2>5, <3>3
    <2>. QED
      BY <2>9, <2>10, <2>11
  <1>21. Demands(h, a)
    BY <1>17, <1>19, <1>20 DEF Demands
  <1>22. /\ CNode(a) \subseteq h.node
         /\ \A t \in h.node : t \in CNode(a) \/ t = StartOf(a) \/ IsOutput(a, t)
    <2>1. g.node = CNode(a) \union {StartOf(a), EndOf(a)}
      BY DEF Dependent
    <2>2. \A t \in outs : IsOutput(a, t)
      BY <1>1, <1>8 DEF IsOutput
    <2>. QED
      BY <1>4, <1>5, <1>16, <2>1, <2>2
  <1>23. ASSUME NEW t \in h.node, IsOutput(a, t) PROVE h.writes[t] \subseteq a.vars
    <2>1. Type(t) = "io_pop_write"
      BY <1>6, <1>23 DEF IsOutput
    <2>2. t \notin CarriedTasks(a) \union {StartOf(a), EndOf(a)}
      BY <1>15, <2>1, ContractedNodes
    <2>3. t \notin DOMAIN g.writes
      BY <2>2 DEF Dependent, Access
    <2>4. t \in outs
      <3>1. t \notin CNode(a)
        BY <2>1, ContractedNodes
      <3>. QED
        BY <1>4, <1>5, <2>2, <3>1 DEF Dependent
    <2>5. h.writes[t] = {y \in a.vars : last[y] = last[t[3]]}
      BY <1>4, <2>3, <2>4 DEF Joined
    <2>. QED
      BY <2>5
  <1>. QED
    BY <1>4, <1>12, <1>21, <1>22, <1>23 DEF Complete

\* removeRedundantDependencies() keeps the order.
WithoutRedundant(g) == [g EXCEPT !.edge = Reduced([node |-> g.node, edge |-> @]).edge]

\* The reduced graph is complete too.
LEMMA ReduceGraph ==
  ASSUME NEW a, AgentOK(a), NEW g, Complete(g, a), NEW h, h = WithoutRedundant(g)
  PROVE  Complete(h, a)
  <1>1. PICK G, R : G = Deps(g) /\ R = Reduced(G)
    OBVIOUS
  <1>2. /\ DOMAIN h = GraphFields /\ h.node = g.node /\ h.writes = g.writes /\ h.edge = R.edge
    BY <1>1 DEF WithoutRedundant, Complete, GraphFields, Deps
  <1>3. FiniteGraph(G) /\ G.node = g.node /\ G.edge = g.edge /\ \A e \in g.edge : Ord(a, e[1], e[2])
    BY <1>1 DEF Complete, Deps
  <1>4. /\ FiniteGraph(R) /\ R.node = G.node
        /\ R.edge = {e \in G.edge : ~ \E n \in Successors(G, e[1]) : e[2] \in After(G, n)}
    BY <1>1, <1>3, ReducedEdges
  <1>5. Deps(h) = R
    BY <1>2, <1>3, <1>4 DEF Deps, FiniteGraph, IsDirectedGraph
  <1>6. ~Cyclic(G)
    BY <1>3, OrdAcyclic
  <1>7. \A v \in g.node : After(Deps(h), v) = After(Deps(g), v)
    BY <1>1, <1>3, <1>5, <1>6, ReductionKeepsOrder
  <1>8. \A v \in Carried(a) : Carrier(a, v) \in g.node
    BY ContractedNodes DEF Complete, CarriedTasks
  <1>9. \A e \in StateGraph(a).edge : e[1] \in g.node
    <2>1. SUFFICES ASSUME NEW e \in StateGraph(a).edge PROVE e[1] \in g.node
      OBVIOUS
    <2>2. e[1] \in StateGraph(a).node /\ Type(e[1]) \in {"xmessage", "xfunction"}
      BY StateGraphEdges
    <2>3. CASE Type(e[1]) = "xmessage"
      BY <2>2, <2>3, ContractedNodes DEF Complete
    <2>4. CASE Type(e[1]) = "xfunction"
      <3>1. e[1] \in Carried(a)
        BY <2>2, <2>4, CarriedVertices
      <3>2. Carrier(a, e[1]) = e[1]
        BY <2>2, <2>4, Carriers
      <3>. QED
        BY <1>8, <3>1, <3>2
    <2>. QED
      BY <2>2, <2>3, <2>4
  <1>10. Demands(h, a)
    BY <1>7, <1>8, <1>9 DEF Demands, Complete
  <1>11. \A e \in h.edge : Ord(a, e[1], e[2])
    BY <1>2, <1>3, <1>4
  <1>. QED
    BY <1>2, <1>4, <1>5, <1>10, <1>11 DEF Complete

-----------------------------------------------------------------------------
(***************************************************************************)
(* The graph of the model: import of the agents' graphs, sync and clear    *)
(* tasks.                                                                  *)
(***************************************************************************)

\* Import and ImportGraphs as operators of the agents' graphs.
NodesOf(gs) == UNION {gs[i].node : i \in DOMAIN gs}

ImportOf(gs) ==
  [node |-> NodesOf(gs) \union {Start, Finish},
   edge |-> (UNION {gs[i].edge : i \in DOMAIN gs})
              \union {<<Start, v>> : v \in OfType(NodesOf(gs), "start_agent")}
              \union {<<v, Finish>> : v \in OfType(NodesOf(gs), "io_pop_write")}]

MergedOf(gs) ==
  LET starts == OfType(ImportOf(gs).node, "start_agent")
      rest   == RemoveVertices(ImportOf(gs), starts)
  IN  [rest EXCEPT !.edge = @ \union Bridges(ImportOf(gs).edge, starts)]

AllComplete(m, gs) ==
  /\ DOMAIN gs = DOMAIN m /\ IsFiniteSet(DOMAIN m)
  /\ \A i \in DOMAIN m : AgentOK(m[i]) /\ Complete(gs[i], m[i])

\* The types of an agent's tasks; no edge leads to a start task.
LEMMA CompleteTypes ==
  ASSUME NEW a, AgentOK(a), NEW g, Complete(g, a)
  PROVE  /\ \A t \in g.node : /\ Type(t) \in {"xfunction", "xcondition", "xmessage", "start_agent", "io_pop_write"}
                              /\ Type(t) = "io_pop_write" <=> IsOutput(a, t)
                              /\ Type(t) = "start_agent" <=> t = StartOf(a)
         /\ \A e \in g.edge : /\ e = <<e[1], e[2]>> /\ e[1] \in g.node /\ e[2] \in g.node
                              /\ Type(e[2]) # "start_agent" /\ Type(e[1]) # "io_pop_write"
  <1>1. Type(StartOf(a)) = "start_agent" /\ \A x, y : Type(Task("io_pop_write", x, y)) = "io_pop_write"
    BY TaskTypes
  <1>2. \A t \in CNode(a) : Type(t) \in {"xfunction", "xcondition", "xmessage"}
    BY ContractedNodes
  <1>3. \A t : IsOutput(a, t) => Type(t) = "io_pop_write"
    BY <1>1 DEF IsOutput
  <1>4. \A t \in g.node : t \in CNode(a) \/ t = StartOf(a) \/ IsOutput(a, t)
    BY DEF Complete
  <1>5. \A t \in g.node : /\ Type(t) \in {"xfunction", "xcondition", "xmessage", "start_agent", "io_pop_write"}
                          /\ Type(t) = "io_pop_write" <=> IsOutput(a, t)
                          /\ Type(t) = "start_agent" <=> t = StartOf(a)
    BY <1>1, <1>2, <1>3, <1>4
  <1>6. ASSUME NEW e \in g.edge
        PROVE  /\ e = <<e[1], e[2]>> /\ e[1] \in g.node /\ e[2] \in g.node
               /\ Type(e[2]) # "start_agent" /\ Type(e[1]) # "io_pop_write"
    <2>1. e = <<e[1], e[2]>> /\ e[1] \in g.node /\ e[2] \in g.node
      BY DEF Complete, Deps, FiniteGraph, IsDirectedGraph
    <2>2. Ord(a, e[1], e[2])
      BY DEF Complete
    <2>3. \A x, y : <<x, y>> \in Behind(a) => /\ Type(x) \in {"xfunction", "xstate", "xmessage", "xcondition"}
                                              /\ Type(y) \in {"xfunction", "xstate", "xmessage", "xcondition"}
      BY BehindOrder
    <2>4. Type(e[2]) # "start_agent" /\ Type(e[1]) # "io_pop_write"
      BY <1>1, <2>2, <2>3 DEF Ord, IsSink
    <2>. QED
      BY <2>1, <2>4
  <1>. QED
    BY <1>5, <1>6

\* Edges that do not start at a start task are kept, and output tasks joined to the end.
LEMMA MergedEdges ==
  ASSUME NEW m, NEW gs, AllComplete(m, gs)
  PROVE  /\ \A i \in DOMAIN gs : \A e \in gs[i].edge : Type(e[1]) # "start_agent" => e \in MergedOf(gs).edge
         /\ \A i \in DOMAIN gs : \A t \in gs[i].node :
              Type(t) = "io_pop_write" => <<t, Finish>> \in MergedOf(gs).edge
         /\ MergedOf(gs).node \subseteq NodesOf(gs) \union {Start, Finish}
  <1>1. PICK I, starts, rest, M :
          /\ I = ImportOf(gs) /\ starts = OfType(I.node, "start_agent")
          /\ rest = RemoveVertices(I, starts)
          /\ M = [rest EXCEPT !.edge = @ \union Bridges(I.edge, starts)]
    OBVIOUS
  <1>2. M = MergedOf(gs)
    BY <1>1 DEF MergedOf
  <1>3. rest = [node |-> I.node \ starts, edge |-> {e \in I.edge : e[1] \notin starts /\ e[2] \notin starts}]
    BY <1>1 DEF RemoveVertices
  <1>4. M.node = I.node \ starts /\ {e \in I.edge : e[1] \notin starts /\ e[2] \notin starts} \subseteq M.edge
    BY <1>1, <1>3
  <1>5. \A t \in starts : Type(t) = "start_agent"
    BY <1>1 DEF OfType
  <1>6. ASSUME NEW i \in DOMAIN gs, NEW e \in gs[i].edge, Type(e[1]) # "start_agent" PROVE e \in M.edge
    <2>1. Type(e[2]) # "start_agent"
      BY CompleteTypes DEF AllComplete
    <2>2. e \in I.edge
      BY <1>1 DEF ImportOf
    <2>. QED
      BY <1>4, <1>5, <1>6, <2>1, <2>2
  <1>7. ASSUME NEW i \in DOMAIN gs, NEW t \in gs[i].node, Type(t) = "io_pop_write"
        PROVE  <<t, Finish>> \in M.edge
    <2>1. t \in OfType(NodesOf(gs), "io_pop_write")
      BY <1>7 DEF OfType, NodesOf
    <2>2. PICK e : e = <<t, Finish>>
      OBVIOUS
    <2>3. e \in I.edge /\ e[1] = t /\ e[2] = Finish
      <3>1. e \in {<<v, Finish>> : v \in OfType(NodesOf(gs), "io_pop_write")}
        BY <2>1, <2>2
      <3>2. e[1] = t /\ e[2] = Finish
        BY <2>2
      <3>. QED
        BY <1>1, <3>1, <3>2 DEF ImportOf
    <2>4. Type(Finish) # "start_agent"
      BY TaskTypes
    <2>. QED
      BY <1>4, <1>5, <1>7, <2>2, <2>3, <2>4
  <1>8. M.node \subseteq NodesOf(gs) \union {Start, Finish}
    BY <1>1, <1>4 DEF ImportOf
  <1>. QED
    BY <1>2, <1>6, <1>7, <1>8

\* The graph of the model with its message tasks, as it is registered.
FinalOf(gs) == WithClear(WithSync(MergedOf(gs)))

\* Messages become sync tasks; edges are kept between what the vertices become.
LEMMA FinalEdges ==
  ASSUME NEW m, NEW gs, AllComplete(m, gs)
  PROVE  /\ \A i \in DOMAIN gs : \A e \in gs[i].edge :
              Type(e[1]) # "start_agent" => <<ToSync(e[1]), ToSync(e[2])>> \in FinalOf(gs).edge
         /\ \A i \in DOMAIN gs : \A t \in gs[i].node :
              Type(t) = "io_pop_write" => <<t, Finish>> \in FinalOf(gs).edge
         /\ \A e \in FinalOf(gs).edge : e = <<e[1], e[2]>>
  <1>1. PICK G, H, C, M : /\ G = MergedOf(gs) /\ H = WithSync(G) /\ C = FinalOf(gs)
                          /\ M = UNION {{<<v, Task("xmessage_clear", s[2], s[3])>> : v \in Successors(H, s)} :
                                          s \in OfType(H.node, "xmessage_sync")}
    OBVIOUS
  <1>2. H.edge = {<<ToSync(e[1]), ToSync(e[2])>> : e \in G.edge}
    BY <1>1 DEF WithSync
  <1>3. C.edge = H.edge \union M
    BY <1>1 DEF FinalOf, WithClear
  <1>4. \A e \in G.edge : <<ToSync(e[1]), ToSync(e[2])>> \in C.edge
    BY <1>2, <1>3
  <1>5. \A t : Type(t) # "xmessage" => ToSync(t) = t
    BY DEF ToSync
  <1>6. ASSUME NEW i \in DOMAIN gs, NEW t \in gs[i].node, Type(t) = "io_pop_write"
        PROVE  <<t, Finish>> \in C.edge
    <2>1. PICK e : e = <<t, Finish>>
      OBVIOUS
    <2>2. e \in G.edge /\ e[1] = t /\ e[2] = Finish
      BY <1>1, <1>6, <2>1, MergedEdges
    <2>3. Type(Finish) = "finish_model"
      BY TaskTypes
    <2>4. ToSync(t) = t /\ ToSync(Finish) = Finish
      BY <1>5, <1>6, <2>3
    <2>. QED
      BY <1>4, <2>2, <2>4
  <1>7. \A e \in H.edge : e = <<e[1], e[2]>>
    BY <1>2
  <1>8. \A e \in M : e = <<e[1], e[2]>>
    <2>1. SUFFICES ASSUME NEW e \in M PROVE e = <<e[1], e[2]>>
      OBVIOUS
    <2>2. PICK s, v : e = <<v, Task("xmessage_clear", s[2], s[3])>>
      BY <1>1
    <2>. QED
      BY <2>2
  <1>9. \A i \in DOMAIN gs : \A e \in gs[i].edge :
              Type(e[1]) # "start_agent" => <<ToSync(e[1]), ToSync(e[2])>> \in C.edge
    BY <1>1, <1>4, MergedEdges
  <1>. QED
    BY <1>1, <1>3, <1>6, <1>7, <1>8, <1>9

\* A path that does not start at a start task is one between the registered tasks.
LEMMA PathKept ==
  ASSUME NEW m, NEW gs, AllComplete(m, gs), NEW R, FiniteGraph(R), R.edge = FinalOf(gs).edge,
         NEW i \in DOMAIN gs, NEW u, Type(u) # "start_agent", NEW v \in After(Deps(gs[i]), u)
  PROVE  ToSync(v) \in After(R, ToSync(u))
  <1>1. PICK g, A : g = gs[i] /\ A = After(R, ToSync(u))
    OBVIOUS
  <1>2. AgentOK(m[i]) /\ Complete(g, m[i])
    BY <1>1 DEF AllComplete
  <1>3. FiniteGraph(Deps(g)) /\ Deps(g).node = g.node /\ Deps(g).edge = g.edge
    BY <1>2 DEF Complete, Deps
  <1>4. \A e \in g.edge : /\ e = <<e[1], e[2]>> /\ e[2] \in g.node /\ Type(e[2]) # "start_agent"
                          /\ Type(e[1]) # "start_agent" => <<ToSync(e[1]), ToSync(e[2])>> \in R.edge
    <2>1. \A e \in g.edge : e = <<e[1], e[2]>> /\ e[2] \in g.node /\ Type(e[2]) # "start_agent"
      BY <1>2, CompleteTypes
    <2>2. \A e \in g.edge : Type(e[1]) # "start_agent" => <<ToSync(e[1]), ToSync(e[2])>> \in R.edge
      BY <1>1, FinalEdges
    <2>. QED
      BY <2>1, <2>2
  <1>5. /\ Successors(R, ToSync(u)) \subseteq A
        /\ \A e \in R.edge : e[1] \in A => e[2] \in A
    BY <1>1, AfterLeast
  <1>6. \A x, y : <<x, y>> \in R.edge /\ (x = ToSync(u) \/ x \in A) => y \in A
    <2>1. SUFFICES ASSUME NEW x, NEW y, <<x, y>> \in R.edge, x = ToSync(u) \/ x \in A PROVE y \in A
      OBVIOUS
    <2>2. CASE x = ToSync(u)
      <3>1. y \in R.node
        BY <2>1 DEF FiniteGraph, IsDirectedGraph
      <3>. QED
        BY <1>5, <2>1, <2>2, <3>1 DEF Successors
    <2>3. CASE x \in A
      <3>1. PICK e : e = <<x, y>>
        OBVIOUS
      <3>2. e \in R.edge /\ e[1] = x /\ e[2] = y
        BY <2>1, <3>1
      <3>. QED
        BY <1>5, <2>3, <3>2
    <2>. QED
      BY <2>1, <2>2, <2>3
  <1>7. PICK S : S = {t \in g.node : Type(t) # "start_agent" /\ ToSync(t) \in A}
    OBVIOUS
  <1>8. ASSUME NEW e \in g.edge, e[1] = u \/ e[1] \in S PROVE e[2] \in S
    <2>1. Type(e[1]) # "start_agent" /\ (ToSync(e[1]) = ToSync(u) \/ ToSync(e[1]) \in A)
      BY <1>7, <1>8
    <2>2. <<ToSync(e[1]), ToSync(e[2])>> \in R.edge
      BY <1>4, <2>1
    <2>3. ToSync(e[2]) \in A
      BY <1>6, <2>1, <2>2
    <2>. QED
      BY <1>4, <1>7, <2>3
  <1>9. Successors(Deps(g), u) \subseteq S
    <2>1. SUFFICES ASSUME NEW t \in Successors(Deps(g), u) PROVE t \in S
      OBVIOUS
    <2>2. PICK e : e = <<u, t>>
      OBVIOUS
    <2>3. e \in g.edge /\ e[1] = u /\ e[2] = t
      BY <1>3, <2>2 DEF Successors
    <2>. QED
      BY <1>8, <2>3
  <1>10. After(Deps(g), u) \subseteq S
    BY <1>3, <1>8, <1>9, AfterLeast
  <1>. QED
    BY <1>1, <1>7, <1>10

\* Nothing comes after what is not a vertex.
LEMMA AfterOfNode ==
  ASSUME NEW G, FiniteGraph(G), NEW v, NEW t \in After(G, v)
  PROVE  v \in G.node
  <1>1. PICK u \in Successors(G, v) : u = t \/ t \in After(G, u)
    BY AfterFirst
  <1>2. <<v, u>> \in G.edge
    BY <1>1 DEF Successors
  <1>. QED
    BY <1>2 DEF FiniteGraph, IsDirectedGraph

-----------------------------------------------------------------------------
(***************************************************************************)
(* The inductive invariant of the specification.                           *)
(***************************************************************************)

Generating == {"transform", "contract", "start", "data", "output", "reduce"}
Generated  == {"import", "sync", "register", "registered", "threw"}

\* The graph of the agent at hand, at each step of its generation.
StageInv ==
  /\ step = "transform" => g_ = StateGraph(a_)
  /\ step = "contract" => Transformed(g_, a_)
  /\ step = "start" => Contracted(g_, a_)
  /\ step \in {"data", "output"} =>
       /\ Dependent(g_, a_)
       /\ Visited(g_, a_, lastWrites, lastReads) /\ Covered(g_, a_, lastWrites, lastReads)
  /\ step = "data" => g_.state = CState(a_) /\ Sorted(g_, a_, DOMAIN lastWrites)
  /\ step = "output" => /\ g_.state = {} /\ EndOf(a_) \in DOMAIN lastWrites
                        /\ Sorted(g_, a_, CarriedTasks(a_))
  /\ step = "reduce" => Complete(g_, a_)

\* Agents before this one are complete, those after it as the validation left them.
AgentsInv ==
  /\ DOMAIN graph = DOMAIN model
  /\ \A i \in DOMAIN model : AgentOK(model[i])
  /\ \A i \in DOMAIN model : i < agent \/ step \in Generated => Complete(graph[i], model[i])
  /\ step \in Generating => \A i \in DOMAIN model : i > agent => graph[i] = StateGraph(model[i])

\* The graph of the model, and what is registered.
ModelInv ==
  /\ step = "sync" => modelGraph = MergedOf(graph)
  /\ step \in {"register", "registered", "threw"} => modelGraph = FinalOf(graph)
  /\ step = "registered" => /\ deps = modelGraph.edge /\ IsFiniteSet(tasks)
                            /\ deps \subseteq tasks \X tasks

GenerationInv ==
  /\ model \in Models /\ agent \in DOMAIN model
  /\ step = "validate" => agent = 1
  /\ step \in {"validate", "rejected"} \union Generating \union Generated
  /\ step \in Generating \union Generated => AgentsInv
  /\ StageInv
  /\ ModelInv

\* The invariant holds for every model that is given to the generation.
LEMMA InitInv == Init => GenerationInv
  <1>1. SUFFICES ASSUME Init PROVE GenerationInv
    OBVIOUS
  <1>2. model \in Models /\ step = "validate" /\ agent = 1
    BY <1>1 DEF Init
  <1>3. model \in Seq(Range(model)) /\ Len(model) > 0
    BY <1>2, ModelsAssumption
  <1>4. agent \in DOMAIN model
    <2>1. PICK S : S = Range(model)
      OBVIOUS
    <2>2. DOMAIN model = 1..Len(model) /\ Len(model) \in Nat
      BY <1>3, <2>1
    <2>. QED
      BY <1>2, <1>3, <2>2
  <1>. QED
    BY <1>2, <1>4 DEF GenerationInv, StageInv, ModelInv, Generating, Generated

\* The validation establishes what is known of each agent.
LEMMA ValidateInv == GenerationInv /\ Validate => GenerationInv'
  <1>1. SUFFICES ASSUME GenerationInv, Validate PROVE GenerationInv'
    OBVIOUS
  <1>2. /\ model' = model /\ agent' = agent /\ agent \in DOMAIN model /\ model \in Models /\ agent = 1
        /\ graph' = [i \in DOMAIN model |-> StateGraph(model[i])]
        /\ step' = "transform" \/ step' = "rejected"
    BY <1>1 DEF GenerationInv, Validate
  <1>3. DOMAIN model \subseteq Nat \ {0}
    <2>1. PICK S : S = Range(model)
      OBVIOUS
    <2>2. model \in Seq(S)
      BY <1>2, <2>1, ModelsAssumption
    <2>. QED
      BY <2>2
  <1>4. ASSUME step' = "transform" PROVE AgentsInv' /\ g_' = StateGraph(a_)'
    <2>1. \A i \in DOMAIN model : ~Cyclic(Whole(graph'[i]))
      BY <1>1, <1>4 DEF Validate, CheckCyclicDependencies
    <2>2. \A i \in DOMAIN model : graph'[i] = StateGraph(model[i])
      BY <1>2
    <2>3. \A i \in DOMAIN model : AgentOK(model[i])
      <3>1. SUFFICES ASSUME NEW i \in DOMAIN model PROVE AgentOK(model[i])
        OBVIOUS
      <3>2. /\ IsFiniteSet(model[i].functions)
            /\ IsFiniteSet(model[i].vars) /\ model[i].vars \subseteq Nat
            /\ \A f \in model[i].functions :
                 f.ro \union f.rw \subseteq model[i].vars /\ IsFiniteSet(f.outs \union f.ins)
        BY <1>2, <3>1, ModelsAssumption
      <3>3. ~Cyclic(Whole(StateGraph(model[i])))
        BY <2>1, <2>2, <3>1
      <3>. QED
        BY <3>2, <3>3 DEF AgentOK
    <2>4. AgentsInv'
      BY <1>2, <1>3, <1>4, <2>2, <2>3 DEF AgentsInv, Generated
    <2>5. g_' = StateGraph(model[agent]) /\ a_' = model[agent]
      BY <1>2, <2>2 DEF g_, a_
    <2>. QED
      BY <2>4, <2>5
  <1>. QED
    BY <1>2, <1>4 DEF GenerationInv, StageInv, ModelInv, Generating, Generated

\* A step of the generation of one agent's graph leaves the others alone.
LEMMA StageStep ==
  ASSUME GenerationInv, step \in Generating, NEW h, NEW next \in Generating,
         Becomes(h, next), agent' = agent
  PROVE  /\ a_' = a_ /\ g_' = h /\ step' = next /\ AgentsInv' /\ ModelInv'
         /\ model' \in Models /\ agent' \in DOMAIN model'
  <1>1. AgentsInv /\ model \in Models /\ agent \in DOMAIN model
    BY DEF GenerationInv
  <1>2. graph' = [graph EXCEPT ![agent] = h] /\ step' = next /\ model' = model
    BY DEF Becomes
  <1>3. next \notin Generated /\ step \notin Generated /\ next \notin {"sync", "register", "registered", "threw"}
    BY DEF Generating, Generated
  <1>4. /\ DOMAIN graph' = DOMAIN graph /\ graph'[agent] = h
        /\ \A i \in DOMAIN graph : i # agent => graph'[i] = graph[i]
    BY <1>1, <1>2 DEF AgentsInv
  <1>5. DOMAIN model \subseteq Nat
    <2>1. PICK S : S = Range(model)
      OBVIOUS
    <2>2. model \in Seq(S)
      BY <1>1, <2>1, ModelsAssumption
    <2>. QED
      BY <2>2
  <1>6. AgentsInv'
    BY <1>1, <1>2, <1>3, <1>4, <1>5 DEF AgentsInv
  <1>7. ModelInv'
    BY <1>2, <1>3 DEF ModelInv
  <1>. QED
    BY <1>1, <1>2, <1>4, <1>6, <1>7 DEF a_, g_

\* A stage is reached when its own condition holds.
LEMMA StageReached ==
  ASSUME step' \in Generating, AgentsInv', ModelInv', model' \in Models, agent' \in DOMAIN model', StageInv'
  PROVE  GenerationInv'
  BY DEF GenerationInv, Generating

\* transformConditionalStatesToConditions() preserves the invariant.
LEMMA TransformInv == GenerationInv /\ TransformConditionalStatesToConditions => GenerationInv'
  <1>1. SUFFICES ASSUME GenerationInv, TransformConditionalStatesToConditions PROVE GenerationInv'
    OBVIOUS
  <1>2. step = "transform" /\ agent' = agent
    BY <1>1 DEF TransformConditionalStatesToConditions
  <1>3. PICK g, a : g = g_ /\ a = a_
    OBVIOUS
  <1>4. PICK h : h = WithConditions(g, a)
    OBVIOUS
  <1>5. Becomes(h, "contract")
    BY <1>1, <1>3, <1>4 DEF TransformConditionalStatesToConditions, WithConditions, Turned
  <1>6. g = StateGraph(a)
    BY <1>1, <1>2, <1>3 DEF GenerationInv, StageInv
  <1>7. Transformed(h, a)
    BY <1>4, <1>6, TransformGraph
  <1>8. /\ a_' = a_ /\ g_' = h /\ step' = "contract" /\ AgentsInv' /\ ModelInv'
        /\ model' \in Models /\ agent' \in DOMAIN model'
    BY <1>1, <1>2, <1>5, StageStep DEF Generating
  <1>9. StageInv'
    BY <1>3, <1>7, <1>8 DEF StageInv
  <1>. QED
    BY <1>8, <1>9, StageReached DEF Generating

\* contractStateVertices() preserves the invariant.
LEMMA ContractInv == GenerationInv /\ ContractStateVertices => GenerationInv'
  <1>1. SUFFICES ASSUME GenerationInv, ContractStateVertices PROVE GenerationInv'
    OBVIOUS
  <1>2. step = "contract" /\ agent' = agent
    BY <1>1 DEF ContractStateVertices
  <1>3. PICK g, a : g = g_ /\ a = a_
    OBVIOUS
  <1>4. PICK h : h = WithoutStates(g)
    OBVIOUS
  <1>5. Becomes(h, "start")
    BY <1>1, <1>3, <1>4 DEF ContractStateVertices, WithoutStates
  <1>6. Transformed(g, a) /\ AgentOK(a)
    BY <1>1, <1>2, <1>3 DEF GenerationInv, StageInv, AgentsInv, Generating, a_
  <1>7. Contracted(h, a)
    BY <1>4, <1>6, ContractGraph
  <1>8. /\ a_' = a_ /\ g_' = h /\ step' = "start" /\ AgentsInv' /\ ModelInv'
        /\ model' \in Models /\ agent' \in DOMAIN model'
    BY <1>1, <1>2, <1>5, StageStep DEF Generating
  <1>9. StageInv'
    BY <1>3, <1>7, <1>8 DEF StageInv
  <1>. QED
    BY <1>8, <1>9, StageReached DEF Generating

\* addStartTask() and addEndTask() preserve the invariant.
LEMMA StartInv == GenerationInv /\ AddStartAndEndTask => GenerationInv'
  <1>1. SUFFICES ASSUME GenerationInv, AddStartAndEndTask PROVE GenerationInv'
    OBVIOUS
  <1>2. step = "start" /\ agent' = agent /\ lastWrites' = <<>> /\ lastReads' = <<>>
    BY <1>1 DEF AddStartAndEndTask
  <1>3. PICK g, a : g = g_ /\ a = a_
    OBVIOUS
  <1>4. PICK h :
          h = [g EXCEPT !.node = @ \union {StartOf(a), EndOf(a)},
                        !.edge = @ \union {<<StartOf(a), v>> : v \in g.start}
                                   \union {<<v, EndOf(a)>> : v \in g.ends},
                        !.reads  = Joined(@, [t \in {StartOf(a), EndOf(a)} |-> {}]),
                        !.writes = Joined(@, [t \in {StartOf(a), EndOf(a)} |->
                                                IF t = StartOf(a) THEN a.vars ELSE {}])]
    OBVIOUS
  <1>5. Becomes(h, "data")
    BY <1>1, <1>3, <1>4 DEF AddStartAndEndTask
  <1>6. Contracted(g, a) /\ AgentOK(a)
    BY <1>1, <1>2, <1>3 DEF GenerationInv, StageInv, AgentsInv, Generating, a_
  <1>7. Dependent(h, a) /\ h.state = CState(a)
    BY <1>4, <1>6, StartGraph
  <1>8. /\ a_' = a_ /\ g_' = h /\ step' = "data" /\ AgentsInv' /\ ModelInv'
        /\ model' \in Models /\ agent' \in DOMAIN model'
    BY <1>1, <1>2, <1>5, StageStep DEF Generating
  <1>9. PICK lw, lr : lw = lastWrites' /\ lr = lastReads'
    OBVIOUS
  <1>10. Visited(h, a, lw, lr) /\ Covered(h, a, lw, lr) /\ Sorted(h, a, DOMAIN lw)
    BY <1>2, <1>9, NothingVisited
  <1>11. StageInv'
    BY <1>3, <1>7, <1>8, <1>9, <1>10 DEF StageInv
  <1>. QED
    BY <1>8, <1>11, StageReached DEF Generating

\* A turn of the loop of addDataDependencies() preserves the invariant.
LEMMA DataInv == GenerationInv /\ AddDataDependencies => GenerationInv'
  <1>1. SUFFICES ASSUME GenerationInv, AddDataDependencies PROVE GenerationInv'
    OBVIOUS
  <1>2. step = "data" /\ agent' = agent
    BY <1>1 DEF AddDataDependencies
  <1>3. PICK g, a, lw, lr : g = g_ /\ a = a_ /\ lw = lastWrites /\ lr = lastReads
    OBVIOUS
  <1>4. PICK v \in ReadyVertices(g) :
          /\ Becomes(WithData(g, v, FromInEdges(lw, g, v), FromInEdges(lr, g, v)), "data")
          /\ lastWrites' = WritesOf(lw, g, a, v, FromInEdges(lw, g, v))
          /\ lastReads' = ReadsOf(lr, g, a, v, FromInEdges(lr, g, v))
    <2>1. PICK v \in ReadyVertices(g_) :
            /\ Becomes(WithData(g_, v, FromInEdges(lastWrites, g_, v), FromInEdges(lastReads, g_, v)), "data")
            /\ lastWrites' = WritesOf(lastWrites, g_, a_, v, FromInEdges(lastWrites, g_, v))
            /\ lastReads' = ReadsOf(lastReads, g_, a_, v, FromInEdges(lastReads, g_, v))
      BY <1>1 DEF AddDataDependencies, WithData, WritesOf, ReadsOf
    <2>. QED
      BY <1>3, <2>1
  <1>5. /\ v \in g.node /\ HasData(v) /\ v \notin DOMAIN lw
        /\ \A u \in g.node : HasData(u) /\ v \in After(Whole(g), u) => u \in DOMAIN lw
    BY <1>3 DEF ReadyVertices
  <1>6. /\ AgentOK(a) /\ Dependent(g, a) /\ g.state = CState(a)
        /\ Visited(g, a, lw, lr) /\ Covered(g, a, lw, lr) /\ Sorted(g, a, DOMAIN lw)
    BY <1>1, <1>2, <1>3 DEF GenerationInv, StageInv, AgentsInv, Generating, a_
  <1>7. PICK P, writers, readers :
          /\ P = {w \in Predecessors(Whole(g), v) : HasData(w)}
          /\ writers = [x \in a.vars |-> UNION {lw[u][x] : u \in P}]
          /\ readers = [x \in a.vars |-> UNION {lr[u][x] : u \in P}]
    OBVIOUS
  <1>8. writers = FromInEdges(lw, g, v) /\ readers = FromInEdges(lr, g, v)
    BY <1>3, <1>7 DEF FromInEdges
  <1>9. Sources(g, a, v, writers, readers)
    BY <1>5, <1>6, <1>7, DataSources
  <1>10. PICK h, lw2, lr2 : /\ h = WithData(g, v, writers, readers)
                            /\ lw2 = WritesOf(lw, g, a, v, writers) /\ lr2 = ReadsOf(lr, g, a, v, readers)
    OBVIOUS
  <1>11. /\ Dependent(h, a) /\ h.state = CState(a)
         /\ Visited(h, a, lw2, lr2) /\ Covered(h, a, lw2, lr2) /\ Sorted(h, a, DOMAIN lw2)
    BY <1>5, <1>6, <1>9, <1>10, DataStep
  <1>12. Becomes(h, "data") /\ lastWrites' = lw2 /\ lastReads' = lr2
    BY <1>4, <1>8, <1>10
  <1>13. /\ a_' = a_ /\ g_' = h /\ step' = "data" /\ AgentsInv' /\ ModelInv'
         /\ model' \in Models /\ agent' \in DOMAIN model'
    BY <1>1, <1>2, <1>12, StageStep DEF Generating
  <1>14. StageInv'
    BY <1>3, <1>11, <1>12, <1>13 DEF StageInv
  <1>. QED
    BY <1>13, <1>14, StageReached DEF Generating

\* The order of the data dependencies does not depend on the state edges.
LEMMA StateRemoved ==
  ASSUME NEW a, NEW g, Dependent(g, a), NEW lw, NEW lr,
         Visited(g, a, lw, lr), Covered(g, a, lw, lr), NEW V, Sorted(g, a, V),
         NEW h, h = [g EXCEPT !.state = {}]
  PROVE  /\ Dependent(h, a) /\ h.state = {}
         /\ Visited(h, a, lw, lr) /\ Covered(h, a, lw, lr) /\ Sorted(h, a, V)
  <1>1. /\ DOMAIN h = GraphFields /\ h.node = g.node /\ h.edge = g.edge /\ h.state = {}
        /\ h.reads = g.reads /\ h.writes = g.writes
    BY DEF Dependent, GraphFields
  <1>2. Deps(h) = Deps(g)
    BY <1>1 DEF Deps
  <1>3. Dependent(h, a)
    BY <1>1 DEF Dependent, Access
  <1>4. Visited(h, a, lw, lr)
    BY <1>1 DEF Visited
  <1>5. Covered(h, a, lw, lr)
    BY <1>1, <1>2 DEF Covered, Reaches
  <1>6. Sorted(h, a, V)
    BY <1>1, <1>2 DEF Sorted, Conflict
  <1>. QED
    BY <1>1, <1>3, <1>4, <1>5, <1>6

\* removeStateDependencies() preserves the invariant: data dependencies carry the order
\* alone.
LEMMA RemoveStateInv == GenerationInv /\ RemoveStateDependencies => GenerationInv'
  <1>1. SUFFICES ASSUME GenerationInv, RemoveStateDependencies PROVE GenerationInv'
    OBVIOUS
  <1>2. /\ step = "data" /\ agent' = agent /\ ReadyVertices(g_) = {}
        /\ lastWrites' = lastWrites /\ lastReads' = lastReads
    BY <1>1 DEF RemoveStateDependencies
  <1>3. PICK g, a, lw, lr : g = g_ /\ a = a_ /\ lw = lastWrites /\ lr = lastReads
    OBVIOUS
  <1>4. PICK h : h = [g EXCEPT !.state = {}]
    OBVIOUS
  <1>5. Becomes(h, "output")
    BY <1>1, <1>3, <1>4 DEF RemoveStateDependencies
  <1>6. /\ AgentOK(a) /\ Dependent(g, a) /\ g.state = CState(a)
        /\ Visited(g, a, lw, lr) /\ Covered(g, a, lw, lr) /\ Sorted(g, a, DOMAIN lw)
    BY <1>1, <1>2, <1>3 DEF GenerationInv, StageInv, AgentsInv, Generating, a_
  <1>7. \A v \in g.node : HasData(v) => v \in DOMAIN lw
    <2>1. \A v \in g.node : HasData(v) /\ v \notin DOMAIN lw =>
            \E u \in g.node : HasData(u) /\ v \in After(Whole(g), u) /\ u \notin DOMAIN lw
      BY <1>2, <1>3 DEF ReadyVertices
    <2>. QED
      BY <1>6, <2>1, AllVisited
  <1>8. CarriedTasks(a) \subseteq DOMAIN lw /\ EndOf(a) \in DOMAIN lw
    <2>1. \A v \in CarriedTasks(a) : v \in g.node /\ HasData(v)
      BY <1>6, ContractedNodes DEF Dependent
    <2>2. EndOf(a) \in g.node /\ HasData(EndOf(a))
      BY <1>6, TaskTypes DEF Dependent, HasData
    <2>. QED
      BY <1>7, <2>1, <2>2
  <1>9. Sorted(g, a, CarriedTasks(a))
    BY <1>6, <1>8 DEF Sorted
  <1>10. /\ Dependent(h, a) /\ h.state = {}
         /\ Visited(h, a, lw, lr) /\ Covered(h, a, lw, lr) /\ Sorted(h, a, CarriedTasks(a))
    BY <1>4, <1>6, <1>9, StateRemoved
  <1>11. /\ a_' = a_ /\ g_' = h /\ step' = "output" /\ AgentsInv' /\ ModelInv'
         /\ model' \in Models /\ agent' \in DOMAIN model'
    BY <1>1, <1>2, <1>5, StageStep DEF Generating
  <1>12. StageInv'
    BY <1>2, <1>3, <1>8, <1>10, <1>11 DEF StageInv
  <1>. QED
    BY <1>11, <1>12, StageReached DEF Generating

\* The output tasks preserve the invariant.
LEMMA OutputInv == GenerationInv /\ AddVariableOutput => GenerationInv'
  <1>1. SUFFICES ASSUME GenerationInv, AddVariableOutput PROVE GenerationInv'
    OBVIOUS
  <1>2. step = "output" /\ agent' = agent
    BY <1>1 DEF AddVariableOutput
  <1>3. PICK g, a, lw, lr : g = g_ /\ a = a_ /\ lw = lastWrites /\ lr = lastReads
    OBVIOUS
  <1>4. PICK last : last = lw[EndOf(a)]
    OBVIOUS
  <1>5. PICK h : h = WithOutputs(g, a, last)
    OBVIOUS
  <1>6. Becomes(h, "reduce")
    BY <1>1, <1>3, <1>4, <1>5 DEF AddVariableOutput, WithOutputs, Firsts
  <1>7. /\ AgentOK(a) /\ Dependent(g, a) /\ g.state = {} /\ EndOf(a) \in DOMAIN lw
        /\ Visited(g, a, lw, lr) /\ Covered(g, a, lw, lr) /\ Sorted(g, a, CarriedTasks(a))
    BY <1>1, <1>2, <1>3 DEF GenerationInv, StageInv, AgentsInv, Generating, a_
  <1>8. Complete(h, a)
    BY <1>4, <1>5, <1>7, OutputGraph
  <1>9. /\ a_' = a_ /\ g_' = h /\ step' = "reduce" /\ AgentsInv' /\ ModelInv'
        /\ model' \in Models /\ agent' \in DOMAIN model'
    BY <1>1, <1>2, <1>6, StageStep DEF Generating
  <1>10. StageInv'
    BY <1>3, <1>8, <1>9 DEF StageInv
  <1>. QED
    BY <1>9, <1>10, StageReached DEF Generating

\* The agents of a model are numbered from one.
LEMMA ModelIndices ==
  ASSUME model \in Models
  PROVE  DOMAIN model = 1..Len(model) /\ Len(model) \in Nat /\ IsFiniteSet(DOMAIN model)
  <1>1. PICK S : S = Range(model)
    OBVIOUS
  <1>2. model \in Seq(S)
    BY <1>1, ModelsAssumption
  <1>3. DOMAIN model = 1..Len(model) /\ Len(model) \in Nat
    BY <1>2
  <1>. QED
    BY <1>3, FS_Interval

\* removeRedundantDependencies() preserves the invariant, for the last agent and for one
\* before it.
LEMMA ReduceInv == GenerationInv /\ RemoveRedundantDependencies => GenerationInv'
  <1>1. SUFFICES ASSUME GenerationInv, RemoveRedundantDependencies PROVE GenerationInv'
    OBVIOUS
  <1>2. step = "reduce"
    BY <1>1 DEF RemoveRedundantDependencies
  <1>3. PICK g, a : g = g_ /\ a = a_
    OBVIOUS
  <1>4. PICK h : h = WithoutRedundant(g)
    OBVIOUS
  <1>5. /\ Becomes(h, IF agent = Len(model) THEN "import" ELSE "transform")
        /\ agent' = IF agent = Len(model) THEN agent ELSE agent + 1
    BY <1>1, <1>3, <1>4 DEF RemoveRedundantDependencies, WithoutRedundant
  <1>6. AgentOK(a) /\ Complete(g, a) /\ AgentsInv /\ agent \in DOMAIN model /\ model \in Models
    BY <1>1, <1>2, <1>3 DEF GenerationInv, StageInv, AgentsInv, Generating, a_
  <1>7. Complete(h, a)
    BY <1>4, <1>6, ReduceGraph
  <1>8. DOMAIN model = 1..Len(model) /\ Len(model) \in Nat
    BY <1>6, ModelIndices
  <1>9. /\ graph' = [graph EXCEPT ![agent] = h] /\ model' = model
        /\ step' = IF agent = Len(model) THEN "import" ELSE "transform"
    BY <1>5 DEF Becomes
  <1>10. /\ DOMAIN graph = DOMAIN model /\ DOMAIN graph' = DOMAIN model /\ graph'[agent] = h
         /\ \A i \in DOMAIN model : i # agent => graph'[i] = graph[i]
    BY <1>6, <1>9 DEF AgentsInv
  <1>11. \A i \in DOMAIN model : i <= agent => Complete(graph'[i], model[i])
    BY <1>3, <1>6, <1>7, <1>8, <1>10 DEF AgentsInv, a_
  <1>12. \A i \in DOMAIN model : i > agent => graph'[i] = StateGraph(model[i])
    BY <1>2, <1>6, <1>8, <1>10 DEF AgentsInv, Generating
  <1>13. CASE agent = Len(model)
    <2>1. step' = "import" /\ agent' = agent
      BY <1>5, <1>9, <1>13
    <2>2. \A i \in DOMAIN model : Complete(graph'[i], model[i])
      BY <1>8, <1>11, <1>13
    <2>3. AgentsInv'
      BY <1>6, <1>9, <1>10, <2>1, <2>2 DEF AgentsInv, Generating, Generated
    <2>. QED
      BY <1>6, <1>9, <2>1, <2>3 DEF GenerationInv, StageInv, ModelInv, Generated
  <1>14. CASE agent # Len(model)
    <2>1. step' = "transform" /\ agent' = agent + 1 /\ agent + 1 \in DOMAIN model
      BY <1>5, <1>6, <1>8, <1>9, <1>14
    <2>2. AgentsInv'
      <3>1. \A i \in DOMAIN model : i < agent + 1 => Complete(graph'[i], model[i])
        BY <1>6, <1>8, <1>11
      <3>2. \A i \in DOMAIN model : i > agent + 1 => graph'[i] = StateGraph(model[i])
        BY <1>6, <1>8, <1>12
      <3>. QED
        BY <1>6, <1>9, <1>10, <2>1, <3>1, <3>2 DEF AgentsInv, Generated
    <2>3. graph'[agent + 1] = StateGraph(model[agent + 1])
      BY <1>6, <1>8, <1>12, <2>1
    <2>4. g_' = StateGraph(a_')
      BY <1>9, <2>1, <2>3 DEF g_, a_
    <2>. QED
      BY <1>6, <1>9, <2>1, <2>2, <2>4 DEF GenerationInv, StageInv, ModelInv, Generating
  <1>. QED
    BY <1>13, <1>14

\* After the agents' graphs, only the graph of the model and what is registered change.
LEMMA GeneratedStep ==
  ASSUME GenerationInv, step \in Generated, step' \in Generated, model' = model, agent' = agent,
         graph' = graph, ModelInv'
  PROVE  GenerationInv'
  <1>1. AgentsInv /\ model \in Models /\ agent \in DOMAIN model
    BY DEF GenerationInv
  <1>2. AgentsInv'
    BY <1>1 DEF AgentsInv, Generating, Generated
  <1>3. StageInv'
    BY DEF StageInv, Generated
  <1>. QED
    BY <1>1, <1>2, <1>3 DEF GenerationInv, Generated

\* Once generation has passed the last agent every graph is complete.
LEMMA AllAgentsComplete ==
  ASSUME GenerationInv, step \in Generated
  PROVE  AllComplete(model, graph)
  <1>1. AgentsInv /\ model \in Models
    BY DEF GenerationInv
  <1>. QED
    BY <1>1, ModelIndices DEF AgentsInv, AllComplete

\* importGraphs() preserves the invariant.
LEMMA ImportInv == GenerationInv /\ ImportGraphs => GenerationInv'
  <1>1. SUFFICES ASSUME GenerationInv, ImportGraphs PROVE GenerationInv'
    OBVIOUS
  <1>2. step = "import" /\ step' = "sync" /\ model' = model /\ agent' = agent /\ graph' = graph
    BY <1>1 DEF ImportGraphs
  <1>3. Import = ImportOf(graph)
    BY DEF Import, ImportOf, Imported, NodesOf
  <1>4. modelGraph' = MergedOf(graph)
    BY <1>1, <1>3 DEF ImportGraphs, MergedOf
  <1>5. ModelInv'
    BY <1>2, <1>4 DEF ModelInv
  <1>. QED
    BY <1>1, <1>2, <1>5, GeneratedStep DEF Generated

\* The sync and clear tasks of the messages preserve the invariant.
LEMMA SyncInv == GenerationInv /\ AddMessageTasks => GenerationInv'
  <1>1. SUFFICES ASSUME GenerationInv, AddMessageTasks PROVE GenerationInv'
    OBVIOUS
  <1>2. /\ step = "sync" /\ step' = "register" /\ model' = model /\ agent' = agent /\ graph' = graph
        /\ modelGraph' = WithClear(WithSync(modelGraph))
    BY <1>1 DEF AddMessageTasks
  <1>3. modelGraph = MergedOf(graph)
    BY <1>1, <1>2 DEF GenerationInv, ModelInv
  <1>4. modelGraph' = FinalOf(graph)
    BY <1>2, <1>3 DEF FinalOf
  <1>5. ModelInv'
    BY <1>2, <1>4 DEF ModelInv
  <1>. QED
    BY <1>1, <1>2, <1>5, GeneratedStep DEF Generated

\* The registered tasks are finitely many.
LEMMA FinalFinite ==
  ASSUME NEW m, NEW gs, AllComplete(m, gs)
  PROVE  IsFiniteSet(FinalOf(gs).node)
  <1>1. IsFiniteSet(NodesOf(gs))
    <2>1. PICK D, h, T : D = DOMAIN gs /\ h = [i \in D |-> gs[i].node] /\ T = {h[i] : i \in D}
      OBVIOUS
    <2>2. IsFiniteSet(T)
      BY <2>1, FiniteImage DEF AllComplete
    <2>3. \A s \in T : IsFiniteSet(s)
      <3>1. SUFFICES ASSUME NEW i \in D PROVE IsFiniteSet(gs[i].node)
        BY <2>1
      <3>2. Complete(gs[i], m[i])
        BY <2>1 DEF AllComplete
      <3>. QED
        BY <3>2 DEF Complete, FiniteGraph, Deps
    <2>4. IsFiniteSet(UNION T)
      BY <2>2, <2>3, FS_UNION
    <2>5. UNION T = NodesOf(gs)
      BY <2>1 DEF NodesOf
    <2>. QED
      BY <2>4, <2>5
  <1>2. IsFiniteSet(NodesOf(gs) \union {Start, Finish})
    <2>1. IsFiniteSet({Start}) /\ IsFiniteSet({Finish})
      BY FS_Singleton
    <2>2. IsFiniteSet({Start} \union {Finish})
      BY <2>1, FS_Union
    <2>3. {Start, Finish} = {Start} \union {Finish}
      OBVIOUS
    <2>. QED
      BY <1>1, <2>2, <2>3, FS_Union
  <1>3. PICK G, H, C : G = MergedOf(gs) /\ H = WithSync(G) /\ C = FinalOf(gs)
    OBVIOUS
  <1>4. IsFiniteSet(G.node)
    <2>1. G.node \subseteq NodesOf(gs) \union {Start, Finish}
      BY <1>3, MergedEdges
    <2>. QED
      BY <1>2, <2>1, FS_Subset
  <1>5. IsFiniteSet(H.node)
    <2>1. PICK h : h = [v \in G.node |-> ToSync(v)]
      OBVIOUS
    <2>2. H.node = {h[v] : v \in G.node}
      BY <1>3, <2>1 DEF WithSync
    <2>. QED
      BY <1>4, <2>2, FiniteImage
  <1>6. PICK S, h : /\ S = OfType(H.node, "xmessage_sync")
                    /\ h = [s \in S |-> Task("xmessage_clear", s[2], s[3])]
    OBVIOUS
  <1>7. C.node = H.node \union {h[s] : s \in S}
    BY <1>3, <1>6 DEF FinalOf, WithClear
  <1>8. IsFiniteSet(S)
    BY <1>5, <1>6, FS_Subset DEF OfType
  <1>9. IsFiniteSet({h[s] : s \in S})
    BY <1>8, FiniteImage
  <1>10. PICK K : K = {h[s] : s \in S}
    OBVIOUS
  <1>11. IsFiniteSet(H.node \union K)
    BY <1>5, <1>9, <1>10, FS_Union
  <1>. QED
    BY <1>3, <1>7, <1>10, <1>11

\* registerDataTask() makes finitely many tasks of an output vertex.
LEMMA DataTasksFinite ==
  ASSUME AllComplete(model, graph), NEW v, Type(v) = "io_pop_write"
  PROVE  IsFiniteSet(DataTasks(v))
  <1>1. PICK D, h, T : /\ D = {j \in DOMAIN graph : v \in graph[j].node}
                       /\ h = [i \in D |-> graph[i].writes[v]] /\ T = {h[i] : i \in D}
    OBVIOUS
  <1>2. IsFiniteSet(D)
    BY <1>1, FS_Subset DEF AllComplete
  <1>3. IsFiniteSet(T)
    BY <1>1, <1>2, FiniteImage
  <1>4. ASSUME NEW i \in D PROVE IsFiniteSet(graph[i].writes[v])
    <2>1. i \in DOMAIN model /\ v \in graph[i].node /\ AgentOK(model[i]) /\ Complete(graph[i], model[i])
      BY <1>1 DEF AllComplete
    <2>2. IsOutput(model[i], v)
      BY <2>1, CompleteTypes
    <2>3. graph[i].writes[v] \subseteq model[i].vars
      BY <2>1, <2>2 DEF Complete
    <2>4. IsFiniteSet(model[i].vars)
      BY <2>1 DEF AgentOK
    <2>. QED
      BY <2>3, <2>4, FS_Subset
  <1>5. \A s \in T : IsFiniteSet(s)
    BY <1>1, <1>4
  <1>6. IsFiniteSet(UNION T)
    BY <1>3, <1>5, FS_UNION
  <1>7. PICK X, n : X = UNION T /\ n = v[2]
    OBVIOUS
  <1>8. DataTasks(v) = {Task("io_pop_write", n, x) : x \in X}
    BY <1>1, <1>7 DEF DataTasks
  <1>9. IsFiniteSet({Task("io_pop_write", n, x) : x \in X})
    BY <1>6, <1>7, FiniteOutputs
  <1>. QED
    BY <1>8, <1>9

\* The registration of tasks and dependencies preserves the invariant.
LEMMA RegisterInv == GenerationInv /\ Register => GenerationInv'
  <1>1. SUFFICES ASSUME GenerationInv, Register PROVE GenerationInv'
    OBVIOUS
  <1>2. /\ step = "register" /\ model' = model /\ agent' = agent /\ graph' = graph
        /\ modelGraph' = modelGraph
        /\ step' = "registered" \/ step' = "threw"
    BY <1>1 DEF Register
  <1>3. AllComplete(model, graph) /\ modelGraph = FinalOf(graph)
    BY <1>1, <1>2, AllAgentsComplete DEF Generated, GenerationInv, ModelInv
  <1>4. PICK N, h : /\ N = modelGraph.node
                    /\ h = [v \in N |-> CASE Type(v) = "io_pop_write" -> DataTasks(v)
                                          [] Type(v) \in {"xfunction", "xcondition"} -> {v} \intersect Callable
                                          [] OTHER -> {v}]
    OBVIOUS
  <1>5. tasks' = UNION {h[v] : v \in N}
    BY <1>1, <1>4 DEF Register
  <1>6. IsFiniteSet(tasks')
    <2>1. IsFiniteSet(N)
      BY <1>3, <1>4, FinalFinite
    <2>2. IsFiniteSet({h[v] : v \in N})
      BY <2>1, FiniteImage
    <2>3. ASSUME NEW v \in N PROVE IsFiniteSet(h[v])
      <3>1. IsFiniteSet({v})
        BY FS_Singleton
      <3>2. IsFiniteSet({v} \intersect Callable)
        BY <3>1, FS_Subset
      <3>3. Type(v) = "io_pop_write" => IsFiniteSet(DataTasks(v))
        BY <1>3, DataTasksFinite
      <3>4. h[v] = CASE Type(v) = "io_pop_write" -> DataTasks(v)
                     [] Type(v) \in {"xfunction", "xcondition"} -> {v} \intersect Callable
                     [] OTHER -> {v}
        BY <1>4
      <3>5. \/ Type(v) = "io_pop_write" /\ h[v] = DataTasks(v)
            \/ h[v] = {v} \intersect Callable
            \/ h[v] = {v}
        BY <3>4
      <3>. QED
        BY <3>1, <3>2, <3>3, <3>5
    <2>4. PICK T : T = {h[v] : v \in N}
      OBVIOUS
    <2>5. IsFiniteSet(T) /\ \A s \in T : IsFiniteSet(s)
      BY <2>2, <2>3, <2>4
    <2>6. IsFiniteSet(UNION T)
      BY <2>5, FS_UNION
    <2>. QED
      BY <1>5, <2>4, <2>6
  <1>7. ASSUME step' = "registered" PROVE deps' = modelGraph.edge /\ deps' \subseteq tasks' \X tasks'
    <2>1. deps' = modelGraph.edge /\ \A e \in modelGraph.edge : {e[1], e[2]} \subseteq tasks'
      BY <1>1, <1>7 DEF Register
    <2>2. \A e \in modelGraph.edge : e = <<e[1], e[2]>>
      BY <1>3, FinalEdges
    <2>. QED
      BY <2>1, <2>2
  <1>8. ModelInv'
    BY <1>2, <1>3, <1>6, <1>7 DEF ModelInv
  <1>. QED
    BY <1>1, <1>2, <1>8, GeneratedStep DEF Generated

\* Nothing of this depends on a step that changes nothing.
LEMMA StutterInv == GenerationInv /\ UNCHANGED vars => GenerationInv'
  BY DEF vars, GenerationInv, AgentsInv, StageInv, ModelInv, a_, g_

\* The generation keeps its invariant, whatever the model.
THEOREM GenerationInvariant == Spec => []GenerationInv
  <1>1. GenerationInv /\ [Next]_vars => GenerationInv'
    BY ValidateInv, TransformInv, ContractInv, StartInv, DataInv, RemoveStateInv, OutputInv, ReduceInv,
       ImportInv, SyncInv, RegisterInv, StutterInv DEF Next
  <1>. QED
    BY <1>1, InitInv, PTL DEF Spec

-----------------------------------------------------------------------------
(***************************************************************************)
(* The order of the registered tasks.                                      *)
(***************************************************************************)

\* What the demands of an agent become between the registered tasks.
LEMMA RegisteredOrder ==
  ASSUME GenerationInv, step = "registered"
  PROVE  /\ FiniteGraph(Registered) /\ Registered.node = tasks /\ Registered.edge = FinalOf(graph).edge
         /\ AllComplete(model, graph) /\ DOMAIN graph = DOMAIN model
         /\ \A i \in DOMAIN model : AgentOK(model[i])
         /\ \A i \in DOMAIN model : \A u : Type(u) # "start_agent" =>
              \A v \in After(Deps(graph[i]), u) : ToSync(v) \in After(Registered, ToSync(u))
         /\ \A i \in DOMAIN model : Complete(graph[i], model[i])
  <1>1. AllComplete(model, graph)
    BY AllAgentsComplete DEF Generated
  <1>2. /\ deps = FinalOf(graph).edge /\ IsFiniteSet(tasks) /\ deps \subseteq tasks \X tasks
    BY DEF GenerationInv, ModelInv
  <1>3. PICK R : R = Registered
    OBVIOUS
  <1>4. FiniteGraph(R) /\ R.node = tasks /\ R.edge = FinalOf(graph).edge
    BY <1>2, <1>3 DEF Registered, FiniteGraph, IsDirectedGraph
  <1>5. DOMAIN graph = DOMAIN model /\ \A i \in DOMAIN model : AgentOK(model[i]) /\ Complete(graph[i], model[i])
    BY <1>1 DEF AllComplete
  <1>6. \A i \in DOMAIN model : \A u : Type(u) # "start_agent" =>
              \A v \in After(Deps(graph[i]), u) : ToSync(v) \in After(R, ToSync(u))
    BY <1>1, <1>4, <1>5, PathKept
  <1>. QED
    BY <1>1, <1>3, <1>4, <1>5, <1>6

\* Carried tasks are registered as they are.
LEMMA CarriedRegistered ==
  ASSUME NEW a, NEW v \in Carried(a)
  PROVE  ToSync(Carrier(a, v)) = Carrier(a, v) /\ Type(Carrier(a, v)) # "start_agent"
  BY CarriedVertices DEF ToSync

\* The invariant implies ConflictsOrdered: conflicts are demands of a complete graph, and
\* paths are kept.
LEMMA ConflictsFromInv == GenerationInv => ConflictsOrdered
  <1>1. SUFFICES ASSUME GenerationInv, step = "registered" PROVE ConflictsOrdered
    BY DEF ConflictsOrdered
  <1>2. PICK after : after = [t \in tasks |-> After(Registered, t)]
    OBVIOUS
  <1>3. ASSUME NEW i \in DOMAIN model, NEW u \in Carried(model[i]), NEW v \in Carried(model[i]),
               v \in After(Steps(model[i]), u), Clash(model[i], u, v),
               {Carrier(model[i], u), Carrier(model[i], v)} \subseteq tasks
        PROVE  Carrier(model[i], v) \in after[Carrier(model[i], u)]
    <2>1. Carrier(model[i], v) \in After(Deps(graph[i]), Carrier(model[i], u))
      BY <1>1, <1>3, RegisteredOrder DEF Complete, Demands
    <2>2. /\ ToSync(Carrier(model[i], u)) = Carrier(model[i], u) /\ Type(Carrier(model[i], u)) # "start_agent"
          /\ ToSync(Carrier(model[i], v)) = Carrier(model[i], v)
      BY CarriedRegistered
    <2>3. ToSync(Carrier(model[i], v)) \in After(Registered, ToSync(Carrier(model[i], u)))
      BY <1>1, <2>1, <2>2, RegisteredOrder
    <2>. QED
      BY <1>2, <1>3, <2>2, <2>3
  <1>4. \A i \in DOMAIN model : Carried(model[i]) \subseteq Steps(model[i]).node
    <2>1. SUFFICES ASSUME NEW i \in DOMAIN model, NEW v \in Carried(model[i]) PROVE v \in Steps(model[i]).node
      OBVIOUS
    <2>2. PICK a : a = model[i]
      OBVIOUS
    <2>3. v \in StateGraph(a).node /\ Type(v) # "xmessage"
      BY <2>2, CarriedVertices
    <2>4. \/ \E f \in a.functions : v = Fn(a, f)
          \/ \E s \in Currents(a) \union Nexts(a) : v = St(a, s)
      BY <2>3, StateGraphEdges
    <2>. QED
      BY <2>2, <2>4 DEF Steps
  <1>. QED
    BY <1>1, <1>2, <1>3, <1>4 DEF ConflictsOrdered, Clash

\* Two tasks of an agent that conflict run in the order of its state machine.
THEOREM ConflictsAreOrdered == Spec => []ConflictsOrdered
  BY GenerationInvariant, ConflictsFromInv, PTL

\* The invariant implies FinaliseAfterWriters.
LEMMA FinaliseFromInv == GenerationInv => FinaliseAfterWriters
  <1>1. SUFFICES ASSUME GenerationInv, step = "registered" PROVE FinaliseAfterWriters
    BY DEF FinaliseAfterWriters
  <1>2. PICK after : after = [t \in tasks |-> After(Registered, t)]
    OBVIOUS
  <1>3. ASSUME NEW i \in DOMAIN model, NEW v \in Carried(model[i]), WrittenBy(model[i], v) # {},
               Carrier(model[i], v) \in tasks
        PROVE  Finish \in after[Carrier(model[i], v)]
    <2>1. PICK a, g, c : a = model[i] /\ g = graph[i] /\ c = Carrier(a, v)
      OBVIOUS
    <2>2. /\ AgentOK(a) /\ Complete(g, a) /\ AllComplete(model, graph) /\ i \in DOMAIN graph
          /\ FiniteGraph(Registered) /\ Registered.edge = FinalOf(graph).edge /\ Registered.node = tasks
      BY <1>1, <2>1, RegisteredOrder
    <2>3. PICK t \in After(Deps(g), c) : IsOutput(a, t)
      BY <1>3, <2>1, <2>2 DEF Complete, Demands
    <2>4. t \in g.node
      <3>1. FiniteGraph(Deps(g)) /\ Deps(g).node = g.node
        BY <2>2 DEF Complete, Deps
      <3>. QED
        BY <2>3, <3>1, AfterLeast
    <2>5. Type(t) = "io_pop_write"
      BY <2>2, <2>3, <2>4, CompleteTypes
    <2>6. ToSync(t) = t
      BY <2>5 DEF ToSync
    <2>7. ToSync(c) = c /\ Type(c) # "start_agent"
      BY <1>3, <2>1, CarriedRegistered
    <2>8. t \in After(Registered, c)
      BY <1>1, <2>1, <2>3, <2>6, <2>7, RegisteredOrder
    <2>9. PICK e : e = <<t, Finish>>
      OBVIOUS
    <2>10. e \in Registered.edge /\ e[1] = t /\ e[2] = Finish
      BY <2>1, <2>2, <2>4, <2>5, <2>9, FinalEdges
    <2>11. Finish \in After(Registered, c)
      BY <2>2, <2>8, <2>10, AfterLeast
    <2>. QED
      BY <1>2, <1>3, <2>1, <2>11
  <1>. QED
    BY <1>1, <1>2, <1>3 DEF FinaliseAfterWriters

\* The end of the output comes after every task that writes a variable.
THEOREM FinaliseComesLast == Spec => []FinaliseAfterWriters
  BY GenerationInvariant, FinaliseFromInv, PTL

\* Posting functions point to their messages, and messages to the functions that read them.
LEMMA MessageEdges ==
  ASSUME NEW a, NEW f \in a.functions, NEW m
  PROVE  /\ m \in f.outs => <<Fn(a, f), Msg(m)>> \in StateGraph(a).edge
         /\ m \in f.ins => <<Msg(m), Fn(a, f)>> \in StateGraph(a).edge
  BY DEF StateGraph

\* The invariant implies MessagesOrdered.
LEMMA MessagesFromInv == GenerationInv => MessagesOrdered
  <1>1. SUFFICES ASSUME GenerationInv, step = "registered" PROVE MessagesOrdered
    BY DEF MessagesOrdered
  <1>2. PICK after : after = [t \in tasks |-> After(Registered, t)]
    OBVIOUS
  <1>3. FiniteGraph(Registered) /\ Registered.node = tasks
    BY <1>1, RegisteredOrder
  <1>4. \A x, y : y \in After(Registered, x) => y \in after[x]
    <2>1. SUFFICES ASSUME NEW x, NEW y \in After(Registered, x) PROVE y \in after[x]
      OBVIOUS
    <2>2. x \in tasks
      BY <1>3, AfterOfNode
    <2>. QED
      BY <1>2, <2>2
  <1>5. ASSUME NEW i \in DOMAIN model, NEW f \in model[i].functions, NEW m
        PROVE  /\ m \in f.outs => Task("xmessage_sync", m, m) \in after[Fn(model[i], f)]
               /\ m \in f.ins => Fn(model[i], f) \in after[Task("xmessage_sync", m, m)]
    <2>1. PICK a, g, E : a = model[i] /\ g = graph[i] /\ E = StateGraph(a).edge
      OBVIOUS
    <2>2. Complete(g, a)
      BY <1>1, <2>1, RegisteredOrder
    <2>3. /\ m \in f.outs => <<Fn(a, f), Msg(m)>> \in E
          /\ m \in f.ins => <<Msg(m), Fn(a, f)>> \in E
      BY <1>5, <2>1, MessageEdges
    <2>4. \A x, y : <<x, y>> \in E => y \in After(Deps(g), x)
      <3>1. SUFFICES ASSUME NEW x, NEW y, <<x, y>> \in E PROVE y \in After(Deps(g), x)
        OBVIOUS
      <3>2. PICK e : e = <<x, y>>
        OBVIOUS
      <3>3. e \in E /\ e[1] = x /\ e[2] = y
        BY <3>1, <3>2
      <3>. QED
        BY <2>1, <2>2, <3>3 DEF Complete, Demands
    <2>5. Type(Fn(a, f)) = "xfunction" /\ Type(Msg(m)) = "xmessage"
      BY TaskTypes
    <2>6. ToSync(Fn(a, f)) = Fn(a, f) /\ ToSync(Msg(m)) = Task("xmessage_sync", m, m)
      BY <2>5 DEF ToSync, Msg, Task
    <2>7. \A x, y : <<x, y>> \in E /\ Type(x) # "start_agent" => ToSync(y) \in After(Registered, ToSync(x))
      BY <1>1, <2>1, <2>4, RegisteredOrder
    <2>. QED
      BY <1>4, <2>1, <2>3, <2>5, <2>6, <2>7
  <1>. QED
    BY <1>1, <1>2, <1>5 DEF MessagesOrdered

\* Posts come before the sync task of their message, reads after it.
THEOREM MessagesAreOrdered == Spec => []MessagesOrdered
  BY GenerationInvariant, MessagesFromInv, PTL

-----------------------------------------------------------------------------
(***************************************************************************)
(* No cycle: the registered tasks keep to the order of the model.          *)
(***************************************************************************)

\* Model, agents' functions, conditions and messages, output, its end, clear tasks.
Rank(t) ==
  CASE Type(t) = "start_model" -> 0
    [] Type(t) \in {"xfunction", "xcondition", "xmessage_sync"} -> 1
    [] Type(t) = "io_pop_write" -> 2
    [] Type(t) = "finish_model" -> 3
    [] OTHER -> 4

\* The vertex of the model a task stands for.
Vertex(t) ==
  CASE Type(t) = "xcondition" -> Task("xstate", t[2], t[3])
    [] Type(t) = "xmessage_sync" -> Task("xmessage", t[2], t[3])
    [] OTHER -> t

\* The order of the registered tasks, in a model whose own order is O.
Below(O, t, s) ==
  \/ Rank(t) < Rank(s)
  \/ Rank(t) = 1 /\ Rank(s) = 1 /\ Vertex(s) \in After(O, Vertex(t))

\* Below is a strict order when the graph of functions and messages has no cycle.
LEMMA BelowStrict ==
  ASSUME NEW O, FiniteGraph(O), ~Cyclic(O)
  PROVE  /\ \A x, y, z : Below(O, x, y) /\ Below(O, y, z) => Below(O, x, z)
         /\ \A x : ~Below(O, x, x)
  <1>1. \A t : Rank(t) \in 0..4
    BY DEF Rank
  <1>2. \A x, y, z : y \in After(O, x) /\ z \in After(O, y) => z \in After(O, x)
    BY AfterTransitive
  <1>3. \A x : x \notin After(O, x)
    BY AfterLeast DEF Cyclic
  <1>4. ASSUME NEW x, NEW y, NEW z, Below(O, x, y), Below(O, y, z) PROVE Below(O, x, z)
    <2>1. Rank(x) \in 0..4 /\ Rank(y) \in 0..4 /\ Rank(z) \in 0..4
      BY <1>1
    <2>2. CASE Rank(x) = 1 /\ Rank(z) = 1
      <3>1. Vertex(y) \in After(O, Vertex(x)) /\ Vertex(z) \in After(O, Vertex(y))
        BY <1>4, <2>1, <2>2 DEF Below
      <3>2. Vertex(z) \in After(O, Vertex(x))
        BY <1>2, <3>1
      <3>. QED
        BY <2>2, <3>2 DEF Below
    <2>3. CASE ~(Rank(x) = 1 /\ Rank(z) = 1)
      BY <1>4, <2>1, <2>3 DEF Below
    <2>. QED
      BY <2>2, <2>3
  <1>5. \A x : ~Below(O, x, x)
    BY <1>1, <1>3 DEF Below
  <1>. QED
    BY <1>4, <1>5

\* A task of the model stands for its vertex again.
LEMMA VertexOfCarrier ==
  ASSUME NEW a, NEW u \in StateGraph(a).node,
         Type(Carrier(a, u)) \in {"xfunction", "xcondition", "xmessage"}
  PROVE  Vertex(ToSync(Carrier(a, u))) = u
  <1>1. Type(u) \in {"xfunction", "xstate", "xmessage"}
    BY StateGraphEdges
  <1>2. CASE Type(u) = "xfunction"
    <2>1. Carrier(a, u) = u
      BY <1>2, Carriers
    <2>. QED
      BY <1>2, <2>1 DEF ToSync, Vertex
  <1>3. CASE Type(u) = "xstate"
    <2>1. u \in Branching(StateGraph(a))
      <3>1. u \notin Branching(StateGraph(a)) => Carrier(a, u) = u
        BY <1>3, Carriers
      <3>. QED
        BY <1>3, <3>1
    <2>2. Carrier(a, u) = Task("xcondition", u[2], u[3])
      BY <2>1 DEF Carrier
    <2>3. PICK s : u = St(a, s)
      BY <1>3, StateGraphEdges
    <2>4. u = Task("xstate", u[2], u[3])
      BY <2>3 DEF St, Task
    <2>. QED
      BY <2>2, <2>4 DEF ToSync, Vertex, Type, Task
  <1>4. CASE Type(u) = "xmessage"
    <2>1. Carrier(a, u) = u
      BY <1>4, Carriers
    <2>2. PICK m : u = Msg(m)
      <3>1. /\ \A f : Type(Fn(a, f)) = "xfunction"
            /\ \A s : Type(St(a, s)) = "xstate"
        BY TaskTypes
      <3>2. \/ \E f \in a.functions : u = Fn(a, f)
            \/ \E s : u = St(a, s)
            \/ \E m : u = Msg(m)
        <4>1. PICK F, S, M : /\ F = {Fn(a, f) : f \in a.functions}
                             /\ S = {St(a, s) : s \in Currents(a) \union Nexts(a)}
                             /\ M = {Msg(m) : m \in UNION {f.outs \union f.ins : f \in a.functions}}
          OBVIOUS
        <4>2. u \in (F \union S) \union M
          BY <4>1, StateGraphFields
        <4>. QED
          BY <4>1, <4>2
      <3>. QED
        BY <1>4, <3>1, <3>2
    <2>. QED
      BY <1>4, <2>1, <2>2 DEF ToSync, Vertex, Type, Task, Msg
  <1>. QED
    BY <1>1, <1>2, <1>3, <1>4

\* The order the model demands is a finite graph with every agent's state graph in it.
LEMMA ModelOrderGraph ==
  ASSUME model \in Models, \A i \in DOMAIN model : AgentOK(model[i])
  PROVE  /\ FiniteGraph(ModelOrder)
         /\ \A i \in DOMAIN model : /\ Whole(StateGraph(model[i])).node \subseteq ModelOrder.node
                                    /\ Whole(StateGraph(model[i])).edge \subseteq ModelOrder.edge
  <1>1. PICK A, N, E : /\ A = Range(model)
                       /\ N = UNION {StateGraph(a).node : a \in A}
                       /\ E = UNION {StateGraph(a).edge \union StateGraph(a).state : a \in A}
    OBVIOUS
  <1>2. ModelOrder = [node |-> N, edge |-> E]
    BY <1>1 DEF ModelOrder
  <1>3. \A a : a \in A <=> \E i \in DOMAIN model : a = model[i]
    BY <1>1 DEF Range
  <1>4. \A a \in A : /\ FiniteGraph(Whole(StateGraph(a))) /\ Whole(StateGraph(a)).node = StateGraph(a).node
                     /\ Whole(StateGraph(a)).edge = StateGraph(a).edge \union StateGraph(a).state
    BY <1>3, StateGraphFinite DEF Whole
  <1>5. IsFiniteSet(A)
    <2>1. A = {model[i] : i \in DOMAIN model}
      BY <1>3
    <2>. QED
      BY <2>1, ModelIndices, FiniteImage
  <1>6. IsFiniteSet(N)
    <2>1. PICK h, T : h = [a \in A |-> StateGraph(a).node] /\ T = {h[a] : a \in A}
      OBVIOUS
    <2>2. IsFiniteSet(T)
      BY <1>5, <2>1, FiniteImage
    <2>3. \A s \in T : IsFiniteSet(s)
      BY <1>4, <2>1 DEF FiniteGraph
    <2>4. IsFiniteSet(UNION T)
      BY <2>2, <2>3, FS_UNION
    <2>5. UNION T = N
      BY <1>1, <2>1
    <2>. QED
      BY <2>4, <2>5
  <1>7. E \subseteq N \X N
    <2>1. SUFFICES ASSUME NEW e \in E PROVE e \in N \X N
      OBVIOUS
    <2>2. PICK a \in A : e \in StateGraph(a).edge \union StateGraph(a).state
      BY <1>1
    <2>3. e \in StateGraph(a).node \X StateGraph(a).node
      BY <1>4, <2>2 DEF FiniteGraph, IsDirectedGraph
    <2>4. StateGraph(a).node \subseteq N
      BY <1>1
    <2>. QED
      BY <2>3, <2>4
  <1>8. FiniteGraph(ModelOrder)
    BY <1>2, <1>6, <1>7 DEF FiniteGraph, IsDirectedGraph
  <1>9. ASSUME NEW i \in DOMAIN model
        PROVE  /\ Whole(StateGraph(model[i])).node \subseteq ModelOrder.node
               /\ Whole(StateGraph(model[i])).edge \subseteq ModelOrder.edge
    <2>1. PICK a \in A : a = model[i]
      BY <1>3
    <2>2. StateGraph(a).node \subseteq N /\ StateGraph(a).edge \union StateGraph(a).state \subseteq E
      BY <1>1
    <2>. QED
      BY <1>2, <1>4, <2>1, <2>2
  <1>. QED
    BY <1>8, <1>9

\* The edges of the imported graph: of an agent, to the end, or from the start.
LEMMA MergedShape ==
  ASSUME NEW m, NEW gs, AllComplete(m, gs), NEW e \in MergedOf(gs).edge
  PROVE  \/ \E i \in DOMAIN m : e \in gs[i].edge /\ Type(e[1]) # "start_agent"
         \/ Type(e[1]) = "io_pop_write" /\ e[2] = Finish
         \/ e[1] = Start /\ Type(e[2]) \in {"xfunction", "xcondition", "xmessage", "io_pop_write"}
  <1>1. PICK I, starts, rest, M :
          /\ I = ImportOf(gs) /\ starts = OfType(I.node, "start_agent")
          /\ rest = RemoveVertices(I, starts)
          /\ M = [rest EXCEPT !.edge = @ \union Bridges(I.edge, starts)]
    OBVIOUS
  <1>2. M = MergedOf(gs)
    BY <1>1 DEF MergedOf
  <1>3. rest = [node |-> I.node \ starts, edge |-> {d \in I.edge : d[1] \notin starts /\ d[2] \notin starts}]
    BY <1>1 DEF RemoveVertices
  <1>4. M.edge = {d \in I.edge : d[1] \notin starts /\ d[2] \notin starts} \union Bridges(I.edge, starts)
    BY <1>1, <1>3
  <1>5. Type(Start) = "start_model" /\ Type(Finish) = "finish_model"
    BY TaskTypes
  <1>6. ASSUME NEW d \in I.edge
        PROVE  \/ \E i \in DOMAIN m : d \in gs[i].edge
               \/ d[1] = Start /\ d[2] \in starts
               \/ Type(d[1]) = "io_pop_write" /\ d[2] = Finish
    <2>1. PICK U, S, O, K : /\ U = UNION {gs[i].edge : i \in DOMAIN gs}
                            /\ K = OfType(NodesOf(gs), "start_agent")
                            /\ S = {<<Start, v>> : v \in K}
                            /\ O = {<<v, Finish>> : v \in OfType(NodesOf(gs), "io_pop_write")}
      OBVIOUS
    <2>2. d \in (U \union S) \union O
      BY <1>1, <2>1 DEF ImportOf
    <2>3. CASE d \in U
      BY <2>1, <2>3 DEF AllComplete
    <2>4. CASE d \in S
      <3>1. PICK v \in K : d = <<Start, v>>
        BY <2>1, <2>4
      <3>2. I.node = NodesOf(gs) \union {Start, Finish}
        BY <1>1 DEF ImportOf
      <3>3. v \in starts
        BY <1>1, <2>1, <3>2 DEF OfType
      <3>. QED
        BY <3>1, <3>3
    <2>5. CASE d \in O
      <3>1. PICK v \in OfType(NodesOf(gs), "io_pop_write") : d = <<v, Finish>>
        BY <2>1, <2>5
      <3>. QED
        BY <3>1 DEF OfType
    <2>. QED
      BY <2>2, <2>3, <2>4, <2>5
  <1>7. /\ \A t \in starts : Type(t) = "start_agent"
        /\ \A i \in DOMAIN m : AgentOK(m[i]) /\ Complete(gs[i], m[i])
    BY <1>1 DEF OfType, AllComplete
  <1>8. \A i \in DOMAIN m : \A d \in gs[i].edge :
          /\ d[1] \in gs[i].node /\ Type(d[2]) # "start_agent"
          /\ Type(d[2]) \in {"xfunction", "xcondition", "xmessage", "start_agent", "io_pop_write"}
    BY <1>7, CompleteTypes
  <1>9. CASE e \in I.edge /\ e[1] \notin starts /\ e[2] \notin starts
    <2>1. ASSUME NEW i \in DOMAIN m, e \in gs[i].edge PROVE Type(e[1]) # "start_agent"
      <3>1. e[1] \in gs[i].node /\ i \in DOMAIN gs
        BY <1>8, <2>1 DEF AllComplete
      <3>2. e[1] \in I.node
        BY <1>1, <3>1 DEF ImportOf, NodesOf
      <3>. QED
        BY <1>1, <1>9, <3>2 DEF OfType
    <2>. QED
      BY <1>6, <1>9, <2>1
  <1>10. CASE e \in Bridges(I.edge, starts)
    <2>1. PICK p \in I.edge \X I.edge : p[1][2] \in starts /\ p[1][2] = p[2][1] /\ e = <<p[1][1], p[2][2]>>
      BY <1>10 DEF Bridges
    <2>2. p[1] \in I.edge /\ p[2] \in I.edge
      OBVIOUS
    <2>3. PICK x, y : x = p[1] /\ y = p[2]
      OBVIOUS
    <2>4. x \in I.edge /\ y \in I.edge /\ Type(x[2]) = "start_agent" /\ Type(y[1]) = "start_agent"
          /\ e[1] = x[1] /\ e[2] = y[2]
      BY <1>7, <2>1, <2>2, <2>3
    <2>5. x[1] = Start
      BY <1>5, <1>6, <1>8, <2>4
    <2>6. PICK i \in DOMAIN m : y \in gs[i].edge
      BY <1>5, <1>6, <2>4
    <2>. QED
      BY <1>8, <2>4, <2>5, <2>6
  <1>. QED
    BY <1>2, <1>4, <1>9, <1>10

\* Every registered dependency leads upwards in the order.
LEMMA FinalBelow ==
  ASSUME model \in Models, AllComplete(model, graph), NEW e \in FinalOf(graph).edge
  PROVE  Below(ModelOrder, e[1], e[2])
  <1>1. PICK O, G, H : O = ModelOrder /\ G = MergedOf(graph) /\ H = WithSync(G)
    OBVIOUS
  <1>2. \A i \in DOMAIN model : AgentOK(model[i]) /\ Complete(graph[i], model[i])
    BY DEF AllComplete
  <1>3. /\ FiniteGraph(O)
        /\ \A i \in DOMAIN model : /\ Whole(StateGraph(model[i])).node \subseteq O.node
                                   /\ Whole(StateGraph(model[i])).edge \subseteq O.edge
    BY <1>1, <1>2, ModelOrderGraph
  <1>4. Type(Start) = "start_model" /\ Type(Finish) = "finish_model"
    BY TaskTypes
  <1>5. \A t : /\ Type(t) # "xmessage" => ToSync(t) = t
               /\ Type(t) = "xmessage" => Type(ToSync(t)) = "xmessage_sync"
    BY TaskTypes DEF ToSync
  <1>6. ASSUME NEW d \in G.edge PROVE Below(O, ToSync(d[1]), ToSync(d[2]))
    <2>1. CASE \E i \in DOMAIN model : d \in graph[i].edge /\ Type(d[1]) # "start_agent"
      <3>1. PICK i \in DOMAIN model : d \in graph[i].edge /\ Type(d[1]) # "start_agent"
        BY <2>1
      <3>2. PICK a, g : a = model[i] /\ g = graph[i]
        OBVIOUS
      <3>3. AgentOK(a) /\ Complete(g, a) /\ d \in g.edge
        BY <1>2, <3>1, <3>2
      <3>4. /\ d[1] \in g.node /\ d[2] \in g.node
            /\ Type(d[1]) \in {"xfunction", "xcondition", "xmessage"}
            /\ Type(d[2]) \in {"xfunction", "xcondition", "xmessage", "io_pop_write"}
        BY <3>1, <3>3, CompleteTypes
      <3>5. Ord(a, d[1], d[2])
        BY <3>3 DEF Complete
      <3>6. Rank(ToSync(d[1])) = 1
        BY <1>5, <3>4 DEF Rank
      <3>7. CASE Type(d[2]) = "io_pop_write"
        <4>1. Rank(ToSync(d[2])) = 2
          BY <1>5, <3>7 DEF Rank
        <4>. QED
          BY <3>6, <4>1 DEF Below
      <3>8. CASE Type(d[2]) # "io_pop_write"
        <4>1. Rank(ToSync(d[2])) = 1
          BY <1>5, <3>4, <3>8 DEF Rank
        <4>2. <<d[1], d[2]>> \in Behind(a)
          <5>1. Type(StartOf(a)) = "start_agent"
            BY TaskTypes
          <5>. QED
            BY <3>4, <3>5, <3>8, <5>1 DEF Ord, IsSink
        <4>3. PICK u \in StateGraph(a).node, v \in StateGraph(a).node :
                d[1] = Carrier(a, u) /\ d[2] = Carrier(a, v) /\ v \in After(Whole(StateGraph(a)), u)
          BY <4>2, BehindMember
        <4>4. Vertex(ToSync(d[1])) = u
          BY <3>4, <4>3, VertexOfCarrier
        <4>5. Vertex(ToSync(d[2])) = v
          BY <3>4, <3>8, <4>3, VertexOfCarrier
        <4>6. v \in After(O, u)
          <5>1. FiniteGraph(Whole(StateGraph(a)))
            BY <3>3, StateGraphFinite
          <5>2. After(Whole(StateGraph(a)), u) \subseteq After(O, u)
            BY <1>3, <3>1, <3>2, <5>1, AfterMonotone
          <5>. QED
            BY <4>3, <5>2
        <4>. QED
          BY <3>6, <4>1, <4>4, <4>5, <4>6 DEF Below
      <3>. QED
        BY <3>7, <3>8
    <2>2. CASE Type(d[1]) = "io_pop_write" /\ d[2] = Finish
      <3>1. Rank(ToSync(d[1])) = 2 /\ Rank(ToSync(d[2])) = 3
        BY <1>4, <1>5, <2>2 DEF Rank
      <3>. QED
        BY <3>1 DEF Below
    <2>3. CASE d[1] = Start /\ Type(d[2]) \in {"xfunction", "xcondition", "xmessage", "io_pop_write"}
      <3>1. Rank(ToSync(d[1])) = 0
        BY <1>4, <1>5, <2>3 DEF Rank
      <3>2. Rank(ToSync(d[2])) \in {1, 2}
        BY <1>5, <2>3 DEF Rank
      <3>. QED
        BY <3>1, <3>2 DEF Below
    <2>. QED
      BY <1>1, <2>1, <2>2, <2>3, MergedShape
  <1>7. PICK M : M = UNION {{<<v, Task("xmessage_clear", s[2], s[3])>> : v \in Successors(H, s)} :
                               s \in OfType(H.node, "xmessage_sync")}
    OBVIOUS
  <1>8. FinalOf(graph).edge = H.edge \union M /\ H.edge = {<<ToSync(d[1]), ToSync(d[2])>> : d \in G.edge}
    BY <1>1, <1>7 DEF FinalOf, WithClear, WithSync
  <1>9. CASE e \in H.edge
    <2>1. PICK d \in G.edge : e = <<ToSync(d[1]), ToSync(d[2])>>
      BY <1>8, <1>9
    <2>2. e[1] = ToSync(d[1]) /\ e[2] = ToSync(d[2])
      BY <2>1
    <2>. QED
      BY <1>1, <1>6, <2>2
  <1>10. CASE e \in M
    <2>1. PICK s \in OfType(H.node, "xmessage_sync") :
            e \in {<<v, Task("xmessage_clear", s[2], s[3])>> : v \in Successors(H, s)}
      BY <1>7, <1>10
    <2>2. PICK v \in Successors(H, s) : e = <<v, Task("xmessage_clear", s[2], s[3])>>
      BY <2>1
    <2>3. <<s, v>> \in H.edge
      BY <2>2 DEF Successors
    <2>4. PICK d \in G.edge : <<s, v>> = <<ToSync(d[1]), ToSync(d[2])>>
      BY <1>8, <2>3
    <2>5. v = ToSync(d[2])
      BY <2>4
    <2>6. Rank(v) \in {0, 1, 2, 3}
      <3>1. CASE \E i \in DOMAIN model : d \in graph[i].edge
        <4>1. PICK i \in DOMAIN model : d \in graph[i].edge
          BY <3>1
        <4>2. Type(d[2]) \in {"xfunction", "xcondition", "xmessage", "io_pop_write"}
          BY <1>2, <4>1, CompleteTypes
        <4>. QED
          BY <1>5, <2>5, <4>2 DEF Rank
      <3>2. CASE d[2] = Finish
        BY <1>4, <1>5, <2>5, <3>2 DEF Rank
      <3>3. CASE Type(d[2]) \in {"xfunction", "xcondition", "xmessage", "io_pop_write"}
        BY <1>5, <2>5, <3>3 DEF Rank
      <3>. QED
        BY <1>1, <3>1, <3>2, <3>3, MergedShape
    <2>7. Rank(Task("xmessage_clear", s[2], s[3])) = 4
      <3>1. Type(Task("xmessage_clear", s[2], s[3])) = "xmessage_clear"
        BY TaskTypes
      <3>. QED
        BY <3>1 DEF Rank
    <2>8. e[1] = v /\ e[2] = Task("xmessage_clear", s[2], s[3])
      BY <2>2
    <2>. QED
      BY <2>6, <2>7, <2>8 DEF Below
  <1>. QED
    BY <1>8, <1>9, <1>10

\* The invariant implies NoCycleIntroduced: every dependency goes up in Below.
LEMMA NoCycleFromInv == GenerationInv => NoCycleIntroduced
  <1>1. SUFFICES ASSUME GenerationInv, step = "registered", ~Cyclic(ModelOrder) PROVE ~Cyclic(Registered)
    BY DEF NoCycleIntroduced
  <1>2. PICK R, O : R = Registered /\ O = ModelOrder
    OBVIOUS
  <1>3. /\ FiniteGraph(R) /\ R.edge = FinalOf(graph).edge /\ AllComplete(model, graph)
        /\ model \in Models /\ \A i \in DOMAIN model : AgentOK(model[i])
    BY <1>1, <1>2, RegisteredOrder DEF GenerationInv
  <1>4. FiniteGraph(O) /\ ~Cyclic(O)
    BY <1>1, <1>2, <1>3, ModelOrderGraph
  <1>5. PICK L : L = {p \in R.node \X R.node : Below(O, p[1], p[2])}
    OBVIOUS
  <1>6. \A e \in R.edge : Below(O, e[1], e[2])
    BY <1>2, <1>3, FinalBelow
  <1>7. R.edge \subseteq L
    BY <1>3, <1>5, <1>6 DEF FiniteGraph, IsDirectedGraph
  <1>8. \A x, y \in R.node : <<x, y>> \in L <=> Below(O, x, y)
    BY <1>5
  <1>9. \A x, y, z \in R.node : <<x, y>> \in L /\ <<y, z>> \in L => <<x, z>> \in L
    BY <1>4, <1>8, BelowStrict
  <1>10. \A x \in R.node : <<x, x>> \notin L
    BY <1>4, <1>8, BelowStrict
  <1>. QED
    BY <1>2, <1>3, <1>7, <1>9, <1>10, AcyclicWithin

\* A model without a cycle of functions and messages gives tasks without a cycle.
THEOREM CyclesNotIntroduced == Spec => []NoCycleIntroduced
  BY GenerationInvariant, NoCycleFromInv, PTL

=============================================================================
