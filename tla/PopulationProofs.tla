-------------------------- MODULE PopulationProofs --------------------------
(***************************************************************************)
(* What agents keep from file to file, for any agent types, files and      *)
(* splits: the population read is the one in the file, an iteration applies*)
(* each function once to each agent, all agents are written, and what is   *)
(* written can be read.                                                    *)
(*                                                                         *)
(* While a file is read the argument follows the texts that have been      *)
(* taken from it (Taken); while an iteration runs, the rows its tasks have *)
(* passed (Passed).                                                        *)
(***************************************************************************)
EXTENDS Population, TaskGraphProofs

Types == DOMAIN Agents
Names(a) == Range(NamesOf(a))

\* Memory with a vector for each variable of each type.
IsMemory(m) ==
  /\ m = [a \in Types |-> m[a]]
  /\ \A a \in Types : m[a] \in [Names(a) -> Seq(Value)]

\* The vectors of a type have the same size.
Even(m) == \A a \in Types : \A v, w \in Names(a) : Len(m[a][v]) = Len(m[a][w])

Job == [agent : Types, split : BOOLEAN, offset : Nat, count : Nat, pos : Nat \union {-1}]

TypeInv ==
  /\ phase \in {"idle", "reading", "ready", "running", "threw"}
  /\ file \in Seq(AgentEntry)
  /\ node \in (Nat \ {0}) \X (Nat \ {0})
  /\ IsMemory(memory) /\ IsMemory(before)
  /\ iteration \in Nat /\ sims \in Nat
  /\ output.agents \in Seq(AgentEntry)
  /\ jobs \in Seq(Job)

\* A text as writeXMLTag() writes it.
AsPrinted(t) == t.kind = IF t.val = NonFinite THEN "inf" ELSE "number"

\* A file in which every agent has the variables of its type, with texts as they are printed.
AsWritten(f) ==
  \A i \in 1..Len(f) :
    /\ f[i].name \in Types
    /\ [j \in DOMAIN f[i].texts |-> f[i].texts[j].var] = NamesOf(f[i].name)
    /\ \A j \in DOMAIN f[i].texts : AsPrinted(f[i].texts[j].text)

\* What later simulations read is what this module wrote.
FileInv ==
  /\ phase \in {"reading", "ready", "running"} => DataSchema(file)
  /\ phase \in {"ready", "running"} => agentVarMap = SaveAgentVariableData
  /\ AsWritten(output.agents)
  /\ phase = "idle" => sims = 0
  /\ sims > 1 => AsWritten(file)
  /\ sims > 1 /\ phase = "threw" /\ iteration = 0 => ~Finite(file)

\* The text for variable v of agent k of file f has been taken, with the reader at n.
Taken(f, n, k, v) ==
  \/ k < n[1]
  \/ k = n[1] /\ \E j \in 1..Len(f[k].texts) : j < n[2] /\ f[k].texts[j].var = v

TakenOf(f, n, a, v) == {k \in 1..Len(f) : f[k].name = a /\ Taken(f, n, k, v)}

\* Every vector holds the values taken so far, in the order of the file.
ReadInv ==
  /\ phase = "reading" => iteration = 0
  /\ phase = "ready" /\ iteration = 0 => node[1] > Len(file)
  /\ (phase = "reading" \/ (phase = "ready" /\ iteration = 0)) /\ OwnVariables(file) =>
       \A a \in Types : \A v \in Names(a) :
         /\ Len(memory[a][v]) = Cardinality(TakenOf(file, node, a, v))
         /\ \A k \in TakenOf(file, node, a, v) : memory[a][v][Count(file, a, k)] = ValueIn(file[k], v)

\* Population sizes.
SizeOf == [a \in Types |-> FirstSize(a)]

\* The rows a task is to pass, and those it has passed.
RowsOf(j, size) == IF j.split THEN (j.offset + 1)..(j.offset + j.count) ELSE 1..size[j.agent]
Passed(j, row) == j.offset < row /\ row <= j.offset + j.pos

\* A task has its rows before it, and no other task has them.
JobsOK(js, size) ==
  /\ \A i \in 1..Len(js) :
       /\ js[i].split => js[i].offset + js[i].count <= size[js[i].agent]
       /\ ~js[i].split => js[i].offset = 0
       /\ ~js[i].split /\ js[i].pos # -1 => js[i].count = size[js[i].agent]
       /\ js[i].pos <= js[i].count
  /\ \A i, k \in 1..Len(js) :
       i # k /\ js[i].agent = js[k].agent => RowsOf(js[i], size) \intersect RowsOf(js[k], size) = {}
  /\ \A a \in Types : \A row \in 1..size[a] :
       \E i \in 1..Len(js) : js[i].agent = a /\ row \in RowsOf(js[i], size)

\* Some task of the type has passed the row.
RowDone(js, a, row) == \E i \in 1..Len(js) : js[i].agent = a /\ Passed(js[i], row)

\* A row holds what it held before the iteration until its task has passed it.
RowInv ==
  \A a \in Types : \A v \in Names(a) :
    /\ Len(memory[a][v]) = Len(before[a][v])
    /\ \A row \in 1..Len(memory[a][v]) :
         memory[a][v][row] = IF v \in Writes[a] /\ RowDone(jobs, a, row)
                                 THEN Computed(TypeOf(a, v), before[a][v][row]) ELSE before[a][v][row]

RunInv ==
  /\ phase = "running" => iteration > 0
  /\ phase \in {"ready", "running"} /\ OwnVariables(file) => Even(memory)
  /\ phase = "running" /\ OwnVariables(file) => JobsOK(jobs, SizeOf) /\ RowInv

IInv ==
  /\ TypeInv /\ FileInv /\ ReadInv /\ RunInv
  /\ EachAgentOnce /\ AllWritten

-----------------------------------------------------------------------------
(***************************************************************************)
(* Variables and vectors.                                                  *)
(***************************************************************************)

\* The variables of a type: a sequence of different names, not empty.
LEMMA NameFacts ==
  ASSUME NEW a \in Types
  PROVE  /\ NamesOf(a) \in Seq(Nat) /\ Len(NamesOf(a)) \in Nat \ {0}
         /\ DOMAIN NamesOf(a) = 1..Len(NamesOf(a))
         /\ \A i, j \in 1..Len(NamesOf(a)) : NamesOf(a)[i] = NamesOf(a)[j] => i = j
         /\ Names(a) = {NamesOf(a)[i] : i \in 1..Len(NamesOf(a))}
         /\ Names(a) \subseteq Nat /\ Names(a) # {}
         /\ Writes[a] \subseteq Names(a)
  <1>1. PICK s : s = Agents[a]
    OBVIOUS
  <1>2. PICK X : X = [name : Nat, type : {"int", "double"}]
    OBVIOUS
  <1>3. /\ s \in Seq(X) /\ s # <<>>
        /\ \A i, j \in DOMAIN s : s[i].name = s[j].name => i = j
        /\ Writes[a] \subseteq {s[i].name : i \in DOMAIN s}
    BY <1>1, <1>2, PopulationAssumption DEF Types
  <1>4. DOMAIN s = 1..Len(s) /\ Len(s) \in Nat /\ \A i \in 1..Len(s) : s[i] \in X
    BY <1>3
  <1>5. Len(s) # 0
    BY <1>3, EmptySeq
  <1>6. \A i \in 1..Len(s) : s[i].name \in Nat
    BY <1>2, <1>4
  <1>7. PICK n : n = NamesOf(a)
    OBVIOUS
  <1>8. n = [i \in 1..Len(s) |-> s[i].name]
    BY <1>1, <1>4, <1>7 DEF NamesOf
  <1>9. n \in Seq(Nat) /\ Len(n) = Len(s) /\ DOMAIN n = 1..Len(n)
    BY <1>4, <1>6, <1>8
  <1>10. \A i \in 1..Len(n) : n[i] = s[i].name /\ n[i] \in Nat
    BY <1>6, <1>8, <1>9
  <1>11. Range(n) = {n[i] : i \in 1..Len(n)}
    BY <1>9 DEF Range
  <1>12. \A i, j \in 1..Len(n) : n[i] = n[j] => i = j
    BY <1>3, <1>4, <1>9, <1>10
  <1>13. Range(n) \subseteq Nat /\ Range(n) # {}
    <2>1. 1 \in 1..Len(n)
      BY <1>4, <1>5, <1>9
    <2>. QED
      BY <1>10, <1>11, <2>1
  <1>14. {s[i].name : i \in DOMAIN s} \subseteq Range(n)
    BY <1>4, <1>9, <1>10, <1>11
  <1>15. Writes[a] \subseteq Range(n)
    BY <1>3, <1>14
  <1>16. Len(n) \in Nat \ {0}
    BY <1>4, <1>5, <1>9
  <1>. QED
    BY <1>7, <1>9, <1>11, <1>12, <1>13, <1>15, <1>16 DEF Names

\* GetPopulationSize() looks at the vector of a variable of the type.
LEMMA FirstName ==
  ASSUME NEW a \in Types
  PROVE  Min(Names(a)) \in Names(a)
  <1>1. PICK S : S = Names(a)
    OBVIOUS
  <1>2. S \in SUBSET Nat /\ S # {}
    BY <1>1, NameFacts
  <1>3. \E n \in S : \A m \in S : n =< m
    BY <1>2, LeastNumber
  <1>4. Min(S) \in S
    BY <1>3 DEF Min
  <1>. QED
    BY <1>1, <1>4

\* In even memory every vector has the population size.
LEMMA EvenSize ==
  ASSUME Even(memory), IsMemory(memory), NEW a \in Types, NEW v \in Names(a)
  PROVE  Len(memory[a][v]) = FirstSize(a)
  BY FirstName DEF Even, FirstSize, Names

\* The population size is a number.
LEMMA SizeNat ==
  ASSUME IsMemory(memory), NEW a \in Types
  PROVE  FirstSize(a) \in Nat
  <1>1. PICK v : v = Min(Names(a))
    OBVIOUS
  <1>2. v \in Names(a) /\ FirstSize(a) = Len(memory[a][v])
    BY <1>1, FirstName DEF FirstSize, Names
  <1>3. memory[a][v] \in Seq(Value)
    BY <1>2 DEF IsMemory
  <1>. QED
    BY <1>2, <1>3

\* Values of vectors stay whole numbers of their unit, or are not finite; what is written
\* says which.
LEMMA Values ==
  /\ \A t : \A x \in Value : Computed(t, x) \in Value
  /\ \A t : \A x \in Value : Written(t, x) \in TextOf /\ AsPrinted(Written(t, x))
  <1>1. ASSUME NEW t, NEW x \in Value PROVE Computed(t, x) \in Value
    BY DEF Computed, Delta, Value
  <1>2. ASSUME NEW t, NEW x \in Value PROVE Written(t, x) \in TextOf /\ AsPrinted(Written(t, x))
    <2>1. CASE x = NonFinite
      BY <2>1 DEF Written, TextOf, AsPrinted
    <2>2. CASE x # NonFinite
      <3>1. x \in Int
        BY <2>2 DEF Value
      <3>2. PICK y \in Int : y = IF t = "int" THEN x ELSE ((x + 5) \div 10) * 10
        BY <3>1
      <3>3. Written(t, x) = [kind |-> "number", val |-> y]
        BY <2>2, <3>2 DEF Written, Text
      <3>4. y # NonFinite
        BY PopulationAssumption
      <3>. QED
        BY <3>3, <3>4 DEF TextOf, AsPrinted
    <2>. QED
      BY <2>1, <2>2
  <1>. QED
    BY <1>1, <1>2

\* push_back() of one value on one vector.
Pushed(m, n, a, w, x) == n = [m EXCEPT ![a][w] = Append(@, x)]

\* push_back() makes one vector longer and leaves the others.
LEMMA PushedVector ==
  ASSUME NEW m, IsMemory(m), NEW a \in Types, NEW w \in Names(a), NEW x \in Value,
         NEW n, Pushed(m, n, a, w, x)
  PROVE  /\ n[a][w] = Append(m[a][w], x)
         /\ \A b \in Types : \A v \in Names(b) : ~(b = a /\ v = w) => n[b][v] = m[b][v]
         /\ IsMemory(n)
  <1>1. /\ \A b \in Types : m[b] \in [Names(b) -> Seq(Value)]
        /\ DOMAIN m = Types
    BY DEF IsMemory
  <1>2. PICK y : y = Append(m[a][w], x)
    OBVIOUS
  <1>3. y \in Seq(Value)
    BY <1>1, <1>2
  <1>4. n = [b \in Types |-> IF b = a THEN [m[a] EXCEPT ![w] = y] ELSE m[b]]
    BY <1>1, <1>2 DEF Pushed
  <1>5. n[a] = [m[a] EXCEPT ![w] = y] /\ \A b \in Types : b # a => n[b] = m[b]
    BY <1>4
  <1>6. n[a][w] = y /\ \A v \in Names(a) : v # w => n[a][v] = m[a][v]
    BY <1>1, <1>5
  <1>7. n[a] \in [Names(a) -> Seq(Value)]
    BY <1>1, <1>3, <1>5
  <1>8. n = [b \in Types |-> n[b]]
    BY <1>4
  <1>9. IsMemory(n)
    BY <1>1, <1>5, <1>7, <1>8 DEF IsMemory
  <1>. QED
    BY <1>2, <1>5, <1>6, <1>9

\* The empty memory after registration.
LEMMA EmptyIsMemory == IsMemory(EmptyMemory) /\ \A a \in Types : \A v \in Names(a) : EmptyMemory[a][v] = <<>>
  BY DEF IsMemory, EmptyMemory, Types, Names

-----------------------------------------------------------------------------
(***************************************************************************)
(* Reading.                                                                *)
(***************************************************************************)

\* Without an iteration that has ended, nothing is claimed of its end.
LEMMA NotEnded ==
  ASSUME phase' # "ready" \/ iteration' = 0
  PROVE  EachAgentOnce' /\ AllWritten'
  BY DEF EachAgentOnce, AllWritten

\* A file that was written passes the schema when its values are finite, and only then.
LEMMA WrittenPasses ==
  ASSUME NEW f \in Seq(AgentEntry), AsWritten(f)
  PROVE  DataSchema(f) <=> Finite(f)
  <1>1. DOMAIN f = 1..Len(f)
    OBVIOUS
  <1>2. ASSUME Finite(f), NEW i \in 1..Len(f) PROVE SchemaNameType(f[i]) /\ SchemaVarChoice(f[i])
    <2>1. PICK e : e = f[i]
      OBVIOUS
    <2>2. /\ e.name \in Types
          /\ [j \in DOMAIN e.texts |-> e.texts[j].var] = NamesOf(e.name)
          /\ \A j \in DOMAIN e.texts : e.texts[j].text.kind = "number"
      BY <1>1, <1>2, <2>1 DEF AsWritten, AsPrinted, Finite
    <2>3. SchemaVars(e, e.name)
      BY <2>2 DEF SchemaVars, SchemaFits
    <2>4. SchemaNameType(e) /\ SchemaVarChoice(e)
      BY <2>2, <2>3, Zenon DEF SchemaNameType, SchemaVarChoice, Types
    <2>. QED
      BY <2>1, <2>4
  <1>3. ASSUME DataSchema(f), NEW i \in 1..Len(f), NEW j \in DOMAIN f[i].texts
        PROVE  f[i].texts[j].text.val # NonFinite
    <2>1. PICK e, t : e = f[i] /\ t = e.texts[j].text
      OBVIOUS
    <2>2. PICK a \in Types : SchemaVars(e, a)
      BY <1>1, <1>3, <2>1 DEF DataSchema, SchemaVarChoice, Types
    <2>3. SchemaFits(t, VariablesOf(a)[j].type)
      BY <1>3, <2>1, <2>2 DEF SchemaVars
    <2>4. t.kind # "inf"
      BY <2>3 DEF SchemaFits
    <2>5. AsPrinted(t)
      BY <1>3, <2>1 DEF AsWritten
    <2>. QED
      BY <2>1, <2>4, <2>5 DEF AsPrinted
  <1>4. Finite(f) => DataSchema(f)
    BY <1>1, <1>2, Zenon DEF DataSchema
  <1>5. DataSchema(f) => Finite(f)
    BY <1>1, <1>3, Zenon DEF Finite
  <1>. QED
    BY <1>4, <1>5

\* At the start no memory, task or output is there.
LEMMA InitInv ==
  ASSUME Init PROVE IInv
  <1>1. IsMemory(memory) /\ IsMemory(before)
    BY EmptyIsMemory DEF Init
  <1>2. output.agents = <<>> /\ <<>> \in Seq(AgentEntry) /\ <<>> \in Seq(Job) /\ Len(<<>>) = 0
    BY DEF Init, NoOutput
  <1>3. TypeInv
    BY <1>1, <1>2 DEF Init, TypeInv
  <1>4. FileInv
    <2>1. AsWritten(output.agents)
      BY <1>2 DEF AsWritten
    <2>. QED
      BY <2>1 DEF Init, FileInv
  <1>5. ReadInv /\ RunInv /\ EachAgentOnce /\ AllWritten
    BY DEF Init, ReadInv, RunInv, EachAgentOnce, AllWritten
  <1>. QED
    BY <1>3, <1>4, <1>5 DEF IInv

\* The constructor of Simulation leaves empty vectors and an unread file.
LEMMA NewSimulationStep ==
  ASSUME IInv, NewSimulation PROVE IInv'
  <1>1. TypeInv /\ FileInv
    BY DEF IInv
  <1>2. file' \in Seq(AgentEntry)
    BY <1>1, PopulationAssumption DEF NewSimulation, TypeInv
  <1>3. /\ memory' = EmptyMemory /\ node' = <<1, 1>> /\ sims' = sims + 1 /\ iteration' = 0
        /\ jobs' = <<>> /\ UNCHANGED <<agentVarMap, before, output>>
        /\ phase' = IF DataSchema(file') THEN "reading" ELSE "threw"
    BY DEF NewSimulation, ValidateData
  <1>4. TypeInv'
    <2>1. IsMemory(memory') /\ IsMemory(before')
      BY <1>1, <1>3, EmptyIsMemory DEF TypeInv
    <2>2. <<>> \in Seq(Job)
      OBVIOUS
    <2>3. iteration' \in Nat /\ sims' \in Nat /\ node' \in (Nat \ {0}) \X (Nat \ {0})
      BY <1>1, <1>3 DEF TypeInv
    <2>4. phase' \in {"idle", "reading", "ready", "running", "threw"}
      BY <1>3
    <2>. QED
      BY <1>1, <1>2, <1>3, <2>1, <2>2, <2>3, <2>4 DEF TypeInv, IsMemory
  <1>5. FileInv'
    <2>1. sims' > 1 => AsWritten(file') /\ (phase' = "threw" => ~Finite(file'))
      <3> SUFFICES ASSUME sims' > 1 PROVE AsWritten(file') /\ (phase' = "threw" => ~Finite(file'))
        OBVIOUS
      <3>1. sims # 0
        BY <1>1, <1>3 DEF TypeInv
      <3>2. file' = output.agents
        BY <3>1 DEF NewSimulation
      <3>3. AsWritten(file')
        BY <1>1, <3>2 DEF FileInv
      <3>. QED
        BY <1>2, <1>3, <3>3, WrittenPasses
    <2>2. phase' = "reading" => DataSchema(file')
      BY <1>3
    <2>3. AsWritten(output'.agents)
      BY <1>1, <1>3 DEF FileInv
    <2>4. phase' # "idle" /\ phase' # "ready" /\ phase' # "running"
      BY <1>3
    <2>. QED
      BY <2>1, <2>2, <2>3, <2>4 DEF FileInv, AsWritten, DataSchema, Finite
  <1>6. ReadInv'
    <2>1. ASSUME NEW a \in Types, NEW v \in Names(a) PROVE TakenOf(file', node', a, v) = {}
      <3>1. ASSUME NEW k \in 1..Len(file') PROVE ~Taken(file', node', k, v)
        <4>1. node'[1] = 1 /\ node'[2] = 1
          BY <1>3
        <4>2. ~(k < 1) /\ \A j \in 1..Len(file'[k].texts) : ~(j < 1)
          OBVIOUS
        <4>. QED
          BY <4>1, <4>2 DEF Taken
      <3>. QED
        BY <3>1 DEF TakenOf
    <2>2. \A a \in Types : \A v \in Names(a) : Len(memory'[a][v]) = 0
      BY <1>3, EmptyIsMemory
    <2>3. Cardinality({}) = 0
      BY FS_EmptySet
    <2>4. phase' # "ready"
      BY <1>3
    <2>. QED
      BY <1>3, <2>1, <2>2, <2>3, <2>4 DEF ReadInv
  <1>7. RunInv'
    BY <1>3 DEF RunInv
  <1>. QED
    BY <1>3, <1>4, <1>5, <1>6, <1>7, NotEnded DEF IInv

\* The agent at hand: its type is one of the model, and its texts are a sequence.
LEMMA EntryFacts ==
  ASSUME TypeInv, DataSchema(file), NEW k \in 1..Len(file)
  PROVE  /\ file[k].name \in Types
         /\ Len(file[k].texts) \in Nat /\ DOMAIN file[k].texts = 1..Len(file[k].texts)
         /\ \A j \in 1..Len(file[k].texts) :
              file[k].texts[j].var \in Nat /\ file[k].texts[j].text.val \in Value
  <1>1. PICK T : T = [var : Nat, text : TextOf]
    OBVIOUS
  <1>2. file[k] \in [name : STRING, texts : Seq(T)]
    <2>1. PICK E : E = AgentEntry
      OBVIOUS
    <2>2. file[k] \in E
      BY <2>1 DEF TypeInv
    <2>. QED
      BY <1>1, <2>1, <2>2 DEF AgentEntry
  <1>3. PICK s : s = file[k].texts
    OBVIOUS
  <1>4. s \in Seq(T)
    BY <1>2, <1>3
  <1>5. Len(s) \in Nat /\ DOMAIN s = 1..Len(s) /\ \A j \in 1..Len(s) : s[j] \in T
    BY <1>4
  <1>6. \A x \in T : x.var \in Nat /\ x.text \in TextOf
    BY <1>1
  <1>7. \A x \in TextOf : x.val \in Value
    BY DEF TextOf, Value
  <1>8. DOMAIN file = 1..Len(file)
    BY DEF TypeInv
  <1>9. file[k].name \in Types
    BY <1>8 DEF DataSchema, SchemaNameType, Types
  <1>. QED
    BY <1>3, <1>5, <1>6, <1>7, <1>9

\* In an agent with the variables of its type, text j is for variable j, and the value
\* for a variable is that of its one text.
LEMMA OwnTexts ==
  ASSUME TypeInv, DataSchema(file), NEW k \in 1..Len(file),
         [j \in DOMAIN file[k].texts |-> file[k].texts[j].var] = NamesOf(file[k].name)
  PROVE  /\ Len(file[k].texts) = Len(NamesOf(file[k].name))
         /\ \A j \in 1..Len(file[k].texts) :
              /\ file[k].texts[j].var = NamesOf(file[k].name)[j]
              /\ file[k].texts[j].var \in Names(file[k].name)
              /\ ValueIn(file[k], file[k].texts[j].var) = file[k].texts[j].text.val
         /\ \A i, j \in 1..Len(file[k].texts) : file[k].texts[i].var = file[k].texts[j].var => i = j
  <1>1. PICK e, s, a, n : e = file[k] /\ s = e.texts /\ a = e.name /\ n = NamesOf(a)
    OBVIOUS
  <1>2. a \in Types /\ Len(s) \in Nat /\ DOMAIN s = 1..Len(s)
    BY <1>1, EntryFacts
  <1>3. /\ n \in Seq(Nat) /\ Len(n) \in Nat /\ DOMAIN n = 1..Len(n)
        /\ \A i, j \in 1..Len(n) : n[i] = n[j] => i = j
        /\ Names(a) = {n[i] : i \in 1..Len(n)}
    <2>1. /\ NamesOf(a) \in Seq(Nat) /\ DOMAIN NamesOf(a) = 1..Len(NamesOf(a))
          /\ \A i, j \in 1..Len(NamesOf(a)) : NamesOf(a)[i] = NamesOf(a)[j] => i = j
          /\ Names(a) = {NamesOf(a)[i] : i \in 1..Len(NamesOf(a))}
      BY <1>2, NameFacts, Zenon
    <2>. QED
      BY <1>1, <2>1
  <1>4. [j \in 1..Len(s) |-> s[j].var] = n
    BY <1>1, <1>2
  <1>5. 1..Len(s) = 1..Len(n)
    BY <1>3, <1>4
  <1>6. Len(s) = Len(n)
    <2>1. \A p, q \in Nat : 1..p = 1..q => p = q
      <3>1. \A p, q \in Nat : p < q => q \in 1..q /\ q \notin 1..p
        OBVIOUS
      <3>2. \A p, q \in Nat : ~(p < q) /\ ~(q < p) => p = q
        OBVIOUS
      <3>. QED
        BY <3>1, <3>2
    <2>2. Len(s) \in Nat /\ Len(n) \in Nat
      BY <1>2, <1>3
    <2>. QED
      BY <1>5, <2>1, <2>2, Zenon
  <1>7. \A j \in 1..Len(s) : s[j].var = n[j]
    BY <1>4
  <1>8. \A i, j \in 1..Len(s) : s[i].var = s[j].var => i = j
    BY <1>3, <1>6, <1>7
  <1>9. ASSUME NEW j \in 1..Len(s) PROVE ValueIn(e, s[j].var) = s[j].text.val
    <2>1. Range(s) = {s[i] : i \in 1..Len(s)}
      BY <1>2 DEF Range
    <2>2. s[j] \in Range(s) /\ \A t \in Range(s) : t.var = s[j].var => t = s[j]
      BY <1>8, <2>1
    <2>3. (CHOOSE t \in Range(s) : t.var = s[j].var) = s[j]
      BY <2>2
    <2>. QED
      BY <1>1, <2>3 DEF ValueIn
  <1>. QED
    BY <1>1, <1>3, <1>6, <1>7, <1>8, <1>9

\* What the file says of OwnVariables, agent by agent.
LEMMA OwnAgent ==
  ASSUME TypeInv, OwnVariables(file), NEW k \in 1..Len(file)
  PROVE  [j \in DOMAIN file[k].texts |-> file[k].texts[j].var] = NamesOf(file[k].name)
  <1>1. DOMAIN file = 1..Len(file)
    BY DEF TypeInv
  <1>. QED
    BY <1>1 DEF OwnVariables

\* Counting: the agents of a type up to k and those before it.
LEMMA CountFacts ==
  ASSUME NEW f, NEW k \in Nat \ {0}, NEW a, NEW n \in Nat
  PROVE  /\ IsFiniteSet({l \in 1..n : f[l].name = a}) /\ Count(f, a, n) \in Nat
         /\ f[k].name = a => Count(f, a, k) = Count(f, a, k - 1) + 1
         /\ f[k].name # a => Count(f, a, k) = Count(f, a, k - 1)
         /\ Count(f, a, 0) = 0
         /\ k <= n => Count(f, a, k) <= Count(f, a, n)
  <1> DEFINE S(m) == {l \in 1..m : f[l].name = a}
  <1>1. \A m \in Nat : IsFiniteSet(S(m))
    <2>1. \A m \in Nat : IsFiniteSet(1..m)
      BY FS_Interval
    <2>2. \A m \in Nat : S(m) \subseteq 1..m
      OBVIOUS
    <2>. QED
      BY <2>1, <2>2, FS_Subset
  <1>2. \A m \in Nat : Count(f, a, m) = Cardinality(S(m))
    BY DEF Count
  <1>3. \A m \in Nat : Cardinality(S(m)) \in Nat
    BY <1>1, FS_CardinalityType
  <1>4. k - 1 \in Nat /\ 1..k = (1..(k - 1)) \union {k} /\ k \notin 1..(k - 1)
    OBVIOUS
  <1>5. f[k].name = a => S(k) = S(k - 1) \union {k} /\ k \notin S(k - 1)
    BY <1>4
  <1>6. f[k].name # a => S(k) = S(k - 1)
    BY <1>4
  <1>7. S(0) = {}
    OBVIOUS
  <1>8. k <= n => S(k) \subseteq S(n)
    OBVIOUS
  <1> HIDE DEF S
  <1>9. f[k].name = a => Cardinality(S(k)) = Cardinality(S(k - 1)) + 1
    BY <1>1, <1>4, <1>5, FS_AddElement
  <1>10. k <= n => Cardinality(S(k)) <= Cardinality(S(n))
    BY <1>1, <1>8, FS_Subset
  <1>11. Cardinality(S(0)) = 0
    BY <1>7, FS_EmptySet
  <1>12. IsFiniteSet(S(n))
    BY <1>1
  <1>. QED
    BY <1>2, <1>3, <1>4, <1>6, <1>9, <1>10, <1>11, <1>12 DEF S

\* The agents of a type in a part of a file are finitely many.
LEMMA CountedFinite ==
  ASSUME NEW f, NEW a, NEW n \in Nat
  PROVE  IsFiniteSet({l \in 1..n : f[l].name = a})
  <1>1. IsFiniteSet(1..n)
    BY FS_Interval
  <1>2. {l \in 1..n : f[l].name = a} \subseteq 1..n
    OBVIOUS
  <1>. QED
    BY <1>1, <1>2, FS_Subset

\* Agents that are counted up to the one at hand have been counted in the vector.
LEMMA TakenCount ==
  ASSUME TypeInv, NEW a \in Types, NEW v \in Names(a), NEW k \in TakenOf(file, node, a, v)
  PROVE  /\ IsFiniteSet(TakenOf(file, node, a, v)) /\ Cardinality(TakenOf(file, node, a, v)) \in Nat
         /\ Count(file, a, k) \in 1..Cardinality(TakenOf(file, node, a, v))
  <1>1. Len(file) \in Nat /\ node[1] \in Nat
    BY DEF TypeInv
  <1>2. PICK S : S = TakenOf(file, node, a, v)
    OBVIOUS
  <1>3. S \subseteq 1..Len(file) /\ IsFiniteSet(1..Len(file))
    BY <1>1, <1>2, FS_Interval DEF TakenOf
  <1>4. IsFiniteSet(S) /\ Cardinality(S) \in Nat
    BY <1>3, FS_Subset, FS_CardinalityType
  <1>5. k \in 1..Len(file) /\ file[k].name = a /\ Taken(file, node, k, v)
    BY DEF TakenOf
  <1>6. k <= node[1]
    BY <1>1, <1>5 DEF Taken
  <1>7. PICK C : C = {l \in 1..k : file[l].name = a}
    OBVIOUS
  <1>8. C \subseteq S
    <2> SUFFICES ASSUME NEW l \in 1..k, file[l].name = a PROVE l \in S
      BY <1>7
    <2>1. l \in 1..Len(file)
      BY <1>1, <1>5
    <2>2. Taken(file, node, l, v)
      <3>1. CASE l = k
        BY <1>5, <3>1
      <3>2. CASE l # k
        <4>1. l < node[1]
          BY <1>1, <1>5, <1>6, <3>2
        <4>. QED
          BY <4>1 DEF Taken
      <3>. QED
        BY <3>1, <3>2
    <2>. QED
      BY <1>2, <2>1, <2>2 DEF TakenOf
  <1>9. Cardinality(C) <= Cardinality(S) /\ IsFiniteSet(C) /\ Cardinality(C) \in Nat
    BY <1>4, <1>8, FS_Subset, FS_CardinalityType
  <1>10. Cardinality(C) # 0
    <2>1. k \in C
      BY <1>5, <1>7
    <2>. QED
      BY <1>9, <2>1, FS_EmptySet
  <1>. QED
    BY <1>2, <1>4, <1>7, <1>9, <1>10 DEF Count

\* One text more has been taken; its value is behind those taken before.
LEMMA PushValue ==
  ASSUME TypeInv, DataSchema(file), OwnVariables(file), phase = "reading", ReadInv,
         AtText, file' = file, node' = <<node[1], node[2] + 1>>,
         NEW a \in Types, a = Current.name,
         NEW w, w = Current.texts[node[2]].var,
         Pushed(memory, memory', a, w, Current.texts[node[2]].text.val)
  PROVE  \A b \in Types : \A v \in Names(b) :
           /\ Len(memory'[b][v]) = Cardinality(TakenOf(file', node', b, v))
           /\ \A k \in TakenOf(file', node', b, v) : memory'[b][v][Count(file', b, k)] = ValueIn(file'[k], v)
  <1>1. PICK p, q, e : p = node[1] /\ q = node[2] /\ e = file[p]
    OBVIOUS
  <1>2. /\ p \in 1..Len(file) /\ Len(file) \in Nat /\ q \in Nat \ {0}
        /\ e.name = a /\ e.texts[q].var = w
    BY <1>1 DEF AtText, Current, TypeInv
  <1>3. Len(e.texts) \in Nat /\ q \in 1..Len(e.texts)
    <2>1. Len(file[p].texts) \in Nat
      BY <1>2, EntryFacts
    <2>2. q <= Len(file[p].texts)
      BY <1>1 DEF AtText, Current
    <2>. QED
      BY <1>1, <1>2, <2>1, <2>2
  <1>4. /\ \A i \in 1..Len(e.texts) : e.texts[i].var = w => i = q
        /\ w \in Names(a) /\ ValueIn(e, w) = e.texts[q].text.val /\ e.texts[q].text.val \in Value
    <2>1. [j \in DOMAIN file[p].texts |-> file[p].texts[j].var] = NamesOf(file[p].name)
      BY <1>2, OwnAgent
    <2>2. /\ \A j \in 1..Len(file[p].texts) :
              /\ file[p].texts[j].var \in Names(file[p].name)
              /\ ValueIn(file[p], file[p].texts[j].var) = file[p].texts[j].text.val
          /\ \A i, j \in 1..Len(file[p].texts) : file[p].texts[i].var = file[p].texts[j].var => i = j
      BY <1>2, <2>1, OwnTexts
    <2>3. file[p].texts[q].text.val \in Value
      BY <1>1, <1>2, <1>3, EntryFacts
    <2>. QED
      BY <1>1, <1>2, <1>3, <2>2, <2>3
  <1>5. ASSUME NEW k \in 1..Len(file), NEW v PROVE Taken(file', node', k, v) <=> Taken(file, node, k, v) \/ (k = p /\ v = w)
    <2>1. Taken(file, node, k, v) <=> k < p \/ (k = p /\ \E j \in 1..Len(file[k].texts) :
                                                j < q /\ file[k].texts[j].var = v)
      BY <1>1 DEF Taken
    <2>2. Taken(file', node', k, v) <=> k < p \/ (k = p /\ \E j \in 1..Len(file[k].texts) :
                                                j < q + 1 /\ file[k].texts[j].var = v)
      BY <1>1 DEF Taken
    <2>3. \A j \in 1..Len(e.texts) : j < q + 1 <=> j < q \/ j = q
      BY <1>2, <1>3
    <2>. QED
      BY <1>1, <1>2, <1>3, <2>1, <2>2, <2>3
  <1>6. IsMemory(memory) /\ memory[a] \in [Names(a) -> Seq(Value)] /\ memory[a][w] \in Seq(Value)
    BY <1>4 DEF TypeInv, IsMemory
  <1>7. PICK x \in Value : x = e.texts[q].text.val
    BY <1>4
  <1>8. Pushed(memory, memory', a, w, x)
    BY <1>1, <1>7 DEF Current
  <1>20. /\ memory'[a][w] = Append(memory[a][w], x)
         /\ \A b \in Types : \A v \in Names(b) : ~(b = a /\ v = w) => memory'[b][v] = memory[b][v]
    <2>1. PICK m, n : m = memory /\ n = memory'
      OBVIOUS
    <2>2. w \in Names(a) /\ IsMemory(m) /\ Pushed(m, n, a, w, x)
      BY <1>4, <1>6, <1>8, <2>1
    <2>3. /\ n[a][w] = Append(m[a][w], x)
          /\ \A b \in Types : \A v \in Names(b) : ~(b = a /\ v = w) => n[b][v] = m[b][v]
      <3>1. \A c \in Types : \A z \in Names(c) : \A d \in Value : Pushed(m, n, c, z, d) =>
              /\ n[c][z] = Append(m[c][z], d)
              /\ \A b \in Types : \A v \in Names(b) : ~(b = c /\ v = z) => n[b][v] = m[b][v]
        BY <2>2, PushedVector
      <3>. QED
        BY <2>2, <3>1
    <2>. QED
      BY <2>1, <2>3
  <1>9. ASSUME NEW b \in Types, NEW v \in Names(b), ~(b = a /\ v = w)
        PROVE  /\ memory'[b][v] = memory[b][v]
               /\ TakenOf(file', node', b, v) = TakenOf(file, node, b, v)
    <2>1. memory'[b][v] = memory[b][v]
      BY <1>9, <1>20
    <2>2. \A k \in 1..Len(file) : file[k].name = b => (Taken(file', node', k, v) <=> Taken(file, node, k, v))
      BY <1>1, <1>2, <1>5, <1>9
    <2>3. TakenOf(file', node', b, v) = TakenOf(file, node, b, v)
      BY <2>2 DEF TakenOf
    <2>. QED
      BY <2>1, <2>3
  <1>10. ASSUME NEW b \in Types, NEW v \in Names(b)
         PROVE  /\ Len(memory[b][v]) = Cardinality(TakenOf(file, node, b, v))
                /\ \A k \in TakenOf(file, node, b, v) : memory[b][v][Count(file, b, k)] = ValueIn(file[k], v)
    BY DEF ReadInv
  <1>11. PICK S, s : S = TakenOf(file, node, a, w) /\ s = memory[a][w]
    OBVIOUS
  <1>12. TakenOf(file', node', a, w) = S \union {p}
    BY <1>1, <1>2, <1>5, <1>11 DEF TakenOf
  <1>13. S = {l \in 1..(p - 1) : file[l].name = a}
    <2>1. ASSUME NEW k \in 1..Len(file) PROVE Taken(file, node, k, w) <=> k < p
      <3>1. Taken(file, node, k, w) <=> k < p \/ (k = p /\ \E j \in 1..Len(file[k].texts) :
                                                  j < q /\ file[k].texts[j].var = w)
        BY <1>1 DEF Taken
      <3>2. ~(q < q)
        BY <1>2
      <3>. QED
        BY <1>1, <1>4, <3>1, <3>2
    <2>2. \A k : k \in 1..(p - 1) <=> k \in 1..Len(file) /\ k < p
      BY <1>2
    <2>. QED
      BY <1>11, <2>1, <2>2 DEF TakenOf
  <1>14. /\ Count(file, a, p) = Cardinality(S) + 1 /\ Cardinality(S) \in Nat /\ IsFiniteSet(S)
         /\ p \notin S
    <2>1. p \in Nat \ {0} /\ p - 1 \in Nat /\ file[p].name = a
      BY <1>1, <1>2
    <2>2. Count(file, a, p) = Count(file, a, p - 1) + 1 /\ Count(file, a, p - 1) \in Nat
      BY <2>1, CountFacts
    <2>3. IsFiniteSet({l \in 1..(p - 1) : file[l].name = a})
      <3>1. PICK m \in Nat : m = p - 1
        BY <2>1
      <3>2. IsFiniteSet({l \in 1..m : file[l].name = a})
        BY CountedFinite, Zenon
      <3>. QED
        BY <3>1, <3>2
    <2>. QED
      BY <1>13, <2>1, <2>2, <2>3 DEF Count
  <1>15. Cardinality(TakenOf(file', node', a, w)) = Cardinality(S) + 1
    BY <1>12, <1>14, FS_AddElement
  <1>16. memory'[a][w] = Append(s, x)
    BY <1>11, <1>20
  <1>17. /\ s \in Seq(Value) /\ Len(s) = Cardinality(S) /\ Len(Append(s, x)) = Len(s) + 1
         /\ Append(s, x)[Len(s) + 1] = x /\ \A i \in 1..Len(s) : Append(s, x)[i] = s[i]
    <2>1. s \in Seq(Value) /\ Len(s) = Cardinality(S)
      BY <1>4, <1>6, <1>10, <1>11
    <2>. QED
      BY <2>1, AppendProperties
  <1>18. ASSUME NEW k \in S \union {p}
         PROVE  memory'[a][w][Count(file, a, k)] = ValueIn(file[k], w)
    <2>1. CASE k = p
      BY <1>1, <1>4, <1>7, <1>14, <1>16, <1>17, <2>1
    <2>2. CASE k # p
      <3>1. k \in TakenOf(file, node, a, w)
        BY <1>11, <2>2
      <3>2. Count(file, a, k) \in 1..Len(s)
        BY <1>4, <1>11, <1>17, <3>1, TakenCount
      <3>. QED
        BY <1>4, <1>10, <1>11, <1>16, <1>17, <3>1, <3>2
    <2>. QED
      BY <2>1, <2>2
  <1>19. ASSUME NEW b \in Types, NEW v \in Names(b)
         PROVE  /\ Len(memory'[b][v]) = Cardinality(TakenOf(file', node', b, v))
                /\ \A k \in TakenOf(file', node', b, v) : memory'[b][v][Count(file, b, k)] = ValueIn(file[k], v)
    <2>1. CASE b = a /\ v = w
      <3>1. Len(memory'[a][w]) = Cardinality(TakenOf(file', node', a, w))
        BY <1>15, <1>16, <1>17
      <3>2. \A k \in TakenOf(file', node', a, w) : memory'[a][w][Count(file, a, k)] = ValueIn(file[k], w)
        BY <1>12, <1>18
      <3>. QED
        BY <2>1, <3>1, <3>2
    <2>2. CASE ~(b = a /\ v = w)
      BY <1>9, <1>10, <2>2
    <2>. QED
      BY <2>1, <2>2
  <1>. QED
    BY <1>19

\* processTextVariableCast() keeps the vectors the values taken so far; when it throws
\* the file was not one that was written before.
LEMMA ReadTextStep ==
  ASSUME IInv, ReadText PROVE IInv'
  <1>1. TypeInv /\ FileInv /\ ReadInv /\ phase = "reading" /\ AtText /\ DataSchema(file)
    BY DEF IInv, ReadText, AtText, FileInv
  <1>2. /\ node' = <<node[1], node[2] + 1>>
        /\ UNCHANGED <<debug, file, agentVarMap, output, cachedSize, iteration, jobs, before, sims>>
    BY DEF ReadText
  <1>3. PICK p, q, e, a, w, t :
          /\ p = node[1] /\ q = node[2] /\ e = file[p] /\ a = e.name
          /\ w = e.texts[q].var /\ t = e.texts[q].text
    OBVIOUS
  <1>4. p \in 1..Len(file) /\ Len(file) \in Nat /\ q \in Nat \ {0} /\ Current = e
    BY <1>1, <1>3 DEF AtText, Current, TypeInv
  <1>5. a \in Types /\ q \in 1..Len(e.texts) /\ t.val \in Value
    <2>1. /\ file[p].name \in Types /\ Len(file[p].texts) \in Nat
          /\ \A j \in 1..Len(file[p].texts) : file[p].texts[j].text.val \in Value
      BY <1>1, <1>4, EntryFacts
    <2>2. q <= Len(file[p].texts)
      BY <1>1, <1>3 DEF AtText, Current
    <2>. QED
      BY <1>3, <1>4, <2>1, <2>2
  <1>6. Push(a, w, t)
    BY <1>3, <1>4 DEF ReadText, PushText
  <1>7. iteration = 0
    BY <1>1 DEF ReadInv
  <1>8. node' \in (Nat \ {0}) \X (Nat \ {0})
    BY <1>1, <1>2 DEF TypeInv
  <1>9. CASE w \in Names(a) /\ TextFits(t, TypeOf(a, w))
    <2>1. Pushed(memory, memory', a, w, t.val) /\ phase' = "reading"
      BY <1>1, <1>6, <1>9 DEF Push, Pushed, Names
    <2>2. IsMemory(memory')
      <3>1. PICK m, n : m = memory /\ n = memory'
        OBVIOUS
      <3>2. IsMemory(m) /\ Pushed(m, n, a, w, t.val)
        BY <1>1, <2>1, <3>1 DEF TypeInv
      <3>3. \A c \in Types : \A z \in Names(c) : \A d \in Value : Pushed(m, n, c, z, d) => IsMemory(n)
        BY <3>2, PushedVector
      <3>. QED
        BY <1>5, <1>9, <3>1, <3>2, <3>3
    <2>3. TypeInv'
      BY <1>1, <1>2, <1>8, <2>1, <2>2 DEF TypeInv, IsMemory
    <2>4. FileInv'
      BY <1>1, <1>2, <2>1 DEF FileInv, AsWritten, Finite, DataSchema
    <2>5. OwnVariables(file) =>
            \A b \in Types : \A v \in Names(b) :
              /\ Len(memory'[b][v]) = Cardinality(TakenOf(file', node', b, v))
              /\ \A k \in TakenOf(file', node', b, v) :
                   memory'[b][v][Count(file', b, k)] = ValueIn(file'[k], v)
      <3> SUFFICES ASSUME OwnVariables(file)
                   PROVE  \A b \in Types : \A v \in Names(b) :
                            /\ Len(memory'[b][v]) = Cardinality(TakenOf(file', node', b, v))
                            /\ \A k \in TakenOf(file', node', b, v) :
                                 memory'[b][v][Count(file', b, k)] = ValueIn(file'[k], v)
        OBVIOUS
      <3>1. /\ a = Current.name /\ w = Current.texts[node[2]].var /\ file' = file
            /\ Pushed(memory, memory', a, w, Current.texts[node[2]].text.val)
        BY <1>2, <1>3, <1>4, <2>1
      <3>. QED
        BY <1>1, <1>2, <1>5, <3>1, PushValue, Zenon
    <2>6. ReadInv'
      BY <1>2, <1>7, <2>1, <2>5 DEF ReadInv, OwnVariables
    <2>7. RunInv'
      BY <2>1 DEF RunInv
    <2>. QED
      BY <2>1, <2>3, <2>4, <2>6, <2>7, NotEnded DEF IInv
  <1>10. CASE ~(w \in Names(a) /\ TextFits(t, TypeOf(a, w)))
    <2>1. memory' = memory /\ phase' = "threw"
      BY <1>6, <1>10 DEF Push, Names
    <2>2. ~(sims > 1)
      <3> SUFFICES ASSUME sims > 1 PROVE FALSE
        OBVIOUS
      <3>1. AsWritten(file)
        BY <1>1 DEF FileInv
      <3>6. Finite(file) /\ DOMAIN file = 1..Len(file)
        BY <1>1, <3>1, WrittenPasses DEF TypeInv
      <3>2. /\ [j \in DOMAIN file[p].texts |-> file[p].texts[j].var] = NamesOf(file[p].name)
            /\ \A j \in DOMAIN file[p].texts : file[p].texts[j].text.kind = "number"
        BY <1>4, <3>1, <3>6 DEF AsWritten, AsPrinted, Finite
      <3>3. DOMAIN file[p].texts = 1..Len(file[p].texts)
        BY <1>1, <1>4, EntryFacts
      <3>4. t.kind = "number"
        BY <1>3, <1>5, <3>2, <3>3
      <3>5. \A j \in 1..Len(file[p].texts) : file[p].texts[j].var \in Names(file[p].name)
        BY <1>1, <1>4, <3>2, OwnTexts
      <3>. QED
        BY <1>3, <1>5, <1>10, <3>4, <3>5 DEF TextFits
    <2>3. TypeInv'
      BY <1>1, <1>2, <1>8, <2>1 DEF TypeInv, IsMemory
    <2>4. FileInv'
      BY <1>1, <1>2, <2>1, <2>2 DEF FileInv, AsWritten, Finite
    <2>5. ReadInv' /\ RunInv'
      BY <2>1 DEF ReadInv, RunInv
    <2>. QED
      BY <2>1, <2>3, <2>4, <2>5, NotEnded DEF IInv
  <1>. QED
    BY <1>9, <1>10

\* At the end of an agent all its texts have been taken.
LEMMA EndAgentStep ==
  ASSUME IInv, EndAgent PROVE IInv'
  <1>1. TypeInv /\ FileInv /\ ReadInv /\ phase = "reading" /\ DataSchema(file)
    BY DEF IInv, EndAgent, FileInv
  <1>2. /\ node' = <<node[1] + 1, 1>> /\ phase' = phase
        /\ UNCHANGED <<file, agentVarMap, output, memory, cachedSize, iteration, jobs, before, sims>>
    BY DEF EndAgent
  <1>3. PICK p, q : p = node[1] /\ q = node[2]
    OBVIOUS
  <1>4. p \in 1..Len(file) /\ q \in Nat \ {0} /\ q > Len(file[p].texts) /\ Len(file) \in Nat
    BY <1>1, <1>3 DEF EndAgent, Current, TypeInv
  <1>5. OwnVariables(file) => \A a \in Types : \A v \in Names(a) :
          TakenOf(file', node', a, v) = TakenOf(file, node, a, v)
    <2> SUFFICES ASSUME OwnVariables(file), NEW a \in Types, NEW v \in Names(a),
                        NEW k \in 1..Len(file), file[k].name = a
                 PROVE  Taken(file, node', k, v) <=> Taken(file, node, k, v)
      BY <1>2 DEF TakenOf
    <2>1. node'[1] = p + 1 /\ node'[2] = 1
      BY <1>2, <1>3
    <2>2. \A j \in 1..Len(file[k].texts) : ~(j < 1)
      OBVIOUS
    <2>3. Taken(file, node', k, v) <=> k < p + 1
      BY <2>1, <2>2 DEF Taken
    <2>4. Taken(file, node, k, v) <=>
            k < p \/ (k = p /\ \E j \in 1..Len(file[k].texts) : j < q /\ file[k].texts[j].var = v)
      BY <1>3 DEF Taken
    <2>5. k = p => \E j \in 1..Len(file[k].texts) : j < q /\ file[k].texts[j].var = v
      <3> SUFFICES ASSUME k = p
                   PROVE  \E j \in 1..Len(file[k].texts) : j < q /\ file[k].texts[j].var = v
        OBVIOUS
      <3>1. [j \in DOMAIN file[k].texts |-> file[k].texts[j].var] = NamesOf(file[k].name)
        BY <1>1, OwnAgent
      <3>2. /\ Len(file[k].texts) = Len(NamesOf(file[k].name))
            /\ \A j \in 1..Len(file[k].texts) : file[k].texts[j].var = NamesOf(file[k].name)[j]
        BY <1>1, <3>1, OwnTexts
      <3>3. PICK j \in 1..Len(NamesOf(a)) : NamesOf(a)[j] = v
        BY NameFacts
      <3>4. j \in 1..Len(file[k].texts) /\ file[k].texts[j].var = v
        BY <3>2, <3>3
      <3>5. Len(file[k].texts) \in Nat
        BY <1>1, EntryFacts
      <3>6. j < q
        BY <1>4, <3>4, <3>5
      <3>. QED
        BY <3>4, <3>6
    <2>6. k < p + 1 <=> k < p \/ k = p
      BY <1>4
    <2>. QED
      BY <2>3, <2>4, <2>5, <2>6
  <1>6. TypeInv'
    <2>1. node' \in (Nat \ {0}) \X (Nat \ {0})
      BY <1>1, <1>2 DEF TypeInv
    <2>. QED
      BY <1>1, <1>2, <2>1 DEF TypeInv, IsMemory
  <1>7. FileInv'
    BY <1>1, <1>2 DEF FileInv, AsWritten, Finite, DataSchema
  <1>8. ReadInv'
    BY <1>1, <1>2, <1>5 DEF ReadInv, OwnVariables
  <1>9. RunInv'
    BY <1>1, <1>2 DEF RunInv
  <1>. QED
    BY <1>1, <1>2, <1>6, <1>7, <1>8, <1>9, NotEnded DEF IInv

\* At the end of the file every agent has its row, so the vectors are even.
LEMMA EndReadStep ==
  ASSUME IInv, EndRead PROVE IInv'
  <1>1. TypeInv /\ FileInv /\ ReadInv /\ phase = "reading" /\ iteration = 0 /\ node[1] > Len(file)
    BY DEF IInv, EndRead, ReadInv
  <1>2. /\ agentVarMap' = SaveAgentVariableData /\ phase' = "ready"
        /\ UNCHANGED <<file, node, output, memory, cachedSize, iteration, jobs, before, sims>>
    BY DEF EndRead
  <1>3. TypeInv'
    BY <1>1, <1>2 DEF TypeInv, IsMemory
  <1>4. FileInv'
    BY <1>1, <1>2 DEF FileInv, AsWritten, Finite, DataSchema, SaveAgentVariableData
  <1>5. ReadInv'
    BY <1>1, <1>2 DEF ReadInv, OwnVariables
  <1>6. OwnVariables(file) => Even(memory)
    <2>1. Len(file) \in Nat /\ node[1] \in Nat
      BY <1>1 DEF TypeInv
    <2>2. \A k \in 1..Len(file) : k < node[1]
      BY <1>1, <2>1
    <2>3. ASSUME NEW a, NEW v PROVE TakenOf(file, node, a, v) = {k \in 1..Len(file) : file[k].name = a}
      BY <2>2 DEF TakenOf, Taken
    <2>4. ASSUME OwnVariables(file), NEW a \in Types, NEW v \in Names(a)
          PROVE  Len(memory[a][v]) = Cardinality({k \in 1..Len(file) : file[k].name = a})
      <3>1. Len(memory[a][v]) = Cardinality(TakenOf(file, node, a, v))
        BY <1>1, <2>4 DEF ReadInv
      <3>. QED
        BY <2>3, <3>1
    <2>. QED
      BY <2>4 DEF Even
  <1>7. RunInv'
    BY <1>2, <1>6 DEF RunInv, Even, OwnVariables
  <1>. QED
    BY <1>1, <1>2, <1>3, <1>4, <1>5, <1>7, NotEnded DEF IInv

-----------------------------------------------------------------------------
(***************************************************************************)
(* Running.                                                                *)
(***************************************************************************)

\* The types in some order, each once.
LEMMA TypeSequence ==
  /\ Cardinality(Types) \in Nat
  /\ SetToSeq(Types) \in [1..Cardinality(Types) -> Types]
  /\ \A i, j \in 1..Cardinality(Types) : SetToSeq(Types)[i] = SetToSeq(Types)[j] => i = j
  /\ \A a \in Types : \E i \in 1..Cardinality(Types) : SetToSeq(Types)[i] = a
  <1>1. PICK n, T : T = Types /\ n = Cardinality(T)
    OBVIOUS
  <1>2. IsFiniteSet(T)
    BY <1>1, PopulationAssumption DEF Types
  <1>3. n \in Nat /\ ExistsBijection(1..n, T)
    BY <1>1, <1>2, FS_CardinalityType
  <1>4. PICK f : f \in Bijection(1..n, T)
    BY <1>3 DEF ExistsBijection
  <1>5. f \in [1..n -> T] /\ IsInjective(f)
    BY <1>4 DEF Bijection, Injection
  <1>6. PICK s : s = SetToSeq(T)
    OBVIOUS
  <1>7. s \in [1..n -> T] /\ IsInjective(s)
    BY <1>1, <1>5, <1>6 DEF SetToSeq
  <1>8. s \in Injection(1..n, T)
    BY <1>7 DEF Injection
  <1>9. Cardinality(1..n) = n /\ Cardinality(T) = n
    BY <1>1, <1>3, FS_Interval
  <1>10. s \in Surjection(1..n, T)
    BY <1>2, <1>8, <1>9, FS_Injection
  <1>11. \A a \in T : \E i \in 1..n : s[i] = a
    BY <1>10 DEF Surjection
  <1>12. \A i, j \in 1..n : s[i] = s[j] => i = j
    BY <1>7 DEF IsInjective
  <1>. QED
    BY <1>1, <1>3, <1>6, <1>7, <1>11, <1>12

\* What SplitTask() may return for a type: tasks that have not begun, and together have
\* every row once.
SplitOK(c, a, n) ==
  /\ c \in Seq(Job) /\ Injective(c)
  /\ \A i \in 1..Len(c) :
       /\ c[i].agent = a /\ c[i].pos = -1
       /\ c[i].split => c[i].offset + c[i].count <= n
       /\ ~c[i].split => c[i].offset = 0
  /\ \A size : size[a] = n =>
       /\ \A i, k \in 1..Len(c) : i # k => RowsOf(c[i], size) \intersect RowsOf(c[k], size) = {}
       /\ \A row \in 1..n : \E i \in 1..Len(c) : row \in RowsOf(c[i], size)

\* The task as a whole and its two halves.
LEMMA SplitFacts ==
  ASSUME NEW a \in Types, FirstSize(a) \in Nat, NEW c \in Splits(a)
  PROVE  SplitOK(c, a, FirstSize(a))
  <1>1. PICK n \in Nat : n = FirstSize(a)
    OBVIOUS
  <1>2. CASE c = <<Whole(a)>>
    <2>1. PICK w : w = Whole(a)
      OBVIOUS
    <2>2. /\ w.agent = a /\ w.split = FALSE /\ w.offset = 0 /\ w.count = 0 /\ w.pos = -1
          /\ w \in Job
      BY <2>1 DEF Whole, Job
    <2>3. c = <<w>> /\ Len(c) = 1 /\ c[1] = w /\ c \in Seq(Job) /\ 1..Len(c) = {1}
      BY <1>2, <2>1, <2>2
    <2>4. ASSUME NEW size, size[a] = n, NEW row \in 1..n PROVE row \in RowsOf(c[1], size)
      BY <2>2, <2>3, <2>4 DEF RowsOf
    <2>. QED
      BY <1>1, <2>2, <2>3, <2>4 DEF SplitOK, Injective
  <1>3. CASE n \notin {0, 1} /\ c = <<Segment(a, 0, (n + 1) \div 2), Segment(a, (n + 1) \div 2, n \div 2)>>
    <2>1. PICK h, l : h = (n + 1) \div 2 /\ l = n \div 2
      OBVIOUS
    <2>2. h \in Nat /\ l \in Nat /\ h + l = n /\ h # 0
      BY <1>3, <2>1
    <2>3. PICK u, w : u = Segment(a, 0, h) /\ w = Segment(a, h, l)
      OBVIOUS
    <2>4. /\ u.agent = a /\ u.split = TRUE /\ u.offset = 0 /\ u.count = h /\ u.pos = -1
          /\ w.agent = a /\ w.split = TRUE /\ w.offset = h /\ w.count = l /\ w.pos = -1
          /\ u \in Job /\ w \in Job
      BY <2>2, <2>3 DEF Segment, Job
    <2>5. c = <<u, w>> /\ Len(c) = 2 /\ c[1] = u /\ c[2] = w /\ c \in Seq(Job) /\ 1..Len(c) = {1, 2}
      BY <1>3, <2>1, <2>3, <2>4
    <2>6. u # w
      BY <2>2, <2>4
    <2>7. ASSUME NEW size
          PROVE  /\ RowsOf(u, size) = 1..h /\ RowsOf(w, size) = (h + 1)..n
      BY <2>2, <2>4 DEF RowsOf
    <2>8. (1..h) \intersect ((h + 1)..n) = {} /\ \A row \in 1..n : row \in 1..h \/ row \in (h + 1)..n
      BY <2>2
    <2>9. ASSUME NEW size
          PROVE  /\ \A i, k \in {1, 2} : i # k => RowsOf(c[i], size) \intersect RowsOf(c[k], size) = {}
                 /\ \A row \in 1..n : \E i \in {1, 2} : row \in RowsOf(c[i], size)
      <3>1. RowsOf(c[1], size) = 1..h /\ RowsOf(c[2], size) = (h + 1)..n
        BY <2>5, <2>7
      <3>. QED
        BY <2>8, <3>1
    <2>10. Injective(c)
      BY <2>5, <2>6 DEF Injective
    <2>11. \A i \in 1..Len(c) :
             /\ c[i].agent = a /\ c[i].pos = -1
             /\ c[i].split => c[i].offset + c[i].count <= n
             /\ ~c[i].split => c[i].offset = 0
      BY <2>2, <2>4, <2>5
    <2>. QED
      BY <1>1, <2>5, <2>9, <2>10, <2>11 DEF SplitOK
  <1>. QED
    BY <1>1, <1>2, <1>3 DEF Splits

\* The tasks of an iteration: those of all types, each once.
LEMMA JobsCollected ==
  ASSUME NEW choice \in [Types -> Seq(Job)], NEW size,
         \A a \in Types : size[a] \in Nat /\ SplitOK(choice[a], a, size[a]),
         NEW js, js = FlattenSeq([i \in 1..Cardinality(Types) |-> choice[SetToSeq(Types)[i]]])
  PROVE  js \in Seq(Job) /\ JobsOK(js, size) /\ \A i \in 1..Len(js) : js[i].pos = -1
  <1>1. PICK n, s, ss : /\ n = Cardinality(Types) /\ s = SetToSeq(Types)
                        /\ ss = [i \in 1..n |-> choice[s[i]]]
    OBVIOUS
  <1>2. /\ n \in Nat /\ s \in [1..n -> Types]
        /\ \A i, j \in 1..n : s[i] = s[j] => i = j
        /\ \A a \in Types : \E i \in 1..n : s[i] = a
    BY <1>1, TypeSequence
  <1>3. ss \in [1..n -> Seq(Job)] /\ \A i \in 1..n : ss[i] = choice[s[i]] /\ s[i] \in Types
    BY <1>1, <1>2
  <1>4. \A i \in 1..n : Injective(ss[i]) /\ \A x \in Elements(ss[i]) : x.agent = s[i]
    BY <1>3 DEF SplitOK, Elements
  <1>5. ASSUME NEW i \in 1..n, NEW j \in 1..n, i # j
        PROVE  Elements(ss[i]) \intersect Elements(ss[j]) = {}
    <2>1. s[i] # s[j]
      BY <1>2, <1>5
    <2>2. /\ \A x \in Elements(ss[i]) : x.agent = s[i]
          /\ \A x \in Elements(ss[j]) : x.agent = s[j]
      BY <1>4
    <2>. QED
      BY <2>1, <2>2
  <1>6. /\ js \in Seq(Job)
        /\ Elements(js) = UNION {Elements(ss[i]) : i \in 1..n}
        /\ Injective(js)
    <2>1. js = FlattenSeq(ss)
      BY <1>1
    <2>2. \A i \in 1..n : Injective(ss[i])
      BY <1>4
    <2>3. /\ FlattenSeq(ss) \in Seq(Job)
          /\ Elements(FlattenSeq(ss)) = UNION {Elements(ss[i]) : i \in 1..n}
          /\ Injective(FlattenSeq(ss))
      BY <1>2, <1>3, <1>5, <2>2, FlattenElements
    <2>. QED
      BY <2>1, <2>3
  <1>7. ASSUME NEW i \in 1..Len(js)
        PROVE  js[i].agent \in Types /\ js[i] \in Elements(choice[js[i].agent])
    <2>1. js[i] \in Elements(js)
      BY DEF Elements
    <2>2. PICK k \in 1..n : js[i] \in Elements(ss[k])
      BY <1>6, <2>1
    <2>. QED
      BY <1>3, <1>4, <2>2
  <1>8. \A a \in Types : \A x \in Elements(choice[a]) : \E i \in 1..Len(js) : js[i] = x
    <2> SUFFICES ASSUME NEW a \in Types, NEW x \in Elements(choice[a])
                 PROVE  \E i \in 1..Len(js) : js[i] = x
      OBVIOUS
    <2>1. PICK k \in 1..n : s[k] = a
      BY <1>2
    <2>2. x \in Elements(ss[k])
      BY <1>3, <2>1
    <2>3. x \in Elements(js)
      BY <1>6, <2>2
    <2>. QED
      BY <2>3 DEF Elements
  <1>9. \A a \in Types : choice[a] \in Seq(Job) /\ SplitOK(choice[a], a, size[a])
    OBVIOUS
  <1>10. ASSUME NEW i \in 1..Len(js)
         PROVE  /\ js[i].pos = -1 /\ js[i].count \in Nat
                /\ js[i].split => js[i].offset + js[i].count <= size[js[i].agent]
                /\ ~js[i].split => js[i].offset = 0
    <2>1. PICK a \in Types : a = js[i].agent /\ js[i] \in Elements(choice[a])
      BY <1>7
    <2>2. PICK k \in 1..Len(choice[a]) : js[i] = choice[a][k]
      BY <2>1 DEF Elements
    <2>3. js[i] \in Job
      BY <1>6
    <2>4. js[i].count \in Nat
      BY <2>3 DEF Job
    <2>5. PICK c : c = choice[a]
      OBVIOUS
    <2>6. SplitOK(c, a, size[a])
      BY <1>9, <2>5
    <2>7. /\ c[k].pos = -1
          /\ c[k].split => c[k].offset + c[k].count <= size[a]
          /\ ~c[k].split => c[k].offset = 0
      BY <2>5, <2>6 DEF SplitOK
    <2>. QED
      BY <2>1, <2>2, <2>4, <2>5, <2>7
  <1>11. ASSUME NEW i \in 1..Len(js), NEW k \in 1..Len(js), i # k, js[i].agent = js[k].agent
         PROVE  RowsOf(js[i], size) \intersect RowsOf(js[k], size) = {}
    <2>1. PICK a \in Types : a = js[i].agent /\ js[i] \in Elements(choice[a]) /\ js[k] \in Elements(choice[a])
      BY <1>7, <1>11
    <2>2. PICK p \in 1..Len(choice[a]), q \in 1..Len(choice[a]) : js[i] = choice[a][p] /\ js[k] = choice[a][q]
      BY <2>1 DEF Elements
    <2>3. p # q
      BY <1>6, <1>11, <2>2 DEF Injective
    <2>4. \A x, y \in 1..Len(choice[a]) :
            x # y => RowsOf(choice[a][x], size) \intersect RowsOf(choice[a][y], size) = {}
      BY <1>9, Zenon DEF SplitOK
    <2>. QED
      BY <2>2, <2>3, <2>4
  <1>12. ASSUME NEW a \in Types, NEW row \in 1..size[a]
         PROVE  \E i \in 1..Len(js) : js[i].agent = a /\ row \in RowsOf(js[i], size)
    <2>1. \A r \in 1..size[a] : \E k \in 1..Len(choice[a]) : r \in RowsOf(choice[a][k], size)
      BY <1>9, Zenon DEF SplitOK
    <2>2. PICK k \in 1..Len(choice[a]) : row \in RowsOf(choice[a][k], size)
      BY <2>1
    <2>3. choice[a][k] \in Elements(choice[a]) /\ choice[a][k].agent = a
      BY <1>9, <2>2 DEF Elements, SplitOK
    <2>4. PICK i \in 1..Len(js) : js[i] = choice[a][k]
      BY <1>8, <2>3
    <2>. QED
      BY <2>2, <2>3, <2>4
  <1>13. \A i \in 1..Len(js) : js[i].pos <= js[i].count
    BY <1>10
  <1>. QED
    BY <1>6, <1>10, <1>11, <1>12, <1>13 DEF JobsOK

\* An iteration begins with tasks that have passed no row.
LEMMA BeginIterationStep ==
  ASSUME IInv, BeginIteration PROVE IInv'
  <1>1. TypeInv /\ FileInv /\ ReadInv /\ RunInv /\ phase = "ready"
    BY DEF IInv, BeginIteration
  <1>2. /\ iteration' = iteration + 1 /\ before' = memory /\ phase' = "running"
        /\ UNCHANGED <<debug, file, node, agentVarMap, output, memory, cachedSize, sims>>
    BY DEF BeginIteration, popVars
  <1>3. PICK choice \in [Types -> UNION {Splits(a) : a \in Types}] :
          /\ \A a \in Types : choice[a] \in Splits(a)
          /\ jobs' = FlattenSeq([i \in 1..Cardinality(Types) |-> choice[SetToSeq(Types)[i]]])
    BY Zenon DEF BeginIteration, Types
  <1>4. \A a \in Types : FirstSize(a) \in Nat /\ SplitOK(choice[a], a, FirstSize(a))
    BY <1>1, <1>3, SizeNat, SplitFacts DEF TypeInv
  <1>5. choice \in [Types -> Seq(Job)]
    BY <1>3, <1>4 DEF SplitOK
  <1>6. PICK size, js : size = SizeOf /\ js = jobs'
    OBVIOUS
  <1>7. \A a \in Types : size[a] \in Nat /\ SplitOK(choice[a], a, size[a])
    BY <1>4, <1>6 DEF SizeOf
  <1>8. js = FlattenSeq([i \in 1..Cardinality(Types) |-> choice[SetToSeq(Types)[i]]])
    BY <1>3, <1>6
  <1>9. js \in Seq(Job) /\ JobsOK(js, size) /\ \A i \in 1..Len(js) : js[i].pos = -1
    BY <1>5, <1>7, <1>8, JobsCollected
  <1>10. TypeInv'
    <2>1. jobs' \in Seq(Job) /\ iteration' \in Nat
      BY <1>1, <1>2, <1>6, <1>9 DEF TypeInv
    <2>2. IsMemory(memory)
      BY <1>1 DEF TypeInv
    <2>. QED
      BY <1>1, <1>2, <2>1, <2>2 DEF TypeInv, IsMemory
  <1>11. FileInv'
    BY <1>1, <1>2 DEF FileInv, AsWritten, Finite, DataSchema, SaveAgentVariableData
  <1>12. iteration' > 0 /\ iteration' # 0
    BY <1>1, <1>2 DEF TypeInv
  <1>13. ReadInv'
    BY <1>2, <1>12 DEF ReadInv
  <1>14. SizeOf' = SizeOf
    BY <1>2 DEF SizeOf, FirstSize
  <1>15. JobsOK(jobs', SizeOf')
    BY <1>6, <1>9, <1>14
  <1>16. \A a, row : row \in Nat => ~RowDone(jobs', a, row)
    <2>1. ASSUME NEW row \in Nat, NEW i \in 1..Len(js) PROVE ~Passed(js[i], row)
      <3>1. js[i] \in Job /\ js[i].pos = -1
        BY <1>9
      <3>2. js[i].offset \in Nat
        BY <3>1 DEF Job
      <3>. QED
        BY <3>1, <3>2 DEF Passed
    <2>. QED
      BY <1>6, <2>1 DEF RowDone
  <1>17. RowInv'
    <2> SUFFICES ASSUME NEW a \in Types, NEW v \in Names(a), NEW row \in 1..Len(memory[a][v])
                 PROVE  ~RowDone(jobs', a, row)
      BY <1>2 DEF RowInv
    <2>. QED
      BY <1>16, row \in Nat
  <1>18. RunInv'
    BY <1>1, <1>2, <1>12, <1>15, <1>17 DEF RunInv, Even, OwnVariables
  <1>. QED
    BY <1>2, <1>10, <1>11, <1>13, <1>18, NotEnded DEF IInv

\* A task that moves on keeps its rows.
LEMMA JobMoves ==
  ASSUME NEW js \in Seq(Job), NEW kk \in Seq(Job), NEW size, JobsOK(js, size), Len(kk) = Len(js),
         NEW i \in 1..Len(js),
         \A k \in 1..Len(js) : k # i => kk[k] = js[k],
         kk[i].agent = js[i].agent, kk[i].split = js[i].split, kk[i].offset = js[i].offset,
         js[i].split => kk[i].count = js[i].count,
         ~js[i].split => kk[i].count = size[js[i].agent],
         kk[i].pos <= kk[i].count
  PROVE  JobsOK(kk, size)
  <1>1. \A k \in 1..Len(js) : RowsOf(kk[k], size) = RowsOf(js[k], size) /\ kk[k].agent = js[k].agent
    <2>1. RowsOf(kk[i], size) = RowsOf(js[i], size)
      BY DEF RowsOf
    <2>. QED
      BY <2>1
  <1>2. \A k \in 1..Len(kk) :
          /\ kk[k].split => kk[k].offset + kk[k].count <= size[kk[k].agent]
          /\ ~kk[k].split => kk[k].offset = 0
          /\ ~kk[k].split /\ kk[k].pos # -1 => kk[k].count = size[kk[k].agent]
          /\ kk[k].pos <= kk[k].count
    BY DEF JobsOK
  <1>3. \A k, l \in 1..Len(kk) :
          k # l /\ kk[k].agent = kk[l].agent => RowsOf(kk[k], size) \intersect RowsOf(kk[l], size) = {}
    <2>1. \A k, l \in 1..Len(js) :
            k # l /\ js[k].agent = js[l].agent => RowsOf(js[k], size) \intersect RowsOf(js[l], size) = {}
      BY DEF JobsOK
    <2>. QED
      BY <1>1, <2>1
  <1>4. \A a \in Types : \A row \in 1..size[a] :
          \E k \in 1..Len(kk) : kk[k].agent = a /\ row \in RowsOf(kk[k], size)
    <2>1. \A a \in Types : \A row \in 1..size[a] :
            \E k \in 1..Len(js) : js[k].agent = a /\ row \in RowsOf(js[k], size)
      BY DEF JobsOK
    <2>. QED
      BY <1>1, <2>1
  <1>. QED
    BY <1>2, <1>3, <1>4, Zenon DEF JobsOK

\* One task moves.
Moved(js, kk, i, n, p) == kk = [js EXCEPT ![i].pos = p, ![i].count = n]

\* What such a step leaves alone.
LEMMA MovedJob ==
  ASSUME NEW js \in Seq(Job), NEW i \in 1..Len(js), NEW n \in Nat, NEW p \in Nat, NEW kk,
         Moved(js, kk, i, n, p)
  PROVE  /\ kk \in Seq(Job) /\ Len(kk) = Len(js)
         /\ \A k \in 1..Len(js) : k # i => kk[k] = js[k]
         /\ kk[i].agent = js[i].agent /\ kk[i].split = js[i].split /\ kk[i].offset = js[i].offset
         /\ kk[i].count = n /\ kk[i].pos = p
  <1>1. PICK m \in Nat : m = Len(js) /\ DOMAIN js = 1..m /\ js \in [1..m -> Job]
    OBVIOUS
  <1>2. PICK j : j = js[i]
    OBVIOUS
  <1>3. j \in Job
    BY <1>2
  <1>4. PICK j2 : j2 = [[j EXCEPT !.pos = p] EXCEPT !.count = n]
    OBVIOUS
  <1>5. /\ j2 \in Job /\ j2.agent = j.agent /\ j2.split = j.split /\ j2.offset = j.offset
        /\ j2.count = n /\ j2.pos = p
    BY <1>3, <1>4 DEF Job
  <1>6. kk = [js EXCEPT ![i] = j2]
    BY <1>1, <1>2, <1>4 DEF Moved
  <1>7. kk = [k \in 1..m |-> IF k = i THEN j2 ELSE js[k]]
    BY <1>1, <1>6
  <1>8. \A k \in 1..m : js[k] \in Job
    BY <1>1
  <1>9. kk \in [1..m -> Job]
    BY <1>5, <1>7, <1>8
  <1>10. kk \in Seq(Job) /\ Len(kk) = m
    BY <1>9
  <1>11. kk[i] = j2 /\ \A k \in 1..m : k # i => kk[k] = js[k]
    BY <1>1, <1>7
  <1>. QED
    BY <1>1, <1>2, <1>5, <1>10, <1>11

\* A task that has its iterator stands before its first row.
LEMMA NewIteratorStep ==
  ASSUME IInv, NEW i \in DOMAIN jobs, NewIterator(i) PROVE IInv'
  <1>1. TypeInv /\ FileInv /\ ReadInv /\ RunInv /\ phase = "running" /\ iteration > 0 /\ jobs[i].pos = -1
    BY DEF IInv, NewIterator, RunInv
  <1>2. UNCHANGED <<debug, file, node, agentVarMap, output, memory, iteration, before, sims>>
    BY DEF NewIterator, popVars
  <1>3. jobs \in Seq(Job) /\ i \in 1..Len(jobs) /\ jobs[i] \in Job
    BY <1>1 DEF TypeInv
  <1>4. jobs[i].agent \in Types /\ jobs[i].count \in Nat /\ jobs[i].offset \in Nat
    BY <1>3 DEF Job
  <1>5. FirstSize(jobs[i].agent) \in Nat
    BY <1>1, <1>4, SizeNat DEF TypeInv
  <1>6. PICK n \in Nat : n = IF jobs[i].split THEN jobs[i].count ELSE FirstSize(jobs[i].agent)
    BY <1>4, <1>5
  <1>7. \/ phase' = "threw" /\ jobs' = jobs
        \/ phase' = "running" /\ Moved(jobs, jobs', i, n, 0)
    BY <1>1, <1>3, <1>6 DEF NewIterator, Moved
  <1>8. CASE phase' = "threw" /\ jobs' = jobs
    <2>1. TypeInv'
      BY <1>1, <1>2, <1>8 DEF TypeInv, IsMemory
    <2>2. FileInv'
      BY <1>1, <1>2, <1>8 DEF FileInv, AsWritten, Finite
    <2>3. ReadInv' /\ RunInv'
      BY <1>8 DEF ReadInv, RunInv
    <2>. QED
      BY <1>8, <2>1, <2>2, <2>3, NotEnded DEF IInv
  <1>9. CASE phase' = "running" /\ Moved(jobs, jobs', i, n, 0)
    <2>1. PICK js, kk : js = jobs /\ kk = jobs'
      OBVIOUS
    <2>2. /\ kk \in Seq(Job) /\ Len(kk) = Len(js)
          /\ \A k \in 1..Len(js) : k # i => kk[k] = js[k]
          /\ kk[i].agent = js[i].agent /\ kk[i].split = js[i].split /\ kk[i].offset = js[i].offset
          /\ kk[i].count = n /\ kk[i].pos = 0
      <3>1. Moved(js, kk, i, n, 0) /\ js \in Seq(Job) /\ i \in 1..Len(js)
        BY <1>3, <1>9, <2>1
      <3>. QED
        BY <3>1, MovedJob
    <2>3. TypeInv'
      BY <1>1, <1>2, <1>9, <2>1, <2>2 DEF TypeInv, IsMemory
    <2>4. FileInv'
      BY <1>1, <1>2, <1>9 DEF FileInv, AsWritten, Finite, DataSchema, SaveAgentVariableData
    <2>5. ReadInv'
      BY <1>1, <1>2, <1>9 DEF ReadInv
    <2>6. SizeOf' = SizeOf
      BY <1>2 DEF SizeOf, FirstSize
    <2>7. OwnVariables(file) => JobsOK(jobs', SizeOf')
      <3> SUFFICES ASSUME OwnVariables(file) PROVE JobsOK(kk, SizeOf)
        BY <2>1, <2>6
      <3>1. PICK size : size = SizeOf
        OBVIOUS
      <3>2. JobsOK(js, size)
        BY <1>1, <2>1, <3>1 DEF RunInv
      <3>3. size[js[i].agent] = FirstSize(jobs[i].agent)
        BY <1>4, <2>1, <3>1 DEF SizeOf
      <3>4. /\ js[i].split => kk[i].count = js[i].count
            /\ ~js[i].split => kk[i].count = size[js[i].agent]
            /\ kk[i].pos <= kk[i].count
        BY <1>6, <2>1, <2>2, <3>3
      <3>5. js \in Seq(Job) /\ i \in 1..Len(js)
        BY <1>3, <2>1
      <3>6. JobsOK(kk, size)
        BY <2>2, <3>2, <3>4, <3>5, JobMoves
      <3>. QED
        BY <3>1, <3>6
    <2>8. \A a, row : row \in Nat => (RowDone(jobs', a, row) <=> RowDone(jobs, a, row))
      <3>1. js[i].offset \in Nat /\ js[i].pos = -1
        BY <1>1, <1>4, <2>1
      <3>2. ASSUME NEW row \in Nat, NEW k \in 1..Len(js)
            PROVE  /\ Passed(kk[k], row) <=> Passed(js[k], row)
                   /\ kk[k].agent = js[k].agent
        <4>1. CASE k = i
          BY <2>2, <3>1, <4>1 DEF Passed
        <4>2. CASE k # i
          BY <2>2, <4>2
        <4>. QED
          BY <4>1, <4>2
      <3>. QED
        BY <2>1, <2>2, <3>2 DEF RowDone
    <2>9. OwnVariables(file) => RowInv'
      <3> SUFFICES ASSUME OwnVariables(file) PROVE RowInv'
        OBVIOUS
      <3>1. RowInv
        BY <1>1 DEF RunInv
      <3>2. ASSUME NEW a \in Types, NEW v \in Names(a), NEW row \in 1..Len(memory[a][v])
            PROVE  memory[a][v][row] = IF v \in Writes[a] /\ RowDone(jobs', a, row)
                                 THEN Computed(TypeOf(a, v), before[a][v][row]) ELSE before[a][v][row]
        <4>1. row \in Nat
          OBVIOUS
        <4>2. memory[a][v][row] = IF v \in Writes[a] /\ RowDone(jobs, a, row)
                                 THEN Computed(TypeOf(a, v), before[a][v][row]) ELSE before[a][v][row]
          BY <3>1 DEF RowInv
        <4>. QED
          BY <2>8, <4>1, <4>2
      <3>. QED
        BY <1>2, <3>1, <3>2 DEF RowInv
    <2>10. RunInv'
      BY <1>1, <1>2, <1>9, <2>7, <2>9 DEF RunInv, Even, OwnVariables
    <2>. QED
      BY <1>9, <2>3, <2>4, <2>5, <2>10, NotEnded DEF IInv
  <1>. QED
    BY <1>7, <1>8, <1>9

\* The function sets the variables of W in one row.
Applied(m, n, a, W, row) ==
  n = [m EXCEPT ![a] = SetRow(@, a, W, row)]

\* Nothing but that row of these variables differs.
RowChanged(m, n, a, W, row) ==
  /\ IsMemory(n)
  /\ \A b \in Types : b # a => n[b] = m[b]
  /\ \A v \in Names(a) :
       /\ Len(n[a][v]) = Len(m[a][v])
       /\ \A r \in 1..Len(m[a][v]) :
            n[a][v][r] = IF v \in W /\ r = row THEN Computed(TypeOf(a, v), m[a][v][r]) ELSE m[a][v][r]

\* A turn of Run() changes one row.
LEMMA AppliedRow ==
  ASSUME NEW m, IsMemory(m), NEW a \in Types, NEW W, NEW row \in Nat \ {0},
         \A v \in W : v \in Names(a) /\ row <= Len(m[a][v]),
         NEW n, Applied(m, n, a, W, row)
  PROVE  RowChanged(m, n, a, W, row)
  <1>1. /\ \A b \in Types : m[b] \in [Names(b) -> Seq(Value)]
        /\ DOMAIN m = Types /\ DOMAIN m[a] = Names(a)
    BY DEF IsMemory
  <1>2. PICK y : y = SetRow(m[a], a, W, row)
    OBVIOUS
  <1>3. n = [b \in Types |-> IF b = a THEN y ELSE m[b]]
    BY <1>1, <1>2 DEF Applied
  <1>4. n[a] = y /\ \A b \in Types : b # a => n[b] = m[b]
    BY <1>3
  <1>5. ASSUME NEW v \in Names(a)
        PROVE  /\ y[v] \in Seq(Value) /\ Len(y[v]) = Len(m[a][v])
               /\ \A r \in 1..Len(m[a][v]) :
                    y[v][r] = IF v \in W /\ r = row THEN Computed(TypeOf(a, v), m[a][v][r]) ELSE m[a][v][r]
    <2>1. PICK s, t : s = m[a][v] /\ t = TypeOf(a, v)
      OBVIOUS
    <2>2. s \in Seq(Value) /\ \A x \in Value : Computed(t, x) \in Value
      BY <1>1, <2>1, Values
    <2>3. PICK l \in Nat : l = Len(s) /\ DOMAIN s = 1..l /\ s \in [1..l -> Value]
      BY <2>2
    <2>4. CASE v \in W
      <3>1. row \in 1..l
        BY <2>1, <2>3, <2>4
      <3>2. y[v] = [s EXCEPT ![row] = Computed(t, @)]
        BY <1>1, <1>2, <2>1, <2>4 DEF SetRow
      <3>3. y[v] = [r \in 1..l |-> IF r = row THEN Computed(t, s[r]) ELSE s[r]]
        BY <2>3, <3>1, <3>2
      <3>4. y[v] \in [1..l -> Value]
        BY <2>2, <2>3, <3>3
      <3>5. y[v] \in Seq(Value) /\ Len(y[v]) = l
        BY <3>4
      <3>6. \A r \in 1..l : y[v][r] = IF r = row THEN Computed(t, s[r]) ELSE s[r]
        BY <3>3
      <3>. QED
        BY <2>1, <2>2, <2>3, <2>4, <3>5, <3>6
    <2>5. CASE v \notin W
      <3>1. y[v] = s
        BY <1>1, <1>2, <2>1, <2>5 DEF SetRow
      <3>. QED
        BY <2>1, <2>2, <2>3, <2>5, <3>1
    <2>. QED
      BY <2>4, <2>5
  <1>6. DOMAIN y = Names(a) /\ y = [v \in Names(a) |-> y[v]]
    BY <1>1, <1>2 DEF SetRow
  <1>7. y \in [Names(a) -> Seq(Value)]
    BY <1>5, <1>6
  <1>8. n = [b \in Types |-> n[b]]
    BY <1>3
  <1>9. IsMemory(n)
    BY <1>1, <1>4, <1>7, <1>8 DEF IsMemory
  <1>. QED
    BY <1>4, <1>5, <1>9 DEF RowChanged

\* A row that has been passed is one of the task.
LEMMA PassedRows ==
  ASSUME NEW js \in Seq(Job), NEW size, JobsOK(js, size), NEW i \in 1..Len(js), NEW row \in Nat,
         Passed(js[i], row), size[js[i].agent] \in Nat
  PROVE  row \in RowsOf(js[i], size)
  <1>1. PICK j : j = js[i]
    OBVIOUS
  <1>2. j \in Job
    BY <1>1
  <1>3. j.offset \in Nat /\ j.count \in Nat /\ j.pos \in Nat \union {-1} /\ j.split \in BOOLEAN
    BY <1>2 DEF Job
  <1>4. /\ ~j.split => j.offset = 0
        /\ ~j.split /\ j.pos # -1 => j.count = size[j.agent]
        /\ j.pos <= j.count
    BY <1>1 DEF JobsOK
  <1>5. j.offset < row /\ row <= j.offset + j.pos
    BY <1>1 DEF Passed
  <1>6. CASE j.split
    BY <1>1, <1>3, <1>4, <1>5, <1>6 DEF RowsOf
  <1>7. CASE ~j.split
    <2>1. j.pos # -1
      BY <1>3, <1>4, <1>5, <1>7
    <2>. QED
      BY <1>1, <1>3, <1>4, <1>5, <1>7, <2>1 DEF RowsOf
  <1>. QED
    BY <1>6, <1>7

\* One agent more has been passed, and only its row has changed.
LEMMA RunAgentStep ==
  ASSUME IInv, NEW i \in DOMAIN jobs, RunAgent(i) PROVE IInv'
  <1>1. TypeInv /\ FileInv /\ ReadInv /\ RunInv /\ phase = "running" /\ iteration > 0
    BY DEF IInv, RunAgent, RunInv
  <1>2. UNCHANGED <<debug, file, node, agentVarMap, output, cachedSize, iteration, before, sims>>
    BY DEF RunAgent, popVars
  <1>3. jobs \in Seq(Job) /\ i \in 1..Len(jobs) /\ jobs[i] \in Job
    BY <1>1 DEF TypeInv
  <1>4. PICK a, row, p, n : /\ a = jobs[i].agent /\ row = Row(jobs[i])
                            /\ p = jobs[i].pos + 1 /\ n = jobs[i].count
    OBVIOUS
  <1>5. /\ a \in Types /\ n \in Nat /\ jobs[i].offset \in Nat /\ jobs[i].split \in BOOLEAN
        /\ jobs[i].pos \in Nat /\ p \in Nat /\ p <= n /\ row = jobs[i].offset + p
        /\ row \in Nat \ {0}
    <2>1. /\ jobs[i].agent \in Types /\ jobs[i].count \in Nat /\ jobs[i].offset \in Nat
          /\ jobs[i].split \in BOOLEAN /\ jobs[i].pos \in Nat \union {-1}
      BY <1>3 DEF Job
    <2>2. jobs[i].pos >= 0 /\ jobs[i].pos < jobs[i].count
      BY DEF RunAgent
    <2>. QED
      BY <1>4, <2>1, <2>2 DEF Row
  <1>6. Writes[a] \subseteq Names(a)
    BY <1>5, NameFacts
  <1>7. \/ phase' = "threw" /\ jobs' = jobs /\ memory' = memory
        \/ /\ phase' = "running" /\ jobs' = [jobs EXCEPT ![i].pos = @ + 1]
           /\ \A v \in Writes[a] : row <= Len(memory[a][v])
           /\ Applied(memory, memory', a, Writes[a], row)
    <2>1. PICK tries \in {Writes[a], Names(a)} :
            IF \A v \in tries : MayWrite(a, v) /\ row <= Len(memory[a][v])
            THEN /\ memory' = [memory EXCEPT ![a] = SetRow(@, a, tries, row)]
                 /\ jobs' = [jobs EXCEPT ![i].pos = @ + 1]
                 /\ phase' = phase
            ELSE phase' = "threw" /\ memory' = memory /\ jobs' = jobs
      BY <1>4 DEF RunAgent, Names
    <2>2. CASE \A v \in tries : MayWrite(a, v) /\ row <= Len(memory[a][v])
      <3>1. tries = Writes[a]
        BY <1>6, <2>1, <2>2 DEF MayWrite
      <3>. QED
        BY <1>1, <2>1, <2>2, <3>1 DEF Applied
    <2>. QED
      BY <2>1, <2>2
  <1>8. CASE phase' = "threw" /\ jobs' = jobs /\ memory' = memory
    <2>1. TypeInv'
      BY <1>1, <1>2, <1>8 DEF TypeInv, IsMemory
    <2>2. FileInv'
      BY <1>1, <1>2, <1>8 DEF FileInv, AsWritten, Finite
    <2>3. ReadInv' /\ RunInv'
      BY <1>8 DEF ReadInv, RunInv
    <2>. QED
      BY <1>8, <2>1, <2>2, <2>3, NotEnded DEF IInv
  <1>9. CASE /\ phase' = "running" /\ jobs' = [jobs EXCEPT ![i].pos = @ + 1]
             /\ \A v \in Writes[a] : row <= Len(memory[a][v])
             /\ Applied(memory, memory', a, Writes[a], row)
    <2>1. PICK js, kk, W, m, mm : js = jobs /\ kk = jobs' /\ W = Writes[a] /\ m = memory /\ mm = memory'
      OBVIOUS
    <2>2. Moved(js, kk, i, n, p)
      BY <1>3, <1>4, <1>9, <2>1 DEF Moved, Job
    <2>3. /\ kk \in Seq(Job) /\ Len(kk) = Len(js)
          /\ \A k \in 1..Len(js) : k # i => kk[k] = js[k]
          /\ kk[i].agent = js[i].agent /\ kk[i].split = js[i].split /\ kk[i].offset = js[i].offset
          /\ kk[i].count = n /\ kk[i].pos = p
      <3>1. js \in Seq(Job) /\ i \in 1..Len(js)
        BY <1>3, <2>1
      <3>. QED
        BY <1>5, <2>2, <3>1, MovedJob
    <2>4. /\ IsMemory(mm)
          /\ \A b \in Types : b # a => mm[b] = m[b]
          /\ \A v \in Names(a) :
               /\ Len(mm[a][v]) = Len(m[a][v])
               /\ \A r \in 1..Len(m[a][v]) :
                    mm[a][v][r] = IF v \in W /\ r = row THEN Computed(TypeOf(a, v), m[a][v][r]) ELSE m[a][v][r]
      <3>1. IsMemory(m) /\ Applied(m, mm, a, W, row)
        BY <1>1, <1>9, <2>1 DEF TypeInv
      <3>2. \A v \in W : v \in Names(a) /\ row <= Len(m[a][v])
        BY <1>6, <1>9, <2>1
      <3>3. a \in Types /\ row \in Nat \ {0}
        BY <1>5
      <3>4. RowChanged(m, mm, a, W, row)
        BY <3>1, <3>2, <3>3, AppliedRow
      <3>. QED
        BY <3>4 DEF RowChanged
    <2>5. TypeInv'
      BY <1>1, <1>2, <1>9, <2>1, <2>3, <2>4 DEF TypeInv, IsMemory
    <2>6. FileInv'
      BY <1>1, <1>2, <1>9 DEF FileInv, AsWritten, Finite, DataSchema, SaveAgentVariableData
    <2>7. ReadInv'
      BY <1>1, <1>2, <1>9 DEF ReadInv
    <2>8. \A b \in Types : \A v \in Names(b) : Len(memory'[b][v]) = Len(memory[b][v])
      BY <2>1, <2>4
    <2>9. SizeOf' = SizeOf
      <3>1. \A b \in Types : Min(Names(b)) \in Names(b)
        BY FirstName
      <3>2. \A b \in Types : FirstSize(b)' = FirstSize(b)
        BY <2>8, <3>1 DEF FirstSize, Names
      <3>. QED
        BY <3>2 DEF SizeOf
    <2>10. PICK size : size = SizeOf
      OBVIOUS
    <2>11. ASSUME OwnVariables(file) PROVE JobsOK(js, size) /\ JobsOK(kk, size)
      <3>1. JobsOK(js, size)
        BY <1>1, <2>1, <2>10, <2>11 DEF RunInv
      <3>2. js \in Seq(Job) /\ i \in 1..Len(js) /\ js[i].pos # -1
        BY <1>3, <1>5, <2>1
      <3>3. ~js[i].split => js[i].count = size[js[i].agent]
        BY <3>1, <3>2 DEF JobsOK
      <3>4. /\ js[i].split => kk[i].count = js[i].count
            /\ ~js[i].split => kk[i].count = size[js[i].agent]
            /\ kk[i].pos <= kk[i].count
        BY <1>4, <1>5, <2>1, <2>3, <3>3
      <3>5. JobsOK(kk, size)
        BY <2>3, <3>1, <3>2, <3>4, JobMoves
      <3>. QED
        BY <3>1, <3>5
    <2>12. ASSUME OwnVariables(file), NEW b \in Types, NEW r \in Nat
           PROVE  /\ RowDone(kk, b, r) <=> RowDone(js, b, r) \/ (b = a /\ r = row)
                  /\ ~RowDone(js, a, row)
      <3>1. /\ js \in Seq(Job) /\ i \in 1..Len(js) /\ js[i].agent = a /\ js[i].offset \in Nat
            /\ js[i].pos \in Nat /\ row = js[i].offset + js[i].pos + 1 /\ kk[i].pos = js[i].pos + 1
        BY <1>3, <1>4, <1>5, <2>1, <2>3
      <3>2. Passed(kk[i], r) <=> Passed(js[i], r) \/ r = row
        <4>1. PICK o \in Nat, q \in Nat : o = js[i].offset /\ q = js[i].pos
          BY <3>1
        <4>2. /\ kk[i].offset = o /\ kk[i].pos = q + 1 /\ row = o + q + 1
          BY <2>3, <3>1, <4>1
        <4>3. (o < r /\ r <= o + (q + 1)) <=> (o < r /\ r <= o + q) \/ r = o + q + 1
          OBVIOUS
        <4>. QED
          BY <4>1, <4>2, <4>3 DEF Passed
      <3>3. RowDone(kk, b, r) <=> RowDone(js, b, r) \/ (b = a /\ r = row)
        BY <2>3, <3>1, <3>2 DEF RowDone
      <3>4. ASSUME RowDone(js, a, row) PROVE FALSE
        <4>1. PICK k \in 1..Len(js) : js[k].agent = a /\ Passed(js[k], row)
          BY <3>4 DEF RowDone
        <4>2. k # i
          BY <3>1, <4>1 DEF Passed
        <4>3. JobsOK(js, size) /\ JobsOK(kk, size)
          BY <2>11, <2>12
        <4>4. size[a] \in Nat
          BY <1>1, <1>5, <2>10, SizeNat DEF SizeOf, TypeInv
        <4>5. row \in RowsOf(js[k], size)
          BY <1>5, <3>1, <4>1, <4>3, <4>4, PassedRows
        <4>6. Passed(kk[i], row) /\ kk[i].agent = a
          BY <1>5, <2>3, <3>1 DEF Passed
        <4>7. row \in RowsOf(kk[i], size)
          BY <1>5, <2>3, <3>1, <4>3, <4>4, <4>6, PassedRows
        <4>8. kk[k] = js[k] /\ kk[k].agent = kk[i].agent
          BY <2>3, <4>1, <4>2, <4>6
        <4>9. \A x, y \in 1..Len(kk) : x # y /\ kk[x].agent = kk[y].agent =>
                RowsOf(kk[x], size) \intersect RowsOf(kk[y], size) = {}
          BY <4>3 DEF JobsOK
        <4>. QED
          BY <2>3, <3>1, <4>2, <4>5, <4>7, <4>8, <4>9
      <3>. QED
        BY <3>3, <3>4
    <2>13. ASSUME OwnVariables(file), NEW b \in Types, NEW v \in Names(b), NEW r \in 1..Len(m[b][v])
           PROVE  mm[b][v][r] = IF v \in Writes[b] /\ RowDone(kk, b, r)
                                THEN Computed(TypeOf(b, v), before[b][v][r]) ELSE before[b][v][r]
      <3>1. PICK x, y : x = before[b][v][r] /\ y = Computed(TypeOf(b, v), x)
        OBVIOUS
      <3>2. m[b][v][r] = IF v \in Writes[b] /\ RowDone(js, b, r) THEN y ELSE x
        BY <1>1, <2>1, <2>13, <3>1 DEF RunInv, RowInv
      <3>3. r \in Nat
        OBVIOUS
      <3>4. /\ RowDone(kk, b, r) <=> RowDone(js, b, r) \/ (b = a /\ r = row)
            /\ ~RowDone(js, a, row)
        BY <2>12, <2>13, <3>3
      <3>5. CASE b = a
        <4>1. mm[a][v][r] = IF v \in W /\ r = row THEN Computed(TypeOf(a, v), m[a][v][r]) ELSE m[a][v][r]
          BY <2>4, <2>13, <3>5
        <4>2. v \in W /\ r = row => m[a][v][r] = x
          BY <3>2, <3>4, <3>5
        <4>3. mm[a][v][r] = IF v \in W /\ r = row THEN y ELSE m[a][v][r]
          BY <3>1, <3>5, <4>1, <4>2
        <4>. QED
          BY <2>1, <3>1, <3>2, <3>4, <3>5, <4>3
      <3>6. CASE b # a
        BY <2>4, <3>1, <3>2, <3>4, <3>6
      <3>. QED
        BY <3>5, <3>6
    <2>14. OwnVariables(file) => RowInv'
      <3> SUFFICES ASSUME OwnVariables(file) PROVE RowInv'
        OBVIOUS
      <3>1. \A b \in Types : \A v \in Names(b) : Len(memory'[b][v]) = Len(before'[b][v])
        BY <1>1, <1>2, <2>8 DEF RunInv, RowInv
      <3>. QED
        BY <1>2, <2>1, <2>8, <2>13, <3>1 DEF RowInv
    <2>15. OwnVariables(file) => JobsOK(jobs', SizeOf')
      BY <2>1, <2>9, <2>10, <2>11
    <2>16. OwnVariables(file) => Even(memory')
      BY <1>1, <2>8 DEF RunInv, Even
    <2>17. RunInv'
      BY <1>1, <1>2, <1>9, <2>14, <2>15, <2>16 DEF RunInv, OwnVariables, Even
    <2>. QED
      BY <1>9, <2>5, <2>6, <2>7, <2>17, NotEnded DEF IInv
  <1>. QED
    BY <1>7, <1>8, <1>9

-----------------------------------------------------------------------------
(***************************************************************************)
(* Writing.                                                                *)
(***************************************************************************)

\* Counting in two files that are put together.
LEMMA CountConcat ==
  ASSUME NEW X, NEW s \in Seq(X), NEW t \in Seq(X), NEW a
  PROVE  Count(s \o t, a, Len(s \o t)) = Count(s, a, Len(s)) + Count(t, a, Len(t))
  <1>1. PICK u, m, n : u = s \o t /\ m = Len(s) /\ n = Len(t)
    OBVIOUS
  <1>2. m \in Nat /\ n \in Nat
    BY <1>1
  <1>3. Len(u) = m + n /\ \A i \in 1..(m + n) : u[i] = IF i <= m THEN s[i] ELSE t[i - m]
    BY <1>1, ConcatProperties
  <1>7. \A g : \A i \in Nat : Count(g, a, i) \in Nat /\ Count(g, a, 0) = 0
    BY CountFacts, 1 \in Nat \ {0}
  <1> DEFINE Bad == {k \in 0..n : Count(u, a, m + k) # Count(s, a, m) + Count(t, a, k)}
  <1>4. ASSUME Bad # {} PROVE FALSE
    <2>1. PICK k \in Bad : \A l \in Bad : k <= l
      <3>1. Bad \in SUBSET Nat
        OBVIOUS
      <3> HIDE DEF Bad
      <3>. QED
        BY <1>4, <3>1, LeastNumber
    <2>2. k \in 0..n /\ Count(u, a, m + k) # Count(s, a, m) + Count(t, a, k)
      OBVIOUS
    <2>3. k # 0
      <3>1. ASSUME k = 0 PROVE FALSE
        <4>1. \A i \in 1..m : u[i] = s[i]
          BY <1>2, <1>3
        <4>2. {i \in 1..m : u[i].name = a} = {i \in 1..m : s[i].name = a}
          BY <4>1
        <4>3. Count(u, a, m) = Count(s, a, m)
          BY <4>2 DEF Count
        <4>4. Count(t, a, 0) = 0 /\ Count(s, a, m) \in Nat
          BY <1>2, <1>7
        <4>. QED
          BY <1>2, <2>2, <3>1, <4>3, <4>4
      <3>. QED
        BY <3>1
    <2>4. k - 1 \in 0..n /\ ~(k <= k - 1)
      BY <1>2, <2>2, <2>3
    <2>5. k - 1 \notin Bad
      BY <2>1, <2>4
    <2>6. Count(u, a, m + (k - 1)) = Count(s, a, m) + Count(t, a, k - 1)
      BY <2>4, <2>5
    <2>7. m + k \in Nat \ {0} /\ (m + k) - 1 = m + (k - 1) /\ k \in Nat \ {0}
      BY <1>2, <2>2, <2>3
    <2>8. u[m + k] = t[k]
      BY <1>2, <1>3, <2>2, <2>3
    <2>9. /\ u[m + k].name = a => Count(u, a, m + k) = Count(u, a, m + (k - 1)) + 1
          /\ u[m + k].name # a => Count(u, a, m + k) = Count(u, a, m + (k - 1))
      <3>1. PICK q \in Nat \ {0} : q = m + k
        BY <2>7
      <3>2. /\ u[q].name = a => Count(u, a, q) = Count(u, a, q - 1) + 1
            /\ u[q].name # a => Count(u, a, q) = Count(u, a, q - 1)
        BY CountFacts, 0 \in Nat
      <3>. QED
        BY <2>7, <3>1, <3>2
    <2>10. /\ t[k].name = a => Count(t, a, k) = Count(t, a, k - 1) + 1
           /\ t[k].name # a => Count(t, a, k) = Count(t, a, k - 1)
      BY <2>7, CountFacts
    <2>11. Count(s, a, m) \in Nat /\ Count(t, a, k - 1) \in Nat
      BY <1>2, <1>7, <2>4
    <2>. QED
      BY <2>2, <2>6, <2>8, <2>9, <2>10, <2>11
  <1>5. n \in 0..n /\ Bad = {}
    BY <1>2, <1>4
  <1>6. Count(u, a, m + n) = Count(s, a, m) + Count(t, a, n)
    BY <1>5
  <1>. QED
    BY <1>1, <1>3, <1>6

\* A file with agents of one type only.
LEMMA CountUniform ==
  ASSUME NEW f, NEW n \in Nat, NEW a, NEW b, \A k \in 1..n : f[k].name = b
  PROVE  Count(f, a, n) = IF a = b THEN n ELSE 0
  <1>1. CASE a = b
    <2>1. {k \in 1..n : f[k].name = a} = 1..n
      BY <1>1
    <2>2. Cardinality(1..n) = n
      BY FS_Interval
    <2>. QED
      BY <1>1, <2>1, <2>2 DEF Count
  <1>2. CASE a # b
    <2>1. {k \in 1..n : f[k].name = a} = {}
      BY <1>2
    <2>. QED
      BY <1>2, <2>1, FS_EmptySet DEF Count
  <1>. QED
    BY <1>1, <1>2

\* Files that are put together can be read when both can.
LEMMA WrittenConcat ==
  ASSUME NEW s \in Seq(AgentEntry), NEW t \in Seq(AgentEntry), AsWritten(s), AsWritten(t)
  PROVE  s \o t \in Seq(AgentEntry) /\ AsWritten(s \o t)
  <1>1. PICK u, m, n, X : u = s \o t /\ m = Len(s) /\ n = Len(t) /\ X = AgentEntry
    OBVIOUS
  <1>2. /\ u \in Seq(X) /\ Len(u) = m + n /\ m \in Nat /\ n \in Nat
        /\ \A i \in 1..(m + n) : u[i] = IF i <= m THEN s[i] ELSE t[i - m]
    BY <1>1, ConcatProperties
  <1>3. ASSUME NEW i \in 1..(m + n)
        PROVE  (\E k \in 1..m : u[i] = s[k]) \/ (\E k \in 1..n : u[i] = t[k])
    <2>1. CASE i <= m
      BY <1>2, <2>1
    <2>2. CASE ~(i <= m)
      <3>1. i - m \in 1..n
        BY <1>2, <2>2
      <3>. QED
        BY <1>2, <2>2, <3>1
    <2>. QED
      BY <2>1, <2>2
  <1>4. AsWritten(u)
    <2> SUFFICES ASSUME NEW i \in 1..(m + n)
                 PROVE  /\ u[i].name \in Types
                        /\ [j \in DOMAIN u[i].texts |-> u[i].texts[j].var] = NamesOf(u[i].name)
                        /\ \A j \in DOMAIN u[i].texts : AsPrinted(u[i].texts[j].text)
      BY <1>2 DEF AsWritten
    <2>1. CASE \E k \in 1..m : u[i] = s[k]
      BY <1>1, <2>1 DEF AsWritten
    <2>2. CASE \E k \in 1..n : u[i] = t[k]
      BY <1>1, <2>2 DEF AsWritten
    <2>. QED
      BY <1>3, <2>1, <2>2
  <1>. QED
    BY <1>1, <1>2, <1>4

\* The agents of one type as writeAgents() writes them.
LEMMA RowsFacts ==
  ASSUME TypeInv, agentVarMap = SaveAgentVariableData, NEW a \in Types, ~WriteFails(a)
  PROVE  /\ Rows(a) \in Seq(AgentEntry) /\ AsWritten(Rows(a))
         /\ Len(Rows(a)) = RowCount(NamesOf(a), memory[a]) /\ RowCount(NamesOf(a), memory[a]) \in Nat
         /\ \A i \in 1..Len(Rows(a)) : Rows(a)[i].name = a
  <1>1. PICK vs, m, n : vs = NamesOf(a) /\ m = memory[a] /\ n = RowCount(vs, m)
    OBVIOUS
  <1>2. agentVarMap[a] = vs
    BY <1>1 DEF SaveAgentVariableData, Types
  <1>3. /\ vs \in Seq(Nat) /\ Len(vs) \in Nat \ {0} /\ DOMAIN vs = 1..Len(vs)
        /\ Names(a) = {vs[k] : k \in 1..Len(vs)}
    BY <1>1, NameFacts
  <1>4. m \in [Names(a) -> Seq(Value)]
    BY <1>1 DEF TypeInv, IsMemory
  <1>5. n \in Nat
    <2>1. Last(vs) \in Names(a)
      BY <1>3 DEF Last
    <2>2. PICK s : s = m[Last(vs)]
      OBVIOUS
    <2>3. s \in Seq(Value)
      BY <1>4, <2>1, <2>2
    <2>. QED
      BY <1>1, <2>2, <2>3 DEF RowCount
  <1>6. ASSUME NEW k \in 1..Len(vs), NEW i \in 1..n PROVE m[vs[k]][i] \in Value
    <2>1. vs[k] \in Names(a) /\ vs[k] \in Range(vs)
      BY <1>3 DEF Range
    <2>2. PICK s : s = m[vs[k]]
      OBVIOUS
    <2>3. s \in Seq(Value)
      BY <1>4, <2>1, <2>2
    <2>4. ~(Len(s) < n)
      BY <1>1, <1>2, <2>1, <2>2 DEF WriteFails
    <2>5. i \in 1..Len(s)
      BY <1>5, <2>3, <2>4
    <2>. QED
      BY <2>2, <2>3, <2>5
  <1>7. PICK rows : rows = Rows(a)
    OBVIOUS
  <1>8. rows = [i \in 1..n |-> [name |-> a, texts |-> [k \in 1..Len(vs) |->
                  [var |-> vs[k], text |-> Written(TypeOf(a, vs[k]), m[vs[k]][i])]]]]
    BY <1>1, <1>2, <1>3, <1>7 DEF Rows
  <1>9. ASSUME NEW i \in 1..n
        PROVE  /\ rows[i] \in AgentEntry /\ rows[i].name = a
               /\ [j \in DOMAIN rows[i].texts |-> rows[i].texts[j].var] = vs
               /\ \A j \in DOMAIN rows[i].texts : AsPrinted(rows[i].texts[j].text)
    <2>1. PICK T : T = [var : Nat, text : TextOf]
      OBVIOUS
    <2>2. PICK x : x = [k \in 1..Len(vs) |->
                          [var |-> vs[k], text |-> Written(TypeOf(a, vs[k]), m[vs[k]][i])]]
      OBVIOUS
    <2>3. rows[i] = [name |-> a, texts |-> x]
      BY <1>8, <2>2
    <2>4. ASSUME NEW k \in 1..Len(vs)
          PROVE  x[k] \in T /\ x[k].var = vs[k] /\ AsPrinted(x[k].text)
      <3>1. PICK y \in TextOf : y = Written(TypeOf(a, vs[k]), m[vs[k]][i]) /\ AsPrinted(y)
        BY <1>6, Values
      <3>2. x[k] = [var |-> vs[k], text |-> y] /\ vs[k] \in Nat
        BY <1>3, <2>2, <3>1
      <3>. QED
        BY <2>1, <3>1, <3>2
    <2>5. x \in [1..Len(vs) -> T] /\ DOMAIN x = 1..Len(vs)
      BY <2>2, <2>4
    <2>6. x \in Seq(T)
      BY <1>3, <2>5
    <2>7. a \in STRING
      BY PopulationAssumption DEF Types
    <2>8. rows[i] \in AgentEntry
      BY <2>1, <2>3, <2>6, <2>7 DEF AgentEntry
    <2>9. rows[i].texts = x /\ rows[i].name = a
      BY <2>3
    <2>10. [j \in 1..Len(vs) |-> x[j].var] = vs
      BY <1>3, <2>4
    <2>. QED
      BY <2>4, <2>5, <2>8, <2>9, <2>10
  <1>10. rows \in [1..n -> AgentEntry]
    BY <1>8, <1>9
  <1>11. rows \in Seq(AgentEntry) /\ Len(rows) = n
    BY <1>5, <1>10
  <1>12. AsWritten(rows)
    BY <1>1, <1>9, <1>11 DEF AsWritten
  <1>. QED
    BY <1>1, <1>5, <1>7, <1>9, <1>11, <1>12

\* The file of an iteration: the agents of all types, type by type.
LEMMA FileWritten ==
  ASSUME TypeInv, agentVarMap = SaveAgentVariableData, \A a \in Types : ~WriteFails(a),
         NEW out, out = FlattenSeq([i \in 1..Cardinality(Types) |-> Rows(SetToSeq(Types)[i])])
  PROVE  /\ out \in Seq(AgentEntry) /\ AsWritten(out)
         /\ \A a \in Types : Count(out, a, Len(out)) = RowCount(NamesOf(a), memory[a])
  <1>1. PICK n, s, ss : /\ n = Cardinality(Types) /\ s = SetToSeq(Types)
                        /\ ss = [i \in 1..n |-> Rows(s[i])]
    OBVIOUS
  <1>2. /\ n \in Nat /\ s \in [1..n -> Types]
        /\ \A i, j \in 1..n : s[i] = s[j] => i = j
        /\ \A a \in Types : \E i \in 1..n : s[i] = a
    BY <1>1, TypeSequence
  <1>3. ASSUME NEW i \in 1..n
        PROVE  /\ s[i] \in Types /\ ss[i] \in Seq(AgentEntry) /\ AsWritten(ss[i])
               /\ Len(ss[i]) = RowCount(NamesOf(s[i]), memory[s[i]]) /\ Len(ss[i]) \in Nat
               /\ \A k \in 1..Len(ss[i]) : ss[i][k].name = s[i]
    <2>1. s[i] \in Types /\ ss[i] = Rows(s[i])
      BY <1>1, <1>2
    <2>. QED
      BY <2>1, RowsFacts
  <1>4. ss \in [1..n -> Seq(AgentEntry)]
    BY <1>1, <1>3
  <1>5. out = FlattenSeq(ss)
    BY <1>1
  <1>6. CASE n = 0
    <2>1. ss \in Seq(Seq(AgentEntry)) /\ Len(ss) = 0
      BY <1>2, <1>4, <1>6
    <2>2. ss = <<>> /\ FlattenSeq(ss) = ss
      BY <2>1, EmptySeq DEF FlattenSeq
    <2>3. out = <<>>
      BY <1>5, <2>2
    <2>4. out \in Seq(AgentEntry) /\ Len(out) = 0
      BY <2>3
    <2>5. AsWritten(out)
      BY <2>4 DEF AsWritten
    <2>6. Types = {}
      BY <1>2, <1>6
    <2>. QED
      BY <2>4, <2>5, <2>6
  <1>7. CASE n # 0
    <2>1. PICK f : Concatenates(f, ss, n) /\ FlattenSeq(ss) = f[n]
      BY <1>2, <1>4, <1>7, FlattenConcatenates
    <2> DEFINE Good(m) ==
          /\ f[m] \in Seq(AgentEntry) /\ AsWritten(f[m])
          /\ \A i \in 1..n : Count(f[m], s[i], Len(f[m])) = IF i <= m THEN Len(ss[i]) ELSE 0
               Bad == {m \in 1..n : ~Good(m)}
    <2>2. ASSUME Bad # {} PROVE FALSE
      <3>1. PICK m \in Bad : \A k \in Bad : m <= k
        <4>1. Bad \in SUBSET Nat
          OBVIOUS
        <4> HIDE DEF Bad
        <4>. QED
          BY <2>2, <4>1, LeastNumber
      <3>2. m \in 1..n /\ ~Good(m)
        OBVIOUS
      <3>3. f[m] = IF m = 1 THEN ss[m] ELSE f[m - 1] \o ss[m]
        BY <2>1, <3>2 DEF Concatenates
      <3>4. PICK t : t = ss[m]
        OBVIOUS
      <3>5. t \in Seq(AgentEntry) /\ AsWritten(t) /\ Len(t) \in Nat
        BY <1>3, <3>2, <3>4
      <3>6. ASSUME NEW i \in 1..n PROVE Count(t, s[i], Len(t)) = IF i = m THEN Len(ss[i]) ELSE 0
        <4>1. \A k \in 1..Len(t) : t[k].name = s[m]
          BY <1>3, <3>2, <3>4
        <4>2. Count(t, s[i], Len(t)) = IF s[i] = s[m] THEN Len(t) ELSE 0
          BY <3>5, <4>1, CountUniform
        <4>. QED
          BY <1>2, <3>2, <3>4, <4>2
      <3>7. CASE m = 1
        <4>1. \A i \in 1..n : i <= m <=> i = m
          BY <3>7
        <4>2. f[m] = t
          BY <3>3, <3>4, <3>7
        <4>3. Good(m)
          BY <3>5, <3>6, <4>1, <4>2
        <4>. QED
          BY <3>2, <4>3
      <3>8. CASE m # 1
        <4>1. m - 1 \in 1..n /\ ~(m <= m - 1) /\ \A i \in 1..n : i <= m <=> i <= m - 1 \/ i = m
          BY <1>2, <3>2, <3>8
        <4>2. Good(m - 1)
          BY <3>1, <4>1
        <4>3. PICK u : u = f[m - 1]
          OBVIOUS
        <4>4. /\ u \in Seq(AgentEntry) /\ AsWritten(u) /\ f[m] = u \o t
              /\ \A i \in 1..n : Count(u, s[i], Len(u)) = IF i <= m - 1 THEN Len(ss[i]) ELSE 0
          BY <3>3, <3>4, <3>8, <4>2, <4>3
        <4>5. u \o t \in Seq(AgentEntry) /\ AsWritten(u \o t)
          BY <3>5, <4>4, WrittenConcat
        <4>6. ASSUME NEW i \in 1..n PROVE Count(f[m], s[i], Len(f[m])) = IF i <= m THEN Len(ss[i]) ELSE 0
          <5>1. Count(u \o t, s[i], Len(u \o t)) = Count(u, s[i], Len(u)) + Count(t, s[i], Len(t))
            BY <3>5, <4>4, CountConcat
          <5>2. Len(ss[i]) \in Nat
            BY <1>3
          <5>3. i <= m - 1 => i # m
            BY <3>2
          <5>. QED
            BY <3>6, <4>1, <4>4, <5>1, <5>2, <5>3
        <4>7. Good(m)
          BY <4>4, <4>5, <4>6
        <4>. QED
          BY <3>2, <4>7
      <3>. QED
        BY <3>7, <3>8
    <2>3. n \in 1..n /\ Bad = {}
      BY <1>2, <1>7, <2>2
    <2>4. Good(n)
      BY <2>3
    <2>5. out = f[n]
      BY <1>5, <2>1
    <2>6. ASSUME NEW a \in Types PROVE Count(out, a, Len(out)) = RowCount(NamesOf(a), memory[a])
      <3>1. PICK i \in 1..n : s[i] = a
        BY <1>2
      <3>2. i <= n
        BY <1>2
      <3>3. Count(out, s[i], Len(out)) = Len(ss[i])
        BY <2>4, <2>5, <3>2
      <3>. QED
        BY <1>3, <3>1, <3>3
    <2>. QED
      BY <2>4, <2>5, <2>6
  <1>. QED
    BY <1>2, <1>6, <1>7

\* When every task has passed its last agent, every row has been passed.
LEMMA AllPassed ==
  ASSUME NEW js \in Seq(Job), NEW size, JobsOK(js, size), \A a \in Types : size[a] \in Nat,
         \A i \in 1..Len(js) : js[i].pos = js[i].count,
         NEW a \in Types, NEW row \in 1..size[a]
  PROVE  RowDone(js, a, row)
  <1>1. PICK i \in 1..Len(js) : js[i].agent = a /\ row \in RowsOf(js[i], size)
    BY DEF JobsOK
  <1>2. PICK j : j = js[i]
    OBVIOUS
  <1>3. j \in Job
    BY <1>2
  <1>4. j.offset \in Nat /\ j.count \in Nat /\ j.split \in BOOLEAN /\ j.pos = j.count
    BY <1>2, <1>3 DEF Job
  <1>5. /\ ~j.split => j.offset = 0
        /\ ~j.split /\ j.pos # -1 => j.count = size[j.agent]
    BY <1>2 DEF JobsOK
  <1>6. j.offset < row /\ row <= j.offset + j.count
    <2>1. CASE j.split
      BY <1>1, <1>2, <1>4, <2>1 DEF RowsOf
    <2>2. CASE ~j.split
      BY <1>1, <1>2, <1>4, <1>5, <2>2 DEF RowsOf
    <2>. QED
      BY <1>4, <2>1, <2>2
  <1>7. Passed(j, row)
    BY <1>4, <1>6 DEF Passed
  <1>. QED
    BY <1>1, <1>2, <1>7 DEF RowDone

\* In even memory writeAgents() finds as many agents as there are rows.
LEMMA RowsCounted ==
  ASSUME IsMemory(memory), Even(memory), NEW a \in Types
  PROVE  RowCount(NamesOf(a), memory[a]) = FirstSize(a)
  <1>1. PICK vs, m, n : vs = NamesOf(a) /\ m = memory[a] /\ n = FirstSize(a)
    OBVIOUS
  <1>2. /\ vs \in Seq(Nat) /\ Len(vs) \in Nat \ {0} /\ DOMAIN vs = 1..Len(vs)
        /\ Names(a) = {vs[k] : k \in 1..Len(vs)} /\ Range(vs) = Names(a)
    BY <1>1, NameFacts DEF Names
  <1>3. \A v \in Names(a) : Len(m[v]) = n /\ m[v] \in Seq(Value)
    BY <1>1, EvenSize DEF IsMemory
  <1>4. Last(vs) \in Names(a)
    BY <1>2 DEF Last
  <1>5. CASE \E v \in Range(vs) : m[v] = <<>>
    <2>1. PICK v \in Names(a) : m[v] = <<>>
      BY <1>2, <1>5
    <2>2. n = 0
      BY <1>3, <2>1
    <2>. QED
      BY <1>1, <1>5, <2>2 DEF RowCount
  <1>6. CASE ~\E v \in Range(vs) : m[v] = <<>>
    BY <1>1, <1>3, <1>4, <1>6 DEF RowCount
  <1>. QED
    BY <1>5, <1>6

\* At the end of the iteration each function has been applied once to each agent.
LEMMA IterationEnds ==
  ASSUME IInv, phase = "running", OwnVariables(file),
         \A i \in 1..Len(jobs) : jobs[i].pos = jobs[i].count,
         NEW a \in Types, NEW v \in Names(a)
  PROVE  memory[a][v] = [i \in DOMAIN before[a][v] |->
                           IF v \in Writes[a] THEN Computed(TypeOf(a, v), before[a][v][i]) ELSE before[a][v][i]]
  <1>1. TypeInv /\ JobsOK(jobs, SizeOf) /\ RowInv /\ Even(memory)
    BY DEF IInv, RunInv
  <1>2. PICK s, t, l, d : /\ s = memory[a][v] /\ t = before[a][v] /\ l = Len(s) /\ d = TypeOf(a, v)
    OBVIOUS
  <1>3. s \in Seq(Value) /\ t \in Seq(Value) /\ l \in Nat /\ Len(t) = l
    <2>1. s \in Seq(Value) /\ t \in Seq(Value)
      BY <1>1, <1>2 DEF TypeInv, IsMemory
    <2>2. Len(t) = l
      BY <1>1, <1>2 DEF RowInv
    <2>. QED
      BY <1>2, <2>1, <2>2
  <1>4. l = SizeOf[a] /\ \A b \in Types : SizeOf[b] \in Nat
    BY <1>1, <1>2, EvenSize, SizeNat DEF SizeOf, TypeInv
  <1>5. ASSUME NEW row \in 1..l PROVE RowDone(jobs, a, row)
    <2>1. PICK size : size = SizeOf
      OBVIOUS
    <2>2. JobsOK(jobs, size) /\ jobs \in Seq(Job) /\ row \in 1..size[a] /\ \A b \in Types : size[b] \in Nat
      BY <1>1, <1>4, <2>1 DEF TypeInv
    <2>. QED
      BY <2>2, AllPassed
  <1>6. ASSUME NEW row \in 1..l PROVE s[row] = IF v \in Writes[a] THEN Computed(d, t[row]) ELSE t[row]
    BY <1>1, <1>2, <1>5 DEF RowInv
  <1>7. DOMAIN s = 1..l /\ DOMAIN t = 1..l /\ s = [row \in 1..l |-> s[row]]
    BY <1>2, <1>3
  <1>8. s = [row \in 1..l |-> IF v \in Writes[a] THEN Computed(d, t[row]) ELSE t[row]]
    BY <1>6, <1>7
  <1>. QED
    BY <1>2, <1>7, <1>8

\* finaliseData() writes all agents and leaves memory as it is.
LEMMA FinaliseDataStep ==
  ASSUME IInv, FinaliseData PROVE IInv'
  <1>1. TypeInv /\ FileInv /\ ReadInv /\ RunInv /\ phase = "running" /\ iteration > 0
    BY DEF IInv, FinaliseData, RunInv
  <1>2. jobs' = <<>> /\ UNCHANGED <<debug, file, node, agentVarMap, memory, cachedSize, iteration, before, sims>>
    BY DEF FinaliseData
  <1>3. agentVarMap = SaveAgentVariableData
    BY <1>1 DEF FileInv
  <1>4. <<>> \in Seq(Job) /\ iteration \in Nat
    BY <1>1 DEF TypeInv
  <1>5. CASE \E a \in DOMAIN Agents : WriteFails(a)
    <2>1. phase' = "threw" /\ output' = output
      BY <1>5 DEF FinaliseData
    <2>2. TypeInv'
      BY <1>1, <1>2, <1>4, <2>1 DEF TypeInv, IsMemory
    <2>3. FileInv'
      BY <1>1, <1>2, <2>1 DEF FileInv, AsWritten, Finite
    <2>4. ReadInv' /\ RunInv'
      BY <2>1 DEF ReadInv, RunInv
    <2>. QED
      BY <2>1, <2>2, <2>3, <2>4, NotEnded DEF IInv
  <1>6. CASE ~\E a \in DOMAIN Agents : WriteFails(a)
    <2>1. PICK out : out = FlattenSeq([i \in 1..Cardinality(Types) |-> Rows(SetToSeq(Types)[i])])
      OBVIOUS
    <2>2. phase' = "ready" /\ output' = [itno |-> iteration, agents |-> out]
      BY <1>6, <2>1 DEF FinaliseData, Types
    <2>3. /\ out \in Seq(AgentEntry) /\ AsWritten(out)
          /\ \A a \in Types : Count(out, a, Len(out)) = RowCount(NamesOf(a), memory[a])
      <3>1. \A a \in Types : ~WriteFails(a)
        BY <1>6 DEF Types
      <3>. QED
        BY <1>1, <1>3, <2>1, <3>1, FileWritten
    <2>4. output'.agents = out /\ output'.itno = iteration
      BY <2>2
    <2>5. TypeInv'
      BY <1>1, <1>2, <1>4, <2>2, <2>3, <2>4 DEF TypeInv, IsMemory
    <2>6. FileInv'
      <3>1. AsWritten(output'.agents)
        BY <2>3, <2>4
      <3>2. DataSchema(file)
        BY <1>1 DEF FileInv
      <3>. QED
        BY <1>1, <1>2, <1>3, <2>2, <3>1, <3>2 DEF FileInv, AsWritten, DataSchema, SaveAgentVariableData
    <2>7. ReadInv'
      BY <1>1, <1>2, <1>4, <2>2 DEF ReadInv
    <2>8. RunInv'
      BY <1>1, <1>2, <2>2 DEF RunInv, OwnVariables, Even
    <2>9. EachAgentOnce'
      <3>1. \A i \in 1..Len(jobs) : jobs[i].pos = jobs[i].count
        <4>1. DOMAIN jobs = 1..Len(jobs)
          BY <1>1 DEF TypeInv
        <4>. QED
          BY <4>1 DEF FinaliseData
      <3>2. OwnVariables(file) => \A a \in Types : \A v \in Names(a) :
              memory[a][v] = [i \in DOMAIN before[a][v] |->
                                IF v \in Writes[a] THEN Computed(TypeOf(a, v), before[a][v][i]) ELSE before[a][v][i]]
        BY <1>1, <3>1, IterationEnds
      <3>. QED
        BY <1>2, <3>2 DEF EachAgentOnce, OwnVariables, Types, Names
    <2>10. AllWritten'
      <3>1. OwnVariables(file) => \A a \in Types : RowCount(NamesOf(a), memory[a]) = FirstSize(a)
        BY <1>1, RowsCounted DEF RunInv, TypeInv
      <3>2. OwnVariables(file) => \A a \in Types : Count(out, a, Len(out)) = FirstSize(a)
        BY <2>3, <3>1
      <3>3. \A a \in Types : FirstSize(a)' = FirstSize(a)
        BY <1>2 DEF FirstSize
      <3>. QED
        BY <1>2, <2>4, <3>2, <3>3 DEF AllWritten, OwnVariables, Types, Count
    <2>. QED
      BY <2>5, <2>6, <2>7, <2>8, <2>9, <2>10 DEF IInv
  <1>. QED
    BY <1>5, <1>6

-----------------------------------------------------------------------------
(***************************************************************************)
(* The theorems.                                                           *)
(***************************************************************************)

\* A step that leaves the variables alone.
LEMMA StutterStep ==
  ASSUME IInv, UNCHANGED vars PROVE IInv'
  <1>1. UNCHANGED <<debug, phase, file, node, agentVarMap, output, memory, cachedSize, iteration,
                    jobs, before, sims>>
    BY DEF vars, popVars
  <1>2. TypeInv' /\ FileInv'
    BY <1>1 DEF IInv, TypeInv, FileInv, IsMemory, AsWritten, DataSchema, SaveAgentVariableData
  <1>3. ReadInv'
    BY <1>1 DEF IInv, ReadInv
  <1>4. SizeOf' = SizeOf
    BY <1>1 DEF SizeOf, FirstSize
  <1>5. RunInv'
    <2>1. RowInv => RowInv'
      BY <1>1 DEF RowInv, RowDone, Passed
    <2>2. JobsOK(jobs, SizeOf) => JobsOK(jobs', SizeOf')
      BY <1>1, <1>4
    <2>. QED
      BY <1>1, <2>1, <2>2 DEF IInv, RunInv, OwnVariables, Even
  <1>6. EachAgentOnce'
    BY <1>1 DEF IInv, EachAgentOnce, OwnVariables
  <1>7. AllWritten'
    BY <1>1 DEF IInv, AllWritten, OwnVariables, Count, FirstSize
  <1>. QED
    BY <1>2, <1>3, <1>5, <1>6, <1>7 DEF IInv

\* The invariant holds in every state of every simulation.
THEOREM PopulationInvariant == Spec => []IInv
  <1>1. Init => IInv
    BY InitInv
  <1>2. IInv /\ [Next]_vars => IInv'
    <2> SUFFICES ASSUME IInv, [Next]_vars PROVE IInv'
      OBVIOUS
    <2>1. CASE NewSimulation
      BY <2>1, NewSimulationStep
    <2>2. CASE ReadText
      BY <2>2, ReadTextStep
    <2>3. CASE EndAgent
      BY <2>3, EndAgentStep
    <2>4. CASE EndRead
      BY <2>4, EndReadStep
    <2>5. CASE BeginIteration
      BY <2>5, BeginIterationStep
    <2>6. CASE FinaliseData
      BY <2>6, FinaliseDataStep
    <2>7. ASSUME NEW i \in DOMAIN jobs, NewIterator(i) PROVE IInv'
      BY <2>7, NewIteratorStep
    <2>8. ASSUME NEW i \in DOMAIN jobs, RunAgent(i) PROVE IInv'
      BY <2>8, RunAgentStep
    <2>9. CASE UNCHANGED vars
      BY <2>9, StutterStep
    <2>. QED
      BY <2>1, <2>2, <2>3, <2>4, <2>5, <2>6, <2>7, <2>8, <2>9 DEF Next
  <1>. QED
    BY <1>1, <1>2, PTL DEF Spec

\* When the reader is behind the last agent, every text has been taken: the vectors hold
\* the population of the file.
LEMMA ReadIsFile ==
  ASSUME IInv PROVE PopulationRead
  <1> SUFFICES ASSUME phase = "ready", iteration = 0, OwnVariables(file), NEW a \in Types, NEW v \in Names(a)
               PROVE  /\ Len(memory[a][v]) = Count(file, a, Len(file))
                      /\ \A k \in DOMAIN file : file[k].name = a =>
                           memory[a][v][Count(file, a, k)] = ValueIn(file[k], v)
    BY DEF PopulationRead, Types, Names
  <1>1. TypeInv /\ ReadInv
    BY DEF IInv
  <1>2. node[1] \in Nat /\ node[1] > Len(file) /\ Len(file) \in Nat /\ DOMAIN file = 1..Len(file)
    BY <1>1 DEF TypeInv, ReadInv
  <1>3. TakenOf(file, node, a, v) = {k \in 1..Len(file) : file[k].name = a}
    BY <1>2 DEF TakenOf, Taken
  <1>4. /\ Len(memory[a][v]) = Cardinality(TakenOf(file, node, a, v))
        /\ \A k \in TakenOf(file, node, a, v) : memory[a][v][Count(file, a, k)] = ValueIn(file[k], v)
    BY <1>1 DEF ReadInv
  <1>. QED
    BY <1>2, <1>3, <1>4 DEF Count

\* readPop(): a population that was read without an exception is the one in the file, for
\* every file whose agents have the variables of their own type.
THEOREM PopulationReadHolds == Spec => []PopulationRead
  <1>1. IInv => PopulationRead
    BY ReadIsFile
  <1>. QED
    BY <1>1, PopulationInvariant, PTL

\* AgentTask::Run() and SplitTask(): at the end of an iteration each agent function has
\* been applied exactly once to each agent, for any number of agents and any interleaving.
THEOREM EachAgentOnceHolds == Spec => []EachAgentOnce
  <1>1. IInv => EachAgentOnce
    BY DEF IInv
  <1>. QED
    BY <1>1, PopulationInvariant, PTL

\* finaliseData(): the file of an iteration holds every agent of every type.
THEOREM AllWrittenHolds == Spec => []AllWritten
  <1>1. IInv => AllWritten
    BY DEF IInv
  <1>. QED
    BY <1>1, PopulationInvariant, PTL

\* validateData() and processTextVariableCast(): reading a file that finaliseData() wrote
\* ends in an exception exactly when one of the values in it is not finite.
THEOREM OutputReadableHolds == Spec => []OutputReadable
  <1>1. IInv => OutputReadable
    <2> SUFFICES ASSUME IInv, sims > 1, iteration = 0 PROVE phase = "threw" <=> ~Finite(file)
      BY DEF OutputReadable
    <2>1. TypeInv /\ FileInv /\ AsWritten(file)
      BY DEF IInv, FileInv
    <2>2. phase # "idle" /\ phase # "threw" => Finite(file)
      <3>1. phase # "idle" /\ phase # "threw" => DataSchema(file)
        BY <2>1 DEF TypeInv, FileInv
      <3>. QED
        BY <2>1, <3>1, WrittenPasses DEF TypeInv
    <2>3. phase # "idle"
      BY <2>1 DEF FileInv
    <2>4. phase = "threw" => ~Finite(file)
      BY <2>1 DEF FileInv
    <2>. QED
      BY <2>2, <2>3, <2>4
  <1>. QED
    BY <1>1, PopulationInvariant, PTL

=============================================================================
