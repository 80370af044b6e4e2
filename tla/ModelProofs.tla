---------------------------- MODULE ModelProofs -----------------------------
(***************************************************************************)
(* Reading, validating and starting a model, for any files and any calls.  *)
(***************************************************************************)
EXTENDS Model, TaskGraphProofs

\* A frame of readXMLModel().
IsFrame(f) ==
  /\ f = [path |-> f.path, pos |-> f.pos, doc |-> f.doc]
  /\ f.pos \in Nat \ {0} /\ f.doc \in Nat

\* Documents: only the top frame may be without one, no two frames share one, and what
\* has not been freed belongs to a frame unless an exception passed by.
DocInv(st, dc, th, rd) ==
  /\ IsSeq(st) /\ \A i \in 1..Len(st) : IsFrame(st[i])
  /\ dc \in Seq({0, 1})
  /\ rd \in {"reading", "loaded", "failed"}
  /\ rd = "reading" /\ th = None => Len(st) # 0
  /\ rd # "reading" => Len(st) = 0
  /\ \A i \in 1..Len(st) :
       /\ st[i].doc <= Len(dc)
       /\ i < Len(st) \/ th # None => st[i].doc # 0
       /\ st[i].doc # 0 => dc[st[i].doc] = 0
  /\ \A i, j \in 1..Len(st) : st[i].doc = st[j].doc => i = j
  /\ rd = "reading" /\ th = None =>
       \A d \in 1..Len(dc) : dc[d] = 0 => \E i \in 1..Len(st) : st[i].doc = d
  /\ rd = "loaded" => \A d \in 1..Len(dc) : dc[d] = 1

\* An element that includes a file.
Includes(e) == e.tag = "model" /\ e.enabled = "true"

ElementsOf(fs, f) == FileOf(fs, f).elements

\* Frames: their files can be read; each but the top is at the element that includes the
\* next.
FrameInv(fs, st) ==
  /\ Len(st) # 0 => st[1].path = Root
  /\ \A i \in 1..Len(st) : st[i].doc = 0 => st[i].pos = 1
  /\ \A i \in 1..Len(st) : st[i].doc # 0 =>
       /\ FileOf(fs, st[i].path) \notin {Missing, Malformed}
       /\ st[i].pos <= Len(ElementsOf(fs, st[i].path)) + 1
  /\ \A i \in 1..Len(st) : i < Len(st) =>
       /\ st[i].pos <= Len(ElementsOf(fs, st[i].path))
       /\ Includes(ElementsOf(fs, st[i].path)[st[i].pos])

\* Included files: a frame has included what its file includes before its place; only
\* the first frame gets past an include of the first file, so another frame for that
\* file never returns.
IncludeInv(fs, st, th, inc) ==
  /\ IsSeq(inc) /\ Injective(inc)
  /\ \A i \in 2..Len(st) : st[i].path \in Elements(inc)
  /\ \A i, j \in 2..Len(st) : st[i].path = st[j].path => i = j
  /\ \A i \in 2..Len(st) : st[i].path = Root => i = Len(st)
  /\ th = None /\ Root \in Elements(inc) => \E i \in 2..Len(st) : st[i].path = Root
  /\ th = None => \A i \in 1..Len(st) : st[i].doc # 0 =>
       \A k \in 1..Len(ElementsOf(fs, st[i].path)) :
         Includes(ElementsOf(fs, st[i].path)[k]) =>
           /\ k < st[i].pos => i = 1 \/ st[i].path # Root
           /\ k < st[i].pos \/ (k = st[i].pos /\ i < Len(st)) =>
                PathOf(st[i].path, ElementsOf(fs, st[i].path)[k].file) \in Elements(inc)

\* The first file and those included.
FileAt(inc, i) == IF i = 1 THEN Root ELSE inc[i - 1]

\* They are the files read, but for the last when it has not been opened.
OnceInv(st, th, rd, rf, inc) ==
  /\ IsSeq(rf)
  /\ rd = "reading" /\ th = None =>
       /\ Len(rf) = IF st[Len(st)].doc = 0 THEN Len(inc) ELSE Len(inc) + 1
       /\ \A i \in 1..Len(rf) : rf[i] = FileAt(inc, i)
       /\ st[Len(st)].doc = 0 => st[Len(st)].path = FileAt(inc, Len(rf) + 1)
  /\ rd = "loaded" => Injective(rf)

\* The fields of XModel.
IsModel(m) ==
  m = [name |-> m.name, constants |-> m.constants, adts |-> m.adts, timeUnits |-> m.timeUnits,
       functionFiles |-> m.functionFiles, agents |-> m.agents, messages |-> m.messages,
       allowed |-> m.allowed, included |-> m.included]

\* The parts of a model are records and sequences of them.
IsVariable(v) ==
  v = [type |-> v.type, suffix |-> v.suffix, name |-> v.name, bracket |-> v.bracket, constant |-> v.constant,
       isDynamicArray |-> v.isDynamicArray, holdsDynamicArray |-> v.holdsDynamicArray]
IsVariables(vs) == IsSeq(vs) /\ \A i \in 1..Len(vs) : IsVariable(vs[i])

IsIOput(io) ==
  io = [message |-> io.message, sort |-> io.sort, random |-> io.random, isRandom |-> io.isRandom,
        filter |-> io.filter]
IsIOputs(ios) == IsSeq(ios) /\ \A i \in 1..Len(ios) : IsIOput(ios[i])

IsFunction(f) ==
  /\ f = [name |-> f.name, current |-> f.current, next |-> f.next, condition |-> f.condition,
          infoAvailable |-> f.infoAvailable, readOnly |-> f.readOnly, readWrite |-> f.readWrite,
          inputs |-> f.inputs, outputs |-> f.outputs, reads |-> f.reads]
  /\ IsSeq(f.condition) /\ IsSeq(f.readOnly) /\ IsSeq(f.readWrite)
  /\ IsIOputs(f.inputs) /\ IsIOputs(f.outputs)
IsFunctions(fs) == IsSeq(fs) /\ \A i \in 1..Len(fs) : IsFunction(fs[i])

IsAgent(a) ==
  /\ a = [name |-> a.name, variables |-> a.variables, functions |-> a.functions, graph |-> a.graph]
  /\ IsVariables(a.variables) /\ IsFunctions(a.functions) /\ IsFunctions(a.graph)
IsAgents(ags) == IsSeq(ags) /\ \A i \in 1..Len(ags) : IsAgent(ags[i])

IsMessage(x) == x = [name |-> x.name, variables |-> x.variables] /\ IsVariables(x.variables)
IsMessages(xs) == IsSeq(xs) /\ \A i \in 1..Len(xs) : IsMessage(xs[i])

IsType(t) ==
  /\ t = [name |-> t.name, holdsDynamicArray |-> t.holdsDynamicArray, variables |-> t.variables]
  /\ IsVariables(t.variables)
IsTypes(ts) == IsSeq(ts) /\ \A i \in 1..Len(ts) : IsType(ts[i])

Shape(m) ==
  /\ IsModel(m)
  /\ IsVariables(m.constants) /\ IsTypes(m.adts) /\ IsAgents(m.agents) /\ IsMessages(m.messages)

\* Agent a has what element e says.
Described(e, a) ==
  /\ a.name = e.name
  /\ \A i \in 1..Len(e.memory) : \E j \in 1..Len(a.variables) : a.variables[j].name = e.memory[i].name
  /\ \A i \in 1..Len(e.functions) : \E j \in 1..Len(a.functions) :
       /\ a.functions[j].name = e.functions[i].name
       /\ a.functions[j].current = e.functions[i].current /\ a.functions[j].next = e.functions[i].next
Covered(m, e) == e.tag = "xagent" => \E i \in 1..Len(m.agents) : Described(e, m.agents[i])

\* Elements: what has been read of a file, and is not still to come in some frame, is in
\* the model.
KeepInv(fs, st, th, rd, rf, m) ==
  rd = "loaded" \/ (rd = "reading" /\ th = None) =>
    \A i \in 1..Len(rf) :
      /\ FileOf(fs, rf[i]) \notin {Missing, Malformed}
      /\ \A k \in 1..Len(ElementsOf(fs, rf[i])) :
           \/ Covered(m, ElementsOf(fs, rf[i])[k])
           \/ \E j \in 1..Len(st) : st[j].doc # 0 /\ st[j].path = rf[i] /\ st[j].pos <= k

ReaderInv ==
  /\ files \in FileSets \/ (files = <<>> /\ Len(stack) = 0 /\ Len(readFiles) = 0)
  /\ DocInv(stack, docs, thrown, reading)
  /\ FrameInv(files, stack)
  /\ Shape(xmodel)
  /\ reading = "reading" => IncludeInv(files, stack, thrown, xmodel.included)
  /\ OnceInv(stack, thrown, reading, readFiles, xmodel.included)
  /\ KeepInv(files, stack, thrown, reading, readFiles, xmodel)
  /\ object # "none" => reading # "reading"

-----------------------------------------------------------------------------
(***************************************************************************)
(* Vectors and stacks.                                                     *)
(***************************************************************************)

\* What a sequence is.
LEMMA SeqFacts ==
  ASSUME NEW s, IsSeq(s)
  PROVE  /\ Len(s) \in Nat /\ DOMAIN s = 1..Len(s) /\ s = [i \in 1..Len(s) |-> s[i]]
         /\ Range(s) = Elements(s) /\ Range(s) = {s[i] : i \in 1..Len(s)}
  <1>1. PICK S : S = Range(s)
    OBVIOUS
  <1>2. s \in Seq(S)
    BY <1>1 DEF IsSeq
  <1>3. Len(s) \in Nat /\ DOMAIN s = 1..Len(s) /\ s = [i \in 1..Len(s) |-> s[i]]
    BY <1>2
  <1>. QED
    BY <1>3 DEF Range, Elements

\* A function on 1..n is a sequence.
LEMMA MakeSeq ==
  ASSUME NEW n \in Nat, NEW s, s = [i \in 1..n |-> s[i]]
  PROVE  IsSeq(s) /\ Len(s) = n
  <1>1. PICK S : S = Range(s)
    OBVIOUS
  <1>2. DOMAIN s = 1..n
    OBVIOUS
  <1>3. \A i \in 1..n : s[i] \in S
    BY <1>1, <1>2 DEF Range
  <1>4. s \in [1..n -> S]
    BY <1>3
  <1>5. s \in Seq(S) /\ Len(s) = n
    BY <1>4
  <1>. QED
    BY <1>1, <1>5 DEF IsSeq

\* t is s without its last element.
Popped(s, t) == IsSeq(t) /\ Len(t) = Len(s) - 1 /\ \A i \in 1..(Len(s) - 1) : t[i] = s[i]

\* t is s with x added at the end.
Pushed(s, t, x) ==
  IsSeq(t) /\ Len(t) = Len(s) + 1 /\ t[Len(s) + 1] = x /\ \A i \in 1..Len(s) : t[i] = s[i]

\* t is s with x at place k.
Replaced(s, t, k, x) ==
  /\ IsSeq(t) /\ Len(t) = Len(s) /\ t[k] = x
  /\ \A i \in 1..Len(s) : i # k => t[i] = s[i]

\* The three ways to change a sequence.
LEMMA FrontPops ==
  ASSUME NEW s, IsSeq(s), Len(s) # 0
  PROVE  Popped(s, Front(s))
  <1>1. PICK n, t : n = Len(s) - 1 /\ t = Front(s)
    OBVIOUS
  <1>2. n \in Nat /\ s \in Seq(Range(s))
    BY <1>1, SeqFacts DEF IsSeq
  <1>3. t = [i \in 1..n |-> s[i]]
    <2>1. SubSeq(s, 1, n) = [i \in 1..(n - 1 + 1) |-> s[1 + i - 1]]
      BY <1>2
    <2>2. \A i \in 1..n : 1 + i - 1 = i
      BY <1>2
    <2>3. n - 1 + 1 = n
      BY <1>2
    <2>4. SubSeq(s, 1, n) = [i \in 1..n |-> s[i]]
      BY <2>1, <2>2, <2>3
    <2>. QED
      BY <1>1, <2>4 DEF Front
  <1>4. t = [i \in 1..n |-> t[i]] /\ \A i \in 1..n : t[i] = s[i]
    BY <1>3
  <1>5. IsSeq(t) /\ Len(t) = n
    BY <1>2, <1>4, MakeSeq
  <1>. QED
    BY <1>1, <1>4, <1>5 DEF Popped

\* push_back()
LEMMA AppendPushes ==
  ASSUME NEW s, IsSeq(s), NEW x
  PROVE  Pushed(s, Append(s, x), x)
  <1>1. PICK S, t, n : S = Range(s) \union {x} /\ t = Append(s, x) /\ n = Len(s)
    OBVIOUS
  <1>2. n \in Nat /\ s = [i \in 1..n |-> s[i]] /\ \A i \in 1..n : s[i] \in S
    BY <1>1, SeqFacts
  <1>3. s \in Seq(S) /\ x \in S
    BY <1>1, <1>2
  <1>4. t \in Seq(S) /\ Len(t) = n + 1 /\ \A i \in 1..(n + 1) : t[i] = IF i <= n THEN s[i] ELSE x
    BY <1>1, <1>3, AppendProperties
  <1>5. t = [i \in 1..(n + 1) |-> t[i]] /\ n + 1 \in Nat
    BY <1>2, <1>4
  <1>6. IsSeq(t)
    BY <1>5, MakeSeq
  <1>7. n + 1 \in 1..(n + 1) /\ ~(n + 1 <= n) /\ \A i \in 1..n : i \in 1..(n + 1) /\ i <= n
    BY <1>2
  <1>. QED
    BY <1>1, <1>4, <1>6, <1>7 DEF Pushed

\* Assignment to a place.
LEMMA ExceptReplaces ==
  ASSUME NEW s, IsSeq(s), NEW k \in 1..Len(s), NEW x
  PROVE  Replaced(s, [s EXCEPT ![k] = x], k, x)
  <1>1. PICK n, t : n = Len(s) /\ t = [s EXCEPT ![k] = x]
    OBVIOUS
  <1>2. n \in Nat /\ DOMAIN s = 1..n
    BY <1>1, SeqFacts
  <1>3. t = [i \in 1..n |-> IF i = k THEN x ELSE s[i]]
    BY <1>1, <1>2
  <1>4. t = [i \in 1..n |-> t[i]] /\ t[k] = x /\ \A i \in 1..n : i # k => t[i] = s[i]
    BY <1>1, <1>3
  <1>5. IsSeq(t) /\ Len(t) = n
    BY <1>2, <1>4, MakeSeq
  <1>. QED
    BY <1>1, <1>4, <1>5 DEF Replaced

-----------------------------------------------------------------------------
(***************************************************************************)
(* What the steps of the reader do to the stack and the documents.         *)
(***************************************************************************)

Frame(f, p, d) == [path |-> f, pos |-> p, doc |-> d]

\* dd is dc after xmlFreeDoc() of document d, which had not been freed.
Freed(dc, dd, d) ==
  /\ dd \in Seq({0, 1}) /\ Len(dd) = Len(dc)
  /\ dd[d] = 1 /\ \A e \in 1..Len(dc) : e # d => dd[e] = dc[e]

\* The top frame.
LEMMA TopFrame ==
  ASSUME ReaderInv, Len(stack) # 0
  PROVE  /\ IsSeq(stack) /\ Len(stack) \in Nat /\ Len(stack) \in 1..Len(stack)
         /\ Top = stack[Len(stack)] /\ IsFrame(Top) /\ Top = Frame(Top.path, Top.pos, Top.doc)
         /\ Top.pos \in Nat \ {0} /\ Top.doc \in 0..Len(docs) /\ Len(docs) \in Nat /\ docs \in Seq({0, 1})
         /\ Top.doc # 0 => docs[Top.doc] = 0
  <1>1. DocInv(stack, docs, thrown, reading)
    BY DEF ReaderInv
  <1>2. PICK n : n = Len(stack)
    OBVIOUS
  <1>3. IsSeq(stack) /\ n \in Nat /\ n \in 1..n
    BY <1>1, <1>2, SeqFacts DEF DocInv
  <1>4. Top = stack[n] /\ IsFrame(Top)
    BY <1>1, <1>2, <1>3 DEF DocInv, Top
  <1>5. /\ docs \in Seq({0, 1}) /\ Top.doc <= Len(docs)
        /\ Top.doc # 0 => docs[Top.doc] = 0
    BY <1>1, <1>2, <1>3, <1>4 DEF DocInv
  <1>6. Top = Frame(Top.path, Top.pos, Top.doc) /\ Top.pos \in Nat \ {0} /\ Top.doc \in Nat
    BY <1>4 DEF IsFrame, Frame
  <1>7. Len(docs) \in Nat
    BY <1>5
  <1>. QED
    BY <1>2, <1>3, <1>4, <1>5, <1>6, <1>7

\* Free() of the document of a frame.
LEMMA FreeFrees ==
  ASSUME NEW dc \in Seq({0, 1}), NEW d \in 1..Len(dc), dc[d] = 0
  PROVE  Freed(dc, [dc EXCEPT ![d] = @ + 1], d)
  <1>1. PICK dd, n : dd = [dc EXCEPT ![d] = @ + 1] /\ n = Len(dc)
    OBVIOUS
  <1>2. n \in Nat /\ dc \in [1..n -> {0, 1}] /\ DOMAIN dc = 1..n
    BY <1>1
  <1>3. dd = [i \in 1..n |-> IF i = d THEN 1 ELSE dc[i]]
    <2>1. dd = [i \in 1..n |-> IF i = d THEN dc[d] + 1 ELSE dc[i]]
      BY <1>1, <1>2
    <2>2. dc[d] + 1 = 1
      OBVIOUS
    <2>. QED
      BY <2>1, <2>2
  <1>4. dd \in [1..n -> {0, 1}]
    BY <1>2, <1>3
  <1>5. dd \in Seq({0, 1}) /\ Len(dd) = n
    BY <1>2, <1>4
  <1>6. dd[d] = 1 /\ \A e \in 1..n : e # d => dd[e] = dc[e]
    BY <1>1, <1>3
  <1>. QED
    BY <1>1, <1>5, <1>6 DEF Freed

\* readXMLModel() opens a file, or throws and leaves its frame.
LEMMA OpenFileStep ==
  ASSUME ReaderInv, OpenFile
  PROVE  /\ reading = "reading" /\ thrown = None /\ Len(stack) # 0 /\ Top.doc = 0
         /\ UNCHANGED <<files, reading, xmodel>>
         /\ \/ /\ thrown' # None /\ Popped(stack, stack')
               /\ docs' = docs \/ Pushed(docs, docs', 1)
               /\ readFiles' = readFiles \/ readFiles' = Append(readFiles, Top.path)
            \/ /\ thrown' = None
               /\ FileOf(files, Top.path) \notin {Missing, Malformed}
               /\ Replaced(stack, stack', Len(stack), Frame(Top.path, Top.pos, Len(docs) + 1))
               /\ Pushed(docs, docs', 0) /\ readFiles' = Append(readFiles, Top.path)
  <1>1. reading = "reading" /\ thrown = None /\ Top.doc = 0 /\ UNCHANGED <<files, reading, xmodel>>
    BY DEF OpenFile
  <1>2. Len(stack) # 0
    BY <1>1 DEF ReaderInv, DocInv
  <1>3. /\ IsSeq(stack) /\ Len(stack) \in 1..Len(stack) /\ Top = stack[Len(stack)]
        /\ Top = Frame(Top.path, Top.pos, Top.doc) /\ docs \in Seq({0, 1}) /\ Len(docs) \in Nat
    BY <1>2, TopFrame
  <1>4. IsSeq(docs)
    BY <1>3, MakeSeq
  <1>5. PICK file : file = FileOf(files, Top.path)
    OBVIOUS
  <1>6. \/ /\ thrown' \in {"filesystem_error", "inaccessable_file", "unparseable_file"} /\ stack' = Front(stack)
           /\ UNCHANGED <<docs, readFiles>>
        \/ /\ file \notin {Missing, Malformed} /\ ~ValidRoot(file)
           /\ docs' = Append(docs, 1) /\ thrown' = "invalid_model_file" /\ stack' = Front(stack)
           /\ readFiles' = Append(readFiles, Top.path)
        \/ /\ file \notin {Missing, Malformed} /\ ValidRoot(file)
           /\ docs' = Append(docs, 0) /\ thrown' = None
           /\ stack' = [stack EXCEPT ![Len(stack)].doc = Len(docs')]
           /\ readFiles' = Append(readFiles, Top.path)
    BY <1>5 DEF OpenFile
  <1>7. Popped(stack, Front(stack)) /\ Pushed(docs, Append(docs, 1), 1) /\ Pushed(docs, Append(docs, 0), 0)
    BY <1>2, <1>3, <1>4, FrontPops, AppendPushes
  <1>8. ASSUME docs' = Append(docs, 0), stack' = [stack EXCEPT ![Len(stack)].doc = Len(docs')]
        PROVE  Replaced(stack, stack', Len(stack), Frame(Top.path, Top.pos, Len(docs) + 1))
    <2>1. PICK n, d : n = Len(stack) /\ d = Len(docs')
      OBVIOUS
    <2>2. d = Len(docs) + 1
      BY <1>7, <1>8, <2>1 DEF Pushed
    <2>3. stack' = [stack EXCEPT ![n] = Frame(Top.path, Top.pos, d)]
      <3>1. PICK f : f = stack[n]
        OBVIOUS
      <3>2. f = Top /\ f = [path |-> f.path, pos |-> f.pos, doc |-> f.doc]
        BY <1>3, <2>1, <3>1 DEF Frame
      <3>3. [f EXCEPT !.doc = d] = [path |-> f.path, pos |-> f.pos, doc |-> d]
        BY <3>2
      <3>4. stack' = [stack EXCEPT ![n] = [f EXCEPT !.doc = d]]
        BY <1>8, <2>1, <3>1
      <3>. QED
        BY <3>2, <3>3, <3>4 DEF Frame
    <2>4. n \in 1..Len(stack)
      BY <1>3, <2>1
    <2>5. Replaced(stack, stack', n, Frame(Top.path, Top.pos, d))
      BY <1>3, <2>3, <2>4, ExceptReplaces
    <2>. QED
      BY <2>1, <2>2, <2>5
  <1>9. file \notin {Missing, Malformed} => FileOf(files, Top.path) \notin {Missing, Malformed}
    BY <1>5
  <1>10. \A x \in {"filesystem_error", "inaccessable_file", "unparseable_file", "invalid_model_file"} : x # None
    BY DEF None
  <1>. QED
    BY <1>1, <1>2, <1>6, <1>7, <1>8, <1>9, <1>10

\* The loop of readModelElements() goes on.
LEMMA AdvanceStep ==
  ASSUME ReaderInv, Len(stack) # 0
  PROVE  Replaced(stack, Advance, Len(stack), Frame(Top.path, Top.pos + 1, Top.doc))
  <1>1. /\ IsSeq(stack) /\ Len(stack) \in 1..Len(stack) /\ Top = stack[Len(stack)]
        /\ Top = Frame(Top.path, Top.pos, Top.doc)
    BY TopFrame
  <1>2. PICK n : n = Len(stack)
    OBVIOUS
  <1>3. Advance = [stack EXCEPT ![n] = Frame(Top.path, Top.pos + 1, Top.doc)]
    <2>1. PICK f : f = stack[n]
      OBVIOUS
    <2>2. f = Top /\ f = [path |-> f.path, pos |-> f.pos, doc |-> f.doc]
      BY <1>1, <1>2, <2>1 DEF Frame
    <2>3. [f EXCEPT !.pos = @ + 1] = [path |-> f.path, pos |-> f.pos + 1, doc |-> f.doc]
      BY <2>2
    <2>4. Advance = [stack EXCEPT ![n] = [f EXCEPT !.pos = @ + 1]]
      BY <1>2, <2>1 DEF Advance
    <2>. QED
      BY <2>2, <2>3, <2>4 DEF Frame
  <1>. QED
    BY <1>1, <1>2, <1>3, ExceptReplaces

\* An element that is read, and one that includes a file.
LEMMA AtElementFacts ==
  ASSUME ReaderInv, AtElement
  PROVE  /\ reading = "reading" /\ thrown = None /\ Len(stack) # 0
         /\ Top.doc # 0 /\ Top.pos <= Len(ElementsOf(files, Top.path))
         /\ Element = ElementsOf(files, Top.path)[Top.pos]
  BY DEF ReaderInv, DocInv, AtElement, Element, ElementsOf

\* readIncludedModel() passes over, throws or calls readXMLModel().
LEMMA ReadIncludedModelStep ==
  ASSUME ReaderInv, ReadIncludedModel
  PROVE  /\ AtElement /\ Element.tag = "model" /\ UNCHANGED <<files, reading, readFiles>>
         /\ \/ /\ ~Includes(Element) /\ stack' = Advance /\ UNCHANGED <<docs, thrown, xmodel>>
            \/ /\ Freed(docs, docs', Top.doc) /\ thrown' # None
               /\ Popped(stack, stack') /\ xmodel' = xmodel
            \/ /\ Includes(Element) /\ PathOf(Top.path, Element.file) \notin Range(xmodel.included)
               /\ xmodel' = [xmodel EXCEPT !.included = Append(@, PathOf(Top.path, Element.file))]
               /\ Pushed(stack, stack', Frame(PathOf(Top.path, Element.file), 1, 0)) /\ UNCHANGED <<docs, thrown>>
  <1>1. AtElement /\ Element.tag = "model" /\ UNCHANGED <<files, reading, readFiles>>
    BY DEF ReadIncludedModel
  <1>2. Len(stack) # 0 /\ Top.doc # 0
    BY <1>1, AtElementFacts
  <1>3. /\ IsSeq(stack) /\ docs \in Seq({0, 1}) /\ Top.doc \in 1..Len(docs) /\ docs[Top.doc] = 0
    <2>1. /\ IsSeq(stack) /\ docs \in Seq({0, 1}) /\ Top.doc \in 0..Len(docs) /\ docs[Top.doc] = 0
          /\ Len(docs) \in Nat
      BY <1>2, TopFrame
    <2>. QED
      BY <1>2, <2>1
  <1>4. CASE Element.enabled = "false" /\ stack' = Advance /\ UNCHANGED <<docs, thrown, xmodel>>
    BY <1>1, <1>4 DEF Includes
  <1>5. CASE Free(Top.doc) /\ thrown' = "flame_io_exception" /\ stack' = Front(stack) /\ UNCHANGED xmodel
    <2>1. docs' = [docs EXCEPT ![Top.doc] = @ + 1]
      BY <1>2, <1>5 DEF Free
    <2>2. Freed(docs, docs', Top.doc)
      BY <1>3, <2>1, FreeFrees
    <2>3. Popped(stack, stack')
      BY <1>2, <1>3, <1>5, FrontPops
    <2>. QED
      BY <1>1, <1>5, <2>2, <2>3 DEF None
  <1>6. CASE /\ Element.enabled = "true" /\ ~Refused(Element)
             /\ xmodel' = [xmodel EXCEPT !.included = Append(@, PathOf(Top.path, Element.file))]
             /\ stack' = Call(PathOf(Top.path, Element.file)) /\ UNCHANGED <<docs, thrown>>
    <2>1. PathOf(Top.path, Element.file) \notin Range(xmodel.included)
      BY <1>6 DEF Refused, IsDuplicate, Contains, Range
    <2>2. Pushed(stack, stack', Frame(PathOf(Top.path, Element.file), 1, 0))
      BY <1>3, <1>6, AppendPushes DEF Call, Frame
    <2>. QED
      BY <1>1, <1>6, <2>1, <2>2 DEF Includes
  <1>. QED
    BY <1>4, <1>5, <1>6 DEF ReadIncludedModel

\* t is s without its last frame, the frame below it one element further.
Returned(s, t) ==
  /\ IsSeq(t) /\ Len(t) = Len(s) - 1
  /\ \A i \in 1..(Len(s) - 1) :
       t[i] = IF i = Len(s) - 1 THEN Frame(s[i].path, s[i].pos + 1, s[i].doc) ELSE s[i]

\* The end of readXMLModel().
LEMMA CloseFileStep ==
  ASSUME ReaderInv, CloseFile
  PROVE  /\ reading = "reading" /\ thrown = None /\ Len(stack) # 0 /\ Top.doc # 0
         /\ Top.pos > Len(ElementsOf(files, Top.path))
         /\ Freed(docs, docs', Top.doc) /\ Returned(stack, stack')
         /\ reading' = IF Len(stack) = 1 THEN "loaded" ELSE "reading"
         /\ UNCHANGED <<files, thrown, readFiles, xmodel>>
  <1>1. /\ reading = "reading" /\ thrown = None /\ Top.doc # 0
        /\ Top.pos > Len(ElementsOf(files, Top.path))
        /\ reading' = IF Len(stack) = 1 THEN "loaded" ELSE "reading"
        /\ UNCHANGED <<files, thrown, readFiles, xmodel>>
    BY DEF CloseFile, ElementsOf
  <1>2. Len(stack) # 0
    BY <1>1 DEF ReaderInv, DocInv
  <1>3. /\ IsSeq(stack) /\ docs \in Seq({0, 1}) /\ Top.doc \in 1..Len(docs) /\ docs[Top.doc] = 0
        /\ Len(stack) \in Nat
    <2>1. /\ IsSeq(stack) /\ docs \in Seq({0, 1}) /\ Top.doc \in 0..Len(docs) /\ docs[Top.doc] = 0
          /\ Len(docs) \in Nat /\ Len(stack) \in Nat
      BY <1>1, <1>2, TopFrame
    <2>. QED
      BY <1>1, <2>1
  <1>4. Freed(docs, docs', Top.doc)
    <2>1. docs' = [docs EXCEPT ![Top.doc] = @ + 1]
      BY <1>1 DEF CloseFile, Free
    <2>. QED
      BY <1>3, <2>1, FreeFrees
  <1>5. Returned(stack, stack')
    <2>1. PICK n, s, t : n = Len(stack) - 1 /\ s = stack /\ t = stack'
      OBVIOUS
    <2>2. n \in Nat /\ \A i \in 1..n : i \in 1..Len(s)
      BY <1>2, <1>3, <2>1
    <2>3. t = [i \in 1..n |-> IF i = n THEN [s[i] EXCEPT !.pos = @ + 1] ELSE s[i]]
      BY <2>1 DEF CloseFile
    <2>4. \A i \in 1..n : [s[i] EXCEPT !.pos = @ + 1] = Frame(s[i].path, s[i].pos + 1, s[i].doc)
      <3> SUFFICES ASSUME NEW i \in 1..n
                   PROVE  [s[i] EXCEPT !.pos = @ + 1] = Frame(s[i].path, s[i].pos + 1, s[i].doc)
        OBVIOUS
      <3>1. PICK f : f = s[i]
        OBVIOUS
      <3>2. f = [path |-> f.path, pos |-> f.pos, doc |-> f.doc]
        BY <2>1, <2>2, <3>1 DEF ReaderInv, DocInv, IsFrame
      <3>3. [f EXCEPT !.pos = @ + 1] = [path |-> f.path, pos |-> f.pos + 1, doc |-> f.doc]
        BY <3>2
      <3>. QED
        BY <3>1, <3>3 DEF Frame
    <2>5. t = [i \in 1..n |-> t[i]]
      BY <2>3
    <2>6. IsSeq(t) /\ Len(t) = n
      BY <2>2, <2>5, MakeSeq
    <2>7. \A i \in 1..n : t[i] = IF i = n THEN Frame(s[i].path, s[i].pos + 1, s[i].doc) ELSE s[i]
      BY <2>3, <2>4
    <2>. QED
      BY <2>1, <2>6, <2>7 DEF Returned
  <1>. QED
    BY <1>1, <1>2, <1>4, <1>5

\* An exception leaves a frame of readXMLModel().
LEMMA UnwindStep ==
  ASSUME ReaderInv, Unwind
  PROVE  /\ reading = "reading" /\ thrown # None /\ Len(stack) # 0
         /\ Popped(stack, stack')
         /\ docs' = docs \/ (Top.doc # 0 /\ Freed(docs, docs', Top.doc))
         /\ UNCHANGED <<files, thrown, reading, readFiles, xmodel>>
  <1>1. /\ reading = "reading" /\ thrown # None /\ stack # <<>> /\ stack' = Front(stack)
        /\ UNCHANGED <<files, thrown, reading, readFiles, xmodel>> /\ UnwindFrees
    BY DEF Unwind
  <1>2. IsSeq(stack)
    BY DEF ReaderInv, DocInv
  <1>3. Len(stack) # 0
    <2>1. stack \in Seq(Range(stack))
      BY <1>2 DEF IsSeq
    <2>. QED
      BY <1>1, <2>1, EmptySeq
  <1>4. docs' = docs \/ (Top.doc # 0 /\ Freed(docs, docs', Top.doc))
    <2>1. /\ docs \in Seq({0, 1}) /\ Top.doc \in 0..Len(docs) /\ Len(docs) \in Nat
          /\ Top.doc # 0 => docs[Top.doc] = 0
      BY <1>3, TopFrame
    <2>2. \/ docs' = docs
          \/ Top.doc # 0 /\ docs' = [docs EXCEPT ![Top.doc] = @ + 1]
      BY <1>1 DEF UnwindFrees, Free
    <2>. QED
      BY <2>1, <2>2, FreeFrees
  <1>. QED
    BY <1>1, <1>2, <1>3, <1>4, FrontPops

-----------------------------------------------------------------------------
(***************************************************************************)
(* Documents.                                                              *)
(***************************************************************************)

\* dd is dc after its document of frame f was freed, or nothing, or after a document was
\* made and freed.
Left(dc, dd, d) == dd = dc \/ Pushed(dc, dd, 1) \/ (d # 0 /\ Freed(dc, dd, d))

\* Vectors of 0 and 1.
LEMMA BitPushed ==
  ASSUME NEW dc \in Seq({0, 1}), NEW dd, NEW b \in {0, 1}, Pushed(dc, dd, b)
  PROVE  dd \in Seq({0, 1})
  <1>1. PICK n : n = Len(dc)
    OBVIOUS
  <1>2. n \in Nat /\ \A i \in 1..n : dc[i] \in {0, 1}
    BY <1>1
  <1>3. dd = [i \in 1..(n + 1) |-> dd[i]]
    BY <1>1, SeqFacts DEF Pushed
  <1>4. \A i \in 1..(n + 1) : dd[i] \in {0, 1}
    BY <1>1, <1>2 DEF Pushed
  <1>. QED
    BY <1>2, <1>3, <1>4

\* An exception leaves a frame.
LEMMA DocLeave ==
  ASSUME NEW s, NEW t, NEW dc, NEW dd, NEW th, NEW th2, Len(s) # 0,
         DocInv(s, dc, th, "reading"), Popped(s, t), Left(dc, dd, s[Len(s)].doc), th2 # None
  PROVE  DocInv(t, dd, th2, "reading")
  <1>1. PICK n : n = Len(s)
    OBVIOUS
  <1>2. n \in Nat \ {0} /\ n \in 1..n /\ IsSeq(t) /\ Len(t) = n - 1 /\ \A i \in 1..(n - 1) : t[i] = s[i]
    BY <1>1, SeqFacts DEF DocInv, Popped
  <1>3. \A i \in 1..(n - 1) : i \in 1..n /\ i < n /\ i # n
    BY <1>2
  <1>4. /\ \A i \in 1..(n - 1) : /\ IsFrame(t[i]) /\ t[i].doc <= Len(dc) /\ t[i].doc # 0
                                 /\ dc[t[i].doc] = 0 /\ t[i].doc # s[n].doc
        /\ \A i, j \in 1..(n - 1) : t[i].doc = t[j].doc => i = j
    BY <1>1, <1>2, <1>3 DEF DocInv
  <1>5. /\ dd \in Seq({0, 1})
        /\ \A e \in 1..Len(dc) : e # s[n].doc => e <= Len(dd) /\ dd[e] = dc[e]
    <2>1. dc \in Seq({0, 1}) /\ Len(dc) \in Nat
      BY DEF DocInv
    <2>2. CASE dd = dc
      BY <2>1, <2>2
    <2>3. CASE Pushed(dc, dd, 1)
      <3>1. dd \in Seq({0, 1})
        BY <2>1, <2>3, BitPushed
      <3>. QED
        BY <2>1, <2>3, <3>1 DEF Pushed
    <2>4. CASE s[n].doc # 0 /\ Freed(dc, dd, s[n].doc)
      BY <2>1, <2>4 DEF Freed
    <2>. QED
      BY <1>1, <2>2, <2>3, <2>4 DEF Left
  <1>6. \A i \in 1..(n - 1) : t[i].doc \in 1..Len(dc)
    <2>1. \A i \in 1..(n - 1) : t[i].doc \in Nat /\ t[i].doc # 0 /\ t[i].doc <= Len(dc)
      BY <1>4 DEF IsFrame
    <2>2. Len(dc) \in Nat
      BY DEF DocInv
    <2>. QED
      BY <2>1, <2>2
  <1>7. \A i \in 1..(n - 1) : t[i].doc <= Len(dd) /\ dd[t[i].doc] = 0
    BY <1>4, <1>5, <1>6
  <1>. QED
    BY <1>2, <1>4, <1>5, <1>7 DEF DocInv

\* A document is made for the top frame.
LEMMA DocOpen ==
  ASSUME NEW s, NEW t, NEW dc, NEW dd, NEW f, NEW p \in Nat \ {0}, Len(s) # 0, s[Len(s)].doc = 0,
         DocInv(s, dc, None, "reading"), Replaced(s, t, Len(s), Frame(f, p, Len(dc) + 1)), Pushed(dc, dd, 0)
  PROVE  DocInv(t, dd, None, "reading")
  <1>1. PICK n, x, m : n = Len(s) /\ x = Frame(f, p, Len(dc) + 1) /\ m = Len(dc)
    OBVIOUS
  <1>2. /\ n \in Nat \ {0} /\ n \in 1..n /\ m \in Nat /\ IsSeq(t) /\ Len(t) = n /\ t[n] = x
        /\ \A i \in 1..n : i # n => t[i] = s[i]
    BY <1>1, SeqFacts DEF DocInv, Replaced
  <1>3. IsFrame(x) /\ x.doc = m + 1
    BY <1>1, <1>2 DEF IsFrame, Frame
  <1>4. dd \in Seq({0, 1}) /\ Len(dd) = m + 1 /\ dd[m + 1] = 0 /\ \A e \in 1..m : dd[e] = dc[e]
    <2>1. dd \in Seq({0, 1})
      BY BitPushed DEF DocInv
    <2>. QED
      BY <1>1, <2>1 DEF Pushed
  <1>5. \A i \in 1..n : IsFrame(t[i]) /\ (i # n => t[i].doc \in 1..m /\ dc[t[i].doc] = 0 /\ i < n)
    <2>1. \A i \in 1..n : IsFrame(s[i]) /\ (i # n => s[i].doc \in Nat /\ s[i].doc # 0 /\ s[i].doc <= m /\ dc[s[i].doc] = 0 /\ i < n)
      BY <1>1, <1>2 DEF DocInv, IsFrame
    <2>. QED
      BY <1>2, <1>3, <2>1
  <1>6. \A i \in 1..n : t[i].doc \in 1..(m + 1) /\ dd[t[i].doc] = 0
    <2> SUFFICES ASSUME NEW i \in 1..n
                 PROVE  t[i].doc \in 1..(m + 1) /\ dd[t[i].doc] = 0
      OBVIOUS
    <2>1. CASE i = n
      <3>1. t[i].doc = m + 1
        BY <1>2, <1>3, <2>1
      <3>. QED
        BY <1>2, <1>4, <3>1
    <2>2. CASE i # n
      BY <1>2, <1>4, <1>5, <2>2
    <2>. QED
      BY <2>1, <2>2
  <1>7. \A i, j \in 1..n : t[i].doc = t[j].doc => i = j
    <2>1. \A i, j \in 1..n : i # n /\ j # n /\ t[i].doc = t[j].doc => i = j
      BY <1>1, <1>2 DEF DocInv
    <2>2. \A i \in 1..n : i # n => t[i].doc # t[n].doc
      BY <1>2, <1>3, <1>5
    <2>. QED
      BY <2>1, <2>2
  <1>8. \A e \in 1..(m + 1) : dd[e] = 0 => \E i \in 1..n : t[i].doc = e
    <2> SUFFICES ASSUME NEW e \in 1..(m + 1), dd[e] = 0
                 PROVE  \E i \in 1..n : t[i].doc = e
      OBVIOUS
    <2>1. CASE e = m + 1
      BY <1>2, <1>3, <2>1
    <2>2. CASE e # m + 1
      <3>1. e \in 1..m /\ dc[e] = 0
        BY <1>2, <1>4, <2>2
      <3>2. PICK i \in 1..n : s[i].doc = e
        BY <1>1, <3>1 DEF DocInv
      <3>3. i # n
        BY <1>1, <3>1, <3>2
      <3>. QED
        BY <1>2, <3>2, <3>3
    <2>. QED
      BY <2>1, <2>2
  <1>9. \A i \in 1..n : t[i].doc <= m + 1 /\ t[i].doc # 0
    BY <1>2, <1>6
  <1>. QED
    BY <1>2, <1>4, <1>5, <1>6, <1>7, <1>8, <1>9 DEF DocInv

\* The top frame goes to its next element.
LEMMA DocAdvance ==
  ASSUME NEW s, NEW t, NEW dc, NEW f, NEW p \in Nat \ {0}, Len(s) # 0,
         DocInv(s, dc, None, "reading"), Replaced(s, t, Len(s), Frame(f, p, s[Len(s)].doc))
  PROVE  DocInv(t, dc, None, "reading")
  <1>1. PICK n, x : n = Len(s) /\ x = Frame(f, p, s[Len(s)].doc)
    OBVIOUS
  <1>2. /\ n \in Nat \ {0} /\ n \in 1..n /\ IsSeq(t) /\ Len(t) = n /\ t[n] = x
        /\ \A i \in 1..n : i # n => t[i] = s[i]
    BY <1>1, SeqFacts DEF DocInv, Replaced
  <1>3. \A i \in 1..n : IsFrame(s[i])
    BY <1>1 DEF DocInv
  <1>4. IsFrame(x) /\ x.doc = s[n].doc
    <2>1. PICK d : d = s[n].doc
      OBVIOUS
    <2>2. d \in Nat
      BY <1>2, <1>3, <2>1 DEF IsFrame
    <2>3. x = [path |-> f, pos |-> p, doc |-> d]
      BY <1>1, <2>1 DEF Frame
    <2>. QED
      BY <2>1, <2>2, <2>3 DEF IsFrame
  <1>5. \A i \in 1..n : IsFrame(t[i]) /\ t[i].doc = s[i].doc
    BY <1>2, <1>3, <1>4
  <1>. QED
    BY <1>1, <1>2, <1>5 DEF DocInv

\* A call of readXMLModel().
LEMMA DocCall ==
  ASSUME NEW s, NEW t, NEW dc, NEW f, Len(s) # 0, s[Len(s)].doc # 0,
         DocInv(s, dc, None, "reading"), Pushed(s, t, Frame(f, 1, 0))
  PROVE  DocInv(t, dc, None, "reading")
  <1>1. PICK n, x : n = Len(s) /\ x = Frame(f, 1, 0)
    OBVIOUS
  <1>2. /\ n \in Nat \ {0} /\ n \in 1..n /\ IsSeq(t) /\ Len(t) = n + 1 /\ t[n + 1] = x
        /\ \A i \in 1..n : t[i] = s[i]
    BY <1>1, SeqFacts DEF DocInv, Pushed
  <1>3. IsFrame(x) /\ x.doc = 0
    BY <1>1 DEF IsFrame, Frame
  <1>4. \A i \in 1..n : IsFrame(s[i]) /\ s[i].doc <= Len(dc) /\ s[i].doc # 0 /\ dc[s[i].doc] = 0
    BY <1>1, <1>2 DEF DocInv
  <1>5. \A i \in 1..(n + 1) : i = n + 1 \/ i \in 1..n
    BY <1>2
  <1>6. /\ dc \in Seq({0, 1}) /\ Len(dc) \in Nat
        /\ \A i, j \in 1..n : s[i].doc = s[j].doc => i = j
        /\ \A d \in 1..Len(dc) : dc[d] = 0 => \E i \in 1..n : s[i].doc = d
    BY <1>1 DEF DocInv
  <1>7. /\ \A i \in 1..(n + 1) : /\ IsFrame(t[i]) /\ t[i].doc <= Len(dc)
                                 /\ i < n + 1 => t[i].doc # 0
                                 /\ t[i].doc # 0 => dc[t[i].doc] = 0
        /\ \A i, j \in 1..(n + 1) : t[i].doc = t[j].doc => i = j
    BY <1>2, <1>3, <1>4, <1>5, <1>6
  <1>8. \A d \in 1..Len(dc) : dc[d] = 0 => \E i \in 1..(n + 1) : t[i].doc = d
    BY <1>2, <1>6
  <1>. QED
    BY <1>2, <1>6, <1>7, <1>8 DEF DocInv

\* readXMLModel() returns.
LEMMA DocReturn ==
  ASSUME NEW s, NEW t, NEW dc, NEW dd, Len(s) # 0, s[Len(s)].doc # 0,
         DocInv(s, dc, None, "reading"), Returned(s, t), Freed(dc, dd, s[Len(s)].doc)
  PROVE  DocInv(t, dd, None, IF Len(s) = 1 THEN "loaded" ELSE "reading")
  <1>1. PICK n, e : n = Len(s) /\ e = s[Len(s)].doc
    OBVIOUS
  <1>2. /\ n \in Nat \ {0} /\ n \in 1..n /\ IsSeq(t) /\ Len(t) = n - 1
        /\ \A i \in 1..(n - 1) : i \in 1..n /\ i < n /\ i # n
    BY <1>1, SeqFacts DEF DocInv, Returned
  <1>3. \A i \in 1..n : IsFrame(s[i]) /\ s[i].doc \in 1..Len(dc) /\ dc[s[i].doc] = 0
    <2>1. /\ \A i \in 1..n : IsFrame(s[i]) /\ s[i].doc <= Len(dc) /\ (i < n => s[i].doc # 0)
                             /\ (s[i].doc # 0 => dc[s[i].doc] = 0)
          /\ dc \in Seq({0, 1})
      BY <1>1 DEF DocInv
    <2>2. \A i \in 1..n : s[i].doc \in Nat
      BY <2>1 DEF IsFrame
    <2>3. \A i \in 1..n : i < n \/ i = n
      BY <1>2
    <2>4. s[n].doc # 0
      BY <1>1
    <2>5. \A i \in 1..n : s[i].doc # 0
      BY <2>1, <2>3, <2>4
    <2>6. Len(dc) \in Nat
      BY <2>1
    <2>. QED
      BY <2>1, <2>2, <2>5, <2>6
  <1>4. \A i \in 1..(n - 1) : IsFrame(t[i]) /\ t[i].doc = s[i].doc
    <2>1. \A i \in 1..(n - 1) : s[i].pos \in Nat \ {0} /\ s[i].doc \in Nat
      BY <1>2, <1>3 DEF IsFrame
    <2>2. \A i \in 1..(n - 1) : IsFrame(Frame(s[i].path, s[i].pos + 1, s[i].doc))
                                  /\ Frame(s[i].path, s[i].pos + 1, s[i].doc).doc = s[i].doc
      BY <2>1 DEF IsFrame, Frame
    <2>3. \A i \in 1..(n - 1) : t[i] = Frame(s[i].path, s[i].pos + 1, s[i].doc) \/ t[i] = s[i]
      BY <1>1 DEF Returned
    <2>. QED
      BY <1>2, <1>3, <2>2, <2>3
  <1>5. /\ dd \in Seq({0, 1}) /\ Len(dd) = Len(dc) /\ Len(dc) \in Nat
        /\ dd[e] = 1 /\ \A d \in 1..Len(dc) : d # e => dd[d] = dc[d]
    BY <1>1 DEF Freed, DocInv
  <1>6. \A i, j \in 1..n : s[i].doc = s[j].doc => i = j
    BY <1>1 DEF DocInv
  <1>7. /\ \A i, j \in 1..(n - 1) : t[i].doc = t[j].doc => i = j
        /\ \A i \in 1..(n - 1) : t[i].doc # 0 /\ t[i].doc <= Len(dd) /\ dd[t[i].doc] = 0
    <2>1. \A i \in 1..(n - 1) : s[i].doc # e
      BY <1>1, <1>2, <1>6
    <2>2. \A i \in 1..(n - 1) : t[i].doc \in 1..Len(dc) /\ dc[t[i].doc] = 0 /\ t[i].doc # e
      BY <1>2, <1>3, <1>4, <2>1
    <2>3. \A i, j \in 1..(n - 1) : t[i].doc = t[j].doc => i = j
      BY <1>2, <1>4, <1>6
    <2>. QED
      BY <1>5, <2>2, <2>3
  <1>8. \A d \in 1..Len(dd) : dd[d] = 0 => \E i \in 1..(n - 1) : t[i].doc = d
    <2> SUFFICES ASSUME NEW d \in 1..Len(dd), dd[d] = 0
                 PROVE  \E i \in 1..(n - 1) : t[i].doc = d
      OBVIOUS
    <2>1. d # e /\ d \in 1..Len(dc) /\ dc[d] = 0
      BY <1>5
    <2>2. PICK i \in 1..n : s[i].doc = d
      BY <1>1, <2>1 DEF DocInv
    <2>3. i # n
      BY <1>1, <2>1, <2>2
    <2>4. i \in 1..(n - 1)
      BY <1>2, <2>3
    <2>. QED
      BY <1>4, <2>2, <2>4
  <1>9. CASE n = 1
    <2>1. Len(t) = 0 /\ \A i \in 1..(n - 1) : FALSE
      BY <1>2, <1>9
    <2>2. \A d \in 1..Len(dd) : dd[d] = 1
      BY <1>5, <1>8, <2>1
    <2>3. \A i \in 1..Len(t) : FALSE
      BY <2>1
    <2>. QED
      BY <1>1, <1>2, <1>5, <1>9, <2>1, <2>2, <2>3 DEF DocInv
  <1>10. CASE n # 1
    <2>1. Len(t) # 0
      BY <1>2, <1>10
    <2>2. DocInv(t, dd, None, "reading")
      BY <1>2, <1>4, <1>5, <1>7, <1>8, <2>1 DEF DocInv
    <2>. QED
      BY <1>1, <1>10, <2>2
  <1>. QED
    BY <1>9, <1>10

-----------------------------------------------------------------------------
(***************************************************************************)
(* Frames.                                                                 *)
(***************************************************************************)

\* A path that leads to a document leads to one of the files.
LEMMA FileThere ==
  ASSUME NEW fs, NEW f, FileOf(fs, f) \notin {Missing, Malformed}
  PROVE  Resolve(f) \in DOMAIN fs /\ FileOf(fs, f) = fs[Resolve(f)]
  BY DEF FileOf

\* A document lists its elements.
LEMMA ElementsListed ==
  ASSUME NEW fs \in FileSets, NEW f, FileOf(fs, f) \notin {Missing, Malformed}
  PROVE  /\ IsSeq(ElementsOf(fs, f)) /\ Len(ElementsOf(fs, f)) \in Nat
         /\ \A e \in Range(ElementsOf(fs, f)) : Ordered(e)
  <1>1. PICK n : n = Resolve(f)
    OBVIOUS
  <1>2. n \in DOMAIN fs /\ FileOf(fs, f) = fs[n]
    BY <1>1, FileThere
  <1>3. IsSeq(ElementsOf(fs, f)) /\ \A e \in Range(ElementsOf(fs, f)) : Ordered(e)
    BY <1>2, FilesAssumption DEF ElementsOf
  <1>. QED
    BY <1>3, SeqFacts

\* An exception leaves a frame.
LEMMA FrameLeave ==
  ASSUME NEW fs, NEW s, NEW t, IsSeq(s), Len(s) # 0, FrameInv(fs, s), Popped(s, t)
  PROVE  FrameInv(fs, t)
  <1>1. PICK n : n = Len(s)
    OBVIOUS
  <1>2. n \in Nat \ {0} /\ Len(t) = n - 1 /\ \A i \in 1..(n - 1) : t[i] = s[i] /\ i \in 1..n
    BY <1>1, SeqFacts DEF Popped
  <1>3. n - 1 # 0 => 1 \in 1..(n - 1)
    BY <1>2
  <1>4. \A i \in 1..(n - 1) : i < n - 1 => i < n
    BY <1>2
  <1>. QED
    BY <1>1, <1>2, <1>3, <1>4 DEF FrameInv

\* The top frame gets a document.
LEMMA FrameOpen ==
  ASSUME NEW fs \in FileSets, NEW s, NEW t, NEW d \in Nat \ {0}, IsSeq(s), Len(s) # 0, FrameInv(fs, s),
         s[Len(s)].doc = 0, FileOf(fs, s[Len(s)].path) \notin {Missing, Malformed},
         Replaced(s, t, Len(s), Frame(s[Len(s)].path, s[Len(s)].pos, d))
  PROVE  FrameInv(fs, t)
  <1>1. PICK n, f, x, L : n = Len(s) /\ f = s[Len(s)].path /\ x = Frame(f, 1, d) /\ L = Len(ElementsOf(fs, f))
    OBVIOUS
  <1>2. n \in Nat \ {0} /\ n \in 1..n /\ 1 \in 1..n
    BY <1>1, SeqFacts
  <1>3. L \in Nat
    BY <1>1, ElementsListed
  <1>4. s[n].pos = 1
    BY <1>1, <1>2 DEF FrameInv
  <1>5. Len(t) = n /\ t[n] = x /\ \A i \in 1..n : i # n => t[i] = s[i]
    BY <1>1, <1>4 DEF Replaced
  <1>6. x.path = f /\ x.pos = 1 /\ x.doc = d
    BY <1>1 DEF Frame
  <1>7. t[1].path = Root
    <2>1. s[1].path = Root
      BY <1>1, <1>2 DEF FrameInv
    <2>2. t[1].path = s[1].path
      BY <1>1, <1>2, <1>5, <1>6
    <2>. QED
      BY <2>1, <2>2
  <1>8. \A i \in 1..n : t[i].doc # 0 =>
          /\ FileOf(fs, t[i].path) \notin {Missing, Malformed}
          /\ t[i].pos <= Len(ElementsOf(fs, t[i].path)) + 1
    <2> SUFFICES ASSUME NEW i \in 1..n, t[i].doc # 0
                 PROVE  /\ FileOf(fs, t[i].path) \notin {Missing, Malformed}
                        /\ t[i].pos <= Len(ElementsOf(fs, t[i].path)) + 1
      OBVIOUS
    <2>1. CASE i = n
      <3>1. t[i].path = f /\ t[i].pos = 1
        BY <1>5, <1>6, <2>1
      <3>2. FileOf(fs, f) \notin {Missing, Malformed} /\ 1 <= L + 1
        BY <1>1, <1>3
      <3>. QED
        BY <1>1, <3>1, <3>2
    <2>2. CASE i # n
      BY <1>1, <1>5, <2>2 DEF FrameInv
    <2>. QED
      BY <2>1, <2>2
  <1>9. \A i \in 1..n : t[i].doc = 0 => t[i].pos = 1
    BY <1>1, <1>5, <1>6 DEF FrameInv
  <1>10. \A i \in 1..n : i < n =>
           /\ t[i].pos <= Len(ElementsOf(fs, t[i].path))
           /\ Includes(ElementsOf(fs, t[i].path)[t[i].pos])
    BY <1>1, <1>2, <1>5 DEF FrameInv
  <1>. QED
    BY <1>5, <1>7, <1>8, <1>9, <1>10 DEF FrameInv

\* The top frame goes to its next element.
LEMMA FrameAdvance ==
  ASSUME NEW fs \in FileSets, NEW s, NEW t, NEW f, NEW p \in Nat \ {0}, IsSeq(s), Len(s) # 0, FrameInv(fs, s),
         s[Len(s)].doc # 0, f = s[Len(s)].path, p = s[Len(s)].pos, p <= Len(ElementsOf(fs, f)),
         Replaced(s, t, Len(s), Frame(f, p + 1, s[Len(s)].doc))
  PROVE  FrameInv(fs, t)
  <1>1. PICK n, x, L : n = Len(s) /\ x = Frame(f, p + 1, s[Len(s)].doc) /\ L = Len(ElementsOf(fs, f))
    OBVIOUS
  <1>2. n \in Nat \ {0} /\ n \in 1..n /\ 1 \in 1..n
    BY <1>1, SeqFacts
  <1>3. FileOf(fs, f) \notin {Missing, Malformed}
    BY <1>1, <1>2 DEF FrameInv
  <1>4. L \in Nat
    BY <1>1, <1>3, ElementsListed
  <1>5. Len(t) = n /\ t[n] = x /\ \A i \in 1..n : i # n => t[i] = s[i]
    BY <1>1 DEF Replaced
  <1>6. x.path = f /\ x.pos = p + 1 /\ x.doc = s[n].doc
    BY <1>1 DEF Frame
  <1>7. t[1].path = Root
    <2>1. s[1].path = Root
      BY <1>1, <1>2 DEF FrameInv
    <2>2. t[1].path = s[1].path
      BY <1>1, <1>2, <1>5, <1>6
    <2>. QED
      BY <2>1, <2>2
  <1>8. \A i \in 1..n : t[i].doc # 0 =>
          /\ FileOf(fs, t[i].path) \notin {Missing, Malformed}
          /\ t[i].pos <= Len(ElementsOf(fs, t[i].path)) + 1
    <2> SUFFICES ASSUME NEW i \in 1..n, t[i].doc # 0
                 PROVE  /\ FileOf(fs, t[i].path) \notin {Missing, Malformed}
                        /\ t[i].pos <= Len(ElementsOf(fs, t[i].path)) + 1
      OBVIOUS
    <2>1. CASE i = n
      <3>1. t[i].path = f /\ t[i].pos = p + 1
        BY <1>5, <1>6, <2>1
      <3>2. p + 1 <= L + 1
        BY <1>1, <1>4
      <3>. QED
        BY <1>1, <1>3, <3>1, <3>2
    <2>2. CASE i # n
      BY <1>1, <1>5, <2>2 DEF FrameInv
    <2>. QED
      BY <2>1, <2>2
  <1>9. \A i \in 1..n : t[i].doc = 0 => t[i].pos = 1
    BY <1>1, <1>5, <1>6 DEF FrameInv
  <1>10. \A i \in 1..n : i < n =>
           /\ t[i].pos <= Len(ElementsOf(fs, t[i].path))
           /\ Includes(ElementsOf(fs, t[i].path)[t[i].pos])
    BY <1>1, <1>2, <1>5 DEF FrameInv
  <1>. QED
    BY <1>5, <1>7, <1>8, <1>9, <1>10 DEF FrameInv

\* A call of readXMLModel() for the file an element includes.
LEMMA FrameCall ==
  ASSUME NEW fs, NEW s, NEW t, NEW f, NEW g, NEW p, IsSeq(s), Len(s) # 0, FrameInv(fs, s),
         f = s[Len(s)].path, p = s[Len(s)].pos, p <= Len(ElementsOf(fs, f)),
         Includes(ElementsOf(fs, f)[p]), Pushed(s, t, Frame(g, 1, 0))
  PROVE  FrameInv(fs, t)
  <1>1. PICK n, x : n = Len(s) /\ x = Frame(g, 1, 0)
    OBVIOUS
  <1>2. n \in Nat \ {0} /\ n \in 1..n /\ 1 \in 1..n /\ \A i \in 1..(n + 1) : i = n + 1 \/ (i \in 1..n /\ i < n + 1)
    BY <1>1, SeqFacts
  <1>3. Len(t) = n + 1 /\ t[n + 1] = x /\ \A i \in 1..n : t[i] = s[i]
    BY <1>1 DEF Pushed
  <1>4. x.pos = 1 /\ x.doc = 0
    BY <1>1 DEF Frame
  <1>5. t[1].path = Root
    BY <1>1, <1>2, <1>3 DEF FrameInv
  <1>6. \A i \in 1..(n + 1) : t[i].doc # 0 =>
          /\ FileOf(fs, t[i].path) \notin {Missing, Malformed}
          /\ t[i].pos <= Len(ElementsOf(fs, t[i].path)) + 1
    BY <1>1, <1>2, <1>3, <1>4 DEF FrameInv
  <1>7. \A i \in 1..(n + 1) : t[i].doc = 0 => t[i].pos = 1
    BY <1>1, <1>2, <1>3, <1>4 DEF FrameInv
  <1>8. \A i \in 1..(n + 1) : i < n + 1 =>
           /\ t[i].pos <= Len(ElementsOf(fs, t[i].path))
           /\ Includes(ElementsOf(fs, t[i].path)[t[i].pos])
    <2> SUFFICES ASSUME NEW i \in 1..(n + 1), i < n + 1
                 PROVE  /\ t[i].pos <= Len(ElementsOf(fs, t[i].path))
                        /\ Includes(ElementsOf(fs, t[i].path)[t[i].pos])
      OBVIOUS
    <2>1. i \in 1..n /\ t[i] = s[i]
      BY <1>2, <1>3
    <2>2. CASE i = n
      BY <1>1, <2>1, <2>2
    <2>3. CASE i < n
      BY <1>1, <2>1, <2>3 DEF FrameInv
    <2>. QED
      BY <1>2, <2>1, <2>2, <2>3
  <1>. QED
    BY <1>3, <1>5, <1>6, <1>7, <1>8 DEF FrameInv

\* readXMLModel() returns.
LEMMA FrameReturn ==
  ASSUME NEW fs \in FileSets, NEW s, NEW t, NEW dc, Len(s) # 0, DocInv(s, dc, None, "reading"),
         FrameInv(fs, s), Returned(s, t)
  PROVE  FrameInv(fs, t)
  <1>1. PICK n : n = Len(s)
    OBVIOUS
  <1>2. /\ n \in Nat \ {0} /\ Len(t) = n - 1
        /\ \A i \in 1..(n - 1) : i \in 1..n /\ i < n /\ (i # n - 1 => i < n - 1)
    BY <1>1, SeqFacts DEF DocInv, Returned
  <1>3. \A i \in 1..(n - 1) : /\ t[i].path = s[i].path /\ t[i].doc = s[i].doc
                              /\ t[i].pos = IF i = n - 1 THEN s[i].pos + 1 ELSE s[i].pos
    <2>1. \A f, p, d : Frame(f, p, d).path = f /\ Frame(f, p, d).pos = p /\ Frame(f, p, d).doc = d
      BY DEF Frame
    <2>2. \A i \in 1..(n - 1) : t[i] = IF i = n - 1 THEN Frame(s[i].path, s[i].pos + 1, s[i].doc) ELSE s[i]
      BY <1>1 DEF Returned
    <2>. QED
      BY <2>1, <2>2
  <1>4. \A i \in 1..(n - 1) : s[i].doc # 0 /\ s[i].pos \in Nat
    BY <1>1, <1>2 DEF DocInv, IsFrame
  <1>5. \A i \in 1..(n - 1) :
           /\ FileOf(fs, s[i].path) \notin {Missing, Malformed}
           /\ s[i].pos <= Len(ElementsOf(fs, s[i].path))
           /\ Includes(ElementsOf(fs, s[i].path)[s[i].pos])
    BY <1>1, <1>2, <1>4 DEF FrameInv
  <1>6. \A i \in 1..(n - 1) : Len(ElementsOf(fs, s[i].path)) \in Nat
    BY <1>5, ElementsListed
  <1>7. \A i \in 1..(n - 1) : t[i].pos <= Len(ElementsOf(fs, t[i].path)) + 1
    BY <1>3, <1>4, <1>5, <1>6
  <1>8. n - 1 # 0 => t[1].path = Root
    <2>1. n - 1 # 0 => 1 \in 1..(n - 1)
      BY <1>2
    <2>2. s[1].path = Root
      BY <1>1, <1>2 DEF FrameInv
    <2>. QED
      BY <1>3, <2>1, <2>2
  <1>9. \A i \in 1..(n - 1) : i < n - 1 =>
           /\ t[i].pos <= Len(ElementsOf(fs, t[i].path))
           /\ Includes(ElementsOf(fs, t[i].path)[t[i].pos])
    BY <1>2, <1>3, <1>5
  <1>. QED
    BY <1>2, <1>3, <1>4, <1>5, <1>7, <1>8, <1>9 DEF FrameInv

-----------------------------------------------------------------------------
(***************************************************************************)
(* Included files.                                                         *)
(***************************************************************************)

\* Frame x of file f has included what it should.
FrameIncludes(fs, x, isFirst, isTop, inc) ==
  x.doc # 0 =>
    \A k \in 1..Len(ElementsOf(fs, x.path)) :
      Includes(ElementsOf(fs, x.path)[k]) =>
        /\ k < x.pos => isFirst \/ x.path # Root
        /\ k < x.pos \/ (k = x.pos /\ ~isTop) => PathOf(x.path, ElementsOf(fs, x.path)[k].file) \in Elements(inc)

\* The parts of IncludeInv.
LEMMA IncludeParts ==
  ASSUME NEW fs, NEW s, NEW th, NEW inc, Len(s) \in Nat
  PROVE  IncludeInv(fs, s, th, inc) <=>
         /\ IsSeq(inc) /\ Injective(inc)
         /\ \A i \in 2..Len(s) : s[i].path \in Elements(inc)
         /\ \A i, j \in 2..Len(s) : s[i].path = s[j].path => i = j
         /\ \A i \in 2..Len(s) : s[i].path = Root => i = Len(s)
         /\ th = None /\ Root \in Elements(inc) => \E i \in 2..Len(s) : s[i].path = Root
         /\ th = None => \A i \in 1..Len(s) : FrameIncludes(fs, s[i], i = 1, i = Len(s), inc)
  <1>1. \A i \in 1..Len(s) : i < Len(s) <=> i # Len(s)
    OBVIOUS
  <1>2. (\A i \in 1..Len(s) : FrameIncludes(fs, s[i], i = 1, i = Len(s), inc)) <=>
        \A i \in 1..Len(s) : s[i].doc # 0 =>
          \A k \in 1..Len(ElementsOf(fs, s[i].path)) :
            Includes(ElementsOf(fs, s[i].path)[k]) =>
              /\ k < s[i].pos => i = 1 \/ s[i].path # Root
              /\ k < s[i].pos \/ (k = s[i].pos /\ i < Len(s)) =>
                   PathOf(s[i].path, ElementsOf(fs, s[i].path)[k].file) \in Elements(inc)
    BY <1>1 DEF FrameIncludes
  <1>. QED
    BY <1>2 DEF IncludeInv

\* An exception leaves a frame.
LEMMA IncludeLeave ==
  ASSUME NEW fs, NEW s, NEW t, NEW th, NEW th2, NEW inc, IsSeq(s), Len(s) # 0,
         IncludeInv(fs, s, th, inc), Popped(s, t), th2 # None
  PROVE  IncludeInv(fs, t, th2, inc)
  <1>1. PICK n : n = Len(s)
    OBVIOUS
  <1>2. /\ n \in Nat \ {0} /\ Len(t) = n - 1
        /\ \A i \in 1..(n - 1) : t[i] = s[i]
        /\ \A i \in 2..(n - 1) : i \in 2..n /\ i # n /\ i \in 1..(n - 1)
    BY <1>1, SeqFacts DEF Popped
  <1>3. \A i \in 2..(n - 1) : t[i] = s[i] /\ i \in 2..n /\ i # n
    BY <1>2
  <1>. QED
    BY <1>1, <1>2, <1>3 DEF IncludeInv

\* The top frame is opened or goes on; what it passes by includes nothing.
LEMMA IncludeTop ==
  ASSUME NEW fs, NEW s, NEW t, NEW inc, NEW p \in Nat, NEW q \in Nat, NEW d, NEW f, IsSeq(s), Len(s) # 0,
         IncludeInv(fs, s, None, inc), f = s[Len(s)].path, Replaced(s, t, Len(s), Frame(f, q, d)),
         \/ q = 1
         \/ p = s[Len(s)].pos /\ q = p + 1 /\ s[Len(s)].doc # 0 /\ ~Includes(ElementsOf(fs, f)[p])
  PROVE  IncludeInv(fs, t, None, inc)
  <1>1. PICK n, x, y : n = Len(s) /\ x = Frame(f, q, d) /\ y = s[n]
    OBVIOUS
  <1>2. /\ n \in Nat \ {0} /\ n \in 1..n /\ Len(t) = n /\ t[n] = x
        /\ \A i \in 1..n : i # n => t[i] = s[i]
        /\ \A i \in 2..n : i \in 1..n
    BY <1>1, SeqFacts DEF Replaced
  <1>3. x.path = f /\ x.pos = q /\ x.doc = d /\ f = y.path
    BY <1>1 DEF Frame
  <1>4. \A i \in 1..n : t[i].path = s[i].path
    BY <1>1, <1>2, <1>3
  <1>5. /\ IsSeq(inc) /\ Injective(inc)
        /\ \A i \in 2..n : s[i].path \in Elements(inc)
        /\ \A i, j \in 2..n : s[i].path = s[j].path => i = j
        /\ \A i \in 2..n : s[i].path = Root => i = n
        /\ Root \in Elements(inc) => \E i \in 2..n : s[i].path = Root
        /\ \A i \in 1..n : FrameIncludes(fs, s[i], i = 1, i = n, inc)
    BY <1>1, <1>2, IncludeParts
  <1>6. FrameIncludes(fs, x, n = 1, TRUE, inc)
    <2>1. CASE q = 1
      <3>1. \A k \in 1..Len(ElementsOf(fs, f)) : ~(k < 1)
        OBVIOUS
      <3>. QED
        BY <1>3, <2>1, <3>1 DEF FrameIncludes
    <2>2. CASE p = y.pos /\ q = p + 1 /\ y.doc # 0 /\ ~Includes(ElementsOf(fs, f)[p])
      <3>1. FrameIncludes(fs, y, n = 1, TRUE, inc)
        BY <1>1, <1>2, <1>5
      <3>2. \A k \in 1..Len(ElementsOf(fs, f)) : k < p + 1 => k < p \/ k = p
        OBVIOUS
      <3>. QED
        BY <1>3, <2>2, <3>1, <3>2 DEF FrameIncludes
    <2>. QED
      BY <1>1, <2>1, <2>2
  <1>7. \A i \in 1..n : FrameIncludes(fs, t[i], i = 1, i = n, inc)
    <2> SUFFICES ASSUME NEW i \in 1..n
                 PROVE  FrameIncludes(fs, t[i], i = 1, i = n, inc)
      OBVIOUS
    <2>1. CASE i = n
      BY <1>2, <1>6, <2>1
    <2>2. CASE i # n
      BY <1>2, <1>5, <2>2
    <2>. QED
      BY <2>1, <2>2
  <1>8. /\ \A i \in 2..n : t[i].path \in Elements(inc)
        /\ \A i, j \in 2..n : t[i].path = t[j].path => i = j
        /\ \A i \in 2..n : t[i].path = Root => i = n
        /\ Root \in Elements(inc) => \E i \in 2..n : t[i].path = Root
    BY <1>2, <1>4, <1>5
  <1>. QED
    BY <1>2, <1>5, <1>7, <1>8, IncludeParts

\* A second frame of the first file is never asked to include a file that has not been
\* included, and does not reach its end.
LEMMA SecondRoot ==
  ASSUME NEW fs \in FileSets, NEW s, NEW dc, NEW inc, NEW p \in Nat, Len(s) # 0,
         DocInv(s, dc, None, "reading"), FrameInv(fs, s), IncludeInv(fs, s, None, inc),
         s[Len(s)].doc # 0, p = s[Len(s)].pos, s[Len(s)].path = Root, Len(s) # 1
  PROVE  /\ p <= Len(ElementsOf(fs, Root))
         /\ Includes(ElementsOf(fs, Root)[p]) => PathOf(Root, ElementsOf(fs, Root)[p].file) \in Elements(inc)
  <1>1. PICK n, x, y, L : n = Len(s) /\ x = s[1] /\ y = s[n] /\ L = Len(ElementsOf(fs, Root))
    OBVIOUS
  <1>2. n \in Nat /\ 1 \in 1..n /\ n \in 1..n /\ 1 < n /\ 1 # n
    <2>1. n \in Nat /\ n # 0 /\ n # 1
      BY <1>1, SeqFacts DEF DocInv
    <2>. QED
      BY <2>1
  <1>3. x.path = Root /\ x.pos <= L /\ Includes(ElementsOf(fs, Root)[x.pos])
    BY <1>1, <1>2 DEF FrameInv
  <1>4. x.pos \in Nat \ {0} /\ x.doc # 0
    BY <1>1, <1>2 DEF DocInv, IsFrame
  <1>5. L \in Nat
    <2>1. FileOf(fs, Root) \notin {Missing, Malformed}
      BY <1>1, <1>2 DEF FrameInv
    <2>. QED
      BY <1>1, <2>1, ElementsListed
  <1>6. x.pos \in 1..L
    BY <1>3, <1>4, <1>5
  <1>7. FrameIncludes(fs, x, TRUE, FALSE, inc) /\ FrameIncludes(fs, y, FALSE, TRUE, inc)
    <2>1. \A i \in 1..n : FrameIncludes(fs, s[i], i = 1, i = n, inc)
      BY <1>1, <1>2, IncludeParts
    <2>. QED
      BY <1>1, <1>2, <2>1
  <1>8. ~(x.pos < p)
    BY <1>1, <1>3, <1>6, <1>7 DEF FrameIncludes
  <1>9. p <= L
    BY <1>3, <1>4, <1>5, <1>8
  <1>10. ASSUME Includes(ElementsOf(fs, Root)[p])
         PROVE  PathOf(Root, ElementsOf(fs, Root)[p].file) \in Elements(inc)
    <2>1. p \in 1..L
      <3>1. p # 0
        BY <1>1, <1>2 DEF DocInv, IsFrame
      <3>. QED
        BY <1>5, <1>9, <3>1
    <2>2. p < x.pos \/ p = x.pos
      BY <1>4, <1>8
    <2>. QED
      BY <1>1, <1>3, <1>4, <1>7, <1>10, <2>1, <2>2 DEF FrameIncludes
  <1>. QED
    BY <1>1, <1>9, <1>10

\* A vector that grew.
LEMMA PushedElements ==
  ASSUME NEW s, IsSeq(s), NEW t, NEW x, Pushed(s, t, x)
  PROVE  /\ Elements(t) = Elements(s) \union {x}
         /\ Injective(s) /\ x \notin Elements(s) => Injective(t)
  <1>1. PICK n : n = Len(s)
    OBVIOUS
  <1>2. /\ n \in Nat /\ Len(t) = n + 1 /\ t[n + 1] = x /\ \A i \in 1..n : t[i] = s[i]
        /\ \A i \in 1..(n + 1) : i = n + 1 \/ i \in 1..n
        /\ \A i \in 1..n : i \in 1..(n + 1)
        /\ n + 1 \in 1..(n + 1)
    BY <1>1, SeqFacts DEF Pushed
  <1>3. Elements(t) = Elements(s) \union {x}
    BY <1>1, <1>2 DEF Elements
  <1>4. ASSUME Injective(s), x \notin Elements(s)
        PROVE  Injective(t)
    <2>1. \A i \in 1..n : t[i] # x
      BY <1>1, <1>2, <1>4 DEF Elements
    <2>2. \A i, j \in 1..n : t[i] = t[j] => i = j
      BY <1>1, <1>2, <1>4 DEF Injective
    <2>. QED
      BY <1>2, <2>1, <2>2 DEF Injective
  <1>. QED
    BY <1>3, <1>4

\* A call of readXMLModel() for the file an element includes.
LEMMA IncludeCall ==
  ASSUME NEW fs \in FileSets, NEW s, NEW t, NEW dc, NEW inc, NEW inc2, NEW f, NEW g, NEW p \in Nat, Len(s) # 0,
         DocInv(s, dc, None, "reading"), FrameInv(fs, s), IncludeInv(fs, s, None, inc),
         s[Len(s)].doc # 0, f = s[Len(s)].path, p = s[Len(s)].pos, g = PathOf(f, ElementsOf(fs, f)[p].file),
         Includes(ElementsOf(fs, f)[p]), g \notin Elements(inc),
         Pushed(inc, inc2, g), Pushed(s, t, Frame(g, 1, 0))
  PROVE  IncludeInv(fs, t, None, inc2)
  <1>1. PICK n, x : n = Len(s) /\ x = Frame(g, 1, 0)
    OBVIOUS
  <1>2. /\ n \in Nat \ {0} /\ n \in 1..n /\ Len(t) = n + 1 /\ t[n + 1] = x
        /\ \A i \in 1..n : t[i] = s[i]
        /\ \A i \in 2..(n + 1) : i = n + 1 \/ i \in 2..n
        /\ \A i \in 1..(n + 1) : i = n + 1 \/ (i \in 1..n /\ i # n + 1)
        /\ \A i \in 2..n : i \in 1..n /\ i \in 2..(n + 1)
        /\ n + 1 \in 2..(n + 1)
    <2>1. n \in Nat \ {0} /\ Len(t) = n + 1 /\ t[n + 1] = x /\ \A i \in 1..n : t[i] = s[i]
      BY <1>1, SeqFacts DEF DocInv, Pushed
    <2>. QED
      BY <2>1
  <1>3. x.path = g /\ x.doc = 0
    BY <1>1 DEF Frame
  <1>4. /\ IsSeq(inc) /\ Injective(inc)
        /\ \A i \in 2..n : s[i].path \in Elements(inc)
        /\ \A i, j \in 2..n : s[i].path = s[j].path => i = j
        /\ \A i \in 2..n : s[i].path = Root => i = n
        /\ Root \in Elements(inc) => \E i \in 2..n : s[i].path = Root
        /\ \A i \in 1..n : FrameIncludes(fs, s[i], i = 1, i = n, inc)
    BY <1>1, <1>2, IncludeParts
  <1>5. IsSeq(inc2) /\ Elements(inc2) = Elements(inc) \union {g} /\ Injective(inc2)
    BY <1>4, PushedElements DEF Pushed
  <1>6. \A i \in 2..n : s[i].path # Root
    <2> SUFFICES ASSUME NEW i \in 2..n, s[i].path = Root
                 PROVE  FALSE
      OBVIOUS
    <2>1. i = n /\ n # 1
      BY <1>2, <1>4
    <2>2. f = Root
      BY <1>1, <2>1
    <2>. QED
      BY <1>1, <2>1, <2>2, SecondRoot
  <1>7. Root \notin Elements(inc)
    BY <1>4, <1>6
  <1>8. \A i \in 2..(n + 1) : t[i].path \in Elements(inc2)
    BY <1>2, <1>3, <1>4, <1>5
  <1>9. \A i, j \in 2..(n + 1) : t[i].path = t[j].path => i = j
    <2>1. \A i \in 2..n : t[i].path # t[n + 1].path
      BY <1>2, <1>3, <1>4
    <2>2. \A i, j \in 2..n : t[i].path = t[j].path => i = j
      BY <1>2, <1>4
    <2>. QED
      BY <1>2, <2>1, <2>2
  <1>10. \A i \in 2..(n + 1) : t[i].path = Root => i = n + 1
    BY <1>2, <1>6
  <1>11. Root \in Elements(inc2) => \E i \in 2..(n + 1) : t[i].path = Root
    BY <1>2, <1>3, <1>5, <1>7
  <1>12. \A i \in 1..(n + 1) : FrameIncludes(fs, t[i], i = 1, i = n + 1, inc2)
    <2> SUFFICES ASSUME NEW i \in 1..(n + 1)
                 PROVE  FrameIncludes(fs, t[i], i = 1, i = n + 1, inc2)
      OBVIOUS
    <2>1. CASE i = n + 1
      BY <1>2, <1>3, <2>1 DEF FrameIncludes
    <2>2. CASE i # n + 1
      <3>1. i \in 1..n /\ t[i] = s[i] /\ FrameIncludes(fs, s[i], i = 1, i = n, inc)
        BY <1>2, <1>4, <2>2
      <3>2. CASE i # n
        BY <1>5, <2>2, <3>1, <3>2 DEF FrameIncludes
      <3>3. CASE i = n
        <4>1. s[i].path = f /\ s[i].pos = p
          BY <1>1, <3>3
        <4>. QED
          BY <1>5, <2>2, <3>1, <3>3, <4>1 DEF FrameIncludes
      <3>. QED
        BY <3>2, <3>3
    <2>. QED
      BY <2>1, <2>2
  <1>13. Len(t) \in Nat /\ Len(t) = n + 1
    BY <1>2
  <1>14. IncludeInv(fs, t, None, inc2) <=>
         /\ IsSeq(inc2) /\ Injective(inc2)
         /\ \A i \in 2..Len(t) : t[i].path \in Elements(inc2)
         /\ \A i, j \in 2..Len(t) : t[i].path = t[j].path => i = j
         /\ \A i \in 2..Len(t) : t[i].path = Root => i = Len(t)
         /\ Root \in Elements(inc2) => \E i \in 2..Len(t) : t[i].path = Root
         /\ \A i \in 1..Len(t) : FrameIncludes(fs, t[i], i = 1, i = Len(t), inc2)
    BY <1>13, IncludeParts
  <1>. QED
    BY <1>5, <1>8, <1>9, <1>10, <1>11, <1>12, <1>13, <1>14

\* readXMLModel() returns.
LEMMA IncludeReturn ==
  ASSUME NEW fs \in FileSets, NEW s, NEW t, NEW dc, NEW inc, NEW p \in Nat, Len(s) # 0,
         DocInv(s, dc, None, "reading"), FrameInv(fs, s), IncludeInv(fs, s, None, inc),
         s[Len(s)].doc # 0, p = s[Len(s)].pos, p > Len(ElementsOf(fs, s[Len(s)].path)), Returned(s, t)
  PROVE  IncludeInv(fs, t, None, inc) /\ Root \notin Elements(inc)
  <1>1. PICK n : n = Len(s)
    OBVIOUS
  <1>2. /\ n \in Nat \ {0} /\ Len(t) = n - 1
        /\ \A i \in 1..(n - 1) : i \in 1..n /\ i # n
        /\ \A i \in 2..(n - 1) : i \in 2..n /\ i # n /\ i \in 1..(n - 1) /\ i # 1
    BY <1>1, SeqFacts DEF DocInv, Returned
  <1>3. \A i \in 1..(n - 1) : /\ t[i].path = s[i].path /\ t[i].doc = s[i].doc
                              /\ t[i].pos = IF i = n - 1 THEN s[i].pos + 1 ELSE s[i].pos
    <2>1. \A f, q, d : Frame(f, q, d).path = f /\ Frame(f, q, d).pos = q /\ Frame(f, q, d).doc = d
      BY DEF Frame
    <2>2. \A i \in 1..(n - 1) : t[i] = IF i = n - 1 THEN Frame(s[i].path, s[i].pos + 1, s[i].doc) ELSE s[i]
      BY <1>1 DEF Returned
    <2>. QED
      BY <2>1, <2>2
  <1>4. /\ IsSeq(inc) /\ Injective(inc)
        /\ \A i \in 2..n : s[i].path \in Elements(inc)
        /\ \A i, j \in 2..n : s[i].path = s[j].path => i = j
        /\ \A i \in 2..n : s[i].path = Root => i = n
        /\ Root \in Elements(inc) => \E i \in 2..n : s[i].path = Root
        /\ \A i \in 1..n : FrameIncludes(fs, s[i], i = 1, i = n, inc)
    BY <1>1, <1>2, IncludeParts
  <1>5. Root \notin Elements(inc)
    <2> SUFFICES ASSUME Root \in Elements(inc)
                 PROVE  FALSE
      OBVIOUS
    <2>1. s[n].path = Root /\ n # 1
      <3>1. PICK i \in 2..n : s[i].path = Root
        BY <1>4
      <3>. QED
        BY <1>2, <1>4, <3>1
    <2>2. p <= Len(ElementsOf(fs, Root))
      BY <1>1, <2>1, SecondRoot
    <2>3. Len(ElementsOf(fs, Root)) \in Nat
      <3>1. n \in 1..n
        BY <1>2
      <3>2. FileOf(fs, Root) \notin {Missing, Malformed}
        BY <1>1, <2>1, <3>1 DEF FrameInv
      <3>. QED
        BY <3>2, ElementsListed
    <2>. QED
      BY <1>1, <2>1, <2>2, <2>3
  <1>6. \A i \in 1..(n - 1) : FrameIncludes(fs, t[i], i = 1, i = n - 1, inc)
    <2> SUFFICES ASSUME NEW i \in 1..(n - 1)
                 PROVE  FrameIncludes(fs, t[i], i = 1, i = n - 1, inc)
      OBVIOUS
    <2>1. FrameIncludes(fs, s[i], i = 1, FALSE, inc) /\ s[i].pos \in Nat /\ (i # 1 => s[i].path # Root)
      <3>1. FrameIncludes(fs, s[i], i = 1, FALSE, inc)
        BY <1>2, <1>4
      <3>2. s[i].pos \in Nat
        BY <1>1, <1>2 DEF DocInv, IsFrame
      <3>3. i # 1 => i \in 2..n /\ i # n
        BY <1>2
      <3>. QED
        BY <1>4, <3>1, <3>2, <3>3
    <2>2. CASE i # n - 1
      <3>1. t[i].path = s[i].path /\ t[i].doc = s[i].doc /\ t[i].pos = s[i].pos
        BY <1>3, <2>2
      <3>. QED
        BY <2>1, <2>2, <3>1 DEF FrameIncludes
    <2>3. CASE i = n - 1
      <3>1. t[i].path = s[i].path /\ t[i].doc = s[i].doc /\ t[i].pos = s[i].pos + 1
        BY <1>3, <2>3
      <3>2. \A k \in 1..Len(ElementsOf(fs, s[i].path)) : k < s[i].pos + 1 => k < s[i].pos \/ k = s[i].pos
        BY <2>1
      <3>. QED
        BY <2>1, <2>3, <3>1, <3>2 DEF FrameIncludes
    <2>. QED
      BY <2>2, <2>3
  <1>7. /\ \A i \in 2..(n - 1) : t[i].path \in Elements(inc)
        /\ \A i, j \in 2..(n - 1) : t[i].path = t[j].path => i = j
        /\ \A i \in 2..(n - 1) : t[i].path = Root => i = n - 1
    BY <1>2, <1>3, <1>4
  <1>8. n - 1 \in Nat
    BY <1>2
  <1>. QED
    BY <1>2, <1>4, <1>5, <1>6, <1>7, <1>8, IncludeParts

\* A file has been opened.
LEMMA OnceOpen ==
  ASSUME NEW s, NEW t, NEW rf, NEW inc, NEW d \in Nat \ {0}, NEW f, NEW p, IsSeq(s), Len(s) # 0, IsSeq(inc),
         OnceInv(s, None, "reading", rf, inc), s[Len(s)].doc = 0, f = s[Len(s)].path,
         Replaced(s, t, Len(s), Frame(f, p, d))
  PROVE  OnceInv(t, None, "reading", Append(rf, f), inc)
  <1>1. PICK n, r, x : n = Len(s) /\ r = Append(rf, f) /\ x = Frame(f, p, d)
    OBVIOUS
  <1>2. Len(t) = n /\ t[n] = x /\ x.doc = d
    BY <1>1 DEF Replaced, Frame
  <1>3. IsSeq(rf) /\ Len(rf) = Len(inc) /\ f = FileAt(inc, Len(rf) + 1) /\ \A i \in 1..Len(rf) : rf[i] = FileAt(inc, i)
    BY DEF OnceInv
  <1>4. Pushed(rf, r, f)
    BY <1>1, <1>3, AppendPushes
  <1>5. Len(rf) \in Nat
    BY <1>3, SeqFacts
  <1>6. IsSeq(r) /\ Len(r) = Len(inc) + 1 /\ \A i \in 1..Len(r) : r[i] = FileAt(inc, i)
    BY <1>3, <1>4, <1>5 DEF Pushed
  <1>. QED
    BY <1>1, <1>2, <1>6 DEF OnceInv

\* The top frame goes on.
LEMMA OnceAdvance ==
  ASSUME NEW s, NEW t, NEW rf, NEW inc, NEW f, NEW p,
         OnceInv(s, None, "reading", rf, inc), s[Len(s)].doc # 0, Replaced(s, t, Len(s), Frame(f, p, s[Len(s)].doc))
  PROVE  OnceInv(t, None, "reading", rf, inc)
  <1>1. PICK d : d = s[Len(s)].doc
    OBVIOUS
  <1>2. Len(t) = Len(s) /\ t[Len(s)].doc = d
    BY <1>1 DEF Replaced, Frame
  <1>. QED
    BY <1>1, <1>2 DEF OnceInv

\* A file is included.
LEMMA OnceCall ==
  ASSUME NEW s, NEW t, NEW rf, NEW inc, NEW inc2, NEW g, IsSeq(s), Len(s) # 0, IsSeq(inc),
         OnceInv(s, None, "reading", rf, inc), s[Len(s)].doc # 0,
         Pushed(inc, inc2, g), Pushed(s, t, Frame(g, 1, 0))
  PROVE  OnceInv(t, None, "reading", rf, inc2)
  <1>1. PICK n, m : n = Len(s) /\ m = Len(inc)
    OBVIOUS
  <1>2. n \in Nat /\ m \in Nat
    BY <1>1, SeqFacts
  <1>3. Len(t) = n + 1 /\ t[n + 1].doc = 0 /\ t[n + 1].path = g
    BY <1>1 DEF Pushed, Frame
  <1>4. Len(inc2) = m + 1 /\ inc2[m + 1] = g /\ \A i \in 1..m : inc2[i] = inc[i]
    BY <1>1 DEF Pushed
  <1>5. IsSeq(rf) /\ Len(rf) = m + 1 /\ \A i \in 1..Len(rf) : rf[i] = FileAt(inc, i)
    BY <1>1 DEF OnceInv
  <1>6. \A i \in 1..(m + 1) : FileAt(inc2, i) = FileAt(inc, i)
    BY <1>2, <1>4 DEF FileAt
  <1>7. FileAt(inc2, m + 2) = g
    BY <1>2, <1>4 DEF FileAt
  <1>8. m + 1 + 1 = m + 2 /\ n + 1 = Len(t) /\ \A i \in 1..Len(rf) : rf[i] = FileAt(inc2, i)
    BY <1>2, <1>3, <1>5, <1>6
  <1>. QED
    BY <1>3, <1>4, <1>5, <1>7, <1>8 DEF OnceInv

\* readXMLModel() returns, the last time with distinct files.
LEMMA OnceReturn ==
  ASSUME NEW s, NEW t, NEW dc, NEW rf, NEW inc, IsSeq(inc), Injective(inc), Root \notin Elements(inc), Len(s) # 0,
         DocInv(s, dc, None, "reading"), OnceInv(s, None, "reading", rf, inc), s[Len(s)].doc # 0, Returned(s, t)
  PROVE  OnceInv(t, None, IF Len(s) = 1 THEN "loaded" ELSE "reading", rf, inc)
  <1>1. PICK n, m : n = Len(s) /\ m = Len(inc)
    OBVIOUS
  <1>2. n \in Nat \ {0} /\ m \in Nat /\ Len(t) = n - 1
    BY <1>1, SeqFacts DEF DocInv, Returned
  <1>3. IsSeq(rf) /\ Len(rf) = m + 1 /\ \A i \in 1..Len(rf) : rf[i] = FileAt(inc, i)
    BY <1>1 DEF OnceInv
  <1>4. Injective(rf)
    <2>1. \A i \in 1..(m + 1) : i = 1 \/ i - 1 \in 1..m
      BY <1>2
    <2>2. \A i \in 1..(m + 1) : rf[i] = IF i = 1 THEN Root ELSE inc[i - 1]
      BY <1>3 DEF FileAt
    <2>3. \A i \in 1..m : inc[i] # Root
      BY <1>1 DEF Elements
    <2>4. \A i, j \in 1..m : inc[i] = inc[j] => i = j
      BY <1>1 DEF Injective
    <2>5. \A i, j \in 1..(m + 1) : rf[i] = rf[j] => i = j
      <3> SUFFICES ASSUME NEW i \in 1..(m + 1), NEW j \in 1..(m + 1), rf[i] = rf[j]
                   PROVE  i = j
        OBVIOUS
      <3>1. CASE i = 1 \/ j = 1
        BY <2>1, <2>2, <2>3, <3>1
      <3>2. CASE i # 1 /\ j # 1
        <4>1. i - 1 \in 1..m /\ j - 1 \in 1..m /\ inc[i - 1] = inc[j - 1]
          BY <2>1, <2>2, <3>2
        <4>2. i - 1 = j - 1
          BY <2>4, <4>1
        <4>. QED
          BY <1>2, <4>2
      <3>. QED
        BY <3>1, <3>2
    <2>. QED
      BY <1>3, <2>5 DEF Injective
  <1>5. n # 1 => t[Len(t)].doc # 0
    <2> SUFFICES ASSUME n # 1
                 PROVE  t[Len(t)].doc # 0
      OBVIOUS
    <2>1. n - 1 \in 1..n /\ n - 1 < n /\ n - 1 \in 1..(n - 1)
      BY <1>2
    <2>2. s[n - 1].doc # 0
      BY <1>1, <2>1 DEF DocInv
    <2>3. t[n - 1] = Frame(s[n - 1].path, s[n - 1].pos + 1, s[n - 1].doc)
      BY <1>1, <2>1 DEF Returned
    <2>. QED
      BY <1>2, <2>2, <2>3 DEF Frame
  <1>. QED
    BY <1>1, <1>3, <1>4, <1>5 DEF OnceInv

-----------------------------------------------------------------------------
(***************************************************************************)
(* The model that is filled.                                               *)
(***************************************************************************)

\* Sequences of no and of one element.
LEMMA ShortSeqs ==
  ASSUME NEW x
  PROVE  IsSeq(<<>>) /\ Len(<<>>) = 0 /\ IsSeq(<<x>>) /\ Len(<<x>>) = 1 /\ <<x>>[1] = x
  <1>1. <<>> \in Seq({}) /\ Len(<<>>) = 0
    BY EmptySeq
  <1>2. <<>> = [i \in 1..0 |-> <<>>[i]]
    BY <1>1
  <1>3. IsSeq(<<>>)
    BY <1>2, MakeSeq
  <1>4. <<x>> \in Seq({x}) /\ Len(<<x>>) = 1 /\ <<x>>[1] = x
    OBVIOUS
  <1>5. <<x>> = [i \in 1..1 |-> <<x>>[i]]
    BY <1>4
  <1>6. IsSeq(<<x>>)
    BY <1>5, MakeSeq
  <1>. QED
    BY <1>1, <1>3, <1>4, <1>6

\* There is nothing wrong with no parts.
LEMMA EmptyParts == IsSeq(<<>>) /\ IsVariables(<<>>) /\ IsFunctions(<<>>) /\ IsAgents(<<>>)
                      /\ IsMessages(<<>>) /\ IsTypes(<<>>) /\ IsIOputs(<<>>)
  <1>1. IsSeq(<<>>) /\ Len(<<>>) = 0
    BY ShortSeqs
  <1>2. \A i \in 1..Len(<<>>) : FALSE
    BY <1>1
  <1>. QED
    BY <1>1, <1>2 DEF IsVariables, IsFunctions, IsAgents, IsMessages, IsTypes, IsIOputs

\* A sequence with the places of another.
LEMMA MappedSeq ==
  ASSUME NEW s, IsSeq(s), NEW t, t = [i \in DOMAIN s |-> t[i]]
  PROVE  IsSeq(t) /\ Len(t) = Len(s)
  <1>1. Len(s) \in Nat /\ DOMAIN s = 1..Len(s)
    BY SeqFacts
  <1>. QED
    BY <1>1, MakeSeq

\* t is s followed by u.
Joined(s, u, t) ==
  /\ IsSeq(t) /\ Len(t) = Len(s) + Len(u)
  /\ \A i \in 1..Len(s) : t[i] = s[i]
  /\ \A i \in 1..Len(u) : t[Len(s) + i] = u[i]
  /\ \A i \in 1..Len(t) : i \in 1..Len(s) \/ (i - Len(s) \in 1..Len(u) /\ t[i] = u[i - Len(s)])

\* Concatenation.
LEMMA ConcatJoins ==
  ASSUME NEW s, IsSeq(s), NEW u, IsSeq(u)
  PROVE  Joined(s, u, s \o u)
  <1>1. PICK n, m, t, S : n = Len(s) /\ m = Len(u) /\ t = s \o u /\ S = Range(s) \union Range(u)
    OBVIOUS
  <1>2. n \in Nat /\ m \in Nat /\ s = [i \in 1..n |-> s[i]] /\ u = [i \in 1..m |-> u[i]]
    BY <1>1, SeqFacts
  <1>3. s \in Seq(S) /\ u \in Seq(S)
    <2>1. \A i \in 1..n : s[i] \in S
      BY <1>1, SeqFacts
    <2>2. \A i \in 1..m : u[i] \in S
      BY <1>1, SeqFacts
    <2>3. s \in [1..n -> S]
      <3>1. s = [i \in 1..n |-> s[i]]
        BY <1>2
      <3>. QED
        BY <2>1, <3>1
    <2>4. u \in [1..m -> S]
      <3>1. u = [i \in 1..m |-> u[i]]
        BY <1>2
      <3>. QED
        BY <2>2, <3>1
    <2>5. n \in Nat /\ m \in Nat
      BY <1>2
    <2>. QED
      BY <2>3, <2>4, <2>5
  <1>4. t \in Seq(S) /\ Len(t) = n + m /\ \A i \in 1..(n + m) : t[i] = IF i <= n THEN s[i] ELSE u[i - n]
    BY <1>1, <1>3, ConcatProperties
  <1>5. t = [i \in 1..(n + m) |-> t[i]] /\ n + m \in Nat
    BY <1>2, <1>4
  <1>6. IsSeq(t)
    BY <1>5, MakeSeq
  <1>7. \A i \in 1..n : t[i] = s[i]
    <2>1. n \in Nat /\ m \in Nat
      BY <1>2
    <2>2. \A i \in 1..n : i \in 1..(n + m) /\ i <= n
      BY <2>1
    <2>. QED
      BY <1>4, <2>2
  <1>8. \A i \in 1..m : t[n + i] = u[i]
    <2> SUFFICES ASSUME NEW i \in 1..m
                 PROVE  t[n + i] = u[i]
      OBVIOUS
    <2>1. PICK j : j = n + i
      OBVIOUS
    <2>2. j \in 1..(n + m) /\ ~(j <= n) /\ j - n = i
      BY <1>2, <2>1
    <2>3. t[j] = u[j - n]
      BY <1>4, <2>2
    <2>. QED
      BY <2>1, <2>2, <2>3
  <1>9. \A i \in 1..(n + m) : i \in 1..n \/ (i - n \in 1..m /\ t[i] = u[i - n])
    <2> SUFFICES ASSUME NEW i \in 1..(n + m), i \notin 1..n
                 PROVE  i - n \in 1..m /\ t[i] = u[i - n]
      OBVIOUS
    <2>1. ~(i <= n) /\ i - n \in 1..m
      BY <1>2
    <2>. QED
      BY <1>4, <2>1
  <1>. QED
    BY <1>1, <1>4, <1>6, <1>7, <1>8, <1>9 DEF Joined

\* Sequences of parts grow by parts.
LEMMA PartsPushed ==
  ASSUME NEW s, NEW t, NEW x, Len(s) \in Nat, Pushed(s, t, x)
  PROVE  /\ IsVariables(s) /\ IsVariable(x) => IsVariables(t)
         /\ IsIOputs(s) /\ IsIOput(x) => IsIOputs(t)
         /\ IsFunctions(s) /\ IsFunction(x) => IsFunctions(t)
         /\ IsAgents(s) /\ IsAgent(x) => IsAgents(t)
         /\ IsMessages(s) /\ IsMessage(x) => IsMessages(t)
         /\ IsTypes(s) /\ IsType(x) => IsTypes(t)
  <1>1. PICK n : n = Len(s)
    OBVIOUS
  <1>2. IsSeq(t) /\ Len(t) = n + 1 /\ \A i \in 1..(n + 1) : (i \in 1..n /\ t[i] = s[i]) \/ t[i] = x
    BY <1>1 DEF Pushed
  <1>. QED
    BY <1>1, <1>2 DEF IsVariables, IsIOputs, IsFunctions, IsAgents, IsMessages, IsTypes

\* A part is replaced by another.
LEMMA PartsReplaced ==
  ASSUME NEW s, NEW t, NEW k \in 1..Len(s), NEW x, Replaced(s, t, k, x)
  PROVE  /\ IsFunctions(s) /\ IsFunction(x) => IsFunctions(t)
         /\ IsAgents(s) /\ IsAgent(x) => IsAgents(t)
         /\ IsMessages(s) /\ IsMessage(x) => IsMessages(t)
         /\ IsTypes(s) /\ IsType(x) => IsTypes(t)
  <1>1. IsSeq(t) /\ Len(t) = Len(s) /\ \A i \in 1..Len(s) : t[i] = s[i] \/ t[i] = x
    BY DEF Replaced
  <1>. QED
    BY <1>1 DEF IsFunctions, IsAgents, IsMessages, IsTypes

\* Two sequences of parts become one.
LEMMA PartsJoined ==
  ASSUME NEW s, NEW u, NEW t, Joined(s, u, t)
  PROVE  /\ IsVariables(s) /\ IsVariables(u) => IsVariables(t)
         /\ IsFunctions(s) /\ IsFunctions(u) => IsFunctions(t)
  <1>1. IsSeq(t) /\ \A i \in 1..Len(t) : \/ i \in 1..Len(s) /\ t[i] = s[i]
                                         \/ i - Len(s) \in 1..Len(u) /\ t[i] = u[i - Len(s)]
    BY DEF Joined
  <1>. QED
    BY <1>1 DEF IsVariables, IsFunctions

-----------------------------------------------------------------------------
(***************************************************************************)
(* Reading elements.                                                       *)
(***************************************************************************)

\* readVariable()
LEMMA ReadVariablesShape ==
  ASSUME NEW s, IsSeq(s)
  PROVE  /\ IsVariables(ReadVariables(s)) /\ Len(ReadVariables(s)) = Len(s)
         /\ \A i \in 1..Len(s) : ReadVariables(s)[i].name = s[i].name
  <1>1. PICK t : t = ReadVariables(s)
    OBVIOUS
  <1>2. DOMAIN s = 1..Len(s)
    BY SeqFacts
  <1>3. t = [i \in DOMAIN s |-> ReadVariable(s[i])]
    BY <1>1 DEF ReadVariables
  <1>4. t = [i \in DOMAIN s |-> t[i]] /\ \A i \in DOMAIN s : t[i] = ReadVariable(s[i])
    BY <1>3
  <1>5. IsSeq(t) /\ Len(t) = Len(s)
    BY <1>4, MappedSeq
  <1>6. \A e : IsVariable(ReadVariable(e)) /\ ReadVariable(e).name = e.name
    BY DEF IsVariable, ReadVariable
  <1>. QED
    BY <1>1, <1>2, <1>4, <1>5, <1>6 DEF IsVariables

\* readInput(), readOutput()
LEMMA ReadIOputsShape ==
  ASSUME NEW s, IsSeq(s)
  PROVE  IsIOputs([i \in DOMAIN s |-> ReadIOput(s[i])])
  <1>1. PICK t : t = [i \in DOMAIN s |-> ReadIOput(s[i])]
    OBVIOUS
  <1>2. DOMAIN s = 1..Len(s)
    BY SeqFacts
  <1>3. t = [i \in DOMAIN s |-> t[i]] /\ \A i \in DOMAIN s : t[i] = ReadIOput(s[i])
    BY <1>1
  <1>4. IsSeq(t) /\ Len(t) = Len(s)
    BY <1>3, MappedSeq
  <1>5. \A e : IsIOput(ReadIOput(e))
    BY DEF IsIOput, ReadIOput
  <1>. QED
    BY <1>1, <1>2, <1>3, <1>4, <1>5 DEF IsIOputs

\* The lists of a function in a file.
OrderedFunction(f) ==
  /\ IsSeq(f.inputs) /\ IsSeq(f.outputs) /\ IsSeq(f.access)
  /\ \A a \in Range(f.access) : IsSeq(a.readOnly) /\ IsSeq(a.readWrite)

\* readTransition()
LEMMA ReadTransitionShape ==
  ASSUME NEW e, OrderedFunction(e)
  PROVE  /\ IsFunction(ReadTransition(e))
         /\ ReadTransition(e).name = e.name /\ ReadTransition(e).current = e.current
         /\ ReadTransition(e).next = e.next
  <1>1. PICK f : f = ReadTransition(e)
    OBVIOUS
  <1>2. PICK access, ins, outs, cond : access = ReadMemoryAccess(e.access)
                       /\ ins = [i \in DOMAIN e.inputs |-> ReadIOput(e.inputs[i])]
                       /\ outs = [i \in DOMAIN e.outputs |-> ReadIOput(e.outputs[i])]
                       /\ cond = ReadOptional(e.condition)
    OBVIOUS
  <1>3. PICK info : info = (e.access # <<>>)
    OBVIOUS
  <1>4. f = [name |-> e.name, current |-> e.current, next |-> e.next, condition |-> cond,
             infoAvailable |-> info, readOnly |-> access.readOnly, readWrite |-> access.readWrite,
             inputs |-> ins, outputs |-> outs, reads |-> {}]
    BY <1>1, <1>2, <1>3 DEF ReadTransition
  <1>5. IsIOputs(ins) /\ IsIOputs(outs)
    BY <1>2, ReadIOputsShape DEF OrderedFunction
  <1>6. IsSeq(cond)
    BY <1>2, ShortSeqs DEF ReadOptional
  <1>7. IsSeq(access.readOnly) /\ IsSeq(access.readWrite)
    <2>1. CASE e.access = <<>>
      <3>1. access.readOnly = <<>> /\ access.readWrite = <<>>
        BY <1>2, <2>1 DEF ReadMemoryAccess
      <3>. QED
        BY <3>1, ShortSeqs
    <2>2. CASE e.access # <<>>
      <3>1. access = e.access[1]
        BY <1>2, <2>2 DEF ReadMemoryAccess
      <3>2. IsSeq(e.access) /\ Len(e.access) # 0
        <4>1. e.access \in Seq(Range(e.access))
          BY DEF OrderedFunction, IsSeq
        <4>. QED
          BY <2>2, <4>1, EmptySeq DEF OrderedFunction
      <3>3. 1 \in 1..Len(e.access) /\ Range(e.access) = {e.access[i] : i \in 1..Len(e.access)}
        BY <3>2, SeqFacts
      <3>. QED
        BY <3>1, <3>3 DEF OrderedFunction
    <2>. QED
      BY <2>1, <2>2
  <1>8. /\ f.name = e.name /\ f.current = e.current /\ f.next = e.next /\ f.condition = cond
        /\ f.infoAvailable = info /\ f.readOnly = access.readOnly /\ f.readWrite = access.readWrite
        /\ f.inputs = ins /\ f.outputs = outs /\ f.reads = {}
    BY <1>4
  <1>9. IsFunction(f)
    BY <1>4, <1>5, <1>6, <1>7, <1>8 DEF IsFunction
  <1>. QED
    BY <1>1, <1>8, <1>9

\* Agent b has the name, the variables and the functions of agent a.
Keeps(a, b) ==
  /\ b.name = a.name
  /\ \A i \in 1..Len(a.variables) : \E j \in 1..Len(b.variables) : b.variables[j].name = a.variables[i].name
  /\ \A i \in 1..Len(a.functions) : \E j \in 1..Len(b.functions) :
       /\ b.functions[j].name = a.functions[i].name
       /\ b.functions[j].current = a.functions[i].current /\ b.functions[j].next = a.functions[i].next

\* Model n has what agents of model m had.
KeepsAgents(m, n) ==
  \A i \in 1..Len(m.agents) : \E j \in 1..Len(n.agents) : Keeps(m.agents[i], n.agents[j])

\* What an agent that keeps everything was described by still describes it.
LEMMA KeepsCovered ==
  ASSUME NEW m, NEW n, NEW e, KeepsAgents(m, n), Covered(m, e)
  PROVE  Covered(n, e)
  <1> SUFFICES ASSUME e.tag = "xagent"
               PROVE  \E j \in 1..Len(n.agents) : Described(e, n.agents[j])
    BY DEF Covered
  <1>1. PICK i \in 1..Len(m.agents) : Described(e, m.agents[i])
    BY DEF Covered
  <1>2. PICK j \in 1..Len(n.agents) : Keeps(m.agents[i], n.agents[j])
    BY DEF KeepsAgents
  <1>3. PICK a, b : a = m.agents[i] /\ b = n.agents[j]
    OBVIOUS
  <1>4. Described(e, a) /\ Keeps(a, b)
    BY <1>1, <1>2, <1>3
  <1>5. Described(e, b)
    <2>1. b.name = e.name
      BY <1>4 DEF Described, Keeps
    <2>2. ASSUME NEW k \in 1..Len(e.memory)
          PROVE  \E l \in 1..Len(b.variables) : b.variables[l].name = e.memory[k].name
      <3>1. PICK l \in 1..Len(a.variables) : a.variables[l].name = e.memory[k].name
        BY <1>4 DEF Described
      <3>. QED
        BY <1>4, <3>1 DEF Keeps
    <2>3. ASSUME NEW k \in 1..Len(e.functions)
          PROVE  \E l \in 1..Len(b.functions) :
                   /\ b.functions[l].name = e.functions[k].name
                   /\ b.functions[l].current = e.functions[k].current /\ b.functions[l].next = e.functions[k].next
      <3>1. PICK l \in 1..Len(a.functions) :
                   /\ a.functions[l].name = e.functions[k].name
                   /\ a.functions[l].current = e.functions[k].current /\ a.functions[l].next = e.functions[k].next
        BY <1>4 DEF Described
      <3>. QED
        BY <1>4, <3>1 DEF Keeps
    <2>. QED
      BY <2>1, <2>2, <2>3 DEF Described
  <1>. QED
    BY <1>3, <1>5

\* getAgent() and its kind find an element when there is one.
LEMMA AgentAtFinds ==
  ASSUME NEW m, IsSeq(m.agents), NEW name
  PROVE  /\ AgentAt(m, name) \in 0..Len(m.agents)
         /\ AgentAt(m, name) # 0 => m.agents[AgentAt(m, name)].name = name
         /\ AgentAt(m, name) = 0 => \A i \in 1..Len(m.agents) : m.agents[i].name # name
  <1>1. PICK I : I = {i \in 1..Len(m.agents) : m.agents[i].name = name}
    OBVIOUS
  <1>2. AgentAt(m, name) = IF I # {} THEN Min(I) ELSE 0
    BY <1>1 DEF AgentAt, SelectInSeq
  <1>3. Len(m.agents) \in Nat
    BY SeqFacts
  <1>4. CASE I = {}
    BY <1>1, <1>2, <1>3, <1>4
  <1>5. CASE I # {}
    <2>1. I \in SUBSET Nat
      BY <1>1
    <2>2. \E i \in I : \A j \in I : i <= j
      BY <1>5, <2>1, LeastNumber
    <2>3. Min(I) \in I
      BY <2>2 DEF Min
    <2>. QED
      BY <1>1, <1>2, <1>3, <1>5, <2>3
  <1>. QED
    BY <1>4, <1>5

\* Every agent keeps itself.
LEMMA KeepsItself ==
  ASSUME NEW a
  PROVE  Keeps(a, a)
  BY DEF Keeps

\* An agent is added, or replaced by one that keeps what it had.
LEMMA AgentSet ==
  ASSUME NEW m, Shape(m), NEW k \in 1..Len(m.agents), NEW b, IsAgent(b), Keeps(m.agents[k], b)
  PROVE  /\ Shape(SetAgent(m, k, b)) /\ KeepsAgents(m, SetAgent(m, k, b))
         /\ SetAgent(m, k, b).included = m.included
         /\ Len(SetAgent(m, k, b).agents) = Len(m.agents) /\ SetAgent(m, k, b).agents[k] = b
  <1>1. PICK ags, bs, n : ags = m.agents /\ bs = [ags EXCEPT ![k] = b] /\ n = SetAgent(m, k, b)
    OBVIOUS
  <1>2. n = [m EXCEPT !.agents = bs]
    BY <1>1 DEF SetAgent
  <1>3. IsModel(m) /\ IsAgents(ags) /\ k \in 1..Len(ags)
    BY <1>1 DEF Shape
  <1>4. Replaced(ags, bs, k, b)
    BY <1>1, <1>3, ExceptReplaces DEF IsAgents
  <1>5. IsAgents(bs)
    BY <1>3, <1>4, PartsReplaced
  <1>6. /\ n = [name |-> m.name, constants |-> m.constants, adts |-> m.adts, timeUnits |-> m.timeUnits,
                functionFiles |-> m.functionFiles, agents |-> bs, messages |-> m.messages,
                allowed |-> m.allowed, included |-> m.included]
    BY <1>2, <1>3 DEF IsModel
  <1>7. n.agents = bs /\ n.included = m.included /\ n.constants = m.constants /\ n.adts = m.adts /\ n.messages = m.messages
    BY <1>6
  <1>8. IsModel(n)
    BY <1>6 DEF IsModel
  <1>9. Shape(n)
    BY <1>5, <1>7, <1>8 DEF Shape
  <1>10. KeepsAgents(m, n)
    <2> SUFFICES ASSUME NEW i \in 1..Len(ags)
                 PROVE  \E j \in 1..Len(bs) : Keeps(ags[i], bs[j])
      BY <1>1, <1>7 DEF KeepsAgents
    <2>1. Len(bs) = Len(ags) /\ bs[k] = b /\ (i # k => bs[i] = ags[i])
      BY <1>4 DEF Replaced
    <2>2. Keeps(ags[k], b)
      BY <1>1
    <2>3. CASE i = k
      BY <1>3, <2>1, <2>2, <2>3
    <2>4. CASE i # k
      BY <2>1, <2>4, KeepsItself
    <2>. QED
      BY <2>3, <2>4
  <1>11. Len(bs) = Len(ags) /\ bs[k] = b
    BY <1>4 DEF Replaced
  <1>. QED
    BY <1>1, <1>7, <1>9, <1>10, <1>11

\* XModel::addAgent()
LEMMA AgentAdded ==
  ASSUME NEW m, Shape(m), NEW name
  PROVE  /\ Shape(AddAgent(m, name)) /\ KeepsAgents(m, AddAgent(m, name))
         /\ AddAgent(m, name).included = m.included
         /\ AgentAt(AddAgent(m, name), name) \in 1..Len(AddAgent(m, name).agents)
  <1>1. PICK ags, n, x : ags = m.agents /\ n = AddAgent(m, name) /\ x = NewAgent(name)
    OBVIOUS
  <1>2. IsModel(m) /\ IsAgents(ags) /\ IsSeq(ags) /\ Len(ags) \in Nat
    BY <1>1, SeqFacts DEF Shape, IsAgents
  <1>3. Len(ags) \in Nat
    BY <1>2
  <1>4. IsAgent(x) /\ x.name = name
    <2>1. x = [name |-> name, variables |-> <<>>, functions |-> <<>>, graph |-> <<>>]
      BY <1>1 DEF NewAgent
    <2>2. IsVariables(<<>>) /\ IsFunctions(<<>>)
      BY EmptyParts
    <2>. QED
      BY <2>1, <2>2 DEF IsAgent
  <1>5. PICK bs : bs = IF AgentAt(m, name) = 0 THEN Append(ags, x) ELSE ags
    OBVIOUS
  <1>6. n = [m EXCEPT !.agents = bs]
    BY <1>1, <1>5 DEF AddAgent
  <1>7. /\ n = [name |-> m.name, constants |-> m.constants, adts |-> m.adts, timeUnits |-> m.timeUnits,
                functionFiles |-> m.functionFiles, agents |-> bs, messages |-> m.messages,
                allowed |-> m.allowed, included |-> m.included]
    BY <1>2, <1>6 DEF IsModel
  <1>8. n.agents = bs /\ n.included = m.included /\ n.constants = m.constants /\ n.adts = m.adts /\ n.messages = m.messages
    BY <1>7
  <1>9. IsModel(n)
    BY <1>7 DEF IsModel
  <1>10. bs = ags \/ Pushed(ags, bs, x)
    BY <1>2, <1>5, AppendPushes
  <1>11. IsAgents(bs)
    BY <1>2, <1>4, <1>10, PartsPushed
  <1>12. Shape(n)
    BY <1>8, <1>9, <1>11 DEF Shape
  <1>13. Len(bs) \in Nat /\ Len(ags) <= Len(bs) /\ \A i \in 1..Len(ags) : i \in 1..Len(bs) /\ bs[i] = ags[i]
    <2>1. PICK k : k = Len(ags)
      OBVIOUS
    <2>2. Len(bs) = k \/ Len(bs) = k + 1
      BY <1>10, <2>1 DEF Pushed
    <2>3. \A i \in 1..k : bs[i] = ags[i]
      BY <1>10, <2>1 DEF Pushed
    <2>. QED
      BY <1>3, <2>1, <2>2, <2>3
  <1>14. KeepsAgents(m, n)
    BY <1>1, <1>8, <1>13, KeepsItself DEF KeepsAgents
  <1>15. \E i \in 1..Len(bs) : bs[i].name = name
    <2>1. CASE AgentAt(m, name) = 0
      <3>1. Pushed(ags, bs, x)
        BY <1>2, <1>5, <2>1, AppendPushes
      <3>2. Len(ags) + 1 \in 1..Len(bs) /\ bs[Len(ags) + 1].name = name
        <4>1. Len(bs) = Len(ags) + 1 /\ bs[Len(ags) + 1] = x
          BY <3>1 DEF Pushed
        <4>. QED
          BY <1>4, <1>3, <4>1
      <3>. QED
        BY <3>2
    <2>2. CASE AgentAt(m, name) # 0
      <3>1. PICK k : k = AgentAt(m, name)
        OBVIOUS
      <3>2. k \in 0..Len(ags) /\ ags[k].name = name /\ k # 0
        BY <1>1, <1>2, <2>2, <3>1, AgentAtFinds
      <3>3. k \in 1..Len(ags)
        BY <1>3, <3>2
      <3>. QED
        BY <1>13, <3>2, <3>3
    <2>. QED
      BY <2>1, <2>2
  <1>16. AgentAt(n, name) \in 1..Len(bs)
    <2>1. IsSeq(n.agents)
      BY <1>8, <1>11 DEF IsAgents
    <2>2. PICK k : k = AgentAt(n, name)
      OBVIOUS
    <2>3. k \in 0..Len(bs) /\ k # 0
      BY <1>8, <1>15, <2>1, <2>2, AgentAtFinds
    <2>. QED
      BY <1>13, <2>2, <2>3
  <1>. QED
    BY <1>1, <1>8, <1>12, <1>14, <1>16

\* readAgent() adds to an agent.
LEMMA AddToAgentAdds ==
  ASSUME NEW a, IsAgent(a), NEW e, e.tag = "xagent", Ordered(e)
  PROVE  IsAgent(AddToAgent(a, e)) /\ Keeps(a, AddToAgent(a, e)) /\ (a.name = e.name => Described(e, AddToAgent(a, e)))
  <1>1. PICK b, vs, ws, us, fs, gs, hs :
          /\ b = AddToAgent(a, e)
          /\ vs = a.variables /\ ws = ReadVariables(e.memory) /\ us = vs \o ws
          /\ fs = a.functions /\ gs = [j \in DOMAIN e.functions |-> ReadTransition(e.functions[j])] /\ hs = fs \o gs
    OBVIOUS
  <1>2. IsSeq(e.memory) /\ IsSeq(e.functions) /\ \A f \in Range(e.functions) : OrderedFunction(f)
    BY DEF Ordered, OrderedFunction
  <1>3. b = [a EXCEPT !.variables = us, !.functions = hs]
    BY <1>1 DEF AddToAgent
  <1>4. b = [name |-> a.name, variables |-> us, functions |-> hs, graph |-> a.graph]
    BY <1>3 DEF IsAgent
  <1>5. IsVariables(vs) /\ IsFunctions(fs)
    BY <1>1 DEF IsAgent
  <1>6. IsVariables(ws) /\ Len(ws) = Len(e.memory) /\ \A i \in 1..Len(e.memory) : ws[i].name = e.memory[i].name
    BY <1>1, <1>2, ReadVariablesShape
  <1>7. /\ IsFunctions(gs) /\ Len(gs) = Len(e.functions)
        /\ \A i \in 1..Len(e.functions) :
             gs[i].name = e.functions[i].name /\ gs[i].current = e.functions[i].current /\ gs[i].next = e.functions[i].next
    <2>1. gs = [j \in DOMAIN e.functions |-> gs[j]] /\ \A j \in DOMAIN e.functions : gs[j] = ReadTransition(e.functions[j])
      BY <1>1
    <2>2. IsSeq(gs) /\ Len(gs) = Len(e.functions)
      BY <1>2, <2>1, MappedSeq
    <2>3. DOMAIN e.functions = 1..Len(e.functions) /\ \A i \in 1..Len(e.functions) : e.functions[i] \in Range(e.functions)
      BY <1>2, SeqFacts
    <2>4. ASSUME NEW i \in 1..Len(e.functions)
          PROVE  /\ IsFunction(gs[i])
                 /\ gs[i].name = e.functions[i].name /\ gs[i].current = e.functions[i].current
                 /\ gs[i].next = e.functions[i].next
      <3>1. PICK f : f = e.functions[i]
        OBVIOUS
      <3>2. OrderedFunction(f) /\ gs[i] = ReadTransition(f)
        BY <1>2, <2>1, <2>3, <3>1
      <3>. QED
        BY <3>1, <3>2, ReadTransitionShape
    <2>. QED
      BY <2>2, <2>4 DEF IsFunctions
  <1>8. Joined(vs, ws, us) /\ Joined(fs, gs, hs)
    BY <1>1, <1>5, <1>6, <1>7, ConcatJoins DEF IsVariables, IsFunctions
  <1>9. IsVariables(us) /\ IsFunctions(hs)
    BY <1>5, <1>6, <1>7, <1>8, PartsJoined
  <1>10. b.name = a.name /\ b.variables = us /\ b.functions = hs /\ b.graph = a.graph
    BY <1>4
  <1>11. IsAgent(b)
    BY <1>4, <1>9, <1>10 DEF IsAgent
  <1>12. Len(vs) \in Nat /\ Len(ws) \in Nat /\ Len(fs) \in Nat /\ Len(gs) \in Nat
    BY <1>5, <1>6, <1>7, SeqFacts DEF IsVariables, IsFunctions
  <1>13. /\ \A i \in 1..Len(vs) : i \in 1..Len(us) /\ us[i] = vs[i]
         /\ \A i \in 1..Len(ws) : Len(vs) + i \in 1..Len(us) /\ us[Len(vs) + i] = ws[i]
         /\ \A i \in 1..Len(fs) : i \in 1..Len(hs) /\ hs[i] = fs[i]
         /\ \A i \in 1..Len(gs) : Len(fs) + i \in 1..Len(hs) /\ hs[Len(fs) + i] = gs[i]
    <2>1. Len(us) = Len(vs) + Len(ws) /\ Len(hs) = Len(fs) + Len(gs)
      BY <1>8 DEF Joined
    <2>2. /\ \A i \in 1..Len(vs) : i \in 1..Len(us)
          /\ \A i \in 1..Len(ws) : Len(vs) + i \in 1..Len(us)
          /\ \A i \in 1..Len(fs) : i \in 1..Len(hs)
          /\ \A i \in 1..Len(gs) : Len(fs) + i \in 1..Len(hs)
      BY <1>12, <2>1
    <2>. QED
      BY <1>8, <2>2 DEF Joined
  <1>14. Keeps(a, b)
    BY <1>1, <1>10, <1>13 DEF Keeps
  <1>15. a.name = e.name => Described(e, b)
    <2>1. \A i \in 1..Len(e.memory) : \E j \in 1..Len(us) : us[j].name = e.memory[i].name
      BY <1>6, <1>13
    <2>2. \A i \in 1..Len(e.functions) : \E j \in 1..Len(hs) :
             hs[j].name = e.functions[i].name /\ hs[j].current = e.functions[i].current /\ hs[j].next = e.functions[i].next
      <3> SUFFICES ASSUME NEW i \in 1..Len(e.functions)
                   PROVE  \E j \in 1..Len(hs) : /\ hs[j].name = e.functions[i].name
                                                /\ hs[j].current = e.functions[i].current
                                                /\ hs[j].next = e.functions[i].next
        OBVIOUS
      <3>1. PICK j : j = Len(fs) + i
        OBVIOUS
      <3>2. j \in 1..Len(hs) /\ hs[j] = gs[i]
        BY <1>7, <1>13, <3>1
      <3>3. gs[i].name = e.functions[i].name /\ gs[i].current = e.functions[i].current /\ gs[i].next = e.functions[i].next
        BY <1>7
      <3>. QED
        BY <3>2, <3>3
    <2>. QED
      BY <1>10, <2>1, <2>2 DEF Described
  <1>. QED
    BY <1>1, <1>11, <1>14, <1>15

\* The relation is transitive.
LEMMA KeepsTwice ==
  ASSUME NEW l, NEW m, NEW n, KeepsAgents(l, m), KeepsAgents(m, n)
  PROVE  KeepsAgents(l, n)
  <1> SUFFICES ASSUME NEW i \in 1..Len(l.agents)
               PROVE  \E j \in 1..Len(n.agents) : Keeps(l.agents[i], n.agents[j])
    BY DEF KeepsAgents
  <1>1. PICK j \in 1..Len(m.agents) : Keeps(l.agents[i], m.agents[j])
    BY DEF KeepsAgents
  <1>2. PICK k \in 1..Len(n.agents) : Keeps(m.agents[j], n.agents[k])
    BY DEF KeepsAgents
  <1>3. PICK a, b, c : a = l.agents[i] /\ b = m.agents[j] /\ c = n.agents[k]
    OBVIOUS
  <1>4. Keeps(a, b) /\ Keeps(b, c)
    BY <1>1, <1>2, <1>3
  <1>5. Keeps(a, c)
    <2>1. c.name = a.name
      BY <1>4 DEF Keeps
    <2>2. ASSUME NEW h \in 1..Len(a.variables)
          PROVE  \E g \in 1..Len(c.variables) : c.variables[g].name = a.variables[h].name
      <3>1. PICK g \in 1..Len(b.variables) : b.variables[g].name = a.variables[h].name
        BY <1>4 DEF Keeps
      <3>. QED
        BY <1>4, <3>1 DEF Keeps
    <2>3. ASSUME NEW h \in 1..Len(a.functions)
          PROVE  \E g \in 1..Len(c.functions) :
                   /\ c.functions[g].name = a.functions[h].name
                   /\ c.functions[g].current = a.functions[h].current /\ c.functions[g].next = a.functions[h].next
      <3>1. PICK g \in 1..Len(b.functions) :
                   /\ b.functions[g].name = a.functions[h].name
                   /\ b.functions[g].current = a.functions[h].current /\ b.functions[g].next = a.functions[h].next
        BY <1>4 DEF Keeps
      <3>. QED
        BY <1>4, <3>1 DEF Keeps
    <2>. QED
      BY <2>1, <2>2, <2>3 DEF Keeps
  <1>. QED
    BY <1>3, <1>5

\* readAgent()
LEMMA ReadAgentReads ==
  ASSUME NEW m, Shape(m), NEW e, e.tag = "xagent", Ordered(e)
  PROVE  /\ Shape(ReadAgent(m, e)) /\ KeepsAgents(m, ReadAgent(m, e))
         /\ ReadAgent(m, e).included = m.included /\ Covered(ReadAgent(m, e), e)
  <1>1. PICK n, i, a, b, r : n = AddAgent(m, e.name) /\ i = AgentAt(n, e.name) /\ a = n.agents[i]
                               /\ b = AddToAgent(a, e) /\ r = ReadAgent(m, e)
    OBVIOUS
  <1>2. r = SetAgent(n, i, b)
    BY <1>1 DEF ReadAgent
  <1>3. Shape(n) /\ KeepsAgents(m, n) /\ n.included = m.included /\ i \in 1..Len(n.agents)
    BY <1>1, AgentAdded
  <1>4. IsSeq(n.agents) /\ Len(n.agents) \in Nat /\ IsAgent(a)
    BY <1>1, <1>3, SeqFacts DEF Shape, IsAgents
  <1>5. i # 0
    <2>1. Len(n.agents) \in Nat
      BY <1>4
    <2>2. i \in 1..Len(n.agents)
      BY <1>3
    <2>. QED
      BY <2>1, <2>2
  <1>6. a.name = e.name
    BY <1>1, <1>4, <1>5, AgentAtFinds
  <1>7. IsAgent(b) /\ Keeps(a, b) /\ Described(e, b)
    BY <1>1, <1>4, <1>6, AddToAgentAdds
  <1>8. Keeps(n.agents[i], b)
    BY <1>1, <1>7
  <1>9. Shape(r) /\ KeepsAgents(n, r) /\ r.included = n.included /\ Len(r.agents) = Len(n.agents) /\ r.agents[i] = b
    BY <1>2, <1>3, <1>7, <1>8, AgentSet
  <1>10. KeepsAgents(m, r)
    BY <1>3, <1>9, KeepsTwice
  <1>11. Covered(r, e)
    BY <1>3, <1>7, <1>9 DEF Covered
  <1>. QED
    BY <1>1, <1>3, <1>9, <1>10, <1>11

\* A field of a model other than its agents and included files gets a new value.
LEMMA FieldRead ==
  ASSUME NEW m, Shape(m), NEW x
  PROVE  /\ Shape([m EXCEPT !.name = x]) /\ [m EXCEPT !.name = x].included = m.included
              /\ [m EXCEPT !.name = x].agents = m.agents
         /\ Shape([m EXCEPT !.timeUnits = x]) /\ [m EXCEPT !.timeUnits = x].included = m.included
              /\ [m EXCEPT !.timeUnits = x].agents = m.agents
         /\ Shape([m EXCEPT !.functionFiles = x]) /\ [m EXCEPT !.functionFiles = x].included = m.included
              /\ [m EXCEPT !.functionFiles = x].agents = m.agents
         /\ IsVariables(x) => Shape([m EXCEPT !.constants = x])
         /\ [m EXCEPT !.constants = x].included = m.included /\ [m EXCEPT !.constants = x].agents = m.agents
         /\ IsTypes(x) => Shape([m EXCEPT !.adts = x])
         /\ [m EXCEPT !.adts = x].included = m.included /\ [m EXCEPT !.adts = x].agents = m.agents
         /\ IsMessages(x) => Shape([m EXCEPT !.messages = x])
         /\ [m EXCEPT !.messages = x].included = m.included /\ [m EXCEPT !.messages = x].agents = m.agents
  <1>1. m = [name |-> m.name, constants |-> m.constants, adts |-> m.adts, timeUnits |-> m.timeUnits,
             functionFiles |-> m.functionFiles, agents |-> m.agents, messages |-> m.messages,
             allowed |-> m.allowed, included |-> m.included]
    BY DEF Shape, IsModel
  <1>2. IsVariables(m.constants) /\ IsTypes(m.adts) /\ IsAgents(m.agents) /\ IsMessages(m.messages)
    BY DEF Shape
  <1>3. ASSUME NEW n, IsModel(n), n.agents = m.agents,
               n.constants = m.constants \/ IsVariables(n.constants),
               n.adts = m.adts \/ IsTypes(n.adts), n.messages = m.messages \/ IsMessages(n.messages)
        PROVE  Shape(n)
    BY <1>2, <1>3 DEF Shape
  <1>4. PICK n : n = [m EXCEPT !.name = x]
    OBVIOUS
  <1>5. PICK u : u = [m EXCEPT !.timeUnits = x]
    OBVIOUS
  <1>6. PICK f : f = [m EXCEPT !.functionFiles = x]
    OBVIOUS
  <1>7. PICK c : c = [m EXCEPT !.constants = x]
    OBVIOUS
  <1>8. PICK t : t = [m EXCEPT !.adts = x]
    OBVIOUS
  <1>9. PICK g : g = [m EXCEPT !.messages = x]
    OBVIOUS
  <1>10. Shape(n) /\ n.included = m.included /\ n.agents = m.agents
    <2>1. IsModel(n) /\ n.included = m.included /\ n.agents = m.agents /\ n.constants = m.constants /\ n.adts = m.adts
            /\ n.messages = m.messages
      BY <1>1, <1>4 DEF IsModel
    <2>. QED
      BY <1>3, <2>1
  <1>11. Shape(u) /\ u.included = m.included /\ u.agents = m.agents
    <2>1. IsModel(u) /\ u.included = m.included /\ u.agents = m.agents /\ u.constants = m.constants /\ u.adts = m.adts
            /\ u.messages = m.messages
      BY <1>1, <1>5 DEF IsModel
    <2>. QED
      BY <1>3, <2>1
  <1>12. Shape(f) /\ f.included = m.included /\ f.agents = m.agents
    <2>1. IsModel(f) /\ f.included = m.included /\ f.agents = m.agents /\ f.constants = m.constants /\ f.adts = m.adts
            /\ f.messages = m.messages
      BY <1>1, <1>6 DEF IsModel
    <2>. QED
      BY <1>3, <2>1
  <1>13. (IsVariables(x) => Shape(c)) /\ c.included = m.included /\ c.agents = m.agents
    <2>1. IsModel(c) /\ c.included = m.included /\ c.agents = m.agents /\ c.constants = x /\ c.adts = m.adts
            /\ c.messages = m.messages
      BY <1>1, <1>7 DEF IsModel
    <2>. QED
      BY <1>3, <2>1
  <1>14. (IsTypes(x) => Shape(t)) /\ t.included = m.included /\ t.agents = m.agents
    <2>1. IsModel(t) /\ t.included = m.included /\ t.agents = m.agents /\ t.constants = m.constants /\ t.adts = x
            /\ t.messages = m.messages
      BY <1>1, <1>8 DEF IsModel
    <2>. QED
      BY <1>3, <2>1
  <1>15. (IsMessages(x) => Shape(g)) /\ g.included = m.included /\ g.agents = m.agents
    <2>1. IsModel(g) /\ g.included = m.included /\ g.agents = m.agents /\ g.constants = m.constants /\ g.adts = m.adts
            /\ g.messages = x
      BY <1>1, <1>9 DEF IsModel
    <2>. QED
      BY <1>3, <2>1
  <1>. QED
    BY <1>4, <1>5, <1>6, <1>7, <1>8, <1>9, <1>10, <1>11, <1>12, <1>13, <1>14, <1>15

\* The same agents keep everything.
LEMMA SameAgents ==
  ASSUME NEW m, NEW n, n.agents = m.agents
  PROVE  KeepsAgents(m, n)
  BY KeepsItself DEF KeepsAgents

\* readModelElements(): an element is read and nothing is lost.
LEMMA ElementRead ==
  ASSUME NEW m, Shape(m), NEW e, Ordered(e)
  PROVE  /\ Shape(ReadElement(m, e)) /\ KeepsAgents(m, ReadElement(m, e))
         /\ ReadElement(m, e).included = m.included /\ Covered(ReadElement(m, e), e)
  <1>1. PICK n : n = ReadElement(m, e)
    OBVIOUS
  <1>2. IsSeq(m.constants) /\ IsSeq(m.adts) /\ IsSeq(m.messages)
    BY DEF Shape, IsVariables, IsTypes, IsMessages
  <1>3. CASE e.tag = "xagent"
    <2>1. n = ReadAgent(m, e)
      BY <1>1, <1>3 DEF ReadElement
    <2>. QED
      BY <1>1, <1>3, <2>1, ReadAgentReads
  <1>4. ASSUME e.tag # "xagent"
        PROVE  Shape(n) /\ n.included = m.included /\ n.agents = m.agents
    <2>1. CASE e.tag = "name"
      <3>1. n = SetName(m, e.value)
        BY <1>1, <2>1 DEF ReadElement
      <3>2. PICK x : x = IF m.name = None THEN e.value ELSE m.name
        OBVIOUS
      <3>3. n = [m EXCEPT !.name = x]
        BY <3>1, <3>2 DEF SetName
      <3>. QED
        BY <3>3, FieldRead
    <2>2. CASE e.tag = "message"
      <3>1. n = ReadMessage(m, e)
        BY <1>1, <2>2 DEF ReadElement
      <3>2. PICK x, y, vs : vs = ReadVariables(e.variables) /\ x = [name |-> e.name, variables |-> vs]
                              /\ y = Append(m.messages, x)
        OBVIOUS
      <3>3. n = [m EXCEPT !.messages = y]
        BY <3>1, <3>2 DEF ReadMessage
      <3>4. IsVariables(vs)
        BY <2>2, <3>2, ReadVariablesShape DEF Ordered
      <3>5. IsMessage(x)
        BY <3>2, <3>4 DEF IsMessage
      <3>6. Pushed(m.messages, y, x) /\ Len(m.messages) \in Nat
        BY <1>2, <3>2, AppendPushes, SeqFacts
      <3>7. IsMessages(y)
        BY <3>5, <3>6, PartsPushed DEF Shape
      <3>. QED
        BY <3>3, <3>7, FieldRead
    <2>3. CASE e.tag = "constant"
      <3>1. n = ReadEnvironment(m, e)
        BY <1>1, <2>3 DEF ReadElement
      <3>2. PICK x, y : x = ReadVariable(e.variable) /\ y = Append(m.constants, x)
        OBVIOUS
      <3>3. n = [m EXCEPT !.constants = y]
        BY <2>3, <3>1, <3>2 DEF ReadEnvironment
      <3>4. IsVariable(x)
        BY <3>2 DEF ReadVariable, IsVariable
      <3>5. Pushed(m.constants, y, x) /\ Len(m.constants) \in Nat
        BY <1>2, <3>2, AppendPushes, SeqFacts
      <3>6. IsVariables(y)
        BY <3>4, <3>5, PartsPushed DEF Shape
      <3>. QED
        BY <3>3, <3>6, FieldRead
    <2>4. CASE e.tag = "dataType"
      <3>1. n = ReadDataType(m, e)
        BY <1>1, <2>4 DEF ReadElement, ReadEnvironment
      <3>2. PICK x, y, vs : /\ vs = ReadVariables(e.variables)
                            /\ x = [name |-> e.name, holdsDynamicArray |-> FALSE, variables |-> vs]
                            /\ y = Append(m.adts, x)
        OBVIOUS
      <3>3. n = [m EXCEPT !.adts = y]
        BY <3>1, <3>2 DEF ReadDataType
      <3>4. IsVariables(vs)
        BY <2>4, <3>2, ReadVariablesShape DEF Ordered
      <3>5. IsType(x)
        BY <3>2, <3>4 DEF IsType
      <3>6. Pushed(m.adts, y, x) /\ Len(m.adts) \in Nat
        BY <1>2, <3>2, AppendPushes, SeqFacts
      <3>7. IsTypes(y)
        BY <3>5, <3>6, PartsPushed DEF Shape
      <3>. QED
        BY <3>3, <3>7, FieldRead
    <2>5. CASE e.tag = "timeUnit"
      <3>1. n = AddTimeUnit(m, e.unit)
        BY <1>1, <2>5 DEF ReadElement, ReadEnvironment, ReadTimeUnit
      <3>2. PICK x : x = IF e.unit \in Range(m.timeUnits) THEN m.timeUnits ELSE Append(m.timeUnits, e.unit)
        OBVIOUS
      <3>3. n = [m EXCEPT !.timeUnits = x]
        BY <3>1, <3>2 DEF AddTimeUnit
      <3>. QED
        BY <3>3, FieldRead
    <2>6. CASE e.tag = "file"
      <3>1. n = ReadFunctionFile(m, e)
        BY <1>1, <2>6 DEF ReadElement, ReadEnvironment
      <3>2. PICK x : x = Append(m.functionFiles, e.value)
        OBVIOUS
      <3>3. n = [m EXCEPT !.functionFiles = x]
        BY <3>1, <3>2 DEF ReadFunctionFile
      <3>. QED
        BY <3>3, FieldRead
    <2>7. CASE e.tag \notin {"name", "message", "constant", "dataType", "timeUnit", "file"}
      <3>1. n = m
        BY <1>1, <1>4, <2>7 DEF ReadElement
      <3>. QED
        BY <3>1
    <2>. QED
      BY <2>1, <2>2, <2>3, <2>4, <2>5, <2>6, <2>7
  <1>5. CASE e.tag # "xagent"
    <2>1. KeepsAgents(m, n)
      BY <1>4, <1>5, SameAgents
    <2>2. Covered(n, e)
      BY <1>5 DEF Covered
    <2>. QED
      BY <1>1, <1>4, <1>5, <2>1, <2>2
  <1>. QED
    BY <1>3, <1>5

-----------------------------------------------------------------------------
(***************************************************************************)
(* Nothing that was read is lost.                                          *)
(***************************************************************************)

\* Element k of file f is in model m, or some frame of s comes to it.
Due(fs, s, f, k, m) ==
  \/ Covered(m, ElementsOf(fs, f)[k])
  \/ \E j \in 1..Len(s) : s[j].doc # 0 /\ s[j].path = f /\ s[j].pos <= k

\* A file that was read and all of its elements.
FileDue(fs, s, f, m) ==
  /\ FileOf(fs, f) \notin {Missing, Malformed}
  /\ \A k \in 1..Len(ElementsOf(fs, f)) : Due(fs, s, f, k, m)

\* The parts of KeepInv.
LEMMA KeepParts ==
  ASSUME NEW fs, NEW s, NEW th, NEW rd, NEW rf, NEW m
  PROVE  KeepInv(fs, s, th, rd, rf, m) <=>
         (rd = "loaded" \/ (rd = "reading" /\ th = None) => \A i \in 1..Len(rf) : FileDue(fs, s, rf[i], m))
  BY DEF KeepInv, FileDue, Due

\* A file is opened.
LEMMA KeepOpen ==
  ASSUME NEW fs \in FileSets, NEW s, NEW t, NEW f, NEW d \in Nat \ {0}, NEW p, NEW rf, NEW m, IsSeq(s), IsSeq(rf), Len(s) # 0,
         FrameInv(fs, s), KeepInv(fs, s, None, "reading", rf, m), s[Len(s)].doc = 0, f = s[Len(s)].path, p = s[Len(s)].pos,
         FileOf(fs, f) \notin {Missing, Malformed}, Replaced(s, t, Len(s), Frame(f, p, d))
  PROVE  KeepInv(fs, t, None, "reading", Append(rf, f), m)
  <1>1. PICK n, r, x : n = Len(s) /\ r = Append(rf, f) /\ x = Frame(f, p, d)
    OBVIOUS
  <1>2. n \in Nat /\ n \in 1..n
    BY <1>1, SeqFacts
  <1>3. Len(t) = n /\ t[n] = x /\ \A i \in 1..n : i # n => t[i] = s[i]
    BY <1>1 DEF Replaced
  <1>4. x.path = f /\ x.doc = d /\ x.pos = p /\ p = 1
    BY <1>1, <1>2 DEF Frame, FrameInv
  <1>5. \A i \in 1..Len(rf) : FileDue(fs, t, rf[i], m)
    <2>1. \A g, k : Due(fs, s, g, k, m) => Due(fs, t, g, k, m)
      BY <1>1, <1>3 DEF Due
    <2>2. \A i \in 1..Len(rf) : FileDue(fs, s, rf[i], m)
      BY KeepParts
    <2>. QED
      BY <2>1, <2>2 DEF FileDue
  <1>6. FileDue(fs, t, f, m)
    <2>1. \A k \in 1..Len(ElementsOf(fs, f)) : 1 <= k
      OBVIOUS
    <2>2. \A k \in 1..Len(ElementsOf(fs, f)) : Due(fs, t, f, k, m)
      BY <1>2, <1>3, <1>4, <2>1 DEF Due
    <2>. QED
      BY <2>2 DEF FileDue
  <1>7. \A i \in 1..Len(r) : FileDue(fs, t, r[i], m)
    <2>1. Pushed(rf, r, f) /\ Len(rf) \in Nat
      BY <1>1, AppendPushes, SeqFacts
    <2>2. \A i \in 1..Len(r) : (i \in 1..Len(rf) /\ r[i] = rf[i]) \/ r[i] = f
      BY <2>1 DEF Pushed
    <2>. QED
      BY <1>5, <1>6, <2>2
  <1>. QED
    BY <1>1, <1>7, KeepParts

\* The top frame goes on after its element.
LEMMA KeepAdvance ==
  ASSUME NEW fs \in FileSets, NEW s, NEW t, NEW f, NEW p \in Nat, NEW rf, NEW m, NEW n, IsSeq(s), Len(s) # 0,
         FrameInv(fs, s), KeepInv(fs, s, None, "reading", rf, m), s[Len(s)].doc # 0, f = s[Len(s)].path, p = s[Len(s)].pos,
         Replaced(s, t, Len(s), Frame(f, p + 1, s[Len(s)].doc)),
         KeepsAgents(m, n), Covered(n, ElementsOf(fs, f)[p])
  PROVE  KeepInv(fs, t, None, "reading", rf, n)
  <1>1. PICK l, x : l = Len(s) /\ x = Frame(f, p + 1, s[Len(s)].doc)
    OBVIOUS
  <1>2. l \in Nat /\ l \in 1..l
    BY <1>1, SeqFacts
  <1>3. Len(t) = l /\ t[l] = x /\ \A i \in 1..l : i # l => t[i] = s[i]
    BY <1>1 DEF Replaced
  <1>4. x.path = f /\ x.doc = s[l].doc /\ x.pos = p + 1
    BY <1>1 DEF Frame
  <1>5. ASSUME NEW g, NEW k \in Nat, Due(fs, s, g, k, m)
        PROVE  Due(fs, t, g, k, n)
    <2>1. CASE Covered(m, ElementsOf(fs, g)[k])
      BY <2>1, KeepsCovered DEF Due
    <2>2. CASE \E j \in 1..l : s[j].doc # 0 /\ s[j].path = g /\ s[j].pos <= k
      <3>1. PICK j \in 1..l : s[j].doc # 0 /\ s[j].path = g /\ s[j].pos <= k
        BY <2>2
      <3>2. CASE j # l
        BY <1>3, <3>1, <3>2 DEF Due
      <3>3. CASE j = l /\ k = p
        BY <1>1, <3>1, <3>3 DEF Due
      <3>4. CASE j = l /\ k # p
        <4>1. p <= k /\ g = f
          BY <1>1, <3>1, <3>4
        <4>2. p + 1 <= k
          BY <3>4, <4>1
        <4>. QED
          BY <1>1, <1>2, <1>3, <1>4, <4>1, <4>2 DEF Due
      <3>. QED
        BY <3>2, <3>3, <3>4
    <2>. QED
      BY <1>1, <1>5, <2>1, <2>2 DEF Due
  <1>6. \A i \in 1..Len(rf) : FileDue(fs, s, rf[i], m)
    BY KeepParts
  <1>7. \A i \in 1..Len(rf) : FileDue(fs, t, rf[i], n)
    <2> SUFFICES ASSUME NEW i \in 1..Len(rf)
                 PROVE  FileDue(fs, t, rf[i], n)
      OBVIOUS
    <2>1. FileDue(fs, s, rf[i], m)
      BY <1>6
    <2>2. \A k \in 1..Len(ElementsOf(fs, rf[i])) : k \in Nat /\ Due(fs, s, rf[i], k, m)
      BY <2>1 DEF FileDue
    <2>3. \A k \in 1..Len(ElementsOf(fs, rf[i])) : Due(fs, t, rf[i], k, n)
      BY <1>5, <2>2
    <2>. QED
      BY <2>1, <2>3 DEF FileDue
  <1>. QED
    BY <1>7, KeepParts

\* A file is included.
LEMMA KeepCall ==
  ASSUME NEW fs, NEW s, NEW t, NEW x, NEW rf, NEW m, NEW n, IsSeq(s), Pushed(s, t, x),
         KeepInv(fs, s, None, "reading", rf, m), n.agents = m.agents
  PROVE  KeepInv(fs, t, None, "reading", rf, n)
  <1>1. PICK l : l = Len(s)
    OBVIOUS
  <1>2. l \in Nat
    BY <1>1, SeqFacts
  <1>3. Len(t) = l + 1 /\ \A i \in 1..l : t[i] = s[i]
    BY <1>1 DEF Pushed
  <1>4. \A i \in 1..l : i \in 1..Len(t) /\ t[i] = s[i]
    BY <1>2, <1>3
  <1>5. \A e : Covered(m, e) => Covered(n, e)
    BY SameAgents, KeepsCovered
  <1>6. \A g, k : Due(fs, s, g, k, m) => Due(fs, t, g, k, n)
    BY <1>1, <1>4, <1>5 DEF Due
  <1>7. \A i \in 1..Len(rf) : FileDue(fs, s, rf[i], m)
    BY KeepParts
  <1>8. \A i \in 1..Len(rf) : FileDue(fs, t, rf[i], n)
    BY <1>6, <1>7 DEF FileDue
  <1>. QED
    BY <1>8, KeepParts

\* readXMLModel() returns.
LEMMA KeepReturn ==
  ASSUME NEW fs \in FileSets, NEW s, NEW t, NEW dc, NEW rf, NEW m, NEW p \in Nat, Len(s) # 0,
         DocInv(s, dc, None, "reading"), FrameInv(fs, s), KeepInv(fs, s, None, "reading", rf, m), s[Len(s)].doc # 0,
         p = s[Len(s)].pos, p > Len(ElementsOf(fs, s[Len(s)].path)), Returned(s, t)
  PROVE  KeepInv(fs, t, None, IF Len(s) = 1 THEN "loaded" ELSE "reading", rf, m)
  <1>1. PICK n, f : n = Len(s) /\ f = s[n].path
    OBVIOUS
  <1>2. /\ n \in Nat \ {0} /\ n \in 1..n /\ Len(t) = n - 1
        /\ \A i \in 1..n : i # n => i \in 1..(n - 1) /\ i < n
    <2>1. n \in Nat \ {0} /\ Len(t) = n - 1
      BY <1>1, SeqFacts DEF DocInv, Returned
    <2>. QED
      BY <2>1
  <1>3. \A i \in 1..(n - 1) : /\ t[i].path = s[i].path /\ t[i].doc = s[i].doc
                              /\ t[i].pos = IF i = n - 1 THEN s[i].pos + 1 ELSE s[i].pos
    <2>1. \A g, q, d : Frame(g, q, d).path = g /\ Frame(g, q, d).pos = q /\ Frame(g, q, d).doc = d
      BY DEF Frame
    <2>2. \A i \in 1..(n - 1) : t[i] = IF i = n - 1 THEN Frame(s[i].path, s[i].pos + 1, s[i].doc) ELSE s[i]
      BY <1>1 DEF Returned
    <2>. QED
      BY <2>1, <2>2
  <1>4. Len(ElementsOf(fs, f)) \in Nat
    <2>1. FileOf(fs, f) \notin {Missing, Malformed}
      BY <1>1, <1>2 DEF FrameInv
    <2>. QED
      BY <2>1, ElementsListed
  <1>5. ASSUME NEW g, NEW k \in 1..Len(ElementsOf(fs, g)), Due(fs, s, g, k, m)
        PROVE  Due(fs, t, g, k, m)
    <2>1. CASE Covered(m, ElementsOf(fs, g)[k])
      BY <2>1 DEF Due
    <2>2. CASE \E j \in 1..n : s[j].doc # 0 /\ s[j].path = g /\ s[j].pos <= k
      <3>1. PICK j \in 1..n : s[j].doc # 0 /\ s[j].path = g /\ s[j].pos <= k
        BY <2>2
      <3>2. j # n
        <4> SUFFICES ASSUME j = n
                     PROVE  FALSE
          OBVIOUS
        <4>1. g = f /\ p <= k
          BY <1>1, <3>1
        <4>2. k <= Len(ElementsOf(fs, f))
          BY <1>4, <4>1
        <4>. QED
          BY <1>1, <1>4, <4>1, <4>2
      <3>3. j \in 1..(n - 1) /\ j < n /\ s[j].pos \in Nat
        BY <1>1, <1>2, <3>2 DEF DocInv, IsFrame
      <3>4. CASE t[j].pos <= k
        BY <1>2, <1>3, <3>1, <3>3, <3>4 DEF Due
      <3>5. CASE ~(t[j].pos <= k)
        <4>1. s[j].pos = k
          <5>1. t[j].pos = s[j].pos \/ t[j].pos = s[j].pos + 1
            BY <1>3, <3>3
          <5>2. s[j].pos \in Nat /\ s[j].pos <= k
            BY <3>1, <3>3
          <5>. QED
            BY <3>5, <5>1, <5>2
        <4>2. Includes(ElementsOf(fs, g)[k])
          BY <1>1, <3>1, <3>3, <4>1 DEF FrameInv
        <4>. QED
          BY <4>2 DEF Due, Covered, Includes
      <3>. QED
        BY <3>4, <3>5
    <2>. QED
      BY <1>1, <1>5, <2>1, <2>2 DEF Due
  <1>6. \A i \in 1..Len(rf) : FileDue(fs, s, rf[i], m)
    BY KeepParts
  <1>7. \A i \in 1..Len(rf) : FileDue(fs, t, rf[i], m)
    BY <1>5, <1>6 DEF FileDue
  <1>. QED
    BY <1>7, KeepParts

-----------------------------------------------------------------------------
(***************************************************************************)
(* The steps of the reader.                                                *)
(***************************************************************************)

\* While files are read they are among those assumed.
LEMMA ReadingFiles ==
  ASSUME ReaderInv, Len(stack) # 0
  PROVE  files \in FileSets
  BY DEF ReaderInv

\* OpenFile keeps the invariant.
LEMMA OpenFileKeeps ==
  ASSUME ReaderInv, OpenFile, UNCHANGED object
  PROVE  ReaderInv'
  <1>1. /\ reading = "reading" /\ thrown = None /\ Len(stack) # 0 /\ Top.doc = 0
        /\ UNCHANGED <<files, reading, xmodel>>
        /\ \/ /\ thrown' # None /\ Popped(stack, stack')
              /\ docs' = docs \/ Pushed(docs, docs', 1)
              /\ readFiles' = readFiles \/ readFiles' = Append(readFiles, Top.path)
           \/ /\ thrown' = None
              /\ FileOf(files, Top.path) \notin {Missing, Malformed}
              /\ Replaced(stack, stack', Len(stack), Frame(Top.path, Top.pos, Len(docs) + 1))
              /\ Pushed(docs, docs', 0) /\ readFiles' = Append(readFiles, Top.path)
    BY OpenFileStep
  <1>2. PICK s, t, n, f, p, inc, m : s = stack /\ t = stack' /\ n = Len(stack) /\ f = Top.path /\ p = Top.pos
                                       /\ inc = xmodel.included /\ m = xmodel
    OBVIOUS
  <1>3. files \in FileSets
    BY <1>1, ReadingFiles
  <1>4. /\ IsSeq(s) /\ Top = s[Len(s)] /\ Len(s) # 0 /\ p \in Nat \ {0}
    BY <1>1, <1>2, TopFrame
  <1>5. /\ DocInv(s, docs, None, "reading") /\ FrameInv(files, s) /\ IncludeInv(files, s, None, inc)
        /\ OnceInv(s, None, "reading", readFiles, inc) /\ KeepInv(files, s, None, "reading", readFiles, m) /\ Shape(m)
    BY <1>1, <1>2 DEF ReaderInv
  <1>6. IsSeq(readFiles) /\ IsSeq(inc)
    BY <1>5 DEF OnceInv, IncludeInv
  <1>7. s[Len(s)].doc = 0 /\ s[Len(s)].path = f /\ s[Len(s)].pos = p
    BY <1>1, <1>2, <1>4
  <1>8. CASE /\ thrown' # None /\ Popped(s, t)
             /\ docs' = docs \/ Pushed(docs, docs', 1)
             /\ readFiles' = readFiles \/ readFiles' = Append(readFiles, Top.path)
    <2>1. DocInv(t, docs', thrown', "reading")
      BY <1>4, <1>5, <1>8, DocLeave DEF Left
    <2>2. FrameInv(files, t)
      BY <1>4, <1>5, <1>8, FrameLeave
    <2>3. IncludeInv(files, t, thrown', inc)
      BY <1>4, <1>5, <1>8, IncludeLeave
    <2>4. IsSeq(readFiles')
      <3>1. Pushed(readFiles, Append(readFiles, Top.path), Top.path)
        BY <1>6, AppendPushes
      <3>. QED
        BY <1>6, <1>8, <3>1 DEF Pushed
    <2>5. OnceInv(t, thrown', "reading", readFiles', inc)
      BY <1>8, <2>4 DEF OnceInv
    <2>6. KeepInv(files, t, thrown', "reading", readFiles', m)
      BY <1>8 DEF KeepInv
    <2>. QED
      BY <1>1, <1>2, <1>3, <1>5, <2>1, <2>2, <2>3, <2>5, <2>6 DEF ReaderInv
  <1>9. CASE /\ thrown' = None
             /\ FileOf(files, f) \notin {Missing, Malformed}
             /\ Replaced(s, t, Len(s), Frame(f, p, Len(docs) + 1))
             /\ Pushed(docs, docs', 0) /\ readFiles' = Append(readFiles, f)
    <2>1. PICK d : d = Len(docs) + 1
      OBVIOUS
    <2>2. d \in Nat \ {0}
      <3>1. Len(docs) \in Nat
        BY <1>5 DEF DocInv
      <3>. QED
        BY <2>1, <3>1
    <2>3. p = 1
      <3>1. Len(s) \in 1..Len(s)
        BY <1>4, SeqFacts
      <3>. QED
        BY <1>5, <1>7, <3>1 DEF FrameInv
    <2>4. DocInv(t, docs', None, "reading")
      BY <1>4, <1>5, <1>7, <1>9, DocOpen
    <2>5. FrameInv(files, t)
      BY <1>3, <1>4, <1>5, <1>7, <1>9, <2>1, <2>2, FrameOpen
    <2>6. IncludeInv(files, t, None, inc)
      BY <1>4, <1>5, <1>7, <1>9, <2>3, IncludeTop
    <2>7. OnceInv(t, None, "reading", readFiles', inc)
      BY <1>4, <1>5, <1>6, <1>7, <1>9, <2>1, <2>2, OnceOpen
    <2>8. KeepInv(files, t, None, "reading", readFiles', m)
      BY <1>3, <1>4, <1>5, <1>6, <1>7, <1>9, <2>1, <2>2, KeepOpen
    <2>. QED
      BY <1>1, <1>2, <1>3, <1>5, <1>9, <2>4, <2>5, <2>6, <2>7, <2>8 DEF ReaderInv
  <1>. QED
    BY <1>1, <1>2, <1>8, <1>9

\* The element that is read has its parts in order.
LEMMA ElementOrdered ==
  ASSUME ReaderInv, AtElement
  PROVE  Ordered(Element)
  <1>1. /\ reading = "reading" /\ Len(stack) # 0 /\ Top.doc # 0
        /\ Top.pos <= Len(ElementsOf(files, Top.path)) /\ Element = ElementsOf(files, Top.path)[Top.pos]
    BY AtElementFacts
  <1>2. PICK s, f, p, e : s = stack /\ f = Top.path /\ p = Top.pos /\ e = Element
    OBVIOUS
  <1>3. files \in FileSets
    BY <1>1, ReadingFiles
  <1>4. Top = s[Len(s)] /\ p \in Nat \ {0} /\ Len(s) \in 1..Len(s)
    BY <1>1, <1>2, TopFrame
  <1>5. FrameInv(files, s)
    BY <1>2 DEF ReaderInv
  <1>6. s[Len(s)].doc # 0 /\ s[Len(s)].path = f
    BY <1>1, <1>2, <1>4
  <1>7. FileOf(files, f) \notin {Missing, Malformed}
    BY <1>4, <1>5, <1>6 DEF FrameInv
  <1>8. PICK es : es = ElementsOf(files, f)
    OBVIOUS
  <1>9. IsSeq(es) /\ \A x \in Range(es) : Ordered(x)
    BY <1>3, <1>7, <1>8, ElementsListed
  <1>10. Len(es) \in Nat
    BY <1>9, SeqFacts
  <1>11. p \in 1..Len(es)
    BY <1>1, <1>2, <1>4, <1>8, <1>10
  <1>12. e = es[p]
    BY <1>1, <1>2, <1>8
  <1>13. e \in Range(es)
    BY <1>9, <1>11, <1>12, SeqFacts
  <1>. QED
    BY <1>2, <1>9, <1>13

\* An element is read, or an included model that is switched off is passed over.
LEMMA AdvanceKeeps ==
  ASSUME ReaderInv, AtElement, ~Includes(Element), stack' = Advance,
         (xmodel' = xmodel /\ Element.tag # "xagent") \/ xmodel' = ReadElement(xmodel, Element),
         UNCHANGED <<files, docs, thrown, reading, readFiles, object>>
  PROVE  ReaderInv'
  <1>1. /\ reading = "reading" /\ thrown = None /\ Len(stack) # 0 /\ Top.doc # 0
        /\ Top.pos <= Len(ElementsOf(files, Top.path)) /\ Element = ElementsOf(files, Top.path)[Top.pos]
    BY AtElementFacts
  <1>2. PICK s, t, f, p, inc, m, e : s = stack /\ t = stack' /\ f = Top.path /\ p = Top.pos
                                       /\ inc = xmodel.included /\ m = xmodel /\ e = Element
    OBVIOUS
  <1>3. files \in FileSets
    BY <1>1, ReadingFiles
  <1>4. /\ IsSeq(s) /\ Top = s[Len(s)] /\ Len(s) # 0 /\ p \in Nat \ {0} /\ Len(s) \in 1..Len(s)
    BY <1>1, <1>2, TopFrame
  <1>5. /\ DocInv(s, docs, None, "reading") /\ FrameInv(files, s) /\ IncludeInv(files, s, None, inc)
        /\ OnceInv(s, None, "reading", readFiles, inc) /\ KeepInv(files, s, None, "reading", readFiles, m) /\ Shape(m)
    BY <1>1, <1>2 DEF ReaderInv
  <1>6. s[Len(s)].doc # 0 /\ s[Len(s)].path = f /\ s[Len(s)].pos = p
    BY <1>1, <1>2, <1>4
  <1>7. Replaced(s, t, Len(s), Frame(f, p + 1, s[Len(s)].doc))
    BY <1>1, <1>2, <1>4, AdvanceStep
  <1>8. p <= Len(ElementsOf(files, f)) /\ e = ElementsOf(files, f)[p] /\ ~Includes(ElementsOf(files, f)[p])
    BY <1>1, <1>2
  <1>9. FileOf(files, f) \notin {Missing, Malformed}
    BY <1>4, <1>5, <1>6 DEF FrameInv
  <1>10. Ordered(e)
    BY <1>2, ElementOrdered
  <1>11. Shape(xmodel') /\ KeepsAgents(m, xmodel') /\ xmodel'.included = inc /\ Covered(xmodel', e)
    <2>1. CASE xmodel' = ReadElement(xmodel, Element)
      BY <1>2, <1>5, <1>10, <2>1, ElementRead
    <2>2. CASE xmodel' = xmodel /\ Element.tag # "xagent"
      BY <1>2, <1>5, <2>2, SameAgents DEF Covered
    <2>. QED
      BY <2>1, <2>2
  <1>12. DocInv(t, docs, None, "reading")
    <2>1. p + 1 \in Nat \ {0}
      BY <1>4
    <2>. QED
      BY <1>4, <1>5, <1>7, <2>1, DocAdvance
  <1>13. FrameInv(files, t)
    BY <1>3, <1>4, <1>5, <1>6, <1>7, <1>8, FrameAdvance
  <1>14. IncludeInv(files, t, None, inc)
    <2>1. PICK q, d : q = p + 1 /\ d = s[Len(s)].doc
      OBVIOUS
    <2>2. q \in Nat /\ p \in Nat
      BY <1>4, <2>1
    <2>3. Replaced(s, t, Len(s), Frame(f, q, d))
      BY <1>7, <2>1
    <2>. QED
      BY <1>4, <1>5, <1>6, <1>8, <2>1, <2>2, <2>3, IncludeTop
  <1>15. OnceInv(t, None, "reading", readFiles, inc)
    <2>1. PICK q : q = p + 1
      OBVIOUS
    <2>2. Replaced(s, t, Len(s), Frame(f, q, s[Len(s)].doc))
      BY <1>7, <2>1
    <2>. QED
      BY <1>5, <1>6, <2>2, OnceAdvance
  <1>16. KeepInv(files, t, None, "reading", readFiles, xmodel')
    <2>1. Covered(xmodel', ElementsOf(files, f)[p]) /\ p \in Nat
      BY <1>4, <1>8, <1>11
    <2>. QED
      BY <1>3, <1>4, <1>5, <1>6, <1>7, <1>11, <2>1, KeepAdvance
  <1>. QED
    BY <1>1, <1>2, <1>3, <1>11, <1>12, <1>13, <1>14, <1>15, <1>16 DEF ReaderInv



\* A frame is left by an exception: all parts but the documents.
LEMMA LeaveKeeps ==
  ASSUME ReaderInv, reading = "reading", Len(stack) # 0, thrown' # None, Popped(stack, stack'),
         Left(docs, docs', Top.doc), UNCHANGED <<files, reading, readFiles, xmodel, object>>
  PROVE  ReaderInv'
  <1>1. PICK s, t, inc : s = stack /\ t = stack' /\ inc = xmodel.included
    OBVIOUS
  <1>2. IsSeq(s) /\ Top = s[Len(s)] /\ Len(s) # 0
    BY <1>1, TopFrame
  <1>3. DocInv(s, docs, thrown, "reading") /\ FrameInv(files, s) /\ IncludeInv(files, s, thrown, inc) /\ IsSeq(readFiles)
    BY <1>1 DEF ReaderInv, OnceInv
  <1>4. Popped(s, t) /\ Left(docs, docs', s[Len(s)].doc)
    BY <1>1, <1>2
  <1>5. DocInv(t, docs', thrown', "reading")
    BY <1>2, <1>3, <1>4, DocLeave
  <1>6. FrameInv(files, t)
    BY <1>2, <1>3, <1>4, FrameLeave
  <1>7. IncludeInv(files, t, thrown', inc)
    BY <1>2, <1>3, <1>4, IncludeLeave
  <1>8. OnceInv(t, thrown', "reading", readFiles, inc)
    BY <1>3 DEF OnceInv
  <1>9. KeepInv(files, t, thrown', "reading", readFiles, xmodel)
    BY DEF KeepInv
  <1>10. files \in FileSets
    BY ReadingFiles
  <1>. QED
    BY <1>1, <1>5, <1>6, <1>7, <1>8, <1>9, <1>10 DEF ReaderInv

\* ReadContent keeps the invariant.
LEMMA ReadContentKeeps ==
  ASSUME ReaderInv, ReadContent, UNCHANGED object
  PROVE  ReaderInv'
  <1>1. /\ AtElement /\ Element.tag # "model" /\ UNCHANGED <<files, docs, reading, readFiles>>
        /\ \/ thrown' = "invalid_argument" /\ stack' = Front(stack) /\ UNCHANGED xmodel
           \/ xmodel' = ReadElement(xmodel, Element) /\ stack' = Advance /\ UNCHANGED thrown
    BY DEF ReadContent
  <1>2. ~Includes(Element)
    BY <1>1 DEF Includes
  <1>3. reading = "reading" /\ Len(stack) # 0
    BY <1>1, AtElementFacts
  <1>4. CASE thrown' = "invalid_argument" /\ stack' = Front(stack) /\ UNCHANGED xmodel
    <2>1. Popped(stack, stack')
      <3>1. IsSeq(stack)
        BY <1>3, TopFrame
      <3>. QED
        BY <1>3, <1>4, <3>1, FrontPops
    <2>2. thrown' # None
      BY <1>4 DEF None
    <2>. QED
      BY <1>1, <1>3, <1>4, <2>1, <2>2, LeaveKeeps DEF Left
  <1>5. CASE xmodel' = ReadElement(xmodel, Element) /\ stack' = Advance /\ UNCHANGED thrown
    BY <1>1, <1>2, <1>5, AdvanceKeeps
  <1>. QED
    BY <1>1, <1>4, <1>5

\* ReadIncludedModel keeps the invariant.
LEMMA ReadIncludedModelKeeps ==
  ASSUME ReaderInv, ReadIncludedModel, UNCHANGED object
  PROVE  ReaderInv'
  <1>1. /\ AtElement /\ Element.tag = "model" /\ UNCHANGED <<files, reading, readFiles>>
        /\ \/ /\ ~Includes(Element) /\ stack' = Advance /\ UNCHANGED <<docs, thrown, xmodel>>
           \/ /\ Freed(docs, docs', Top.doc) /\ thrown' # None
              /\ Popped(stack, stack') /\ xmodel' = xmodel
           \/ /\ Includes(Element) /\ PathOf(Top.path, Element.file) \notin Range(xmodel.included)
              /\ xmodel' = [xmodel EXCEPT !.included = Append(@, PathOf(Top.path, Element.file))]
              /\ Pushed(stack, stack', Frame(PathOf(Top.path, Element.file), 1, 0)) /\ UNCHANGED <<docs, thrown>>
    BY ReadIncludedModelStep
  <1>2. /\ reading = "reading" /\ thrown = None /\ Len(stack) # 0 /\ Top.doc # 0
        /\ Top.pos <= Len(ElementsOf(files, Top.path)) /\ Element = ElementsOf(files, Top.path)[Top.pos]
    BY <1>1, AtElementFacts
  <1>3. CASE ~Includes(Element) /\ stack' = Advance /\ UNCHANGED <<docs, thrown, xmodel>>
    BY <1>1, <1>3, AdvanceKeeps
  <1>4. CASE Freed(docs, docs', Top.doc) /\ thrown' # None /\ Popped(stack, stack') /\ xmodel' = xmodel
    BY <1>1, <1>2, <1>4, LeaveKeeps DEF Left
  <1>5. CASE /\ Includes(Element) /\ PathOf(Top.path, Element.file) \notin Range(xmodel.included)
             /\ xmodel' = [xmodel EXCEPT !.included = Append(@, PathOf(Top.path, Element.file))]
             /\ Pushed(stack, stack', Frame(PathOf(Top.path, Element.file), 1, 0)) /\ UNCHANGED <<docs, thrown>>
    <2>1. PICK s, t, f, p, g, inc, inc2, m, n :
             /\ s = stack /\ t = stack' /\ f = Top.path /\ p = Top.pos /\ g = PathOf(Top.path, Element.file)
             /\ inc = xmodel.included /\ inc2 = Append(inc, g) /\ m = xmodel /\ n = xmodel'
      OBVIOUS
    <2>2. files \in FileSets
      BY <1>2, ReadingFiles
    <2>3. /\ IsSeq(s) /\ Top = s[Len(s)] /\ Len(s) # 0 /\ p \in Nat
      BY <1>2, <2>1, TopFrame
    <2>4. /\ DocInv(s, docs, None, "reading") /\ FrameInv(files, s) /\ IncludeInv(files, s, None, inc)
          /\ OnceInv(s, None, "reading", readFiles, inc) /\ KeepInv(files, s, None, "reading", readFiles, m) /\ Shape(m)
      BY <1>2, <2>1 DEF ReaderInv
    <2>5. s[Len(s)].doc # 0 /\ s[Len(s)].path = f /\ s[Len(s)].pos = p
      BY <1>2, <2>1, <2>3
    <2>6. p <= Len(ElementsOf(files, f)) /\ Includes(ElementsOf(files, f)[p]) /\ g = PathOf(f, ElementsOf(files, f)[p].file)
      BY <1>2, <1>5, <2>1
    <2>7. IsSeq(inc) /\ Pushed(inc, inc2, g) /\ g \notin Elements(inc)
      <3>1. IsSeq(inc)
        BY <2>4 DEF IncludeInv
      <3>2. Elements(inc) = Range(inc)
        BY <3>1, SeqFacts
      <3>. QED
        BY <1>5, <2>1, <3>1, <3>2, AppendPushes
    <2>8. Pushed(s, t, Frame(g, 1, 0))
      BY <1>5, <2>1
    <2>9. Shape(n) /\ n.agents = m.agents /\ n.included = inc2
      <3>1. n = [m EXCEPT !.included = inc2]
        BY <1>5, <2>1
      <3>2. m = [name |-> m.name, constants |-> m.constants, adts |-> m.adts, timeUnits |-> m.timeUnits,
                 functionFiles |-> m.functionFiles, agents |-> m.agents, messages |-> m.messages,
                 allowed |-> m.allowed, included |-> m.included]
        BY <2>4 DEF Shape, IsModel
      <3>3. IsModel(n) /\ n.agents = m.agents /\ n.included = inc2 /\ n.constants = m.constants /\ n.adts = m.adts
              /\ n.messages = m.messages
        BY <3>1, <3>2 DEF IsModel
      <3>. QED
        BY <2>4, <3>3 DEF Shape
    <2>10. DocInv(t, docs, None, "reading")
      BY <2>3, <2>4, <2>5, <2>8, DocCall
    <2>11. FrameInv(files, t)
      BY <2>3, <2>4, <2>5, <2>6, <2>8, FrameCall
    <2>12. IncludeInv(files, t, None, inc2)
      BY <2>2, <2>3, <2>4, <2>5, <2>6, <2>7, <2>8, IncludeCall
    <2>13. OnceInv(t, None, "reading", readFiles, inc2)
      BY <2>3, <2>4, <2>5, <2>7, <2>8, OnceCall
    <2>14. KeepInv(files, t, None, "reading", readFiles, n)
      <3>1. PICK x : x = Frame(g, 1, 0)
        OBVIOUS
      <3>. QED
        BY <2>3, <2>4, <2>8, <2>9, <3>1, KeepCall
    <2>. QED
      BY <1>1, <1>2, <1>5, <2>1, <2>2, <2>9, <2>10, <2>11, <2>12, <2>13, <2>14 DEF ReaderInv
  <1>. QED
    BY <1>1, <1>3, <1>4, <1>5

\* CloseFile keeps the invariant.
LEMMA CloseFileKeeps ==
  ASSUME ReaderInv, CloseFile, UNCHANGED object
  PROVE  ReaderInv'
  <1>1. /\ reading = "reading" /\ thrown = None /\ Len(stack) # 0 /\ Top.doc # 0
        /\ Top.pos > Len(ElementsOf(files, Top.path))
        /\ Freed(docs, docs', Top.doc) /\ Returned(stack, stack')
        /\ reading' = IF Len(stack) = 1 THEN "loaded" ELSE "reading"
        /\ UNCHANGED <<files, thrown, readFiles, xmodel>>
    BY CloseFileStep
  <1>2. PICK s, t, f, p, inc, m, r : s = stack /\ t = stack' /\ f = Top.path /\ p = Top.pos
                                    /\ inc = xmodel.included /\ m = xmodel /\ r = reading'
    OBVIOUS
  <1>3. files \in FileSets
    BY <1>1, ReadingFiles
  <1>4. IsSeq(s) /\ Top = s[Len(s)] /\ Len(s) # 0 /\ p \in Nat
    BY <1>1, <1>2, TopFrame
  <1>5. /\ DocInv(s, docs, None, "reading") /\ FrameInv(files, s) /\ IncludeInv(files, s, None, inc)
        /\ OnceInv(s, None, "reading", readFiles, inc) /\ KeepInv(files, s, None, "reading", readFiles, m) /\ Shape(m)
    BY <1>1, <1>2 DEF ReaderInv
  <1>6. s[Len(s)].doc # 0 /\ s[Len(s)].path = f /\ s[Len(s)].pos = p
    BY <1>1, <1>2, <1>4
  <1>7. /\ p > Len(ElementsOf(files, s[Len(s)].path)) /\ Returned(s, t) /\ Freed(docs, docs', s[Len(s)].doc)
        /\ r = IF Len(s) = 1 THEN "loaded" ELSE "reading"
    BY <1>1, <1>2, <1>4, <1>6
  <1>8. DocInv(t, docs', None, r)
    BY <1>4, <1>5, <1>6, <1>7, DocReturn
  <1>9. FrameInv(files, t)
    BY <1>3, <1>4, <1>5, <1>7, FrameReturn
  <1>10. IncludeInv(files, t, None, inc) /\ Root \notin Elements(inc)
    BY <1>3, <1>4, <1>5, <1>6, <1>7, IncludeReturn
  <1>11. OnceInv(t, None, r, readFiles, inc)
    <2>1. IsSeq(inc) /\ Injective(inc)
      BY <1>5 DEF IncludeInv
    <2>. QED
      BY <1>4, <1>5, <1>6, <1>7, <1>10, <2>1, OnceReturn
  <1>12. KeepInv(files, t, None, r, readFiles, m)
    BY <1>3, <1>4, <1>5, <1>6, <1>7, KeepReturn
  <1>. QED
    BY <1>1, <1>2, <1>3, <1>5, <1>8, <1>9, <1>10, <1>11, <1>12 DEF ReaderInv

\* Unwind and Failed keep the invariant.
LEMMA UnwindKeeps ==
  ASSUME ReaderInv, Unwind, UNCHANGED object
  PROVE  ReaderInv'
  <1>1. /\ reading = "reading" /\ thrown # None /\ Len(stack) # 0
        /\ Popped(stack, stack')
        /\ docs' = docs \/ (Top.doc # 0 /\ Freed(docs, docs', Top.doc))
        /\ UNCHANGED <<files, thrown, reading, readFiles, xmodel>>
    BY UnwindStep
  <1>2. thrown' # None /\ Left(docs, docs', Top.doc)
    BY <1>1 DEF Left
  <1>. QED
    BY <1>1, <1>2, LeaveKeeps

\* The exception has left readXMLModel().
LEMMA FailedKeeps ==
  ASSUME ReaderInv, Failed, UNCHANGED object
  PROVE  ReaderInv'
  <1>1. /\ reading = "reading" /\ thrown # None /\ stack = <<>> /\ reading' = "failed"
        /\ UNCHANGED <<files, stack, docs, thrown, readFiles, xmodel>>
    BY DEF Failed
  <1>2. Len(stack) = 0
    BY <1>1, ShortSeqs
  <1>3. DocInv(stack, docs, thrown, "failed")
    BY <1>1, <1>2 DEF ReaderInv, DocInv
  <1>4. OnceInv(stack, thrown, "failed", readFiles, xmodel.included)
    BY DEF ReaderInv, OnceInv
  <1>5. KeepInv(files, stack, thrown, "failed", readFiles, xmodel)
    BY DEF KeepInv
  <1>. QED
    BY <1>1, <1>3, <1>4, <1>5 DEF ReaderInv

\* The reader keeps the invariant.
LEMMA ReaderKeeps ==
  ASSUME ReaderInv, Read
  PROVE  ReaderInv'
  <1>1. ReaderNext /\ UNCHANGED object
    BY DEF Read, modelVars
  <1>. QED
    BY <1>1, OpenFileKeeps, ReadContentKeeps, ReadIncludedModelKeeps, CloseFileKeeps, UnwindKeeps, FailedKeeps
       DEF ReaderNext

-----------------------------------------------------------------------------
(***************************************************************************)
(* Validation rewrites a model without taking anything away.               *)
(***************************************************************************)

\* Variables that have been processed.
SameVariables(vs, ws) ==
  /\ IsVariables(ws) /\ Len(ws) = Len(vs)
  /\ \A i \in 1..Len(vs) : ws[i].name = vs[i].name /\ ws[i].type = vs[i].type

\* A function that has been processed.
SameFunction(f, g) ==
  /\ IsFunction(g) /\ g.name = f.name /\ g.current = f.current /\ g.next = f.next
  /\ g.condition = <<>> <=> f.condition = <<>>
  /\ Ios(g.inputs) = Ios(f.inputs) /\ Ios(g.outputs) = Ios(f.outputs)
SameFunctions(fs, gs) ==
  IsFunctions(gs) /\ Len(gs) = Len(fs) /\ \A i \in 1..Len(fs) : SameFunction(fs[i], gs[i])

\* An agent that has been processed: its functions are added to the graph, if they make one.
SameAgent(a, b) ==
  /\ IsAgent(b) /\ b.name = a.name
  /\ SameVariables(a.variables, b.variables) /\ SameFunctions(a.functions, b.functions)
  /\ b.graph = StateGraph(a.graph, b.functions)

\* The parts that validation of data types does not touch.
SameRest(m, n) ==
  /\ n.agents = m.agents /\ n.messages = m.messages /\ n.constants = m.constants
  /\ n.included = m.included /\ n.name = m.name /\ n.timeUnits = m.timeUnits
  /\ n.functionFiles = m.functionFiles

SameTypes(ts, us) ==
  /\ IsTypes(us) /\ Len(us) = Len(ts)
  /\ \A i \in 1..Len(ts) : us[i].name = ts[i].name /\ SameVariables(ts[i].variables, us[i].variables)

\* processVariable() keeps the name and the type.
LEMMA VariablesProcessed ==
  ASSUME NEW m, NEW vs, IsVariables(vs)
  PROVE  SameVariables(vs, ProcessVariables(m, vs))
  <1>1. PICK ws : ws = ProcessVariables(m, vs)
    OBVIOUS
  <1>2. IsSeq(vs) /\ DOMAIN vs = 1..Len(vs)
    BY SeqFacts DEF IsVariables
  <1>3. ws = [i \in DOMAIN vs |-> ProcessVariable(m, vs[i])]
    BY <1>1 DEF ProcessVariables
  <1>4. ws = [i \in DOMAIN vs |-> ws[i]] /\ \A i \in 1..Len(vs) : ws[i] = ProcessVariable(m, vs[i])
    BY <1>2, <1>3
  <1>5. IsSeq(ws) /\ Len(ws) = Len(vs)
    BY <1>2, <1>4, MappedSeq
  <1>6. ASSUME NEW i \in 1..Len(vs)
        PROVE  IsVariable(ws[i]) /\ ws[i].name = vs[i].name /\ ws[i].type = vs[i].type
    <2>1. PICK v, u, w, x : v = vs[i] /\ u = ProcessDynamicArray(v) /\ w = ws[i] /\ x = w.holdsDynamicArray
      OBVIOUS
    <2>2. v = [type |-> v.type, suffix |-> v.suffix, name |-> v.name, bracket |-> v.bracket, constant |-> v.constant,
               isDynamicArray |-> v.isDynamicArray, holdsDynamicArray |-> v.holdsDynamicArray]
      BY <2>1 DEF IsVariables, IsVariable
    <2>3. PICK y, z : u = [v EXCEPT !.suffix = FALSE, !.isDynamicArray = y, !.holdsDynamicArray = z]
      BY <2>1 DEF ProcessDynamicArray
    <2>4. u = [type |-> v.type, suffix |-> FALSE, name |-> v.name, bracket |-> v.bracket, constant |-> v.constant,
               isDynamicArray |-> y, holdsDynamicArray |-> z]
      BY <2>2, <2>3
    <2>5. PICK h : w = [u EXCEPT !.bracket = None, !.holdsDynamicArray = h]
      BY <1>4, <2>1 DEF ProcessVariable
    <2>6. w = [type |-> v.type, suffix |-> FALSE, name |-> v.name, bracket |-> None, constant |-> v.constant,
               isDynamicArray |-> y, holdsDynamicArray |-> h]
      BY <2>4, <2>5
    <2>7. IsVariable(w) /\ w.name = v.name /\ w.type = v.type
      BY <2>6 DEF IsVariable
    <2>. QED
      BY <2>1, <2>7
  <1>. QED
    BY <1>1, <1>5, <1>6 DEF SameVariables, IsVariables

\* Conditions stay or stay away.
LEMMA OptionalProcessed ==
  ASSUME NEW cs, IsSeq(cs)
  PROVE  IsSeq(ProcessOptional(cs)) /\ (ProcessOptional(cs) = <<>> <=> cs = <<>>)
  <1>1. PICK ds : ds = ProcessOptional(cs)
    OBVIOUS
  <1>2. ds = [i \in DOMAIN cs |-> ds[i]]
    BY <1>1 DEF ProcessOptional
  <1>3. IsSeq(ds) /\ Len(ds) = Len(cs)
    BY <1>2, MappedSeq
  <1>4. \A s : IsSeq(s) => (s = <<>> <=> Len(s) = 0)
    BY EmptySeq DEF IsSeq
  <1>. QED
    BY <1>1, <1>3, <1>4

\* validateAgentFunctionIOput() keeps the messages.
LEMMA IOputsProcessed ==
  ASSUME NEW ios, IsIOputs(ios)
  PROVE  IsIOputs(ProcessIOputs(ios)) /\ Ios(ProcessIOputs(ios)) = Ios(ios)
  <1>1. PICK js : js = ProcessIOputs(ios)
    OBVIOUS
  <1>2. IsSeq(ios) /\ DOMAIN ios = 1..Len(ios)
    BY SeqFacts DEF IsIOputs
  <1>3. js = [i \in DOMAIN ios |-> ProcessIOput(ios[i])]
    BY <1>1 DEF ProcessIOputs
  <1>4. js = [i \in DOMAIN ios |-> js[i]] /\ \A i \in 1..Len(ios) : js[i] = ProcessIOput(ios[i])
    BY <1>2, <1>3
  <1>5. IsSeq(js) /\ Len(js) = Len(ios) /\ DOMAIN js = DOMAIN ios
    BY <1>2, <1>4, MappedSeq
  <1>6. ASSUME NEW i \in 1..Len(ios)
        PROVE  IsIOput(js[i]) /\ js[i].message = ios[i].message
    <2>1. PICK v, u, w : v = ios[i] /\ u = ProcessRandom(v) /\ w = js[i]
      OBVIOUS
    <2>2. v = [message |-> v.message, sort |-> v.sort, random |-> v.random, isRandom |-> v.isRandom, filter |-> v.filter]
      BY <2>1 DEF IsIOputs, IsIOput
    <2>3. PICK y : u = [v EXCEPT !.isRandom = y]
      BY <2>1 DEF ProcessRandom
    <2>4. u = [message |-> v.message, sort |-> v.sort, random |-> v.random, isRandom |-> y, filter |-> v.filter]
      BY <2>2, <2>3
    <2>5. PICK z : w = [u EXCEPT !.filter = z]
      BY <1>4, <2>1 DEF ProcessIOput
    <2>6. w = [message |-> v.message, sort |-> v.sort, random |-> v.random, isRandom |-> y, filter |-> z]
      BY <2>4, <2>5
    <2>7. IsIOput(w) /\ w.message = v.message
      BY <2>6 DEF IsIOput
    <2>. QED
      BY <2>1, <2>7
  <1>7. Ios(js) = Ios(ios)
    BY <1>2, <1>5, <1>6 DEF Ios
  <1>. QED
    BY <1>1, <1>5, <1>6, <1>7 DEF IsIOputs

\* validateAgentFunction() keeps what the graph is made of.
LEMMA FunctionProcessed ==
  ASSUME NEW f, IsFunction(f), NEW a, IsVariables(a.variables)
  PROVE  SameFunction(f, ProcessFunction(f, a))
  <1>1. PICK g, h, ns : g = ProcessAgentFunction(f, a) /\ h = ProcessFunction(f, a)
                          /\ ns = [i \in DOMAIN a.variables |-> a.variables[i].name]
    OBVIOUS
  <1>2. /\ f = [name |-> f.name, current |-> f.current, next |-> f.next, condition |-> f.condition,
                infoAvailable |-> f.infoAvailable, readOnly |-> f.readOnly, readWrite |-> f.readWrite,
                inputs |-> f.inputs, outputs |-> f.outputs, reads |-> f.reads]
        /\ IsSeq(f.condition) /\ IsSeq(f.readOnly) /\ IsSeq(f.readWrite)
        /\ IsIOputs(f.inputs) /\ IsIOputs(f.outputs)
    BY DEF IsFunction
  <1>3. IsSeq(ns)
    <2>1. ns = [i \in DOMAIN a.variables |-> ns[i]] /\ IsSeq(a.variables)
      BY <1>1 DEF IsVariables
    <2>. QED
      BY <2>1, MappedSeq
  <1>4. PICK info, rw : /\ info = g.infoAvailable /\ rw = g.readWrite
    OBVIOUS
  <1>5. /\ g = [name |-> f.name, current |-> f.current, next |-> f.next, condition |-> f.condition,
                infoAvailable |-> info, readOnly |-> f.readOnly, readWrite |-> rw,
                inputs |-> f.inputs, outputs |-> f.outputs, reads |-> f.reads]
        /\ rw = f.readWrite \/ rw = f.readWrite \o ns
    <2>1. CASE f.infoAvailable
      <3>1. g = f
        BY <1>1, <2>1 DEF ProcessAgentFunction
      <3>. QED
        BY <1>2, <1>4, <3>1
    <2>2. CASE ~f.infoAvailable
      <3>1. PICK x : x = f.readWrite \o ns
        OBVIOUS
      <3>2. g = [f EXCEPT !.infoAvailable = TRUE, !.readWrite = x]
        BY <1>1, <2>2, <3>1 DEF ProcessAgentFunction
      <3>3. g = [name |-> f.name, current |-> f.current, next |-> f.next, condition |-> f.condition,
                infoAvailable |-> TRUE, readOnly |-> f.readOnly, readWrite |-> x,
                inputs |-> f.inputs, outputs |-> f.outputs, reads |-> f.reads]
        BY <1>2, <3>2
      <3>. QED
        BY <1>4, <3>1, <3>3
    <2>. QED
      BY <2>1, <2>2
  <1>6. IsSeq(rw)
    <2>1. Joined(f.readWrite, ns, f.readWrite \o ns)
      BY <1>2, <1>3, ConcatJoins
    <2>. QED
      BY <1>2, <1>5, <2>1 DEF Joined
  <1>7. PICK c, is, os, r : c = ProcessOptional(f.condition) /\ is = ProcessIOputs(f.inputs) /\ os = ProcessIOputs(f.outputs)
                              /\ r = UNION {ReadsOf(Processed(f.condition[i])) : i \in DOMAIN f.condition}
    OBVIOUS
  <1>8. h = [g EXCEPT !.condition = c, !.reads = r, !.inputs = is, !.outputs = os]
    BY <1>1, <1>5, <1>7 DEF ProcessFunction
  <1>9. h = [name |-> f.name, current |-> f.current, next |-> f.next, condition |-> c,
             infoAvailable |-> info, readOnly |-> f.readOnly, readWrite |-> rw,
             inputs |-> is, outputs |-> os, reads |-> r]
    BY <1>5, <1>8
  <1>10. IsSeq(c) /\ (c = <<>> <=> f.condition = <<>>)
    BY <1>2, <1>7, OptionalProcessed
  <1>11. IsIOputs(is) /\ IsIOputs(os) /\ Ios(is) = Ios(f.inputs) /\ Ios(os) = Ios(f.outputs)
    BY <1>2, <1>7, IOputsProcessed
  <1>12. /\ h.name = f.name /\ h.current = f.current /\ h.next = f.next /\ h.condition = c /\ h.infoAvailable = info
         /\ h.readOnly = f.readOnly /\ h.readWrite = rw /\ h.inputs = is /\ h.outputs = os /\ h.reads = r
    BY <1>9
  <1>13. IsFunction(h)
    BY <1>2, <1>6, <1>9, <1>10, <1>11, <1>12 DEF IsFunction
  <1>14. SameFunction(f, h)
    BY <1>10, <1>11, <1>12, <1>13 DEF SameFunction
  <1>. QED
    BY <1>1, <1>14

\* validateAgent()
LEMMA AgentProcessed ==
  ASSUME NEW m, NEW a, IsAgent(a)
  PROVE  SameAgent(a, ProcessAgent(m, a))
  <1>1. PICK vs, b, fs, c, g : /\ vs = ProcessVariables(m, a.variables)
                            /\ b = [a EXCEPT !.variables = vs]
                            /\ fs = [j \in DOMAIN a.functions |-> ProcessFunction(a.functions[j], b)]
                            /\ g = StateGraph(a.graph, fs)
                            /\ c = ProcessAgent(m, a)
    OBVIOUS
  <1>2. /\ a = [name |-> a.name, variables |-> a.variables, functions |-> a.functions, graph |-> a.graph]
        /\ IsVariables(a.variables) /\ IsFunctions(a.functions) /\ IsFunctions(a.graph)
    BY DEF IsAgent
  <1>3. b = [name |-> a.name, variables |-> vs, functions |-> a.functions, graph |-> a.graph] /\ b.variables = vs
    BY <1>1, <1>2
  <1>4. c = [b EXCEPT !.functions = fs, !.graph = g]
    BY <1>1 DEF ProcessAgent
  <1>5. c = [name |-> a.name, variables |-> vs, functions |-> fs, graph |-> g]
    BY <1>3, <1>4
  <1>6. c.name = a.name /\ c.variables = vs /\ c.functions = fs /\ c.graph = g
    BY <1>5
  <1>7. SameVariables(a.variables, vs)
    BY <1>1, <1>2, VariablesProcessed
  <1>8. SameFunctions(a.functions, fs)
    <2>1. IsSeq(a.functions) /\ DOMAIN a.functions = 1..Len(a.functions)
      BY <1>2, SeqFacts DEF IsFunctions
    <2>2. fs = [j \in DOMAIN a.functions |-> fs[j]] /\ \A j \in DOMAIN a.functions : fs[j] = ProcessFunction(a.functions[j], b)
      BY <1>1
    <2>3. IsSeq(fs) /\ Len(fs) = Len(a.functions)
      BY <2>1, <2>2, MappedSeq
    <2>4. ASSUME NEW j \in 1..Len(a.functions)
          PROVE  SameFunction(a.functions[j], fs[j])
      <3>1. IsFunction(a.functions[j]) /\ IsVariables(b.variables)
        BY <1>2, <1>3, <1>7 DEF IsFunctions, SameVariables
      <3>2. fs[j] = ProcessFunction(a.functions[j], b)
        BY <2>1, <2>2
      <3>. QED
        BY <3>1, <3>2, FunctionProcessed
    <2>. QED
      BY <2>3, <2>4 DEF SameFunctions, IsFunctions, SameFunction
  <1>9. IsFunctions(g)
    <2>1. IsFunctions(fs)
      BY <1>8 DEF SameFunctions
    <2>2. IsSeq(a.graph) /\ IsSeq(fs)
      BY <1>2, <2>1 DEF IsFunctions
    <2>3. Joined(a.graph, fs, a.graph \o fs)
      BY <2>2, ConcatJoins
    <2>4. IsFunctions(a.graph \o fs)
      BY <1>2, <2>1, <2>3, PartsJoined
    <2>. QED
      BY <1>1, <1>2, <2>4 DEF StateGraph
  <1>10. IsAgent(c)
    BY <1>5, <1>6, <1>7, <1>8, <1>9 DEF IsAgent, SameVariables, SameFunctions
  <1>. QED
    BY <1>1, <1>6, <1>7, <1>8, <1>10 DEF SameAgent

\* Variables and types are like themselves; processing twice is like processing.
LEMMA SameTypesOrder ==
  ASSUME NEW ts, IsTypes(ts)
  PROVE  /\ SameTypes(ts, ts)
         /\ \A us, ws : SameTypes(ts, us) /\ SameTypes(us, ws) => SameTypes(ts, ws)
  <1>1. SameTypes(ts, ts)
    BY DEF SameTypes, SameVariables, IsTypes, IsType
  <1>2. ASSUME NEW us, NEW ws, SameTypes(ts, us), SameTypes(us, ws)
        PROVE  SameTypes(ts, ws)
    <2>1. IsTypes(ws) /\ Len(ws) = Len(ts)
      BY <1>2 DEF SameTypes
    <2>2. ASSUME NEW i \in 1..Len(ts)
          PROVE  ws[i].name = ts[i].name /\ SameVariables(ts[i].variables, ws[i].variables)
      <3>1. PICK t, u, w : t = ts[i] /\ u = us[i] /\ w = ws[i]
        OBVIOUS
      <3>2. /\ u.name = t.name /\ SameVariables(t.variables, u.variables)
            /\ w.name = u.name /\ SameVariables(u.variables, w.variables)
        BY <1>2, <3>1 DEF SameTypes
      <3>3. w.name = t.name /\ SameVariables(t.variables, w.variables)
        BY <3>2 DEF SameVariables
      <3>. QED
        BY <3>1, <3>3
    <2>. QED
      BY <2>1, <2>2 DEF SameTypes
  <1>. QED
    BY <1>1, <1>2

\* validateADT() changes its data type and the allowed types.
LEMMA ADTProcessed ==
  ASSUME NEW v, Shape(v.m), NEW i \in 1..Len(v.m.adts)
  PROVE  /\ Shape(ValidateADT(v, i).m) /\ SameRest(v.m, ValidateADT(v, i).m)
         /\ SameTypes(v.m.adts, ValidateADT(v, i).m.adts)
  <1>1. PICK m, adt, n, ps, r :
          /\ m = v.m /\ adt = m.adts[i]
          /\ n = [m EXCEPT !.allowed = @ \union {adt.name}]
          /\ ps = ProcessVariables(n, adt.variables)
          /\ r = ValidateADT(v, i).m
    OBVIOUS
  <1>2. /\ m = [name |-> m.name, constants |-> m.constants, adts |-> m.adts, timeUnits |-> m.timeUnits,
                functionFiles |-> m.functionFiles, agents |-> m.agents, messages |-> m.messages,
                allowed |-> m.allowed, included |-> m.included]
        /\ IsVariables(m.constants) /\ IsTypes(m.adts) /\ IsAgents(m.agents) /\ IsMessages(m.messages)
    BY <1>1 DEF Shape, IsModel
  <1>3. PICK al : al = m.allowed \union {adt.name}
    OBVIOUS
  <1>4. n = [name |-> m.name, constants |-> m.constants, adts |-> m.adts, timeUnits |-> m.timeUnits,
             functionFiles |-> m.functionFiles, agents |-> m.agents, messages |-> m.messages,
             allowed |-> al, included |-> m.included]
    BY <1>1, <1>2, <1>3
  <1>5. CASE r = m
    BY <1>1, <1>2, <1>5, SameTypesOrder DEF SameRest
  <1>6. CASE r # m
    <2>1. PICK holds : r = [n EXCEPT !.adts = [@ EXCEPT ![i] = [adt EXCEPT !.variables = ps, !.holdsDynamicArray = holds]]]
      BY <1>1, <1>6 DEF ValidateADT
    <2>2. PICK x, ts : x = [adt EXCEPT !.variables = ps, !.holdsDynamicArray = holds] /\ ts = [m.adts EXCEPT ![i] = x]
      OBVIOUS
    <2>3. r = [n EXCEPT !.adts = ts]
      BY <1>4, <2>1, <2>2
    <2>4. r = [name |-> m.name, constants |-> m.constants, adts |-> ts, timeUnits |-> m.timeUnits,
               functionFiles |-> m.functionFiles, agents |-> m.agents, messages |-> m.messages,
               allowed |-> al, included |-> m.included]
      BY <1>4, <2>3
    <2>5. IsType(adt)
      BY <1>1, <1>2 DEF IsTypes
    <2>6. SameVariables(adt.variables, ps)
      BY <1>1, <2>5, VariablesProcessed DEF IsType
    <2>7. x = [name |-> adt.name, holdsDynamicArray |-> holds, variables |-> ps]
      BY <2>2, <2>5 DEF IsType
    <2>8. x.name = adt.name /\ x.variables = ps /\ x.holdsDynamicArray = holds
      BY <2>7
    <2>9. IsType(x)
      BY <2>6, <2>7, <2>8 DEF IsType, SameVariables
    <2>10. Replaced(m.adts, ts, i, x)
      BY <1>1, <1>2, <2>2, ExceptReplaces DEF IsTypes
    <2>11. IsTypes(ts) /\ Len(ts) = Len(m.adts)
      BY <1>1, <1>2, <2>9, <2>10, PartsReplaced DEF Replaced
    <2>12. SameTypes(m.adts, ts)
      <3>1. SameTypes(m.adts, m.adts)
        BY <1>2, SameTypesOrder
      <3>2. ASSUME NEW j \in 1..Len(m.adts)
            PROVE  ts[j].name = m.adts[j].name /\ SameVariables(m.adts[j].variables, ts[j].variables)
        <4>1. CASE j = i
          BY <1>1, <2>6, <2>8, <2>10, <4>1 DEF Replaced
        <4>2. CASE j # i
          BY <2>10, <3>1, <4>2 DEF Replaced, SameTypes
        <4>. QED
          BY <4>1, <4>2
      <3>. QED
        BY <2>11, <3>2 DEF SameTypes
    <2>13. IsModel(r) /\ SameRest(m, r) /\ r.adts = ts
      BY <2>4 DEF IsModel, SameRest
    <2>14. Shape(r)
      BY <1>2, <2>11, <2>13 DEF Shape, SameRest
    <2>. QED
      BY <1>1, <2>12, <2>13, <2>14
  <1>. QED
    BY <1>5, <1>6

\* f[i] is what the first i data types leave behind.
Chain(f, m, n) ==
  f[0] = [m |-> m, ok |-> TRUE] /\ \A i \in 1..n : f[i] = ValidateADT(f[i - 1], i)

\* There is such a function.
LEMMA ChainExists ==
  ASSUME NEW n \in Nat, NEW m
  PROVE  \E f : f = [i \in 0..n |-> f[i]] /\ Chain(f, m, n)
  <1> DEFINE P(k) == \E f : f = [i \in 0..k |-> f[i]] /\ Chain(f, m, k)
             T == {k \in Nat : ~P(k)}
  <1>1. ASSUME T # {} PROVE FALSE
    <2>1. PICK k \in T : \A l \in T : k <= l
      <3> HIDE DEF T
      <3>1. T \in SUBSET Nat
        BY DEF T
      <3>. QED
        BY <1>1, <3>1, LeastNumber
    <2>2. k \in Nat /\ ~P(k)
      OBVIOUS
    <2>3. k # 0
      <3>1. ASSUME k = 0 PROVE P(k)
        <4>1. PICK f : f = [i \in 0..k |-> [m |-> m, ok |-> TRUE]]
          OBVIOUS
        <4>2. 1..k = {} /\ 0 \in 0..k
          BY <3>1
        <4>3. f = [i \in 0..k |-> f[i]] /\ Chain(f, m, k)
          BY <4>1, <4>2 DEF Chain
        <4>. QED
          BY <4>3
      <3>. QED
        BY <2>2, <3>1
    <2>4. k - 1 \in Nat /\ ~(k <= k - 1)
      BY <2>2, <2>3
    <2>5. P(k - 1)
      BY <2>1, <2>4
    <2>6. PICK g : g = [i \in 0..(k - 1) |-> g[i]] /\ Chain(g, m, k - 1)
      BY <2>5
    <2>7. PICK f : f = [i \in 0..k |-> IF i = k THEN ValidateADT(g[k - 1], k) ELSE g[i]]
      OBVIOUS
    <2>8. f = [i \in 0..k |-> f[i]]
      BY <2>7
    <2>9. ASSUME NEW i \in 1..k PROVE f[i] = ValidateADT(f[i - 1], i)
      <3>1. i \in 0..k /\ (i = k \/ i \in 1..(k - 1))
        BY <2>2
      <3>2. i - 1 \in 0..k /\ i - 1 # k
        BY <2>2
      <3>3. f[i - 1] = g[i - 1]
        BY <2>7, <3>2
      <3>4. CASE i = k
        BY <2>7, <3>1, <3>3, <3>4
      <3>5. CASE i # k
        <4>1. f[i] = g[i]
          BY <2>7, <3>1, <3>5
        <4>. QED
          BY <2>6, <3>1, <3>3, <3>5, <4>1 DEF Chain
      <3>. QED
        BY <3>4, <3>5
    <2>10. f[0] = [m |-> m, ok |-> TRUE]
      <3>1. 0 \in 0..k /\ 0 # k
        BY <2>2, <2>3
      <3>2. f[0] = g[0]
        BY <2>7, <3>1
      <3>. QED
        BY <2>6, <3>2 DEF Chain
    <2>11. P(k)
      BY <2>8, <2>9, <2>10 DEF Chain
    <2>. QED
      BY <2>2, <2>11
  <1>2. n \notin T
    BY <1>1
  <1>. QED
    BY <1>2

\* ValidateADTs() is its last value.
LEMMA ADTsChain ==
  ASSUME NEW m, NEW n \in Nat, n = Len(m.adts)
  PROVE  \E f : Chain(f, m, n) /\ ValidateADTs(m) = f[n]
  <1> DEFINE after[i \in 0..Len(m.adts)] ==
               IF i = 0 THEN [m |-> m, ok |-> TRUE] ELSE ValidateADT(after[i - 1], i)
  <1>1. ValidateADTs(m) = after[Len(m.adts)]
    BY Zenon DEF ValidateADTs
  <1>2. after = [i \in 0..n |-> IF i = 0 THEN [m |-> m, ok |-> TRUE] ELSE ValidateADT(after[i - 1], i)]
    <2>1. PICK f : f = [i \in 0..n |-> f[i]] /\ Chain(f, m, n)
      BY ChainExists
    <2>2. f = [i \in 0..n |-> IF i = 0 THEN [m |-> m, ok |-> TRUE] ELSE ValidateADT(f[i - 1], i)]
      <3>1. \A i \in 0..n : i = 0 \/ i \in 1..n
        OBVIOUS
      <3>. QED
        BY <2>1, <3>1 DEF Chain
    <2>. QED
      BY <2>2
  <1> HIDE DEF after
  <1>3. Chain(after, m, n)
    <2>1. PICK f : f = after
      OBVIOUS
    <2>2. f = [i \in 0..n |-> IF i = 0 THEN [m |-> m, ok |-> TRUE] ELSE ValidateADT(f[i - 1], i)]
      BY <1>2, <2>1
    <2>3. 0 \in 0..n /\ \A i \in 1..n : i \in 0..n /\ i # 0
      OBVIOUS
    <2>4. f[0] = [m |-> m, ok |-> TRUE]
      BY <2>2, <2>3
    <2>5. \A i \in 1..n : f[i] = ValidateADT(f[i - 1], i)
      BY <2>2, <2>3
    <2>6. Chain(f, m, n)
      BY <2>4, <2>5 DEF Chain
    <2>. QED
      BY <2>1, <2>6
  <1>. QED
    BY <1>1, <1>3

\* All data types are validated.
LEMMA ChainProcessed ==
  ASSUME NEW m, Shape(m), NEW n \in Nat, n = Len(m.adts), NEW f, Chain(f, m, n)
  PROVE  \A i \in 0..n : Shape(f[i].m) /\ SameRest(m, f[i].m) /\ SameTypes(m.adts, f[i].m.adts)
  <1> DEFINE P(i) == Shape(f[i].m) /\ SameRest(m, f[i].m) /\ SameTypes(m.adts, f[i].m.adts)
             T == {i \in 0..n : ~P(i)}
  <1>1. P(0)
    <2>1. f[0].m = m
      BY DEF Chain
    <2>2. IsTypes(m.adts)
      BY DEF Shape
    <2>. QED
      BY <2>1, <2>2, SameTypesOrder DEF SameRest
  <1>2. ASSUME NEW i \in 1..n, P(i - 1)
        PROVE  P(i)
    <2>1. PICK v, w : v = f[i - 1] /\ w = f[i]
      OBVIOUS
    <2>2. w = ValidateADT(v, i)
      BY <2>1 DEF Chain
    <2>3. Shape(v.m) /\ SameRest(m, v.m) /\ SameTypes(m.adts, v.m.adts)
      BY <1>2, <2>1
    <2>4. Len(v.m.adts) = n
      BY <2>3 DEF SameTypes
    <2>5. Shape(w.m) /\ SameRest(v.m, w.m) /\ SameTypes(v.m.adts, w.m.adts)
      BY <2>2, <2>3, <2>4, ADTProcessed
    <2>6. SameRest(m, w.m)
      BY <2>3, <2>5 DEF SameRest
    <2>7. SameTypes(m.adts, w.m.adts)
      <3>1. IsTypes(m.adts)
        BY DEF Shape
      <3>. QED
        BY <2>3, <2>5, <3>1, SameTypesOrder
    <2>. QED
      BY <2>1, <2>5, <2>6, <2>7
  <1> HIDE DEF P
  <1>3. ASSUME T # {} PROVE FALSE
    <2>1. PICK k \in T : \A l \in T : k <= l
      <3> HIDE DEF T
      <3>1. T \in SUBSET Nat
        BY DEF T
      <3>. QED
        BY <1>3, <3>1, LeastNumber
    <2>2. k \in 0..n /\ ~P(k)
      OBVIOUS
    <2>3. k # 0
      BY <1>1, <2>2
    <2>4. k \in 1..n /\ k - 1 \in 0..n /\ ~(k <= k - 1)
      BY <2>2, <2>3
    <2>5. P(k - 1)
      BY <2>1, <2>4
    <2>. QED
      BY <1>2, <2>2, <2>4, <2>5
  <1>4. \A i \in 0..n : P(i)
    BY <1>3
  <1>. QED
    BY <1>4 DEF P

\* What validation makes of a model.
SameModel(m, n) ==
  /\ Shape(n) /\ n.included = m.included
  /\ Len(n.agents) = Len(m.agents) /\ \A i \in 1..Len(m.agents) : SameAgent(m.agents[i], n.agents[i])
  /\ Len(n.messages) = Len(m.messages)
  /\ \A i \in 1..Len(m.messages) : n.messages[i].name = m.messages[i].name

\* The parts of a model that validate() rewrote.
LEMMA ValidatedParts ==
  ASSUME NEW m, Shape(m), NEW n, n = ValidateADTs(m).m, NEW r, r = Validated(m).m
  PROVE  /\ Shape(n) /\ SameRest(m, n) /\ SameTypes(m.adts, n.adts)
         /\ IsModel(r) /\ r.adts = n.adts /\ r.included = n.included /\ r.allowed = n.allowed
         /\ r.constants = ProcessVariables(n, m.constants)
         /\ r.agents = [i \in DOMAIN m.agents |-> ProcessAgent(n, m.agents[i])]
         /\ r.messages = [i \in DOMAIN m.messages |-> ProcessMessage(n, m.messages[i])]
  <1>1. PICK cs, ags, xs : /\ cs = ProcessVariables(n, m.constants)
                           /\ ags = [i \in DOMAIN m.agents |-> ProcessAgent(n, m.agents[i])]
                           /\ xs = [i \in DOMAIN m.messages |-> ProcessMessage(n, m.messages[i])]
    OBVIOUS
  <1>2. IsTypes(m.adts)
    BY DEF Shape
  <1>3. Shape(n) /\ SameRest(m, n) /\ SameTypes(m.adts, n.adts)
    <2>1. PICK k : k = Len(m.adts)
      OBVIOUS
    <2>2. k \in Nat
      BY <1>2, <2>1, SeqFacts DEF IsTypes
    <2>3. PICK f : Chain(f, m, k) /\ ValidateADTs(m) = f[k]
      BY <2>1, <2>2, ADTsChain
    <2>4. k \in 0..k
      BY <2>2
    <2>. QED
      BY <2>1, <2>2, <2>3, <2>4, ChainProcessed
  <1>4. r = [n EXCEPT !.constants = cs, !.agents = ags, !.messages = xs]
    BY <1>1 DEF Validated
  <1>5. n = [name |-> n.name, constants |-> n.constants, adts |-> n.adts, timeUnits |-> n.timeUnits,
             functionFiles |-> n.functionFiles, agents |-> n.agents, messages |-> n.messages,
             allowed |-> n.allowed, included |-> n.included]
    BY <1>3 DEF Shape, IsModel
  <1>6. r = [name |-> n.name, constants |-> cs, adts |-> n.adts, timeUnits |-> n.timeUnits,
             functionFiles |-> n.functionFiles, agents |-> ags, messages |-> xs,
             allowed |-> n.allowed, included |-> n.included]
    BY <1>4, <1>5
  <1>7. /\ IsModel(r) /\ r.constants = cs /\ r.adts = n.adts /\ r.agents = ags /\ r.messages = xs
        /\ r.included = n.included /\ r.allowed = n.allowed
    BY <1>6 DEF IsModel
  <1>. QED
    BY <1>1, <1>3, <1>7

\* XModelValidate::validate()
LEMMA ModelProcessed ==
  ASSUME NEW m, Shape(m)
  PROVE  SameModel(m, Validated(m).m)
  <1>1. PICK n, cs, ags, xs, r : /\ n = ValidateADTs(m).m /\ cs = ProcessVariables(n, m.constants)
                                /\ ags = [i \in DOMAIN m.agents |-> ProcessAgent(n, m.agents[i])]
                                /\ xs = [i \in DOMAIN m.messages |-> ProcessMessage(n, m.messages[i])]
                                /\ r = Validated(m).m
    OBVIOUS
  <1>2. IsVariables(m.constants) /\ IsTypes(m.adts) /\ IsAgents(m.agents) /\ IsMessages(m.messages)
    BY DEF Shape
  <1>3. Shape(n) /\ SameRest(m, n)
    BY <1>1, ValidatedParts
  <1>4. IsModel(r) /\ r.constants = cs /\ r.adts = n.adts /\ r.agents = ags /\ r.messages = xs /\ r.included = n.included
    BY <1>1, ValidatedParts
  <1>5. IsVariables(cs)
    BY <1>1, <1>2, VariablesProcessed DEF SameVariables
  <1>6. IsAgents(ags) /\ Len(ags) = Len(m.agents) /\ \A i \in 1..Len(m.agents) : SameAgent(m.agents[i], ags[i])
    <2>1. IsSeq(m.agents) /\ DOMAIN m.agents = 1..Len(m.agents)
      BY <1>2, SeqFacts DEF IsAgents
    <2>2. ags = [i \in DOMAIN m.agents |-> ags[i]] /\ \A i \in 1..Len(m.agents) : ags[i] = ProcessAgent(n, m.agents[i])
      BY <1>1, <2>1
    <2>3. IsSeq(ags) /\ Len(ags) = Len(m.agents)
      BY <2>1, <2>2, MappedSeq
    <2>4. \A i \in 1..Len(m.agents) : SameAgent(m.agents[i], ags[i])
      BY <1>2, <2>2, AgentProcessed DEF IsAgents
    <2>. QED
      BY <2>3, <2>4 DEF IsAgents, SameAgent
  <1>7. IsMessages(xs) /\ Len(xs) = Len(m.messages) /\ \A i \in 1..Len(m.messages) : xs[i].name = m.messages[i].name
    <2>1. IsSeq(m.messages) /\ DOMAIN m.messages = 1..Len(m.messages)
      BY <1>2, SeqFacts DEF IsMessages
    <2>2. xs = [i \in DOMAIN m.messages |-> xs[i]] /\ \A i \in 1..Len(m.messages) : xs[i] = ProcessMessage(n, m.messages[i])
      BY <1>1, <2>1
    <2>3. IsSeq(xs) /\ Len(xs) = Len(m.messages)
      BY <2>1, <2>2, MappedSeq
    <2>4. ASSUME NEW i \in 1..Len(m.messages)
          PROVE  IsMessage(xs[i]) /\ xs[i].name = m.messages[i].name
      <3>1. PICK x, y, vs : x = m.messages[i] /\ y = xs[i] /\ vs = ProcessVariables(n, x.variables)
        OBVIOUS
      <3>2. x = [name |-> x.name, variables |-> x.variables] /\ IsVariables(x.variables)
        BY <1>2, <3>1 DEF IsMessages, IsMessage
      <3>3. y = [x EXCEPT !.variables = vs]
        BY <2>2, <3>1 DEF ProcessMessage
      <3>4. y = [name |-> x.name, variables |-> vs]
        BY <3>2, <3>3
      <3>5. IsVariables(vs)
        BY <3>1, <3>2, VariablesProcessed DEF SameVariables
      <3>. QED
        BY <3>1, <3>4, <3>5 DEF IsMessage
    <2>. QED
      BY <2>3, <2>4 DEF IsMessages
  <1>8. Shape(r)
    BY <1>3, <1>4, <1>5, <1>6, <1>7 DEF Shape
  <1>9. n.included = m.included
    BY <1>3 DEF SameRest
  <1>. QED
    BY <1>1, <1>4, <1>6, <1>7, <1>8, <1>9 DEF SameModel

\* A model that has been validated keeps its agents.
LEMMA ValidationKeeps ==
  ASSUME NEW m, NEW n, SameModel(m, n)
  PROVE  KeepsAgents(m, n)
  <1>1. ASSUME NEW a, NEW b, SameAgent(a, b)
        PROVE  Keeps(a, b)
    <2>1. b.name = a.name /\ SameVariables(a.variables, b.variables) /\ SameFunctions(a.functions, b.functions)
      BY <1>1 DEF SameAgent
    <2>. QED
      BY <2>1 DEF Keeps, SameVariables, SameFunctions, SameFunction
  <1>2. Len(n.agents) = Len(m.agents) /\ \A i \in 1..Len(m.agents) : SameAgent(m.agents[i], n.agents[i])
    BY DEF SameModel
  <1>. QED
    BY <1>1, <1>2 DEF KeepsAgents

-----------------------------------------------------------------------------
(***************************************************************************)
(* Editing adds to a model.                                                *)
(***************************************************************************)

\* A message or a function that is found.
LEMMA FoundAt ==
  /\ \A m, name : IsSeq(m.messages) => MessageAt(m, name) \in 0..Len(m.messages)
  /\ \A a, c : IsSeq(a.functions) => FunctionAt(a, c) \in 0..Len(a.functions)
  <1>1. ASSUME NEW n \in Nat, NEW I \in SUBSET (1..n), NEW x, x = IF I # {} THEN Min(I) ELSE 0
        PROVE  x \in 0..n
    <2>1. CASE I = {}
      BY <1>1, <2>1
    <2>2. CASE I # {}
      <3>1. I \in SUBSET Nat
        OBVIOUS
      <3>2. \E i \in I : \A j \in I : i <= j
        BY <2>2, <3>1, LeastNumber
      <3>3. Min(I) \in I
        BY <3>2 DEF Min
      <3>4. x = Min(I)
        BY <1>1, <2>2
      <3>5. x \in 1..n
        BY <3>3, <3>4
      <3>. QED
        BY <3>5
    <2>. QED
      BY <2>1, <2>2
  <1>2. ASSUME NEW m, NEW name, IsSeq(m.messages)
        PROVE  MessageAt(m, name) \in 0..Len(m.messages)
    <2>1. PICK I : I = {i \in 1..Len(m.messages) : m.messages[i].name = name}
      OBVIOUS
    <2>2. MessageAt(m, name) = IF I # {} THEN Min(I) ELSE 0
      BY <2>1 DEF MessageAt, SelectInSeq
    <2>3. Len(m.messages) \in Nat
      BY <1>2, SeqFacts
    <2>. QED
      BY <1>1, <2>1, <2>2, <2>3
  <1>3. ASSUME NEW a, NEW c, IsSeq(a.functions)
        PROVE  FunctionAt(a, c) \in 0..Len(a.functions)
    <2>1. PICK fs : fs = a.functions
      OBVIOUS
    <2>2. PICK I : I = {i \in 1..Len(fs) : fs[i].name = c.func /\ fs[i].current = c.current /\ fs[i].next = c.next}
      OBVIOUS
    <2>3. FunctionAt(a, c) = IF I # {} THEN Min(I) ELSE 0
      BY <2>1, <2>2 DEF FunctionAt, SelectInSeq
    <2>4. Len(fs) \in Nat
      BY <1>3, <2>1, SeqFacts
    <2>. QED
      BY <1>1, <2>1, <2>2, <2>3, <2>4
  <1>. QED
    BY <1>2, <1>3

\* What is added has the form of what is read.
LEMMA NewParts ==
  /\ \A x, y : IsVariable(NewVariable(x, y))
  /\ \A c : IsFunction(NewFunction(c))
  /\ \A x : IsIOput(NewIOput(x))
  <1>1. ASSUME NEW x, NEW y PROVE IsVariable(NewVariable(x, y))
    BY DEF NewVariable, ReadVariable, IsVariable
  <1>2. ASSUME NEW c PROVE IsFunction(NewFunction(c))
    <2>1. PICK acc, e : acc = [readOnly |-> <<>>, readWrite |-> <<>>]
             /\ e = [name |-> c.func, current |-> c.current, next |-> c.next, condition |-> <<>>,
                  access |-> <<acc>>, inputs |-> <<>>, outputs |-> <<>>]
      OBVIOUS
    <2>2. NewFunction(c) = ReadTransition(e)
      BY <2>1 DEF NewFunction
    <2>3. e.inputs = <<>> /\ e.outputs = <<>> /\ e.access = <<acc>>
      BY <2>1
    <2>4. IsSeq(<<>>) /\ IsSeq(<<acc>>) /\ Range(<<acc>>) = {acc}
      BY EmptyParts, ShortSeqs DEF Range
    <2>5. acc.readOnly = <<>> /\ acc.readWrite = <<>>
      BY <2>1
    <2>6. OrderedFunction(e)
      BY <2>3, <2>4, <2>5 DEF OrderedFunction
    <2>. QED
      BY <2>2, <2>6, ReadTransitionShape
  <1>3. ASSUME NEW x PROVE IsIOput(NewIOput(x))
    BY DEF NewIOput, ReadIOput, IsIOput
  <1>. QED
    BY <1>1, <1>2, <1>3

\* Calls that change a function.
FunctionCalls ==
  {"addAgentFunctionInput", "addAgentFunctionOutput", "addAgentFunctionReadWriteVariable",
   "addAgentFunctionReadOnlyVariable"}

\* Such a call adds to one of the lists of the function.
LEMMA FunctionEdited ==
  ASSUME NEW f, IsFunction(f), NEW c, c.call \in FunctionCalls
  PROVE  /\ IsFunction(EditFunction(f, c)) /\ EditFunction(f, c).name = f.name
         /\ EditFunction(f, c).current = f.current /\ EditFunction(f, c).next = f.next
  <1>1. /\ f = [name |-> f.name, current |-> f.current, next |-> f.next, condition |-> f.condition,
                infoAvailable |-> f.infoAvailable, readOnly |-> f.readOnly, readWrite |-> f.readWrite,
                inputs |-> f.inputs, outputs |-> f.outputs, reads |-> f.reads]
        /\ IsSeq(f.condition) /\ IsSeq(f.readOnly) /\ IsSeq(f.readWrite)
        /\ IsIOputs(f.inputs) /\ IsIOputs(f.outputs)
    BY DEF IsFunction
  <1>2. PICK g, io, is, os, rw, ro : /\ g = EditFunction(f, c) /\ io = NewIOput(c.name)
                                 /\ is = Append(f.inputs, io) /\ os = Append(f.outputs, io)
                                 /\ rw = Append(f.readWrite, c.name) /\ ro = Append(f.readOnly, c.name)
    OBVIOUS
  <1>3. IsSeq(rw) /\ IsSeq(ro)
    BY <1>1, <1>2, AppendPushes DEF Pushed
  <1>4. IsIOputs(is) /\ IsIOputs(os)
    <2>1. IsSeq(f.inputs) /\ IsSeq(f.outputs) /\ IsIOput(io)
      BY <1>1, <1>2, NewParts DEF IsIOputs
    <2>2. Len(f.inputs) \in Nat /\ Len(f.outputs) \in Nat
      BY <2>1, SeqFacts
    <2>3. Pushed(f.inputs, is, io) /\ Pushed(f.outputs, os, io)
      BY <1>2, <2>1, AppendPushes
    <2>. QED
      BY <1>1, <2>1, <2>2, <2>3, PartsPushed
  <1>5. ASSUME NEW h, NEW vi, NEW vo, NEW vr, NEW vw, IsIOputs(vi), IsIOputs(vo), IsSeq(vr), IsSeq(vw),
               h = [name |-> f.name, current |-> f.current, next |-> f.next, condition |-> f.condition,
                    infoAvailable |-> f.infoAvailable, readOnly |-> vr, readWrite |-> vw,
                    inputs |-> vi, outputs |-> vo, reads |-> f.reads]
        PROVE  IsFunction(h) /\ h.name = f.name /\ h.current = f.current /\ h.next = f.next
    BY <1>1, <1>5 DEF IsFunction
  <1>6. CASE c.call = "addAgentFunctionInput"
    <2>1. g = [f EXCEPT !.inputs = is]
      BY <1>2, <1>6 DEF EditFunction
    <2>2. g = [name |-> f.name, current |-> f.current, next |-> f.next, condition |-> f.condition,
               infoAvailable |-> f.infoAvailable, readOnly |-> f.readOnly, readWrite |-> f.readWrite,
               inputs |-> is, outputs |-> f.outputs, reads |-> f.reads]
      BY <1>1, <2>1
    <2>. QED
      BY <1>1, <1>2, <1>4, <1>5, <2>2
  <1>7. CASE c.call = "addAgentFunctionOutput"
    <2>1. g = [f EXCEPT !.outputs = os]
      BY <1>2, <1>7 DEF EditFunction
    <2>2. g = [name |-> f.name, current |-> f.current, next |-> f.next, condition |-> f.condition,
               infoAvailable |-> f.infoAvailable, readOnly |-> f.readOnly, readWrite |-> f.readWrite,
               inputs |-> f.inputs, outputs |-> os, reads |-> f.reads]
      BY <1>1, <2>1
    <2>. QED
      BY <1>1, <1>2, <1>4, <1>5, <2>2
  <1>8. CASE c.call = "addAgentFunctionReadWriteVariable"
    <2>1. g = [f EXCEPT !.readWrite = rw]
      BY <1>2, <1>8 DEF EditFunction
    <2>2. g = [name |-> f.name, current |-> f.current, next |-> f.next, condition |-> f.condition,
               infoAvailable |-> f.infoAvailable, readOnly |-> f.readOnly, readWrite |-> rw,
               inputs |-> f.inputs, outputs |-> f.outputs, reads |-> f.reads]
      BY <1>1, <2>1
    <2>. QED
      BY <1>1, <1>2, <1>3, <1>5, <2>2
  <1>9. CASE c.call = "addAgentFunctionReadOnlyVariable"
    <2>1. g = [f EXCEPT !.readOnly = ro]
      BY <1>2, <1>9 DEF EditFunction
    <2>2. g = [name |-> f.name, current |-> f.current, next |-> f.next, condition |-> f.condition,
               infoAvailable |-> f.infoAvailable, readOnly |-> ro, readWrite |-> f.readWrite,
               inputs |-> f.inputs, outputs |-> f.outputs, reads |-> f.reads]
      BY <1>1, <2>1
    <2>. QED
      BY <1>1, <1>2, <1>3, <1>5, <2>2
  <1>. QED
    BY <1>6, <1>7, <1>8, <1>9 DEF FunctionCalls

\* Calls that change an agent.
LEMMA AgentEdited ==
  ASSUME NEW a, IsAgent(a), NEW c, c.call \in {"addAgentVariable", "addAgentFunction"} \union FunctionCalls,
         c.call \in FunctionCalls => FunctionAt(a, c) # 0
  PROVE  IsAgent(EditAgent(a, c)) /\ Keeps(a, EditAgent(a, c))
  <1>1. /\ a = [name |-> a.name, variables |-> a.variables, functions |-> a.functions, graph |-> a.graph]
        /\ IsVariables(a.variables) /\ IsFunctions(a.functions) /\ IsFunctions(a.graph)
    BY DEF IsAgent
  <1>2. PICK b, v, vs, f, fs, k, g, gs :
          /\ b = EditAgent(a, c) /\ v = NewVariable(c.type, c.name) /\ vs = Append(a.variables, v)
          /\ f = NewFunction(c) /\ fs = Append(a.functions, f)
          /\ k = FunctionAt(a, c) /\ g = EditFunction(a.functions[k], c) /\ gs = [a.functions EXCEPT ![k] = g]
    OBVIOUS
  <1>3. IsSeq(a.variables) /\ IsSeq(a.functions) /\ IsVariable(v) /\ IsFunction(f)
    BY <1>1, <1>2, NewParts DEF IsVariables, IsFunctions
  <1>4. Len(a.variables) \in Nat /\ Len(a.functions) \in Nat
    BY <1>3, SeqFacts
  <1>5. CASE c.call = "addAgentVariable"
    <2>1. b = [a EXCEPT !.variables = vs]
      BY <1>2, <1>5 DEF EditAgent
    <2>2. b = [name |-> a.name, variables |-> vs, functions |-> a.functions, graph |-> a.graph]
      BY <1>1, <2>1
    <2>3. Pushed(a.variables, vs, v)
      BY <1>2, <1>3, AppendPushes
    <2>4. IsVariables(vs)
      BY <1>1, <1>3, <1>4, <2>3, PartsPushed
    <2>5. \A i \in 1..Len(a.variables) : i \in 1..Len(vs) /\ vs[i] = a.variables[i]
      <3>1. Len(vs) = Len(a.variables) + 1 /\ \A i \in 1..Len(a.variables) : vs[i] = a.variables[i]
        BY <2>3 DEF Pushed
      <3>. QED
        BY <1>4, <3>1
    <2>6. b.name = a.name /\ b.variables = vs /\ b.functions = a.functions /\ b.graph = a.graph
      BY <2>2
    <2>7. IsAgent(b)
      BY <1>1, <2>2, <2>4, <2>6 DEF IsAgent
    <2>8. Keeps(a, b)
      BY <2>5, <2>6 DEF Keeps
    <2>. QED
      BY <1>2, <2>7, <2>8
  <1>6. ASSUME NEW hs, IsFunctions(hs), b = [a EXCEPT !.functions = hs],
               \A i \in 1..Len(a.functions) : i \in 1..Len(hs) /\ hs[i].name = a.functions[i].name
                 /\ hs[i].current = a.functions[i].current /\ hs[i].next = a.functions[i].next
        PROVE  IsAgent(b) /\ Keeps(a, b)
    <2>1. b = [name |-> a.name, variables |-> a.variables, functions |-> hs, graph |-> a.graph]
      BY <1>1, <1>6
    <2>2. b.name = a.name /\ b.variables = a.variables /\ b.functions = hs /\ b.graph = a.graph
      BY <2>1
    <2>3. IsAgent(b)
      BY <1>1, <1>6, <2>1, <2>2 DEF IsAgent
    <2>4. Keeps(a, b)
      BY <1>6, <2>2 DEF Keeps
    <2>. QED
      BY <2>3, <2>4
  <1>7. CASE c.call = "addAgentFunction"
    <2>1. b = [a EXCEPT !.functions = fs]
      BY <1>2, <1>7 DEF EditAgent
    <2>2. Pushed(a.functions, fs, f)
      BY <1>2, <1>3, AppendPushes
    <2>3. IsFunctions(fs)
      BY <1>1, <1>3, <1>4, <2>2, PartsPushed
    <2>4. \A i \in 1..Len(a.functions) : i \in 1..Len(fs) /\ fs[i] = a.functions[i]
      <3>1. Len(fs) = Len(a.functions) + 1 /\ \A i \in 1..Len(a.functions) : fs[i] = a.functions[i]
        BY <2>2 DEF Pushed
      <3>. QED
        BY <1>4, <3>1
    <2>. QED
      BY <1>2, <1>6, <2>1, <2>3, <2>4
  <1>8. CASE c.call \in FunctionCalls
    <2>1. b = [a EXCEPT !.functions = gs]
      BY <1>2, <1>8 DEF EditAgent, FunctionCalls
    <2>2. k \in 0..Len(a.functions) /\ k # 0
      BY <1>2, <1>3, <1>8, FoundAt
    <2>3. k \in 1..Len(a.functions)
      BY <1>4, <2>2
    <2>4. IsFunction(a.functions[k])
      BY <1>1, <2>3 DEF IsFunctions
    <2>5. IsFunction(g) /\ g.name = a.functions[k].name /\ g.current = a.functions[k].current /\ g.next = a.functions[k].next
      BY <1>2, <1>8, <2>4, FunctionEdited
    <2>6. Replaced(a.functions, gs, k, g)
      BY <1>2, <1>3, <2>3, ExceptReplaces
    <2>7. IsFunctions(gs)
      BY <1>1, <2>3, <2>5, <2>6, PartsReplaced
    <2>8. Len(gs) = Len(a.functions) /\ gs[k] = g /\ \A i \in 1..Len(a.functions) : i # k => gs[i] = a.functions[i]
      BY <2>6 DEF Replaced
    <2>9. \A i \in 1..Len(a.functions) : i \in 1..Len(gs) /\ gs[i].name = a.functions[i].name
                 /\ gs[i].current = a.functions[i].current /\ gs[i].next = a.functions[i].next
      BY <2>5, <2>8
    <2>. QED
      BY <1>2, <1>6, <2>1, <2>7, <2>9
  <1>. QED
    BY <1>5, <1>7, <1>8

\* An editing call that does not throw keeps all that the agents had.
LEMMA ModelEdited ==
  ASSUME NEW m, Shape(m), NEW c, c.call \in EditCalls, ~EditThrows(m, c)
  PROVE  Shape(Edited(m, c)) /\ KeepsAgents(m, Edited(m, c)) /\ Edited(m, c).included = m.included
  <1>1. PICK n, xs, x, k : n = Edited(m, c) /\ xs = EditMessages(m, c) /\ x = MessageAt(m, c.agent) /\ k = AgentAt(m, c.agent)
    OBVIOUS
  <1>2. IsMessages(m.messages) /\ IsSeq(m.messages) /\ IsAgents(m.agents) /\ IsSeq(m.agents)
    BY DEF Shape, IsMessages, IsAgents
  <1>3. Len(m.messages) \in Nat
    BY <1>2, SeqFacts
  <1>4. Len(m.agents) \in Nat
    BY <1>2, SeqFacts
  <1>5. CASE c.call = "addAgent"
    <2>1. n = AddAgent(m, c.agent)
      BY <1>1, <1>5 DEF Edited
    <2>. QED
      BY <1>1, <2>1, AgentAdded
  <1>6. CASE c.call \in {"addMessage", "addMessageVariable"}
    <2>1. n = [m EXCEPT !.messages = xs]
      BY <1>1, <1>6 DEF Edited
    <2>2. IsMessages(xs)
      <3>1. CASE c.call = "addMessage"
        <4>1. PICK y : y = [name |-> c.name, variables |-> <<>>]
          OBVIOUS
        <4>2. xs = Append(m.messages, y)
          BY <1>1, <3>1, <4>1 DEF EditMessages
        <4>3. IsMessage(y)
          BY <4>1, EmptyParts DEF IsMessage
        <4>4. Pushed(m.messages, xs, y)
          BY <1>2, <4>2, AppendPushes
        <4>. QED
          BY <1>2, <1>3, <4>3, <4>4, PartsPushed
      <3>2. CASE c.call = "addMessageVariable"
        <4>1. PICK y, v, vs, z : /\ y = m.messages[x] /\ v = NewVariable(c.type, c.name) /\ vs = Append(y.variables, v)
                                  /\ z = [y EXCEPT !.variables = vs]
          OBVIOUS
        <4>2. xs = [m.messages EXCEPT ![x] = z]
          BY <1>1, <3>2, <4>1 DEF EditMessages
        <4>3. x # 0
          BY <1>1, <3>2 DEF EditThrows
        <4>4. x \in 0..Len(m.messages)
          BY <1>1, <1>2, FoundAt
        <4>5. x \in 1..Len(m.messages)
          BY <1>3, <4>3, <4>4
        <4>6. y = [name |-> y.name, variables |-> y.variables] /\ IsVariables(y.variables)
          BY <1>2, <4>1, <4>5 DEF IsMessages, IsMessage
        <4>7. z = [name |-> y.name, variables |-> vs]
          BY <4>1, <4>6
        <4>8. IsSeq(y.variables) /\ IsVariable(v)
          BY <4>1, <4>6, NewParts DEF IsVariables
        <4>9. Len(y.variables) \in Nat
          BY <4>8, SeqFacts
        <4>10. Pushed(y.variables, vs, v)
          BY <4>1, <4>8, AppendPushes
        <4>11. IsVariables(vs)
          BY <4>6, <4>8, <4>9, <4>10, PartsPushed
        <4>12. IsMessage(z)
          BY <4>7, <4>11 DEF IsMessage
        <4>13. Replaced(m.messages, xs, x, z)
          BY <1>2, <4>2, <4>5, ExceptReplaces
        <4>. QED
          BY <1>2, <4>5, <4>12, <4>13, PartsReplaced
      <3>. QED
        BY <1>6, <3>1, <3>2
    <2>3. Shape(n) /\ n.included = m.included /\ n.agents = m.agents
      BY <2>1, <2>2, FieldRead
    <2>. QED
      BY <1>1, <2>3, SameAgents
  <1>7. CASE c.call \in {"addAgentVariable", "addAgentFunction"} \union FunctionCalls
    <2>1. PICK a, b : a = m.agents[k] /\ b = EditAgent(a, c)
      OBVIOUS
    <2>2. n = SetAgent(m, k, b)
      BY <1>1, <1>7, <2>1 DEF Edited, FunctionCalls
    <2>3. k # 0 /\ (c.call \in FunctionCalls => FunctionAt(a, c) # 0)
      BY <1>1, <1>7, <2>1 DEF EditThrows, FunctionCalls
    <2>4. k \in 0..Len(m.agents)
      BY <1>1, <1>2, AgentAtFinds
    <2>5. k \in 1..Len(m.agents)
      BY <1>4, <2>3, <2>4
    <2>6. IsAgent(a)
      BY <1>2, <2>1, <2>5 DEF IsAgents
    <2>7. IsAgent(b) /\ Keeps(a, b)
      BY <1>7, <2>1, <2>3, <2>6, AgentEdited
    <2>8. Keeps(m.agents[k], b)
      BY <2>1, <2>7
    <2>. QED
      BY <1>1, <2>2, <2>5, <2>7, <2>8, AgentSet
  <1>. QED
    BY <1>5, <1>6, <1>7 DEF EditCalls, FunctionCalls

-----------------------------------------------------------------------------
(***************************************************************************)
(* The invariant of the reader, in all behaviours.                         *)
(***************************************************************************)

\* The model changes after it has been read.
LEMMA ChangeKeeps ==
  ASSUME ReaderInv, reading # "reading", UNCHANGED <<files, stack, docs, thrown, reading, readFiles>>,
         Shape(xmodel'), KeepsAgents(xmodel, xmodel')
  PROVE  ReaderInv'
  <1>1. PICK m, n : m = xmodel /\ n = xmodel'
    OBVIOUS
  <1>2. Shape(n) /\ KeepsAgents(m, n)
    BY <1>1
  <1>3. OnceInv(stack, thrown, reading, readFiles, n.included)
    BY DEF ReaderInv, OnceInv
  <1>4. KeepInv(files, stack, thrown, reading, readFiles, n)
    <2>1. KeepInv(files, stack, thrown, reading, readFiles, m)
      BY <1>1 DEF ReaderInv
    <2>2. \A e : Covered(m, e) => Covered(n, e)
      BY <1>2, KeepsCovered
    <2>. QED
      BY <2>1, <2>2 DEF KeepInv
  <1>5. /\ files \in FileSets \/ (files = <<>> /\ Len(stack) = 0 /\ Len(readFiles) = 0)
        /\ DocInv(stack, docs, thrown, reading) /\ FrameInv(files, stack)
    BY DEF ReaderInv
  <1>. QED
    BY <1>1, <1>2, <1>3, <1>4, <1>5 DEF ReaderInv

\* Nothing that the invariant is about changes, but that the model object comes to be.
LEMMA SameKeeps ==
  ASSUME ReaderInv, UNCHANGED readerVars, object' = object \/ reading # "reading"
  PROVE  ReaderInv'
  BY DEF ReaderInv, readerVars

\* The model has been read when there is an object.
LEMMA ModelReadBefore ==
  ASSUME ReaderInv, object # "none" \/ reading \in {"loaded", "failed"}
  PROVE  reading # "reading"
  BY DEF ReaderInv

\* Every step keeps the invariant.
LEMMA StepKeeps ==
  ASSUME ReaderInv, [Next]_vars
  PROVE  ReaderInv'
  <1>1. CASE Read
    BY <1>1, ReaderKeeps
  <1>2. ASSUME RunValidation, reading # "reading"
        PROVE  ReaderInv'
    <2>1. xmodel' = Validated(xmodel).m /\ UNCHANGED <<files, stack, docs, thrown, reading, readFiles>>
      BY <1>2 DEF RunValidation
    <2>2. Shape(xmodel)
      BY DEF ReaderInv
    <2>3. SameModel(xmodel, xmodel')
      BY <2>1, <2>2, ModelProcessed
    <2>4. Shape(xmodel') /\ KeepsAgents(xmodel, xmodel')
      BY <2>3, ValidationKeeps DEF SameModel
    <2>. QED
      BY <1>2, <2>1, <2>4, ChangeKeeps
  <1>3. CASE Construct
    <2>1. reading # "reading"
      BY <1>3, ModelReadBefore DEF Construct
    <2>2. CASE reading = "failed"
      <3>1. UNCHANGED readerVars
        BY <1>3, <2>2 DEF Construct
      <3>. QED
        BY <2>1, <3>1, SameKeeps
    <2>3. CASE reading # "failed"
      BY <1>2, <1>3, <2>1, <2>3 DEF Construct
    <2>. QED
      BY <2>2, <2>3
  <1>4. CASE Validate
    <2>1. object = "exists" /\ RunValidation
      BY <1>4 DEF Validate
    <2>. QED
      BY <1>2, <2>1, ModelReadBefore
  <1>5. CASE EditModel
    <2>1. /\ object = "exists" /\ UNCHANGED <<files, stack, docs, thrown, reading, readFiles>>
          /\ \E c \in Edits : ~EditThrows(xmodel, c) /\ xmodel' = Edited(xmodel, c)
      BY <1>5 DEF EditModel
    <2>2. PICK c \in Edits : ~EditThrows(xmodel, c) /\ xmodel' = Edited(xmodel, c)
      BY <2>1
    <2>3. Shape(xmodel) /\ c.call \in EditCalls
      BY EditsAssumption DEF ReaderInv
    <2>4. Shape(xmodel') /\ KeepsAgents(xmodel, xmodel')
      BY <2>2, <2>3, ModelEdited
    <2>5. reading # "reading"
      BY <2>1, ModelReadBefore
    <2>. QED
      BY <2>1, <2>4, <2>5, ChangeKeeps
  <1>6. CASE RegisterAgentFunction \/ RegisterMessageType \/ NewSimulation \/ Start \/ UNCHANGED vars
    <2>1. UNCHANGED readerVars /\ UNCHANGED object
      BY <1>6 DEF RegisterAgentFunction, RegisterMessageType, NewSimulation, Start, vars, modelVars
    <2>. QED
      BY <2>1, SameKeeps
  <1>. QED
    BY <1>1, <1>3, <1>4, <1>5, <1>6 DEF Next

\* It holds at the start.
LEMMA StartKeeps ==
  ASSUME Init
  PROVE  ReaderInv
  <1>1. Shape(EmptyModel) /\ EmptyModel.included = <<>>
    BY EmptyParts DEF EmptyModel, Shape, IsModel
  <1>2. IsSeq(<<>>) /\ Len(<<>>) = 0 /\ Injective(<<>>) /\ Elements(<<>>) = {} /\ <<>> \in Seq({0, 1})
    <2>1. IsSeq(<<>>) /\ Len(<<>>) = 0
      BY ShortSeqs
    <2>2. \A i \in 1..Len(<<>>) : FALSE
      BY <2>1
    <2>. QED
      BY <2>1, <2>2 DEF Injective, Elements
  <1>3. 1..0 = {}
    OBVIOUS
  <1>4. CASE ReaderInit /\ object = "none"
    <2>1. PICK f : f = [path |-> Root, pos |-> 1, doc |-> 0]
      OBVIOUS
    <2>2. /\ files \in FileSets /\ stack = <<f>> /\ docs = <<>> /\ thrown = None /\ reading = "reading"
          /\ readFiles = <<>> /\ xmodel = EmptyModel /\ object = "none"
      BY <1>4, <2>1 DEF ReaderInit
    <2>3. f.path = Root /\ f.pos = 1 /\ f.doc = 0 /\ IsFrame(f)
      BY <2>1 DEF IsFrame
    <2>4. PICK s : s = stack
      OBVIOUS
    <2>5. IsSeq(s) /\ Len(s) = 1 /\ s[1] = f
      BY <2>2, <2>4, ShortSeqs
    <2>6. \A i \in 1..Len(s) : i = 1
      BY <2>5
    <2>7. DocInv(s, <<>>, None, "reading")
      BY <1>2, <1>3, <2>3, <2>5, <2>6 DEF DocInv
    <2>8. FrameInv(files, s)
      BY <2>3, <2>5, <2>6 DEF FrameInv
    <2>9. \A i \in 2..Len(s) : FALSE
      BY <2>5
    <2>10. IncludeInv(files, s, None, <<>>)
      BY <1>2, <2>3, <2>5, <2>6, <2>9 DEF IncludeInv
    <2>11. OnceInv(s, None, "reading", <<>>, <<>>)
      BY <1>2, <1>3, <2>3, <2>5 DEF OnceInv, FileAt
    <2>12. KeepInv(files, s, None, "reading", <<>>, EmptyModel)
      BY <1>2, <1>3 DEF KeepInv
    <2>. QED
      BY <1>1, <2>2, <2>4, <2>7, <2>8, <2>10, <2>11, <2>12 DEF ReaderInv
  <1>5. CASE ~(ReaderInit /\ object = "none")
    <2>1. /\ files = <<>> /\ stack = <<>> /\ docs = <<>> /\ thrown = None
          /\ reading = "loaded" /\ readFiles = <<>> /\ xmodel = EmptyModel
      BY <1>5 DEF Init
    <2>2. DocInv(<<>>, <<>>, None, "loaded")
      BY <1>2, <1>3 DEF DocInv
    <2>3. FrameInv(files, <<>>)
      BY <1>2, <1>3 DEF FrameInv
    <2>4. OnceInv(<<>>, None, "loaded", <<>>, <<>>)
      BY <1>2 DEF OnceInv
    <2>5. KeepInv(files, <<>>, None, "loaded", <<>>, EmptyModel)
      BY <1>2, <1>3 DEF KeepInv
    <2>. QED
      BY <1>1, <1>2, <2>1, <2>2, <2>3, <2>4, <2>5 DEF ReaderInv
  <1>. QED
    BY <1>4, <1>5

\* The invariant of the reader: documents, frames, included files, files read and
\* elements read, for any files.
THEOREM ReaderInvariant == Spec => []ReaderInv
  <1>1. Init => ReaderInv
    BY StartKeeps
  <1>2. ReaderInv /\ [Next]_vars => ReaderInv'
    BY StepKeeps
  <1>. QED
    BY <1>1, <1>2, PTL DEF Spec

\* readXMLModel() frees a document at most once and does not use it after that; a
\* model that was loaded leaves none behind, whatever its files include.
THEOREM DocumentsFreedHolds == Spec => []DocumentsFreed
  <1>1. ReaderInv => DocumentsFreed
    <2> SUFFICES ASSUME ReaderInv
                 PROVE  DocumentsFreed
      OBVIOUS
    <2>1. DocInv(stack, docs, thrown, reading)
      BY DEF ReaderInv
    <2>2. docs \in Seq({0, 1}) /\ IsSeq(stack)
      BY <2>1 DEF DocInv
    <2>3. DOMAIN docs = 1..Len(docs) /\ DOMAIN stack = 1..Len(stack)
      BY <2>2, SeqFacts
    <2>4. \A d \in 1..Len(docs) : docs[d] <= 1
      BY <2>2
    <2>. QED
      BY <2>1, <2>3, <2>4 DEF DocInv, DocumentsFreed
  <1>. QED
    BY <1>1, ReaderInvariant, PTL

\* Files that include each other, or a third file twice, whatever paths the operating
\* system takes them by: a model that was loaded has no path in it twice, and while no
\* file is being read under two paths the recursion of readXMLModel() is no deeper than
\* there are files, the first one read once more.
THEOREM ReadOnceHolds == Spec => []ReadOnce
  <1>1. ReaderInv => ReadOnce
    <2> SUFFICES ASSUME ReaderInv
                 PROVE  ReadOnce
      OBVIOUS
    <2>1. DocInv(stack, docs, thrown, reading) /\ FrameInv(files, stack) /\ OnceInv(stack, thrown, reading, readFiles, xmodel.included)
      BY DEF ReaderInv
    <2>2. IsFiniteSet(DOMAIN files)
      <3>1. files \in FileSets \/ files = <<>>
        BY DEF ReaderInv
      <3>2. DOMAIN <<>> = {}
        OBVIOUS
      <3>. QED
        BY <3>1, <3>2, FS_EmptySet, FilesAssumption
    <2>3. PICK s, n, K : s = stack /\ n = Len(s) /\ K = Cardinality(DOMAIN files)
      OBVIOUS
    <2>4. K \in Nat
      BY <2>2, <2>3, FS_CardinalityType
    <2>5. n \in Nat
      BY <2>1, <2>3, SeqFacts DEF DocInv
    <2>6. ASSUME \A i, j \in 1..n : Resolve(s[i].path) = Resolve(s[j].path) => s[i].path = s[j].path
          PROVE  n <= K + 1
      <3>1. CASE n = 0
        BY <2>4, <3>1
      <3>2. CASE n # 0
        <4>1. reading = "reading"
          BY <2>1, <2>3, <3>2 DEF DocInv
        <4>2. PICK inc : inc = xmodel.included
          OBVIOUS
        <4>3. IncludeInv(files, s, thrown, inc)
          BY <2>3, <4>1, <4>2 DEF ReaderInv
        <4>4. PICK f : f = [i \in 1..(n - 1) |-> Resolve(s[i].path)]
          OBVIOUS
        <4>5. \A i \in 1..(n - 1) : i \in 1..n /\ i < n /\ (i = 1 \/ i \in 2..n)
          BY <2>5
        <4>6. \A i \in 1..(n - 1) : Resolve(s[i].path) \in DOMAIN files
          <5>1. \A i \in 1..(n - 1) : FileOf(files, s[i].path) \notin {Missing, Malformed}
            BY <2>1, <2>3, <4>5 DEF DocInv, FrameInv
          <5>. QED
            BY <5>1, FileThere
        <4>7. s[1].path = Root
          BY <2>1, <2>3, <3>2 DEF FrameInv
        <4>8. \A i \in 2..n : s[i].path = Root => i = n
          BY <2>3, <4>3 DEF IncludeInv
        <4>9. \A i, j \in 2..n : s[i].path = s[j].path => i = j
          BY <2>3, <4>3 DEF IncludeInv
        <4>10. \A i \in 1..(n - 1) : i # n
          BY <2>5
        <4>11. \A i, j \in 1..(n - 1) : Resolve(s[i].path) = Resolve(s[j].path) => i = j
          <5>1. \A i, j \in 1..(n - 1) : s[i].path = s[j].path => i = j
            BY <4>5, <4>7, <4>8, <4>9, <4>10
          <5>. QED
            BY <2>6, <4>5, <5>1
        <4>12. f \in Injection(1..(n - 1), DOMAIN files)
          <5>1. f \in [1..(n - 1) -> DOMAIN files]
            BY <4>4, <4>6
          <5>2. \A i, j \in 1..(n - 1) : f[i] = f[j] => i = j
            BY <4>4, <4>11
          <5>. QED
            BY <5>1, <5>2 DEF Injection, IsInjective
        <4>13. Cardinality(1..(n - 1)) <= K
          BY <2>2, <2>3, <4>12, FS_Injection
        <4>14. n - 1 \in Int /\ 1 \in Int
          BY <2>5
        <4>15. Cardinality(1..(n - 1)) = IF 1 > n - 1 THEN 0 ELSE n - 1 - 1 + 1
          BY <4>14, FS_Interval
        <4>. QED
          BY <2>4, <2>5, <4>13, <4>15
      <3>. QED
        BY <3>1, <3>2
    <2>7. reading = "loaded" => \A i, j \in DOMAIN readFiles : readFiles[i] = readFiles[j] => i = j
      <3>1. IsSeq(readFiles) /\ (reading = "loaded" => Injective(readFiles))
        BY <2>1 DEF OnceInv
      <3>2. DOMAIN readFiles = 1..Len(readFiles)
        BY <3>1, SeqFacts
      <3>. QED
        BY <3>1, <3>2 DEF Injective
    <2>8. DOMAIN stack = 1..n
      BY <2>1, <2>3, SeqFacts DEF DocInv
    <2>. QED
      BY <2>3, <2>6, <2>7, <2>8 DEF ReadOnce
  <1>. QED
    BY <1>1, ReaderInvariant, PTL

\* An agent described in several files has, in the loaded model, the variables and the
\* functions of all of them, whatever calls edited or validated the model since.
THEOREM NothingLostHolds == Spec => []NothingLost
  <1>1. ReaderInv => NothingLost
    <2> SUFFICES ASSUME ReaderInv, reading = "loaded", NEW i \in DOMAIN readFiles,
                        NEW e \in Range(FileOf(files, readFiles[i]).elements), e.tag = "xagent"
                 PROVE  \E a \in Range(xmodel.agents) :
                          /\ a.name = e.name
                          /\ \A v \in Range(e.memory) : \E w \in Range(a.variables) : w.name = v.name
                          /\ \A f \in Range(e.functions) :
                               \E g \in Range(a.functions) :
                                 g.name = f.name /\ g.current = f.current /\ g.next = f.next
      BY DEF NothingLost
    <2>1. DocInv(stack, docs, thrown, reading) /\ OnceInv(stack, thrown, reading, readFiles, xmodel.included)
          /\ KeepInv(files, stack, thrown, reading, readFiles, xmodel) /\ Shape(xmodel)
      BY DEF ReaderInv
    <2>2. IsSeq(readFiles) /\ Len(stack) = 0
      BY <2>1 DEF OnceInv, DocInv
    <2>3. Len(readFiles) \in Nat /\ i \in 1..Len(readFiles) /\ 1..Len(stack) = {}
      BY <2>2, SeqFacts
    <2>4. PICK n, es : n = readFiles[i] /\ es = ElementsOf(files, n)
      OBVIOUS
    <2>5. /\ FileOf(files, n) \notin {Missing, Malformed}
          /\ \A k \in 1..Len(es) : Covered(xmodel, es[k])
      BY <2>1, <2>3, <2>4 DEF KeepInv
    <2>6. files \in FileSets
      <3>1. Len(readFiles) # 0
        BY <2>3
      <3>. QED
        BY <3>1 DEF ReaderInv
    <2>7. IsSeq(es) /\ e \in Range(es) /\ \A x \in Range(es) : Ordered(x)
      BY <2>4, <2>5, <2>6, ElementsListed DEF ElementsOf
    <2>8. PICK k \in 1..Len(es) : e = es[k]
      BY <2>7, SeqFacts
    <2>9. PICK j \in 1..Len(xmodel.agents) : Described(e, xmodel.agents[j])
      BY <2>5, <2>8 DEF Covered
    <2>10. PICK a, vs, fs, ms, ds : a = xmodel.agents[j] /\ vs = a.variables /\ fs = a.functions
                                 /\ ms = e.memory /\ ds = e.functions
      OBVIOUS
    <2>11. IsSeq(ms) /\ IsSeq(ds)
      BY <2>7, <2>10 DEF Ordered
    <2>12. IsAgents(xmodel.agents)
      BY <2>1 DEF Shape
    <2>13. IsSeq(xmodel.agents) /\ IsAgent(a)
      BY <2>10, <2>12 DEF IsAgents
    <2>14. IsSeq(vs) /\ IsSeq(fs)
      BY <2>10, <2>13 DEF IsAgent, IsVariables, IsFunctions
    <2>15. a \in Range(xmodel.agents)
      BY <2>10, <2>13, SeqFacts
    <2>16. /\ a.name = e.name
           /\ \A x \in 1..Len(ms) : \E y \in 1..Len(vs) : vs[y].name = ms[x].name
           /\ \A x \in 1..Len(ds) : \E y \in 1..Len(fs) :
                fs[y].name = ds[x].name /\ fs[y].current = ds[x].current /\ fs[y].next = ds[x].next
      BY <2>9, <2>10 DEF Described
    <2>17. \A v \in Range(ms) : \E w \in Range(vs) : w.name = v.name
      <3>1. Range(ms) = {ms[x] : x \in 1..Len(ms)} /\ Range(vs) = {vs[x] : x \in 1..Len(vs)}
        BY <2>11, <2>14, SeqFacts
      <3>. QED
        BY <2>16, <3>1
    <2>18. \A f \in Range(ds) : \E g \in Range(fs) : g.name = f.name /\ g.current = f.current /\ g.next = f.next
      <3>1. Range(ds) = {ds[x] : x \in 1..Len(ds)} /\ Range(fs) = {fs[x] : x \in 1..Len(fs)}
        BY <2>11, <2>14, SeqFacts
      <3> SUFFICES ASSUME NEW f \in Range(ds)
                   PROVE  \E g \in Range(fs) : g.name = f.name /\ g.current = f.current /\ g.next = f.next
        OBVIOUS
      <3>2. PICK x \in 1..Len(ds) : f = ds[x]
        BY <3>1
      <3>3. PICK y \in 1..Len(fs) : fs[y].name = ds[x].name /\ fs[y].current = ds[x].current /\ fs[y].next = ds[x].next
        BY <2>16
      <3>4. fs[y] \in Range(fs)
        BY <3>1
      <3>. QED
        BY <3>2, <3>3, <3>4
    <2>. QED
      BY <2>10, <2>15, <2>16, <2>17, <2>18
  <1>. QED
    BY <1>1, ReaderInvariant, PTL

-----------------------------------------------------------------------------
(***************************************************************************)
(* State graphs.                                                           *)
(***************************************************************************)

\* A graph that is mapped into one without cycles has none.
LEMMA CyclesMapped ==
  ASSUME NEW G, FiniteGraph(G), NEW H, FiniteGraph(H), NEW h \in [G.node -> H.node],
         \A e \in G.edge : <<h[e[1]], h[e[2]]>> \in H.edge, ~Cyclic(H)
  PROVE  ~Cyclic(G)
  <1> SUFFICES ASSUME NEW v \in G.node, v \in After(G, v) PROVE FALSE
    BY DEF Cyclic
  <1>1. PICK w, A, S : w = h[v] /\ A = After(H, w) /\ S = {x \in G.node : h[x] \in A}
    OBVIOUS
  <1>2. w \in H.node
    BY <1>1
  <1>3. Successors(H, w) \subseteq A /\ \A e \in H.edge : e[1] \in A => e[2] \in A
    BY <1>1, AfterLeast
  <1>4. G.edge \subseteq G.node \X G.node /\ H.edge \subseteq H.node \X H.node
    BY DEF FiniteGraph, IsDirectedGraph
  <1>5. Successors(G, v) \subseteq S
    <2> SUFFICES ASSUME NEW x \in Successors(G, v) PROVE x \in S
      OBVIOUS
    <2>1. x \in G.node /\ <<v, x>> \in G.edge
      BY DEF Successors
    <2>2. <<w, h[x]>> \in H.edge /\ h[x] \in H.node
      BY <1>1, <2>1
    <2>3. h[x] \in Successors(H, w)
      BY <2>2 DEF Successors
    <2>. QED
      BY <1>1, <1>3, <2>1, <2>3
  <1>6. \A e \in G.edge : e[1] \in S => e[2] \in S
    <2> SUFFICES ASSUME NEW e \in G.edge, e[1] \in S PROVE e[2] \in S
      OBVIOUS
    <2>1. e[2] \in G.node
      BY <1>4
    <2>2. PICK d : d = <<h[e[1]], h[e[2]]>>
      OBVIOUS
    <2>3. d \in H.edge /\ d[1] = h[e[1]] /\ d[2] = h[e[2]]
      BY <2>2
    <2>4. d[1] \in A
      BY <1>1, <2>3
    <2>5. d[2] \in A
      BY <1>3, <2>3, <2>4
    <2>. QED
      BY <1>1, <2>1, <2>3, <2>5
  <1>7. After(G, v) \subseteq S
    BY <1>5, <1>6, AfterLeast
  <1>8. w \in A
    BY <1>1, <1>7
  <1>. QED
    BY <1>1, <1>2, <1>8 DEF Cyclic

\* A function has finitely many messages.
LEMMA IosFinite ==
  ASSUME NEW ios, IsSeq(ios)
  PROVE  IsFiniteSet(Ios(ios))
  <1>1. PICK n, f : n = Len(ios) /\ f = [i \in 1..n |-> ios[i].message]
    OBVIOUS
  <1>2. n \in Nat /\ DOMAIN ios = 1..n
    BY <1>1, SeqFacts
  <1>3. f \in Surjection(1..n, Ios(ios))
    BY <1>1, <1>2 DEF Surjection, Ios
  <1>4. IsFiniteSet(1..n)
    BY <1>2, FS_Interval
  <1>. QED
    BY <1>3, <1>4, FS_Surjection

\* The vertices and edges of one function.
LEMMA VerticesFinite ==
  ASSUME NEW f, IsFunction(f), NEW i
  PROVE  IsFiniteSet(Vertices(f, i)) /\ Edges(f, i) \subseteq Vertices(f, i) \X Vertices(f, i)
  <1>1. PICK M, T, g : /\ M = Ios(f.inputs) \union Ios(f.outputs) /\ T = {<<"message", x>> : x \in M}
                    /\ g = [x \in M |-> <<"message", x>>]
    OBVIOUS
  <1>2. IsFiniteSet(M)
    <2>1. IsSeq(f.inputs) /\ IsSeq(f.outputs)
      BY DEF IsFunction, IsIOputs
    <2>. QED
      BY <1>1, <2>1, IosFinite, FS_Union
  <1>3. g \in Surjection(M, T)
    BY <1>1 DEF Surjection
  <1>4. IsFiniteSet(T)
    BY <1>2, <1>3, FS_Surjection
  <1>5. PICK a, b, c : a = <<"function", i>> /\ b = <<"state", f.current>> /\ c = <<"state", f.next>>
    OBVIOUS
  <1>6. IsFiniteSet({a, b, c})
    <2>1. IsFiniteSet({a}) /\ IsFiniteSet({b}) /\ IsFiniteSet({c})
      BY FS_Singleton
    <2>2. IsFiniteSet({a} \union {b})
      BY <2>1, FS_Union
    <2>3. IsFiniteSet(({a} \union {b}) \union {c})
      BY <2>1, <2>2, FS_Union
    <2>4. ({a} \union {b}) \union {c} = {a, b, c}
      OBVIOUS
    <2>. QED
      BY <2>3, <2>4
  <1>7. Vertices(f, i) = {a, b, c} \union T
    BY <1>1, <1>5 DEF Vertices
  <1>8. IsFiniteSet({a, b, c} \union T)
    BY <1>4, <1>6, FS_Union
  <1>9. Edges(f, i) \subseteq Vertices(f, i) \X Vertices(f, i)
    BY DEF Edges, Vertices
  <1>. QED
    BY <1>7, <1>8, <1>9

\* The graph of finitely many functions.
LEMMA DigraphFinite ==
  ASSUME NEW fs, IsFunctions(fs)
  PROVE  FiniteGraph(Digraph(fs))
  <1>1. PICK n, V, E, D, W : /\ n = Len(fs) /\ V = UNION {Vertices(fs[i], i) : i \in 1..n}
                        /\ E = UNION {Edges(fs[i], i) : i \in 1..n} /\ D = Digraph(fs)
                        /\ W = {Vertices(fs[i], i) : i \in 1..n}
    OBVIOUS
  <1>2. IsSeq(fs) /\ DOMAIN fs = 1..n
    BY <1>1, SeqFacts DEF IsFunctions
  <1>3. n \in Nat
    BY <1>1, <1>2, SeqFacts
  <1>4. D = [node |-> V, edge |-> E] /\ V = UNION W
    BY <1>1, <1>2 DEF Digraph
  <1>5. \A i \in 1..n : IsFiniteSet(Vertices(fs[i], i)) /\ Edges(fs[i], i) \subseteq Vertices(fs[i], i) \X Vertices(fs[i], i)
    BY <1>1, VerticesFinite DEF IsFunctions
  <1>6. IsFiniteSet(W)
    <2>1. PICK g : g = [i \in 1..n |-> Vertices(fs[i], i)]
      OBVIOUS
    <2>2. g \in Surjection(1..n, W)
      BY <1>1, <2>1 DEF Surjection
    <2>3. IsFiniteSet(1..n)
      BY <1>3, FS_Interval
    <2>. QED
      BY <2>2, <2>3, FS_Surjection
  <1>7. \A w \in W : IsFiniteSet(w)
    BY <1>1, <1>5
  <1>8. IsFiniteSet(V)
    BY <1>4, <1>6, <1>7, FS_UNION
  <1>9. E \subseteq V \X V
    <2> SUFFICES ASSUME NEW e \in E PROVE e \in V \X V
      OBVIOUS
    <2>1. PICK i \in 1..n : e \in Edges(fs[i], i)
      BY <1>1
    <2>2. e \in Vertices(fs[i], i) \X Vertices(fs[i], i)
      BY <1>5, <2>1
    <2>3. Vertices(fs[i], i) \subseteq V
      BY <1>1
    <2>. QED
      BY <2>2, <2>3
  <1>. QED
    BY <1>1, <1>4, <1>8, <1>9 DEF FiniteGraph, IsDirectedGraph

\* v is a vertex of a graph whose first L functions are new.
Shifted(L, v) == IF v[1] = "function" THEN <<"function", L + v[2]>> ELSE v

\* What a function adds to the graph is shifted with it.
LEMMA ShiftedParts ==
  ASSUME NEW f, NEW L, NEW i
  PROVE  /\ \A v \in Vertices(f, i) : Shifted(L, v) \in Vertices(f, L + i)
         /\ \A e \in Edges(f, i) : <<Shifted(L, e[1]), Shifted(L, e[2])>> \in Edges(f, L + i)
  <1>1. Shifted(L, <<"function", i>>) = <<"function", L + i>>
    BY DEF Shifted
  <1>2. \A x : Shifted(L, <<"state", x>>) = <<"state", x>> /\ Shifted(L, <<"message", x>>) = <<"message", x>>
    BY DEF Shifted
  <1>3. ASSUME NEW v \in Vertices(f, i)
        PROVE  Shifted(L, v) \in Vertices(f, L + i)
    BY <1>1, <1>2 DEF Vertices
  <1>4. ASSUME NEW e \in Edges(f, i)
        PROVE  <<Shifted(L, e[1]), Shifted(L, e[2])>> \in Edges(f, L + i)
    <2>1. CASE e = <<<<"state", f.current>>, <<"function", i>>>>
      BY <1>1, <1>2, <2>1 DEF Edges
    <2>2. CASE e = <<<<"function", i>>, <<"state", f.next>>>>
      BY <1>1, <1>2, <2>2 DEF Edges
    <2>3. ASSUME NEW x \in Ios(f.outputs), e = <<<<"function", i>>, <<"message", x>>>>
          PROVE  <<Shifted(L, e[1]), Shifted(L, e[2])>> \in Edges(f, L + i)
      BY <1>1, <1>2, <2>3 DEF Edges
    <2>4. ASSUME NEW x \in Ios(f.inputs), e = <<<<"message", x>>, <<"function", i>>>>
          PROVE  <<Shifted(L, e[1]), Shifted(L, e[2])>> \in Edges(f, L + i)
      BY <1>1, <1>2, <2>4 DEF Edges
    <2>. QED
      BY <2>1, <2>2, <2>3, <2>4 DEF Edges
  <1>. QED
    BY <1>3, <1>4

\* A graph that grew by functions is right only if these are right by themselves.
LEMMA GraphSuffix ==
  ASSUME NEW gr, IsFunctions(gr), NEW fs, IsFunctions(fs), GraphOK(gr \o fs)
  PROVE  GraphOK(fs)
  <1>1. PICK t, L, n, G, H : t = gr \o fs /\ L = Len(gr) /\ n = Len(fs) /\ G = Digraph(fs) /\ H = Digraph(t)
    OBVIOUS
  <1>2. IsSeq(gr) /\ IsSeq(fs)
    BY DEF IsFunctions
  <1>3. L \in Nat /\ n \in Nat
    BY <1>1, <1>2, SeqFacts
  <1>4. Joined(gr, fs, t)
    BY <1>1, <1>2, ConcatJoins
  <1>5. IsFunctions(t)
    BY <1>4, PartsJoined
  <1>6. IsSeq(t) /\ Len(t) = L + n /\ \A i \in 1..n : t[L + i] = fs[i]
    BY <1>1, <1>4 DEF Joined
  <1>7. DOMAIN t = 1..(L + n) /\ DOMAIN fs = 1..n
    BY <1>1, <1>2, <1>6, SeqFacts
  <1>8. \A i \in 1..n : L + i \in 1..(L + n)
    BY <1>3
  <1>9. FiniteGraph(G) /\ FiniteGraph(H)
    BY <1>1, <1>5, DigraphFinite
  <1>10. /\ G.node = UNION {Vertices(fs[i], i) : i \in 1..n} /\ G.edge = UNION {Edges(fs[i], i) : i \in 1..n}
         /\ H.node = UNION {Vertices(t[i], i) : i \in 1..(L + n)} /\ H.edge = UNION {Edges(t[i], i) : i \in 1..(L + n)}
    BY <1>1, <1>7 DEF Digraph
  <1>11. ~Cyclic(G)
    <2>1. PICK h : h = [v \in G.node |-> Shifted(L, v)]
      OBVIOUS
    <2>2. h \in [G.node -> H.node]
      <3> SUFFICES ASSUME NEW v \in G.node PROVE Shifted(L, v) \in H.node
        BY <2>1
      <3>1. PICK i \in 1..n : v \in Vertices(fs[i], i)
        BY <1>10
      <3>2. Shifted(L, v) \in Vertices(t[L + i], L + i)
        BY <1>6, <3>1, ShiftedParts
      <3>. QED
        BY <1>8, <1>10, <3>2
    <2>3. \A e \in G.edge : <<h[e[1]], h[e[2]]>> \in H.edge
      <3> SUFFICES ASSUME NEW e \in G.edge PROVE <<h[e[1]], h[e[2]]>> \in H.edge
        OBVIOUS
      <3>1. PICK i \in 1..n : e \in Edges(fs[i], i)
        BY <1>10
      <3>2. <<Shifted(L, e[1]), Shifted(L, e[2])>> \in Edges(t[L + i], L + i)
        BY <1>6, <3>1, ShiftedParts
      <3>3. <<Shifted(L, e[1]), Shifted(L, e[2])>> \in H.edge
        BY <1>8, <1>10, <3>2
      <3>4. e[1] \in G.node /\ e[2] \in G.node
        BY <1>9 DEF FiniteGraph, IsDirectedGraph
      <3>. QED
        BY <2>1, <3>3, <3>4
    <2>4. ~Cyclic(H)
      BY <1>1 DEF GraphOK
    <2>. QED
      BY <1>9, <2>2, <2>3, <2>4, CyclesMapped
  <1>12. ASSUME NEW i \in 1..n, fs[i].current \in Branching(fs)
         PROVE  fs[i].condition # <<>>
    <2>1. PICK s, I, J : s = fs[i].current /\ I = {j \in 1..n : fs[j].current = s} /\ J = {j \in 1..(L + n) : t[j].current = s}
      OBVIOUS
    <2>2. IsFiniteSet(1..(L + n)) /\ IsFiniteSet(1..n)
      BY <1>3, FS_Interval
    <2>3. IsFiniteSet(J)
      BY <2>1, <2>2, FS_Subset
    <2>4. PICK h : h = [j \in I |-> L + j]
      OBVIOUS
    <2>5. h \in Injection(I, J)
      <3>1. \A j \in I : L + j \in J
        BY <1>6, <1>8, <2>1
      <3>2. \A j, k \in I : L + j = L + k => j = k
        BY <1>3, <2>1
      <3>. QED
        BY <2>4, <3>1, <3>2 DEF Injection, IsInjective
    <2>6. Cardinality(I) <= Cardinality(J)
      BY <2>3, <2>5, FS_Injection
    <2>7. IsFiniteSet(I)
      BY <2>1, <2>2, FS_Subset
    <2>8. Cardinality(I) \in Nat /\ Cardinality(J) \in Nat
      BY <2>3, <2>7, FS_CardinalityType
    <2>9. Cardinality(I) > 1
      BY <1>7, <1>12, <2>1 DEF Branching
    <2>10. Cardinality(J) > 1
      BY <2>6, <2>8, <2>9
    <2>11. PICK k : k = L + i
      OBVIOUS
    <2>12. k \in 1..(L + n) /\ t[k] = fs[i]
      BY <1>6, <1>8, <2>11
    <2>13. t[k].current = s
      BY <2>1, <2>12
    <2>14. t[k].current \in Branching(t)
      BY <1>7, <2>1, <2>10, <2>12, <2>13 DEF Branching
    <2>15. t[k].condition # <<>>
      BY <1>1, <1>7, <2>12, <2>14 DEF GraphOK
    <2>. QED
      BY <2>12, <2>15
  <1>. QED
    BY <1>1, <1>7, <1>11, <1>12 DEF GraphOK

\* Processed functions make the same graph.
LEMMA SameGraph ==
  ASSUME NEW fs, IsFunctions(fs), NEW gs, SameFunctions(fs, gs)
  PROVE  (SingleStart(gs) <=> SingleStart(fs)) /\ Branching(gs) = Branching(fs) /\ (GraphOK(gs) <=> GraphOK(fs))
  <1>1. PICK n : n = Len(fs)
    OBVIOUS
  <1>2. IsFunctions(gs) /\ Len(gs) = n /\ \A i \in 1..n : SameFunction(fs[i], gs[i])
    BY <1>1 DEF SameFunctions
  <1>3. DOMAIN fs = 1..n /\ DOMAIN gs = 1..n
    BY <1>1, <1>2, SeqFacts DEF IsFunctions
  <1>4. \A i \in 1..n : gs[i].current = fs[i].current /\ gs[i].next = fs[i].next /\ (gs[i].condition = <<>> <=> fs[i].condition = <<>>)
    BY <1>2 DEF SameFunction
  <1>5. \A i \in 1..n : Vertices(gs[i], i) = Vertices(fs[i], i) /\ Edges(gs[i], i) = Edges(fs[i], i)
    <2> SUFFICES ASSUME NEW i \in 1..n
                 PROVE  Vertices(gs[i], i) = Vertices(fs[i], i) /\ Edges(gs[i], i) = Edges(fs[i], i)
      OBVIOUS
    <2>1. PICK f, g : f = fs[i] /\ g = gs[i]
      OBVIOUS
    <2>2. g.current = f.current /\ g.next = f.next /\ Ios(g.inputs) = Ios(f.inputs) /\ Ios(g.outputs) = Ios(f.outputs)
      BY <1>2, <2>1 DEF SameFunction
    <2>3. Vertices(g, i) = Vertices(f, i) /\ Edges(g, i) = Edges(f, i)
      BY <2>2 DEF Vertices, Edges
    <2>. QED
      BY <2>1, <2>3
  <1>6. Digraph(gs) = Digraph(fs)
    <2>1. {Vertices(gs[i], i) : i \in 1..n} = {Vertices(fs[i], i) : i \in 1..n}
      BY <1>5
    <2>2. {Edges(gs[i], i) : i \in 1..n} = {Edges(fs[i], i) : i \in 1..n}
      BY <1>5
    <2>. QED
      BY <1>3, <2>1, <2>2 DEF Digraph
  <1>7. /\ {gs[i].current : i \in 1..n} = {fs[i].current : i \in 1..n}
        /\ {gs[i].next : i \in 1..n} = {fs[i].next : i \in 1..n}
        /\ \A s : {i \in 1..n : gs[i].current = s} = {i \in 1..n : fs[i].current = s}
    BY <1>4
  <1>8. SingleStart(gs) <=> SingleStart(fs)
    BY <1>3, <1>7 DEF SingleStart
  <1>9. Branching(gs) = Branching(fs)
    BY <1>3, <1>7 DEF Branching
  <1>10. GraphOK(gs) <=> GraphOK(fs)
    BY <1>3, <1>4, <1>6, <1>9 DEF GraphOK
  <1>. QED
    BY <1>8, <1>9, <1>10

-----------------------------------------------------------------------------
(***************************************************************************)
(* What a validated model is like.                                         *)
(***************************************************************************)

\* The part of WellFormed that is about one agent, M being the messages.
WellAgent(a, M) ==
  /\ Distinct(a.variables) /\ SingleStart(a.functions) /\ GraphOK(a.functions)
  /\ \A j \in 1..Len(a.functions) : Ios(a.functions[j].inputs) \union Ios(a.functions[j].outputs) \subseteq M

\* WellFormed by places.
LEMMA WellParts ==
  ASSUME NEW m, Shape(m)
  PROVE  WellFormed(m) <=> /\ \A i \in 1..Len(m.agents) : WellAgent(m.agents[i], Named(m.messages))
                           /\ Distinct(m.messages)
  <1>1. PICK ags, M : ags = m.agents /\ M = Named(m.messages)
    OBVIOUS
  <1>2. IsSeq(ags) /\ \A i \in 1..Len(ags) : IsAgent(ags[i])
    BY <1>1 DEF Shape, IsAgents
  <1>3. Range(ags) = {ags[i] : i \in 1..Len(ags)}
    BY <1>2, SeqFacts
  <1>4. ASSUME NEW a, IsAgent(a)
        PROVE  WellAgent(a, M) <=> /\ Distinct(a.variables)
                                   /\ SingleStart(a.functions) /\ GraphOK(a.functions)
                                   /\ \A f \in Range(a.functions) : Ios(f.inputs) \union Ios(f.outputs) \subseteq M
    <2>1. PICK fs : fs = a.functions
      OBVIOUS
    <2>2. Range(fs) = {fs[i] : i \in 1..Len(fs)}
      BY <1>4, <2>1, SeqFacts DEF IsAgent, IsFunctions
    <2>3. (\A f \in Range(fs) : Ios(f.inputs) \union Ios(f.outputs) \subseteq M)
            <=> \A j \in 1..Len(fs) : Ios(fs[j].inputs) \union Ios(fs[j].outputs) \subseteq M
      BY <2>2
    <2>. QED
      BY <2>1, <2>3 DEF WellAgent
  <1>5. WellFormed(m) <=> (\A a \in Range(ags) : WellAgent(a, M)) /\ Distinct(m.messages)
    <2>1. \A a \in Range(ags) : IsAgent(a)
      BY <1>2, <1>3
    <2>. QED
      BY <1>1, <1>4, <2>1 DEF WellFormed
  <1>. QED
    BY <1>1, <1>3, <1>5

\* Lists with the same names.
LEMMA SameNames ==
  ASSUME NEW s, IsSeq(s), NEW t, IsSeq(t), Len(t) = Len(s), \A i \in 1..Len(s) : t[i].name = s[i].name
  PROVE  Named(t) = Named(s) /\ (Distinct(t) <=> Distinct(s))
  <1>1. DOMAIN s = 1..Len(s) /\ DOMAIN t = 1..Len(s)
    BY SeqFacts
  <1>. QED
    BY <1>1 DEF Named, Distinct

\* An agent that was right is right when it has been processed again.
LEMMA WellAgentStays ==
  ASSUME NEW a, IsAgent(a), NEW b, SameAgent(a, b), NEW M, WellAgent(a, M)
  PROVE  WellAgent(b, M)
  <1>1. SameVariables(a.variables, b.variables) /\ SameFunctions(a.functions, b.functions) /\ IsAgent(b)
    BY DEF SameAgent
  <1>2. IsVariables(a.variables) /\ IsFunctions(a.functions) /\ IsSeq(a.variables) /\ IsSeq(b.variables)
    BY <1>1 DEF IsAgent, IsVariables
  <1>3. Distinct(b.variables)
    BY <1>1, <1>2, SameNames DEF SameVariables, WellAgent
  <1>4. SingleStart(b.functions) /\ GraphOK(b.functions)
    BY <1>1, <1>2, SameGraph DEF WellAgent
  <1>5. \A j \in 1..Len(b.functions) : Ios(b.functions[j].inputs) \union Ios(b.functions[j].outputs) \subseteq M
    BY <1>1 DEF SameFunctions, SameFunction, WellAgent
  <1>. QED
    BY <1>3, <1>4, <1>5 DEF WellAgent

\* A model that was validated stays well formed when it is validated again.
LEMMA WellFormedStays ==
  ASSUME NEW m, Shape(m), NEW n, SameModel(m, n), WellFormed(m)
  PROVE  WellFormed(n)
  <1>1. PICK M : M = Named(m.messages)
    OBVIOUS
  <1>2. Shape(n) /\ Len(n.agents) = Len(m.agents) /\ \A i \in 1..Len(m.agents) : SameAgent(m.agents[i], n.agents[i])
    BY DEF SameModel
  <1>3. IsSeq(m.messages) /\ IsSeq(n.messages)
    BY <1>2 DEF Shape, IsMessages
  <1>4. Named(n.messages) = M /\ (Distinct(n.messages) <=> Distinct(m.messages))
    BY <1>1, <1>3, SameNames DEF SameModel
  <1>5. (\A i \in 1..Len(m.agents) : WellAgent(m.agents[i], M)) /\ Distinct(m.messages)
    BY <1>1, WellParts
  <1>6. \A i \in 1..Len(m.agents) : IsAgent(m.agents[i])
    BY DEF Shape, IsAgents
  <1>7. \A i \in 1..Len(n.agents) : WellAgent(n.agents[i], M)
    BY <1>2, <1>5, <1>6, WellAgentStays
  <1>. QED
    BY <1>2, <1>4, <1>5, <1>7, WellParts

\* A message that a function uses exists.
LEMMA MessagesDefined ==
  ASSUME NEW n, IsSeq(n.messages), NEW ios, IsSeq(ios), NEW a, IOputsOK(ios, a, n)
  PROVE  Ios(ios) \subseteq Named(n.messages)
  <1> SUFFICES ASSUME NEW i \in DOMAIN ios
               PROVE  ios[i].message \in Named(n.messages)
    BY DEF Ios
  <1>1. PICK name, k : name = ios[i].message /\ k = MessageAt(n, name)
    OBVIOUS
  <1>2. k # 0
    BY <1>1 DEF IOputsOK, IOputOK, GetMessage
  <1>3. PICK I : I = {j \in 1..Len(n.messages) : n.messages[j].name = name}
    OBVIOUS
  <1>4. k = IF I # {} THEN Min(I) ELSE 0
    BY <1>1, <1>3 DEF MessageAt, SelectInSeq
  <1>5. PICK j \in 1..Len(n.messages) : n.messages[j].name = name
    BY <1>2, <1>3, <1>4
  <1>6. j \in DOMAIN n.messages
    BY SeqFacts
  <1>. QED
    BY <1>1, <1>5, <1>6 DEF Named

\* validateAgent() without an error.
LEMMA AgentValid ==
  ASSUME NEW n, IsSeq(n.messages), NEW a, IsAgent(a), AgentOK(n, a)
  PROVE  WellAgent(ProcessAgent(n, a), Named(n.messages))
  <1>1. PICK vs, b, c : vs = ProcessVariables(n, a.variables) /\ b = [a EXCEPT !.variables = vs] /\ c = ProcessAgent(n, a)
    OBVIOUS
  <1>2. SameAgent(a, c)
    BY <1>1, AgentProcessed
  <1>3. c.variables = vs
    <2>1. PICK fs, g : c = [b EXCEPT !.functions = fs, !.graph = g]
      BY <1>1 DEF ProcessAgent
    <2>2. a = [name |-> a.name, variables |-> a.variables, functions |-> a.functions, graph |-> a.graph]
      BY DEF IsAgent
    <2>3. b = [name |-> a.name, variables |-> vs, functions |-> a.functions, graph |-> a.graph]
      BY <1>1, <2>2
    <2>. QED
      BY <2>1, <2>3
  <1>4. Distinct(vs)
    BY <1>1 DEF AgentOK, ValidateVariablesOK
  <1>5. StateGraphOK(a.graph, c.functions)
    BY <1>1 DEF AgentOK
  <1>6. SingleStart(c.functions) /\ GraphOK(a.graph \o c.functions)
    BY <1>5 DEF StateGraphOK, StateGraph
  <1>7. IsFunctions(a.graph) /\ IsFunctions(c.functions) /\ IsFunctions(a.functions)
    BY <1>2 DEF IsAgent, SameAgent, SameFunctions
  <1>8. GraphOK(c.functions)
    BY <1>6, <1>7, GraphSuffix
  <1>9. ASSUME NEW j \in 1..Len(c.functions)
        PROVE  Ios(c.functions[j].inputs) \union Ios(c.functions[j].outputs) \subseteq Named(n.messages)
    <2>1. PICK f, g : f = a.functions[j] /\ g = c.functions[j]
      OBVIOUS
    <2>2. SameFunctions(a.functions, c.functions)
      BY <1>2 DEF SameAgent
    <2>3. j \in 1..Len(a.functions) /\ SameFunction(f, g)
      BY <2>1, <2>2 DEF SameFunctions
    <2>4. DOMAIN a.functions = 1..Len(a.functions)
      BY <1>7, SeqFacts DEF IsFunctions
    <2>5. FunctionOK(f, b, n)
      BY <1>1, <2>1, <2>3, <2>4 DEF AgentOK
    <2>6. IOputsOK(f.inputs, b, n) /\ IOputsOK(f.outputs, b, n)
      BY <2>5 DEF FunctionOK
    <2>7. IsFunction(f)
      BY <1>7, <2>1, <2>3 DEF IsFunctions
    <2>8. IsSeq(f.inputs) /\ IsSeq(f.outputs)
      BY <2>7 DEF IsFunction, IsIOputs
    <2>9. Ios(f.inputs) \subseteq Named(n.messages) /\ Ios(f.outputs) \subseteq Named(n.messages)
      BY <2>6, <2>8, MessagesDefined
    <2>10. Ios(g.inputs) = Ios(f.inputs) /\ Ios(g.outputs) = Ios(f.outputs)
      BY <2>3 DEF SameFunction
    <2>. QED
      BY <2>1, <2>9, <2>10
  <1>. QED
    BY <1>1, <1>3, <1>4, <1>6, <1>8, <1>9 DEF WellAgent

\* A model without errors is well formed once it has been rewritten.
LEMMA ValidWellFormed ==
  ASSUME NEW m, Shape(m)
  PROVE  Validated(m).ok => WellFormed(Validated(m).m)
  <1>1. PICK n, r, ags, cs, xs : /\ n = ValidateADTs(m).m /\ r = Validated(m).m /\ cs = ProcessVariables(n, m.constants)
                                 /\ ags = [i \in DOMAIN m.agents |-> ProcessAgent(n, m.agents[i])]
                                 /\ xs = [i \in DOMAIN m.messages |-> ProcessMessage(n, m.messages[i])]
    OBVIOUS
  <1>2. Shape(n) /\ SameRest(m, n) /\ r.agents = ags
    <2>1. Shape(n) /\ SameRest(m, n)
      BY <1>1, ValidatedParts
    <2>2. r.constants = cs /\ r.agents = ags /\ r.messages = xs
      BY <1>1, ValidatedParts
    <2>. QED
      BY <2>1, <2>2
  <1> HAVE Validated(m).ok
  <1>3. /\ \A i \in DOMAIN m.agents : AgentOK(n, m.agents[i])
        /\ \A i \in DOMAIN m.messages : MessageOK(n, m.messages[i])
    BY <1>1 DEF Validated
  <1>4. SameModel(m, r)
    BY <1>1, ModelProcessed
  <1>5. Shape(r) /\ Len(r.agents) = Len(m.agents)
    BY <1>4 DEF SameModel
  <1>6. n.messages = m.messages
    BY <1>2 DEF SameRest
  <1>7. IsSeq(m.agents) /\ IsSeq(m.messages) /\ IsSeq(r.messages) /\ \A i \in 1..Len(m.agents) : IsAgent(m.agents[i])
    BY <1>5 DEF Shape, IsAgents, IsMessages
  <1>8. DOMAIN m.agents = 1..Len(m.agents) /\ DOMAIN m.messages = 1..Len(m.messages)
    BY <1>7, SeqFacts
  <1>9. Named(r.messages) = Named(m.messages) /\ (Distinct(r.messages) <=> Distinct(m.messages))
    BY <1>4, <1>7, SameNames DEF SameModel
  <1>10. Distinct(m.messages)
    <2>1. CASE DOMAIN m.messages = {}
      BY <2>1 DEF Distinct
    <2>2. CASE DOMAIN m.messages # {}
      BY <1>3, <1>6, <2>2 DEF MessageOK
    <2>. QED
      BY <2>1, <2>2
  <1>11. ASSUME NEW i \in 1..Len(r.agents)
         PROVE  WellAgent(r.agents[i], Named(r.messages))
    <2>1. PICK a : a = m.agents[i]
      OBVIOUS
    <2>2. i \in 1..Len(m.agents)
      BY <1>5
    <2>3. IsAgent(a) /\ AgentOK(n, a) /\ r.agents[i] = ProcessAgent(n, a)
      BY <1>1, <1>2, <1>3, <1>7, <1>8, <2>1, <2>2
    <2>4. IsSeq(n.messages)
      BY <1>6, <1>7
    <2>5. WellAgent(ProcessAgent(n, a), Named(n.messages))
      BY <2>3, <2>4, AgentValid
    <2>. QED
      BY <1>6, <1>9, <2>3, <2>5
  <1>12. WellFormed(r)
    BY <1>5, <1>9, <1>10, <1>11, WellParts
  <1>. QED
    BY <1>1, <1>12

\* Before there is a model object nothing has been validated.
NotBefore == object = "none" => ~validated

ValidInv == NotBefore /\ ValidatedWellFormed

\* Validation and the calls after it.
LEMMA ValidKeeps ==
  ASSUME ReaderInv, ValidInv, [Next]_vars
  PROVE  ValidInv'
  <1>1. Shape(xmodel)
    BY DEF ReaderInv
  <1>2. CASE Read
    <2>1. reading = "reading" /\ UNCHANGED <<object, validated>>
      BY <1>2 DEF Read, ReaderNext, OpenFile, ReadContent, ReadIncludedModel, CloseFile, Unwind, Failed, AtElement, modelVars
    <2>2. object = "none"
      BY <2>1 DEF ReaderInv
    <2>. QED
      BY <2>1, <2>2 DEF ValidInv, NotBefore, ValidatedWellFormed
  <1>3. ASSUME RunValidation
        PROVE  (Validated(xmodel).ok \/ validated) => WellFormed(xmodel')
    <2>1. xmodel' = Validated(xmodel).m
      BY <1>3 DEF RunValidation
    <2>2. SameModel(xmodel, xmodel')
      BY <1>1, <2>1, ModelProcessed
    <2>3. validated => WellFormed(xmodel')
      BY <1>1, <2>2, WellFormedStays DEF ValidInv, ValidatedWellFormed
    <2>4. Validated(xmodel).ok => WellFormed(xmodel')
      BY <1>1, <2>1, ValidWellFormed
    <2>. QED
      BY <2>3, <2>4
  <1>4. CASE Construct
    <2>1. CASE reading = "failed"
      <3>1. object = "none" /\ object' = "failed" /\ UNCHANGED validated
        BY <1>4, <2>1 DEF Construct
      <3>. QED
        BY <3>1 DEF ValidInv, NotBefore, ValidatedWellFormed
    <2>2. CASE reading # "failed"
      <3>1. RunValidation /\ object' \in {"exists", "failed"} /\ validated' = Validated(xmodel).ok
        BY <1>4, <2>2 DEF Construct
      <3>. QED
        BY <1>3, <3>1 DEF ValidInv, NotBefore, ValidatedWellFormed
    <2>. QED
      BY <2>1, <2>2
  <1>5. CASE Validate
    <2>1. object = "exists" /\ RunValidation /\ UNCHANGED object /\ validated' = (validated \/ Validated(xmodel).ok)
      BY <1>5 DEF Validate
    <2>. QED
      BY <1>3, <2>1 DEF ValidInv, NotBefore, ValidatedWellFormed
  <1>6. CASE EditModel
    <2>1. ~validated'
      BY <1>6 DEF EditModel, ResetsValidated
    <2>. QED
      BY <2>1 DEF ValidInv, NotBefore, ValidatedWellFormed
  <1>7. CASE RegisterAgentFunction \/ RegisterMessageType \/ NewSimulation \/ Start \/ UNCHANGED vars
    <2>1. UNCHANGED <<xmodel, object, validated>>
      BY <1>7 DEF RegisterAgentFunction, RegisterMessageType, NewSimulation, Start, vars, modelVars, readerVars
    <2>. QED
      BY <2>1 DEF ValidInv, NotBefore, ValidatedWellFormed
  <1>. QED
    BY <1>2, <1>4, <1>5, <1>6, <1>7 DEF Next

\* isValidated() tells the truth: the model has distinct variables, machines with one
\* start, no cycle and a condition on every branch, and defined messages, whatever
\* calls were made after the validation.
THEOREM ValidatedWellFormedHolds == Spec => []ValidatedWellFormed
  <1>1. Init => ValidInv
    BY DEF Init, ValidInv, NotBefore, ValidatedWellFormed
  <1>2. ReaderInv /\ ValidInv /\ [Next]_vars => ValidInv'
    BY ValidKeeps
  <1>3. ValidInv => ValidatedWellFormed
    BY DEF ValidInv
  <1>. QED
    BY <1>1, <1>2, <1>3, ReaderInvariant, PTL DEF Spec

-----------------------------------------------------------------------------
(***************************************************************************)
(* Starting a simulation.                                                  *)
(***************************************************************************)

\* The functions in the graph of an agent are functions of the agent, by name.
Traced(a) ==
  \A j \in 1..Len(a.graph) : \E k \in 1..Len(a.functions) : a.functions[k].name = a.graph[j].name
AllTraced(m) == \A i \in 1..Len(m.agents) : Traced(m.agents[i])

\* What was validated last is at the end of the graph; when it is all there is, the graph
\* is that of the functions as they are.
Current(a) ==
  /\ Len(a.functions) <= Len(a.graph)
  /\ \A k \in 1..Len(a.functions) :
       a.graph[(Len(a.graph) - Len(a.functions)) + k].name = a.functions[k].name
  /\ Len(a.functions) = Len(a.graph) => a.graph = a.functions
AllCurrent(m) == \A i \in 1..Len(m.agents) : Current(m.agents[i])

\* The memory of every agent has been made.
InMemory(m, map) == \A i \in 1..Len(m.agents) : map[m.agents[i].name] = MemoryOf(m.agents[i])

GraphInv == AllTraced(xmodel) /\ (validated => AllCurrent(xmodel))

SimInv ==
  /\ sim # "none" => object = "exists"
  /\ sim = "ready" => validated /\ InMemory(xmodel, agentMap)
  /\ StartedSound

\* The agents of a model in which one was set or added.
LEMMA AgentsSet ==
  ASSUME NEW m, Shape(m)
  PROVE  /\ \A k, b : SetAgent(m, k, b).agents = [m.agents EXCEPT ![k] = b]
         /\ \A name : AddAgent(m, name).agents
                        = IF AgentAt(m, name) = 0 THEN Append(m.agents, NewAgent(name)) ELSE m.agents
  <1>1. m = [name |-> m.name, constants |-> m.constants, adts |-> m.adts, timeUnits |-> m.timeUnits,
             functionFiles |-> m.functionFiles, agents |-> m.agents, messages |-> m.messages,
             allowed |-> m.allowed, included |-> m.included]
    BY DEF Shape, IsModel
  <1>2. \A x : [m EXCEPT !.agents = x].agents = x
    BY <1>1
  <1>3. ASSUME NEW k, NEW b PROVE SetAgent(m, k, b).agents = [m.agents EXCEPT ![k] = b]
    <2>1. PICK bs : bs = [m.agents EXCEPT ![k] = b]
      OBVIOUS
    <2>2. SetAgent(m, k, b) = [m EXCEPT !.agents = bs]
      BY <2>1 DEF SetAgent
    <2>. QED
      BY <1>2, <2>1, <2>2
  <1>4. ASSUME NEW name
        PROVE  AddAgent(m, name).agents = IF AgentAt(m, name) = 0 THEN Append(m.agents, NewAgent(name)) ELSE m.agents
    <2>1. PICK cs : cs = IF AgentAt(m, name) = 0 THEN Append(m.agents, NewAgent(name)) ELSE m.agents
      OBVIOUS
    <2>2. AddAgent(m, name) = [m EXCEPT !.agents = cs]
      BY <2>1 DEF AddAgent
    <2>. QED
      BY <1>2, <2>1, <2>2
  <1>. QED
    BY <1>3, <1>4

\* An agent that keeps its graph and has no function less.
LEMMA TracedStays ==
  ASSUME NEW a, Traced(a), NEW b, Keeps(a, b), b.graph = a.graph
  PROVE  Traced(b)
  <1> SUFFICES ASSUME NEW j \in 1..Len(b.graph)
               PROVE  \E k \in 1..Len(b.functions) : b.functions[k].name = b.graph[j].name
    BY DEF Traced
  <1>1. PICK k \in 1..Len(a.functions) : a.functions[k].name = b.graph[j].name
    BY DEF Traced
  <1>. QED
    BY <1>1 DEF Keeps

\* An agent that is set or added.
LEMMA TracedSet ==
  ASSUME NEW m, Shape(m), AllTraced(m)
  PROVE  /\ \A name : AllTraced(AddAgent(m, name))
         /\ \A k, b : k \in 1..Len(m.agents) /\ Traced(b) => AllTraced(SetAgent(m, k, b))
  <1>1. PICK ags : ags = m.agents
    OBVIOUS
  <1>2. IsSeq(ags)
    BY <1>1 DEF Shape, IsAgents
  <1>3. Len(ags) \in Nat
    BY <1>2, SeqFacts
  <1>4. \A i \in 1..Len(ags) : Traced(ags[i])
    BY <1>1 DEF AllTraced
  <1>5. ASSUME NEW name PROVE AllTraced(AddAgent(m, name))
    <2>1. PICK x, bs : x = NewAgent(name) /\ bs = AddAgent(m, name).agents
      OBVIOUS
    <2>2. bs = ags \/ bs = Append(ags, x)
      BY <1>1, <2>1, AgentsSet
    <2>3. bs = ags \/ Pushed(ags, bs, x)
      BY <1>2, <2>2, AppendPushes
    <2>4. Traced(x)
      <3>1. x.graph = <<>> /\ Len(<<>>) = 0
        BY <2>1, ShortSeqs DEF NewAgent
      <3>2. 1..0 = {}
        OBVIOUS
      <3>. QED
        BY <3>1, <3>2 DEF Traced
    <2>5. \A i \in 1..Len(bs) : Traced(bs[i])
      <3>1. CASE bs = ags
        BY <1>4, <3>1
      <3>2. CASE Pushed(ags, bs, x)
        <4>1. Len(bs) = Len(ags) + 1 /\ bs[Len(ags) + 1] = x /\ \A i \in 1..Len(ags) : bs[i] = ags[i]
          BY <3>2 DEF Pushed
        <4>2. \A i \in 1..Len(bs) : i \in 1..Len(ags) \/ i = Len(ags) + 1
          BY <1>3, <4>1
        <4>. QED
          BY <1>4, <2>4, <4>1, <4>2
      <3>. QED
        BY <2>3, <3>1, <3>2
    <2>. QED
      BY <2>1, <2>5 DEF AllTraced
  <1>6. ASSUME NEW k \in 1..Len(m.agents), NEW b, Traced(b) PROVE AllTraced(SetAgent(m, k, b))
    <2>1. PICK bs : bs = SetAgent(m, k, b).agents
      OBVIOUS
    <2>2. bs = [ags EXCEPT ![k] = b] /\ k \in 1..Len(ags)
      BY <1>1, <2>1, AgentsSet
    <2>3. Replaced(ags, bs, k, b)
      BY <1>2, <2>2, ExceptReplaces
    <2>4. \A i \in 1..Len(bs) : Traced(bs[i])
      BY <1>4, <1>6, <2>3 DEF Replaced
    <2>. QED
      BY <2>1, <2>4 DEF AllTraced
  <1>. QED
    BY <1>5, <1>6

\* Reading leaves graphs alone.
LEMMA TracedRead ==
  ASSUME NEW m, Shape(m), AllTraced(m), NEW e, Ordered(e)
  PROVE  AllTraced(ReadElement(m, e))
  <1>1. PICK n : n = ReadElement(m, e)
    OBVIOUS
  <1>2. CASE e.tag = "xagent"
    <2>1. PICK l, i, a, b : l = AddAgent(m, e.name) /\ i = AgentAt(l, e.name) /\ a = l.agents[i] /\ b = AddToAgent(a, e)
      OBVIOUS
    <2>2. n = SetAgent(l, i, b)
      BY <1>1, <1>2, <2>1 DEF ReadElement, ReadAgent
    <2>3. Shape(l) /\ AllTraced(l) /\ i \in 1..Len(l.agents)
      BY <2>1, AgentAdded, TracedSet
    <2>4. IsAgent(a) /\ Traced(a)
      BY <2>1, <2>3 DEF Shape, IsAgents, AllTraced
    <2>5. PICK vs, fs : b = [a EXCEPT !.variables = vs, !.functions = fs]
      BY <2>1 DEF AddToAgent
    <2>6. b.graph = a.graph
      BY <2>4, <2>5 DEF IsAgent
    <2>7. Keeps(a, b)
      BY <1>2, <2>1, <2>4, AddToAgentAdds
    <2>8. Traced(b)
      BY <2>4, <2>6, <2>7, TracedStays
    <2>. QED
      BY <1>1, <2>2, <2>3, <2>8, TracedSet
  <1>3. ASSUME n.agents = m.agents PROVE AllTraced(n)
    BY <1>3 DEF AllTraced
  <1>4. CASE e.tag = "name"
    <2>1. PICK x : n = [m EXCEPT !.name = x]
      BY <1>1, <1>4 DEF ReadElement, SetName
    <2>. QED
      BY <1>1, <1>3, <2>1, FieldRead
  <1>5. CASE e.tag = "message"
    <2>1. PICK x : n = [m EXCEPT !.messages = x]
      BY <1>1, <1>5 DEF ReadElement, ReadMessage
    <2>. QED
      BY <1>1, <1>3, <2>1, FieldRead
  <1>6. CASE e.tag = "constant"
    <2>1. PICK x : n = [m EXCEPT !.constants = x]
      BY <1>1, <1>6 DEF ReadElement, ReadEnvironment
    <2>. QED
      BY <1>1, <1>3, <2>1, FieldRead
  <1>7. CASE e.tag = "dataType"
    <2>1. PICK x : n = [m EXCEPT !.adts = x]
      BY <1>1, <1>7 DEF ReadElement, ReadEnvironment, ReadDataType
    <2>. QED
      BY <1>1, <1>3, <2>1, FieldRead
  <1>8. CASE e.tag = "timeUnit"
    <2>1. PICK x : n = [m EXCEPT !.timeUnits = x]
      BY <1>1, <1>8 DEF ReadElement, ReadEnvironment, ReadTimeUnit, AddTimeUnit
    <2>. QED
      BY <1>1, <1>3, <2>1, FieldRead
  <1>9. CASE e.tag = "file"
    <2>1. PICK x : n = [m EXCEPT !.functionFiles = x]
      BY <1>1, <1>9 DEF ReadElement, ReadEnvironment, ReadFunctionFile
    <2>. QED
      BY <1>1, <1>3, <2>1, FieldRead
  <1>10. CASE e.tag \notin {"xagent", "name", "message", "constant", "dataType", "timeUnit", "file"}
    <2>1. n = m
      BY <1>1, <1>10 DEF ReadElement
    <2>. QED
      BY <1>1, <2>1
  <1>. QED
    BY <1>2, <1>4, <1>5, <1>6, <1>7, <1>8, <1>9, <1>10

\* Editing leaves graphs alone.
LEMMA TracedEdited ==
  ASSUME NEW m, Shape(m), AllTraced(m), NEW c, c.call \in EditCalls, ~EditThrows(m, c)
  PROVE  AllTraced(Edited(m, c))
  <1>1. PICK n, k, a, b : n = Edited(m, c) /\ k = AgentAt(m, c.agent) /\ a = m.agents[k] /\ b = EditAgent(a, c)
    OBVIOUS
  <1>2. CASE c.call = "addAgent"
    BY <1>2, TracedSet DEF Edited
  <1>3. CASE c.call \in {"addMessage", "addMessageVariable"}
    <2>1. n = [m EXCEPT !.messages = EditMessages(m, c)]
      BY <1>1, <1>3 DEF Edited
    <2>2. n.agents = m.agents
      BY <2>1, FieldRead
    <2>. QED
      BY <1>1, <2>2 DEF AllTraced
  <1>4. CASE c.call \in {"addAgentVariable", "addAgentFunction"} \union FunctionCalls
    <2>1. n = SetAgent(m, k, b)
      BY <1>1, <1>4 DEF Edited, FunctionCalls
    <2>2. k # 0 /\ (c.call \in FunctionCalls => FunctionAt(a, c) # 0)
      BY <1>1, <1>4 DEF EditThrows, FunctionCalls
    <2>3. IsAgents(m.agents) /\ IsSeq(m.agents)
      BY DEF Shape, IsAgents
    <2>4. Len(m.agents) \in Nat
      BY <2>3, SeqFacts
    <2>5. k \in 0..Len(m.agents)
      BY <1>1, <2>3, AgentAtFinds
    <2>6. k \in 1..Len(m.agents)
      BY <2>2, <2>4, <2>5
    <2>7. IsAgent(a) /\ Traced(a)
      BY <1>1, <2>3, <2>6 DEF IsAgents, AllTraced
    <2>8. \E x : b = [a EXCEPT !.variables = x] \/ b = [a EXCEPT !.functions = x]
      <3>1. CASE c.call = "addAgentVariable"
        BY <1>1, <3>1 DEF EditAgent
      <3>2. CASE c.call = "addAgentFunction"
        BY <1>1, <3>2 DEF EditAgent
      <3>3. CASE c.call \in FunctionCalls
        <4>1. PICK f, x : f = FunctionAt(a, c) /\ x = [a.functions EXCEPT ![f] = EditFunction(a.functions[f], c)]
          OBVIOUS
        <4>2. b = [a EXCEPT !.functions = x]
          BY <1>1, <3>3, <4>1 DEF EditAgent, FunctionCalls
        <4>. QED
          BY <4>2
      <3>. QED
        BY <1>4, <3>1, <3>2, <3>3
    <2>9. b.graph = a.graph
      BY <2>7, <2>8 DEF IsAgent
    <2>10. Keeps(a, b)
      BY <1>1, <1>4, <2>2, <2>7, AgentEdited
    <2>11. Traced(b)
      BY <2>7, <2>9, <2>10, TracedStays
    <2>. QED
      BY <1>1, <2>1, <2>6, <2>11, TracedSet
  <1>. QED
    BY <1>2, <1>3, <1>4 DEF EditCalls, FunctionCalls

\* A validation adds the functions to the graph, if they make one.
LEMMA ValidationAdds ==
  ASSUME NEW a, IsAgent(a), Traced(a), NEW b, SameAgent(a, b)
  PROVE  Traced(b) /\ (SingleStart(b.functions) => Current(b))
  <1>1. PICK gr, fs, t, L, n : gr = a.graph /\ fs = b.functions /\ t = b.graph /\ L = Len(gr) /\ n = Len(fs)
    OBVIOUS
  <1>2. /\ IsSeq(gr) /\ IsSeq(fs) /\ L \in Nat /\ n \in Nat /\ t = StateGraph(gr, fs)
        /\ Len(a.functions) = n /\ \A k \in 1..n : fs[k].name = a.functions[k].name
    <2>1. IsSeq(gr) /\ IsSeq(fs)
      BY <1>1 DEF SameAgent, IsAgent, IsFunctions
    <2>2. SameFunctions(a.functions, fs) /\ t = StateGraph(gr, fs)
      BY <1>1 DEF SameAgent
    <2>3. n = Len(a.functions) /\ \A k \in 1..n : fs[k].name = a.functions[k].name
      BY <1>1, <2>2 DEF SameFunctions, SameFunction
    <2>. QED
      BY <1>1, <2>1, <2>2, <2>3, SeqFacts
  <1>3. \A j \in 1..L : \E k \in 1..n : fs[k].name = gr[j].name
    BY <1>1, <1>2 DEF Traced
  <1>4. CASE ~SingleStart(fs)
    <2>1. t = gr
      BY <1>2, <1>4 DEF StateGraph
    <2>2. Len(t) = L /\ b.graph = t /\ b.functions = fs
      BY <1>1, <2>1
    <2>3. \A j \in 1..Len(t) : \E k \in 1..n : fs[k].name = t[j].name
      BY <1>3, <2>1, <2>2
    <2>4. Traced(b)
      BY <1>1, <2>2, <2>3 DEF Traced
    <2>. QED
      BY <1>1, <1>4, <2>4
  <1>5. CASE SingleStart(fs)
    <2>1. t = gr \o fs
      BY <1>2, <1>5 DEF StateGraph
    <2>2. Joined(gr, fs, t)
      BY <1>2, <2>1, ConcatJoins
    <2>3. /\ Len(t) = L + n /\ \A j \in 1..L : t[j] = gr[j]
          /\ \A k \in 1..n : t[L + k] = fs[k]
          /\ \A j \in 1..Len(t) : j \in 1..L \/ (j - L \in 1..n /\ t[j] = fs[j - L])
      BY <1>1, <2>2 DEF Joined
    <2>4. Traced(b)
      <3> SUFFICES ASSUME NEW j \in 1..Len(t) PROVE \E k \in 1..n : fs[k].name = t[j].name
        BY <1>1 DEF Traced
      <3>1. CASE j \in 1..L
        BY <1>3, <2>3, <3>1
      <3>2. CASE j - L \in 1..n /\ t[j] = fs[j - L]
        BY <3>2
      <3>. QED
        BY <2>3, <3>1, <3>2
    <2>5. Current(b)
      <3>1. n <= L + n /\ (L + n) - n = L /\ (n = L + n => L = 0)
        BY <1>2
      <3>2. L = 0 => t = fs
        <4> SUFFICES ASSUME L = 0 PROVE t = fs
          OBVIOUS
        <4>1. DOMAIN t = 1..Len(t) /\ t = [j \in 1..Len(t) |-> t[j]] /\ fs = [j \in 1..n |-> fs[j]]
          BY <1>1, <1>2, <2>2, SeqFacts DEF Joined
        <4>2. Len(t) = n /\ \A k \in 1..n : t[k] = fs[k]
          BY <1>2, <2>3
        <4>. QED
          BY <4>1, <4>2
      <3>3. n <= Len(t) /\ (\A k \in 1..n : t[(Len(t) - n) + k].name = fs[k].name) /\ (n = Len(t) => t = fs)
        BY <2>3, <3>1, <3>2
      <3>. QED
        BY <1>1, <3>3 DEF Current
    <2>. QED
      BY <2>4, <2>5
  <1>. QED
    BY <1>4, <1>5

\* Graphs grow by validation only, by all functions of the agent.
LEMMA GraphKeeps ==
  ASSUME ReaderInv, ValidInv, ValidInv', GraphInv, [Next]_vars
  PROVE  GraphInv'
  <1>1. Shape(xmodel) /\ AllTraced(xmodel)
    BY DEF ReaderInv, GraphInv
  <1>2. CASE Read
    <2>1. reading = "reading" /\ UNCHANGED <<object, validated>>
      BY <1>2 DEF Read, ReaderNext, OpenFile, ReadContent, ReadIncludedModel, CloseFile, Unwind, Failed, AtElement, modelVars
    <2>2. ~validated'
      BY <2>1 DEF ReaderInv, ValidInv, NotBefore
    <2>3. \/ xmodel' = xmodel \/ (AtElement /\ xmodel' = ReadElement(xmodel, Element))
          \/ xmodel' = [xmodel EXCEPT !.included = Append(@, PathOf(Top.path, Element.file))]
      BY <1>2 DEF Read, ReaderNext, OpenFile, ReadContent, ReadIncludedModel, CloseFile, Unwind, Failed
    <2>4. CASE AtElement /\ xmodel' = ReadElement(xmodel, Element)
      <3>1. Ordered(Element)
        BY <2>4, ElementOrdered
      <3>2. AllTraced(xmodel')
        BY <1>1, <2>4, <3>1, TracedRead
      <3>. QED
        BY <2>2, <3>2 DEF GraphInv
    <2>5. CASE xmodel' = [xmodel EXCEPT !.included = Append(@, PathOf(Top.path, Element.file))]
      <3>1. PICK x : xmodel' = [xmodel EXCEPT !.included = x]
        BY <2>5
      <3>2. xmodel'.agents = xmodel.agents
        BY <1>1, <3>1 DEF Shape, IsModel
      <3>. QED
        BY <1>1, <2>2, <3>2 DEF GraphInv, AllTraced
    <2>6. CASE xmodel' = xmodel
      BY <1>1, <2>2, <2>6 DEF GraphInv
    <2>. QED
      BY <2>3, <2>4, <2>5, <2>6
  <1>3. ASSUME RunValidation
        PROVE  GraphInv'
    <2>1. xmodel' = Validated(xmodel).m
      BY <1>3 DEF RunValidation
    <2>2. PICK m, n : m = xmodel /\ n = xmodel'
      OBVIOUS
    <2>3. SameModel(m, n) /\ Shape(m) /\ AllTraced(m)
      BY <1>1, <2>1, <2>2, ModelProcessed
    <2>4. \A i \in 1..Len(n.agents) : /\ i \in 1..Len(m.agents) /\ IsAgent(m.agents[i])
                                      /\ SameAgent(m.agents[i], n.agents[i]) /\ Traced(m.agents[i])
      BY <2>3 DEF SameModel, Shape, IsAgents, AllTraced
    <2>5. \A i \in 1..Len(n.agents) : Traced(n.agents[i]) /\ (SingleStart(n.agents[i].functions) => Current(n.agents[i]))
      BY <2>4, ValidationAdds
    <2>6. ASSUME validated' PROVE \A i \in 1..Len(n.agents) : SingleStart(n.agents[i].functions)
      <3>1. WellFormed(n) /\ Shape(n)
        BY <2>2, <2>3, <2>6 DEF ValidInv, ValidatedWellFormed, SameModel
      <3>. QED
        BY <3>1, WellParts DEF WellAgent
    <2>. QED
      BY <2>2, <2>5, <2>6 DEF GraphInv, AllTraced, AllCurrent
  <1>4. CASE Construct
    <2>1. CASE reading = "failed"
      <3>1. UNCHANGED <<xmodel, validated>>
        BY <1>4, <2>1 DEF Construct, readerVars
      <3>. QED
        BY <3>1 DEF GraphInv
    <2>2. CASE reading # "failed"
      BY <1>3, <1>4, <2>2 DEF Construct
    <2>. QED
      BY <2>1, <2>2
  <1>5. CASE Validate
    BY <1>3, <1>5 DEF Validate
  <1>6. CASE EditModel
    <2>1. ~validated'
      BY <1>6 DEF EditModel, ResetsValidated
    <2>2. PICK c \in Edits : ~EditThrows(xmodel, c) /\ xmodel' = Edited(xmodel, c)
      BY <1>6 DEF EditModel
    <2>3. AllTraced(xmodel')
      BY <1>1, <2>2, TracedEdited, EditsAssumption
    <2>. QED
      BY <2>1, <2>3 DEF GraphInv
  <1>7. CASE RegisterAgentFunction \/ RegisterMessageType \/ NewSimulation \/ Start \/ UNCHANGED vars
    <2>1. UNCHANGED <<xmodel, validated>>
      BY <1>7 DEF RegisterAgentFunction, RegisterMessageType, NewSimulation, Start, vars, modelVars, readerVars
    <2>. QED
      BY <2>1 DEF GraphInv
  <1>. QED
    BY <1>2, <1>4, <1>5, <1>6, <1>7 DEF Next

\* XModel::registerWithMemoryManager() that does not throw makes the memory of every agent.
LEMMA MemoryMade ==
  ASSUME Shape(xmodel), \A i \in DOMAIN xmodel.agents : ~RegisterThrows(agentMap, i)
  PROVE  InMemory(xmodel, RegisterAgents(agentMap))
  <1>1. PICK ags, map, n : ags = xmodel.agents /\ map = agentMap /\ n = Len(ags)
    OBVIOUS
  <1>2. IsSeq(ags)
    BY <1>1 DEF Shape, IsAgents
  <1>3. n \in Nat /\ DOMAIN ags = 1..n
    BY <1>1, <1>2, SeqFacts
  <1>4. \A i \in 1..n : ags[i].name \notin DOMAIN map /\ \A j \in 1..(i - 1) : ags[i].name # ags[j].name
    BY <1>1, <1>3 DEF RegisterThrows, NameTaken
  <1>5. \A i, j \in 1..n : ags[i].name = ags[j].name => i = j
    <2>1. \A i, j \in 1..n : i = j \/ i \in 1..(j - 1) \/ j \in 1..(i - 1)
      BY <1>3
    <2>. QED
      BY <1>4, <2>1
  <1>6. {i \in DOMAIN xmodel.agents : \A j \in 1..(i - 1) : ~RegisterThrows(map, j)} = 1..n
    <2>1. \A i \in 1..n : \A j \in 1..(i - 1) : j \in 1..n
      BY <1>3
    <2>. QED
      BY <1>1, <1>3, <2>1
  <1>7. {i \in 1..n : ~NameTaken(map, i)} = 1..n
    BY <1>1, <1>3 DEF RegisterThrows
  <1>8. PICK r : r = RegisterAgents(map)
    OBVIOUS
  <1>9. ASSUME NEW k \in 1..n PROVE r[ags[k].name] = MemoryOf(ags[k])
    <2> DEFINE reached == {i \in DOMAIN xmodel.agents : \A j \in 1..(i - 1) : ~RegisterThrows(map, j)}
               added   == {i \in reached : ~NameTaken(map, i)}
    <2>1. r = [x \in DOMAIN map \union {xmodel.agents[i].name : i \in added} |->
                 IF x \in DOMAIN map THEN map[x]
                 ELSE MemoryOf(xmodel.agents[CHOOSE i \in added : xmodel.agents[i].name = x])]
      BY <1>8, Zenon DEF RegisterAgents
    <2>2. added = 1..n
      BY <1>6, <1>7
    <2> HIDE DEF added
    <2>3. PICK x, c : x = ags[k].name /\ c = CHOOSE i \in added : xmodel.agents[i].name = x
      OBVIOUS
    <2>4. x \notin DOMAIN map
      BY <1>4, <2>3
    <2>5. \E i \in added : xmodel.agents[i].name = x
      BY <1>1, <2>2, <2>3
    <2>6. x \in {xmodel.agents[i].name : i \in added}
      BY <2>5
    <2>7. c \in added /\ xmodel.agents[c].name = x
      BY <2>3, <2>5
    <2>8. c = k
      BY <1>1, <1>5, <2>2, <2>3, <2>7
    <2>9. r[x] = MemoryOf(xmodel.agents[CHOOSE i \in added : xmodel.agents[i].name = x])
      BY <2>1, <2>4, <2>6
    <2>10. r[x] = MemoryOf(xmodel.agents[c])
      BY <2>3, <2>9
    <2>. QED
      BY <1>1, <2>3, <2>8, <2>10
  <1>. QED
    BY <1>1, <1>8, <1>9 DEF InMemory

\* A graph without a name twice, which ends with the functions as they are and has no
\* others, has nothing before them.
LEMMA GraphOnce ==
  ASSUME NEW a, IsAgent(a), Traced(a), Current(a), Distinct(a.graph)
  PROVE  a.graph = a.functions
  <1>1. PICK g, fs, L, n : g = a.graph /\ fs = a.functions /\ L = Len(g) - Len(fs) /\ n = Len(fs)
    OBVIOUS
  <1>2. Len(g) \in Nat /\ n \in Nat /\ DOMAIN g = 1..Len(g)
    BY <1>1, SeqFacts DEF IsAgent, IsFunctions
  <1>3. n <= Len(g) /\ (\A k \in 1..n : g[L + k].name = fs[k].name) /\ (n = Len(g) => g = fs)
    BY <1>1 DEF Current
  <1>4. CASE n = Len(g)
    BY <1>1, <1>3, <1>4
  <1>5. CASE n # Len(g)
    <2>1. 1 \in 1..Len(g) /\ \A k \in 1..n : L + k \in 1..Len(g) /\ L + k # 1
      <3>1. PICK N : N = Len(g)
        OBVIOUS
      <3>2. N \in Nat /\ n \in Nat /\ n <= N /\ n # N /\ L = N - n
        BY <1>1, <1>2, <1>3, <1>5, <3>1
      <3>3. 1 \in 1..N /\ \A k \in 1..n : L + k \in 1..N /\ L + k # 1
        BY <3>2
      <3>. QED
        BY <3>1, <3>3
    <2>2. PICK k \in 1..n : fs[k].name = g[1].name
      BY <1>1, <2>1 DEF Traced
    <2>3. g[L + k].name = g[1].name
      BY <1>3, <2>2
    <2>4. L + k = 1
      BY <1>1, <1>2, <2>1, <2>3 DEF Distinct
    <2>. QED
      BY <2>1, <2>4
  <1>. QED
    BY <1>4, <1>5

\* What registration has found in order when it does not throw.
LEMMA RegisteredSound ==
  ASSUME Shape(xmodel), AllTraced(xmodel), AllCurrent(xmodel), InMemory(xmodel, agentMap), ~RegistrationThrows
  PROVE  \A a \in Range(xmodel.agents) :
           /\ a.graph = a.functions /\ Distinct(a.functions)
           /\ \A f \in Range(a.functions) :
                /\ Ios(f.inputs) \union Ios(f.outputs) \subseteq boards
                /\ f.name \in funcMap =>
                     /\ Range(f.readOnly) \union Range(f.readWrite) \subseteq Named(a.variables)
                     /\ Range(f.readOnly) \intersect Range(f.readWrite) = {}
  <1> SUFFICES ASSUME NEW a \in Range(xmodel.agents)
               PROVE  /\ a.graph = a.functions /\ Distinct(a.functions)
                      /\ \A f \in Range(a.functions) :
                           /\ Ios(f.inputs) \union Ios(f.outputs) \subseteq boards
                           /\ f.name \in funcMap =>
                                /\ Range(f.readOnly) \union Range(f.readWrite) \subseteq Named(a.variables)
                                /\ Range(f.readOnly) \intersect Range(f.readWrite) = {}
    OBVIOUS
  <1>1. PICK ags : ags = xmodel.agents
    OBVIOUS
  <1>2. IsSeq(ags) /\ \A i \in 1..Len(ags) : IsAgent(ags[i])
    BY <1>1 DEF Shape, IsAgents
  <1>3. PICK i \in 1..Len(ags) : a = ags[i]
    BY <1>1, <1>2, SeqFacts
  <1>4. IsAgent(a) /\ Traced(a) /\ Current(a) /\ agentMap[a.name] = MemoryOf(a)
    BY <1>1, <1>2, <1>3 DEF AllTraced, AllCurrent, InMemory
  <1>5. /\ Distinct(a.graph)
        /\ \A f \in Range(a.graph) : ~FunctionThrows(a, f) /\ Ios(f.inputs) \union Ios(f.outputs) \subseteq boards
    BY DEF RegistrationThrows
  <1>6. a.graph = a.functions
    BY <1>4, <1>5, GraphOnce
  <1>7. MemoryOf(a) \subseteq Named(a.variables)
    BY DEF MemoryOf, Named, Range
  <1>8. ASSUME NEW f \in Range(a.functions), f.name \in funcMap
        PROVE  /\ Range(f.readOnly) \union Range(f.readWrite) \subseteq Named(a.variables)
               /\ Range(f.readOnly) \intersect Range(f.readWrite) = {}
    <2>1. ~AccessThrows(a, Range(f.readOnly), Range(f.readWrite))
      BY <1>5, <1>6, <1>8 DEF FunctionThrows
    <2>2. PICK R, W : R = Range(f.readOnly) /\ W = Range(f.readWrite)
      OBVIOUS
    <2>3. R \union W \subseteq agentMap[a.name] /\ R \intersect W = {}
      BY <2>1, <2>2 DEF AccessThrows
    <2>. QED
      BY <1>4, <1>7, <2>2, <2>3
  <1>. QED
    BY <1>5, <1>6, <1>8

\* From the constructor of a simulation to the end of start() nothing changes under it.
LEMMA SimKeeps ==
  ASSUME ReaderInv, ValidInv, GraphInv, SimInv, [Next]_vars
  PROVE  SimInv'
  <1>1. Shape(xmodel)
    BY DEF ReaderInv
  <1>2. CASE Read
    <2>1. reading = "reading" /\ UNCHANGED <<object, sim>>
      BY <1>2 DEF Read, ReaderNext, OpenFile, ReadContent, ReadIncludedModel, CloseFile, Unwind, Failed, AtElement, modelVars, simVars
    <2>2. sim = "none"
      BY <2>1 DEF ReaderInv, SimInv
    <2>. QED
      BY <2>1, <2>2 DEF SimInv, StartedSound
  <1>3. CASE Construct
    <2>1. object = "none" /\ UNCHANGED sim
      BY <1>3 DEF Construct, RunValidation, simVars
    <2>2. sim = "none"
      BY <2>1 DEF SimInv
    <2>. QED
      BY <2>1, <2>2 DEF SimInv, StartedSound
  <1>4. CASE Validate \/ EditModel \/ RegisterAgentFunction \/ RegisterMessageType
    <2>1. sim = "none" /\ UNCHANGED sim
      BY <1>4 DEF Validate, EditModel, RegisterAgentFunction, RegisterMessageType, RunValidation, simVars
    <2>. QED
      BY <2>1 DEF SimInv, StartedSound
  <1>5. CASE NewSimulation
    <2>1. /\ object = "exists" /\ validated /\ agentMap' = RegisterAgents(agentMap)
          /\ UNCHANGED <<object, validated, xmodel>> /\ sim' \in {"ready", "threw"}
          /\ sim' = "ready" => \A i \in DOMAIN xmodel.agents : ~RegisterThrows(agentMap, i)
      BY <1>5 DEF NewSimulation, modelVars, readerVars
    <2>2. sim' = "ready" => InMemory(xmodel, agentMap')
      BY <1>1, <2>1, MemoryMade
    <2>. QED
      BY <2>1, <2>2 DEF SimInv, StartedSound
  <1>6. CASE Start
    <2>1. /\ sim = "ready" /\ UNCHANGED <<object, xmodel, funcMap, boards>>
          /\ sim' \in {"start threw", "started"}
          /\ sim' = "started" => ~RegistrationThrows
      BY <1>6 DEF Start, modelVars, readerVars
    <2>2. validated /\ InMemory(xmodel, agentMap) /\ object = "exists"
      BY <2>1 DEF SimInv
    <2>3. AllTraced(xmodel) /\ AllCurrent(xmodel)
      BY <2>2 DEF GraphInv
    <2>4. StartedSound'
      BY <1>1, <2>1, <2>2, <2>3, RegisteredSound DEF StartedSound
    <2>. QED
      BY <2>1, <2>2, <2>4 DEF SimInv
  <1>7. CASE UNCHANGED vars
    <2>1. UNCHANGED <<object, xmodel, funcMap, boards, validated, agentMap, sim>>
      BY <1>7 DEF vars, modelVars, readerVars, simVars
    <2>. QED
      BY <2>1 DEF SimInv, StartedSound
  <1>. QED
    BY <1>2, <1>3, <1>4, <1>5, <1>6, <1>7 DEF Next

\* A simulation that has started runs the model as it is: however often the model was
\* validated and edited, Simulation::start() gets through the registration of tasks only
\* when the graph of every agent is made of its functions, each once, with access to
\* variables of the agent and a board for every message.
THEOREM StartedSoundHolds == Spec => []StartedSound
  <1> DEFINE All == ReaderInv /\ ValidInv /\ GraphInv /\ SimInv
  <1>1. Init => All
    <2> SUFFICES ASSUME Init PROVE All
      OBVIOUS
    <2>1. ReaderInv
      BY StartKeeps
    <2>2. ~validated /\ sim = "none" /\ xmodel = EmptyModel
      BY DEF Init, ReaderInit
    <2>3. AllTraced(xmodel)
      <3>1. xmodel.agents = <<>> /\ Len(<<>>) = 0
        BY <2>2, ShortSeqs DEF EmptyModel
      <3>2. 1..0 = {}
        OBVIOUS
      <3>. QED
        BY <3>1, <3>2 DEF AllTraced
    <2>. QED
      BY <2>1, <2>2, <2>3 DEF ValidInv, NotBefore, ValidatedWellFormed, GraphInv, SimInv, StartedSound
  <1>2. All /\ [Next]_vars => All'
    <2> SUFFICES ASSUME All, [Next]_vars PROVE All'
      OBVIOUS
    <2>1. ReaderInv'
      BY StepKeeps
    <2>2. ValidInv'
      BY ValidKeeps
    <2>3. GraphInv'
      BY <2>2, GraphKeeps
    <2>4. SimInv'
      BY SimKeeps
    <2>. QED
      BY <2>1, <2>2, <2>3, <2>4
  <1>3. All => StartedSound
    BY DEF SimInv
  <1> HIDE DEF All
  <1>. QED
    BY <1>1, <1>2, <1>3, PTL DEF Spec

-----------------------------------------------------------------------------
(***************************************************************************)
(* Dynamic arrays in messages and constants.                               *)
(***************************************************************************)

\* A variable that is a dynamic array holds one.
Flags(vs) == \A k \in 1..Len(vs) : vs[k].isDynamicArray => vs[k].holdsDynamicArray
Consistent(m) ==
  /\ Flags(m.constants)
  /\ \A i \in 1..Len(m.messages) : Flags(m.messages[i].variables)
  /\ \A i \in 1..Len(m.adts) : Flags(m.adts[i].variables)

\* A data type is marked when it has a variable that is a dynamic array or is of a
\* marked data type.
Marked(ts) ==
  \A i \in 1..Len(ts) : \A k \in 1..Len(ts[i].variables) :
    /\ ts[i].variables[k].isDynamicArray => ts[i].holdsDynamicArray
    /\ \A j \in 1..Len(ts) :
         ts[j].name = ts[i].variables[k].type /\ ts[j].holdsDynamicArray => ts[i].holdsDynamicArray

\* No variable is a dynamic array or of a marked data type, and none will be one when it
\* is processed again.
Plain(vs, ts) ==
  \A k \in 1..Len(vs) :
    /\ ~vs[k].suffix /\ ~vs[k].isDynamicArray /\ ~vs[k].holdsDynamicArray
    /\ \A j \in 1..Len(ts) : ts[j].name = vs[k].type => ~ts[j].holdsDynamicArray

\* Data types that have been validated are allowed, so they are not validated again.
NoDynamic(m) ==
  /\ Marked(m.adts) /\ \A j \in 1..Len(m.adts) : m.adts[j].name \in m.allowed
  /\ Plain(m.constants, m.adts)
  /\ \A i \in 1..Len(m.messages) : Plain(m.messages[i].variables, m.adts)

ArrayInv == Consistent(xmodel) /\ (validated => NoDynamic(xmodel))

\* The types of the variables of data type t.
Inner(m, t) == {v.type : v \in UNION {Range(x.variables) : x \in {y \in Range(m.adts) : y.name = t}}}

Inside(m, r) == r \union UNION {Inner(m, t) : t \in r}

\* f[i] is what is found in i rounds.
Depths(f, m, type, n) == f[0] = {type} /\ \A i \in 1..n : f[i] = Inside(m, f[i - 1])

\* There is such a function.
LEMMA DepthsExist ==
  ASSUME NEW n \in Nat, NEW m, NEW type
  PROVE  \E f : f = [i \in 0..n |-> f[i]] /\ Depths(f, m, type, n)
  <1> DEFINE P(k) == \E f : f = [i \in 0..k |-> f[i]] /\ Depths(f, m, type, k)
             T == {k \in Nat : ~P(k)}
  <1>1. ASSUME T # {} PROVE FALSE
    <2>1. PICK k \in T : \A l \in T : k <= l
      <3> HIDE DEF T
      <3>1. T \in SUBSET Nat
        BY DEF T
      <3>. QED
        BY <1>1, <3>1, LeastNumber
    <2>2. k \in Nat /\ ~P(k)
      OBVIOUS
    <2>3. k # 0
      <3>1. ASSUME k = 0 PROVE P(k)
        <4>1. PICK f : f = [i \in 0..k |-> {type}]
          OBVIOUS
        <4>2. 1..k = {} /\ 0 \in 0..k
          BY <3>1
        <4>3. f = [i \in 0..k |-> f[i]] /\ Depths(f, m, type, k)
          BY <4>1, <4>2 DEF Depths
        <4>. QED
          BY <4>3
      <3>. QED
        BY <2>2, <3>1
    <2>4. k - 1 \in Nat /\ ~(k <= k - 1)
      BY <2>2, <2>3
    <2>5. P(k - 1)
      BY <2>1, <2>4
    <2>6. PICK g : g = [i \in 0..(k - 1) |-> g[i]] /\ Depths(g, m, type, k - 1)
      BY <2>5
    <2>7. PICK f : f = [i \in 0..k |-> IF i = k THEN Inside(m, g[k - 1]) ELSE g[i]]
      OBVIOUS
    <2>8. f = [i \in 0..k |-> f[i]]
      BY <2>7
    <2>9. ASSUME NEW i \in 1..k PROVE f[i] = Inside(m, f[i - 1])
      <3>1. i \in 0..k /\ (i = k \/ i \in 1..(k - 1))
        BY <2>2
      <3>2. i - 1 \in 0..k /\ i - 1 # k
        BY <2>2
      <3>3. f[i - 1] = g[i - 1]
        BY <2>7, <3>2
      <3>4. CASE i = k
        BY <2>7, <3>1, <3>3, <3>4
      <3>5. CASE i # k
        <4>1. f[i] = g[i]
          BY <2>7, <3>1, <3>5
        <4>. QED
          BY <2>6, <3>1, <3>3, <3>5, <4>1 DEF Depths
      <3>. QED
        BY <3>4, <3>5
    <2>10. f[0] = {type}
      <3>1. 0 \in 0..k /\ 0 # k
        BY <2>2, <2>3
      <3>2. f[0] = g[0]
        BY <2>7, <3>1
      <3>. QED
        BY <2>6, <3>2 DEF Depths
    <2>11. P(k)
      BY <2>8, <2>9, <2>10 DEF Depths
    <2>. QED
      BY <2>2, <2>11
  <1>2. n \notin T
    BY <1>1
  <1>. QED
    BY <1>2

\* PartsOf is its last value.
LEMMA PartsDepths ==
  ASSUME NEW m, NEW type, NEW n \in Nat, n = Len(m.adts)
  PROVE  \E f : Depths(f, m, type, n) /\ PartsOf(m, type) = f[n]
  <1> DEFINE inner(t) == {v.type : v \in UNION {Range(x.variables) : x \in {y \in Range(m.adts) : y.name = t}}}
             reach[i \in 0..Len(m.adts)] ==
               IF i = 0 THEN {type} ELSE LET r == reach[i - 1] IN r \union UNION {inner(t) : t \in r}
  <1>1. PartsOf(m, type) = reach[Len(m.adts)]
    BY Zenon DEF PartsOf
  <1>2. reach = [i \in 0..n |-> IF i = 0 THEN {type} ELSE LET r == reach[i - 1] IN r \union UNION {inner(t) : t \in r}]
    <2>1. PICK f : f = [i \in 0..n |-> f[i]] /\ Depths(f, m, type, n)
      BY DepthsExist
    <2>2. f = [i \in 0..n |-> IF i = 0 THEN {type} ELSE LET r == f[i - 1] IN r \union UNION {inner(t) : t \in r}]
      <3>1. \A i \in 0..n : i = 0 \/ i \in 1..n
        OBVIOUS
      <3>2. \A i \in 0..n : f[i] = IF i = 0 THEN {type} ELSE f[i - 1] \union UNION {inner(t) : t \in f[i - 1]}
        BY <2>1, <3>1 DEF Depths, Inside, Inner
      <3>. QED
        BY <2>1, <3>2
    <2>. QED
      BY <2>2
  <1> HIDE DEF reach
  <1>3. Depths(reach, m, type, n)
    <2>1. PICK f : f = reach
      OBVIOUS
    <2>2. f = [i \in 0..n |-> IF i = 0 THEN {type} ELSE Inside(m, f[i - 1])]
      BY <1>2, <2>1 DEF Inside, Inner
    <2>3. 0 \in 0..n /\ \A i \in 1..n : i \in 0..n /\ i # 0
      OBVIOUS
    <2>4. f[0] = {type}
      BY <2>2, <2>3
    <2>5. \A i \in 1..n : f[i] = Inside(m, f[i - 1])
      BY <2>2, <2>3
    <2>6. Depths(f, m, type, n)
      BY <2>4, <2>5 DEF Depths
    <2>. QED
      BY <2>1, <2>6
  <1>. QED
    BY <1>1, <1>3

\* A set of types that holds the types of their variables holds what they are made of.
LEMMA PartsWithin ==
  ASSUME NEW m, Len(m.adts) \in Nat, NEW type, NEW S, type \in S, \A t \in S : Inner(m, t) \subseteq S
  PROVE  PartsOf(m, type) \subseteq S
  <1>1. PICK n \in Nat : n = Len(m.adts)
    OBVIOUS
  <1>2. PICK f : Depths(f, m, type, n) /\ PartsOf(m, type) = f[n]
    BY <1>1, PartsDepths
  <1> DEFINE T == {i \in 0..n : ~(f[i] \subseteq S)}
  <1>3. f[0] \subseteq S
    BY <1>2 DEF Depths
  <1>4. ASSUME NEW i \in 1..n, f[i - 1] \subseteq S
        PROVE  f[i] \subseteq S
    BY <1>2, <1>4 DEF Depths, Inside
  <1>5. ASSUME T # {} PROVE FALSE
    <2>1. PICK k \in T : \A l \in T : k <= l
      <3> HIDE DEF T
      <3>1. T \in SUBSET Nat
        BY DEF T
      <3>. QED
        BY <1>5, <3>1, LeastNumber
    <2>2. k \in 0..n /\ ~(f[k] \subseteq S)
      OBVIOUS
    <2>3. k # 0
      BY <1>3, <2>2
    <2>4. k \in 1..n /\ k - 1 \in 0..n /\ ~(k <= k - 1)
      BY <2>2, <2>3
    <2>5. f[k - 1] \subseteq S
      BY <2>1, <2>4
    <2>. QED
      BY <1>4, <2>2, <2>4, <2>5
  <1>6. n \in 0..n
    OBVIOUS
  <1>. QED
    BY <1>2, <1>5, <1>6

\* What NoDynamicMessages says of a validated model.
PlainData(m) ==
  \A v \in (UNION {Range(x.variables) : x \in Range(m.messages)}) \union Range(m.constants) :
    /\ ~v.isDynamicArray
    /\ \A x \in Range(m.adts) : x.name \in PartsOf(m, v.type) => \A w \in Range(x.variables) : ~w.isDynamicArray

\* No type within an unmarked type is marked.
LEMMA NoDynamicPlain ==
  ASSUME NEW m, Shape(m), NoDynamic(m)
  PROVE  PlainData(m)
  <1>1. PICK ts : ts = m.adts
    OBVIOUS
  <1>2. IsSeq(ts) /\ \A i \in 1..Len(ts) : IsSeq(ts[i].variables)
    BY <1>1 DEF Shape, IsTypes, IsType, IsVariables
  <1>3. Len(ts) \in Nat
    BY <1>2, SeqFacts
  <1>4. Range(ts) = {ts[i] : i \in 1..Len(ts)}
    BY <1>2, SeqFacts
  <1>5. Marked(ts)
    BY <1>1 DEF NoDynamic
  <1>6. ASSUME NEW vs, IsSeq(vs), Plain(vs, ts), NEW v \in Range(vs)
        PROVE  /\ ~v.isDynamicArray
               /\ \A x \in Range(ts) : x.name \in PartsOf(m, v.type) => \A w \in Range(x.variables) : ~w.isDynamicArray
    <2>1. PICK k \in 1..Len(vs) : v = vs[k]
      BY <1>6, SeqFacts
    <2>2. ~v.isDynamicArray /\ \A j \in 1..Len(ts) : ts[j].name = v.type => ~ts[j].holdsDynamicArray
      BY <1>6, <2>1 DEF Plain
    <2>3. PICK U, S : /\ U = {v.type} \union {w.type : w \in UNION {Range(x.variables) : x \in Range(ts)}}
                      /\ S = {t \in U : \A j \in 1..Len(ts) : ts[j].name = t => ~ts[j].holdsDynamicArray}
      OBVIOUS
    <2>4. ASSUME NEW t, \A j \in 1..Len(ts) : ts[j].name = t => ~ts[j].holdsDynamicArray, NEW u \in Inner(m, t)
          PROVE  \A j \in 1..Len(ts) : ts[j].name = u => ~ts[j].holdsDynamicArray
      <3>1. PICK x \in Range(ts) : x.name = t /\ \E w \in Range(x.variables) : u = w.type
        BY <1>1, <2>4 DEF Inner
      <3>2. PICK w \in Range(x.variables) : u = w.type
        BY <3>1
      <3>3. PICK i \in 1..Len(ts) : x = ts[i]
        BY <1>4
      <3>4. ~x.holdsDynamicArray
        BY <2>4, <3>1, <3>3
      <3>5. PICK l \in 1..Len(x.variables) : w = x.variables[l]
        BY <1>2, <3>3, SeqFacts
      <3>6. \A j \in 1..Len(ts) : ts[j].name = u /\ ts[j].holdsDynamicArray => x.holdsDynamicArray
        BY <1>5, <3>1, <3>3, <3>5, <3>2 DEF Marked
      <3>. QED
        BY <3>4, <3>6
    <2>5. \A t \in S : Inner(m, t) \subseteq S
      <3> SUFFICES ASSUME NEW t \in S, NEW u \in Inner(m, t) PROVE u \in S
        OBVIOUS
      <3>1. u \in U
        BY <1>1, <2>3 DEF Inner
      <3>2. \A j \in 1..Len(ts) : ts[j].name = t => ~ts[j].holdsDynamicArray
        BY <2>3
      <3>3. \A j \in 1..Len(ts) : ts[j].name = u => ~ts[j].holdsDynamicArray
        BY <2>4, <3>2
      <3>. QED
        BY <2>3, <3>1, <3>3
    <2>6. v.type \in S
      BY <2>2, <2>3
    <2>7. PartsOf(m, v.type) \subseteq S
      BY <1>1, <1>3, <2>5, <2>6, PartsWithin
    <2>8. ASSUME NEW x \in Range(ts), x.name \in PartsOf(m, v.type), NEW w \in Range(x.variables)
          PROVE  ~w.isDynamicArray
      <3>1. PICK i \in 1..Len(ts) : x = ts[i]
        BY <1>4
      <3>2. ~x.holdsDynamicArray
        BY <2>3, <2>7, <2>8, <3>1
      <3>3. PICK l \in 1..Len(x.variables) : w = x.variables[l]
        BY <1>2, <3>1, SeqFacts
      <3>4. w.isDynamicArray => x.holdsDynamicArray
        BY <1>5, <3>1, <3>3 DEF Marked
      <3>. QED
        BY <3>2, <3>4
    <2>. QED
      BY <2>2, <2>8
  <1>7. IsSeq(m.constants) /\ Plain(m.constants, ts)
    BY <1>1 DEF Shape, IsVariables, NoDynamic
  <1>8. PICK xs : xs = m.messages
    OBVIOUS
  <1>9. IsSeq(xs) /\ \A i \in 1..Len(xs) : IsSeq(xs[i].variables) /\ Plain(xs[i].variables, ts)
    BY <1>1, <1>8 DEF Shape, IsMessages, IsMessage, IsVariables, NoDynamic
  <1>10. Range(xs) = {xs[i] : i \in 1..Len(xs)}
    BY <1>9, SeqFacts
  <1>11. \A x \in Range(xs) : IsSeq(x.variables) /\ Plain(x.variables, ts)
    BY <1>9, <1>10
  <1>12. PICK W : W = UNION {Range(x.variables) : x \in Range(xs)}
    OBVIOUS
  <1>13. ASSUME NEW v \in W
         PROVE  \E vs : IsSeq(vs) /\ Plain(vs, ts) /\ v \in Range(vs)
    <2>1. PICK x \in Range(xs) : v \in Range(x.variables)
      BY <1>12
    <2>2. PICK vs : vs = x.variables
      OBVIOUS
    <2>3. IsSeq(vs) /\ Plain(vs, ts) /\ v \in Range(vs)
      BY <1>11, <2>1, <2>2
    <2>. QED
      BY <2>3
  <1>14. \A v \in W \union Range(m.constants) : \E vs : IsSeq(vs) /\ Plain(vs, ts) /\ v \in Range(vs)
    BY <1>7, <1>13
  <1>15. ASSUME NEW v \in W \union Range(m.constants)
         PROVE  /\ ~v.isDynamicArray
                /\ \A x \in Range(ts) : x.name \in PartsOf(m, v.type) => \A w \in Range(x.variables) : ~w.isDynamicArray
    <2>1. PICK vs : IsSeq(vs) /\ Plain(vs, ts) /\ v \in Range(vs)
      BY <1>14
    <2>. QED
      BY <1>6, <2>1
  <1>. QED
    BY <1>1, <1>8, <1>12, <1>15, Zenon DEF PlainData

\* What processVariable() makes of v when ts are the data types.
Rewritten(ts, v, w) ==
  /\ ~w.suffix /\ w.type = v.type
  /\ w.isDynamicArray <=> v.isDynamicArray \/ v.suffix
  /\ w.holdsDynamicArray <=>
       \/ v.holdsDynamicArray \/ v.suffix
       \/ \E j \in 1..Len(ts) : ts[j].name = v.type /\ ts[j].holdsDynamicArray

\* processVariables() does so to each.
LEMMA VariablesRewritten ==
  ASSUME NEW m, IsSeq(m.adts), NEW vs, IsVariables(vs), NEW ws, ws = ProcessVariables(m, vs)
  PROVE  /\ IsVariables(ws) /\ Len(ws) = Len(vs)
         /\ \A k \in 1..Len(vs) : Rewritten(m.adts, vs[k], ws[k])
  <1>1. SameVariables(vs, ws)
    BY VariablesProcessed
  <1>2. DOMAIN vs = 1..Len(vs)
    BY SeqFacts DEF IsVariables
  <1>3. PICK ts : ts = m.adts
    OBVIOUS
  <1>4. DOMAIN ts = 1..Len(ts)
    BY <1>3, SeqFacts
  <1>5. ASSUME NEW k \in 1..Len(vs)
        PROVE  Rewritten(ts, vs[k], ws[k])
    <2>1. PICK v, u, w : v = vs[k] /\ u = ProcessDynamicArray(v) /\ w = ws[k]
      OBVIOUS
    <2>2. v = [type |-> v.type, suffix |-> v.suffix, name |-> v.name, bracket |-> v.bracket, constant |-> v.constant,
               isDynamicArray |-> v.isDynamicArray, holdsDynamicArray |-> v.holdsDynamicArray]
      BY <2>1 DEF IsVariables, IsVariable
    <2>3. PICK y, z, h : /\ y = (v.isDynamicArray \/ v.suffix) /\ z = (v.holdsDynamicArray \/ v.suffix)
                         /\ h = (z \/ \E j \in 1..Len(ts) : ts[j].name = v.type /\ ts[j].holdsDynamicArray)
      OBVIOUS
    <2>4. u = [v EXCEPT !.suffix = FALSE, !.isDynamicArray = y, !.holdsDynamicArray = z]
      BY <2>1, <2>2, <2>3 DEF ProcessDynamicArray
    <2>5. u = [type |-> v.type, suffix |-> FALSE, name |-> v.name, bracket |-> v.bracket, constant |-> v.constant,
               isDynamicArray |-> y, holdsDynamicArray |-> z]
      BY <2>2, <2>4
    <2>6. w = ProcessVariable(m, v)
      BY <1>2, <2>1 DEF ProcessVariables
    <2>7. w = [u EXCEPT !.bracket = None,
                        !.holdsDynamicArray = (z \/ \E i \in DOMAIN ts : /\ ts[i].name = v.type
                                                                         /\ ts[i].holdsDynamicArray)]
      BY <1>3, <2>1, <2>5, <2>6 DEF ProcessVariable
    <2>8. (z \/ \E i \in DOMAIN ts : ts[i].name = v.type /\ ts[i].holdsDynamicArray) = h
      BY <1>4, <2>3
    <2>9. w = [u EXCEPT !.bracket = None, !.holdsDynamicArray = h]
      BY <2>7, <2>8
    <2>10. w = [type |-> v.type, suffix |-> FALSE, name |-> v.name, bracket |-> None, constant |-> v.constant,
               isDynamicArray |-> y, holdsDynamicArray |-> h]
      BY <2>5, <2>9
    <2>11. ~w.suffix /\ w.type = v.type /\ w.isDynamicArray = y /\ w.holdsDynamicArray = h
      BY <2>10
    <2>12. Rewritten(ts, v, w)
      BY <2>3, <2>11 DEF Rewritten
    <2>. QED
      BY <2>1, <2>12
  <1>. QED
    BY <1>1, <1>3, <1>5 DEF SameVariables

\* Rewritten variables have consistent flags, too, and plain ones stay plain.
LEMMA RewrittenFlags ==
  ASSUME NEW ts, NEW vs, NEW ws, Len(vs) \in Nat, Len(ws) = Len(vs),
         \A k \in 1..Len(vs) : Rewritten(ts, vs[k], ws[k])
  PROVE  /\ Flags(vs) => Flags(ws)
         /\ Plain(vs, ts) => Plain(ws, ts)
         /\ Flags(vs) /\ (\A k \in 1..Len(ws) : ~ws[k].holdsDynamicArray) => Plain(ws, ts)
  <1>1. ASSUME Flags(vs) PROVE Flags(ws)
    BY <1>1 DEF Flags, Rewritten
  <1>2. ASSUME Plain(vs, ts) PROVE Plain(ws, ts)
    BY <1>2 DEF Plain, Rewritten
  <1>3. ASSUME Flags(vs), \A k \in 1..Len(ws) : ~ws[k].holdsDynamicArray PROVE Plain(ws, ts)
    BY <1>3 DEF Flags, Plain, Rewritten
  <1>. QED
    BY <1>1, <1>2, <1>3

\* validateADT() of data type i of m, when its name is new, leaves n behind.
FreshStep(m, n, i) ==
  /\ m.adts[i].name \notin m.allowed /\ n.allowed = m.allowed \union {m.adts[i].name}
  /\ Len(n.adts) = Len(m.adts) /\ \A j \in 1..Len(m.adts) : j # i => n.adts[j] = m.adts[j]
  /\ n.adts[i].name = m.adts[i].name /\ Len(n.adts[i].variables) = Len(m.adts[i].variables)
  /\ \A k \in 1..Len(m.adts[i].variables) :
       Rewritten(m.adts, m.adts[i].variables[k], n.adts[i].variables[k])
  /\ \A k \in 1..Len(m.adts[i].variables) :
       n.adts[i].variables[k].holdsDynamicArray => n.adts[i].holdsDynamicArray

\* The types of its variables are allowed when it counts no error.
TypesAllowed(n, i) == \A k \in 1..Len(n.adts[i].variables) : n.adts[i].variables[k].type \in n.allowed

\* A name that is not new is an error.
LEMMA TypeStep ==
  ASSUME NEW v, Shape(v.m), NEW i \in 1..Len(v.m.adts), NEW r, r = ValidateADT(v, i)
  PROVE  \/ r.m = v.m /\ ~r.ok
         \/ FreshStep(v.m, r.m, i) /\ (r.ok => v.ok /\ TypesAllowed(r.m, i))
  <1>1. PICK m, adt, al, n, ps :
          /\ m = v.m /\ adt = m.adts[i] /\ al = m.allowed \union {adt.name}
          /\ n = [m EXCEPT !.allowed = @ \union {adt.name}]
          /\ ps = ProcessVariables(n, adt.variables)
    OBVIOUS
  <1>2. /\ m = [name |-> m.name, constants |-> m.constants, adts |-> m.adts, timeUnits |-> m.timeUnits,
                functionFiles |-> m.functionFiles, agents |-> m.agents, messages |-> m.messages,
                allowed |-> m.allowed, included |-> m.included]
        /\ IsTypes(m.adts)
    BY <1>1 DEF Shape, IsModel
  <1>3. n = [name |-> m.name, constants |-> m.constants, adts |-> m.adts, timeUnits |-> m.timeUnits,
             functionFiles |-> m.functionFiles, agents |-> m.agents, messages |-> m.messages,
             allowed |-> al, included |-> m.included]
    BY <1>1, <1>2
  <1>4. n.adts = m.adts /\ n.allowed = al
    BY <1>3
  <1>5. CASE ~(NameIsAllowed(adt.name) /\ adt.name \notin m.allowed)
    BY <1>1, <1>5 DEF ValidateADT
  <1>6. CASE NameIsAllowed(adt.name) /\ adt.name \notin m.allowed
    <2>1. PICK holds, x, ts : /\ holds = (adt.holdsDynamicArray \/ \E j \in DOMAIN ps : ps[j].holdsDynamicArray)
                              /\ x = [adt EXCEPT !.variables = ps, !.holdsDynamicArray = holds]
                              /\ ts = [m.adts EXCEPT ![i] = x]
      OBVIOUS
    <2>2. r = [m  |-> [n EXCEPT !.adts = [@ EXCEPT ![i] = [adt EXCEPT !.variables = ps, !.holdsDynamicArray = holds]]],
               ok |-> v.ok /\ ValidateVariablesOK(n, adt.variables, TRUE)]
      BY <1>1, <1>6, <2>1, Zenon DEF ValidateADT
    <2>3. r.ok => v.ok /\ ValidateVariablesOK(n, adt.variables, TRUE)
      <3>1. PICK ok, w : /\ ok = (v.ok /\ ValidateVariablesOK(n, adt.variables, TRUE))
                         /\ w = [n EXCEPT !.adts = [@ EXCEPT ![i] = [adt EXCEPT !.variables = ps, !.holdsDynamicArray = holds]]]
        OBVIOUS
      <3>2. r = [m |-> w, ok |-> ok]
        BY <2>2, <3>1, Zenon
      <3>3. r.ok = ok
        BY <3>2
      <3>. QED
        BY <3>1, <3>3
    <2>4. PICK q : q = r.m /\ q = [n EXCEPT !.adts = ts]
      <3>1. r.m = [n EXCEPT !.adts = [@ EXCEPT ![i] = [adt EXCEPT !.variables = ps, !.holdsDynamicArray = holds]]]
        BY <2>2
      <3>2. r.m = [n EXCEPT !.adts = ts]
        BY <1>3, <1>4, <2>1, <3>1
      <3>. QED
        BY <3>2
    <2>5. q = [name |-> m.name, constants |-> m.constants, adts |-> ts, timeUnits |-> m.timeUnits,
               functionFiles |-> m.functionFiles, agents |-> m.agents, messages |-> m.messages,
               allowed |-> al, included |-> m.included]
      BY <1>3, <2>4
    <2>6. q.adts = ts /\ q.allowed = al
      BY <2>5
    <2>7. IsType(adt)
      BY <1>1, <1>2 DEF IsTypes
    <2>8. IsSeq(n.adts) /\ IsVariables(adt.variables)
      BY <1>2, <1>4, <2>7 DEF IsTypes, IsType
    <2>9. /\ IsVariables(ps) /\ Len(ps) = Len(adt.variables)
          /\ \A k \in 1..Len(adt.variables) : Rewritten(m.adts, adt.variables[k], ps[k])
      <3>1. PICK vs : vs = adt.variables
        OBVIOUS
      <3>2. IsVariables(vs) /\ ps = ProcessVariables(n, vs)
        BY <1>1, <2>8, <3>1
      <3>3. IsVariables(ps) /\ Len(ps) = Len(vs) /\ \A k \in 1..Len(vs) : Rewritten(n.adts, vs[k], ps[k])
        BY <2>8, <3>2, VariablesRewritten
      <3>. QED
        BY <1>4, <3>1, <3>3
    <2>10. x = [name |-> adt.name, holdsDynamicArray |-> holds, variables |-> ps]
      BY <2>1, <2>7 DEF IsType
    <2>11. x.name = adt.name /\ x.variables = ps /\ x.holdsDynamicArray = holds
      BY <2>10
    <2>12. DOMAIN ps = 1..Len(ps)
      BY <2>9, SeqFacts DEF IsVariables
    <2>13. \A k \in 1..Len(ps) : ps[k].holdsDynamicArray => x.holdsDynamicArray
      BY <2>1, <2>11, <2>12
    <2>14. Replaced(m.adts, ts, i, x)
      BY <1>1, <1>2, <2>1, ExceptReplaces DEF IsTypes
    <2>15. Len(ts) = Len(m.adts) /\ ts[i] = x /\ \A j \in 1..Len(m.adts) : j # i => ts[j] = m.adts[j]
      BY <1>1, <2>14 DEF Replaced
    <2>16. FreshStep(m, q, i)
      BY <1>1, <1>6, <2>6, <2>9, <2>11, <2>13, <2>15 DEF FreshStep
    <2>17. ASSUME ValidateVariablesOK(n, adt.variables, TRUE)
           PROVE  TypesAllowed(q, i)
      <3>1. \A k \in DOMAIN ps : VariableTypeOK(n, ps[k], TRUE)
        BY <1>1, <2>17 DEF ValidateVariablesOK
      <3>2. \A k \in 1..Len(ps) : ps[k].type \in al
        BY <1>4, <2>12, <3>1 DEF VariableTypeOK
      <3>. QED
        BY <2>6, <2>11, <2>15, <3>2 DEF TypesAllowed
    <2>. QED
      BY <1>1, <2>3, <2>4, <2>16, <2>17
  <1>. QED
    BY <1>5, <1>6

\* The first i data types have been validated without an error: they, and the types of
\* their variables, are allowed, and they are marked as Marked says.
MarkedUpTo(m, i) ==
  \A a \in 1..i :
    /\ m.adts[a].name \in m.allowed /\ TypesAllowed(m, a)
    /\ \A k \in 1..Len(m.adts[a].variables) :
         /\ m.adts[a].variables[k].isDynamicArray => m.adts[a].holdsDynamicArray
         /\ \A b \in 1..i : m.adts[b].name = m.adts[a].variables[k].type /\ m.adts[b].holdsDynamicArray
                              => m.adts[a].holdsDynamicArray
Stage(v, i) ==
  /\ \A j \in 1..Len(v.m.adts) : Flags(v.m.adts[j].variables)
  /\ v.ok => MarkedUpTo(v.m, i)

\* One more: no earlier data type can have a variable of it.
LEMMA StageStep ==
  ASSUME NEW v, Shape(v.m), NEW i \in 1..Len(v.m.adts), Stage(v, i - 1), NEW w, w = ValidateADT(v, i)
  PROVE  Stage(w, i)
  <1>1. PICK m, n : m = v.m /\ n = w.m
    OBVIOUS
  <1>2. PICK ts, us : ts = m.adts /\ us = n.adts
    OBVIOUS
  <1>3. /\ \A j \in 1..Len(ts) : Flags(ts[j].variables)
        /\ v.ok => MarkedUpTo(m, i - 1)
    BY <1>1, <1>2 DEF Stage
  <1>4. \/ n = m /\ ~w.ok
        \/ FreshStep(m, n, i) /\ (w.ok => v.ok /\ TypesAllowed(n, i))
    BY <1>1, TypeStep
  <1>5. CASE n = m /\ ~w.ok
    BY <1>1, <1>2, <1>3, <1>5 DEF Stage
  <1>6. CASE FreshStep(m, n, i) /\ (w.ok => v.ok /\ TypesAllowed(n, i))
    <2>1. /\ ts[i].name \notin m.allowed /\ n.allowed = m.allowed \union {ts[i].name}
          /\ Len(us) = Len(ts) /\ (\A j \in 1..Len(ts) : j # i => us[j] = ts[j]) /\ us[i].name = ts[i].name
      BY <1>2, <1>6 DEF FreshStep
    <2>2. PICK vs, ws, h : vs = ts[i].variables /\ ws = us[i].variables /\ h = us[i].holdsDynamicArray
      OBVIOUS
    <2>3. /\ Len(ws) = Len(vs) /\ \A k \in 1..Len(vs) : Rewritten(ts, vs[k], ws[k])
          /\ \A k \in 1..Len(vs) : ws[k].holdsDynamicArray => h
      BY <1>2, <1>6, <2>2 DEF FreshStep
    <2>4. i \in 1..Len(ts) /\ Len(ts) \in Nat
      <3>1. IsSeq(ts)
        BY <1>1, <1>2 DEF Shape, IsTypes
      <3>. QED
        BY <1>1, <1>2, <3>1, SeqFacts
    <2>5. Len(vs) \in Nat
      <3>1. IsSeq(vs)
        BY <1>1, <1>2, <2>2, <2>4 DEF Shape, IsTypes, IsType, IsVariables
      <3>. QED
        BY <3>1, SeqFacts
    <2>6. Flags(vs)
      BY <1>3, <2>2, <2>4
    <2>7. Flags(ws)
      BY <2>3, <2>5, <2>6, RewrittenFlags
    <2>8. \A j \in 1..Len(us) : Flags(us[j].variables)
      BY <1>3, <2>1, <2>2, <2>7
    <2>9. ASSUME w.ok PROVE MarkedUpTo(n, i)
      <3>1. MarkedUpTo(m, i - 1) /\ TypesAllowed(n, i)
        BY <1>3, <1>6, <2>9
      <3>2. \A a \in 1..(i - 1) : a \in 1..Len(ts) /\ a # i
        BY <2>4
      <3>3. \A a \in 1..i : a = i \/ a \in 1..(i - 1)
        BY <2>4
      <3>4. ASSUME NEW a \in 1..(i - 1)
            PROVE  us[a].name \in n.allowed /\ TypesAllowed(n, a) /\ us[a] = ts[a]
        BY <1>2, <2>1, <3>1, <3>2 DEF MarkedUpTo, TypesAllowed
      <3>5. ASSUME NEW a \in 1..i
            PROVE  us[a].name \in n.allowed /\ TypesAllowed(n, a)
        BY <2>1, <3>1, <3>3, <3>4
      <3>6. ASSUME NEW a \in 1..i, NEW k \in 1..Len(us[a].variables)
            PROVE  us[a].variables[k].isDynamicArray => us[a].holdsDynamicArray
        <4>1. CASE a = i
          BY <2>2, <2>3, <2>7, <4>1 DEF Flags
        <4>2. CASE a \in 1..(i - 1)
          BY <1>2, <3>1, <3>4, <4>2 DEF MarkedUpTo
        <4>. QED
          BY <3>3, <4>1, <4>2
      <3>7. ASSUME NEW a \in 1..i, NEW k \in 1..Len(us[a].variables), NEW b \in 1..i,
                   us[b].name = us[a].variables[k].type, us[b].holdsDynamicArray
            PROVE  us[a].holdsDynamicArray
        <4>1. CASE a = b
          BY <3>7, <4>1
        <4>2. CASE a = i /\ b \in 1..(i - 1)
          <5>1. b \in 1..Len(ts) /\ us[b] = ts[b]
            BY <3>2, <3>4, <4>2
          <5>2. k \in 1..Len(vs) /\ Rewritten(ts, vs[k], ws[k]) /\ us[b].name = ws[k].type
            BY <2>2, <2>3, <3>7, <4>2
          <5>3. ws[k].holdsDynamicArray
            BY <3>7, <5>1, <5>2 DEF Rewritten
          <5>. QED
            BY <2>2, <2>3, <4>2, <5>2, <5>3
        <4>3. CASE a \in 1..(i - 1) /\ b = i
          <5>1. us[a] = ts[a]
            BY <3>4, <4>3
          <5>2. ts[a].variables[k].type \in m.allowed
            BY <1>2, <3>1, <3>7, <4>3, <5>1 DEF MarkedUpTo, TypesAllowed
          <5>. QED
            BY <2>1, <3>7, <4>3, <5>1, <5>2
        <4>4. CASE a \in 1..(i - 1) /\ b \in 1..(i - 1)
          BY <1>2, <3>1, <3>4, <3>7, <4>4 DEF MarkedUpTo
        <4>. QED
          BY <3>3, <4>1, <4>2, <4>3, <4>4
      <3>. QED
        BY <1>2, <3>5, <3>6, <3>7 DEF MarkedUpTo
    <2>. QED
      BY <1>1, <1>2, <2>8, <2>9 DEF Stage
  <1>. QED
    BY <1>4, <1>5, <1>6

\* All of them.
LEMMA ChainMarked ==
  ASSUME NEW m, Shape(m), NEW n \in Nat, n = Len(m.adts), NEW f, Chain(f, m, n),
         \A j \in 1..Len(m.adts) : Flags(m.adts[j].variables)
  PROVE  \A i \in 0..n : Stage(f[i], i)
  <1> DEFINE T == {i \in 0..n : ~Stage(f[i], i)}
  <1>1. Stage(f[0], 0)
    <2>1. f[0].m = m /\ 1..0 = {}
      BY DEF Chain
    <2>. QED
      BY <2>1 DEF Stage, MarkedUpTo
  <1>2. ASSUME NEW i \in 1..n, Stage(f[i - 1], i - 1)
        PROVE  Stage(f[i], i)
    <2>1. PICK v, w : v = f[i - 1] /\ w = f[i]
      OBVIOUS
    <2>2. w = ValidateADT(v, i)
      BY <2>1 DEF Chain
    <2>3. i - 1 \in 0..n
      OBVIOUS
    <2>4. Shape(v.m) /\ SameTypes(m.adts, v.m.adts)
      BY <2>1, <2>3, ChainProcessed
    <2>5. i \in 1..Len(v.m.adts)
      BY <2>4 DEF SameTypes
    <2>6. Stage(v, i - 1)
      BY <1>2, <2>1
    <2>. QED
      BY <2>1, <2>2, <2>4, <2>5, <2>6, StageStep
  <1>3. ASSUME T # {} PROVE FALSE
    <2>1. PICK k \in T : \A l \in T : k <= l
      <3> HIDE DEF T
      <3>1. T \in SUBSET Nat
        BY DEF T
      <3>. QED
        BY <1>3, <3>1, LeastNumber
    <2>2. k \in 0..n /\ ~Stage(f[k], k)
      OBVIOUS
    <2>3. k # 0
      BY <1>1, <2>2
    <2>4. k \in 1..n /\ k - 1 \in 0..n /\ ~(k <= k - 1)
      BY <2>2, <2>3
    <2>5. Stage(f[k - 1], k - 1)
      BY <2>1, <2>4
    <2>. QED
      BY <1>2, <2>2, <2>4, <2>5
  <1>. QED
    BY <1>3

\* When all their names are allowed, data types are not touched.
LEMMA ChainSame ==
  ASSUME NEW m, Shape(m), NEW n \in Nat, n = Len(m.adts), NEW f, Chain(f, m, n),
         \A j \in 1..Len(m.adts) : m.adts[j].name \in m.allowed
  PROVE  f[n].m = m
  <1> DEFINE T == {i \in 0..n : f[i].m # m}
  <1>1. f[0].m = m
    BY DEF Chain
  <1>2. ASSUME NEW i \in 1..n, f[i - 1].m = m
        PROVE  f[i].m = m
    <2>1. PICK v, w : v = f[i - 1] /\ w = f[i]
      OBVIOUS
    <2>2. w = ValidateADT(v, i)
      BY <2>1 DEF Chain
    <2>3. v.m = m
      BY <1>2, <2>1
    <2>4. w.m = v.m \/ FreshStep(v.m, w.m, i)
      BY <2>2, <2>3, TypeStep
    <2>. QED
      BY <2>1, <2>3, <2>4 DEF FreshStep
  <1>3. ASSUME T # {} PROVE FALSE
    <2>1. PICK k \in T : \A l \in T : k <= l
      <3> HIDE DEF T
      <3>1. T \in SUBSET Nat
        BY DEF T
      <3>. QED
        BY <1>3, <3>1, LeastNumber
    <2>2. k \in 0..n /\ f[k].m # m
      OBVIOUS
    <2>3. k # 0
      BY <1>1, <2>2
    <2>4. k \in 1..n /\ k - 1 \in 0..n /\ ~(k <= k - 1)
      BY <2>2, <2>3
    <2>5. f[k - 1].m = m
      BY <2>1, <2>4
    <2>. QED
      BY <1>2, <2>2, <2>4, <2>5
  <1>4. n \in 0..n
    OBVIOUS
  <1>. QED
    BY <1>3, <1>4

\* The data types after validation.
LEMMA TypesMarked ==
  ASSUME NEW m, Shape(m), \A j \in 1..Len(m.adts) : Flags(m.adts[j].variables), NEW v, v = ValidateADTs(m)
  PROVE  /\ \A j \in 1..Len(v.m.adts) : Flags(v.m.adts[j].variables)
         /\ v.ok => Marked(v.m.adts) /\ \A j \in 1..Len(v.m.adts) : v.m.adts[j].name \in v.m.allowed
         /\ (\A j \in 1..Len(m.adts) : m.adts[j].name \in m.allowed) => v.m = m
  <1>1. PICK n : n = Len(m.adts)
    OBVIOUS
  <1>2. n \in Nat
    BY <1>1, SeqFacts DEF Shape, IsTypes
  <1>3. PICK f : Chain(f, m, n) /\ ValidateADTs(m) = f[n]
    BY <1>1, <1>2, ADTsChain
  <1>4. n \in 0..n /\ v = f[n]
    BY <1>2, <1>3
  <1>5. Stage(v, n)
    BY <1>1, <1>2, <1>3, <1>4, ChainMarked
  <1>6. Len(v.m.adts) = n
    BY <1>1, <1>2, <1>3, <1>4, ChainProcessed DEF SameTypes
  <1>7. (\A j \in 1..Len(m.adts) : m.adts[j].name \in m.allowed) => v.m = m
    BY <1>1, <1>2, <1>3, <1>4, ChainSame
  <1>8. ASSUME v.ok
        PROVE  Marked(v.m.adts) /\ \A j \in 1..Len(v.m.adts) : v.m.adts[j].name \in v.m.allowed
    <2>1. PICK q : q = v.m
      OBVIOUS
    <2>2. MarkedUpTo(q, n)
      BY <1>5, <1>8, <2>1 DEF Stage
    <2>3. Marked(q.adts) /\ \A j \in 1..Len(q.adts) : q.adts[j].name \in q.allowed
      BY <1>6, <2>1, <2>2 DEF MarkedUpTo, Marked
    <2>. QED
      BY <2>1, <2>3
  <1>. QED
    BY <1>5, <1>7, <1>8 DEF Stage

\* Variables after validation, with data types n.adts.
LEMMA VariablesPlain ==
  ASSUME NEW n, IsSeq(n.adts), NEW vs, IsVariables(vs), Flags(vs), NEW ws, ws = ProcessVariables(n, vs)
  PROVE  /\ Flags(ws)
         /\ Plain(vs, n.adts) => Plain(ws, n.adts)
         /\ ValidateVariablesOK(n, vs, FALSE) => Plain(ws, n.adts)
  <1>1. /\ IsVariables(ws) /\ Len(ws) = Len(vs)
        /\ \A k \in 1..Len(vs) : Rewritten(n.adts, vs[k], ws[k])
    BY VariablesRewritten
  <1>2. Len(vs) \in Nat /\ DOMAIN ws = 1..Len(ws)
    BY <1>1, SeqFacts DEF IsVariables
  <1>3. /\ Flags(vs) => Flags(ws)
        /\ Plain(vs, n.adts) => Plain(ws, n.adts)
        /\ Flags(vs) /\ (\A k \in 1..Len(ws) : ~ws[k].holdsDynamicArray) => Plain(ws, n.adts)
    BY <1>1, <1>2, RewrittenFlags
  <1>4. ASSUME ValidateVariablesOK(n, vs, FALSE)
        PROVE  \A k \in 1..Len(ws) : ~ws[k].holdsDynamicArray
    BY <1>2, <1>4 DEF ValidateVariablesOK, VariableTypeOK
  <1>. QED
    BY <1>3, <1>4

\* A model after validation.
LEMMA ArraysValidated ==
  ASSUME NEW m, Shape(m), Consistent(m)
  PROVE  /\ Consistent(Validated(m).m)
         /\ Validated(m).ok \/ NoDynamic(m) => NoDynamic(Validated(m).m)
  <1>1. PICK v, n, r : v = ValidateADTs(m) /\ n = v.m /\ r = Validated(m).m
    OBVIOUS
  <1>2. /\ Shape(n) /\ SameRest(m, n) /\ SameTypes(m.adts, n.adts)
        /\ r.adts = n.adts /\ r.allowed = n.allowed
        /\ r.constants = ProcessVariables(n, m.constants)
        /\ r.messages = [i \in DOMAIN m.messages |-> ProcessMessage(n, m.messages[i])]
    <2>1. PICK cs, ags, xs : /\ cs = ProcessVariables(n, m.constants)
                             /\ ags = [i \in DOMAIN m.agents |-> ProcessAgent(n, m.agents[i])]
                             /\ xs = [i \in DOMAIN m.messages |-> ProcessMessage(n, m.messages[i])]
      OBVIOUS
    <2>2. n = ValidateADTs(m).m /\ r = Validated(m).m
      BY <1>1
    <2>3. Shape(n) /\ SameRest(m, n) /\ SameTypes(m.adts, n.adts)
      BY <2>1, <2>2, ValidatedParts
    <2>4. r.adts = n.adts /\ r.allowed = n.allowed /\ r.constants = cs /\ r.messages = xs
      BY <2>1, <2>2, ValidatedParts
    <2>. QED
      BY <2>1, <2>3, <2>4
  <1>3. PICK ts, cs, ds, xs, ys : /\ ts = n.adts /\ cs = m.constants /\ ds = r.constants
                                  /\ xs = m.messages /\ ys = r.messages
    OBVIOUS
  <1>4. IsSeq(ts) /\ IsVariables(cs) /\ IsMessages(xs)
    BY <1>2, <1>3 DEF Shape, IsTypes
  <1>5. DOMAIN xs = 1..Len(xs) /\ Len(xs) \in Nat
    BY <1>4, SeqFacts DEF IsMessages
  <1>6. /\ Flags(cs) /\ (\A i \in 1..Len(xs) : Flags(xs[i].variables))
        /\ \A j \in 1..Len(m.adts) : Flags(m.adts[j].variables)
    BY <1>3 DEF Consistent
  <1>7. /\ \A j \in 1..Len(ts) : Flags(ts[j].variables)
        /\ v.ok => Marked(ts) /\ \A j \in 1..Len(ts) : ts[j].name \in n.allowed
        /\ (\A j \in 1..Len(m.adts) : m.adts[j].name \in m.allowed) => n = m
    BY <1>1, <1>3, <1>6, TypesMarked
  <1>8. /\ Flags(ds)
        /\ Plain(cs, ts) => Plain(ds, ts)
        /\ ValidateVariablesOK(n, cs, FALSE) => Plain(ds, ts)
    <2>1. ds = ProcessVariables(n, cs)
      BY <1>2, <1>3
    <2>. QED
      BY <1>3, <1>4, <1>6, <2>1, VariablesPlain
  <1>9. ys = [i \in 1..Len(xs) |-> ProcessMessage(n, xs[i])]
    BY <1>2, <1>3, <1>5
  <1>10. Len(ys) = Len(xs)
    <2>1. ys = [i \in 1..Len(xs) |-> ys[i]]
      BY <1>9
    <2>. QED
      BY <1>5, <2>1, MakeSeq
  <1>11. ASSUME NEW i \in 1..Len(xs)
         PROVE  /\ Flags(ys[i].variables)
                /\ Plain(xs[i].variables, ts) => Plain(ys[i].variables, ts)
                /\ MessageOK(n, xs[i]) => Plain(ys[i].variables, ts)
    <2>1. PICK x, y, vs, ws : x = xs[i] /\ y = ys[i] /\ vs = x.variables /\ ws = ProcessVariables(n, vs)
      OBVIOUS
    <2>2. x = [name |-> x.name, variables |-> x.variables] /\ IsVariables(vs)
      BY <1>4, <2>1 DEF IsMessages, IsMessage
    <2>3. y = [x EXCEPT !.variables = ws]
      BY <1>9, <2>1 DEF ProcessMessage
    <2>4. y.variables = ws
      BY <2>2, <2>3
    <2>5. Flags(vs)
      BY <1>6, <2>1
    <2>6. /\ Flags(ws)
          /\ Plain(vs, ts) => Plain(ws, ts)
          /\ ValidateVariablesOK(n, vs, FALSE) => Plain(ws, ts)
      BY <1>3, <1>4, <2>1, <2>2, <2>5, VariablesPlain
    <2>7. MessageOK(n, x) => ValidateVariablesOK(n, vs, FALSE)
      BY <2>1 DEF MessageOK
    <2>. QED
      BY <2>1, <2>4, <2>6, <2>7
  <1>12. Consistent(r)
    BY <1>2, <1>3, <1>7, <1>8, <1>10, <1>11 DEF Consistent
  <1>13. ASSUME Validated(m).ok PROVE NoDynamic(r)
    <2>1. /\ v.ok /\ ValidateVariablesOK(n, cs, FALSE)
          /\ \A i \in DOMAIN xs : MessageOK(n, xs[i])
      BY <1>1, <1>3, <1>13 DEF Validated
    <2>. QED
      BY <1>2, <1>3, <1>5, <1>7, <1>8, <1>10, <1>11, <2>1 DEF NoDynamic
  <1>14. ASSUME NoDynamic(m) PROVE NoDynamic(r)
    <2>1. n = m
      BY <1>7, <1>14 DEF NoDynamic
    <2>2. /\ Marked(ts) /\ (\A j \in 1..Len(ts) : ts[j].name \in n.allowed)
          /\ Plain(cs, ts) /\ \A i \in 1..Len(xs) : Plain(xs[i].variables, ts)
      BY <1>3, <1>14, <2>1 DEF NoDynamic
    <2>. QED
      BY <1>2, <1>3, <1>8, <1>10, <1>11, <2>2 DEF NoDynamic
  <1>. QED
    BY <1>1, <1>12, <1>13, <1>14

\* What the change of one field means for the flags.
LEMMA ConsistentField ==
  ASSUME NEW m, Shape(m), Consistent(m), NEW n, NEW x
  PROVE  /\ n = [m EXCEPT !.name = x] \/ n = [m EXCEPT !.timeUnits = x] \/ n = [m EXCEPT !.functionFiles = x]
            \/ n = [m EXCEPT !.agents = x] \/ n = [m EXCEPT !.included = x] => Consistent(n)
         /\ n = [m EXCEPT !.constants = x] /\ Flags(x) => Consistent(n)
         /\ n = [m EXCEPT !.messages = x] /\ (\A i \in 1..Len(x) : Flags(x[i].variables)) => Consistent(n)
         /\ n = [m EXCEPT !.adts = x] /\ (\A i \in 1..Len(x) : Flags(x[i].variables)) => Consistent(n)
  <1>1. m = [name |-> m.name, constants |-> m.constants, adts |-> m.adts, timeUnits |-> m.timeUnits,
             functionFiles |-> m.functionFiles, agents |-> m.agents, messages |-> m.messages,
             allowed |-> m.allowed, included |-> m.included]
    BY DEF Shape, IsModel
  <1>2. ASSUME n.constants = m.constants, n.messages = m.messages, n.adts = m.adts
        PROVE  Consistent(n)
    BY <1>2 DEF Consistent
  <1>3. CASE n = [m EXCEPT !.name = x]
    BY <1>1, <1>2, <1>3
  <1>4. CASE n = [m EXCEPT !.timeUnits = x]
    BY <1>1, <1>2, <1>4
  <1>5. CASE n = [m EXCEPT !.functionFiles = x]
    BY <1>1, <1>2, <1>5
  <1>6. CASE n = [m EXCEPT !.agents = x]
    BY <1>1, <1>2, <1>6
  <1>7. CASE n = [m EXCEPT !.included = x]
    BY <1>1, <1>2, <1>7
  <1>8. ASSUME n = [m EXCEPT !.constants = x], Flags(x) PROVE Consistent(n)
    <2>1. n.constants = x /\ n.messages = m.messages /\ n.adts = m.adts
      BY <1>1, <1>8
    <2>. QED
      BY <1>8, <2>1 DEF Consistent
  <1>9. ASSUME n = [m EXCEPT !.messages = x], \A i \in 1..Len(x) : Flags(x[i].variables)
        PROVE  Consistent(n)
    <2>1. n.constants = m.constants /\ n.messages = x /\ n.adts = m.adts
      BY <1>1, <1>9
    <2>. QED
      BY <1>9, <2>1 DEF Consistent
  <1>10. ASSUME n = [m EXCEPT !.adts = x], \A i \in 1..Len(x) : Flags(x[i].variables)
         PROVE  Consistent(n)
    <2>1. n.constants = m.constants /\ n.messages = m.messages /\ n.adts = x
      BY <1>1, <1>10
    <2>. QED
      BY <1>10, <2>1 DEF Consistent
  <1>. QED
    BY <1>3, <1>4, <1>5, <1>6, <1>7, <1>8, <1>9, <1>10

\* A variable that was added, and a part with variables that was added or changed.
LEMMA FlagsPushed ==
  ASSUME NEW s, NEW t, NEW x, Len(s) \in Nat, Pushed(s, t, x)
  PROVE  /\ Flags(s) /\ ~x.isDynamicArray => Flags(t)
         /\ (\A i \in 1..Len(s) : Flags(s[i].variables)) /\ Flags(x.variables) =>
              \A i \in 1..Len(t) : Flags(t[i].variables)
  <1>1. PICK n : n = Len(s)
    OBVIOUS
  <1>2. Len(t) = n + 1 /\ \A i \in 1..(n + 1) : (i \in 1..n /\ t[i] = s[i]) \/ t[i] = x
    BY <1>1 DEF Pushed
  <1>3. ASSUME Flags(s), ~x.isDynamicArray PROVE Flags(t)
    BY <1>1, <1>2, <1>3 DEF Flags
  <1>4. ASSUME \A i \in 1..Len(s) : Flags(s[i].variables), Flags(x.variables)
        PROVE  \A i \in 1..Len(t) : Flags(t[i].variables)
    BY <1>1, <1>2, <1>4
  <1>. QED
    BY <1>3, <1>4

\* Variables that were read have no flags.
LEMMA FlagsRead ==
  /\ \A e : ~ReadVariable(e).isDynamicArray
  /\ \A s : IsSeq(s) => Flags(ReadVariables(s))
  /\ Flags(<<>>)
  <1>1. \A e : ~ReadVariable(e).isDynamicArray
    BY DEF ReadVariable
  <1>2. ASSUME NEW s, IsSeq(s) PROVE Flags(ReadVariables(s))
    <2>1. PICK t : t = ReadVariables(s)
      OBVIOUS
    <2>2. DOMAIN s = 1..Len(s)
      BY <1>2, SeqFacts
    <2>3. Len(t) = Len(s)
      BY <1>2, <2>1, ReadVariablesShape
    <2>4. \A i \in 1..Len(s) : t[i] = ReadVariable(s[i])
      BY <2>1, <2>2 DEF ReadVariables
    <2>5. Flags(t)
      BY <1>1, <2>3, <2>4 DEF Flags
    <2>. QED
      BY <2>1, <2>5
  <1>3. Flags(<<>>)
    <2>1. Len(<<>>) = 0 /\ 1..0 = {}
      BY ShortSeqs
    <2>. QED
      BY <2>1 DEF Flags
  <1>. QED
    BY <1>1, <1>2, <1>3

\* Reading keeps the flags consistent.
LEMMA ConsistentRead ==
  ASSUME NEW m, Shape(m), Consistent(m), NEW e, Ordered(e)
  PROVE  Consistent(ReadElement(m, e))
  <1>1. PICK n : n = ReadElement(m, e)
    OBVIOUS
  <1>2. IsSeq(m.constants) /\ IsSeq(m.adts) /\ IsSeq(m.messages)
    BY DEF Shape, IsVariables, IsTypes, IsMessages
  <1>3. /\ Flags(m.constants) /\ (\A i \in 1..Len(m.messages) : Flags(m.messages[i].variables))
        /\ \A i \in 1..Len(m.adts) : Flags(m.adts[i].variables)
    BY DEF Consistent
  <1>4. CASE e.tag = "xagent"
    <2>1. PICK l, i, b : l = AddAgent(m, e.name) /\ i = AgentAt(l, e.name) /\ b = AddToAgent(l.agents[i], e)
      OBVIOUS
    <2>2. n = SetAgent(l, i, b)
      BY <1>1, <1>4, <2>1 DEF ReadElement, ReadAgent
    <2>3. PICK x : l = [m EXCEPT !.agents = x]
      BY <2>1 DEF AddAgent
    <2>4. Shape(l) /\ Consistent(l)
      <3>1. Shape(l)
        BY <2>1, AgentAdded
      <3>2. Consistent(l)
        BY <2>3, ConsistentField
      <3>. QED
        BY <3>1, <3>2
    <2>5. PICK y : n = [l EXCEPT !.agents = y]
      BY <2>2 DEF SetAgent
    <2>. QED
      BY <1>1, <2>4, <2>5, ConsistentField
  <1>5. CASE e.tag = "name"
    <2>1. PICK x : n = [m EXCEPT !.name = x]
      BY <1>1, <1>5 DEF ReadElement, SetName
    <2>. QED
      BY <1>1, <2>1, ConsistentField
  <1>6. CASE e.tag = "message"
    <2>1. PICK x, y, vs : vs = ReadVariables(e.variables) /\ x = [name |-> e.name, variables |-> vs]
                            /\ y = Append(m.messages, x)
      OBVIOUS
    <2>2. n = [m EXCEPT !.messages = y]
      BY <1>1, <1>6, <2>1 DEF ReadElement, ReadMessage
    <2>3. IsSeq(e.variables)
      BY <1>6 DEF Ordered
    <2>4. Flags(vs) /\ x.variables = vs
      BY <2>1, <2>3, FlagsRead
    <2>5. Pushed(m.messages, y, x) /\ Len(m.messages) \in Nat
      BY <1>2, <2>1, AppendPushes, SeqFacts
    <2>6. \A i \in 1..Len(y) : Flags(y[i].variables)
      BY <1>3, <2>4, <2>5, FlagsPushed
    <2>. QED
      BY <1>1, <2>2, <2>6, ConsistentField
  <1>7. CASE e.tag = "constant"
    <2>1. PICK x, y : x = ReadVariable(e.variable) /\ y = Append(m.constants, x)
      OBVIOUS
    <2>2. n = [m EXCEPT !.constants = y]
      BY <1>1, <1>7, <2>1 DEF ReadElement, ReadEnvironment
    <2>3. ~x.isDynamicArray
      BY <2>1, FlagsRead
    <2>4. Pushed(m.constants, y, x) /\ Len(m.constants) \in Nat
      BY <1>2, <2>1, AppendPushes, SeqFacts
    <2>5. Flags(y)
      BY <1>3, <2>3, <2>4, FlagsPushed
    <2>. QED
      BY <1>1, <2>2, <2>5, ConsistentField
  <1>8. CASE e.tag = "dataType"
    <2>1. PICK x, y, vs : /\ vs = ReadVariables(e.variables)
                          /\ x = [name |-> e.name, holdsDynamicArray |-> FALSE, variables |-> vs]
                          /\ y = Append(m.adts, x)
      OBVIOUS
    <2>2. n = [m EXCEPT !.adts = y]
      BY <1>1, <1>8, <2>1 DEF ReadElement, ReadEnvironment, ReadDataType
    <2>3. IsSeq(e.variables)
      BY <1>8 DEF Ordered
    <2>4. Flags(vs) /\ x.variables = vs
      BY <2>1, <2>3, FlagsRead
    <2>5. Pushed(m.adts, y, x) /\ Len(m.adts) \in Nat
      BY <1>2, <2>1, AppendPushes, SeqFacts
    <2>6. \A i \in 1..Len(y) : Flags(y[i].variables)
      BY <1>3, <2>4, <2>5, FlagsPushed
    <2>. QED
      BY <1>1, <2>2, <2>6, ConsistentField
  <1>9. CASE e.tag = "timeUnit"
    <2>1. PICK x : n = [m EXCEPT !.timeUnits = x]
      BY <1>1, <1>9 DEF ReadElement, ReadEnvironment, ReadTimeUnit, AddTimeUnit
    <2>. QED
      BY <1>1, <2>1, ConsistentField
  <1>10. CASE e.tag = "file"
    <2>1. PICK x : n = [m EXCEPT !.functionFiles = x]
      BY <1>1, <1>10 DEF ReadElement, ReadEnvironment, ReadFunctionFile
    <2>. QED
      BY <1>1, <2>1, ConsistentField
  <1>11. CASE e.tag \notin {"xagent", "name", "message", "constant", "dataType", "timeUnit", "file"}
    <2>1. n = m
      BY <1>1, <1>11 DEF ReadElement
    <2>. QED
      BY <1>1, <2>1
  <1>. QED
    BY <1>4, <1>5, <1>6, <1>7, <1>8, <1>9, <1>10, <1>11

\* So does editing.
LEMMA ConsistentEdited ==
  ASSUME NEW m, Shape(m), Consistent(m), NEW c, c.call \in EditCalls, ~EditThrows(m, c)
  PROVE  Consistent(Edited(m, c))
  <1>1. PICK n, xs, x : n = Edited(m, c) /\ xs = EditMessages(m, c) /\ x = MessageAt(m, c.agent)
    OBVIOUS
  <1>2. IsMessages(m.messages) /\ IsSeq(m.messages) /\ \A i \in 1..Len(m.messages) : Flags(m.messages[i].variables)
    BY DEF Shape, IsMessages, Consistent
  <1>3. Len(m.messages) \in Nat
    BY <1>2, SeqFacts
  <1>4. CASE c.call = "addAgent"
    <2>1. PICK y : n = [m EXCEPT !.agents = y]
      BY <1>1, <1>4 DEF Edited, AddAgent
    <2>. QED
      BY <1>1, <2>1, ConsistentField
  <1>5. CASE c.call \in {"addAgentVariable", "addAgentFunction"} \union FunctionCalls
    <2>1. PICK k, b : n = SetAgent(m, k, b)
      BY <1>1, <1>5 DEF Edited, FunctionCalls
    <2>2. PICK y : n = [m EXCEPT !.agents = y]
      BY <2>1 DEF SetAgent
    <2>. QED
      BY <1>1, <2>2, ConsistentField
  <1>6. CASE c.call = "addMessage"
    <2>1. PICK y : y = [name |-> c.name, variables |-> <<>>]
      OBVIOUS
    <2>2. n = [m EXCEPT !.messages = xs] /\ xs = Append(m.messages, y)
      BY <1>1, <1>6, <2>1 DEF Edited, EditMessages
    <2>3. y.variables = <<>> /\ Flags(<<>>)
      BY <2>1, FlagsRead
    <2>4. Pushed(m.messages, xs, y)
      BY <1>2, <2>2, AppendPushes
    <2>5. Flags(y.variables)
      BY <2>3
    <2>6. \A i \in 1..Len(xs) : Flags(xs[i].variables)
      BY <1>2, <1>3, <2>4, <2>5, FlagsPushed
    <2>. QED
      BY <1>1, <2>2, <2>6, ConsistentField
  <1>7. CASE c.call = "addMessageVariable"
    <2>1. PICK y, v, vs, z : /\ y = m.messages[x] /\ v = NewVariable(c.type, c.name) /\ vs = Append(y.variables, v)
                             /\ z = [y EXCEPT !.variables = vs]
      OBVIOUS
    <2>2. n = [m EXCEPT !.messages = xs] /\ xs = [m.messages EXCEPT ![x] = z]
      BY <1>1, <1>7, <2>1 DEF Edited, EditMessages
    <2>3. x # 0
      BY <1>1, <1>7 DEF EditThrows
    <2>4. x \in 0..Len(m.messages)
      BY <1>1, <1>2, FoundAt
    <2>5. x \in 1..Len(m.messages)
      BY <1>3, <2>3, <2>4
    <2>6. y = [name |-> y.name, variables |-> y.variables] /\ IsSeq(y.variables) /\ Flags(y.variables)
      BY <1>2, <2>1, <2>5 DEF IsMessages, IsMessage, IsVariables
    <2>7. Len(y.variables) \in Nat
      BY <2>6, SeqFacts
    <2>8. Pushed(y.variables, vs, v)
      BY <2>1, <2>6, AppendPushes
    <2>9. ~v.isDynamicArray
      BY <2>1, FlagsRead DEF NewVariable
    <2>10. Flags(vs)
      BY <2>6, <2>7, <2>8, <2>9, FlagsPushed
    <2>11. z.variables = vs
      BY <2>1, <2>6
    <2>12. Replaced(m.messages, xs, x, z)
      BY <1>2, <2>2, <2>5, ExceptReplaces
    <2>13. Len(xs) = Len(m.messages) /\ xs[x] = z /\ \A i \in 1..Len(m.messages) : i # x => xs[i] = m.messages[i]
      BY <2>12 DEF Replaced
    <2>14. \A i \in 1..Len(xs) : Flags(xs[i].variables)
      BY <1>2, <2>10, <2>11, <2>13
    <2>. QED
      BY <1>1, <2>2, <2>14, ConsistentField
  <1>. QED
    BY <1>4, <1>5, <1>6, <1>7 DEF EditCalls, FunctionCalls

\* The flags are consistent always, and a validated model has no dynamic arrays.
LEMMA ArrayKeeps ==
  ASSUME ReaderInv, ValidInv, ArrayInv, [Next]_vars
  PROVE  ArrayInv'
  <1>1. Shape(xmodel) /\ Consistent(xmodel)
    BY DEF ReaderInv, ArrayInv
  <1>2. CASE Read
    <2>1. reading = "reading" /\ UNCHANGED <<object, validated>>
      BY <1>2 DEF Read, ReaderNext, OpenFile, ReadContent, ReadIncludedModel, CloseFile, Unwind, Failed, AtElement, modelVars
    <2>2. ~validated
      BY <2>1 DEF ReaderInv, ValidInv, NotBefore
    <2>3. \/ xmodel' = xmodel \/ (AtElement /\ xmodel' = ReadElement(xmodel, Element))
          \/ xmodel' = [xmodel EXCEPT !.included = Append(@, PathOf(Top.path, Element.file))]
      BY <1>2 DEF Read, ReaderNext, OpenFile, ReadContent, ReadIncludedModel, CloseFile, Unwind, Failed
    <2>4. Consistent(xmodel')
      <3>1. CASE AtElement /\ xmodel' = ReadElement(xmodel, Element)
        BY <1>1, <3>1, ElementOrdered, ConsistentRead
      <3>2. CASE xmodel' = [xmodel EXCEPT !.included = Append(@, PathOf(Top.path, Element.file))]
        <4>1. PICK x : xmodel' = [xmodel EXCEPT !.included = x]
          BY <3>2
        <4>. QED
          BY <1>1, <4>1, ConsistentField
      <3>. QED
        BY <1>1, <2>3, <3>1, <3>2
    <2>. QED
      BY <2>1, <2>2, <2>4 DEF ArrayInv
  <1>3. ASSUME RunValidation
        PROVE  Consistent(xmodel') /\ (Validated(xmodel).ok \/ validated => NoDynamic(xmodel'))
    <2>1. xmodel' = Validated(xmodel).m
      BY <1>3 DEF RunValidation
    <2>. QED
      BY <1>1, <2>1, ArraysValidated DEF ArrayInv
  <1>4. CASE Construct
    <2>1. CASE reading = "failed"
      <3>1. UNCHANGED <<xmodel, validated>>
        BY <1>4, <2>1 DEF Construct, readerVars
      <3>. QED
        BY <3>1 DEF ArrayInv
    <2>2. CASE reading # "failed"
      <3>1. RunValidation /\ validated' = Validated(xmodel).ok
        BY <1>4, <2>2 DEF Construct
      <3>. QED
        BY <1>3, <3>1 DEF ArrayInv
    <2>. QED
      BY <2>1, <2>2
  <1>5. CASE Validate
    <2>1. RunValidation /\ validated' = (validated \/ Validated(xmodel).ok)
      BY <1>5 DEF Validate
    <2>. QED
      BY <1>3, <2>1 DEF ArrayInv
  <1>6. CASE EditModel
    <2>1. ~validated'
      BY <1>6 DEF EditModel, ResetsValidated
    <2>2. PICK c \in Edits : ~EditThrows(xmodel, c) /\ xmodel' = Edited(xmodel, c)
      BY <1>6 DEF EditModel
    <2>3. Consistent(xmodel')
      BY <1>1, <2>2, ConsistentEdited, EditsAssumption
    <2>. QED
      BY <2>1, <2>3 DEF ArrayInv
  <1>7. CASE RegisterAgentFunction \/ RegisterMessageType \/ NewSimulation \/ Start \/ UNCHANGED vars
    <2>1. UNCHANGED <<xmodel, validated>>
      BY <1>7 DEF RegisterAgentFunction, RegisterMessageType, NewSimulation, Start, vars, modelVars, readerVars
    <2>. QED
      BY <2>1 DEF ArrayInv
  <1>. QED
    BY <1>2, <1>4, <1>5, <1>6, <1>7 DEF Next

\* Messages and constants of a validated model have no dynamic array in them, at any
\* depth of data types, whatever files and calls made the model: validateADT() marks
\* data types in the order in which they may be used.
THEOREM NoDynamicMessagesHolds == Spec => []NoDynamicMessages
  <1>1. Init => ArrayInv
    <2> SUFFICES ASSUME Init PROVE ArrayInv
      OBVIOUS
    <2>1. xmodel = EmptyModel /\ ~validated
      BY DEF Init, ReaderInit
    <2>2. xmodel.constants = <<>> /\ xmodel.messages = <<>> /\ xmodel.adts = <<>>
      BY <2>1 DEF EmptyModel
    <2>3. Flags(<<>>) /\ Len(<<>>) = 0 /\ 1..0 = {}
      BY FlagsRead, ShortSeqs
    <2>. QED
      BY <2>1, <2>2, <2>3 DEF ArrayInv, Consistent
  <1>2. ReaderInv /\ ValidInv /\ ArrayInv /\ [Next]_vars => ArrayInv'
    BY ArrayKeeps
  <1>3. Init => ValidInv
    BY DEF Init, ValidInv, NotBefore, ValidatedWellFormed
  <1>4. ReaderInv /\ ValidInv /\ [Next]_vars => ValidInv'
    BY ValidKeeps
  <1>5. ReaderInv /\ ArrayInv => NoDynamicMessages
    <2> SUFFICES ASSUME ReaderInv, ArrayInv, validated PROVE PlainData(xmodel)
      BY DEF NoDynamicMessages, PlainData
    <2>1. Shape(xmodel) /\ NoDynamic(xmodel)
      BY DEF ReaderInv, ArrayInv
    <2>. QED
      BY <2>1, NoDynamicPlain
  <1>. QED
    BY <1>1, <1>2, <1>3, <1>4, <1>5, ReaderInvariant, PTL DEF Spec

=============================================================================
