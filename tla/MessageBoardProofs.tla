------------------------ MODULE MessageBoardProofs --------------------------
(***************************************************************************)
(* The message board gives every reader the messages of its iteration, for *)
(* every set of functions, parts and messages whose tasks are ordered.     *)
(***************************************************************************)
EXTENDS MessageBoard, TaskGraphProofs

Writers == Clients \X (1..MaxIterations)
Messages == Writers \X Nat

\* Types, and the bounds of the iterations.
TypeInv ==
  /\ deps = Dependencies
  /\ status \in [BoardTasks -> {"waiting", "running", "finished"}]
  /\ iteration \in 1..MaxIterations
  /\ part \in [Clients -> {"new", "posting", "done"}]
  /\ data_ \in Seq(Messages) /\ capacity \in Nat /\ buffer \in Nat
  /\ writers_ \in Seq(Writers)
  /\ messages \in [Writers -> Seq(Messages)]
  /\ connected_ \in [Writers -> BOOLEAN]
  /\ cursor \in [Reads -> [count_ : Nat, pos_ : Nat, memory : Nat]]
  /\ got \in [Reads -> Seq(Messages)]
  /\ posted \in SUBSET Messages

\* A task starts when all it depends on has finished.
Respects(st) ==
  \A t \in BoardTasks : st[t] # "waiting" => \A d \in Dependencies[t] : st[d] = "finished"

\* Parts are at work while their task runs, and done when it has finished.
PartInv ==
  \A c \in Clients : /\ part[c] # "new" => status[c[1]] # "waiting"
                     /\ status[c[1]] = "finished" => part[c] = "done"

\* Until Sync() ends, the board is empty and knows the writers of this iteration, which
\* are connected until Sync() begins; afterwards it knows none.
WriterInv ==
  /\ status[Sync] # "finished" =>
       /\ data_ = <<>>
       /\ Injective(writers_)
       /\ Issued = {Writer(c) : c \in {d \in Clients : part[d] # "new"}}
  /\ status[Sync] = "waiting" => \A c \in Clients : part[c] # "new" => connected_[Writer(c)]
  /\ status[Sync] = "finished" => writers_ = <<>>

\* A writer's messages carry its name and number; until Sync() ends the messages posted
\* are in the writers of this iteration.
BufferInv ==
  /\ \A w \in Writers : \A k \in 1..Len(messages[w]) : messages[w][k] = <<w, k>>
  /\ \A w \in Writers :
       (w[2] > iteration \/ (w[2] = iteration /\ part[w[1]] = "new")) => messages[w] = <<>>
  /\ status[Sync] # "finished" =>
       posted = UNION {Elements(messages[Writer(c)]) : c \in Clients}

\* Between Sync() and Clear() the board holds the messages posted, each once.
DataInv ==
  /\ (status[Sync] = "finished" /\ status[Clear] # "finished") =>
       Injective(data_) /\ Elements(data_) = posted
  /\ status[Clear] = "finished" => data_ = <<>>
  /\ Len(data_) <= capacity

\* An iterator in use points into the board and its reader has what lies before it; a
\* reader that has finished got all the messages posted.
ReadInv ==
  \A f \in Reads :
    /\ status[f] = "waiting" => got[f] = <<>> /\ cursor[f].pos_ <= cursor[f].count_
    /\ status[f] = "running" =>
         /\ cursor[f].memory = buffer
         /\ cursor[f].count_ = Len(data_) /\ cursor[f].pos_ <= Len(data_)
         /\ Len(got[f]) = cursor[f].pos_
         /\ \A k \in 1..cursor[f].pos_ : got[f][k] = data_[k]
    /\ status[f] = "finished" =>
         /\ cursor[f].pos_ = cursor[f].count_
         /\ Injective(got[f]) /\ Elements(got[f]) = posted

IInv ==
  /\ TypeInv /\ Respects(status)
  /\ PartInv /\ WriterInv /\ BufferInv /\ DataInv /\ ReadInv

-----------------------------------------------------------------------------
(***************************************************************************)
(* The order of the tasks.                                                 *)
(***************************************************************************)
Statuses == {"waiting", "running", "finished"}

\* Sync, clear, posting and reading tasks are different tasks of the board.
LEMMA TaskNames ==
  /\ Sync \in BoardTasks /\ Clear \in BoardTasks /\ Sync # Clear
  /\ Posts \subseteq BoardTasks /\ Reads \subseteq BoardTasks
  /\ \A f \in Posts \union Reads : f # Sync /\ f # Clear
  /\ \A f \in Posts : f \notin Reads
  BY ModelAssumption DEF BoardTasks, Sync, Clear

\* Dependencies are tasks.
LEMMA DependencyTasks ==
  \A t \in BoardTasks : Dependencies[t] \subseteq BoardTasks
  <1>1. ASSUME NEW a \in Agents
        PROVE  \A e \in Reduced(AgentGraph(a)).edge : e[1] \in BoardTasks /\ e[2] \in BoardTasks
    <2>1. PICK G : G = AgentGraph(a)
      OBVIOUS
    <2>2. Reduced(G).edge \subseteq G.edge
      <3>1. G = [node |-> G.node, edge |-> G.edge]
        BY <2>1 DEF AgentGraph
      <3>. QED
        BY <3>1 DEF Reduced
    <2>3. \A e \in G.edge : e[1] \in BoardTasks /\ e[2] \in BoardTasks
      BY <2>1, ModelAssumption DEF AgentGraph, BoardTasks
    <2>. QED
      BY <2>1, <2>2, <2>3
  <1>2. \A e \in Merged : e[1] \in BoardTasks /\ e[2] \in BoardTasks
    BY <1>1 DEF Merged
  <1>3. \A e \in ClearEdges : e[1] \in BoardTasks
    BY <1>2 DEF ClearEdges
  <1>. QED
    BY <1>2, <1>3 DEF Dependencies

\* A task that has started comes after finished ones.
LEMMA StartedAfter ==
  ASSUME NEW st \in [BoardTasks -> Statuses], Respects(st),
         NEW t \in BoardTasks, st[t] # "waiting", NEW s, Precedes(s, t), s # t
  PROVE  s \in BoardTasks /\ st[s] = "finished"
  <1> DEFINE S == {u \in BoardTasks : st[u] = "finished"} \union {t}
  <1>1. S \in SUBSET BoardTasks /\ t \in S
    OBVIOUS
  <1>2. \A u \in S : Dependencies[u] \subseteq S
    BY DependencyTasks DEF Respects
  <1>3. s \in S
    BY <1>1, <1>2 DEF Precedes
  <1>. QED
    BY <1>3

\* Who can be at work when: in an ordered graph posting tasks finish before Sync()
\* begins, reading tasks begin after it ends and finish before Clear() begins.
LEMMA WhoRuns ==
  ASSUME Ordered, NEW st \in [BoardTasks -> Statuses], Respects(st)
  PROVE  /\ st[Sync] # "waiting" => \A f \in Posts : st[f] = "finished"
         /\ \A f \in Reads : st[f] # "waiting" => st[Sync] = "finished"
         /\ st[Clear] # "waiting" =>
              st[Sync] = "finished" /\ \A f \in Reads : st[f] = "finished"
  BY StartedAfter, TaskNames DEF Ordered

\* A task that starts has what it depends on behind it, so the order is still respected.
LEMMA StartRespects ==
  ASSUME TypeInv, Respects(status), NEW t \in BoardTasks, It!Start(t)
  PROVE  /\ status' = [status EXCEPT ![t] = "running"] /\ status[t] = "waiting"
         /\ status' \in [BoardTasks -> Statuses] /\ Respects(status')
         /\ UNCHANGED <<deps, iteration>>
  <1>1. /\ status' = [status EXCEPT ![t] = "running"] /\ status[t] = "waiting"
        /\ \A d \in Dependencies[t] : status[d] = "finished"
        /\ UNCHANGED <<deps, iteration>>
    BY DEF It!Start, TypeInv
  <1>2. status \in [BoardTasks -> Statuses]
    BY DEF TypeInv, Statuses
  <1>3. \A u \in BoardTasks : status'[u] = IF u = t THEN "running" ELSE status[u]
    BY <1>1, <1>2
  <1>4. \A d \in BoardTasks : status[d] = "finished" => status'[d] = "finished"
    BY <1>1, <1>3
  <1>5. Respects(status')
    BY <1>1, <1>3, <1>4, DependencyTasks DEF Respects
  <1>. QED
    BY <1>1, <1>2, <1>5 DEF Statuses

\* The end of a task keeps the order that is respected.
LEMMA FinishRespects ==
  ASSUME TypeInv, Respects(status), NEW t \in BoardTasks, It!Finish(t)
  PROVE  /\ status' = [status EXCEPT ![t] = "finished"] /\ status[t] = "running"
         /\ status' \in [BoardTasks -> Statuses] /\ Respects(status')
         /\ UNCHANGED <<deps, iteration>>
  <1>1. /\ status' = [status EXCEPT ![t] = "finished"] /\ status[t] = "running"
        /\ UNCHANGED <<deps, iteration>>
    BY DEF It!Finish
  <1>2. status \in [BoardTasks -> Statuses]
    BY DEF TypeInv, Statuses
  <1>3. \A u \in BoardTasks : status'[u] = IF u = t THEN "finished" ELSE status[u]
    BY <1>1, <1>2
  <1>4. Respects(status')
    BY <1>1, <1>3, DependencyTasks DEF Respects
  <1>. QED
    BY <1>1, <1>2, <1>4 DEF Statuses

-----------------------------------------------------------------------------
(***************************************************************************)
(* What a step that leaves the board, or the readers, alone preserves.     *)
(***************************************************************************)
BoardInv == WriterInv /\ BufferInv /\ DataInv

\* A step that leaves the board, the parts and what was posted alone keeps the board's
\* invariant.
LEMMA BoardFrame ==
  ASSUME BoardInv, status'[Sync] = status[Sync], status'[Clear] = status[Clear],
         UNCHANGED <<boardVars, part, posted, iteration>>
  PROVE  BoardInv'
  BY DEF BoardInv, WriterInv, BufferInv, DataInv, boardVars, Issued, Writer

\* A step that leaves the memory of the board and the readers alone keeps theirs.
LEMMA ReadFrame ==
  ASSUME ReadInv, \A f \in Reads : status'[f] = status[f],
         UNCHANGED <<data_, buffer, cursor, got, posted>>
  PROVE  ReadInv'
  BY DEF ReadInv

\* What the order of the tasks says of the statuses in any state of the invariant.
LEMMA OrderNow ==
  ASSUME Ordered, IInv
  PROVE  /\ status \in [BoardTasks -> Statuses]
         /\ status[Sync] # "waiting" => \A f \in Posts : status[f] = "finished"
         /\ \A f \in Reads : status[f] # "waiting" => status[Sync] = "finished"
         /\ status[Clear] # "waiting" =>
              status[Sync] = "finished" /\ \A f \in Reads : status[f] = "finished"
  <1>1. status \in [BoardTasks -> Statuses] /\ Respects(status)
    BY DEF IInv, TypeInv, Statuses
  <1>. QED
    BY <1>1, WhoRuns

\* A client of an iteration has one writer, and no two clients have the same.
LEMMA ClientTypes ==
  ASSUME IInv
  PROVE  /\ \A c \in Clients : c[1] \in Posts /\ Writer(c) \in Writers /\ Writer(c) = <<c, iteration>>
         /\ \A c, d \in Clients : Writer(c) = Writer(d) => c = d
  <1>1. iteration \in 1..MaxIterations
    BY DEF IInv, TypeInv
  <1>. QED
    BY <1>1 DEF Clients, Writers, Writer

\* The start of a posting function preserves the invariant.
LEMMA StartPostingStep ==
  ASSUME IInv, NEW f \in Posts, StartPosting(f)
  PROVE  IInv'
  <1>1. /\ f \in BoardTasks /\ f # Sync /\ f # Clear /\ f \notin Reads /\ Sync \in BoardTasks
        /\ Clear \in BoardTasks /\ Reads \subseteq BoardTasks /\ Posts \subseteq BoardTasks
    BY TaskNames
  <1>2. /\ status' = [status EXCEPT ![f] = "running"] /\ status[f] = "waiting"
        /\ status' \in [BoardTasks -> Statuses] /\ Respects(status')
        /\ UNCHANGED <<deps, iteration, boardVars, clientVars>>
    BY <1>1, StartRespects DEF IInv, StartPosting
  <1>3. \A t \in BoardTasks : status'[t] = IF t = f THEN "running" ELSE status[t]
    BY <1>2 DEF IInv, TypeInv
  <1>4. TypeInv'
    BY <1>2 DEF IInv, TypeInv, Statuses, boardVars, clientVars
  <1>5. PartInv'
    BY <1>1, <1>2, <1>3, ClientTypes DEF IInv, PartInv, clientVars
  <1>6. BoardInv'
    BY <1>1, <1>2, <1>3, BoardFrame DEF IInv, BoardInv, clientVars
  <1>7. ReadInv'
    BY <1>1, <1>2, <1>3, ReadFrame DEF IInv, boardVars, clientVars
  <1>. QED
    BY <1>2, <1>4, <1>5, <1>6, <1>7 DEF IInv, BoardInv

\* The end of a posting function, when all its parts are done, preserves the invariant.
LEMMA FinishPostingStep ==
  ASSUME IInv, NEW f \in Posts, FinishPosting(f)
  PROVE  IInv'
  <1>1. /\ f \in BoardTasks /\ f # Sync /\ f # Clear /\ f \notin Reads /\ Sync \in BoardTasks
        /\ Clear \in BoardTasks /\ Reads \subseteq BoardTasks /\ Posts \subseteq BoardTasks
    BY TaskNames
  <1>2. /\ status' = [status EXCEPT ![f] = "finished"] /\ status[f] = "running"
        /\ status' \in [BoardTasks -> Statuses] /\ Respects(status')
        /\ UNCHANGED <<deps, iteration, boardVars, clientVars>>
    BY <1>1, FinishRespects DEF IInv, FinishPosting
  <1>3. \A t \in BoardTasks : status'[t] = IF t = f THEN "finished" ELSE status[t]
    BY <1>2 DEF IInv, TypeInv
  <1>4. TypeInv'
    BY <1>2 DEF IInv, TypeInv, Statuses, boardVars, clientVars
  <1>5. PartInv'
    <2>1. \A c \in Clients : c[1] = f => part[c] = "done"
      BY DEF FinishPosting, Clients
    <2>. QED
      BY <1>1, <1>2, <1>3, <2>1, ClientTypes DEF IInv, PartInv, clientVars
  <1>6. BoardInv'
    BY <1>1, <1>2, <1>3, BoardFrame DEF IInv, BoardInv, clientVars
  <1>7. ReadInv'
    BY <1>1, <1>2, <1>3, ReadFrame DEF IInv, boardVars, clientVars
  <1>. QED
    BY <1>2, <1>4, <1>5, <1>6, <1>7 DEF IInv, BoardInv

\* GetBoardWriter() issues a new, empty, connected writer before the sync task starts.
LEMMA GetBoardWriterStep ==
  ASSUME Ordered, IInv, NEW c \in Clients, GetBoardWriter(c)
  PROVE  IInv'
  <1>1. PICK w : w = Writer(c)
    OBVIOUS
  <1>2. /\ w \in Writers /\ c[1] \in Posts
        /\ \A d \in Clients : Writer(d) \in Writers /\ (Writer(d) = w => d = c)
    BY <1>1, ClientTypes
  <1>3. /\ status[c[1]] = "running" /\ part[c] = "new"
        /\ writers_' = Append(writers_, w)
        /\ connected_' = [connected_ EXCEPT ![w] = TRUE]
        /\ part' = [part EXCEPT ![c] = "posting"]
        /\ UNCHANGED <<deps, status, iteration, data_, capacity, buffer, messages, cursor, got, posted>>
    BY <1>1 DEF GetBoardWriter, iterVars
  <1>4. status[Sync] = "waiting"
    BY <1>2, <1>3, OrderNow, TaskNames DEF Statuses
  <1>5. /\ writers_ \in Seq(Writers) /\ connected_ \in [Writers -> BOOLEAN]
        /\ part \in [Clients -> {"new", "posting", "done"}]
        /\ data_ = <<>> /\ Injective(writers_)
        /\ Elements(writers_) = {Writer(d) : d \in {e \in Clients : part[e] # "new"}}
    BY <1>4 DEF IInv, TypeInv, WriterInv, Issued, Elements
  <1>6. w \notin Elements(writers_)
    BY <1>2, <1>3, <1>5
  <1>7. /\ writers_' \in Seq(Writers) /\ Elements(writers_') = Elements(writers_) \union {w}
        /\ Injective(writers_')
    BY <1>2, <1>3, <1>5, <1>6, AppendElements
  <1>8. \A d \in Clients : part'[d] = IF d = c THEN "posting" ELSE part[d]
    BY <1>3, <1>5
  <1>9. TypeInv'
    BY <1>2, <1>3, <1>5, <1>7 DEF IInv, TypeInv
  <1>10. PartInv'
    BY <1>3, <1>8 DEF IInv, PartInv
  <1>11. WriterInv'
    <2>1. Issued' = Elements(writers_')
      BY DEF Issued, Elements
    <2>2. \A d \in Clients : Writer(d)' = Writer(d)
      BY <1>3 DEF Writer
    <2>3. Elements(writers_') = {Writer(d) : d \in {e \in Clients : part'[e] # "new"}}
      BY <1>1, <1>5, <1>7, <1>8
    <2>4. Issued' = {Writer(d)' : d \in {e \in Clients : part'[e] # "new"}}
      BY <2>1, <2>2, <2>3
    <2>5. \A d \in Clients : part'[d] # "new" => connected_'[Writer(d)]
      BY <1>1, <1>2, <1>3, <1>4, <1>5, <1>8 DEF IInv, WriterInv
    <2>. QED
      BY <1>3, <1>4, <1>5, <1>7, <2>2, <2>4, <2>5 DEF WriterInv
  <1>12. BufferInv'
    <2>1. \A v \in Writers : part'[v[1]] = "new" => part[v[1]] = "new"
      BY <1>8 DEF Writers
    <2>2. \A d \in Clients : Writer(d)' = Writer(d)
      BY <1>3 DEF Writer
    <2>3. BufferInv
      BY DEF IInv
    <2>. QED
      BY <1>3, <2>1, <2>2, <2>3 DEF BufferInv
  <1>13. DataInv' /\ ReadInv' /\ Respects(status')
    BY <1>3, ReadFrame DEF IInv, DataInv
  <1>. QED
    BY <1>9, <1>10, <1>11, <1>12, <1>13 DEF IInv

\* A part of a posting function that has posted its last message preserves the invariant.
LEMMA PartDoneStep ==
  ASSUME IInv, NEW c \in Clients, PartDone(c)
  PROVE  IInv'
  <1>1. /\ part[c] = "posting" /\ part' = [part EXCEPT ![c] = "done"]
        /\ UNCHANGED <<deps, status, iteration, boardVars, cursor, got, posted>>
    BY DEF PartDone, iterVars
  <1>2. part \in [Clients -> {"new", "posting", "done"}]
    BY DEF IInv, TypeInv
  <1>3. \A d \in Clients : /\ part'[d] = IF d = c THEN "done" ELSE part[d]
                           /\ part'[d] = "new" <=> part[d] = "new"
    BY <1>1, <1>2
  <1>4. TypeInv'
    BY <1>1, <1>2 DEF IInv, TypeInv, boardVars
  <1>5. PartInv'
    BY <1>1, <1>3 DEF IInv, PartInv
  <1>6. WriterInv'
    <2>1. {d \in Clients : part'[d] # "new"} = {d \in Clients : part[d] # "new"}
      BY <1>3
    <2>2. Issued' = Issued /\ \A d \in Clients : Writer(d)' = Writer(d)
      BY <1>1 DEF Issued, Writer, boardVars
    <2>3. WriterInv
      BY DEF IInv
    <2>. QED
      BY <1>1, <1>3, <2>1, <2>2, <2>3 DEF WriterInv, boardVars
  <1>7. BufferInv'
    <2>1. \A v \in Writers : part'[v[1]] = "new" => part[v[1]] = "new"
      BY <1>3 DEF Writers
    <2>2. \A d \in Clients : Writer(d)' = Writer(d)
      BY <1>1 DEF Writer
    <2>3. BufferInv
      BY DEF IInv
    <2>. QED
      BY <1>1, <2>1, <2>2, <2>3 DEF BufferInv, boardVars
  <1>8. DataInv' /\ ReadInv' /\ Respects(status')
    BY <1>1, ReadFrame DEF IInv, DataInv, boardVars
  <1>. QED
    BY <1>4, <1>5, <1>6, <1>7, <1>8 DEF IInv

\* Post() adds the message to the writer of its client, before the sync task starts.
LEMMA PostStep ==
  ASSUME Ordered, IInv, NEW c \in Clients, Post(c)
  PROVE  IInv'
  <1>1. PICK w : w = Writer(c)
    OBVIOUS
  <1>2. PICK m : m = <<w, Len(messages[w]) + 1>>
    OBVIOUS
  <1>3. /\ w \in Writers /\ c[1] \in Posts /\ w = <<c, iteration>>
        /\ \A d \in Clients : Writer(d) \in Writers /\ (Writer(d) = w => d = c)
    BY <1>1, ClientTypes
  <1>4. /\ part[c] = "posting"
        /\ messages' = [messages EXCEPT ![w] = Append(messages[w], m)]
        /\ posted' = posted \union {m}
        /\ UNCHANGED <<deps, status, iteration, data_, capacity, buffer, writers_, connected_,
                       part, cursor, got>>
    BY <1>1, <1>2 DEF Post, iterVars
  <1>5. messages \in [Writers -> Seq(Messages)] /\ messages[w] \in Seq(Messages)
    BY <1>3 DEF IInv, TypeInv
  <1>6. Len(messages[w]) \in Nat /\ m \in Messages
    <2>1. Len(messages[w]) \in Nat
      BY <1>5
    <2>2. Len(messages[w]) + 1 \in Nat
      BY <2>1
    <2>. QED
      BY <1>2, <1>3, <2>1, <2>2 DEF Messages
  <1>7. /\ Append(messages[w], m) \in Seq(Messages)
        /\ Elements(Append(messages[w], m)) = Elements(messages[w]) \union {m}
    BY <1>5, <1>6, AppendElements
  <1>8. \A v \in Writers : messages'[v] = IF v = w THEN Append(messages[w], m) ELSE messages[v]
    BY <1>4, <1>5
  <1>9. status[Sync] = "waiting" /\ status[Clear] = "waiting" /\ \A f \in Reads : status[f] = "waiting"
    <2>1. status[c[1]] = "running"
      BY <1>3, <1>4, OrderNow, TaskNames DEF IInv, PartInv, Statuses
    <2>. QED
      BY <1>3, <2>1, OrderNow, TaskNames DEF Statuses
  <1>10. TypeInv'
    BY <1>4, <1>5, <1>6, <1>7 DEF IInv, TypeInv
  <1>11. PartInv' /\ WriterInv' /\ DataInv' /\ ReadInv' /\ Respects(status')
    <2>1. PartInv' /\ Respects(status')
      BY <1>4 DEF IInv, PartInv
    <2>2. WriterInv'
      BY <1>4 DEF IInv, WriterInv, Issued, Writer
    <2>3. DataInv'
      BY <1>4, <1>9 DEF IInv, DataInv
    <2>4. ReadInv'
      BY <1>4, <1>9 DEF IInv, ReadInv
    <2>. QED
      BY <2>1, <2>2, <2>3, <2>4
  <1>12. BufferInv'
    <2>1. BufferInv
      BY DEF IInv
    <2>2. ASSUME NEW v \in Writers, NEW k \in 1..Len(messages'[v])
          PROVE  messages'[v][k] = <<v, k>>
      <3>1. CASE v # w
        BY <1>8, <2>1, <2>2, <3>1 DEF BufferInv
      <3>2. CASE v = w
        <4>1. PICK s : s = messages[w]
          OBVIOUS
        <4>2. PICK n \in Nat : n = Len(s)
          BY <1>6, <4>1
        <4>3. s \in Seq(Messages) /\ messages'[v] = Append(s, m) /\ m = <<w, n + 1>>
          BY <1>2, <1>5, <1>8, <3>2, <4>1, <4>2
        <4>4. /\ Len(Append(s, m)) = n + 1 /\ Append(s, m)[n + 1] = m
              /\ \A i \in 1..n : Append(s, m)[i] = s[i]
          BY <1>6, <4>2, <4>3, AppendProperties
        <4>5. \A i \in 1..n : s[i] = <<w, i>>
          BY <1>3, <2>1, <4>1, <4>2 DEF BufferInv
        <4>6. k \in 1..n \/ k = n + 1
          BY <2>2, <4>3, <4>4
        <4>. QED
          BY <3>2, <4>3, <4>4, <4>5, <4>6
      <3>. QED
        BY <3>1, <3>2
    <2>3. ASSUME NEW v \in Writers, v[2] > iteration \/ (v[2] = iteration /\ part[v[1]] = "new")
          PROVE  messages'[v] = <<>>
      <3>1. v # w
        <4>1. iteration \in Nat
          BY DEF IInv, TypeInv
        <4>. QED
          BY <1>3, <1>4, <2>3, <4>1
      <3>. QED
        BY <1>8, <2>1, <2>3, <3>1 DEF BufferInv
    <2>4. posted' = UNION {Elements(messages'[Writer(d)]) : d \in Clients}
      <3>1. posted = UNION {Elements(messages[Writer(d)]) : d \in Clients}
        BY <1>9, <2>1 DEF BufferInv
      <3>2. \A d \in Clients : Elements(messages'[Writer(d)]) =
              IF d = c THEN Elements(messages[Writer(d)]) \union {m} ELSE Elements(messages[Writer(d)])
        BY <1>1, <1>3, <1>7, <1>8
      <3>3. PICK E, F : /\ E = [d \in Clients |-> Elements(messages[Writer(d)])]
                        /\ F = [d \in Clients |-> Elements(messages'[Writer(d)])]
        OBVIOUS
      <3>4. \A d \in Clients : F[d] = IF d = c THEN E[d] \union {m} ELSE E[d]
        BY <3>2, <3>3
      <3>5. UNION {F[d] : d \in Clients} = (UNION {E[d] : d \in Clients}) \union {m}
        BY <3>4
      <3>6. /\ UNION {F[d] : d \in Clients} = UNION {Elements(messages'[Writer(d)]) : d \in Clients}
            /\ UNION {E[d] : d \in Clients} = UNION {Elements(messages[Writer(d)]) : d \in Clients}
        BY <3>3
      <3>. QED
        BY <1>4, <3>1, <3>5, <3>6
    <2>5. \A d \in Clients : Writer(d)' = Writer(d)
      BY <1>4 DEF Writer
    <2>6. posted' = UNION {Elements(messages'[Writer(d)']) : d \in Clients}
      BY <2>4, <2>5
    <2>. QED
      BY <1>4, <2>2, <2>3, <2>6 DEF BufferInv
  <1>. QED
    BY <1>10, <1>11, <1>12 DEF IInv

\* Sync() starts when every posting function has finished.
LEMMA BeginSyncStep ==
  ASSUME IInv, BeginSync
  PROVE  IInv'
  <1>1. /\ Sync \in BoardTasks /\ Clear \in BoardTasks /\ Sync # Clear
        /\ Posts \subseteq BoardTasks /\ Reads \subseteq BoardTasks
        /\ \A f \in Posts \union Reads : f # Sync
    BY TaskNames
  <1>2. /\ status' = [status EXCEPT ![Sync] = "running"] /\ status[Sync] = "waiting"
        /\ status' \in [BoardTasks -> Statuses] /\ Respects(status')
        /\ connected_' = [w \in DOMAIN connected_ |-> connected_[w] /\ w \notin Issued]
        /\ UNCHANGED <<deps, iteration, data_, capacity, buffer, writers_, messages, clientVars>>
    BY <1>1, StartRespects DEF IInv, BeginSync, Disconnected
  <1>3. \A t \in BoardTasks : status'[t] = IF t = Sync THEN "running" ELSE status[t]
    BY <1>2 DEF IInv, TypeInv
  <1>4. connected_' \in [Writers -> BOOLEAN]
    <2>1. DOMAIN connected_ = Writers
      BY DEF IInv, TypeInv
    <2>2. \A w \in Writers : (connected_[w] /\ w \notin Issued) \in BOOLEAN
      BY Zenon
    <2>. QED
      BY <1>2, <2>1, <2>2, Zenon
  <1>5. TypeInv'
    BY <1>2, <1>4 DEF IInv, TypeInv, Statuses, clientVars
  <1>6. PartInv'
    BY <1>1, <1>2, <1>3, ClientTypes DEF IInv, PartInv, clientVars
  <1>7. WriterInv'
    BY <1>1, <1>2, <1>3 DEF IInv, WriterInv, Issued, Writer, clientVars
  <1>8. BufferInv'
    BY <1>1, <1>2, <1>3 DEF IInv, BufferInv, Writer, clientVars
  <1>9. DataInv'
    BY <1>1, <1>2, <1>3 DEF IInv, DataInv, clientVars
  <1>10. ReadInv'
    BY <1>1, <1>2, <1>3, ReadFrame DEF IInv, clientVars
  <1>. QED
    BY <1>2, <1>5, <1>6, <1>7, <1>8, <1>9, <1>10 DEF IInv

\* Sync() collects the messages posted, each once.
LEMMA CollectedPosted ==
  ASSUME Ordered, IInv, status[Sync] = "running"
  PROVE  /\ Collected \in Seq(Messages) /\ Elements(Collected) = posted /\ Injective(Collected)
  <1>1. PICK n \in Nat : n = Len(writers_)
    BY DEF IInv, TypeInv
  <1>2. PICK ss : ss = [i \in 1..n |-> messages[writers_[i]]]
    OBVIOUS
  <1>3. /\ writers_ \in Seq(Writers) /\ messages \in [Writers -> Seq(Messages)]
        /\ data_ = <<>> /\ Injective(writers_)
        /\ Issued = {Writer(c) : c \in {d \in Clients : part[d] # "new"}}
    BY DEF IInv, TypeInv, WriterInv
  <1>4. \A i \in 1..n : writers_[i] \in Writers
    BY <1>1, <1>3
  <1>5. ss \in [1..n -> Seq(Messages)]
    BY <1>2, <1>3, <1>4
  <1>6. \A w \in Writers : \A k \in 1..Len(messages[w]) : messages[w][k] = <<w, k>>
    BY DEF IInv, BufferInv
  <1>7. \A i \in 1..n : Injective(ss[i])
    BY <1>2, <1>4, <1>6 DEF Injective
  <1>8. ASSUME NEW i \in 1..n, NEW j \in 1..n, i # j
        PROVE  Elements(ss[i]) \intersect Elements(ss[j]) = {}
    <2>1. writers_[i] # writers_[j]
      BY <1>1, <1>3, <1>8 DEF Injective
    <2>2. /\ \A x \in Elements(ss[i]) : x[1] = writers_[i]
          /\ \A x \in Elements(ss[j]) : x[1] = writers_[j]
      BY <1>2, <1>4, <1>6 DEF Elements
    <2>. QED
      BY <2>1, <2>2
  <1>9. /\ FlattenSeq(ss) \in Seq(Messages)
        /\ Elements(FlattenSeq(ss)) = UNION {Elements(ss[i]) : i \in 1..n}
        /\ Injective(FlattenSeq(ss))
    BY <1>5, <1>7, <1>8, FlattenElements
  <1>10. Collected = FlattenSeq(ss)
    <2>1. Collected = <<>> \o FlattenSeq(ss)
      BY <1>1, <1>2, <1>3 DEF Collected
    <2>. QED
      BY <1>9, <2>1, ConcatEmptySeq
  <1>11. UNION {Elements(ss[i]) : i \in 1..n} = UNION {Elements(messages[w]) : w \in Issued}
    BY <1>1, <1>2 DEF Issued
  <1>12. Issued = {Writer(c) : c \in Clients}
    <2>1. \A c \in Clients : part[c] = "done"
      BY OrderNow, ClientTypes DEF IInv, PartInv
    <2>. QED
      BY <1>3, <2>1
  <1>13. posted = UNION {Elements(messages[w]) : w \in Issued}
    <2>1. posted = UNION {Elements(messages[Writer(c)]) : c \in Clients}
      BY DEF IInv, BufferInv
    <2>. QED
      BY <1>12, <2>1
  <1>. QED
    BY <1>9, <1>10, <1>11, <1>13

\* Sync() moves what is in the writers to the board, each message once, and lets the
\* writers go.
LEMMA EndSyncStep ==
  ASSUME Ordered, IInv, EndSync
  PROVE  IInv'
  <1>1. /\ Sync \in BoardTasks /\ Clear \in BoardTasks /\ Sync # Clear
        /\ Posts \subseteq BoardTasks /\ Reads \subseteq BoardTasks
        /\ \A f \in Posts \union Reads : f # Sync
    BY TaskNames
  <1>2. /\ status' = [status EXCEPT ![Sync] = "finished"] /\ status[Sync] = "running"
        /\ status' \in [BoardTasks -> Statuses] /\ Respects(status')
        /\ UNCHANGED <<deps, iteration, connected_, clientVars>>
    BY <1>1, FinishRespects DEF IInv, EndSync
  <1>3. \A t \in BoardTasks : status'[t] = IF t = Sync THEN "finished" ELSE status[t]
    BY <1>2 DEF IInv, TypeInv
  <1>4. /\ data_' = Collected /\ writers_' = <<>>
        /\ IF Len(Collected) > capacity
           THEN capacity' = Len(Collected) /\ buffer' = buffer + 1
           ELSE UNCHANGED <<capacity, buffer>>
        /\ messages' = [w \in DOMAIN messages |-> IF w \in Issued THEN <<>> ELSE messages[w]]
    BY DEF EndSync
  <1>5. Collected \in Seq(Messages) /\ Elements(Collected) = posted /\ Injective(Collected)
    BY <1>2, CollectedPosted
  <1>6. status[Clear] = "waiting" /\ \A f \in Reads : status[f] = "waiting"
    BY <1>1, <1>2, OrderNow DEF Statuses
  <1>7. /\ capacity' \in Nat /\ buffer' \in Nat /\ Len(data_') <= capacity'
    <2>1. capacity \in Nat /\ buffer \in Nat /\ Len(Collected) \in Nat
      BY <1>5 DEF IInv, TypeInv
    <2>. QED
      BY <1>4, <2>1
  <1>8. messages \in [Writers -> Seq(Messages)]
    BY DEF IInv, TypeInv
  <1>9. /\ messages' \in [Writers -> Seq(Messages)]
        /\ \A w \in Writers : messages'[w] = <<>> \/ messages'[w] = messages[w]
    BY <1>4, <1>8
  <1>10. TypeInv'
    <2>1. <<>> \in Seq(Writers)
      OBVIOUS
    <2>. QED
      BY <1>2, <1>4, <1>5, <1>7, <1>9, <2>1 DEF IInv, TypeInv, Statuses, clientVars
  <1>11. PartInv'
    BY <1>1, <1>2, <1>3, ClientTypes DEF IInv, PartInv, clientVars
  <1>12. WriterInv'
    BY <1>1, <1>3, <1>4 DEF WriterInv
  <1>13. BufferInv'
    <2>1. BufferInv /\ Len(<<>>) = 0 /\ 1..0 = {}
      BY DEF IInv
    <2>2. \A w \in Writers : \A k \in 1..Len(messages'[w]) : messages'[w][k] = <<w, k>>
      BY <1>9, <2>1 DEF BufferInv
    <2>3. \A w \in Writers :
            (w[2] > iteration \/ (w[2] = iteration /\ part[w[1]] = "new")) => messages'[w] = <<>>
      BY <1>9, <2>1 DEF BufferInv
    <2>. QED
      BY <1>1, <1>2, <1>3, <2>2, <2>3 DEF BufferInv, clientVars
  <1>14. DataInv'
    BY <1>1, <1>2, <1>3, <1>4, <1>5, <1>6, <1>7 DEF DataInv, clientVars
  <1>15. ReadInv'
    BY <1>1, <1>2, <1>3, <1>6 DEF IInv, ReadInv, clientVars
  <1>. QED
    BY <1>2, <1>10, <1>11, <1>12, <1>13, <1>14, <1>15 DEF IInv

\* Clear() starts when every reader has finished.
LEMMA BeginClearStep ==
  ASSUME Ordered, IInv, BeginClear
  PROVE  IInv'
  <1>1. /\ Sync \in BoardTasks /\ Clear \in BoardTasks /\ Sync # Clear
        /\ Posts \subseteq BoardTasks /\ Reads \subseteq BoardTasks
        /\ \A f \in Posts \union Reads : f # Clear
    BY TaskNames
  <1>2. /\ status' = [status EXCEPT ![Clear] = "running"] /\ status[Clear] = "waiting"
        /\ status' \in [BoardTasks -> Statuses] /\ Respects(status')
        /\ connected_' = [w \in DOMAIN connected_ |-> connected_[w] /\ w \notin Issued]
        /\ writers_' = <<>>
        /\ UNCHANGED <<deps, iteration, data_, capacity, buffer, messages, clientVars>>
    BY <1>1, StartRespects DEF IInv, BeginClear, Disconnected
  <1>3. \A t \in BoardTasks : status'[t] = IF t = Clear THEN "running" ELSE status[t]
    BY <1>2 DEF IInv, TypeInv
  <1>4. status'[Sync] = "finished" /\ status[Sync] = "finished"
    <2>1. status'[Clear] # "waiting"
      BY <1>1, <1>3
    <2>2. status'[Sync] = "finished"
      BY <1>2, <2>1, WhoRuns
    <2>. QED
      BY <1>1, <1>3, <2>2
  <1>5. connected_' \in [Writers -> BOOLEAN]
    <2>1. DOMAIN connected_ = Writers
      BY DEF IInv, TypeInv
    <2>2. \A w \in Writers : (connected_[w] /\ w \notin Issued) \in BOOLEAN
      BY Zenon
    <2>. QED
      BY <1>2, <2>1, <2>2, Zenon
  <1>6. TypeInv'
    <2>1. <<>> \in Seq(Writers)
      OBVIOUS
    <2>. QED
      BY <1>2, <1>5, <2>1 DEF IInv, TypeInv, Statuses, clientVars
  <1>7. PartInv'
    BY <1>1, <1>2, <1>3, ClientTypes DEF IInv, PartInv, clientVars
  <1>8. WriterInv'
    BY <1>2, <1>4 DEF WriterInv
  <1>9. BufferInv'
    BY <1>2, <1>4 DEF IInv, BufferInv, clientVars
  <1>10. DataInv'
    BY <1>1, <1>2, <1>3, <1>4 DEF IInv, DataInv, clientVars
  <1>11. ReadInv'
    BY <1>1, <1>2, <1>3, ReadFrame DEF IInv, clientVars
  <1>. QED
    BY <1>2, <1>6, <1>7, <1>8, <1>9, <1>10, <1>11 DEF IInv

\* Clear() leaves neither messages nor writers.
LEMMA EndClearStep ==
  ASSUME Ordered, IInv, EndClear
  PROVE  IInv'
  <1>1. /\ Sync \in BoardTasks /\ Clear \in BoardTasks /\ Sync # Clear
        /\ Posts \subseteq BoardTasks /\ Reads \subseteq BoardTasks
        /\ \A f \in Posts \union Reads : f # Clear
    BY TaskNames
  <1>2. /\ status' = [status EXCEPT ![Clear] = "finished"] /\ status[Clear] = "running"
        /\ status' \in [BoardTasks -> Statuses] /\ Respects(status')
        /\ data_' = <<>>
        /\ UNCHANGED <<deps, iteration, capacity, buffer, writers_, messages, connected_, clientVars>>
    BY <1>1, FinishRespects DEF IInv, EndClear
  <1>3. \A t \in BoardTasks : status'[t] = IF t = Clear THEN "finished" ELSE status[t]
    BY <1>2 DEF IInv, TypeInv
  <1>4. status[Sync] = "finished" /\ \A f \in Reads : status[f] = "finished"
    BY <1>2, OrderNow
  <1>5. TypeInv'
    <2>1. <<>> \in Seq(Messages)
      OBVIOUS
    <2>. QED
      BY <1>2, <2>1 DEF IInv, TypeInv, Statuses, clientVars
  <1>6. PartInv'
    BY <1>1, <1>2, <1>3, ClientTypes DEF IInv, PartInv, clientVars
  <1>7. WriterInv'
    BY <1>1, <1>2, <1>3, <1>4 DEF IInv, WriterInv
  <1>8. BufferInv'
    BY <1>1, <1>2, <1>3, <1>4 DEF IInv, BufferInv, clientVars
  <1>9. DataInv'
    BY <1>1, <1>2, <1>3 DEF IInv, TypeInv, DataInv
  <1>10. ReadInv'
    BY <1>1, <1>2, <1>3, <1>4 DEF IInv, ReadInv, clientVars
  <1>. QED
    BY <1>2, <1>5, <1>6, <1>7, <1>8, <1>9, <1>10 DEF IInv

\* The board while a reader is at work.
LEMMA ReaderSees ==
  ASSUME Ordered, IInv, NEW f \in Reads, status[f] = "running"
  PROVE  /\ status[Sync] = "finished" /\ status[Clear] = "waiting"
         /\ Injective(data_) /\ Elements(data_) = posted /\ data_ \in Seq(Messages)
         /\ got[f] \in Seq(Messages) /\ cursor[f] \in [count_ : Nat, pos_ : Nat, memory : Nat]
  <1>1. status[Sync] = "finished" /\ status[Clear] = "waiting"
    BY OrderNow, TaskNames DEF Statuses
  <1>. QED
    BY <1>1 DEF IInv, DataInv, TypeInv

\* GetMessages() gives a reader an iterator at the start of the board's current memory.
LEMMA GetMessagesStep ==
  ASSUME IInv, NEW f \in Reads, GetMessages(f)
  PROVE  IInv'
  <1>1. /\ f \in BoardTasks /\ f # Sync /\ f # Clear /\ f \notin Posts /\ Sync \in BoardTasks
        /\ Clear \in BoardTasks /\ Reads \subseteq BoardTasks /\ Posts \subseteq BoardTasks
    BY TaskNames
  <1>2. /\ status' = [status EXCEPT ![f] = "running"] /\ status[f] = "waiting"
        /\ status' \in [BoardTasks -> Statuses] /\ Respects(status')
        /\ UNCHANGED <<deps, iteration, boardVars, part, got, posted>>
    BY <1>1, StartRespects DEF IInv, GetMessages
  <1>3. \A t \in BoardTasks : status'[t] = IF t = f THEN "running" ELSE status[t]
    BY <1>2 DEF IInv, TypeInv
  <1>4. PICK x : x = [count_ |-> Len(data_), pos_ |-> 0, memory |-> buffer]
    OBVIOUS
  <1>5. cursor' = [cursor EXCEPT ![f] = x]
    BY <1>4 DEF GetMessages
  <1>6. Len(data_) \in Nat /\ buffer \in Nat
    BY DEF IInv, TypeInv
  <1>7. /\ x \in [count_ : Nat, pos_ : Nat, memory : Nat]
        /\ x.count_ = Len(data_) /\ x.pos_ = 0 /\ x.memory = buffer
    BY <1>4, <1>6
  <1>8. \A g \in Reads : cursor'[g] = IF g = f THEN x ELSE cursor[g]
    BY <1>5 DEF IInv, TypeInv
  <1>9. TypeInv'
    BY <1>2, <1>5, <1>7 DEF IInv, TypeInv, Statuses, boardVars
  <1>10. PartInv'
    BY <1>1, <1>2, <1>3, ClientTypes DEF IInv, PartInv
  <1>11. BoardInv'
    BY <1>1, <1>2, <1>3, BoardFrame DEF IInv, BoardInv
  <1>12. ASSUME NEW g \in Reads, g # f
         PROVE  status'[g] = status[g] /\ cursor'[g] = cursor[g] /\ got'[g] = got[g]
    BY <1>1, <1>2, <1>3, <1>8, <1>12
  <1>13. /\ status'[f] = "running" /\ cursor'[f] = x /\ got'[f] = <<>> /\ Len(<<>>) = 0 /\ 1..0 = {}
    BY <1>1, <1>2, <1>3, <1>8 DEF IInv, ReadInv
  <1>14. ReadInv'
    BY <1>2, <1>6, <1>7, <1>12, <1>13 DEF IInv, ReadInv, boardVars
  <1>. QED
    BY <1>2, <1>9, <1>10, <1>11, <1>14 DEF IInv, BoardInv

\* Step() delivers the next message; what lies before the cursor has been delivered.
LEMMA ReadNextStep ==
  ASSUME Ordered, IInv, NEW f \in Reads, ReadNext(f)
  PROVE  IInv'
  <1>1. PICK x : x = cursor[f]
    OBVIOUS
  <1>2. PICK s : s = got[f]
    OBVIOUS
  <1>3. /\ status[f] = "running" /\ ~(x.pos_ >= x.count_)
        /\ UNCHANGED <<deps, status, iteration, boardVars, part, posted>>
    BY <1>1 DEF ReadNext, AtEnd, iterVars
  <1>4. /\ data_ \in Seq(Messages) /\ s \in Seq(Messages)
        /\ x \in [count_ : Nat, pos_ : Nat, memory : Nat]
    BY <1>1, <1>2, <1>3, ReaderSees
  <1>5. PICK n \in Nat : n = x.pos_
    BY <1>4
  <1>6. /\ x.memory = buffer /\ x.count_ = Len(data_) /\ Len(s) = n
        /\ \A k \in 1..n : s[k] = data_[k]
    BY <1>1, <1>2, <1>3, <1>5 DEF IInv, ReadInv
  <1>7. Len(data_) \in Nat /\ n < Len(data_) /\ n + 1 \in 1..Len(data_)
    BY <1>3, <1>4, <1>5, <1>6
  <1>8. PICK m : m = data_[n + 1]
    OBVIOUS
  <1>9. m \in Messages /\ Current(f) = m
    BY <1>1, <1>4, <1>5, <1>6, <1>7, <1>8 DEF Current
  <1>10. PICK y : y = [x EXCEPT !.pos_ = n + 1]
    OBVIOUS
  <1>11. /\ y \in [count_ : Nat, pos_ : Nat, memory : Nat]
         /\ y.pos_ = n + 1 /\ y.count_ = Len(data_) /\ y.memory = buffer
    BY <1>4, <1>6, <1>10
  <1>12. /\ got' = [got EXCEPT ![f] = Append(s, m)]
         /\ cursor' = [cursor EXCEPT ![f] = y]
    BY <1>1, <1>2, <1>5, <1>9, <1>10 DEF ReadNext
  <1>13. /\ Append(s, m) \in Seq(Messages) /\ Len(Append(s, m)) = n + 1
         /\ \A k \in 1..n : Append(s, m)[k] = s[k]
         /\ Append(s, m)[n + 1] = m
    BY <1>4, <1>6, <1>9, AppendProperties
  <1>14. ASSUME NEW k \in 1..(n + 1) PROVE Append(s, m)[k] = data_[k]
    <2>1. k \in 1..n \/ k = n + 1
      OBVIOUS
    <2>. QED
      BY <1>6, <1>8, <1>13, <2>1
  <1>15. \A g \in Reads : /\ cursor'[g] = IF g = f THEN y ELSE cursor[g]
                          /\ got'[g] = IF g = f THEN Append(s, m) ELSE got[g]
    BY <1>12 DEF IInv, TypeInv
  <1>16. TypeInv'
    BY <1>3, <1>11, <1>12, <1>13 DEF IInv, TypeInv, boardVars
  <1>17. BoardInv'
    BY <1>3, BoardFrame DEF IInv, BoardInv
  <1>18. PartInv' /\ Respects(status')
    BY <1>3 DEF IInv, PartInv
  <1>19. ReadInv'
    <2>1. n + 1 <= Len(data_)
      BY <1>7
    <2>2. \A g \in Reads : g # f => status'[g] = status[g] /\ cursor'[g] = cursor[g] /\ got'[g] = got[g]
      BY <1>3, <1>15
    <2>3. PICK r : r = Append(s, m)
      OBVIOUS
    <2>4. /\ status'[f] = "running" /\ cursor'[f] = y /\ got'[f] = r
          /\ Len(r) = n + 1 /\ \A k \in 1..(n + 1) : r[k] = data_[k]
      BY <1>3, <1>13, <1>14, <1>15, <2>3
    <2>5. data_' = data_ /\ buffer' = buffer /\ posted' = posted
      BY <1>3 DEF boardVars
    <2>. QED
      BY <1>11, <2>1, <2>2, <2>4, <2>5 DEF IInv, ReadInv
  <1>. QED
    BY <1>16, <1>17, <1>18, <1>19 DEF IInv, BoardInv

\* Rewind() puts the cursor back to the start of the same memory.
LEMMA RewindStep ==
  ASSUME IInv, NEW f \in Reads, Rewind(f)
  PROVE  IInv'
  <1>1. PICK x : x = cursor[f]
    OBVIOUS
  <1>2. /\ status[f] = "running"
        /\ UNCHANGED <<deps, status, iteration, boardVars, part, posted>>
    BY DEF Rewind, iterVars
  <1>3. PICK y : y = [x EXCEPT !.pos_ = 0, !.memory = buffer]
    OBVIOUS
  <1>4. /\ x \in [count_ : Nat, pos_ : Nat, memory : Nat] /\ buffer \in Nat /\ Len(data_) \in Nat
        /\ x.count_ = Len(data_)
    BY <1>1, <1>2 DEF IInv, TypeInv, ReadInv
  <1>5. /\ y \in [count_ : Nat, pos_ : Nat, memory : Nat]
        /\ y.pos_ = 0 /\ y.count_ = Len(data_) /\ y.memory = buffer
    BY <1>3, <1>4
  <1>6. cursor' = [cursor EXCEPT ![f] = y] /\ got' = [got EXCEPT ![f] = <<>>]
    BY <1>1, <1>3 DEF Rewind
  <1>7. \A g \in Reads : /\ cursor'[g] = IF g = f THEN y ELSE cursor[g]
                         /\ got'[g] = IF g = f THEN <<>> ELSE got[g]
    BY <1>6 DEF IInv, TypeInv
  <1>8. TypeInv'
    <2>1. <<>> \in Seq(Messages)
      OBVIOUS
    <2>. QED
      BY <1>2, <1>5, <1>6, <2>1 DEF IInv, TypeInv, boardVars
  <1>9. BoardInv'
    BY <1>2, BoardFrame DEF IInv, BoardInv
  <1>10. PartInv' /\ Respects(status')
    BY <1>2 DEF IInv, PartInv
  <1>11. ReadInv'
    <2>1. \A g \in Reads : g # f => status'[g] = status[g] /\ cursor'[g] = cursor[g] /\ got'[g] = got[g]
      BY <1>2, <1>7
    <2>2. /\ status'[f] = "running" /\ cursor'[f] = y /\ got'[f] = <<>>
          /\ Len(<<>>) = 0 /\ 1..0 = {} /\ 0 <= Len(data_)
      BY <1>2, <1>4, <1>7
    <2>. QED
      BY <1>2, <1>5, <2>1, <2>2 DEF IInv, ReadInv, boardVars
  <1>. QED
    BY <1>8, <1>9, <1>10, <1>11 DEF IInv, BoardInv

\* A reader ends when its iterator has reached the end, having delivered all.
LEMMA FinishReadingStep ==
  ASSUME Ordered, IInv, NEW f \in Reads, FinishReading(f)
  PROVE  IInv'
  <1>1. /\ f \in BoardTasks /\ f # Sync /\ f # Clear /\ f \notin Posts /\ Sync \in BoardTasks
        /\ Clear \in BoardTasks /\ Reads \subseteq BoardTasks /\ Posts \subseteq BoardTasks
    BY TaskNames
  <1>2. /\ status' = [status EXCEPT ![f] = "finished"] /\ status[f] = "running"
        /\ status' \in [BoardTasks -> Statuses] /\ Respects(status')
        /\ UNCHANGED <<deps, iteration, boardVars, clientVars>>
    BY <1>1, FinishRespects DEF IInv, FinishReading
  <1>3. \A t \in BoardTasks : status'[t] = IF t = f THEN "finished" ELSE status[t]
    BY <1>2 DEF IInv, TypeInv
  <1>4. TypeInv'
    BY <1>2 DEF IInv, TypeInv, Statuses, boardVars, clientVars
  <1>5. PartInv'
    BY <1>1, <1>2, <1>3, ClientTypes DEF IInv, PartInv, clientVars
  <1>6. BoardInv'
    BY <1>1, <1>2, <1>3, BoardFrame DEF IInv, BoardInv, clientVars
  <1>7. /\ cursor[f].pos_ = cursor[f].count_ /\ Injective(got[f]) /\ Elements(got[f]) = posted
    <2>1. /\ Injective(data_) /\ Elements(data_) = posted /\ data_ \in Seq(Messages)
          /\ got[f] \in Seq(Messages) /\ cursor[f] \in [count_ : Nat, pos_ : Nat, memory : Nat]
      BY <1>2, ReaderSees
    <2>2. /\ cursor[f].count_ = Len(data_) /\ cursor[f].pos_ <= Len(data_)
          /\ Len(got[f]) = cursor[f].pos_ /\ \A k \in 1..cursor[f].pos_ : got[f][k] = data_[k]
      BY <1>2 DEF IInv, ReadInv
    <2>3. cursor[f].pos_ = Len(data_)
      <3>1. cursor[f].pos_ \in Nat /\ Len(data_) \in Nat /\ cursor[f].pos_ >= cursor[f].count_
        BY <2>1 DEF FinishReading, AtEnd
      <3>. QED
        BY <2>2, <3>1
    <2>4. Len(got[f]) = Len(data_) /\ \A k \in 1..Len(data_) : got[f][k] = data_[k]
      BY <2>2, <2>3
    <2>5. Injective(got[f]) /\ Elements(got[f]) = Elements(data_)
      BY <2>1, <2>4 DEF Injective, Elements
    <2>. QED
      BY <2>1, <2>2, <2>3, <2>5
  <1>8. ReadInv'
    <2>1. \A g \in Reads : g # f => status'[g] = status[g]
      BY <1>1, <1>3
    <2>2. status'[f] = "finished"
      BY <1>1, <1>3
    <2>3. cursor' = cursor /\ got' = got /\ posted' = posted /\ data_' = data_ /\ buffer' = buffer
      BY <1>2 DEF boardVars, clientVars
    <2>. QED
      BY <1>7, <2>1, <2>2, <2>3 DEF IInv, ReadInv
  <1>. QED
    BY <1>2, <1>4, <1>5, <1>6, <1>8 DEF IInv, BoardInv

\* The next iteration starts with a board that is empty.
LEMMA NextIterationStep ==
  ASSUME IInv, NextIteration
  PROVE  IInv'
  <1>1. /\ Sync \in BoardTasks /\ Clear \in BoardTasks
        /\ Posts \subseteq BoardTasks /\ Reads \subseteq BoardTasks
    BY TaskNames
  <1>2. /\ iteration < MaxIterations /\ iteration' = iteration + 1
        /\ \A t \in BoardTasks : status[t] = "finished"
        /\ status' = [t \in BoardTasks |-> "waiting"]
        /\ part' = [c \in Clients |-> "new"]
        /\ cursor' = [f \in Reads |-> NoCursor]
        /\ got' = [f \in Reads |-> <<>>]
        /\ posted' = {}
        /\ UNCHANGED <<deps, data_, capacity, buffer, writers_, messages, connected_>>
    BY DEF NextIteration, It!Advance, boardVars
  <1>3. iteration \in 1..MaxIterations /\ iteration' \in 1..MaxIterations
    BY <1>2, BoundAssumption DEF IInv, TypeInv
  <1>4. data_ = <<>> /\ writers_ = <<>>
    BY <1>1, <1>2 DEF IInv, DataInv, WriterInv
  <1>5. TypeInv'
    <2>1. /\ NoCursor \in [count_ : Nat, pos_ : Nat, memory : Nat] /\ <<>> \in Seq(Messages)
      BY DEF NoCursor
    <2>. QED
      BY <1>2, <1>3, <2>1 DEF IInv, TypeInv
  <1>6. Respects(status') /\ PartInv'
    BY <1>1, <1>2, ClientTypes DEF Respects, PartInv
  <1>7. WriterInv'
    <2>1. Injective(<<>>) /\ Issued' = {}
      BY <1>2, <1>4 DEF Injective, Issued
    <2>2. {d \in Clients : part'[d] # "new"} = {}
      BY <1>2
    <2>. QED
      BY <1>1, <1>2, <1>4, <2>1, <2>2 DEF WriterInv
  <1>8. BufferInv'
    <2>1. BufferInv
      BY DEF IInv
    <2>2. ASSUME NEW w \in Writers, w[2] > iteration' \/ w[2] = iteration'
          PROVE  messages'[w] = <<>>
      <3>1. w[2] \in Nat
        BY DEF Writers
      <3>2. w[2] > iteration
        BY <1>2, <1>3, <2>2, <3>1
      <3>. QED
        BY <1>2, <2>1, <3>2 DEF BufferInv
    <2>3. \A c \in Clients : Elements(messages'[Writer(c)']) = {}
      <3> SUFFICES ASSUME NEW c \in Clients PROVE Elements(messages'[Writer(c)']) = {}
        OBVIOUS
      <3>1. Writer(c)' = <<c, iteration'>>
        BY DEF Writer
      <3>2. <<c, iteration'>> \in Writers /\ <<c, iteration'>>[2] = iteration'
        BY <1>3 DEF Writers
      <3>3. messages'[Writer(c)'] = <<>>
        BY <2>2, <3>1, <3>2
      <3>. QED
        BY <3>3 DEF Elements
    <2>4. posted' = UNION {Elements(messages'[Writer(c)']) : c \in Clients}
      BY <1>2, <2>3
    <2>5. \A w \in Writers : \A k \in 1..Len(messages'[w]) : messages'[w][k] = <<w, k>>
      BY <1>2, <2>1 DEF BufferInv
    <2>. QED
      BY <2>2, <2>4, <2>5 DEF BufferInv
  <1>9. DataInv'
    BY <1>1, <1>2 DEF IInv, DataInv
  <1>10. ReadInv'
    BY <1>1, <1>2 DEF ReadInv, NoCursor
  <1>. QED
    BY <1>5, <1>6, <1>7, <1>8, <1>9, <1>10 DEF IInv

-----------------------------------------------------------------------------
(***************************************************************************)
(* The inductive invariant and what follows from it.                       *)
(***************************************************************************)
LEMMA InitIInv == Init => IInv
  <1> SUFFICES ASSUME Init PROVE IInv
    OBVIOUS
  <1>1. TypeInv
    <2>1. /\ NoCursor \in [count_ : Nat, pos_ : Nat, memory : Nat]
          /\ <<>> \in Seq(Messages) /\ <<>> \in Seq(Writers)
      BY DEF NoCursor
    <2>2. 1 \in 1..MaxIterations
      BY BoundAssumption
    <2>. QED
      BY <2>1, <2>2 DEF Init, TypeInv, Writers
  <1>2. /\ Sync \in BoardTasks /\ Clear \in BoardTasks
        /\ Posts \subseteq BoardTasks /\ Reads \subseteq BoardTasks
    BY TaskNames
  <1>3. \A t \in BoardTasks : status[t] = "waiting"
    BY DEF Init
  <1>4. Respects(status)
    BY <1>3 DEF Respects
  <1>5. PartInv
    BY <1>2, <1>3 DEF Init, PartInv, Clients
  <1>6. Elements(<<>>) = {} /\ Injective(<<>>) /\ Len(<<>>) = 0
    BY DEF Elements, Injective
  <1>7. WriterInv
    <2>1. {d \in Clients : part[d] # "new"} = {}
      BY DEF Init
    <2>2. Issued = {}
      BY DEF Init, Issued
    <2>. QED
      BY <1>2, <1>3, <1>6, <2>1, <2>2 DEF Init, WriterInv
  <1>8. BufferInv
    <2>1. \A w \in Writers : messages[w] = <<>>
      BY DEF Init, Writers
    <2>2. \A c \in Clients : Elements(messages[Writer(c)]) = {}
      <3>1. \A c \in Clients : Writer(c) \in Writers
        BY BoundAssumption DEF Init, Writer, Writers
      <3>. QED
        BY <1>6, <2>1, <3>1
    <2>3. posted = UNION {Elements(messages[Writer(c)]) : c \in Clients}
      BY <2>2 DEF Init
    <2>. QED
      BY <1>6, <2>1, <2>3 DEF BufferInv
  <1>9. DataInv
    BY <1>2, <1>3, <1>6 DEF Init, DataInv
  <1>10. ReadInv
    BY <1>2, <1>3 DEF Init, ReadInv, NoCursor
  <1>. QED
    BY <1>1, <1>4, <1>5, <1>7, <1>8, <1>9, <1>10 DEF IInv

\* Every step of the board and its tasks preserves the invariant.
LEMMA NextIInv ==
  ASSUME Ordered, IInv, [Next]_vars
  PROVE  IInv'
  <1>1. ASSUME NEW f \in Posts, StartPosting(f) \/ FinishPosting(f) PROVE IInv'
    BY <1>1, StartPostingStep, FinishPostingStep
  <1>2. ASSUME NEW c \in Clients, GetBoardWriter(c) \/ Post(c) \/ PartDone(c) PROVE IInv'
    BY <1>2, GetBoardWriterStep, PostStep, PartDoneStep
  <1>3. CASE BeginSync \/ EndSync \/ BeginClear \/ EndClear
    BY <1>3, BeginSyncStep, EndSyncStep, BeginClearStep, EndClearStep
  <1>4. ASSUME NEW f \in Reads,
               GetMessages(f) \/ ReadNext(f) \/ Rewind(f) \/ FinishReading(f)
        PROVE  IInv'
    BY <1>4, GetMessagesStep, ReadNextStep, RewindStep, FinishReadingStep
  <1>5. CASE NextIteration
    BY <1>5, NextIterationStep
  <1>6. CASE Stop \/ UNCHANGED vars
    <2>1. UNCHANGED <<deps, status, iteration, boardVars, clientVars>>
      BY <1>6 DEF Stop, vars, iterVars
    <2>2. BoardInv'
      BY <2>1, BoardFrame DEF IInv, BoardInv, clientVars
    <2>3. ReadInv'
      BY <2>1, ReadFrame DEF IInv, boardVars, clientVars
    <2>4. TypeInv' /\ PartInv' /\ Respects(status')
      BY <2>1 DEF IInv, TypeInv, PartInv, boardVars, clientVars
    <2>. QED
      BY <2>2, <2>3, <2>4 DEF IInv, BoardInv
  <1>. QED
    BY <1>1, <1>2, <1>3, <1>4, <1>5, <1>6 DEF Next

\* The inductive invariant of a board whose tasks are ordered.
THEOREM BoardInductive == ASSUME Ordered PROVE Spec => []IInv
  <1>1. Init => IInv
    BY InitIInv
  <1>2. IInv /\ [Next]_vars => IInv'
    BY NextIInv
  <1>. QED
    BY <1>1, <1>2, PTL DEF Spec

\* Every reading function gets each message that any part of any posting function
\* posted in this iteration, exactly once, although Sync() collects the writers without
\* a lock and iterators keep raw addresses into the board.
THEOREM ReadersGetAll == ASSUME Ordered PROVE Spec => []ReadersSeeAll
  <1>1. IInv => ReadersSeeAll
    <2> SUFFICES ASSUME IInv, NEW f \in Reads, status[f] # "waiting", AtEnd(f)
                 PROVE  /\ {got[f][i] : i \in 1..Len(got[f])} = posted
                        /\ Len(got[f]) = Cardinality(posted)
      BY DEF ReadersSeeAll
    <2>1. got[f] \in Seq(Messages)
      BY DEF IInv, TypeInv
    <2>2. Injective(got[f]) /\ Elements(got[f]) = posted
      <3>1. CASE status[f] = "finished"
        BY <3>1 DEF IInv, ReadInv
      <3>2. CASE status[f] = "running"
        <4>1. /\ Injective(data_) /\ Elements(data_) = posted /\ data_ \in Seq(Messages)
              /\ cursor[f] \in [count_ : Nat, pos_ : Nat, memory : Nat]
          BY <3>2, ReaderSees
        <4>2. /\ cursor[f].count_ = Len(data_) /\ cursor[f].pos_ <= Len(data_)
              /\ Len(got[f]) = cursor[f].pos_ /\ \A k \in 1..cursor[f].pos_ : got[f][k] = data_[k]
          BY <3>2 DEF IInv, ReadInv
        <4>3. cursor[f].pos_ = Len(data_)
          <5>1. cursor[f].pos_ \in Nat /\ Len(data_) \in Nat /\ cursor[f].pos_ >= cursor[f].count_
            BY <4>1 DEF AtEnd
          <5>. QED
            BY <4>2, <5>1
        <4>4. Len(got[f]) = Len(data_) /\ \A k \in 1..Len(data_) : got[f][k] = data_[k]
          BY <4>2, <4>3
        <4>. QED
          BY <4>1, <4>4 DEF Injective, Elements
      <3>. QED
        BY <3>1, <3>2, TaskNames DEF IInv, TypeInv
    <2>. QED
      BY <2>1, <2>2, InjectiveCount DEF Elements
  <1>. QED
    BY <1>1, BoardInductive, PTL

\* No message and no writer is left on the board between iterations.
THEOREM BoardEmptied == ASSUME Ordered PROVE Spec => []EmptyBetweenIterations
  <1>1. IInv => EmptyBetweenIterations
    BY TaskNames DEF IInv, WriterInv, DataInv, EmptyBetweenIterations
  <1>. QED
    BY <1>1, BoardInductive, PTL

\* While Sync() or Clear() runs without a lock, no other task uses the board.
THEOREM BoardIsExclusive == ASSUME Ordered PROVE Spec => []BoardExclusive
  <1>1. IInv => BoardExclusive
    <2> SUFFICES ASSUME IInv, NEW s \in {Sync, Clear}, NEW t \in BoardTasks, s # t,
                        status[s] = "running"
                 PROVE  status[t] # "running"
      BY DEF BoardExclusive
    <2>1. t \in Posts \/ t \in Reads \/ t \in {Sync, Clear}
      BY ModelAssumption DEF BoardTasks
    <2>2. status[Sync] # "waiting"
      BY OrderNow
    <2>. QED
      BY <2>1, <2>2, OrderNow
  <1>. QED
    BY <1>1, BoardInductive, PTL

\* No part of a posting function posts into a writer that Sync() has disconnected.
THEOREM PostsAreConnected == ASSUME Ordered PROVE Spec => []PostsConnected
  <1>1. IInv => PostsConnected
    <2> SUFFICES ASSUME IInv, NEW c \in Clients, part[c] = "posting"
                 PROVE  connected_[Writer(c)]
      BY DEF PostsConnected
    <2>1. c[1] \in Posts /\ status[c[1]] # "finished"
      BY ClientTypes DEF IInv, PartInv
    <2>2. status[Sync] = "waiting"
      BY <2>1, OrderNow
    <2>. QED
      BY <2>2 DEF IInv, WriterInv
  <1>. QED
    BY <1>1, BoardInductive, PTL

\* When the tasks are ordered, no iterator with messages to come is around once the
\* board is being cleared: the responsibility that the comment of MessageBoard leaves
\* to the framework.
THEOREM ClearedAfterReaders == ASSUME Ordered PROVE Spec => []NoUseAfterClear
  <1>1. IInv => NoUseAfterClear
    BY OrderNow DEF NoUseAfterClear
  <1>. QED
    BY <1>1, BoardInductive, PTL

-----------------------------------------------------------------------------
(***************************************************************************)
(* When the tasks of a message are ordered.                                *)
(***************************************************************************)

LEMMA AgentGraphFinite ==
  ASSUME NEW a \in Agents
  PROVE  FiniteGraph(AgentGraph(a))
  <1>1. PICK own : own = {f \in Functions : AgentOf[f] = a}
    OBVIOUS
  <1>2. IsFiniteSet(own) /\ own \subseteq Functions
    BY <1>1, ModelAssumption, FS_Subset
  <1>3. IsFiniteSet(own \union {Sync})
    BY <1>2, FS_AddElement
  <1>4. PICK E : E = {d \in DataDeps : d[1] \in own}
                       \union {<<f, Sync>> : f \in own \intersect Posts}
                       \union {<<Sync, f>> : f \in own \intersect Reads}
    OBVIOUS
  <1>5. AgentGraph(a) = [node |-> own \union {Sync}, edge |-> E]
    BY <1>1, <1>4 DEF AgentGraph
  <1>6. ASSUME NEW d \in DataDeps, d[1] \in own PROVE d \in own \X own
    BY <1>1, <1>6, ModelAssumption
  <1>7. E \subseteq (own \union {Sync}) \X (own \union {Sync})
    BY <1>4, <1>6
  <1>. QED
    BY <1>3, <1>5, <1>7 DEF FiniteGraph, IsDirectedGraph

\* The edges of a vertex in the graph of an agent.
LEMMA AgentEdges ==
  ASSUME NEW a \in Agents
  PROVE  /\ AgentGraph(a).node = {f \in Functions : AgentOf[f] = a} \union {Sync}
         /\ \A f \in Posts : AgentOf[f] = a => Sync \in Successors(AgentGraph(a), f)
         /\ Successors(AgentGraph(a), Sync) = {f \in Reads : AgentOf[f] = a}
  <1>1. PICK own : own = {f \in Functions : AgentOf[f] = a}
    OBVIOUS
  <1>2. PICK E : E = {d \in DataDeps : d[1] \in own}
                       \union {<<f, Sync>> : f \in own \intersect Posts}
                       \union {<<Sync, f>> : f \in own \intersect Reads}
    OBVIOUS
  <1>3. AgentGraph(a) = [node |-> own \union {Sync}, edge |-> E]
    BY <1>1, <1>2 DEF AgentGraph
  <1>4. AgentGraph(a).node = own \union {Sync} /\ AgentGraph(a).edge = E
    BY <1>3
  <1>5. Sync \notin Functions /\ Posts \subseteq Functions /\ Reads \subseteq Functions
    BY ModelAssumption
  <1>6. \A f \in Posts : AgentOf[f] = a => Sync \in Successors(AgentGraph(a), f)
    BY <1>1, <1>2, <1>4, <1>5 DEF Successors
  <1>7. \A f : <<Sync, f>> \in E <=> f \in own \intersect Reads
    BY <1>1, <1>2, <1>5
  <1>8. Successors(AgentGraph(a), Sync) = own \intersect Reads
    BY <1>4, <1>7, <1>5, <1>1 DEF Successors
  <1>. QED
    BY <1>1, <1>4, <1>5, <1>6, <1>8

\* A task that comes after another in the graph of an agent is preceded by it.
LEMMA AfterPrecedes ==
  ASSUME Acyclic, NEW a \in Agents, NEW s \in AgentGraph(a).node, NEW t \in After(AgentGraph(a), s)
  PROVE  Precedes(s, t)
  <1>1. PICK G : G = AgentGraph(a)
    OBVIOUS
  <1>2. FiniteGraph(G) /\ ~Cyclic(G) /\ s \in G.node
    BY <1>1, AgentGraphFinite DEF Acyclic
  <1>3. PICK R : R = Reduced(G)
    OBVIOUS
  <1>4. FiniteGraph(R) /\ R.node = G.node /\ t \in After(R, s)
    BY <1>1, <1>2, <1>3, ReductionKeepsOrder, ReducedEdges
  <1>5. R.edge \subseteq Merged
    BY <1>1, <1>3 DEF Merged
  <1>6. R.node \subseteq BoardTasks
    BY <1>1, <1>4, AgentEdges DEF BoardTasks
  <1>7. SUFFICES ASSUME NEW S \in SUBSET BoardTasks, t \in S,
                        \A u \in S : Dependencies[u] \subseteq S, s \notin S
                 PROVE  FALSE
    BY DEF Precedes
  <1>8. ASSUME NEW e \in R.edge, e[2] \in S PROVE e[1] \in S
    <2>1. e[1] \in Dependencies[e[2]]
      BY <1>5, <1>8 DEF Dependencies
    <2>. QED
      BY <1>7, <1>8, <2>1
  <1>9. PICK V : V = BoardTasks \ S
    OBVIOUS
  <1>10. Successors(R, s) \subseteq V
    BY <1>6, <1>7, <1>8, <1>9 DEF Successors
  <1>11. \A e \in R.edge : e[1] \in V => e[2] \in V
    BY <1>4, <1>6, <1>8, <1>9 DEF FiniteGraph, IsDirectedGraph
  <1>12. After(R, s) \subseteq V
    BY <1>4, <1>10, <1>11, AfterLeast
  <1>. QED
    BY <1>4, <1>7, <1>9, <1>12

\* One reader after another does not wait directly for the sync task; every other does.
LEMMA SyncEdge ==
  ASSUME NEW f \in Reads
  PROVE  <<Sync, f>> \in Merged <=>
           ~ \E g \in Reads : AgentOf[g] = AgentOf[f] /\ f \in After(AgentGraph(AgentOf[f]), g)
  <1>1. PICK a \in Agents : a = AgentOf[f]
    BY ModelAssumption
  <1>2. \A b \in Agents : <<Sync, f>> \in Reduced(AgentGraph(b)).edge => b = a
    <2>1. SUFFICES ASSUME NEW b \in Agents, <<Sync, f>> \in Reduced(AgentGraph(b)).edge PROVE b = a
      OBVIOUS
    <2>2. PICK G : G = AgentGraph(b)
      OBVIOUS
    <2>3. FiniteGraph(G)
      BY <2>2, AgentGraphFinite
    <2>4. <<Sync, f>> \in G.edge /\ f \in G.node
      BY <2>1, <2>2, <2>3, ReducedEdges DEF FiniteGraph, IsDirectedGraph
    <2>5. f \in Successors(AgentGraph(b), Sync)
      BY <2>2, <2>4 DEF Successors
    <2>. QED
      BY <1>1, <2>5, AgentEdges
  <1>3. <<Sync, f>> \in Reduced(AgentGraph(a)).edge <=>
          ~ \E g \in Successors(AgentGraph(a), Sync) : f \in After(AgentGraph(a), g)
    <2>1. PICK G : G = AgentGraph(a)
      OBVIOUS
    <2>2. FiniteGraph(G)
      BY <2>1, AgentGraphFinite
    <2>3. f \in Successors(G, Sync)
      BY <1>1, <2>1, AgentEdges
    <2>4. <<Sync, f>> \in G.edge
      BY <2>3 DEF Successors
    <2>5. <<Sync, f>> \in Reduced(G).edge <=> ~ \E g \in Successors(G, Sync) : f \in After(G, g)
      BY <2>2, <2>4, ReducedEdges
    <2>. QED
      BY <2>1, <2>5
  <1>4. Successors(AgentGraph(a), Sync) = {g \in Reads : AgentOf[g] = a}
    BY AgentEdges
  <1>5. <<Sync, f>> \in Merged <=> <<Sync, f>> \in Reduced(AgentGraph(a)).edge
    BY <1>2 DEF Merged
  <1>. QED
    BY <1>1, <1>3, <1>4, <1>5

\* What the clear task waits for.
LEMMA ClearWaitsFor ==
  /\ \A f : f \in Dependencies[Clear] <=> <<Sync, f>> \in Merged
  /\ \A f : <<Sync, f>> \in Merged => f \in Reads
  <1>1. ASSUME NEW b \in Agents, NEW e \in Reduced(AgentGraph(b)).edge
        PROVE  e = <<e[1], e[2]>> /\ e[2] # Clear /\ (e[1] = Sync => e[2] \in Reads)
    <2>1. PICK G : G = AgentGraph(b)
      OBVIOUS
    <2>2. FiniteGraph(G)
      BY <2>1, AgentGraphFinite
    <2>3. e \in G.edge
      BY <2>1, <2>2, ReducedEdges
    <2>4. e = <<e[1], e[2]>> /\ e[2] \in G.node
      BY <2>2, <2>3 DEF FiniteGraph, IsDirectedGraph
    <2>5. e[2] \in Functions \union {Sync}
      BY <2>1, <2>4, AgentEdges
    <2>6. e[2] # Clear
      BY <2>5, ModelAssumption DEF Sync, Clear
    <2>7. e[1] = Sync => e[2] \in Successors(G, Sync)
      BY <2>3, <2>4 DEF Successors
    <2>8. e[1] = Sync => e[2] \in Reads
      BY <2>1, <2>7, AgentEdges
    <2>. QED
      BY <2>4, <2>6, <2>8
  <1>2. \A e \in Merged : e = <<e[1], e[2]>> /\ e[2] # Clear /\ (e[1] = Sync => e[2] \in Reads)
    BY <1>1 DEF Merged
  <1>3. Dependencies[Clear] = {e[1] : e \in {d \in Merged \union ClearEdges : d[2] = Clear}}
    BY DEF Dependencies, BoardTasks
  <1>4. ASSUME NEW f PROVE f \in Dependencies[Clear] <=> <<f, Clear>> \in ClearEdges
    <2>1. ASSUME f \in Dependencies[Clear] PROVE <<f, Clear>> \in ClearEdges
      <3>1. PICK e \in Merged \union ClearEdges : e[2] = Clear /\ e[1] = f
        BY <1>3, <2>1
      <3>2. e \in ClearEdges
        BY <1>2, <3>1
      <3>3. e = <<e[1], e[2]>>
        BY <3>2 DEF ClearEdges
      <3>. QED
        BY <3>1, <3>2, <3>3
    <2>2. ASSUME <<f, Clear>> \in ClearEdges PROVE f \in Dependencies[Clear]
      <3>1. PICK e : e = <<f, Clear>>
        OBVIOUS
      <3>2. e \in ClearEdges /\ e[2] = Clear /\ e[1] = f
        BY <2>2, <3>1
      <3>. QED
        BY <1>3, <3>2
    <2>. QED
      BY <2>1, <2>2
  <1>5. \A f : <<f, Clear>> \in ClearEdges <=> <<Sync, f>> \in Merged
    BY <1>2 DEF ClearEdges
  <1>. QED
    BY <1>2, <1>4, <1>5

\* Precedes is transitive.
LEMMA PrecedesTransitive ==
  ASSUME NEW s, NEW u, NEW t, Precedes(s, u), Precedes(u, t)
  PROVE  Precedes(s, t)
  BY DEF Precedes

\* The tasks of a message that is read are ordered exactly when no function of an agent
\* that reads it comes after another one that does: addMessageClearTasks() puts the
\* clear task behind the direct targets of the sync task only, and
\* removeRedundantDependencies() has left the first reader of each agent there.  This
\* says which models the theorems above are about, and that the others are unsafe.
THEOREM OrderedIffReadersApart ==
  ASSUME Acyclic, Reads # {}
  PROVE  Ordered <=> ReadersApart
  <1>1. ASSUME ReadersApart PROVE Ordered
    <2>1. ASSUME NEW f \in Posts PROVE Precedes(f, Sync)
      <3>1. PICK a \in Agents : a = AgentOf[f]
        BY ModelAssumption
      <3>2. f \in AgentGraph(a).node /\ Sync \in Successors(AgentGraph(a), f)
        BY <3>1, AgentEdges, ModelAssumption
      <3>3. Sync \in After(AgentGraph(a), f)
        BY <3>2, AgentGraphFinite, AfterLeast
      <3>. QED
        BY <3>2, <3>3, AfterPrecedes
    <2>2. ASSUME NEW f \in Reads PROVE Precedes(Sync, f) /\ Precedes(f, Clear)
      <3>1. PICK a \in Agents : a = AgentOf[f]
        BY ModelAssumption
      <3>2. Sync \in AgentGraph(a).node /\ f \in Successors(AgentGraph(a), Sync)
        BY <3>1, AgentEdges
      <3>3. f \in After(AgentGraph(a), Sync)
        BY <3>2, AgentGraphFinite, AfterLeast
      <3>4. Precedes(Sync, f)
        BY <3>2, <3>3, AfterPrecedes
      <3>5. <<Sync, f>> \in Merged
        BY <1>1, SyncEdge DEF ReadersApart
      <3>6. f \in Dependencies[Clear]
        BY <3>5, ClearWaitsFor
      <3>7. Precedes(f, Clear)
        BY <3>6 DEF Precedes
      <3>. QED
        BY <3>4, <3>7
    <2>3. Precedes(Sync, Clear)
      BY <2>2, PrecedesTransitive
    <2>. QED
      BY <2>1, <2>2, <2>3 DEF Ordered
  <1>2. ASSUME Ordered, NEW f \in Reads, NEW g \in Reads, AgentOf[f] = AgentOf[g],
               f \in After(AgentGraph(AgentOf[g]), g)
        PROVE  FALSE
    <2>1. PICK a \in Agents : a = AgentOf[g]
      BY ModelAssumption
    <2>2. PICK G : G = AgentGraph(a)
      OBVIOUS
    <2>3. FiniteGraph(G) /\ ~Cyclic(G) /\ f \in After(G, g)
      BY <1>2, <2>1, <2>2, AgentGraphFinite DEF Acyclic
    <2>4. G.node = {h \in Functions : AgentOf[h] = a} \union {Sync}
      BY <2>2, AgentEdges
    <2>5. PICK X : X = {f} \union After(G, f)
      OBVIOUS
    <2>6. X \subseteq G.node /\ X \subseteq After(G, g)
      <3>1. After(G, f) \subseteq After(G, g)
        BY <2>3, AfterTransitive
      <3>2. After(G, g) \subseteq G.node
        BY <2>3, AfterLeast
      <3>. QED
        BY <2>3, <2>5, <3>1, <3>2
    <2>7. Sync \notin X
      <3>1. f \in Successors(G, Sync)
        BY <1>2, <2>1, <2>2, AgentEdges
      <3>2. f \in After(G, Sync)
        BY <2>3, <3>1, AfterLeast
      <3>3. Sync \notin After(G, Sync)
        BY <2>3, <2>4 DEF Cyclic
      <3>4. Sync \notin After(G, f)
        BY <2>3, <3>2, <3>3, AfterTransitive
      <3>. QED
        BY <2>3, <2>5, <3>4, ModelAssumption
    <2>8. X \subseteq {h \in Functions : AgentOf[h] = a}
      BY <2>4, <2>6, <2>7
    <2>9. PICK S : S = BoardTasks \ X
      OBVIOUS
    <2>10. ASSUME NEW u \in S, NEW d \in Dependencies[u], d \in X PROVE FALSE
      <3>1. CASE u = Clear
        <4>1. <<Sync, d>> \in Merged /\ d \in Reads
          BY <2>10, <3>1, ClearWaitsFor
        <4>2. AgentOf[d] = a /\ d \in After(AgentGraph(a), g) /\ AgentOf[g] = a
          BY <2>1, <2>2, <2>6, <2>8, <2>10
        <4>. QED
          BY <4>1, <4>2, SyncEdge
      <3>2. CASE u # Clear
        <4>1. u \in BoardTasks
          BY <2>9
        <4>2. Dependencies[u] = {e[1] : e \in {h \in Merged \union ClearEdges : h[2] = u}}
          BY <4>1 DEF Dependencies
        <4>3. PICK e \in Merged \union ClearEdges : e[2] = u /\ e[1] = d
          BY <2>10, <4>2
        <4>4. e \in Merged
          BY <3>2, <4>3 DEF ClearEdges
        <4>5. PICK b \in Agents : e \in Reduced(AgentGraph(b)).edge
          BY <4>4 DEF Merged
        <4>6. PICK H : H = AgentGraph(b)
          OBVIOUS
        <4>7. FiniteGraph(H)
          BY <4>6, AgentGraphFinite
        <4>8. e \in H.edge
          BY <4>5, <4>6, <4>7, ReducedEdges
        <4>9. e = <<d, u>> /\ d \in H.node /\ u \in H.node
          BY <4>3, <4>7, <4>8 DEF FiniteGraph, IsDirectedGraph
        <4>10. H.node = {h \in Functions : AgentOf[h] = b} \union {Sync}
          BY <4>6, AgentEdges
        <4>11. b = a
          BY <2>7, <2>8, <2>10, <4>9, <4>10
        <4>12. e \in G.edge /\ u \in G.node
          BY <2>2, <4>6, <4>8, <4>9, <4>11
        <4>13. u \in After(G, f)
          <5>1. CASE d = f
            <6>1. u \in Successors(G, f)
              BY <4>9, <4>12, <5>1 DEF Successors
            <6>. QED
              BY <2>3, <6>1, AfterLeast
          <5>2. CASE d \in After(G, f)
            BY <2>3, <4>3, <4>12, <5>2, AfterLeast
          <5>. QED
            BY <2>5, <2>10, <5>1, <5>2
        <4>. QED
          BY <2>5, <2>9, <4>13
      <3>. QED
        BY <3>1, <3>2
    <2>11. \A u \in S : Dependencies[u] \subseteq S
      <3>1. SUFFICES ASSUME NEW u \in S, NEW d \in Dependencies[u] PROVE d \in S
        OBVIOUS
      <3>2. d \in BoardTasks
        BY <2>9, DependencyTasks
      <3>. QED
        BY <2>9, <2>10, <3>2
    <2>12. Clear \in S
      <3>1. Clear \notin Functions
        BY ModelAssumption
      <3>. QED
        BY <2>8, <2>9, <3>1 DEF BoardTasks
    <2>13. Precedes(f, Clear) /\ S \in SUBSET BoardTasks
      BY <1>2, <2>9 DEF Ordered
    <2>14. f \in S
      BY <2>11, <2>12, <2>13 DEF Precedes
    <2>. QED
      BY <2>5, <2>9, <2>14
  <1>. QED
    BY <1>1, <1>2 DEF ReadersApart

=============================================================================
