---------------------------- MODULE MessageBoard ----------------------------
(***************************************************************************)
(* flame::mb::MessageBoard with the BoardWriters and MessageIterators of   *)
(* its clients (flame2/mb/message_board.cpp, board_writer.hpp, client.cpp, *)
(* message_iterator_backend_raw.hpp), used by the tasks of a simulation in *)
(* the order the dependency graph of MessageGraph allows.                  *)
(*                                                                         *)
(* The scheduler is represented by what it promises, module Iteration.  A  *)
(* posting task is split into parts that run concurrently, each with a     *)
(* client and a writer of its own.  Only GetBoardWriter() is locked:       *)
(* Sync() and Clear() take two steps, between which others may run.  The   *)
(* build does not define DEBUG, so Post() does not test the connection.    *)
(***************************************************************************)
EXTENDS MessageGraph, SequencesExt

CONSTANTS
  Parts,          \* parts of a posting task
  MaxPosts,       \* messages a part posts at most
  MaxIterations   \* bound on the iterations

ASSUME BoundAssumption == MaxPosts \in Nat /\ MaxIterations \in Nat \ {0}

VARIABLES
  deps, status, iteration,   \* of the tasks, as in module Iteration
  part,                \* progress of each part of each posting task
  data_,               \* messages of the board
  capacity,            \* capacity of data_
  buffer,              \* identity of the memory data_ occupies
  writers_,            \* writers issued and not yet collected
  messages,            \* messages[w]: messages buffered in writer w
  connected_,          \* connected_[w]: w has not been disconnected
  cursor,              \* cursor[f]: iterator of reading function f
  got,                 \* got[f]: messages f has read since it began or went back
  posted               \* history: messages posted in this iteration

boardVars  == <<data_, capacity, buffer, writers_, messages, connected_>>
clientVars == <<part, cursor, got, posted>>
iterVars == <<deps, status, iteration>>
vars == <<iterVars, boardVars, clientVars>>

\* No iteration is abandoned here: module Scheduler.
It == INSTANCE Iteration WITH Tasks <- BoardTasks, abandoned <- FALSE

\* A client is created for every run of a part and asks for one writer.
Clients == Posts \X Parts
Writer(c) == <<c, iteration>>

NoCursor == [count_ |-> 0, pos_ |-> 0, memory |-> 0]
Garbage  == "garbage"       \* what a read through a dangling pointer returns

Init ==
  /\ deps = Dependencies
  /\ status = [t \in BoardTasks |-> "waiting"] /\ iteration = 1
  /\ part = [c \in Clients |-> "new"]
  /\ data_ = <<>> /\ capacity = 0 /\ buffer = 0
  /\ writers_ = <<>>
  /\ messages = [w \in Clients \X (1..MaxIterations) |-> <<>>]
  /\ connected_ = [w \in Clients \X (1..MaxIterations) |-> FALSE]
  /\ cursor = [f \in Reads |-> NoCursor]
  /\ got = [f \in Reads |-> <<>>]
  /\ posted = {}

-----------------------------------------------------------------------------
(***************************************************************************)
(* Posting tasks.                                                          *)
(***************************************************************************)

StartPosting(f) ==
  /\ It!Start(f)
  /\ UNCHANGED <<boardVars, clientVars>>

\* MessageBoard::GetBoardWriter(), called by the constructor of Client.
GetBoardWriter(c) ==
  /\ status[c[1]] = "running" /\ part[c] = "new"
  /\ writers_' = Append(writers_, Writer(c))
  /\ connected_' = [connected_ EXCEPT ![Writer(c)] = TRUE]
  /\ part' = [part EXCEPT ![c] = "posting"]
  /\ UNCHANGED <<iterVars, data_, capacity, buffer, messages, cursor, got,
                 posted>>

\* BoardWriter::Post(): into the buffer of the writer, connected or not.
Post(c) ==
  LET m == <<Writer(c), Len(messages[Writer(c)]) + 1>> IN
  /\ part[c] = "posting"
  /\ Cardinality({n \in posted : n[1] = Writer(c)}) < MaxPosts
  /\ messages' = [messages EXCEPT ![Writer(c)] = Append(@, m)]
  /\ posted' = posted \union {m}
  /\ UNCHANGED <<iterVars, data_, capacity, buffer, writers_, connected_,
                 part, cursor, got>>

PartDone(c) ==
  /\ part[c] = "posting"
  /\ part' = [part EXCEPT ![c] = "done"]
  /\ UNCHANGED <<iterVars, boardVars, cursor, got, posted>>

FinishPosting(f) ==
  /\ \A p \in Parts : part[<<f, p>>] = "done"
  /\ It!Finish(f)
  /\ UNCHANGED <<boardVars, clientVars>>

-----------------------------------------------------------------------------
(***************************************************************************)
(* The sync and the clear task of the board.                               *)
(***************************************************************************)
Issued == {writers_[i] : i \in 1..Len(writers_)}

Disconnected == [w \in DOMAIN connected_ |-> connected_[w] /\ w \notin Issued]

\* First loop of Sync(): disconnect the writers.
BeginSync ==
  /\ It!Start(Sync)
  /\ connected_' = Disconnected
  /\ UNCHANGED <<data_, capacity, buffer, writers_, messages, clientVars>>

\* Mutant: the writer issued last is left out.
CollectedAllButOne ==
  data_ \o FlattenSeq([i \in 1..(Len(writers_) - 1) |-> messages[writers_[i]]])

Collected == data_ \o FlattenSeq([i \in 1..Len(writers_) |-> messages[writers_[i]]])

\* reserve() moves data_ to new memory when it is too small; then the messages are
\* copied from the writers, which are emptied and forgotten.
EndSync ==
  /\ It!Finish(Sync)
  /\ data_' = Collected
  /\ IF Len(Collected) > capacity
     THEN capacity' = Len(Collected) /\ buffer' = buffer + 1
     ELSE UNCHANGED <<capacity, buffer>>
  /\ messages' = [w \in DOMAIN messages |-> IF w \in Issued THEN <<>> ELSE messages[w]]
  /\ writers_' = <<>>
  /\ UNCHANGED <<connected_, clientVars>>

\* _DeleteWriters() disconnects and forgets the writers.
BeginClear ==
  /\ It!Start(Clear)
  /\ connected_' = Disconnected
  /\ writers_' = <<>>
  /\ UNCHANGED <<data_, capacity, buffer, messages, clientVars>>

\* Mutant: only the writers are deleted.
EndClearKeepsData ==
  /\ It!Finish(Clear)
  /\ UNCHANGED <<boardVars, clientVars>>

\* data_->clear() keeps the memory.
EndClear ==
  /\ It!Finish(Clear)
  /\ data_' = <<>>
  /\ UNCHANGED <<capacity, buffer, writers_, messages, connected_, clientVars>>

-----------------------------------------------------------------------------
(***************************************************************************)
(* Reading tasks.                                                          *)
(***************************************************************************)

\* GetMessages(): the iterator notes the count and the address of the messages.
GetMessages(f) ==
  /\ It!Start(f)
  /\ cursor' = [cursor EXCEPT
                  ![f] = [count_ |-> Len(data_), pos_ |-> 0, memory |-> buffer]]
  /\ UNCHANGED <<boardVars, part, got, posted>>

AtEnd(f) == cursor[f].pos_ >= cursor[f].count_

\* The pointer is good while the memory is in place and still holds the message.
Current(f) ==
  IF cursor[f].memory = buffer /\ cursor[f].pos_ < Len(data_)
  THEN data_[cursor[f].pos_ + 1]
  ELSE Garbage

\* Get() and Next().
ReadNext(f) ==
  /\ status[f] = "running"
  /\ ~AtEnd(f)
  /\ got' = [got EXCEPT ![f] = Append(@, Current(f))]
  /\ cursor' = [cursor EXCEPT ![f].pos_ = @ + 1]
  /\ UNCHANGED <<iterVars, boardVars, part, posted>>

\* Rewind(): back to the first message, at the address it has now; count_ stays.
\* Randomise() throws not_implemented and is not called.
Rewind(f) ==
  /\ status[f] = "running"
  /\ cursor' = [cursor EXCEPT ![f].pos_ = 0, ![f].memory = buffer]
  /\ got' = [got EXCEPT ![f] = <<>>]
  /\ UNCHANGED <<iterVars, boardVars, part, posted>>

\* The loop over the messages of an agent function ends.
FinishReading(f) ==
  /\ AtEnd(f)
  /\ It!Finish(f)
  /\ UNCHANGED <<boardVars, clientVars>>

-----------------------------------------------------------------------------
\* The next iteration: Scheduler::RunIteration() is called again.
NextIteration ==
  /\ iteration < MaxIterations
  /\ It!Advance
  /\ part' = [c \in Clients |-> "new"]
  /\ cursor' = [f \in Reads |-> NoCursor]
  /\ got' = [f \in Reads |-> <<>>]
  /\ posted' = {}
  /\ UNCHANGED boardVars

Stop ==
  /\ iteration = MaxIterations
  /\ \A t \in BoardTasks : status[t] = "finished"
  /\ UNCHANGED vars

Next ==
  \/ \E f \in Posts : StartPosting(f) \/ FinishPosting(f)
  \/ \E c \in Clients : GetBoardWriter(c) \/ Post(c) \/ PartDone(c)
  \/ BeginSync \/ EndSync \/ BeginClear \/ EndClear
  \/ \E f \in Reads : GetMessages(f) \/ ReadNext(f) \/ Rewind(f) \/ FinishReading(f)
  \/ NextIteration
  \/ Stop

Spec == Init /\ [][Next]_vars

-----------------------------------------------------------------------------
(***************************************************************************)
(* Properties.                                                             *)
(***************************************************************************)

\* The board holds whole messages, every writer in writers_ is there once, and
\* capacity bounds the messages held.
TypeOK ==
  /\ status \in [BoardTasks -> {"waiting", "running", "finished"}]
  /\ part \in [Clients -> {"new", "posting", "done"}]
  /\ Len(data_) <= capacity
  /\ Cardinality(Issued) = Len(writers_)
  /\ \A f \in Reads : cursor[f].pos_ <= cursor[f].count_

\* What a reading function has got when its iteration ends is what all parts of
\* all posting functions posted in this iteration, every message once: nothing is
\* lost in a writer, duplicated by Sync() or left over from the last iteration.
ReadersSeeAll ==
  \A f \in Reads :
    (status[f] # "waiting" /\ AtEnd(f)) =>
      /\ {got[f][i] : i \in 1..Len(got[f])} = posted
      /\ Len(got[f]) = Cardinality(posted)

\* The board is clean when the next iteration starts.
EmptyBetweenIterations ==
  (\A t \in BoardTasks : status[t] = "finished") => data_ = <<>> /\ writers_ = <<>>

\* Sync() and Clear() are not locked ("This is the only method that's protected by
\* a mutex", of GetBoardWriter()): while one of them runs, no other task uses the board.
BoardExclusive ==
  \A s \in {Sync, Clear}, t \in BoardTasks :
    (s # t /\ status[s] = "running") => status[t] # "running"

\* "It is the framework's responsibility to ensure that this does not happen": no
\* iterator with messages to come is around once the board is being cleared.
NoUseAfterClear ==
  status[Clear] # "waiting" => \A f \in Reads : status[f] = "running" => AtEnd(f)

\* No part posts into a writer that Sync() or Clear() has disconnected.
PostsConnected ==
  \A c \in Clients : part[c] = "posting" => connected_[Writer(c)]
=============================================================================
