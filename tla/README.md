# Verification of FLAME II

FLAME II runs agent-based simulations. A model (agents with memory variables,
state transition functions and messages) is turned into a graph of tasks; a
scheduler runs the tasks of one iteration on worker threads, again and again.
This directory holds TLA+ modules of the whole way from model file to population
file: reading and validating a model, generating the task graph, reading a
population, running iterations on threads, exchanging messages and writing the
population; the TLC runs that check them, and TLAPS proofs of
their safety properties.

Run a check with `tlc -config X.cfg Module` and the proofs with
`tlapm XProofs.tla`. `PROJECT.json` maps every definition to the
source lines it models and lists runs, mutants, findings and hazards.

## 1. Inventory

| Component | State | Operations | Interacts with |
|---|---|---|---|
| `exe::TaskManager` | tasks, dependency graph kept four times (`parents_`, `children_`, `roots_`, `leaves_`), iteration records (`pending_deps_`, `ready_tasks_`, `pending_tasks_`, `assigned_tasks_`) | register, add dependency, finalise, reset, pop, done | `Scheduler` calls it; `XGraph` fills it |
| `exe::Scheduler` | queues, routes of task types, `doneq_` with mutex and condition, `iter_count_` | `CreateQueue`, `AssignType`, `RunIteration`, `TaskDoneCallback`, destruction | owns queues; called back by workers; tells `IOManager` the iteration |
| `exe::FIFOTaskQueue`, `WorkerThread` | FIFO of ids with mutex and condition, threads | `Enqueue`, `GetNextTask`, `TaskDone`, worker loop | between scheduler and workers |
| `exe::SplittingFIFOTaskQueue`, `TaskSplitter` | the same, plus `split_map_` and three counters per split task | the same, plus `GetTaskById` and the setters | calls back while it holds its mutex |
| `exe::AgentTask`, `IOTask`, `MessageBoardTask` | range of agents, function, board operation | `Run`, `SplitTask`, `AllowAccess` | memory, boards, I/O |
| `mb::MessageBoard`, `BoardWriter`, `Client`, `MessageIterator` | messages, writers issued, connection flags, cursors | `GetBoardWriter`, `Post`, `Sync`, `Clear`, `GetMessages` | used by tasks on worker threads; only `GetBoardWriter` is locked |
| `mem::MemoryManager`, `AgentMemory`, `AgentShadow`, `MemoryIterator` | one vector per agent variable, access lists, cached size | register, allow access, iterate | tasks, population I/O |
| `model::XGraph` | graph of functions, states, messages, the last readers and writers of each variable | build, check, contract, order data, reduce, merge, register | fills `TaskManager` |
| `model::XModel` and its parts, `XModelValidate`, `Model` | the model, `validated_`, registered functions | add, validate (which also rewrites), register | I/O, memory, boards, simulation |
| `io::IOXMLModel` | open documents, list of included files | read a model and the files it includes | fills `XModel` |
| `io::IOManager`, `IOXMLPop` | iteration number, order of variables per agent type | make a schema, read and write a population | agent memory, I/O tasks, simulation |
| `sim::Simulation` | the model | construct, `start` | everything |
| `api`, `exceptions`, `xparser2` | none of their own | wrappers, code generation | user code |

What is hard here: three kinds of threads share a queue and a completion list
under different mutexes; the main thread waits with `if` where `while` is usual;
an exception in the middle of an iteration leaves work behind; destruction order
decides whether late workers find their target; the splitting queue takes its
mutex three times per subtask and calls back under it; message boards are not
locked and rely on the dependency graph, which is itself reduced before the
clear tasks are placed; the order of two functions that use one variable survives
only as far as data dependencies replace the state edges; validation rewrites the
model it checks; model files include each other and exceptions pass through
several open documents; a population is read value by value into separate vectors
and reading can stop between any two. The hazards in `PROJECT.json` name the lines.

What makes each part correct:

- task manager: the records agree, no task is lost, offered early or twice, and
  an acyclic iteration can always go on;
- scheduler and queue: every task runs once per iteration after what it depends
  on, the call returns when all are done, nobody sleeps on work, and the
  destructor ends;
- splitting: subtasks partition the population; every agent is visited once; a
  task is reported once, after its last subtask;
- message boards: a reader gets exactly what was posted in the iteration, and
  the unlocked operations run alone;
- graph generation: functions that conflict keep the order of the state machine,
  posts come before the sync task and reads after it, the population is written
  after the last writer, and no cycle appears that the model does not have;
- model: a file is read once under each of its paths and its document freed once,
  nothing of an agent that is spread over files is lost, a validated model is well
  formed and stays so until it is called not validated, and a simulation that has
  started runs the model as it is;
- population: memory is what the file says, every function is applied to every
  agent once, all agents are written, and what was written can be read, as far as
  its values are finite.

## 2. Modules

| Module | Models |
|---|---|
| `TaskManager` | `task_manager.cpp`, one action per call |
| `Iteration` | abstract: what `RunIteration()` promises |
| `Scheduler` | main thread, FIFO queues and workers; composes `TaskManager` by `INSTANCE`; implements `Iteration` |
| `TaskSplit`, `TaskSplitLoop` | arithmetic of `AgentTask::SplitTask()`, and the loop that computes it |
| `TaskQueue` | abstract: what a queue promises the scheduler |
| `SplittingQueue` | splitting queue, splitters, workers and the scheduler's loop; uses `TaskSplit`; implements `TaskQueue` |
| `TaskGraph` | operations on graphs used by `xgraph.cpp`: removal, contraction, reduction, cycles |
| `XGraph` | state machine to registered tasks, one action per pass of `XGraph`; uses `TaskGraph` |
| `MessageGraph` | the graph around one message board, from posting and reading functions to sync and clear tasks; uses `TaskGraph` |
| `MessageBoard` | board, writers, clients, iterators, driven by `Iteration` over the graph of `MessageGraph` |
| `ModelReader` | `io_xml_model.cpp`: included files, documents, exceptions, and what each element adds to the model |
| `ModelValidate` | `xmodel_validate.cpp`: the model after validation and whether it has errors, as operators; extends `ModelReader` |
| `Conditions` | `xcondition.cpp` and the condition elements of `io_xml_model.cpp`, which are recursive |
| `Model` | `Model` and `Simulation`: read, edit, validate, register, start; composes reader, validation and the registries |
| `Population` | population file, agent memory, agent tasks over it, output file |
| `*Proofs` | inductive invariants, lemmas and theorems of the module they are named after |
| `MC*` | instances for TLC |

Conventions. Variables keep the names of the C++ members, program points of
threads are strings. A C++ vector is a sequence; index *i* of the code is
*i + 1*. A critical section is one action unless the lock is held over a step
that can block (draining `doneq_`, the callback of the splitting queue). A call
that throws without changing state is a false guard; one that throws after it
changed state is an action (`EnqueueTaskThrows`, `DrainThrows`). Condition
variables can wake spuriously. Writing through a destroyed vector
(`TaskDoneTooLate`) either goes unnoticed or ends the process. History variables
(`completed`, `finished`, `unvisited`, `posted`, `got`) record what happened and
guard no transition of the code; in `MessageBoard` the number of messages in
`posted` also serves as the bound on posts. Definitions marked *Mutant* are faulty
variants of the definition that follows them, used to show that a property can
fail.

### TaskManager

Names stand for tasks; the three `Create...Task` calls end in `RegisterTask`.
`Debug` and `TestBuild` are the preprocessor symbols. The depth-first search for
cycles is modelled by the set it visits, the least set that holds the target and
is closed under `parents_`. A `std::set` is iterated in ascending order, which
fixes the order of `ready_tasks_`.

### Scheduler

`main` is the program point of the main thread: `idle` (the client has control),
`schedule`, `waiting`, `woken`, `drain` (holds `doneq_mutex_`), `threw`,
`terminate` (destructors run), `destroyed`, and `terminated` for the process.
`worker[w]` is `new`, `get`, `blocked`, `run`, `done` or `exited`. Destruction
follows the reverse order of the members: `doneq_` goes first, then each queue
enqueues its termination tasks and joins. `Throwing` are tasks whose `Run()` may
throw, which ends the process. The client may call again, configure or destroy
after `RunIteration()` threw; `aborted` records that it did throw, since what was
enqueued then is still under way.

`Iteration` promises that every task runs once per iteration after its
dependencies, until an iteration is abandoned.

### SplittingQueue

The main thread is the loop of `RunIteration()` with an arbitrary choice of what
is ready. `worker[w] = "report"` is a worker that holds `mutex_` and waits for
`doneq_mutex_`. Counters wrap around at `SizeMod`. The configuration changes
only between iterations, as `Scheduler`'s setters are called by the client.

### MessageGraph and MessageBoard

One message. `AgentGraph` is the graph of one agent before the transitive
reduction; `DataDeps` stands for the data dependencies `addDataDependencies`
finds. `Parts` are the subtasks of a posting function. `buffer` identifies the
memory of `data_`, so that a pointer kept by an iterator can dangle. `Sync()` and
`Clear()` take two steps each. The build is the one without `DEBUG`.

### XGraph

An agent is a record of functions with current and next state, the variables they
read and write and the messages they post and read. `graph` holds one graph per
agent and is changed in place, first by the validation, later by
`generateDependencyGraph`; `step` is the pass that comes next. State edges are kept
apart from the others because `removeStateDependencies` removes them.
`AddDataDependencies` takes the vertices in any topological order, one per step, as
boost's order is not specified. `Register` models the three ways a vertex becomes
tasks: none (function not registered), one, or one for each variable of an output
vertex. An edge whose end has no task throws, and so does, in a `DEBUG` build, one that
closes a cycle; the run takes both builds. What was added to the task manager before the
exception is left out, as `start()` ends with it. What the models satisfy, whatever the
instance, is `ModelsAssumption`, which TLC evaluates on the models of the run.

### ModelReader, ModelValidate, Conditions, Model

A file is missing, malformed or a list of elements. A path is the sequence of its
parts, and `Resolve` says which file it leads to: several paths can lead to one. The
path of an included file is the directory of the including one with the name behind it
(`PathOf`), so it grows as files nest; above `MaxPath` parts `exists()` throws. A file
that was loaded by a bare name has the directory `/`, as the code appends the slash to
an empty `parent_path()`. Paths are compared as text (`IsDuplicate`). The code compares
what `absolute()` makes of them, which puts the current directory before a relative path
and changes nothing else. `stack` holds the paths being
read, each with its document; `docs` counts how often each document was freed. An
exception unwinds the stack and frees what the `catch` clauses free. A second condition
of a function or filter of an input throws (`SecondCondition`). `xmodel` is
the model as the `XModel` classes hold it; texts that the validation takes apart
(`a.x`, `int_array`, `x[3]`) are records of their parts, and validation strips them
as the code does, so a second validation meets another model. `Validated(m)` gives
the rewritten model and whether there were errors. Editing calls change the model
and reset `validated_`; a call that throws changes nothing and is not taken.
`agentMap`, `boards` and `funcMap` are what has been registered with the memory
manager, the board manager and the model. `Start` throws where the registration of
tasks, accesses and boards does (`RegistrationThrows`). Two things depend on the edges of
the generated graph and are left open here, both outcomes being possible: a function that
was not registered throws if an edge names it (`Unregistered`), and in a `DEBUG` build a
cycle throws, such as that of two agents that read each other's messages (`MayBeCyclic`).
Module `XGraph` decides both.
Conditions nest, so reading and validating them is recursive. `ModelReader` and
`ModelValidate` take these operations as operator constants (`ConditionOf`,
`Processed`, `SymbolsFit`, `Valid`, `ReadsOf`), which keeps recursion out of the
modules that are proved about; `MCModel` gives them the definitions of `Conditions`.
`FilesAssumption` says that there are finitely many files and that children of an
element are in a sequence, `EditsAssumption` that the editing calls are those modelled.

### Population

Memory is one sequence per variable; `node` is the position of the XML reader.
Texts are numbers, integers too large for `int`, words, or the names of values that are
not finite, in the spelling of XML Schema (`INF`) or of `printf` (`inf`); `lexical_cast`
takes both for a double, the schema the first only. The schema is the
predicate `DataSchema`, with the choice of variables not tied to the name of the
agent. Agent tasks run whole or in two segments, agent by agent and interleaved;
the function adds a constant to each variable it may write, except that a double at one
of the `Poles` becomes infinite, and may try to write
another variable. A double is `NonFinite` (an infinity or not a number) or counted in units
of 10^-7, so that `%f` rounds. Both builds,
with and without `DEBUG`, are explored. A second simulation reads what the first
one wrote. `PopulationAssumption`: agent types have different names and at least one
variable (for a type without variables the loop of `writeAgents()` does not end),
the variables of a type have different names, and a function has access to variables of
its own agent.

## 3. Runs

| Run | Shows | Bounds |
|---|---|---|
| `task_manager` | records of graph and iteration agree, dependencies are met, never stuck | 4 names (a diamond, a chain and a cycle of three and four fit) |
| `scheduler` | accounting, no lost wakeup, `Iteration` implemented, `RunIteration()` and the destructor end, with unassigned types, a throwing task, retries and destruction at any time | 3 tasks, six graphs, 2 queues, 3 workers, 2 types, 2 calls |
| `task_split` | subtasks partition the population, sizes respected | populations to 11, limits to 5 and 4 |
| `splitting_queue` | counters exact, agents once, work conserving, `TaskQueue` implemented, tasks reported, destructor ends | 3 workers, 2 tasks, 2 enqueues, populations 7 and 1, up to 4 subtasks |
| `message_board` | readers get all messages once, unlocked operations run alone | 2 agents, 4 functions, 2 parts, 2 iterations |
| `message_board_cleared_early` | *violation*: board cleared under a reader | 1 agent, 3 functions |
| `xgraph` | conflicts and messages ordered, output after writers, no new cycle | every use of 2 variables by 3 functions in chain, fork and join; 2 agents of 2 functions with 2 messages |
| `xgraph_outputs` | *violation*: an output task without dependencies | the same |
| `model` | documents, included files and detours, truth of `validated_`, no dynamic arrays in messages, what a started simulation runs | sets of up to 4 files (`AllFileSets`), paths of up to 6 parts and 2 edits, or up to 7 calls on an empty model |
| `model_access` | *violation*: access to unknown variables is validated | the same |
| `population` | population read, each agent once, all written, output readable exactly when finite | 2 agent types, 3 variables, files of up to 4 agents, a pole, 2 iterations, 2 simulations |
| `population_sizes` | *violation*: uneven vectors not noticed | the same |

Why the bounds are enough: two workers and two completions suffice for every race
on `doneq_`, and the third worker lets each queue have one that waits; a second
call shows what the first one leaves behind; three subtasks on three workers let
one be fetched, one run and one report at the same time; a second enqueue reuses an
id. Two variables let two functions conflict on one and not on the other; three
functions make a diamond with the condition task. Files nest three deep, include
each other in a ring, and a third one twice; one includes itself by a detour through
its directory, up to the longest path, and one is included under two paths. Two agents
read each other's messages. Two agents of one type and one of
another give uneven vectors, a segment border and an empty type.
The theorems of section 5 lift these bounds for the safety properties.

Fairness. `Scheduler` and `SplittingQueue` assume weak fairness of each thread's
steps: the operating system schedules runnable threads, and agent functions
return. Nothing is assumed of the client or of spurious wakeups. Mutexes need no
strong fairness: work is finite per iteration and the main thread leaves
`doneq_mutex_` after finitely many steps. The other modules state safety only:
reading, validating and generating are sequential and end.

Deadlock is checked in the runs of the execution core; a process that has ended
stutters explicitly (`Ended`, `Destroyed`, `Done`, `Stop`). The runs of `XGraph`,
`Model` and `Population` switch it off: these behaviours end, with a registered
graph, a started or failed simulation, or an exception.

## 4. Findings

1. `addMessageClearTasks` looks at the direct successors of the sync task after
   `removeRedundantDependencies` has removed some of them. When a function reads a
   message and depends on another reader of the same agent, the clear task does not
   wait for it (`message_board_cleared_early`).
2. Variables with the same last writers share an output vertex; it becomes one task
   per variable, but only the task of the first variable gets the dependencies
   (`xgraph_outputs`). `writePop()` is empty at present and the file is written by
   the finish task, for which `FinaliseAfterWriters` holds, so no data is wrong.
3. `validateAgentFunction` ignores the errors `processAgentFunction` counts: access
   to unknown variables is found only when the simulation starts (`model_access`).
4. `GetPopulationSize` does not compare sizes while the first vector is empty, and
   the generated schema admits files that make vectors uneven
   (`population_sizes`).

Seen while modelling and kept as notes of the hazards, without runs:
`AddDependency` tests for cycles only with `DEBUG`: two agents that wait for each other's
messages pass validation, and `start()` throws in a `DEBUG` build and waits for ever in
others. The comment at `io_xml_model.cpp:84` says "Save absolute path to check the file is
not read again", but paths are not made canonical: a file that is included under two
spellings is read twice, and one that includes itself by a detour is read again until
`exists()` throws because the path is too long. A model that is loaded by a bare name looks
for its included files in `/`. A double that is infinite or not a number is written as
`inf` or `nan`, and the schema generated for the next simulation refuses the file. After `RunIteration()` threw for
an unassigned type a second call can return while tasks are still running;
`Simulation::start()` assigns all types and is not affected. The clear task of a
message nobody reads waits for nothing. A model that was validated can fail a second
validation. Agents stay registered after the constructor of `Simulation` threw.
`SplitTask` multiplies its limits without regard to overflow: with `SizeMod = 16` and
`MaxMinSize = 8`, `SizesRespected` fails; only limits close to the range of `size_t`
are affected.

## 5. Proofs

| Module | Proved of every instance | Listed theorems |
|---|---|---|
| `TaskManagerProofs` | any set of names, both builds | `TypeCorrect`, `GraphAlwaysConsistent`, `NoTaskLost`, `DependenciesRespected`, `IterationNeverStuck` |
| `SchedulerProofs` | any graph, tasks, queues, workers, calls and throwing tasks | `NoTaskLostInFlight`, `ReturnsOnlyWhenDone`, `CallbackSafe`, `NoWakeupLost`, `IoIterationAlwaysCurrent`, `SchedulerImplementsIteration` |
| `SplittingQueueProofs` | any tasks, populations, limits and workers | `LoopAlwaysComputesSegments`, `SplitIsPartition`, `SplitRespectsLimits`, `SplittersExact`, `AgentsVisitedOnce`, `WorkersSuffice`, `QueueKeepsPromise` |
| `TaskGraphProofs` | any finite graph | `ReductionKeepsOrder` |
| `XGraphProofs` | any model that satisfies `ModelsAssumption` | `GenerationInvariant`, `ConflictsAreOrdered`, `FinaliseComesLast`, `MessagesAreOrdered`, `CyclesNotIntroduced` |
| `MessageBoardProofs` | any agents, functions, parts, posts and iterations | `ReadersGetAll`, `BoardEmptied`, `BoardIsExclusive`, `PostsAreConnected`, `ClearedAfterReaders`, `OrderedIffReadersApart` |
| `PopulationProofs` | any agent types, files, segments and iterations | `PopulationInvariant`, `PopulationReadHolds`, `EachAgentOnceHolds`, `AllWrittenHolds`, `OutputReadableHolds` |
| `ModelProofs` | any files and editing calls, whatever reading and validating conditions does | `ReaderInvariant`, `DocumentsFreedHolds`, `ReadOnceHolds`, `NothingLostHolds`, `ValidatedWellFormedHolds`, `StartedSoundHolds`, `NoDynamicMessagesHolds` |

Each module of a state machine has an invariant `IInv` (`GenerationInv` for `XGraph`,
several for `Model`), lemmas that `Init` implies it and
every action preserves it, and theorems that read the checked properties off it. Each of
these invariants was first checked with TLC on the instance of the run.

**Task manager.** From `BuildAssumption` (the build symbols are Booleans) alone. `IInv`
joins the five invariants with `PendingExact` (a task is in `pending_tasks_` exactly
while it waits for something), without which `IterTaskDone` could release a task that is
not pending, and, for `DEBUG` builds, `Acyclic`: every set of tasks has a member with no
dependency in the set. `AddDependency` keeps it because the set its search visits is
closed under `parents_` and does not hold the new dependent. `NeverStuck` follows: among
the pending tasks one waits for no pending task, so what it waits for is ready or
assigned.

**Scheduler.** From `ConstantsAssumption`: numbers are naturals, the workers a finite set
with at least one for each queue. `IInv` has a part for each mechanism: `ManagerInv`
(the task manager's own `IInv`, reused through an instance of `TaskManagerProofs`),
`ThreadInv` (which threads exist, that the main thread sleeps on an empty `doneq_` only),
`QueueInv` (termination ids lie behind all tasks, one is left for each worker that has
not exited, and beside a blocked worker one is awake for each id queued), `FlightInv` (an
assigned task is in one queue, with one worker or in `doneq_`) and `IoInv`. That
`RunIteration()` may wait with `if` is the last conjunct of `ThreadInv`: only the main
thread empties `doneq_`, and it re-checks after every wakeup. `FlightInv` is claimed as
long as no call was aborted, which the model-checked properties also say.
`SchedulerImplementsIteration` maps a worker's fetching of a task, the return of `Run()`, the
return of `RunIteration()` and an exception that leaves it to the four steps of
`Iteration` and everything else to stuttering; that a fetched task may start is
`DependenciesMet` together with `FlightInv`.

**Splitting.** The loop computes the closed form for all arguments. That the segments are
a partition within the limits assumes `Fits`: `max_tasks * min_task_size` is below
`SizeMod`. Without it the property is false (section 4). `SplittingQueue` assumes
`QueueAssumption` and `WidthAssumption`: limits are `size_t` and the minimum size is below
half its range. Its `IInv` follows one task through its places (`PlaceInv`); for a split
task the counters are exact (`CounterInv`), the id is queued while subtasks are pending,
and the unvisited agents are those of the running and of the unfetched subtasks, which are
disjoint (`VisitInv`). The last is what makes the report of a complete splitter coincide
with an empty set of unvisited agents, hence the refinement of `TaskQueue`.

**Reduction.** `After` computes reachability in as many rounds as there are vertices;
`AfterLeast` shows that this is the least set closed under edges. In a graph without
cycles, if `t` comes after `s` only before the reduction, take a last such `s` and, among
its targets that lead to `t`, a first one: no other target leads to it, so its edge was
kept, and behind it the order was kept too.

**Graph generation.** From `ModelsAssumption`: the agents of a model have different names,
each has finitely many functions, variables and messages, and its functions use variables
of their agent, which are numbered in the order of their names (`std::map` keeps them so).
That an agent's graph has no cycle is not assumed: `Validate` refuses it. `GenerationInv`
says what the graph of the current agent is after each pass, and that the graphs of the
agents before it are complete.

- `Ord` is a strict order on the tasks of an agent, made from the order of its state
  machine with the start task below and the end and output tasks above. Every edge any
  pass adds goes up in it, so no pass makes a cycle and reduction may be applied.
- Taking the states away keeps the paths between the tasks that stay, and from each of
  them there is a path to the end task (`ContractedPaths`, `EndReached`).
- While data dependencies are added, `Covered` says of every vertex visited and every
  variable: each task at or before it that writes the variable reaches one of its last
  writers or is one, and each that reads it reaches a last writer or a last reader. A
  vertex takes over the last writers and readers of all vertices it follows, so two
  conflicting tasks on a path are connected by data edges alone, through every branch and
  join, when the state edges are removed (`Sorted`: a visited task comes, by data edges,
  after every task that is before it in the machine and conflicts with it).
- A graph is `Complete` when these demands, those of the output tasks and those of the
  messages hold in its own edges. `ReductionKeepsOrder` keeps it complete. The paths are
  then followed through the import, where start tasks become one and message tasks become
  sync and clear tasks, to the registered dependencies (`PathKept`, `FinalEdges`).
- For `NoCycleIntroduced` the tasks have a rank (start, functions and messages, output,
  finish, clear), and those of the same rank compare as in the graph of functions and
  messages of the whole model: every registered dependency goes up in that order.

One conjunct is about control only: before the generation `agent` is the first one, without
which the invariant is not inductive. The finding on output tasks (`OutputsAfterWriters`)
is outside these theorems: `FinaliseAfterWriters` shows that the file, which the finish
task writes, is still written last.

**Message board.** The theorems assume `Ordered` (module `MessageGraph`): the posting
tasks precede the sync task, that precedes the readers, and these the clear task, directly
or not. `IInv` says that tasks start after what they depend on, that until `Sync()` ends
the posted messages are exactly those in the writers issued in this iteration, that until
`Clear()` ends the board holds them once each, and that an iterator in use points into the
current memory and has delivered what lies before it. Which models are `Ordered` is
`OrderedIffReadersApart`: for a message that is read, in graphs without cycles, exactly
those in which no reading function comes after another one of its agent. It shows
that finding 1 is the only way to clear too early; the run
`message_board_cleared_early` is an instance of the other case, and
`MCMessageBoard` has TLC evaluate the hypotheses on both instances. A message
without readers is not covered: its clear task waits for nothing.

**Population.** From `PopulationAssumption`. `IInv` follows a population through its
phases.

- Reading (`ReadInv`): what has been read of the file before the node of the XML reader
  is, for each variable, a list of texts (`Taken`), and the vector of that variable holds
  their values in file order; the vectors of an agent type need not be even yet.
- Running (`RunInv`): the vectors of each type are even, the jobs of the function of a
  type have disjoint rows that together are all rows (`JobsOK`), and each row holds the
  value it had before the iteration until its job has passed it and the value of one
  application afterwards (`RowInv`). `EachAgentOnce` is read off this: with all jobs done
  every row has been passed once, however the segments were interleaved.
- Writing (`AsWritten`): the output holds one entry for each row of each type, with the
  variables of the type in order, and every text of it is a number, or `inf` for a value
  that is not finite. Such a file passes the schema exactly when all its values are finite
  (`WrittenPasses`), and then every text can be cast. This is `OutputReadable`, in both
  directions.

All but `OutputReadable` are claimed for files that give each agent the variables of its
own type (`OwnVariables`): the schema admits others, which are finding 4.

**Model.** From `FilesAssumption` and `EditsAssumption`; the operations on conditions are
arbitrary operators, so nothing rests on what they compute. There are five invariants,
each proved from those before it.

- `ReaderInv`. `DocInv`: only the top frame can be without its document, no two frames
  share one, and a document that has not been freed belongs to a frame, unless an
  exception has passed. `IncludeInv` is what `ReadOnce` needs and speaks of paths: that of
  the loaded file is not in the list of included ones, so it can be included once more, by
  itself or further down. That second frame for it meets the same include, whose path is in
  the list already, and throws: it never returns, and a model that loads has read each path
  once. Frames above the first have different paths; when they also have different files,
  there are no more of them than files. Without that hypothesis, which a detour breaks,
  only `MaxPath` bounds the recursion. `OnceInv`
  relates the paths read to the list of included ones, `KeepInv` says that each agent
  element of a file read is in the model or a frame still comes to it, and `Shape` that
  the model is made of records and sequences of the expected fields.
- `ValidInv`: a model that is called validated is well formed. A second validation appends
  the functions to the graph once more. A path in the graph of the functions is then also
  one in the longer graph, so a longer graph without a cycle vouches for the functions.
- `GraphInv` and `SimInv`: a validation appends the functions to the graph of an agent, so
  every function in the graph is, by name, one of the agent (`Traced`), and after a
  validation the last ones are the functions as they are (`Current`); when the simulation is
  ready the memory of every agent has been made from its variables. `StartedSound` follows:
  two functions of one name make registration throw, so a graph that was registered has each
  function once and, being no longer than the list of functions, is that list.
- `ArrayInv`: `validateADT` allows the name of a type before it looks at its variables, and
  only if the name is new, so a type can use itself and types before it but none after it,
  and a type that holds a dynamic array is marked when a later one asks (`Marked`). Messages and constants then hold none at any depth: the depths
  are followed with `Depths` to the first one at which a dynamic array would appear.

Induction over data is done with `LeastNumber` (every set of naturals has a least member,
from the well-foundedness of `<`), applied to the first round, prefix or vertex for which
a claim fails.

Only model-checked:

- liveness (`RunIterationReturns`, `TasksReported` and `DestructorReturns`, the only
  properties of passing runs without a theorem): out of the
  prover's reach;
- `Conditions`: recursive operators are out of the prover's reach, so what they compute
  enters only the runs `model` and `model_access`.

## 6. Not modelled

- `xparser2`, a separate tool that generates C++ text, and the exception classes,
  which have no behaviour.
- The typed wrappers of `api` beyond the access they make; the translation of
  exceptions to messages.
- XML syntax and the schema validator: libxml2's. What it delivers is an input.
- Printing of models, graphs (`.dot` files) and errors.
- The board's message count and the access lists of `Proxy` and `Client`; reserving of vectors; the addresses a direct user of `GetVector` keeps.
- Sorting and filtering of messages: validation reads them, the boards ignore them.
- A model that is edited after a `Simulation` was made of it.

## 7. Plan

The execution core, splitting, boards, graph generation, model and population are
modelled and their safety properties proved. What is left:

1. A board for each of several messages driven by the graph of `XGraph`.
2. Access lists of message proxies.
