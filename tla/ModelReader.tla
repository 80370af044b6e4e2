----------------------------- MODULE ModelReader ----------------------------
(***************************************************************************)
(* flame::io::xml::IOXMLModel (flame2/io/io_xml_model.cpp): a model file   *)
(* and the files it includes are read into one flame::model::XModel.       *)
(*                                                                         *)
(* A file is a record [root, version, elements].  Its elements are the     *)
(* children that carry content, in document order: the containers          *)
(* (environment, agents, messages, models) only loop over theirs.  The     *)
(* recursion of readXMLModel() through included files is a stack of        *)
(* frames, each with the libxml2 document it has to free.  Documents have  *)
(* the elements and attributes the code dereferences without a test.       *)
(*                                                                         *)
(* A path is text, here the sequence of its parts; the operating system    *)
(* says which file it leads to.  One file has many paths ("a", "../m/a").  *)
(***************************************************************************)
EXTENDS Sequences, FiniteSets, SequencesExt, Functions

CONSTANTS
  FileSets,     \* the sets of files that are tried: functions from files to contents
  Root,         \* the path of the file that is loaded
  Resolve(_),   \* the file a path leads to
  MaxPath,      \* parts of the longest path the operating system takes
  ConditionOf(_) \* the condition its elements describe: module Conditions

Missing   == [root |-> "missing"]       \* no such file
Malformed == [root |-> "malformed"]     \* not an XML document

IsSeq(s) == s \in Seq(Range(s))

\* The children of an element are in document order.
Ordered(e) ==
  /\ e.tag = "xagent" =>
       /\ IsSeq(e.memory) /\ IsSeq(e.functions)
       /\ \A f \in Range(e.functions) :
            /\ IsSeq(f.inputs) /\ IsSeq(f.outputs) /\ IsSeq(f.access)
            /\ \A a \in Range(f.access) : IsSeq(a.readOnly) /\ IsSeq(a.readWrite)
  /\ e.tag \in {"message", "dataType"} => IsSeq(e.variables)

\* There are finitely many files.
ASSUME FilesAssumption ==
  \A fs \in FileSets :
    /\ IsFiniteSet(DOMAIN fs)
    /\ \A n \in DOMAIN fs : fs[n] \notin {Missing, Malformed} =>
         IsSeq(fs[n].elements) /\ \A e \in Range(fs[n].elements) : Ordered(e)

VARIABLES
  files,        \* the files on disk
  stack,        \* frames of readXMLModel(): [path, pos, doc]
  docs,         \* docs[d]: how often document d has been freed
  thrown,       \* the exception that unwinds the stack
  reading,      \* "reading", "loaded" or "failed"
  readFiles,    \* history: the paths of the files read, in order
  xmodel        \* the XModel that is filled

readerVars == <<files, stack, docs, thrown, reading, readFiles, xmodel>>

None == "none"      \* no exception, an empty string, a null pointer

-----------------------------------------------------------------------------
(* The elements of a model *)

\* XModel::XModel()
EmptyModel ==
  [name |-> None, constants |-> <<>>, adts |-> <<>>, timeUnits |-> <<>>,
   functionFiles |-> <<>>, agents |-> <<>>, messages |-> <<>>,
   allowed |-> {"int", "float", "double", "char"}, included |-> <<>>]

\* readVariable(): XVariable::XVariable() with type, name and constant string.  A type
\* that ends in _array has suffix, a name that ends in [n] a bracket.
ReadVariable(e) ==
  [type |-> e.type, suffix |-> e.suffix, name |-> e.name, bracket |-> e.bracket,
   constant |-> e.constant, isDynamicArray |-> FALSE, holdsDynamicArray |-> FALSE]

ReadVariables(elements) == [i \in DOMAIN elements |-> ReadVariable(elements[i])]

\* A condition that may be absent: the first condition or filter element.
ReadOptional(elements) ==
  IF elements = <<>> THEN <<>> ELSE <<ConditionOf(elements[1])>>

\* XFunction::addCondition(), XIOput::addFilter(): a second one throws.
SecondCondition(e) ==
  \E f \in Range(e.functions) :
    Len(f.condition) > 1 \/ \E io \in Range(f.inputs) : Len(io.filter) > 1

\* readSort(): key and order, if there is a sort element.
ReadSort(e) == [i \in DOMAIN e.sort |-> [key |-> e.sort[i].key, order |-> e.sort[i].order]]

\* readInputs(), readInput(), readOutputs(), readOutput()
ReadIOput(e) ==
  [message |-> e.message, sort |-> ReadSort(e), random |-> e.random, isRandom |-> FALSE,
   filter |-> ReadOptional(e.filter)]

\* readMemoryAccess(), readMemoryAccessVariables(): without a memoryAccess element
\* there is no information about the variables the function uses.
ReadMemoryAccess(access) ==
  IF access = <<>> THEN [readOnly |-> <<>>, readWrite |-> <<>>] ELSE access[1]

\* readTransitions(), readTransition()
ReadTransition(e) ==
  [name |-> e.name, current |-> e.current, next |-> e.next,
   condition |-> ReadOptional(e.condition),
   infoAvailable |-> e.access # <<>>,
   readOnly  |-> ReadMemoryAccess(e.access).readOnly,
   readWrite |-> ReadMemoryAccess(e.access).readWrite,
   inputs  |-> [i \in DOMAIN e.inputs |-> ReadIOput(e.inputs[i])],
   outputs |-> [i \in DOMAIN e.outputs |-> ReadIOput(e.outputs[i])],
   reads |-> {}]

\* XModel::getAgent(): the position of the agent with this name, 0 if there is none.
AgentAt(m, name) == SelectInSeq(m.agents, LAMBDA a : a.name = name)

NewAgent(name) == [name |-> name, variables |-> <<>>, functions |-> <<>>, graph |-> <<>>]

\* Mutant: an agent found in a second file replaces the first.
AddAgentAnew(m, name) ==
  [m EXCEPT !.agents = IF AgentAt(m, name) = 0 THEN Append(@, NewAgent(name))
                       ELSE [@ EXCEPT ![AgentAt(m, name)] = NewAgent(name)]]

\* XModel::addAgent(): an agent that exists is returned.
AddAgent(m, name) ==
  [m EXCEPT !.agents = IF AgentAt(m, name) = 0 THEN Append(@, NewAgent(name)) ELSE @]

SetAgent(m, i, a) == [m EXCEPT !.agents = [@ EXCEPT ![i] = a]]

\* readAgent(): memory and functions are added to what the agent has.
AddToAgent(a, e) ==
  [a EXCEPT !.variables = @ \o ReadVariables(e.memory),
            !.functions = @ \o [j \in DOMAIN e.functions |-> ReadTransition(e.functions[j])]]
ReadAgent(m, e) ==
  LET n == AddAgent(m, e.name)  i == AgentAt(n, e.name) IN
  SetAgent(n, i, AddToAgent(n.agents[i], e))

\* XModel::addTimeUnit(): a time unit with the same name, unit and period is dropped.
AddTimeUnit(m, unit) ==
  [m EXCEPT !.timeUnits = IF unit \in Range(@) THEN @ ELSE Append(@, unit)]

\* readTimeUnits(), readTimeUnit()
ReadTimeUnit(m, e) == AddTimeUnit(m, e.unit)

\* XModel::setName(): the first name stays.
SetName(m, name) == [m EXCEPT !.name = IF @ = None THEN name ELSE @]

\* readDataTypes(), readDataType()
ReadDataType(m, e) ==
  [m EXCEPT !.adts = Append(@, [name |-> e.name, holdsDynamicArray |-> FALSE,
                                variables |-> ReadVariables(e.variables)])]

\* readMessages(), readMessage()
ReadMessage(m, e) ==
  [m EXCEPT !.messages = Append(@, [name |-> e.name, variables |-> ReadVariables(e.variables)])]

\* readFunctionFiles()
ReadFunctionFile(m, e) == [m EXCEPT !.functionFiles = Append(@, e.value)]

\* readEnvironment()
ReadEnvironment(m, e) ==
  CASE e.tag = "constant" -> [m EXCEPT !.constants = Append(@, ReadVariable(e.variable))]
    [] e.tag = "dataType" -> ReadDataType(m, e)
    [] e.tag = "timeUnit" -> ReadTimeUnit(m, e)
    [] e.tag = "file"     -> ReadFunctionFile(m, e)

\* readModelElements(): an element the reader does not know is passed over.
ReadElement(m, e) ==
  CASE e.tag = "name"    -> SetName(m, e.value)
    [] e.tag = "xagent"  -> ReadAgent(m, e)
    [] e.tag = "message" -> ReadMessage(m, e)
    [] e.tag \in {"constant", "dataType", "timeUnit", "file"} -> ReadEnvironment(m, e)
    [] OTHER -> m

-----------------------------------------------------------------------------
(* Reading files *)

\* The file at a path.
FileOf(fs, path) == IF Resolve(path) \in DOMAIN fs THEN fs[Resolve(path)] ELSE Missing

\* The path of a file that is named in the file at path: parent_path() with "/" put behind
\* it, which makes a path without a directory the root directory, then the name.
Directory(path) == IF Len(path) = 1 THEN <<"/">> ELSE Front(path)
PathOf(path, name) == Directory(path) \o name

Top == stack[Len(stack)]
Element == FileOf(files, Top.path).elements[Top.pos]
AtElement == /\ reading = "reading" /\ thrown = None /\ stack # <<>>
             /\ Top.doc # 0 /\ Top.pos <= Len(FileOf(files, Top.path).elements)

Free(d) == docs' = IF d = 0 THEN docs ELSE [docs EXCEPT ![d] = @ + 1]
Call(path) == Append(stack, [path |-> path, pos |-> 1, doc |-> 0])
Advance == [stack EXCEPT ![Len(stack)].pos = @ + 1]

ReaderInit ==
  /\ files \in FileSets
  /\ stack = <<[path |-> Root, pos |-> 1, doc |-> 0]>>
  /\ docs = <<>> /\ thrown = None
  /\ reading = "reading" /\ readFiles = <<>>
  /\ xmodel = EmptyModel

\* validateXMLModelRootElement()
ValidRoot(file) == file.root = "xmodel" /\ file.version = "2"

\* readXMLModel(): open the file of the top frame.  A frame that throws is left at once.
\* boost::filesystem::exists() throws when the path is too long.
OpenFile ==
  /\ reading = "reading" /\ thrown = None /\ Top.doc = 0
  /\ LET file == FileOf(files, Top.path)
     IN \/ /\ Len(Top.path) > MaxPath
           /\ thrown' = "filesystem_error" /\ stack' = Front(stack)
           /\ UNCHANGED <<docs, readFiles>>
        \/ /\ Len(Top.path) <= MaxPath /\ file = Missing
           /\ thrown' = "inaccessable_file" /\ stack' = Front(stack)
           /\ UNCHANGED <<docs, readFiles>>
        \/ /\ Len(Top.path) <= MaxPath /\ file = Malformed
           /\ thrown' = "unparseable_file" /\ stack' = Front(stack)
           /\ UNCHANGED <<docs, readFiles>>
        \/ /\ Len(Top.path) <= MaxPath /\ file \notin {Missing, Malformed}
           /\ docs' = Append(docs, IF ValidRoot(file) THEN 0 ELSE 1)
           /\ thrown' = IF ValidRoot(file) THEN None ELSE "invalid_model_file"
           /\ stack' = IF ValidRoot(file) THEN [stack EXCEPT ![Len(stack)].doc = Len(docs')]
                       ELSE Front(stack)
           /\ readFiles' = Append(readFiles, Top.path)
  /\ UNCHANGED <<files, reading, xmodel>>

\* One child of the root element that is not an included model.  Nothing uses what has
\* been read of it when it throws: the constructor of the model fails.
ReadContent ==
  /\ AtElement /\ Element.tag # "model"
  /\ IF Element.tag = "xagent" /\ SecondCondition(Element)
     THEN thrown' = "invalid_argument" /\ stack' = Front(stack) /\ UNCHANGED xmodel
     ELSE xmodel' = ReadElement(xmodel, Element) /\ stack' = Advance /\ UNCHANGED thrown
  /\ UNCHANGED <<files, docs, reading, readFiles>>

\* Mutant: an included file is not looked up.
IsDuplicateNever(path) == FALSE

\* XModel::addIncludedModel(): a file has been included under the same path.  The code
\* compares what absolute() makes of paths.  That puts the current directory before a
\* relative one and changes nothing else, and the paths included by one model are all
\* relative or all absolute.
IsDuplicate(path) == Contains(xmodel.included, path)

\* readIncludedModelValidate(): the file has no .xml ending or was included before.
Refused(e) ==
  \/ e.enabled \notin {"true", "false"}
  \/ e.enabled = "true" /\ (~e.isXml \/ IsDuplicate(PathOf(Top.path, e.file)))

\* readIncludedModels(), readIncludedModel(), up to the recursive call.
ReadIncludedModel ==
  /\ AtElement /\ Element.tag = "model"
  /\ \/ /\ Element.enabled = "false"
        /\ stack' = Advance /\ UNCHANGED <<docs, thrown, xmodel>>
     \/ /\ Refused(Element)
        /\ Free(Top.doc) /\ thrown' = "flame_io_exception"
        /\ stack' = Front(stack) /\ UNCHANGED xmodel
     \/ /\ Element.enabled = "true" /\ ~Refused(Element)
        /\ xmodel' = [xmodel EXCEPT !.included = Append(@, PathOf(Top.path, Element.file))]
        /\ stack' = Call(PathOf(Top.path, Element.file)) /\ UNCHANGED <<docs, thrown>>
  /\ UNCHANGED <<files, reading, readFiles>>

\* Mutant: the document of an included file is not freed.
CloseFileLeaks ==
  /\ reading = "reading" /\ thrown = None /\ Top.doc # 0
  /\ Top.pos > Len(FileOf(files, Top.path).elements)
  /\ IF Len(stack) = 1 THEN Free(Top.doc) ELSE UNCHANGED docs
  /\ stack' = [i \in 1..Len(stack) - 1 |->
                 IF i = Len(stack) - 1 THEN [stack[i] EXCEPT !.pos = @ + 1] ELSE stack[i]]
  /\ reading' = IF Len(stack) = 1 THEN "loaded" ELSE "reading"
  /\ UNCHANGED <<files, thrown, readFiles, xmodel>>

\* The end of readXMLModel(): the document is freed and the caller goes on.
CloseFile ==
  /\ reading = "reading" /\ thrown = None /\ Top.doc # 0
  /\ Top.pos > Len(FileOf(files, Top.path).elements)
  /\ Free(Top.doc)
  /\ stack' = [i \in 1..Len(stack) - 1 |->
                 IF i = Len(stack) - 1 THEN [stack[i] EXCEPT !.pos = @ + 1] ELSE stack[i]]
  /\ reading' = IF Len(stack) = 1 THEN "loaded" ELSE "reading"
  /\ UNCHANGED <<files, thrown, readFiles, xmodel>>

\* The catch in readIncludedModelValidate(): only inaccessable_file frees the
\* document of the including file; other exceptions pass by.
UnwindFrees == IF thrown = "inaccessable_file" THEN Free(Top.doc) ELSE UNCHANGED docs

Unwind ==
  /\ reading = "reading" /\ thrown # None /\ stack # <<>>
  /\ UnwindFrees
  /\ stack' = Front(stack)
  /\ UNCHANGED <<files, thrown, reading, readFiles, xmodel>>

Failed ==
  /\ reading = "reading" /\ thrown # None /\ stack = <<>>
  /\ reading' = "failed"
  /\ UNCHANGED <<files, stack, docs, thrown, readFiles, xmodel>>

ReaderNext ==
  OpenFile \/ ReadContent \/ ReadIncludedModel \/ CloseFile \/ Unwind \/ Failed
=============================================================================
