------------------------------ MODULE MCModel -------------------------------
(***************************************************************************)
(* Model files and calls for module Model.                                 *)
(***************************************************************************)
EXTENDS Model, Conditions, TLC

\* What the operating system makes of "." and "..".
Canonical(path) ==
  FoldLeft(LAMBDA dir, part : CASE part = "."  -> dir
                                [] part = ".." -> IF dir = <<>> THEN dir ELSE Front(dir)
                                [] part = "/"  -> <<part>>
                                [] OTHER       -> Append(dir, part), <<>>, path)

RootPath == <<"m", "root">>

\* Files in the directory m.
In(contents) == [file \in {<<"m", name>> : name \in DOMAIN contents} |-> contents[file[2]]]

ConditionRead(elements) == ReadCondition(elements, NewCondition)

Var(type, name) ==
  [type |-> type, suffix |-> FALSE, name |-> name, bracket |-> None, constant |-> None]
Array(type, name) == [Var(type, name) EXCEPT !.suffix = TRUE]
Sized(type, name, n) == [Var(type, name) EXCEPT !.bracket = n]

Io(message) == [message |-> message, sort |-> <<>>, random |-> None, filter |-> <<>>]
Func(name, current, next) ==
  [name |-> name, current |-> current, next |-> next, condition |-> <<>>, access |-> <<>>,
   inputs |-> <<>>, outputs |-> <<>>]
Uses(f, readOnly, readWrite) ==
  [f EXCEPT !.access = <<[readOnly |-> readOnly, readWrite |-> readWrite]>>]

AgentEl(name, memory, functions) ==
  [tag |-> "xagent", name |-> name, memory |-> memory, functions |-> functions]
MessageEl(name, variables) == [tag |-> "message", name |-> name, variables |-> variables]
TypeEl(name, variables) == [tag |-> "dataType", name |-> name, variables |-> variables]
UnitEl(name, unit, period) == [tag |-> "timeUnit", unit |-> [name |-> name, unit |-> unit, period |-> period]]
Include(path) == [tag |-> "model", file |-> path, isXml |-> TRUE, enabled |-> "true"]
File(elements) == [root |-> "xmodel", version |-> "2", elements |-> elements]

\* A comparison of a side with a side, by an operator.
Text(pre, name) == [Side EXCEPT !.pre = pre, !.name = name]
Value(pre, name) == <<[tag |-> "value", value |-> Text(pre, name)]>>
Compare(l, op, r) == <<[tag |-> "lhs", elements |-> l], [tag |-> "op", value |-> op],
                       [tag |-> "rhs", elements |-> r]>>
Time(period, phase, duration) ==
  <<[tag |-> "time", period |-> period, phase |-> phase, duration |-> duration]>>
Not(elements) == <<[tag |-> "not", elements |-> elements]>>

AgentA == AgentEl("a", <<Var("int", "x")>>, <<Func("f", "0", "1")>>)
MoreOfA == AgentEl("a", <<Var("double", "y")>>, <<Uses(Func("g", "1", "2"), <<"x">>, <<"y">>)>>)

\* Files that include each other, are missing, switched off or not models.
Included(second) == [root |-> File(<<AgentA, Include(<<"b">>)>>), b |-> second]
Bad(element) == In([Included(File(<<>>)) EXCEPT !["root"].elements = <<element>>])
IncludeSets ==
  {In(Included(second)) :
     second \in {File(<<MoreOfA>>), File(<<Include(<<"root">>)>>), File(<<Include(<<"b">>)>>),
                 Missing, Malformed, [File(<<>>) EXCEPT !.version = "1"],
                 File(<<Include(<<"c">>)>>)}}
  \union {Bad(Include(<<"b">>)), Bad([Include(<<"b">>) EXCEPT !.enabled = "false"]),
          Bad([Include(<<"b">>) EXCEPT !.enabled = "no"]), Bad([Include(<<"b">>) EXCEPT !.isXml = FALSE])}
  \union {In([root |-> File(<<Include(<<"b">>), Include(<<"c">>), AgentA>>),
              b |-> File(<<Include(<<"d">>)>>), c |-> File(<<other, MoreOfA>>), d |-> File(<<>>)]) :
             other \in {Include(<<"d">>), [tag |-> "name", value |-> "c"]}}

\* A file that includes itself by a detour, and one that is included under two paths.
Detours ==
  {In([root |-> File(<<AgentA, Include(<<"..", "m", "root">>)>>)]),
   In([root |-> File(<<AgentA, Include(<<"c">>), Include(<<"sub", "b">>)>>), c |-> File(<<MoreOfA>>)])
     @@ (<<"m", "sub", "b">> :> File(<<Include(<<"..", "c">>)>>))}

\* One file: conditions and filters.
Guards ==
  {Compare(Value("a.", "x"), "LT", Value("", "1")), Compare(Value("a.", "z"), "LT", Value("", "1")),
   Compare(Value("", "x"), "EQ", Value("", "1")), Compare(Value("", "1"), "no", Value("", "1")),
   Compare(Value("m.", "v"), "GT", Value("", "1")),
   Not(Compare(Compare(Value("a.", "x"), "GEQ", Value("", "0")), "AND", Time("day", Text("", "0"), None))),
   Compare(Value("", "1"), "AND", Time("day", Text("", "0"), None)),
   Time("day", Text("a.", "x"), "1"), Time("day", Text("", "0"), None), Time("year", Text("", "0"), "no")}
Today == Time("day", Text("", "0"), "1")
Conditionals == {<<Today, Today>>} \union {<<g>> : g \in Guards}
Day == UnitEl("day", "iteration", "1")
Base(functions) ==
  <<[tag |-> "name", value |-> "m"], [tag |-> "file", value |-> "f.cpp"], Day,
    AgentEl("a", <<Var("int", "x")>>, functions), MessageEl("m", <<Var("int", "v"), Sized("int", "w", "1")>>)>>
One(elements) == In([root |-> File(elements)])
Guarded ==
  {One(Base(<<[Func("f", "0", "1") EXCEPT !.condition = c], [Func("g", "0", "2") EXCEPT !.condition = c]>>)) :
     c \in {<<>>} \union Conditionals}
Inputs ==
  {[Io("m") EXCEPT !.filter = c] : c \in Conditionals}
  \union {[Io("m") EXCEPT !.sort = s, !.random = r] :
            s \in {<<>>, <<[key |-> "v", order |-> "ascend"]>>, <<[key |-> "w", order |-> "ascend"]>>,
                   <<[key |-> "v", order |-> "up"]>>}, r \in {None, "true", "no"}}
  \union {Io("n")}
Filtered ==
  {One(Base(<<[Func("f", "0", "1") EXCEPT !.outputs = <<Io("m")>>],
              [Func("g", s, "2") EXCEPT !.inputs = <<i>>]>>)) : i \in Inputs, s \in {"0", "1"}}
Accessing ==
  {One(Base(<<Uses(Func("f", "0", "1"), ro, rw)>>)) :
     ro \in {<<>>, <<"x">>, <<"z">>}, rw \in {<<>>, <<"x">>}}

\* One file: data types, constants, variables, time units.
Types ==
  {One(Base(<<Func("f", "0", "1")>>) \o
       <<TypeEl("t", <<v>>), TypeEl("u", <<Var(inner, "p")>>), MessageEl("n", <<Var(outer, "q")>>)>>) :
     v \in {Var("int", "p"), Array("int", "p"), Var("t", "p"), Var("u", "p")},
     inner \in {"t", "u"}, outer \in {"int", "t", "u"}}
Variables ==
  {Var("int", "no!"), Var("string", "y"), Sized("int", "y", "0"), Sized("int", "y", "1"),
   Array("float", "y"), Var("int", "x"), [Var("double", "y") EXCEPT !.constant = "maybe"]}
Odd ==
  {One(Base(<<Func("f", "0", "1")>>) \o <<e>>) :
     e \in {AgentEl("a", <<v>>, <<>>) : v \in Variables}
             \union {[tag |-> "constant", variable |-> v] : v \in Variables}
             \union {TypeEl("int", <<>>), MessageEl("m", <<>>), AgentEl("b", <<>>, <<>>),
                     AgentEl("b", <<Var("int", "y")>>, <<Func("h", "1", "0")>>),
                     UnitEl("week", "day", "0"), UnitEl("week", "year", "1"), Day,
                     UnitEl("day", "week", "1"), UnitEl("iteration", "day", "1"),
                     [tag |-> "file", value |-> "f.c"], [tag |-> "other"]}}

\* Two agents that read what the other one posts.
Talks(name, reads, posts) ==
  AgentEl(name, <<Var("int", "x")>>,
          <<[Func("f", "0", "1") EXCEPT !.inputs = <<Io(reads)>>, !.outputs = <<Io(posts)>>]>>)
Talking ==
  {One(<<Talks("a", "m", "n"), Talks("b", "n", "m"),
         MessageEl("m", <<Var("int", "v")>>), MessageEl("n", <<Var("int", "v")>>)>>)}

AllFileSets ==
  IncludeSets \union Detours \union Guarded \union Filtered \union Accessing \union Types \union Odd
  \union Talking

\* Calls that put a model together.
Call_(call, agent, f, name, type) ==
  [call |-> call, agent |-> agent, func |-> f[1], current |-> f[2], next |-> f[3],
   name |-> name, type |-> type]
NoFunc == <<None, None, None>>
F == <<"f", "0", "1">>
AllEdits ==
  {Call_("addAgent", "a", NoFunc, None, None),
   Call_("addAgentVariable", "a", NoFunc, "x", "int"),
   Call_("addAgentFunction", "a", F, None, None),
   Call_("addAgentFunction", "a", <<"g", "0", "2">>, None, None),
   Call_("addAgentFunctionInput", "a", F, "m", None),
   Call_("addAgentFunctionOutput", "a", F, "m", None),
   Call_("addAgentFunctionReadWriteVariable", "a", F, "x", None),
   Call_("addAgentFunctionReadOnlyVariable", "a", F, "z", None),
   Call_("addMessage", "m", NoFunc, "m", None),
   Call_("addMessageVariable", "m", NoFunc, "v", "int")}

AllNames == [functions |-> {"f", "g", "condition"}, boards |-> {"m", "n"}]
=============================================================================
