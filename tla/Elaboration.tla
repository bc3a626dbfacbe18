----------------------------- MODULE Elaboration -----------------------------
(***************************************************************************)
(* Setup: the tree of modules the parser has built becomes nodes of the    *)
(* symbol table, one set for each instance, and every name in it is bound  *)
(* (vbs_sim_setup, sim.cc; moditm/misetup.cc, common/st_setup.cc,          *)
(* misc/msetup.cc, expr/esetup.cc, stmt/ssetup.cc).                        *)
(*                                                                         *)
(* The functions that call each other are one machine: work is what is     *)
(* left of the calls, and a step takes its first element and puts in its   *)
(* place what the function goes on to call.  Each element has the scopes   *)
(* it is set up in, innermost first, and the routine it is part of.        *)
(*                                                                         *)
(* A module is [name, ports, items], its items in the order of the source: *)
(*   [item |-> "declare", d]   a declaration, see Declarations,            *)
(*   [item |-> "instances", module, params, list], the elements of list    *)
(*       being [name, conns] and those of conns [port, expr],              *)
(*   [item |-> "process", always, body], [item |-> "assign", body],        *)
(*   [item |-> "task" or "function", name, range, decls, body].            *)
(* An expression is [op, name, args], op being "name", "call", "operator", *)
(* "string" or "none", or a number.  A statement is                        *)
(*   [do, dec, hold, name, exprs, parts],                                  *)
(* do being "assign", "later" (nonblocking), "if", "case", "loop",         *)
(* "block", "enable" or "null"; dec and hold are sequences of delays,      *)
(* [op |-> "delay", args], and other expressions, which are events.        *)
(***************************************************************************)
EXTENDS Declarations, TLC

CONSTANTS
  Modules,      \* the modules that files define
  SystemTasks   \* [kind, type, range] of those the engine enters first

VARIABLES
  table, scope,       \* the symbol table and its next scope number
  paths, names,       \* the scope table, and the path of the instance entered
  recurse,            \* modules being instantiated
  overrides,          \* _first of each instantiation, innermost first
  work,
  sense,              \* what input ports wait for
  scheduled,          \* the processes on the time wheel
  last,               \* the name that was looked up last
  postponed,          \* $dumpvars for the second pass
  isNet, startLevel,  \* _is_net, dump_top_level
  dumpList,           \* _dump_list
  dumped, header,     \* what each argument gave, the header of the VCD file
  dumpFormat          \* _dump_base exists

symbolVars == <<table, scope>>
placeVars == <<paths, names, recurse, overrides>>
linkVars == <<sense, scheduled, last>>
dumpVars == <<postponed, isNet, startLevel, dumpList, dumped, header, dumpFormat>>
setupVars == <<symbolVars, placeVars, linkVars, dumpVars, work>>

GlobalScope == 0
Global == <<GlobalScope>>
NoLookup == [path |-> <<>>, scopes |-> <<>>, routine |-> 0, at |-> 0]
-----------------------------------------------------------------------------
(***************************************************************************)
(* What is found before setup starts.                                      *)
(***************************************************************************)

\* The parser puts tasks and functions in front of the list of items.
Routine(item) == item.item \in {"task", "function"}
Parsed(items) ==
  LET list[k \in 0 .. Len(items)] ==
        IF k = 0 THEN <<>>
        ELSE IF Routine(items[k]) THEN <<items[k]>> \o list[k - 1]
        ELSE Append(list[k - 1], items[k])
  IN  list[Len(items)]

ModulesIn == {i \in DOMAIN table : table[i].kind = "module"}
ItemsOf(i) == Modules[table[i].of].items
Instantiated(i) ==
  {ItemsOf(i)[k].module : k \in {j \in DOMAIN ItemsOf(i) : ItemsOf(i)[j].item = "instances"}}

\* find_top_level: the first name that is not that of a module; the modules
\* nobody instantiates, and the top level.
ModuleError(i) ==
  IF i = 0 THEN "SE_STDEF" ELSE IF table[i].kind # "module" THEN "SE_TYPE" ELSE "SE_NONE"

MarkErrors(items) ==
  FirstError([k \in DOMAIN items |->
    IF items[k].item = "instances" THEN ModuleError(NodeFind(table, <<items[k].module>>, Global))
    ELSE "SE_NONE"])

MarkError ==
  FirstError([i \in DOMAIN table |-> IF i \in ModulesIn THEN MarkErrors(ItemsOf(i)) ELSE "SE_NONE"])

Candidates ==
  {i \in ModulesIn : \A j \in ModulesIn : table[i].name \notin Instantiated(j)}

FallBack == "main"
TopLevel ==
  IF Cardinality(Candidates) = 1 THEN LeastIn(Candidates)
  ELSE IF FallBack \in Names THEN NodeFind(table, <<FallBack>>, Global) ELSE 0

TopError ==
  IF MarkError # "SE_NONE" THEN MarkError
  ELSE IF ModuleError(TopLevel) # "SE_NONE" THEN "SE_NTOPLVL" ELSE "SE_NONE"
-----------------------------------------------------------------------------
(***************************************************************************)
(* Elements of work.  endless is set in the code of a process that always  *)
(* goes on and has no control, inLoop in the statement of a loop.          *)
(***************************************************************************)

\* Mutant: the body of a routine is set up in the module that enables it.
HomeCaller(path, scopes) == scopes[Len(scopes) - 1]

\* The scope a routine is set up in: that of the module that enables it, or
\* of the instance its name goes through.
Home(path, scopes) == ScopeOf(table, path, scopes, scopes[Len(scopes) - 1])

Base(at, w) == [at |-> at, scopes |-> w.scopes, routine |-> w.routine, endless |-> w.endless]
ExprWork(e, w) == [endless |-> FALSE, e |-> e] @@ Base("expr", w)
RightWork(e, w) == [e |-> e] @@ Base("expr", w)
StmtWork(s, w) == [s |-> s, always |-> FALSE, inLoop |-> FALSE] @@ Base("stmt", w)
ExprsWork(seq, w) == [k \in DOMAIN seq |-> ExprWork(seq[k], w)]
StmtsWork(seq, w) == [k \in DOMAIN seq |-> StmtWork(seq[k], w)]
DeclareWork(d, w) == [d |-> d] @@ Base("declare", w)

\* Delays are constant.
DecWork(decs, w) ==
  [k \in DOMAIN decs |->
    IF decs[k].op = "delay" THEN [e |-> decs[k].args[1]] @@ Base("delay", w)
    ELSE ExprWork(decs[k], w)]

\* An assignment: its left side and then its right side, which may call
\* functions.
AssignWork(s, w) == [k \in DOMAIN s.exprs |-> RightWork(s.exprs[k], w)]

\* The update of a nonblocking assignment is a copy, set up first.
LaterWork(s, w) == ExprsWork(s.exprs, w) \o DecWork(s.hold, w) \o AssignWork(s, w)

\* The label of a case item comes after its statement; the last statement may
\* have none.
CaseWork(s, w) ==
  <<ExprWork(s.exprs[1], w)>> \o
  Concat([k \in DOMAIN s.parts |->
           <<StmtWork(s.parts[k], w)>> \o
           (IF k < Len(s.exprs) THEN <<ExprWork(s.exprs[k + 1], w)>> ELSE <<>>)])

\* handle_dec: an event control comes before a delay; then the statement.
IsDelay(dec) == dec.op = "delay"
Controlled(w) == DecWork(w.s.dec, w) \o <<[w EXCEPT !.at = "pieces"]>>

\* A loop has the statement to repeat as its last part, before it those that
\* run first and after each round.  A statement with a control is put into a
\* block.
LoopWork(s, w) ==
  LET body == [StmtWork(s.parts[Len(s.parts)], w) EXCEPT !.inLoop = s.parts[Len(s.parts)].dec = <<>>]
  IN  IF Len(s.parts) = 1 THEN ExprsWork(s.exprs, w) \o <<body>>
      ELSE <<StmtWork(s.parts[1], w)>> \o ExprsWork(s.exprs, w)
           \o <<StmtWork(s.parts[2], w), body>>

EnableWork(s, w) == [name |-> s.name, args |-> s.exprs] @@ Base("enable", w)
BlockWork(s, w) == StmtsWork(s.parts, w) \o <<[s |-> s] @@ Base("block", w)>>

PiecesOf(s, w) ==
  CASE s.do = "assign" -> DecWork(s.hold, w) \o AssignWork(s, w)
    [] s.do = "later"  -> LaterWork(s, w)
    [] s.do = "case"   -> CaseWork(s, w)
    [] s.do = "loop"   -> LoopWork(s, w)
    [] s.do = "enable" -> <<EnableWork(s, w)>>
    [] s.do = "block"  -> BlockWork(s, w)
    [] OTHER           -> ExprsWork(s.exprs, w) \o StmtsWork(s.parts, w)

\* A process becomes a block, and the control of one that always goes on that
\* of the block.
AsBlock(s, always) ==
  IF s.do = "block" THEN s
  ELSE [do |-> "block", dec |-> IF always THEN s.dec ELSE <<>>, hold |-> <<>>, name |-> <<>>,
        exprs |-> <<>>, parts |-> <<IF always THEN [s EXCEPT !.dec = <<>>] ELSE s>>]

ItemWork(item, w) ==
  CASE item.item = "declare"   -> DeclareWork(item.d, w)
    [] item.item = "process"   ->
         [s |-> AsBlock(item.body, item.always), always |-> item.always] @@ Base("process", w)
    [] item.item = "assign"    -> [s |-> item.body] @@ Base("assign", w)
    [] item.item = "instances" -> [item |-> item] @@ Base("instances", w)
    [] OTHER                   -> [item |-> item] @@ Base("routine", w)

\* Port connections that are there; a list of blanks is no list.
HasExpr(conn) == conn.expr.op # "none"
Given(conns) == IF \A k \in DOMAIN conns : ~HasExpr(conns[k]) THEN <<>> ELSE conns
ConnsWork(conns, w) ==
  LET some == SelectSeq(conns, HasExpr) IN [k \in DOMAIN some |-> ExprWork(some[k].expr, w)]

InstanceWork(i, inst, w) ==
  [of |-> i, name |-> inst.name, conns |-> inst.conns] @@ Base("instance", w)
-----------------------------------------------------------------------------
(***************************************************************************)
(* What each function may report.                                          *)
(***************************************************************************)

Instance(w) == Node(w.name, w.scopes[1], "instance")

InstanceError(w) ==
  IF Find(table, w.name, w.scopes, TRUE) # 0 THEN "SE_STDUP"
  ELSE AddError(table, Instance(w))

InstancesError(w, i) ==
  IF ModuleError(i) # "SE_NONE" THEN ModuleError(i)
  ELSE IF \E k \in DOMAIN recurse : recurse[k] = i THEN "SE_RECURSE"
  ELSE ConstErrors(table, w.scopes, w.item.params, FALSE)

DeclareError(w) ==
  IF w.d.type = "io" THEN IoError(table, w.scopes, w.d, w.routine = 0)
  ELSE DeclError(table, w.scopes, w.d)

\* A function has the storage of what it returns.
RoutineNode(w) ==
  LET node == [Node(w.item.name, w.scopes[1], w.item.item) EXCEPT !.item = <<w.item>>]
  IN  IF w.item.item = "task" THEN node
      ELSE WithStorage(node, RangeOf(table, w.scopes, w.item, <<0, 0>>))

RoutineError(w) ==
  IF NodeFind(table, <<w.item.name>>, w.scopes) # 0 THEN "SE_STDUP"
  ELSE FirstError(<<ConstErrors(table, w.scopes, w.item.range, FALSE),
                    AddError(table, Node(w.item.name, w.scopes[1], w.item.item))>>)

\* A module without a list of ports takes any connections.
ListError(w) ==
  IF w.ports # <<>> /\ w.conns # <<>> /\ Len(w.conns) # Len(w.ports)
  THEN "SE_NARGLST" ELSE "SE_NONE"

\* A port that drives must be connected to a name.
BindError(w) ==
  IF table[w.port].dir \in {"out", "inout"} /\ w.expr.op # "name" THEN "SE_SUPPORT" ELSE "SE_NONE"

\* A name that starts with a $ is that of a system task.
Dollar == 36
Missing(path) ==
  IF Spelling[path[1]][1] = Dollar THEN "SE_TFSUPPORT" ELSE "SE_STDEF"

RoutineFound(path, i, kind, error) ==
  IF i = 0 THEN Missing(path) ELSE IF table[i].kind # kind THEN error ELSE "SE_NONE"

\* check_arguments, and what system tasks ask of theirs.
UserArgs(node, args) ==
  IF Len(node.io) # Len(args) \/ (node.kind = "function" /\ args = <<>>)
  THEN "SE_NARGLST" ELSE "SE_NONE"
FormatArgs(args, error) ==
  IF args = <<>> THEN "SE_NARGLST" ELSE IF args[1].op # "string" THEN error ELSE "SE_NONE"
MemoryArgs(args) ==
  IF Len(args) < 2 THEN "SE_NARGLST"
  ELSE IF args[1].op # "string" \/ args[2].op # "name" THEN "SE_INVARG" ELSE "SE_NONE"

ArgsError(node, args) ==
  CASE node.type = "none"   -> UserArgs(node, args)
    [] node.type = "format" -> FormatArgs(args, "SE_NOFMT")
    [] node.type = "file"   -> FormatArgs(args, "SE_INVARG")
    [] node.type = "memory" -> MemoryArgs(args)
    [] node.type = "switch" -> IF args = <<>> THEN "SE_NONE" ELSE "SE_NARGLST"
    [] OTHER                -> "SE_NONE"

ExprError(w) ==
  CASE w.e.op = "name" -> NodeError(table, NodeFind(table, w.e.name, w.scopes), FALSE)
    [] w.e.op = "call" ->
         RoutineFound(w.e.name, NodeFind(table, w.e.name, w.scopes), "function", "SE_NFUNCTION")
    [] OTHER           -> "SE_NONE"

\* Both controls are only for processes that always go on.
PiecesError(w) ==
  IF \/ ~w.always /\ Len(w.s.dec) = 2
     \/ w.s.do = "later" /\ w.inLoop
  THEN "SE_SUPPORT" ELSE "SE_NONE"
BlockError(w) ==
  IF w.endless /\ Len(w.s.parts) = 1 /\ w.s.parts[1].do = "later" THEN "SE_SUPPORT" ELSE "SE_NONE"
AssignError(w) ==
  IF \E k \in DOMAIN w.s.dec : ~IsDelay(w.s.dec[k]) THEN "SE_SUPPORT" ELSE "SE_NONE"
VarsError(w) ==
  IF w.args # <<>> /\ w.args[1].op # "number" THEN "SE_TYPE" ELSE "SE_NONE"

ErrorOf(w) ==
  CASE w.at = "instance"  -> InstanceError(w)
    [] w.at = "instances" -> InstancesError(w, NodeFind(table, <<w.item.module>>, w.scopes))
    [] w.at = "port"      -> AddError(table, NewNet(w.name, w.scopes[1], "port"))
    [] w.at = "declare"   -> DeclareError(w)
    [] w.at = "routine"   -> RoutineError(w)
    [] w.at = "connect"   -> ListError(w)
    [] w.at = "bind"      -> BindError(w)
    [] w.at = "assign"    -> AssignError(w)
    [] w.at = "pieces"    -> PiecesError(w)
    [] w.at = "block"     -> BlockError(w)
    [] w.at = "enable"    -> RoutineFound(w.name, NodeFind(table, w.name, w.scopes), "task", "SE_NTASK")
    [] w.at = "args"      -> ArgsError(table[w.node], w.args)
    [] w.at = "delay"     -> ConstError(table, w.scopes, w.e, TRUE)
    [] w.at = "expr"      -> ExprError(w)
    [] w.at = "vars"      -> VarsError(w)
    [] OTHER              -> "SE_NONE"
-----------------------------------------------------------------------------
(***************************************************************************)
(* Actions.                                                                *)
(***************************************************************************)

Goes(more) == work' = more \o Tail(work)
Looked(path, i, w) ==
  last' = [path |-> path, scopes |-> w.scopes, routine |-> w.routine, at |-> i]

\* setup_module_instance: the instance, then its port connections.
AddInstance(w) ==
  /\ table' = Added(table, [Instance(w) EXCEPT !.of = w.of])
  /\ Goes(ConnsWork(w.conns, w) \o
          <<[node |-> Len(table) + 1, of |-> w.of, conns |-> Given(w.conns)] @@ Base("enter", w)>>)
  /\ UNCHANGED <<scope, placeVars, linkVars, dumpVars>>

\* ... and the module: its ports, its items, the connections of the ports.
Inside == [scopes |-> <<scope, GlobalScope>>, routine |-> 0, endless |-> FALSE]
EnterWork(w, in, mod) ==
  [k \in DOMAIN mod.ports |-> [name |-> mod.ports[k]] @@ Base("port", in)]
  \o [k \in DOMAIN mod.items |-> ItemWork(Parsed(mod.items)[k], in)]
  \o <<[ports |-> mod.ports, conns |-> w.conns, outer |-> w.scopes] @@ Base("connect", in),
       Base("leave", in)>>

Enter(w) ==
  /\ table' = [table EXCEPT ![w.node].inner = scope, ![w.node].level = Len(names) + 1]
  /\ scope' = scope + 1
  /\ names' = Append(names, table[w.node].name)
  /\ Goes(EnterWork(w, Inside, Modules[table[w.of].of]))
  /\ UNCHANGED <<paths, recurse, overrides, linkVars, dumpVars>>

Leave(w) ==
  /\ paths' = w.scopes[1] :> names @@ paths
  /\ names' = Undo(names)
  /\ Goes(<<>>)
  /\ UNCHANGED <<symbolVars, recurse, overrides, linkVars, dumpVars>>

\* A list of instances, which share the values of their parameters.
AddInstances(w, i) ==
  /\ recurse' = <<i>> \o recurse
  /\ overrides' = <<[k \in DOMAIN w.item.params |-> Bound(table, w.scopes, w.item.params[k])]>>
                  \o overrides
  /\ Looked(<<w.item.module>>, i, w)
  /\ Goes([k \in DOMAIN w.item.list |-> InstanceWork(i, w.item.list[k], w)]
          \o <<Base("instantiated", w)>>)
  /\ UNCHANGED <<symbolVars, paths, names, sense, scheduled, dumpVars>>

Instantiate(w) ==
  /\ recurse' = Tail(recurse) /\ overrides' = Tail(overrides)
  /\ Goes(<<>>)
  /\ UNCHANGED <<symbolVars, paths, names, linkVars, dumpVars>>

AddPort(w) ==
  /\ table' = Added(table, NewNet(w.name, w.scopes[1], "port"))
  /\ Goes(<<>>)
  /\ UNCHANGED <<scope, placeVars, linkVars, dumpVars>>

\* A declaration; the initial value of a wire is a continuous assignment.
NameOf(d) == [op |-> "name", name |-> <<d.name>>, args |-> <<>>]
Driven(d, w) ==
  IF d.type = "wire" /\ d.init # <<>>
  THEN <<RightWork(NameOf(d), w), RightWork(d.init[1], w)>> ELSE <<>>

NewTable(w) ==
  IF w.d.type = "io"
  THEN IoDeclared(table, w.scopes, w.d)
  ELSE Declared(table, w.scopes, w.d, Head(overrides))
Remembered(e, w) ==
  IF w.d.type = "io" /\ w.routine # 0
  THEN [e.table EXCEPT ![w.routine].io = Append(@, e.at)] ELSE e.table

Declare(w) ==
  /\ table' = Remembered(NewTable(w), w)
  /\ overrides' = IF w.d.type = "parameter" /\ w.d.init # <<>>
                  THEN <<Rest(Head(overrides))>> \o Tail(overrides) ELSE overrides
  /\ Goes(Driven(w.d, w))
  /\ UNCHANGED <<scope, paths, names, recurse, linkVars, dumpVars>>

\* An initial or always statement.  One that waits for an event is not
\* scheduled.
Waits(s) == \E k \in DOMAIN s.dec : ~IsDelay(s.dec[k])
Process(w) ==
  /\ scheduled' = IF w.always /\ Waits(w.s) THEN scheduled
                  ELSE Append(scheduled, [scope |-> w.scopes[1], s |-> w.s])
  /\ Goes(<<[StmtWork(w.s, w) EXCEPT !.always = w.always,
                                     !.endless = w.always /\ w.s.dec = <<>>]>>)
  /\ UNCHANGED <<symbolVars, placeVars, sense, last, dumpVars>>

Assign(w) ==
  /\ Goes(<<StmtWork(w.s, w)>>)
  /\ UNCHANGED <<symbolVars, placeVars, linkVars, dumpVars>>

AddRoutine(w) ==
  /\ table' = Added(table, RoutineNode(w))
  /\ Goes(<<>>)
  /\ UNCHANGED <<scope, placeVars, linkVars, dumpVars>>

\* Connections are by name if one has the name of the first port, otherwise in
\* order; a port that no connection names is left alone.

\* Mutant: only the first connection is looked at.
ByNameOfFirst(ports, conns) == conns # <<>> /\ conns[1].port = ports[1]
ByName(ports, conns) == \E k \in DOMAIN conns : conns[k].port = ports[1]
ConnOf(ports, conns, k) ==
  IF ByName(ports, conns) THEN LeastOrNone({j \in DOMAIN conns : conns[j].port = ports[k]}) ELSE k
BindWork(w, k, j) ==
  IF j = 0 \/ ~HasExpr(w.conns[j]) THEN <<>>
  ELSE <<[port |-> Find(table, w.ports[k], Local(w.scopes), FALSE), expr |-> w.conns[j].expr,
          outer |-> w.outer] @@ Base("bind", w)>>

Connect(w) ==
  /\ Goes(IF w.conns = <<>> THEN <<>>
          ELSE Concat([k \in DOMAIN w.ports |-> BindWork(w, k, ConnOf(w.ports, w.conns, k))]))
  /\ UNCHANGED <<symbolVars, placeVars, linkVars, dumpVars>>

Bind(w) ==
  /\ table' = IF table[w.port].dir \in {"out", "inout"}
              THEN [table EXCEPT ![w.port].port = NodeFind(table, w.expr.name, w.outer)] ELSE table
  /\ sense' = IF table[w.port].dir \in {"in", "inout"}
              THEN sense \cup {[port |-> w.port, expr |-> w.expr, scopes |-> w.outer]} ELSE sense
  /\ Goes(<<>>)
  /\ UNCHANGED <<scope, placeVars, scheduled, last, dumpVars>>

Statement(w) ==
  /\ Goes(IF w.at = "stmt" THEN Controlled(w) ELSE PiecesOf(w.s, w))
  /\ UNCHANGED <<symbolVars, placeVars, linkVars, dumpVars>>

Passed(w) ==
  /\ Goes(<<>>)
  /\ UNCHANGED <<symbolVars, placeVars, linkVars, dumpVars>>

Refer(w, i) ==
  /\ Looked(w.e.name, i, w)
  /\ Goes(ExprsWork(w.e.args, w))
  /\ UNCHANGED <<symbolVars, placeVars, sense, scheduled, dumpVars>>

Operate(w) ==
  /\ Goes([k \in DOMAIN w.e.args |-> RightWork(w.e.args[k], w)])
  /\ UNCHANGED <<symbolVars, placeVars, linkVars, dumpVars>>

\* A routine is set up where it is used first: its declarations, its body;
\* then the arguments.
RoutineBase(w, i, home) ==
  [scopes |-> <<scope, home, GlobalScope>>, routine |-> i, endless |-> w.endless]
RoutineWork(in, i, item) ==
  [k \in DOMAIN item.decls |-> DeclareWork(item.decls[k], in)]
  \o <<StmtWork(item.body, in), [node |-> i] @@ Base("defined", in)>>
ArgsWork(w, i, args) == <<[node |-> i, args |-> args] @@ Base("args", w)>>

Use(w, i, path, args) ==
  /\ Looked(path, i, w)
  /\ scope' = IF table[i].done THEN scope ELSE scope + 1
  /\ Goes((IF table[i].done THEN <<>>
           ELSE RoutineWork(RoutineBase(w, i, Home(path, w.scopes)), i, table[i].item[1]))
          \o ArgsWork(w, i, args))
  /\ UNCHANGED <<table, placeVars, sense, scheduled, dumpVars>>

Define(w) ==
  /\ table' = [table EXCEPT ![w.node].done = TRUE]
  /\ Goes(<<>>)
  /\ UNCHANGED <<scope, placeVars, linkVars, dumpVars>>

\* The file has a format once a task asked for the dump, and keeps it.
FormatSet(type) == dumpFormat \/ type \in {"dumpvars", "file"}

\* The first argument of some system tasks is a string, that of $dumpvars is
\* constant and the others are left for the second pass.
Arguments(w, type) ==
  /\ postponed' = IF type = "dumpvars" THEN Append(postponed, w.args) ELSE postponed
  /\ dumpFormat' = FormatSet(type)
  /\ Goes(IF type # "dumpvars"
          THEN ExprsWork(IF type \in {"format", "file", "memory"} THEN Tail(w.args) ELSE w.args, w)
          ELSE IF w.args = <<>> THEN <<>> ELSE <<[e |-> w.args[1]] @@ Base("delay", w)>>)
  /\ UNCHANGED <<symbolVars, placeVars, linkVars, isNet, startLevel, dumpList, dumped, header>>

-----------------------------------------------------------------------------
(***************************************************************************)
(* The second pass.                                                        *)
(***************************************************************************)

Begin(w) ==
  /\ paths' = TopScope :> <<w.top>> @@ paths
  /\ header' = IF dumpFormat THEN <<Open(<<w.top>>)>> ELSE header
  /\ Goes([k \in DOMAIN postponed |-> [args |-> postponed[k], top |-> w.top] @@ Base("vars", w)]
          \o <<Base("closing", w)>>)
  /\ UNCHANGED <<symbolVars, names, recurse, overrides, linkVars, postponed, isNet, startLevel,
                 dumpList, dumped, dumpFormat>>

DumpWork(w, path, lvls, whole) ==
  [path |-> path, lvls |-> lvls, whole |-> whole, top |-> w.top] @@ Base("dump", w)
PathOf(e) == IF e.op = "name" THEN e.name ELSE <<>>

Vars(w) ==
  /\ Goes(IF w.args = <<>> THEN <<DumpWork(w, <<w.top>>, 0, TRUE)>>
          ELSE [k \in DOMAIN Tail(w.args) |->
                 DumpWork(w, PathOf(w.args[k + 1]), w.args[1].value, FALSE)])
  /\ UNCHANGED <<symbolVars, placeVars, linkVars, dumpVars>>

\* The nets of one argument.  Without arguments they are those of the top
\* level, and the list is not cleared.
Taken(w) ==
  IF w.whole THEN [nets |-> NetsBelow(table, TopScope, 0, startLevel), isNet |-> isNet,
                   start |-> startLevel]
  ELSE IF w.path = <<>> THEN [NoNets(startLevel) EXCEPT !.isNet = isNet]
  ELSE NetsOf(table, paths, w.top, w.path, w.lvls, isNet, startLevel)

Listed(w, got) ==
  /\ isNet' = got.isNet /\ startLevel' = got.start
  /\ dumpList' = got.nets
  /\ dumped' = Append(dumped, [path |-> w.path, lvls |-> w.lvls, whole |-> w.whole, nets |-> got.nets])
  /\ header' = IF dumpFormat THEN header \o Section(table, paths, w.top, w.path, got) ELSE header

WithEarlier(got, w) == IF w.whole THEN [got EXCEPT !.nets = dumpList \o @] ELSE got

Dump(w) ==
  /\ Listed(w, WithEarlier(Taken(w), w))
  /\ Goes(<<>>)
  /\ UNCHANGED <<symbolVars, placeVars, linkVars, postponed, dumpFormat>>

Closing(w) ==
  /\ header' = IF dumpFormat THEN Append(header, Close) ELSE header
  /\ Goes(<<>>)
  /\ UNCHANGED <<symbolVars, placeVars, linkVars, postponed, isNet, startLevel, dumpList, dumped,
                 dumpFormat>>

-----------------------------------------------------------------------------
(***************************************************************************)
(* One step of setup that reports nothing.                                 *)
(***************************************************************************)

Perform(w) ==
  \/ w.at = "instance"     /\ AddInstance(w)
  \/ w.at = "enter"        /\ Enter(w)
  \/ w.at = "leave"        /\ Leave(w)
  \/ w.at = "instances"    /\ AddInstances(w, NodeFind(table, <<w.item.module>>, w.scopes))
  \/ w.at = "instantiated" /\ Instantiate(w)
  \/ w.at = "port"         /\ AddPort(w)
  \/ w.at = "declare"      /\ Declare(w)
  \/ w.at = "process"      /\ Process(w)
  \/ w.at = "assign"       /\ Assign(w)
  \/ w.at = "routine"      /\ AddRoutine(w)
  \/ w.at = "connect"      /\ Connect(w)
  \/ w.at = "bind"         /\ Bind(w)
  \/ w.at \in {"stmt", "pieces"}  /\ Statement(w)
  \/ w.at \in {"block", "delay"}  /\ Passed(w)
  \/ w.at = "expr" /\ w.e.op = "name" /\ Refer(w, NodeFind(table, w.e.name, w.scopes))
  \/ w.at = "expr" /\ w.e.op = "call"
     /\ Use(w, NodeFind(table, w.e.name, w.scopes), w.e.name, w.e.args)
  \/ w.at = "expr" /\ w.e.op \notin {"name", "call"} /\ Operate(w)
  \/ w.at = "enable"       /\ Use(w, NodeFind(table, w.name, w.scopes), w.name, w.args)
  \/ w.at = "defined"      /\ Define(w)
  \/ w.at = "args"         /\ Arguments(w, table[w.node].type)
  \/ w.at = "second"       /\ Begin(w)
  \/ w.at = "vars"         /\ Vars(w)
  \/ w.at = "dump"         /\ Dump(w)
  \/ w.at = "closing"      /\ Closing(w)
=============================================================================
