------------------------------- MODULE Session --------------------------------
(***************************************************************************)
(* What a run of the program promises: of its files and its exit status,   *)
(* and of what setup makes of a design.  The design is read a second time  *)
(* here, without symbol table, work list or scope table: instances are     *)
(* paths, and a name is looked for scope by scope.                         *)
(***************************************************************************)
EXTENDS Driver

Phases == {"args", "files", "preprocess", "parse", "setup", "simulate", "check", "done"}
IsSetUp == phase = "simulate"
-----------------------------------------------------------------------------
(***************************************************************************)
(* The design itself.                                                      *)
(***************************************************************************)

ItemsLike(m, kind) == SelectSeq(Modules[m].items, LAMBDA x : x.item = kind)
Elements(seq) == {seq[k] : k \in DOMAIN seq}
ModuleNamed(n) == CHOOSE m \in Elements(modulelist) : Modules[m].name = n

Uses(m) ==
  UNION {{[of |-> ModuleNamed(x.module), inst |-> x.list[k], params |-> x.params, first |-> k = 1]
           : k \in DOMAIN x.list} : x \in Elements(ItemsLike(m, "instances"))}

\* Every instance: its path, the path of the one it is in, and what it uses.
Below(top) ==
  LET under[m \in DOMAIN Modules] ==
        UNION {{[path |-> <<u.inst.name>>, outer |-> <<>>, use |-> u]}
               \cup {[path |-> <<u.inst.name>> \o q.path, outer |-> <<u.inst.name>> \o q.outer,
                      use |-> q.use] : q \in under[u.of]}
               : u \in Uses(m)}
  IN  {[path |-> <<top>> \o q.path, outer |-> <<top>> \o q.outer, use |-> q.use]
         : q \in under[ModuleNamed(top)]}
TopPlace(top) ==
  [path |-> <<top>>, outer |-> <<>>,
   use |-> [of |-> ModuleNamed(top), inst |-> [name |-> top, conns |-> <<>>], params |-> <<>>,
            first |-> TRUE]]
Top == Modules[table[TopLevel].of].name
Places == {TopPlace(Top)} \cup Below(Top)

ScopeAt(path) == CHOOSE s \in DOMAIN paths : paths[s] = path
In(name, s) == LeastOrNone({i \in DOMAIN table : table[i].name = name /\ table[i].scope = s})
InstanceIn(name, s) ==
  LeastOrNone({i \in DOMAIN table :
    table[i].name = name /\ table[i].scope = s /\ table[i].kind = "instance"})

\* A path, from the innermost of the scopes that has its first name.
From(path, s) ==
  LET at[k \in 1 .. Len(path)] ==
        IF k = 1 THEN s ELSE table[InstanceIn(path[k - 1], at[k - 1])].inner
  IN  In(path[Len(path)], at[Len(path)])
Has(path, s) == (IF Len(path) = 1 THEN In(path[1], s) ELSE InstanceIn(path[1], s)) # 0
Resolved(path, scopes) ==
  LET S == {k \in DOMAIN scopes : Has(path, scopes[k])}
  IN  IF S = {} THEN 0 ELSE From(path, scopes[LeastIn(S)])
-----------------------------------------------------------------------------
(***************************************************************************)
(* Files and exit status.                                                  *)
(***************************************************************************)

\* The phase, the state and mode bits, the error and the nodes of the table
\* are of their kinds.
SessionTypeOK ==
  /\ phase \in Phases
  /\ bits \subseteq Modes \cup {"PREPROCESS", "COMPILE", "SETUP", "SIMULATE"}
  /\ Elements(modulelist) \subseteq DOMAIN Modules
  /\ \A i \in DOMAIN table :
       /\ table[i].kind \in {"task", "function", "module", "instance", "net"}
       /\ table[i].scope \in 0 .. scope /\ table[i].bucket \in 0 .. HashSize - 1

\* The exit status tells whether an error was reported, in whatever phase and
\* however many went before it (error.cc and return_check of sim.cc).
ExitTells == phase = "done" /\ rc # "crash" => (rc # "SE_NONE" <=> reported)

\* A temporary file of the preprocessor is there when the program ends, and was
\* not there before, only if it could not be opened again or could not be
\* removed, and then the exit status tells of an error (tmpfile_remove,
\* tmpfile_save and sim_preprocess of sim.cc).
Clinging == session.faults \cap {"reopen", "remove"} # {}
NoTempLeft ==
  phase = "done" =>
    \A f \in DOMAIN disk :
      f.ext = "vt" => f \in DOMAIN session.disk \/ (Clinging /\ rc # "SE_NONE")

\* However a run ends, its status is right and its files are cleared away, or
\* it tells that they are not.
EndsClean == ExitTells /\ NoTempLeft

\* What is simulated is the whole of what was read: every file that was named
\* could be opened, and every module the parser found was entered
\* (vbs_sim_start and store_module_to_symbol_table).
SimulatedClean ==
  IsSetUp => /\ modulelist = loaded /\ ~reported
             /\ \A k \in DOMAIN session.files : session.files[k] \in DOMAIN session.disk
-----------------------------------------------------------------------------
(***************************************************************************)
(* The design after setup.                                                 *)
(***************************************************************************)

\* Whatever has been added to the symbol table is found under its name in its
\* scope, also among names with the same hash and although an instance shares
\* its bucket with nodes of other kinds (add and find of sym_tab.cc).
SymbolsFound ==
  phase = "check" =>
    \A i \in DOMAIN table :
      Find(table, table[i].name, <<table[i].scope>>, table[i].kind = "instance") = i

\* There is one instance for each path through the design, with a scope of
\* its own, and the time wheel has its processes in the order of the source
\* (misetup.cc and st_setup.cc).
Processes(m) ==
  SelectSeq(ItemsLike(m, "process"),
            LAMBDA x : ~(x.always /\ Waits(AsBlock(x.body, TRUE))))
ScheduledIn(s) == SelectSeq(scheduled, LAMBDA x : x.scope = s)
EveryInstance ==
  IsSetUp =>
    /\ Cardinality(DOMAIN paths) = Cardinality(Places)
    /\ \A p \in Places :
         /\ \E s \in DOMAIN paths : paths[s] = p.path
         /\ LET s == ScopeAt(p.path) IN
              /\ \E i \in DOMAIN table : /\ table[i].kind = "instance" /\ table[i].inner = s
                                         /\ table[table[i].of].of = p.use.of
              /\ ScheduledIn(s) = [k \in DOMAIN Processes(p.use.of) |->
                   [scope |-> s, s |-> AsBlock(Processes(p.use.of)[k].body,
                                               Processes(p.use.of)[k].always)]]

\* A name in the body of a task or function stands for what it stands for in
\* the module that declares it, whoever enables it first, and every name for
\* the innermost node (Home is the lookup of ssetup.cc and esetup.cc).
NamesResolved ==
  last.path # <<>> =>
    /\ last.at = Resolved(last.path, last.scopes)
    /\ last.routine # 0 => last.scopes[2] = table[last.routine].scope

\* Names lead to what they stand for, in the table and from the source.
NamesFound == SymbolsFound /\ NamesResolved

\* Each net has the direction, type and range its module declares, the range
\* with the parameters of this instance; tasks with names of their own do not
\* change those of the module (d_setup.cc).
ValueIn(s, e) == IF e.op = "number" THEN e.value ELSE table[From(e.name, s)].value
DirIn(m, n) ==
  LET S == {x \in Elements(ItemsLike(m, "declare")) : x.d.name = n /\ x.d.type = "io"}
  IN  IF S = {} THEN "none" ELSE (CHOOSE x \in S : TRUE).d.dir
NetAs(node, d, m, s) ==
  /\ node.kind = "net" /\ node.dir = DirIn(m, d.name)
  /\ d.type # "io" => node.type = IF d.words = <<>> THEN d.type ELSE "memory"
  /\ d.range # <<>> => node.ms = ValueIn(s, d.range[1]) /\ node.ls = ValueIn(s, d.range[2])
DeclaredAs ==
  IsSetUp =>
    \A p \in Places : \A x \in Elements(ItemsLike(p.use.of, "declare")) :
      LET i == In(x.d.name, ScopeAt(p.path))
      IN  i # 0 /\ NetAs(table[i], x.d, p.use.of, ScopeAt(p.path))

\* The parameters of the first instance of a list have the values given for
\* them in order, the others their defaults, as wide as the default.  The
\* instances after it have no such promise: they find the values used up
\* (misetup.cc and param_setup of d_setup.cc).
IsParameter(x) == x.d.type = "parameter"
ParametersSet ==
  IsSetUp =>
    \A p \in {q \in Places : q.use.first} :
      LET decls == SelectSeq(ItemsLike(p.use.of, "declare"), IsParameter)
          given == p.use.params
          value(k) == IF k <= Len(given) THEN ValueIn(ScopeAt(p.outer), given[k])
                      ELSE ValueIn(ScopeAt(p.path), decls[k].d.init[1])
          node(k) == table[In(decls[k].d.name, ScopeAt(p.path))]
      IN  \A k \in DOMAIN decls : node(k).value = Narrowed(value(k), Size(node(k)))

\* Every net and parameter is what the declaration in its module says of it in
\* that instance.
AsDeclared == DeclaredAs /\ ParametersSet

\* A port is bound to the expression written for it, by its name or in its
\* place: an input waits for what is in it, an output is the net it names
\* (setup_port of msetup.cc).
Written(ports, conns, k) ==
  IF \E j \in DOMAIN conns : conns[j].port \in Elements(ports)
  THEN {conns[j].expr : j \in {j \in DOMAIN conns : conns[j].port = ports[k]}}
  ELSE {conns[j].expr : j \in {j \in DOMAIN conns : j = k}}
WaitsFor(i) == {x.expr : x \in {y \in sense : y.port = i}}
OuterNet(p, e) == Resolved(e.name, <<ScopeAt(p.outer), GlobalScope>>)
PortAs(i, exprs, p) ==
  /\ WaitsFor(i) = IF table[i].dir \in {"in", "inout"} THEN exprs ELSE {}
  /\ {table[i].port} \ {0} =
       IF table[i].dir \in {"out", "inout"} THEN {OuterNet(p, e) : e \in exprs} ELSE {}
PortsConnected ==
  IsSetUp =>
    \A p \in Places : \A k \in DOMAIN Modules[p.use.of].ports :
      PortAs(In(Modules[p.use.of].ports[k], ScopeAt(p.path)),
             {e \in Written(Modules[p.use.of].ports, p.use.inst.conns, k) : e.op # "none"}, p)

\* What vbs.txt:1263-1276 still says: every connection of a port that is written
\* is a name, neither another expression nor left out.  Setup takes both
\* (setup_port and setup_port_conn of msetup.cc), as README and CHANGELOG say.
PlainConnections ==
  IsSetUp =>
    \A p \in Places : \A k \in DOMAIN p.use.inst.conns : p.use.inst.conns[k].expr.op = "name"
-----------------------------------------------------------------------------
(***************************************************************************)
(* The dump.                                                               *)
(***************************************************************************)

\* $dumpvars with the top level takes the nets of the instances down to the
\* level given, and no others; with the name of a net of the top level it takes
\* that net; without arguments it takes them all.  Nothing is promised of the
\* names of other instances, nor of nets in them: get_nets of scp_tab.cc means
\* to find them, and looks for names relative to the top level among names that
\* begin with it.
Deep(s, lvls) == lvls = 0 \/ Len(paths[s]) <= lvls
NetsDown(lvls) ==
  {i \in DOMAIN table : /\ table[i].kind = "net" /\ table[i].scope \in DOMAIN paths
                        /\ Deep(table[i].scope, lvls)}
OwnNets == {i \in DOMAIN table : table[i].kind = "net" /\ table[i].scope = TopScope}
DumpListed ==
  IsSetUp =>
    \A k \in DOMAIN dumped :
      LET d == dumped[k]
      IN  /\ d.whole => NetsDown(0) \subseteq Elements(d.nets)
          /\ ~d.whole /\ d.path = <<Top>> => Elements(d.nets) = NetsDown(d.lvls)
          /\ \A i \in OwnNets :
               d.path \in {<<table[i].name>>, <<Top, table[i].name>>} => d.nets = <<i>>

\* The scopes open after some lines of the header of the VCD file.
Scopes(upto) ==
  LET open[k \in 0 .. upto] ==
        IF k = 0 THEN <<>>
        ELSE IF header[k].out = "scope" THEN Append(open[k - 1], header[k].path)
        ELSE IF header[k].out = "upscope" THEN Undo(open[k - 1])
        ELSE open[k - 1]
  IN  open[upto]

\* The lines of the nets of one argument.
VarsUpto(k) == Cardinality({j \in 1 .. k : header[j].out = "var"})
NetsUpto(k) == Len(Concat([j \in 1 .. k |-> dumped[j].nets]))
VarsOf(k) == {h \in DOMAIN header : /\ header[h].out = "var"
                                    /\ VarsUpto(h) \in NetsUpto(k - 1) + 1 .. NetsUpto(k)}

\* Every net that is listed for the top level is in the header right in the
\* scope of its instance (second_pass of dumpvcd.cc).  An argument after the
\* first must find just the scope of the top level open: one that left another
\* open before it (a net, or the top level with its instances) spoils what
\* follows, and so does a top level without nets of its own.
InPlace(h) ==
  Scopes(h) # <<>> /\ Scopes(h)[Len(Scopes(h))] = paths[table[header[h].net].scope]
BeginsAtTop(k) == k = 1 \/ (~dumped[k].whole /\ Scopes(LeastIn(VarsOf(k))) = << <<Top>> >>)
HeaderScopes ==
  IsSetUp /\ header # <<>> /\ OwnNets # {} =>
    \A k \in DOMAIN dumped :
      dumped[k].path = <<Top>> /\ BeginsAtTop(k) => \A h \in VarsOf(k) : InPlace(h)

\* The dump has the nets that were asked for, each in its scope.
DumpComplete == DumpListed /\ HeaderScopes
=============================================================================
