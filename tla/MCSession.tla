------------------------------- MODULE MCSession ------------------------------
(***************************************************************************)
(* Small designs in small sets of files.  A session varies one thing: the  *)
(* design, what is wrong with it, or how the program is called.            *)
(***************************************************************************)
EXTENDS Session

\* Identifiers, spelled out: lower-case names of five letters share a hash.
Alphabet == [a |-> 97, b |-> 98, c |-> 99, d |-> 100, e |-> 101, f |-> 102, g |-> 103,
             h |-> 104, i |-> 105, k |-> 107, l |-> 108, m |-> 109, n |-> 110, o |-> 111,
             p |-> 112, r |-> 114, s |-> 115, t |-> 116, u |-> 117, v |-> 118, w |-> 119,
             y |-> 121, D |-> 36]
Spelled(chars) == [k \in DOMAIN chars |-> Alphabet[chars[k]]]
McSpelling == [
  top   |-> Spelled(<<"t", "o", "p">>),           mid   |-> Spelled(<<"m", "i", "d">>),
  leaf  |-> Spelled(<<"l", "e", "a", "f">>),      main  |-> Spelled(<<"m", "a", "i", "n">>),
  alpha |-> Spelled(<<"a", "l", "p", "h", "a">>), omega |-> Spelled(<<"o", "m", "e", "g", "a">>),
  sigma |-> Spelled(<<"s", "i", "g", "m", "a">>), gamma |-> Spelled(<<"g", "a", "m", "m", "a">>),
  delta |-> Spelled(<<"d", "e", "l", "t", "a">>),
  ua    |-> Spelled(<<"u", "a">>),                ub    |-> Spelled(<<"u", "b">>),
  a     |-> <<97>>, y |-> <<121>>, w |-> <<119>>, d |-> <<100>>, r |-> <<114>>,
  work  |-> Spelled(<<"w", "o", "r", "k">>),      peek  |-> Spelled(<<"p", "e", "e", "k">>),
  gone  |-> Spelled(<<"g", "o", "n", "e">>),
  DDisplay  |-> Spelled(<<"D", "d", "i", "s", "p", "l", "a", "y">>),
  DDumpvars |-> Spelled(<<"D", "d", "u", "m", "p", "v", "a", "r", "s">>),
  DDumpfile |-> Spelled(<<"D", "d", "u", "m", "p", "f", "i", "l", "e">>),
  DDumpon   |-> Spelled(<<"D", "d", "u", "m", "p", "o", "n">>),
  DReadmem  |-> Spelled(<<"D", "r", "e", "a", "d", "m", "e", "m", "b">>),
  DTime     |-> Spelled(<<"D", "t", "i", "m", "e">>),
  DGone     |-> Spelled(<<"D", "g", "o", "n", "e">>)]
McNames == DOMAIN McSpelling

Sys(kind, type) == [kind |-> kind, type |-> type, range |-> <<63, 0>>]
McSystemTasks == [
  DDisplay |-> Sys("task", "format"), DDumpvars |-> Sys("task", "dumpvars"),
  DDumpfile |-> Sys("task", "file"),  DDumpon |-> Sys("task", "switch"),
  DReadmem |-> Sys("task", "memory"), DTime |-> Sys("function", "plain")]
McTaskOrder == <<"DDisplay", "DReadmem", "DDumpon", "DDumpvars", "DDumpfile", "DTime">>
-----------------------------------------------------------------------------
\* Expressions
Exp(op, name, args, value, width) ==
  [op |-> op, name |-> name, args |-> args, value |-> value, width |-> width]
N(name) == Exp("name", <<name>>, <<>>, 0, 0)
P(path) == Exp("name", path, <<>>, 0, 0)
Num(v) == Exp("number", <<>>, <<>>, v, 32)
Sized(v, k) == Exp("number", <<>>, <<>>, v, k)
Call(path, args) == Exp("call", path, args, 0, 0)
Op(args) == Exp("operator", <<>>, args, 0, 0)
Text == Exp("string", <<>>, <<>>, 0, 0)
Blank == Exp("none", <<>>, <<>>, 0, 0)
At(v) == Exp("delay", <<>>, <<Num(v)>>, 0, 0)

\* Statements
Do(do, exprs, parts) ==
  [do |-> do, dec |-> <<>>, hold |-> <<>>, name |-> <<>>, exprs |-> exprs, parts |-> parts]
Set(n, e) == Do("assign", <<N(n), e>>, <<>>)
Later(n, e) == Do("later", <<N(n), e>>, <<>>)
Enable(path, args) == [Do("enable", args, <<>>) EXCEPT !.name = path]
Seq2(parts) == Do("block", <<>>, parts)
Null == Do("null", <<>>, <<>>)
After(dec, s) == [s EXCEPT !.dec = <<dec>>]
Holding(dec, s) == [s EXCEPT !.hold = <<dec>>]

\* Items
Decl(type, name, range) ==
  [type |-> type, dir |-> "none", range |-> range, name |-> name, words |-> <<>>, init |-> <<>>]
ItemD(d) == [item |-> "declare", d |-> d]
NetD(type, name) == ItemD(Decl(type, name, <<>>))
Wide(type, name, a, b) == ItemD(Decl(type, name, <<a, b>>))
IO(dir, name) == [Decl("io", name, <<>>) EXCEPT !.dir = dir]
PortD(dir, name) == ItemD(IO(dir, name))
Memory(name) == ItemD([Decl("register", name, <<Num(3), Num(0)>>) EXCEPT !.words = <<Num(7), Num(4)>>])
Param(name, e) == ItemD([Decl("parameter", name, <<>>) EXCEPT !.init = <<e>>])
Initially(name, type, e) == ItemD([Decl(type, name, <<>>) EXCEPT !.init = <<e>>])
Initial(s) == [item |-> "process", always |-> FALSE, body |-> s]
AlwaysDo(s) == [item |-> "process", always |-> TRUE, body |-> s]
Drive(s) == [item |-> "assign", body |-> s]
Use1(module, params, list) ==
  [item |-> "instances", module |-> module, params |-> params, list |-> list]
Inst(name, conns) == [name |-> name, conns |-> conns]
ByPlace(e) == [port |-> "", expr |-> e]
To(port, e) == [port |-> port, expr |-> e]
Routine1(kind, name, decls, body) ==
  [item |-> kind, name |-> name, range |-> <<>>, decls |-> decls, body |-> body]
Mod(name, ports, items) == [name |-> name, ports |-> ports, items |-> items]
-----------------------------------------------------------------------------
\* A leaf with an input, an output, a width of its own and three processes;
\* its task and its function have names that the module has too.
Leaf ==
  Mod("leaf", <<"a", "y">>, <<
    Param("w", Sized(1, 2)), PortD("in", "a"), PortD("out", "y"), NetD("register", "y"),
    Wide("register", "r", N("w"), Num(0)), NetD("register", "alpha"), NetD("register", "omega"),
    AlwaysDo(After(N("a"), Set("y", N("a")))),
    AlwaysDo(After(At(2), Set("alpha", Op(<<N("alpha")>>)))),
    Initial(Set("alpha", N("r"))),
    Routine1("task", "work", <<IO("in", "d"), Decl("register", "alpha", <<>>)>>,
             Seq2(<<Set("alpha", N("d")), Set("omega", Call(<<"peek">>, <<N("r")>>))>>)),
    Routine1("function", "peek", <<IO("in", "r")>>,
             Set("peek", Op(<<N("r"), N("omega")>>)))>>)

\* Two leaves, connected by name and in order, the second one in part.
Mid ==
  Mod("mid", <<"a", "y">>, <<
    PortD("in", "a"), PortD("inout", "y"), NetD("wire", "sigma"),
    Param("w", Sized(3, 2)), Param("d", Sized(1, 2)),
    Use1("leaf", <<N("w")>>, <<Inst("ua", <<To("y", N("sigma")), To("a", N("a"))>>)>>),
    Use1("leaf", <<>>, <<Inst("ub", <<ByPlace(Op(<<N("sigma")>>)), ByPlace(Blank)>>)>>)>>)

TopWith(items) ==
  Mod("top", <<>>, <<
    NetD("register", "alpha"), NetD("wire", "omega"), NetD("integer", "gamma"), NetD("time", "d"),
    Use1("mid", <<Sized(2, 2)>>, <<Inst("ua", <<ByPlace(N("alpha")), ByPlace(N("omega"))>>),
                                  Inst("ub", <<>>)>>),
    Memory("r")>> \o items)

\* All kinds of statements, and names through the instances.
Busy == TopWith(<<
  Initial(Seq2(<<
    Enable(<<"ua", "ub", "work">>, <<N("alpha")>>),
    Do("if", <<Op(<<N("alpha"), Num(1)>>)>>, <<Set("gamma", P(<<"ub", "ua", "r">>)), Null>>),
    Do("case", <<N("alpha"), Num(0)>>, <<Null, Set("gamma", Call(<<"DTime">>, <<>>))>>),
    Do("loop", <<Num(2)>>, <<Holding(At(1), Set("gamma", N("d")))>>),
    Do("loop", <<N("gamma")>>, <<Set("gamma", Num(0)), Set("gamma", N("gamma")),
                                 Seq2(<<Later("gamma", Num(1))>>)>>),
    Holding(N("alpha"), Set("gamma", Num(3))),
    After(At(4), Enable(<<"DDisplay">>, <<Text, N("gamma")>>)),
    Enable(<<"DReadmem">>, <<Text, N("r")>>),
    Enable(<<"DDumpon">>, <<>>)>>)),
  AlwaysDo(After(N("alpha"), Later("gamma", Num(1)))),
  Drive(Set("omega", N("alpha"))),
  Use1("leaf", <<>>, <<Inst("delta", <<>>)>>),
  Initially("sigma", "wire", Op(<<N("alpha")>>)), Initially("y", "register", Num(1))>>)

\* The same task and function from outside and from inside.
Shared(path) == TopWith(<<
  Initial(Seq2(<<Enable(path, <<N("alpha")>>), Enable(path, <<N("omega")>>)>>)),
  Initial(Set("gamma", Call(<<"ub", "ua", "peek">>, <<N("alpha")>>)))>>)

\* An input of a function with the name of a register.
Alone == Mod("main", <<>>, <<
  NetD("register", "r"), NetD("register", "alpha"),
  Routine1("function", "peek", <<IO("in", "r")>>, Set("peek", N("r"))),
  Initial(Set("alpha", Call(<<"peek">>, <<N("alpha")>>)))>>)

Dumping(args, own) ==
  IF own THEN TopWith(<<Initial(Enable(<<"DDumpvars">>, args)),
                        Initial(Enable(<<"DDumpfile">>, <<Text>>))>>)
  ELSE Mod("top", <<>>, <<Use1("mid", <<>>, <<Inst("ua", <<>>)>>),
                          Initial(Enable(<<"DDumpvars">>, args))>>)
Twice == TopWith(<<
  Initial(Enable(<<"DDumpvars">>, <<Num(1), N("top"), N("alpha"), P(<<"top", "gamma">>)>>)),
  Initial(Enable(<<"DDumpvars">>, <<>>))>>)
Again == TopWith(<<
  Initial(Enable(<<"DDumpvars">>, <<Num(1), N("top")>>)),
  Initial(Enable(<<"DDumpvars">>, <<Num(0), N("top"), N("top")>>))>>)

DumpArgs == <<
  <<Num(0), N("top")>>, <<Num(1), N("top")>>, <<Num(2), N("top")>>, <<>>, <<Num(1)>>,
  <<Num(1), N("alpha"), N("top")>>, <<Num(0), P(<<"top", "ua">>)>>, <<Num(1), Text>>,
  <<Num(0), N("ua")>>, <<Num(1), N("top"), N("top"), N("alpha"), N("top")>> >>
-----------------------------------------------------------------------------
\* What can be wrong with a design.
Small(items) == Mod("top", <<>>, <<NetD("register", "alpha")>> \o items)
Wrong == <<
  Small(<<Use1("gone", <<>>, <<Inst("ua", <<>>)>>)>>),
  Small(<<Use1("DTime", <<>>, <<Inst("ua", <<>>)>>)>>),
  Small(<<Use1("leaf", <<>>, <<Inst("ua", <<>>), Inst("ua", <<>>)>>)>>),
  Small(<<Use1("leaf", <<>>, <<Inst("ua", <<ByPlace(N("alpha"))>>)>>)>>),
  Small(<<Use1("leaf", <<>>, <<Inst("ua", <<ByPlace(N("gone")), ByPlace(Num(1))>>)>>)>>),
  Small(<<Use1("leaf", <<>>, <<Inst("ua", <<ByPlace(Num(1)), ByPlace(Op(<<N("alpha")>>))>>)>>)>>),
  Small(<<Use1("leaf", <<N("alpha")>>, <<Inst("ua", <<>>)>>)>>),
  Small(<<NetD("register", "alpha")>>),
  Small(<<PortD("in", "omega")>>), Small(<<PortD("in", "alpha"), PortD("out", "alpha")>>),
  Small(<<Wide("wire", "omega", Num(5000), Num(0))>>),
  Small(<<Wide("wire", "omega", N("gone"), Num(0))>>),
  Small(<<Wide("wire", "omega", N("alpha"), Num(0))>>),
  Small(<<Param("w", N("alpha"))>>),
  Small(<<Initial(Set("gone", Num(1)))>>), Small(<<Initial(Set("top", Num(1)))>>),
  Small(<<Initial(Enable(<<"gone">>, <<>>))>>), Small(<<Initial(Enable(<<"DGone">>, <<>>))>>),
  Small(<<Initial(Enable(<<"DTime">>, <<>>))>>), Small(<<Initial(Set("alpha", Call(<<"DDisplay">>, <<>>)))>>),
  Small(<<Initial(Enable(<<"DDisplay">>, <<N("alpha")>>))>>), Small(<<Initial(Enable(<<"DReadmem">>, <<Text>>))>>),
  Small(<<Initial(Enable(<<"DReadmem">>, <<Text, Num(1)>>))>>),
  Small(<<Initial(Enable(<<"DDumpfile">>, <<Num(1)>>))>>), Small(<<Initial(Enable(<<"DDumpon">>, <<Num(1)>>))>>),
  Small(<<Initial(Enable(<<"DDumpvars">>, <<N("alpha")>>))>>),
  Small(<<Initial([After(At(1), Set("alpha", Num(1))) EXCEPT !.dec = <<At(1), N("alpha")>>])>>),
  Small(<<Initial(After(Exp("delay", <<>>, <<N("alpha")>>, 0, 0), Null))>>),
  Small(<<Initial(Do("loop", <<Num(1)>>, <<Later("alpha", Num(1))>>))>>),
  Small(<<AlwaysDo(Later("alpha", Num(1)))>>), Small(<<Drive(After(N("alpha"), Set("alpha", Num(1))))>>),
  Small(<<Routine1("task", "work", <<IO("in", "d")>>, Null), Initial(Enable(<<"work">>, <<>>))>>),
  Small(<<Routine1("task", "work", <<>>, Null), Routine1("task", "work", <<>>, Null)>>),
  Small(<<Routine1("function", "peek", <<>>, Null), Initial(Set("alpha", Call(<<"peek">>, <<>>)))>>) >>

\* Nobody is at the top, or two are, and one of them may be main.
Loop1 == Mod("top", <<>>, <<Use1("mid", <<>>, <<Inst("ua", <<>>)>>)>>)
Loop2 == Mod("mid", <<>>, <<Use1("top", <<>>, <<Inst("ua", <<>>)>>)>>)
Main == Mod("main", <<>>, <<NetD("wire", "a"),
                            Use1("top", <<>>, <<Inst("ua", <<ByPlace(N("a"))>>)>>),
                            Initial(Enable(<<"ua", "work">>, <<>>))>>)
Helper == Mod("top", <<>>, <<Routine1("task", "work", <<>>, Null)>>)
Plain == Small(<<Initial(Set("alpha", Num(1)))>>)

Tops == <<Busy, Alone, Shared(<<"ua", "ua", "work">>), Shared(<<"ub", "ub", "work">>), Twice, Again>>
        \o [k \in DOMAIN DumpArgs |-> Dumping(DumpArgs[k], TRUE)]
        \o [k \in DOMAIN DumpArgs |-> Dumping(DumpArgs[k], FALSE)]
McModules == <<Leaf, Mid, Loop1, Loop2, Main, Helper, Plain>> \o Tops \o Wrong
TopAt(k) == 7 + k
WrongAt(k) == 7 + Len(Tops) + k
-----------------------------------------------------------------------------
F(base, ext) == [base |-> base, ext |-> ext]
Good == {"copied"}
Begun(os, fs, on, out) == [opts |-> os, files |-> fs, disk |-> on, vpp |-> out, faults |-> {}]
M(k) == [is |-> "module", of |-> k]
Bad(is) == [is |-> is, of |-> 0]
One(seq) == Begun(<<>>, <<F("x", "v")>>, F("x", "v") :> seq, Good)
NeedsLeaf(m) ==
  \E k \in DOMAIN m.items : m.items[k].item = "instances" /\ m.items[k].module = "leaf"
Designs == {One(<<M(1), M(2), M(TopAt(k))>>) : k \in DOMAIN Tops}
           \cup {One((IF NeedsLeaf(Wrong[k]) THEN <<M(1)>> ELSE <<>>) \o <<M(WrongAt(k))>>)
                   : k \in DOMAIN Wrong}
           \cup {One(<<M(3), M(4)>>), One(<<M(3), M(4), M(5)>>), One(<<M(5), M(6), M(1)>>),
                 One(<<M(7), M(7)>>), One(<<M(7), M(1)>>), One(<<M(7), Bad("syntax"), M(1)>>),
                 One(<<M(7), Bad("unsupported"), M(1)>>), One(<<>>)}

\* One design in two files, and what else there may be.
Disk == F("x", "v") :> <<M(7)>> @@ F("w", "v") :> <<M(6), M(5)>> @@ F("x", "vt") :> <<M(6)>>
        @@ F("x", "vo") :> <<M(7)>> @@ F("x", "other") :> <<M(7)>>
FileLists == {<<>>, <<F("x", "v")>>, <<F("w", "v"), F("x", "v")>>, <<F("gone", "v")>>,
              <<F("x", "v"), F("gone", "v")>>, <<F("x", "vo")>>, <<F("x", "v"), F("x", "vo")>>,
              <<F("x", "other")>>, <<F("x", "v"), F("x", "other")>>, <<F("w", "v"), F("x", "vt")>>}
OptionLists == {<<>>, <<"c">>, <<"E">>, <<"c", "q">>, <<"c", "E">>}
Calls == {Begun(o, f, Disk, {"copied", "failed", "stopped", "unwritable"})
            : o \in OptionLists, f \in FileLists}
         \cup {Begun(o, <<F("x", "v")>>, Disk, Good)
                 : o \in {<<"a">>, <<"q", "v">>, <<"z", "bad">>, <<"bad">>, <<"h">>, <<"a", "h">>}}

\* Calls that fail on temporary files, in every combination.
Faulty == {[Begun(o, f, Disk, {"copied", "stopped"}) EXCEPT !.faults = S]
             : o \in {<<>>, <<"c">>, <<"E">>},
               f \in {<<F("w", "v"), F("x", "v")>>, <<F("x", "other"), F("w", "v")>>},
               S \in SUBSET Faults}
McSessions == Designs \cup Calls \cup Faulty
=============================================================================
