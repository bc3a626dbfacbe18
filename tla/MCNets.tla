-------------------------------- MODULE MCNets -------------------------------
(***************************************************************************)
(* Small designs, each for one way nets hang together.                     *)
(***************************************************************************)
EXTENDS Nets, TLC

X(k) == [i \in 1 .. k |-> DC]
Off(k) == [i \in 1 .. k |-> Z]
Net(k) == [dir |-> "none", size |-> k, up |-> FALSE, int |-> FALSE, lo |-> -1, hi |-> -1,
           port |-> NoNet, pms |-> None, pls |-> None]
Up(k) == [Net(k) EXCEPT !.up = TRUE]
Memory(k, lo, hi) == [Net(k) EXCEPT !.lo = lo, !.hi = hi]
Port(k, dir, outer, ms, ls) ==
  [Net(k) EXCEPT !.dir = dir, !.port = outer, !.pms = ms, !.pls = ls]

None1 == [at |-> "none"]
Part(ms, ls) == [at |-> "part", ms |-> ms, ls |-> ls]
Bit(n) == [at |-> "bit", of |-> n]
Of(n, sel) == [net |-> n, sel |-> sel]
Name(n) == [op |-> "name", x |-> Of(n, None1)]
NameAt(n, sel) == [op |-> "name", x |-> Of(n, sel)]
NotOf(n) == [op |-> "not", x |-> Of(n, None1)]
Number(bits) == [op |-> "number", bits |-> bits]
If(c, t, f) == [op |-> "if", x |-> Of(c, None1), then |-> t, else |-> f]

Set(x, e) == [kind |-> "set", lval |-> <<x>>, rval |-> e, of |-> "none"]
SetBoth(x, y, e) == [kind |-> "set", lval |-> <<x, y>>, rval |-> e, of |-> "none"]
LaterBoth(u, x, y, e) == [kind |-> "later", lval |-> <<x, y>>, rval |-> e, of |-> u]
Later(u, x, e) == [kind |-> "later", lval |-> <<x>>, rval |-> e, of |-> u]
Entry1(n, e) == [kind |-> "entry", lval |-> <<Of(n, None1)>>, rval |-> e, of |-> n]
Exit1(n, x) == [kind |-> "exit", lval |-> <<x>>, rval |-> Number(<<LO>>), of |-> n]
Task(k) == [kind |-> k, of |-> "none", lval |-> <<>>, rval |-> Number(<<LO>>)]
Wait(c) == [Task("wait") EXCEPT !.of = c]
Ev(kind, e) == [kind |-> kind, expr |-> e]
Word(b) == [i \in {0} |-> b]
Sets(n, values) == {Set(Of(n, None1), Number(b)) : b \in values}

\* A register feeds inputs of modules in modules; a process waits for an edge
\* of the innermost one, another one waits once in a while.
Inputs ==
  [nets   |-> [d |-> Net(2), a |-> [Net(2) EXCEPT !.dir = "in"],
              b |-> [Net(1) EXCEPT !.dir = "in"], q |-> Net(1)],
   init   |-> [d |-> Word(X(2)), a |-> Word(X(2)), b |-> Word(X(1)),
              q |-> Word(X(1))],
   order  |-> <<<<"a", 1>>, <<"b", 1>>, <<"p", 1>>, <<"w", 1>>>>,
   events |-> <<"a", 1>> :> Ev("change", Name("d"))
              @@ <<"b", 1>> :> Ev("change", NameAt("a", Part(1, 1)))
              @@ <<"p", 1>> :> Ev("posedge", Name("b"))
              @@ <<"w", 1>> :> Ev("negedge", NameAt("d", Part(1, 1))),
   forced |-> {"a", "b", "p"},
   wires  |-> {"a", "b"},
   locals |-> {},
   body   |-> [a |-> <<Set(Of("a", None1), Name("d"))>>,
              b |-> <<Set(Of("b", None1), NameAt("a", Part(1, 1)))>>,
              p |-> <<Set(Of("q", None1), NotOf("q")), Task("dumpall")>>,
              w |-> <<Set(Of("q", None1), Number(<<LO>>)), Wait("w")>>],
   first  |-> <<>>,
   moves  |-> Sets("d", {<<LO, LO>>, <<LO, HI>>, <<HI, LO>>}) \cup
              {Set(Of("d", Part(1, 1)), Number(<<DC>>)), Wait("w"),
               Task("dumpvars"), Task("dumpoff")}]

\* An output of a module in a module in the top level, and an index that moves
\* over what comes out, with an edge of the bit it points at.
OutputsOut ==
  [nets   |-> [o |-> Port(1, "out", "m", 1, 1), m |-> Port(2, "out", "t", None, None),
              t |-> Up(2), i |-> Net(1), y |-> Net(1)],
   init   |-> [o |-> Word(X(1)), m |-> Word(X(2)), t |-> Word(Off(2)),
              i |-> Word(X(1)), y |-> Word(Off(1))],
   order  |-> <<<<"y", 1>>, <<"p", 1>>, <<"p", 2>>>>,
   events |-> <<"y", 1>> :> Ev("change", NameAt("t", Bit("i")))
              @@ <<"p", 1>> :> Ev("posedge", NameAt("t", Bit("i")))
              @@ <<"p", 2>> :> Ev("negedge", Name("i")),
   forced |-> {"y"},
   wires  |-> {"y"},
   locals |-> {},
   body   |-> [y |-> <<Set(Of("y", None1), NameAt("t", Bit("i")))>>,
              p |-> <<Set(Of("m", Part(0, 0)), NameAt("t", Bit("i"))), Wait("p")>>],
   first  |-> <<<<"y", 1>>>>,
   moves  |-> Sets("o", {<<LO>>, <<HI>>}) \cup Sets("i", {<<LO>>, <<HI>>}) \cup {Wait("p")}]

\* A memory written by index, and its words read by another one.
Memories ==
  [nets   |-> [mem |-> Memory(2, 1, 2), i |-> Net(2), w |-> Net(2), r |-> Up(3)],
   init   |-> [mem |-> [k \in 0 .. 2 |-> X(2)], i |-> Word(X(2)),
              w |-> Word(Off(2)), r |-> Word(X(3))],
   order  |-> <<<<"w", 1>>>>,
   events |-> <<"w", 1>> :> Ev("change", NameAt("mem", Bit("i"))),
   forced |-> {"w"},
   wires  |-> {"w"},
   locals |-> {},
   body   |-> [w |-> <<Set(Of("w", None1), NameAt("mem", Bit("i")))>>],
   first  |-> <<<<"w", 1>>>>,
   moves  |-> Sets("i", {<<HI, LO>>, <<LO, HI>>, <<LO, LO>>}) \cup
              {Set(Of("mem", Bit("i")), Number(<<HI, LO>>)),
               Set(Of("mem", Bit("i")), Name("w")),
               Set(Of("r", Part(0, 1)), Number(<<HI, LO>>)),
               Set(Of("r", Bit("i")), Number(<<LO>>)),
               SetBoth(Of("i", None1), Of("mem", Bit("i")), Number(<<HI, LO, LO, HI>>))}]

\* An integer, and a number wider than an index, which is then none or not
\* the number's own.
Indexes ==
  [nets   |-> [mem |-> Memory(1, 1, 2), r |-> Up(3), j |-> Net(5),
              k |-> [Net(2) EXCEPT !.int = TRUE]],
   init   |-> [mem |-> [n \in 0 .. 2 |-> X(1)], r |-> Word(X(3)), j |-> Word(X(5)),
              k |-> Word(X(2))],
   order  |-> <<<<"p", 1>>>>,
   events |-> <<"p", 1>> :> Ev("posedge", NameAt("r", Bit("j"))),
   forced |-> {},
   wires  |-> {},
   locals |-> {},
   body   |-> [p |-> <<Set(Of("r", Bit("k")), Number(<<LO>>))>>],
   first  |-> <<>>,
   moves  |-> Sets("j", {<<HI, LO, LO, LO, LO>>, <<HI, LO, HI, LO, LO>>,
                         <<HI, LO, LO, HI, LO>>, <<LO, HI, HI, HI, HI>>}) \cup
              Sets("k", {<<HI, LO>>, <<LO, HI>>, <<HI, HI>>}) \cup
              {Set(Of("r", Bit("j")), NameAt("mem", Bit("k"))),
               Set(Of("mem", Bit("k")), Number(<<HI>>)),
               Set(Of("r", Bit("k")), Number(<<HI>>)), Wait("p")}]

\* Two drivers of a bus, one of them on.
Bus ==
  [nets   |-> [en |-> Net(1), d |-> Net(1), e |-> Net(1), bus |-> Net(1)],
   init   |-> [en |-> Word(X(1)), d |-> Word(X(1)), e |-> Word(X(1)),
              bus |-> Word(Off(1))],
   order  |-> <<<<"c1", 1>>, <<"c2", 1>>>>,
   events |-> <<"c1", 1>> :> Ev("change", If("en", Name("d"), Number(Off(1))))
              @@ <<"c2", 1>> :> Ev("change", If("en", Number(Off(1)), Name("e"))),
   forced |-> {"c1", "c2"},
   wires  |-> {"c1", "c2"},
   locals |-> {},
   body   |-> [c1 |-> <<Set(Of("bus", None1), If("en", Name("d"), Number(Off(1))))>>,
              c2 |-> <<Set(Of("bus", None1), If("en", Number(Off(1)), Name("e")))>>],
   first  |-> <<<<"c1", 1>>, <<"c2", 1>>>>,
   moves  |-> Sets("en", {<<LO>>, <<HI>>}) \cup Sets("d", {<<LO>>, <<HI>>})
              \cup Sets("e", {<<LO>>, <<HI>>})]

\* Nonblocking assignments to a word whose index moves on at the same time,
\* and to a register beside it, executed once in a time unit, by the edge of a
\* clock.
Clocked ==
  [nets   |-> [clk |-> Net(1), i |-> Net(1), d |-> Net(2), q |-> Up(2),
              mem |-> Memory(1, 0, 1)],
   init   |-> [clk |-> Word(X(1)), i |-> Word(<<LO>>), d |-> Word(X(2)),
              q |-> Word(X(2)), mem |-> [k \in 0 .. 1 |-> X(1)]],
   order  |-> <<<<"p", 1>>>>,
   events |-> <<"p", 1>> :> Ev("posedge", Name("clk")),
   forced |-> {"p"},
   wires  |-> {},
   locals |-> {},
   body   |-> [p |-> <<Later("u1", Of("i", None1), NotOf("i")),
                       LaterBoth("u2", Of("mem", Bit("i")), Of("q", Part(0, 0)), Name("d")),
                       Set(Of("d", None1), NotOf("i"))>>],
   first  |-> <<>>,
   moves  |-> Sets("clk", {<<LO>>, <<HI>>}) \cup Sets("d", {<<LO, HI>>, <<HI, LO>>})
              \cup {Task("dumpoff"), Task("dumpon")}]

\* A task enabled by two processes; its output has a listener.
Tasks ==
  [nets   |-> [clk |-> Net(1), d |-> Net(2), x |-> [Net(2) EXCEPT !.dir = "in"],
              v |-> [Net(2) EXCEPT !.dir = "out"], r |-> Net(2), w |-> Net(1)],
   init   |-> [clk |-> Word(X(1)), d |-> Word(X(2)), x |-> Word(X(2)),
              v |-> Word(X(2)), r |-> Word(X(2)), w |-> Word(Off(1))],
   order  |-> <<<<"p", 1>>, <<"y", 1>>, <<"w", 1>>>>,
   events |-> <<"p", 1>> :> Ev("posedge", Name("clk"))
              @@ <<"y", 1>> :> Ev("negedge", Name("clk"))
              @@ <<"w", 1>> :> Ev("change", NameAt("r", Part(1, 1))),
   forced |-> {"p", "y", "w"},
   wires  |-> {"w"},
   locals |-> {"x"},
   body   |-> [p |-> <<Entry1("x", Name("d")), Set(Of("v", None1), NotOf("x")),
                       Exit1("v", Of("r", None1))>>,
              y |-> <<Entry1("x", Number(<<HI, HI>>)), Set(Of("v", None1), NotOf("x")),
                          Exit1("v", Of("r", Part(1, 1)))>>,
              w |-> <<Set(Of("w", None1), NameAt("r", Part(1, 1)))>>],
   first  |-> <<<<"w", 1>>>>,
   moves  |-> Sets("clk", {<<LO>>, <<HI>>}) \cup Sets("d", {<<LO, LO>>, <<HI, LO>>})]

\* Files are read into memories, with and without indexes; two of the files
\* have an error or no end.
Text(t) == [is |-> "word", text |-> t, at |-> 0]
AddressTo(k) == [is |-> "address", text |-> <<>>, at |-> k]
Remark == [is |-> "comment", text |-> <<>>, at |-> 0]
File(tokens) == [tokens |-> tokens, ended |-> TRUE]
Open(tokens) == [tokens |-> tokens, ended |-> FALSE]
ReadMem(n, base, file, args) ==
  [kind |-> "readmem", of |-> n, base |-> base, file |-> file, args |-> args]
Three == <<Text(<<0, 1>>), Remark, Text(<<1, XDigit>>), Text(<<1, 0>>), Remark>>
Moved == <<AddressTo(2), Text(<<1, 1>>), AddressTo(1), Text(<<0, 0>>), Text(<<0, 1>>)>>
Beyond == <<AddressTo(3), Text(<<1, 0>>), Text(<<0, 1>>), AddressTo(1), Text(<<1, 1>>)>>
Long == <<Text(<<1, 1>>), Text(<<0, 1, 1>>)>>
Hexes == <<Text(<<11>>), AddressTo(0), Text(<<ZDigit, 7>>)>>

Files ==
  [nets   |-> [mem |-> Memory(2, 1, 3), i |-> Net(2), r |-> Net(2), wide |-> Memory(8, 0, 1)],
   init   |-> [mem |-> [k \in 0 .. 3 |-> X(2)], i |-> Word(X(2)), r |-> Word(X(2)),
              wide |-> [k \in 0 .. 1 |-> X(8)]],
   order  |-> <<>>,
   events |-> <<>>,
   forced |-> {},
   wires  |-> {},
   locals |-> {},
   body   |-> <<>>,
   first  |-> <<>>,
   moves  |-> Sets("i", {<<LO, HI>>, <<LO, LO>>}) \cup
              {Set(Of("r", None1), NameAt("mem", Bit("i"))),
               ReadMem("mem", 2, File(Three), <<>>),
               ReadMem("mem", 2, File(Three), <<Name("i")>>),
               ReadMem("mem", 2, Open(Three), <<Number(<<LO, HI>>), Number(<<HI, HI>>)>>),
               ReadMem("mem", 2, Open(Moved), <<>>),
               ReadMem("mem", 2, File(Moved), <<Number(<<HI>>), Name("i")>>),
               ReadMem("mem", 2, File(Three), <<Number(<<HI, HI>>), Number(<<HI>>)>>),
               ReadMem("mem", 2, File(Three), <<Number(<<LO, HI>>), Number(<<HI>>)>>),
               ReadMem("mem", 2, File(Beyond), <<>>),
               ReadMem("mem", 2, File(Long), <<>>),
               ReadMem("wide", 16, File(Hexes), <<>>)}]

\* An inout port of two bits, selected inside.
Inouts ==
  [nets   |-> [t |-> Net(2), b |-> Port(2, "inout", "t", None, None)],
   init   |-> [t |-> Word(X(2)), b |-> Word(X(2))],
   order  |-> <<<<"b", 1>>>>,
   events |-> <<"b", 1>> :> Ev("change", Name("t")),
   forced |-> {"b"},
   wires  |-> {"b"},
   locals |-> {},
   body   |-> [b |-> <<Set(Of("b", None1), Name("t"))>>],
   first  |-> <<>>,
   moves  |-> Sets("t", {<<LO, HI>>, <<HI, LO>>}) \cup Sets("b", {<<LO, HI>>}) \cup
              {Set(Of("b", Part(1, 1)), Number(<<HI>>))}]

SingleDrivers == {Inputs, OutputsOut, Memories, Indexes, Files, Clocked, Tasks}
McDesigns == SingleDrivers \cup {Bus}

\* What the theorems about edges, updates and drivers are for.
ASSUME HeardAssumption == \A g \in McDesigns : WellHeard(g)
ASSUME PlacedAssumption == \A g \in McDesigns : WellPlaced(g)
ASSUME ConnectedAssumption == \A g \in SingleDrivers : WellConnected(g)

McInouts == {Inouts}
=============================================================================
