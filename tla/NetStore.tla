------------------------------- MODULE NetStore ------------------------------
(***************************************************************************)
(* What nets hold and how they are read and written: st_net_evaluate and   *)
(* st_net_assign (common/st_util.cc), selects (misc/bitsel.cc,             *)
(* misc/partsel.cc) and left hand sides (misc/msetup.cc,                   *)
(* misc/mtrigger.cc).                                                      *)
(*                                                                         *)
(* D gives the declaration of each net,                                    *)
(*   [dir, size, up, int, lo, hi, port, pms, pls],                         *)
(* with hi = -1 for a net that is no memory, up for a range that ascends,  *)
(* and the net outside (with the part of it) an output or inout port is    *)
(* connected to.  st[n][i] are the bits of word i; a net has word 0 only.  *)
(***************************************************************************)
EXTENDS LogicVector, FiniteSets

\* The width of the machine integer an index becomes: 8 * sizeof(int).
CONSTANT IndexBits
ASSUME IndexAssumption == IndexBits \in 1 .. DecimalBits

NoNet == "no net"
None == -1          \* for a bound: no select, or an index with unknown bits

Levels(D) == 0 .. Cardinality(DOMAIN D)
IsMemory(d) == d.hi # -1
Whole(st, n) == st[n][0]

\* to_signed_int: unknown bits and numbers that are too wide fail, for which a
\* select has -1 and $readmem another negative number.
SignedIndex(d, b) ==
  LET got == ToBits(Vector(IF d.int THEN "signed" ELSE "unsigned", b), IndexBits)
      low == got.val % Below(IndexBits)
  IN  IF got.fail THEN None
      ELSE low - (IF low < Below(IndexBits - 1) THEN 0 ELSE Below(IndexBits))

-----------------------------------------------------------------------------
(***************************************************************************)
(* Reading.                                                                *)
(***************************************************************************)

Inward(d) == d.dir \in {"in", "inout"} /\ d.port # NoNet
Outward(d) == d.dir \in {"out", "inout"} /\ d.port # NoNet

Fit(b, n) == [i \in 1 .. n |-> At(b, i)]

\* The k-th net that an inout port is connected to.
ThroughPorts(D, n) ==
  LET up[k \in Levels(D)] ==
        IF k > 0 /\ Inward(D[up[k - 1]]) THEN D[up[k - 1]].port
        ELSE IF k > 0 THEN up[k - 1] ELSE n
  IN  up

\* Word m of a memory, or the bits [m:l] of a net.
SeenIn(d, words, m, l) ==
  IF IsMemory(d) THEN IF m < d.lo \/ m > d.hi THEN Fit(<<DC>>, d.size) ELSE words[m]
  ELSE IF m = None THEN words[0]
  ELSE PartOf(words[0], Span(d.size, d.up, m, l), d.size)

SeenAt(D, st, up, depth, m, l) ==
  LET last == up[depth]
      result[k \in 0 .. depth] ==
        IF k > 0 THEN Fit(result[k - 1], D[up[depth - k]].size)
        ELSE IF depth > 0 /\ ~IsMemory(D[last])
        THEN SeenIn(D[last], st[last], D[up[0]].pms, D[up[0]].pls)
        ELSE SeenIn(D[last], st[last], m, l)
  IN  result[depth]

Depth(up) == Last({k \in DOMAIN up : k = 0 \/ up[k] # up[k - 1]})
SeenThrough(D, st, up, m, l) == SeenAt(D, st, up, Depth(up), m, l)

\* st_net_evaluate.  Through a port it is the part the port is connected to
\* that is read, whatever part of the port was asked for; of ports within
\* ports only the connection of the innermost one counts.
Evaluated(D, st, n, m, l) == SeenThrough(D, st, ThroughPorts(D, n), m, l)

\* get_select of [at |-> "none"], [at |-> "bit", of |-> net] and
\* [at |-> "part", ms, ls], a constant bit being a part of one bit.
Selected(D, st, sel) ==
  IF sel.at = "none" THEN [m |-> None, l |-> None]
  ELSE IF sel.at = "part" THEN [m |-> sel.ms, l |-> sel.ls]
  ELSE LET index == SignedIndex(D[sel.of], Evaluated(D, st, sel.of, None, None))
       IN  [m |-> index, l |-> index]

PartWidth(sel) == (IF sel.ms >= sel.ls THEN sel.ms - sel.ls ELSE sel.ls - sel.ms) + 1

\* The width setup gives a name: an index is still unknown then.
WidthOf(D, x) ==
  IF x.sel.at = "part" /\ ~IsMemory(D[x.net]) THEN PartWidth(x.sel)
  ELSE D[x.net].size

\* evaluate_expr of a name [net, sel], its select evaluated to t.
ReadAt(D, st, x, t) ==
  Fit(IF x.sel.at # "none" /\ t.m = None THEN <<DC>>
      ELSE Evaluated(D, st, x.net, t.m, t.l), WidthOf(D, x))
Read(D, st, x) == ReadAt(D, st, x, Selected(D, st, x.sel))

\* An expression: a number, a name, the complement of one, or one of two such
\* under a condition, whose common bits are all that is known when it is not.
Simple(D, st, e) ==
  IF e.op = "number" THEN e.bits
  ELSE LET inverted(b) == IF e.op = "not" THEN UnaryInv(WidthOf(D, e.x), b) ELSE b
       IN  inverted(Read(D, st, e.x))

Branches(n, c, t, f) ==
  [k \in 1 .. n |-> IF c = LO THEN At(f, k) ELSE IF c = HI THEN At(t, k)
                    ELSE Ternary(At(t, k), At(f, k))]
Conditional(c, t, f) == Branches(IF Len(t) > Len(f) THEN Len(t) ELSE Len(f), c, t, f)

Value(D, st, e) ==
  IF e.op # "if" THEN Simple(D, st, e)
  ELSE Conditional(IsLess(OfLogic(LO), Vector("unsigned", Read(D, st, e.x))),
                   Simple(D, st, e.then), Simple(D, st, e.else))

\* Only a condition makes a value a driver that is off.
IsTristate(e, v) == e.op = "if" /\ \A i \in DOMAIN v : v[i] = Z

\* The nets monitor_expr registers an event of e with.
NetsOf(x) == {x.net} \cup (IF x.sel.at = "bit" THEN {x.sel.of} ELSE {})
OperandsOf(e) == IF e.op = "if" THEN {e.x} \cup {y.x : y \in {z \in {e.then, e.else} : z.op # "number"}}
                 ELSE IF e.op = "number" THEN {} ELSE {e.x}
Monitored(e) == UNION {NetsOf(x) : x \in OperandsOf(e)}
-----------------------------------------------------------------------------
(***************************************************************************)
(* Writing.  A part [ms:ls] of the value goes to the part [m:l] of the     *)
(* net.                                                                    *)
(***************************************************************************)

\* The bits that are stored: num or num(ms, ls).
Slice(num, ms, ls) ==
  IF ms = None THEN num ELSE PartOf(num, Span(Len(num), FALSE, ms, ls), ms - ls + 1)

\* One net.  An index of -1 writes all of a net that is no memory.  A value
\* has no sign of its own here: only numbers and nets that are no integers are
\* assigned (ValueFits), so that what is missing is filled with zeros
\* (bvector.h:616-661).
Write(D, st, n, num, ms, ls, m, l) ==
  LET d      == D[n]
      lost   == IsMemory(d) /\ (m > d.hi \/ m < d.lo)
      w      == IF IsMemory(d) THEN m ELSE 0
      before == IF lost THEN <<>> ELSE st[n][w]
      after  == IF lost THEN <<>>
                ELSE IF m < None \/ l < None THEN before
                ELSE IF ~IsMemory(d) /\ m # None
                THEN PartReplaced(before, Span(d.size, d.up, m, l), Slice(num, ms, ls))
                ELSE Fit(Slice(num, ms, ls), d.size)
  IN  [net |-> n, before |-> before, after |-> after, changed |-> before # after,
       st |-> IF lost THEN st ELSE [st EXCEPT ![n][w] = after]]

\* st_net_assign: a net that changes writes all of itself to what it is
\* connected to outside, before anybody is told.  Entry k is the k-th net.
Climb(D, st, n, num, ms, ls, m, l) ==
  LET up[k \in Levels(D)] ==
        IF k = 0 THEN Write(D, st, n, num, ms, ls, m, l)
        ELSE LET p == up[k - 1]
                 d == D[p.net]
             IN  IF p.changed /\ Outward(d)
                 THEN Write(D, p.st, d.port, p.after, None, None, d.pms, d.pls)
                 ELSE [p EXCEPT !.changed = FALSE]
  IN  up

\* The width setup_lvalue gives the elements of {a, b, ...}; the last one
\* takes the least significant bits of the value.
ElementWidth(D, x) ==
  IF x.sel.at = "part" /\ ~IsMemory(D[x.net]) THEN PartWidth(x.sel)
  ELSE IF x.sel.at # "none" /\ D[x.net].hi = D[x.net].lo THEN 1
  ELSE D[x.net].size

Elements(D, lval) ==
  LET low[i \in 1 .. Len(lval) + 1] ==
        IF i > Len(lval) THEN 0 ELSE low[i + 1] + ElementWidth(D, lval[i])
  IN  [i \in DOMAIN lval |->
         IF Len(lval) = 1 THEN [ms |-> None, ls |-> None]
         ELSE [ms |-> low[i] - 1, ls |-> low[i + 1]]]

\* set_target
Targets(D, st, lval) == [i \in DOMAIN lval |-> Selected(D, st, lval[i].sel)]
-----------------------------------------------------------------------------
(***************************************************************************)
(* What setup has checked.  That a constant part lies in its net is not    *)
(* checked (esetup.cc:209-218 only looks at the order of its bounds); one  *)
(* that does not reads and writes memory behind the net, and such designs  *)
(* are left out.                                                           *)
(***************************************************************************)

Inside(d, m, l) ==
  LET span == Span(d.size, d.up, m, l)
  IN  0 <= span.first /\ span.first <= span.last /\ span.last < d.size

\* A net, and what the port it may be is connected to.
NetFits(D, n) ==
  LET d == D[n]
      up == ThroughPorts(D, n)
  IN  /\ d.size \in Nat \ {0} /\ d.up \in BOOLEAN /\ d.int \in BOOLEAN
      /\ IF IsMemory(d) THEN d.lo \in Nat /\ d.hi \in Nat /\ d.port = NoNet ELSE d.lo = -1
      /\ d.port # NoNet =>
           /\ ~d.int
           /\ d.port \in DOMAIN D /\ ~IsMemory(D[d.port])
           /\ IF d.pms = None THEN d.pls = None
              ELSE d.pms \in Nat /\ d.pls \in Nat /\ Inside(D[d.port], d.pms, d.pls)
      /\ Inward(d) /\ d.pms # None => Inside(D[up[Depth(up)]], d.pms, d.pls)

\* A port leads to a net that lies further out.
Outwards(D) ==
  \E level \in [DOMAIN D -> Levels(D)] :
    \A n \in DOMAIN D : D[n].port # NoNet => level[D[n].port] < level[n]

\* A memory has constant indexes, but no parts (esetup.cc:212).
NameFits(D, x) ==
  /\ x.net \in DOMAIN D /\ x.sel.at \in {"none", "bit", "part"}
  /\ x.sel.at = "bit" => x.sel.of \in DOMAIN D
  /\ x.sel.at = "part" =>
       /\ x.sel.ms \in Nat /\ x.sel.ls \in Nat
       /\ IF IsMemory(D[x.net]) THEN x.sel.ms = x.sel.ls
          ELSE Inside(D[x.net], x.sel.ms, x.sel.ls)

\* A name whose value is unsigned.  Integers are for indexes.
ValueFits(D, x) == NameFits(D, x) /\ ~D[x.net].int

SimpleFits(D, e) ==
  IF e.op = "number" THEN e.bits \in Seq(Logic) /\ e.bits # <<>>
  ELSE e.op \in {"name", "not"} /\ ValueFits(D, e.x)

ExprFits(D, e) ==
  IF e.op = "if" THEN ValueFits(D, e.x) /\ SimpleFits(D, e.then) /\ SimpleFits(D, e.else)
  ELSE SimpleFits(D, e)

SimpleWidth(D, e) == IF e.op = "number" THEN Len(e.bits) ELSE WidthOf(D, e.x)
ExprWidth(D, e) ==
  IF e.op # "if" THEN SimpleWidth(D, e)
  ELSE LET t == SimpleWidth(D, e.then)
           f == SimpleWidth(D, e.else)
       IN  IF t > f THEN t ELSE f

\* The names of a left hand side, and the parts of a value each of them takes.
LvalFits(D, lval, width) ==
  /\ Len(lval) \in Nat \ {0} /\ DOMAIN lval = 1 .. Len(lval)
  /\ \A i \in DOMAIN lval : NameFits(D, lval[i])
  /\ Len(lval) > 1 =>
       \A i \in DOMAIN lval :
         LET part == Elements(D, lval)[i]
         IN  part.ms \in Nat /\ part.ls \in 0 .. part.ms /\ part.ms < width
=============================================================================
