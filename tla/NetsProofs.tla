------------------------------- MODULE NetsProofs ------------------------------
(***************************************************************************)
(* Theorems about nets, for every design that setup lets through, every    *)
(* number of processes and every bound: what the nets and the event queue  *)
(* hold, that what is written is what is read, that no edge is missed,     *)
(* that updates land, what a file leaves in a memory, that drivers reach   *)
(* their nets, and that the dump loses no change.                          *)
(***************************************************************************)
EXTENDS Nets, LogicVectorProofs, FiniteSetTheorems

USE DEF LO, HI, DC, Z, NVL

-----------------------------------------------------------------------------
(***************************************************************************)
(* Bits, parts and indexes.                                                *)
(***************************************************************************)

\* Bits are a sequence as long as they are many.
LEMMA BitsLen ==
  ASSUME NEW n \in Nat, NEW b \in [1 .. n -> Logic]
  PROVE  Len(b) = n /\ DOMAIN b = 1 .. n /\ b \in Seq(Logic)
OBVIOUS

\* And a sequence of logic values is bits.
LEMMA SeqBits ==
  ASSUME NEW b \in Seq(Logic), b # <<>>
  PROVE  Len(b) \in Nat \ {0} /\ b \in [1 .. Len(b) -> Logic]
OBVIOUS

\* A value is cut or filled to a width.
LEMMA FitType ==
  ASSUME NEW m \in Nat, NEW b \in [1 .. m -> Logic], NEW n \in Nat
  PROVE  Fit(b, n) \in [1 .. n -> Logic]
<1>1. ASSUME NEW i \in 1 .. n PROVE At(b, i) \in Logic
  BY AtType
<1> QED BY <1>1 DEF Fit

\* What fits is left as it is.
LEMMA FitSame ==
  ASSUME NEW n \in Nat, NEW b \in [1 .. n -> Logic]
  PROVE  Fit(b, n) = b
<1>1. ASSUME NEW i \in 1 .. n PROVE At(b, i) = b[i]
  BY BitsLen DEF At
<1>2. Fit(b, n) = [i \in 1 .. n |-> b[i]]
  BY <1>1 DEF Fit
<1> QED BY <1>2

\* One bit that is unknown.
LEMMA UnknownType ==
  ASSUME NEW n \in Nat
  PROVE  Fit(<<DC>>, n) \in [1 .. n -> Logic]
<1>1. <<DC>> \in [1 .. 1 -> Logic]
  BY DEF Logic
<1> QED BY <1>1, FitType

\* The select [m:l] can be read and written: one index, or a part inside.
SelFits(d, m, l) ==
  /\ m \in Int /\ l \in Int
  /\ IsMemory(d) \/ m = None \/ m = l \/ Inside(d, m, l)

\* Where a part starts and ends.
LEMMA SpanType ==
  ASSUME NEW n \in Nat, NEW up \in BOOLEAN, NEW m \in Int, NEW l \in Int
  PROVE  /\ Span(n, up, m, l).first \in Int /\ Span(n, up, m, l).last \in Int
         /\ Span(n, up, m, l).first = (IF up THEN n - 1 - l ELSE l)
         /\ Span(n, up, m, l).last = (IF up THEN n - 1 - m ELSE m)
BY DEF Span

\* A part that is inside, or outside altogether, is bits.
LEMMA PartOfType ==
  ASSUME NEW n \in Nat, NEW b \in [1 .. n -> Logic], NEW span,
         span.first \in Int, span.last \in Int, NEW k \in Nat,
         span.first >= n \/ span.last < 0 \/ (0 <= span.first /\ span.last < n)
  PROVE  PartOf(b, span, k) \in [1 .. k -> Logic]
<1>1. Len(b) = n
  BY BitsLen
<1>2. ASSUME NEW i \in 1 .. k
      PROVE  (IF span.first >= Len(b) \/ span.last < 0 THEN DC
              ELSE IF i <= Length(span) THEN b[span.first + i] ELSE LO) \in Logic
  BY <1>1 DEF Logic, Length
<1> QED BY <1>2 DEF PartOf

\* So is what a net is after a part of it is replaced, wherever the part is.
LEMMA PartReplacedType ==
  ASSUME NEW n \in Nat, NEW b \in [1 .. n -> Logic], NEW span,
         span.first \in Int, span.last \in Int,
         NEW k \in Nat, NEW num \in [1 .. k -> Logic]
  PROVE  PartReplaced(b, span, num) \in [1 .. n -> Logic]
<1>1. ASSUME NEW i \in 1 .. n
      PROVE  (IF span.first < i /\ i <= span.last + 1
              THEN At(num, i - span.first) ELSE b[i]) \in Logic
  <2>1. CASE span.first < i
    <3>1. i - span.first \in Nat \ {0}
      BY <2>1
    <3> QED BY <3>1, AtType
  <2> QED BY <2>1
<1>2. DOMAIN b = 1 .. n
  OBVIOUS
<1> QED BY <1>1, <1>2 DEF PartReplaced

\* An index is an integer, whatever fits into one.
LEMMA SignedIndexType ==
  ASSUME NEW d, NEW n \in Nat \ {0}, NEW b \in [1 .. n -> Logic]
  PROVE  SignedIndex(d, b) \in Int
<1> DEFINE v == Vector(IF d.int THEN "signed" ELSE "unsigned", b)
           k == IF IndexBits > n THEN n ELSE IndexBits
           low == SubSeq(b, 1, k)
           val == ToBits(v, IndexBits).val
           rest == val % Below(IndexBits)
<1>1. v.bits = b /\ Width(v) = n
  BY BitsLen DEF Vector, Width
<1>2. k \in 0 .. n /\ k \in Nat /\ IndexBits - 1 \in Nat /\ IndexBits \in Nat
  BY IndexAssumption, LogicVectorAssumption
<1>3. Unsigned(low) \in Nat
  <2>1. b \in [1 .. n -> Nat]
    BY DEF Logic
  <2> HIDE DEF k
  <2>2. low \in [1 .. k -> Nat]
    BY <1>2, <2>1, PrefixType
  <2> QED BY <1>2, <2>2, UnsignedType
<1>4. /\ Below(DecimalBits) \in Nat /\ Below(n) \in Nat
      /\ Below(IndexBits) \in Nat \ {0} /\ Below(IndexBits - 1) \in Nat
  BY <1>2, LogicVectorAssumption, BelowProperties
<1>5. val \in Int
  <2>1. \/ val = 0 \/ val = Below(DecimalBits) - 1 \/ val = Unsigned(low)
        \/ val = Unsigned(low) + Below(DecimalBits) - Below(n)
    <3> HIDE DEF v
    <3> QED BY <1>1, Zenon DEF ToBits
  <2> HIDE DEF val, low
  <2> QED BY <1>3, <1>4, <2>1
<1>6. rest \in Int
  <2>1. \A p \in Nat \ {0} : \A x \in Int : x % p \in Int
    OBVIOUS
  <2> HIDE DEF val
  <2> QED BY <1>4, <1>5, <2>1, Zenon
<1>7. \/ SignedIndex(d, b) = None
      \/ SignedIndex(d, b) = rest - 0
      \/ SignedIndex(d, b) = rest - Below(IndexBits)
  BY Zenon DEF SignedIndex
<1> HIDE DEF rest
<1> QED BY <1>4, <1>6, <1>7 DEF None
-----------------------------------------------------------------------------
(***************************************************************************)
(* Reading.                                                                *)
(***************************************************************************)

NetsFit1(D) ==
  /\ IsFiniteSet(DOMAIN D) /\ Outwards(D)
  /\ \A n \in DOMAIN D : NetFits(D, n)

\* Each word of each net has its bits.
StoreTyped(D, st) ==
  \A n \in DOMAIN D :
    /\ \A w \in DOMAIN st[n] : st[n][w] \in [1 .. D[n].size -> Logic]
    /\ IF IsMemory(D[n]) THEN D[n].lo .. D[n].hi \subseteq DOMAIN st[n] ELSE DOMAIN st[n] = {0}

\* The number of nets bounds how far ports lead.
LEMMA LevelsType ==
  ASSUME NEW D, NetsFit1(D)
  PROVE  Cardinality(DOMAIN D) \in Nat /\ Levels(D) = 0 .. Cardinality(DOMAIN D)
BY FS_CardinalityType DEF NetsFit1, Levels

\* A net has a width.
LEMMA SizeType ==
  ASSUME NEW D, NetsFit1(D), NEW n \in DOMAIN D
  PROVE  /\ D[n].size \in Nat \ {0} /\ D[n].up \in BOOLEAN
         /\ IsMemory(D[n]) => D[n].lo \in Nat /\ D[n].hi \in Nat
         /\ D[n].port # NoNet => D[n].port \in DOMAIN D /\ ~IsMemory(D[D[n].port])
BY DEF NetsFit1, NetFits

\* The nets an inout port leads to.
LEMMA ThroughSteps ==
  ASSUME NEW D, NetsFit1(D), NEW n \in DOMAIN D
  PROVE  LET up == ThroughPorts(D, n)
             top == Cardinality(DOMAIN D)
         IN  /\ up \in [0 .. top -> DOMAIN D] /\ up[0] = n
             /\ \A k \in 1 .. top :
                  up[k] = IF Inward(D[up[k - 1]]) THEN D[up[k - 1]].port ELSE up[k - 1]
<1> DEFINE S == DOMAIN D
           top == Cardinality(DOMAIN D)
           G == [k \in 1 .. top |-> [x \in S |-> IF Inward(D[x]) THEN D[x].port ELSE x]]
           up == CHOOSE f : f = [k \in 0 .. top |->
                   IF k > 0 /\ Inward(D[f[k - 1]]) THEN D[f[k - 1]].port
                   ELSE IF k > 0 THEN f[k - 1] ELSE n]
<1>1. top \in Nat /\ Levels(D) = 0 .. top
  BY LevelsType
<1>2. ASSUME NEW x \in S PROVE (IF Inward(D[x]) THEN D[x].port ELSE x) \in S
  BY SizeType DEF Inward
<1>3. G \in [1 .. top -> [S -> S]]
  BY <1>2
<1>4. PICK f : Steps(f, top, S, n, G)
  <2> HIDE DEF G, S, top
  <2> QED BY <1>1, <1>3, Recursive DEF S
<1>5. f \in [0 .. top -> S] /\ f[0] = n /\ \A k \in 1 .. top : f[k] = G[k][f[k - 1]] /\ f[k - 1] \in S
  BY <1>1, <1>4 DEF Steps
<1>6. \A k \in 1 .. top : f[k] = IF Inward(D[f[k - 1]]) THEN D[f[k - 1]].port ELSE f[k - 1]
  BY <1>5
<1>7. f = [k \in 0 .. top |-> IF k > 0 /\ Inward(D[f[k - 1]]) THEN D[f[k - 1]].port
                              ELSE IF k > 0 THEN f[k - 1] ELSE n]
  <2> HIDE DEF G, S, top
  <2>1. ASSUME NEW k \in 0 .. top
        PROVE  f[k] = IF k > 0 /\ Inward(D[f[k - 1]]) THEN D[f[k - 1]].port
                      ELSE IF k > 0 THEN f[k - 1] ELSE n
    <3>1. CASE k = 0
      BY <1>5, <3>1
    <3>2. CASE k # 0
      <4>1. k \in 1 .. top /\ k > 0
        BY <1>1, <3>2
      <4> QED BY <4>1, <1>6
    <3> QED BY <3>1, <3>2
  <2>2. f = [k \in 0 .. top |-> f[k]]
    BY <1>5
  <2> QED BY <2>1, <2>2
<1>8. up = [k \in 0 .. top |-> IF k > 0 /\ Inward(D[up[k - 1]]) THEN D[up[k - 1]].port
                               ELSE IF k > 0 THEN up[k - 1] ELSE n]
  <2> HIDE DEF G, S, top
  <2> QED BY <1>7
<1>9. ThroughPorts(D, n) = up
  BY <1>1 DEF ThroughPorts
<1> HIDE DEF up, G
<1>10. up[0] = n
  BY <1>1, <1>8
<1>11. \A k \in 1 .. top : up[k] = IF Inward(D[up[k - 1]]) THEN D[up[k - 1]].port ELSE up[k - 1]
  BY <1>1, <1>8
<1>12. Steps(up, top, S, n, G)
  <2>1. FunctionOn(up, 0 .. top)
    BY <1>8 DEF FunctionOn
  <2>2. \A k \in 1 .. top : up[k - 1] \in S => up[k] = G[k][up[k - 1]]
    BY <1>11 DEF G
  <2> HIDE DEF S, top
  <2> QED BY <1>1, <1>3, <1>10, <2>1, <2>2, StepsOf DEF S
<1> QED BY <1>9, <1>10, <1>11, <1>12 DEF Steps

\* A net that is no such port leads to itself.
LEMMA ThroughNone ==
  ASSUME NEW D, NetsFit1(D), NEW n \in DOMAIN D, ~Inward(D[n])
  PROVE  \A k \in 0 .. Cardinality(DOMAIN D) : ThroughPorts(D, n)[k] = n
<1> DEFINE up == ThroughPorts(D, n)
           top == Cardinality(DOMAIN D)
           T == {k \in 0 .. top : up[k] = n}
<1>1. /\ top \in Nat /\ up[0] = n
      /\ \A k \in 1 .. top :
           up[k] = IF Inward(D[up[k - 1]]) THEN D[up[k - 1]].port ELSE up[k - 1]
  BY ThroughSteps, LevelsType
<1> HIDE DEF up, top
<1>2. 0 \in T
  BY <1>1
<1>3. \A k \in 1 .. top : k - 1 \in T => k \in T
  BY <1>1
<1>4. \A k \in 0 .. top : k \in T
  <2> HIDE DEF T
  <2> QED BY <1>1, <1>2, <1>3, InductUpTo
<1> QED BY <1>4 DEF up, top

\* How many ports there are on the way, and that one who has passed some has
\* come to a net that is no memory.
LEMMA DepthType ==
  ASSUME NEW D, NetsFit1(D), NEW n \in DOMAIN D
  PROVE  LET up == ThroughPorts(D, n)
         IN  /\ Depth(up) \in 0 .. Cardinality(DOMAIN D)
             /\ Depth(up) # 0 => Inward(D[n]) /\ ~IsMemory(D[up[Depth(up)]])
             /\ ~Inward(D[n]) => Depth(up) = 0
<1> DEFINE up == ThroughPorts(D, n)
           top == Cardinality(DOMAIN D)
           T == {k \in DOMAIN up : k = 0 \/ up[k] # up[k - 1]}
<1>1. /\ top \in Nat /\ up \in [0 .. top -> DOMAIN D] /\ up[0] = n
      /\ \A k \in 1 .. top :
           up[k] = IF Inward(D[up[k - 1]]) THEN D[up[k - 1]].port ELSE up[k - 1]
  BY ThroughSteps, LevelsType
<1>2. ~Inward(D[n]) => \A k \in 0 .. top : up[k] = n
  BY ThroughNone
<1>3. Depth(up) = Last(T)
  BY DEF Depth
<1> HIDE DEF up, top
<1>4. T \subseteq 0 .. top /\ 0 \in T
  BY <1>1
<1>5. PICK m \in T : \A j \in T : j <= m
  <2> DEFINE U == {j + 1 : j \in T}
             N == top + 1
  <2>1. U \subseteq 1 .. N /\ U # {}
    <3>1. \A j \in T : j \in 0 .. top
      BY <1>4
    <3> HIDE DEF T
    <3> QED BY <1>1, <1>4, <3>1
  <2>2. N \in Nat
    BY <1>1
  <2> HIDE DEF U, T, N
  <2>3. Last(U) \in U /\ \A j \in U : j <= Last(U)
    BY <2>1, <2>2, LastOf
  <2> DEFINE last == Last(U)
  <2> HIDE DEF last
  <2>4. last \in U /\ \A j \in U : j <= last
    BY <2>3 DEF last
  <2>5. PICK m \in T : last = m + 1
    BY <2>4 DEF U
  <2>6. \A j \in T : j + 1 \in U /\ j \in Int
    BY <1>4 DEF U
  <2>7. \A j \in T : j <= m
    BY <2>4, <2>5, <2>6
  <2> QED BY <2>7
<1>6. Last(T) \in T /\ \A j \in T : j <= Last(T)
  BY <1>5 DEF Last
<1>7. Last(T) \in 0 .. top
  BY <1>4, <1>6
<1>8. ASSUME Last(T) # 0 PROVE Inward(D[n]) /\ ~IsMemory(D[up[Last(T)]])
  <2> DEFINE d == Last(T)
  <2>1. d \in 1 .. top /\ up[d] # up[d - 1] /\ d - 1 \in 0 .. top
    BY <1>1, <1>4, <1>6, <1>8
  <2> HIDE DEF d
  <2>2. Inward(D[up[d - 1]]) /\ up[d] = D[up[d - 1]].port
    BY <1>1, <2>1
  <2>3. ~IsMemory(D[up[d]])
    <3>1. up[d - 1] \in DOMAIN D /\ D[up[d - 1]].port # NoNet
      BY <1>1, <2>1, <2>2 DEF Inward
    <3> QED BY <3>1, <2>2, SizeType
  <2>4. Inward(D[n])
    BY <1>1, <1>2, <2>1
  <2> QED BY <2>3, <2>4 DEF d
<1>9. ASSUME ~Inward(D[n]) PROVE Last(T) = 0
  BY <1>8, <1>9
<1> QED BY <1>3, <1>7, <1>8, <1>9 DEF up, top

\* What is seen in one net.
LEMMA SeenInType ==
  ASSUME NEW D, NetsFit1(D), NEW st, StoreTyped(D, st), NEW n \in DOMAIN D,
         NEW m, NEW l, SelFits(D[n], m, l)
  PROVE  SeenIn(D[n], st[n], m, l) \in [1 .. D[n].size -> Logic]
<1> DEFINE size == D[n].size
           span == Span(size, D[n].up, m, l)
           words == st[n]
<1>1. /\ size \in Nat \ {0} /\ D[n].up \in BOOLEAN
      /\ IsMemory(D[n]) => D[n].lo \in Nat /\ D[n].hi \in Nat
  BY SizeType
<1>2. m \in Int /\ l \in Int /\ (IsMemory(D[n]) \/ m = None \/ m = l \/ Inside(D[n], m, l))
  BY DEF SelFits
<1>3. /\ \A w \in DOMAIN words : words[w] \in [1 .. size -> Logic]
      /\ IF IsMemory(D[n]) THEN D[n].lo .. D[n].hi \subseteq DOMAIN words ELSE DOMAIN words = {0}
  BY DEF StoreTyped
<1>4. CASE IsMemory(D[n])
  <2>1. CASE m < D[n].lo \/ m > D[n].hi
    <3>1. SeenIn(D[n], words, m, l) = Fit(<<DC>>, size)
      BY <1>4, <2>1 DEF SeenIn
    <3> QED BY <3>1, <1>1, UnknownType
  <2>2. CASE ~(m < D[n].lo \/ m > D[n].hi)
    <3>1. m \in DOMAIN words
      BY <1>1, <1>2, <1>3, <1>4, <2>2
    <3>2. SeenIn(D[n], words, m, l) = words[m]
      BY <1>4, <2>2 DEF SeenIn
    <3> QED BY <3>1, <3>2, <1>3
  <2> QED BY <2>1, <2>2
<1>5. CASE ~IsMemory(D[n])
  <2>1. words[0] \in [1 .. size -> Logic]
    BY <1>3, <1>5
  <2>2. CASE m = None
    <3>1. SeenIn(D[n], words, m, l) = words[0]
      BY <1>5, <2>2 DEF SeenIn
    <3> QED BY <3>1, <2>1
  <2>3. CASE m # None
    <3>1. SeenIn(D[n], words, m, l) = PartOf(words[0], span, size)
      BY <1>5, <2>3 DEF SeenIn
    <3>2. span.first \in Int /\ span.last \in Int
      BY <1>1, <1>2, SpanType
    <3>3. span.first >= size \/ span.last < 0 \/ (0 <= span.first /\ span.last < size)
      <4>1. CASE m = l
        <5>1. span.first = span.last
          BY <4>1, <1>1, <1>2, SpanType
        <5> HIDE DEF span, size
        <5> QED BY <5>1, <3>2, <1>1
      <4>2. CASE Inside(D[n], m, l)
        BY <4>2 DEF Inside
      <4> QED BY <4>1, <4>2, <1>2, <1>5, <2>3
    <3> HIDE DEF span, size, words
    <3>4. PartOf(words[0], span, size) \in [1 .. size -> Logic]
      BY <3>2, <3>3, <2>1, <1>1, PartOfType
    <3> QED BY <3>1, <3>4 DEF words, size
  <2> QED BY <2>2, <2>3
<1> QED BY <1>4, <1>5

\* What is seen through ports.
LEMMA EvaluatedType ==
  ASSUME NEW D, NetsFit1(D), NEW st, StoreTyped(D, st), NEW n \in DOMAIN D,
         NEW m, NEW l, SelFits(D[n], m, l)
  PROVE  Evaluated(D, st, n, m, l) \in [1 .. D[n].size -> Logic]
<1> DEFINE up == ThroughPorts(D, n)
           top == Cardinality(DOMAIN D)
           depth == Depth(up)
           last == up[depth]
           S == UNION {[1 .. k -> Logic] : k \in Nat \ {0}}
           first == IF depth > 0 /\ ~IsMemory(D[last])
                    THEN SeenIn(D[last], st[last], D[up[0]].pms, D[up[0]].pls)
                    ELSE SeenIn(D[last], st[last], m, l)
           G == [k \in 1 .. depth |-> [x \in S |-> Fit(x, D[up[depth - k]].size)]]
           result == CHOOSE f : f = [k \in 0 .. depth |->
                       IF k > 0 THEN Fit(f[k - 1], D[up[depth - k]].size)
                       ELSE IF depth > 0 /\ ~IsMemory(D[last])
                       THEN SeenIn(D[last], st[last], D[up[0]].pms, D[up[0]].pls)
                       ELSE SeenIn(D[last], st[last], m, l)]
<1>1. /\ top \in Nat /\ up \in [0 .. top -> DOMAIN D] /\ up[0] = n
  BY ThroughSteps, LevelsType
<1>2. /\ depth \in 0 .. top
      /\ depth # 0 => Inward(D[n]) /\ ~IsMemory(D[last])
  BY DepthType
<1>3. depth \in Nat /\ last \in DOMAIN D
  BY <1>1, <1>2
<1>4. first \in [1 .. D[last].size -> Logic]
  <2>1. CASE depth = 0
    <3>1. last = n /\ first = SeenIn(D[n], st[n], m, l)
      BY <2>1, <1>1
    <3> QED BY <3>1, SeenInType
  <2>2. CASE depth # 0
    <3>1. Inward(D[n]) /\ ~IsMemory(D[last]) /\ depth > 0
      BY <2>2, <1>2, <1>3
    <3>2. D[n].port # NoNet
      BY <3>1 DEF Inward
    <3>3. /\ IF D[n].pms = None THEN D[n].pls = None ELSE D[n].pms \in Nat /\ D[n].pls \in Nat
          /\ D[n].pms # None => Inside(D[last], D[n].pms, D[n].pls)
      BY <3>1, <3>2 DEF NetsFit1, NetFits
    <3>4. SelFits(D[last], D[n].pms, D[n].pls)
      BY <3>3 DEF SelFits, None
    <3>5. SeenIn(D[last], st[last], D[n].pms, D[n].pls) \in [1 .. D[last].size -> Logic]
      BY <3>4, <1>3, SeenInType
    <3>6. first = SeenIn(D[last], st[last], D[n].pms, D[n].pls)
      BY <3>1, <1>1
    <3> QED BY <3>5, <3>6
  <2> QED BY <2>1, <2>2
<1>5. first \in S
  BY <1>3, <1>4, SizeType
<1>6. ASSUME NEW x \in S, NEW i \in DOMAIN D
      PROVE  Fit(x, D[i].size) \in [1 .. D[i].size -> Logic] /\ Fit(x, D[i].size) \in S
  <2>1. PICK k \in Nat : x \in [1 .. k -> Logic]
    BY <1>6
  <2>2. D[i].size \in Nat \ {0}
    BY SizeType
  <2>3. Fit(x, D[i].size) \in [1 .. D[i].size -> Logic]
    BY <2>1, <2>2, FitType
  <2> QED BY <2>2, <2>3
<1>7. \A k \in 1 .. depth : up[depth - k] \in DOMAIN D
  BY <1>1, <1>2
<1> HIDE DEF S, first
<1>8. G \in [1 .. depth -> [S -> S]]
  BY <1>6, <1>7
<1>9. PICK f : Steps(f, depth, S, first, G)
  <2> HIDE DEF G, depth
  <2> QED BY <1>3, <1>5, <1>8, Recursive
<1>10. /\ f \in [0 .. depth -> S] /\ f[0] = first
       /\ \A k \in 1 .. depth : f[k - 1] \in S /\ f[k] = Fit(f[k - 1], D[up[depth - k]].size)
  <2>1. /\ f \in [0 .. depth -> S] /\ f[0] = first
        /\ \A k \in 1 .. depth : f[k] = G[k][f[k - 1]]
    BY <1>9 DEF Steps
  <2>2. \A k \in 1 .. depth : f[k - 1] \in S
    BY <2>1, <1>3
  <2> QED BY <2>1, <2>2
<1>11. f = [k \in 0 .. depth |->
              IF k > 0 THEN Fit(f[k - 1], D[up[depth - k]].size)
              ELSE IF depth > 0 /\ ~IsMemory(D[last])
              THEN SeenIn(D[last], st[last], D[up[0]].pms, D[up[0]].pls)
              ELSE SeenIn(D[last], st[last], m, l)]
  <2> HIDE DEF G, depth, last
  <2>1. \A k \in 0 .. depth : f[k] = IF k > 0 THEN Fit(f[k - 1], D[up[depth - k]].size) ELSE first
    BY <1>3, <1>10
  <2>2. f = [k \in 0 .. depth |-> f[k]]
    BY <1>10
  <2> QED BY <2>1, <2>2 DEF first
<1>12. result = [k \in 0 .. depth |->
                   IF k > 0 THEN Fit(result[k - 1], D[up[depth - k]].size)
                   ELSE IF depth > 0 /\ ~IsMemory(D[last])
                   THEN SeenIn(D[last], st[last], D[up[0]].pms, D[up[0]].pls)
                   ELSE SeenIn(D[last], st[last], m, l)]
  <2> HIDE DEF G, depth, last
  <2> QED BY <1>11
<1>13. Evaluated(D, st, n, m, l) = result[depth]
  BY DEF Evaluated, SeenThrough, SeenAt
<1> HIDE DEF result, G, up, top
<1>14. /\ result[0] = first
       /\ \A k \in 1 .. depth : result[k] = Fit(result[k - 1], D[up[depth - k]].size)
  BY <1>3, <1>12 DEF first
<1>15. Steps(result, depth, S, first, G)
  <2>1. FunctionOn(result, 0 .. depth)
    BY <1>12 DEF FunctionOn
  <2>2. \A k \in 1 .. depth : result[k - 1] \in S => result[k] = G[k][result[k - 1]]
    BY <1>14 DEF G
  <2> HIDE DEF depth
  <2> QED BY <1>3, <1>5, <1>8, <1>14, <2>1, <2>2, StepsOf
<1>16. CASE depth = 0
  <2>1. last = n /\ result[depth] = first
    BY <1>16, <1>1, <1>14
  <2> QED BY <2>1, <1>4, <1>13
<1>17. CASE depth # 0
  <2>1. depth \in 1 .. depth /\ depth - depth = 0 /\ depth - 1 \in 0 .. depth
    BY <1>3, <1>17
  <2>2. result[depth] = Fit(result[depth - 1], D[up[0]].size)
    BY <2>1, <1>14
  <2>3. result[depth - 1] \in S
    BY <2>1, <1>15 DEF Steps
  <2> QED BY <2>2, <2>3, <1>1, <1>6, <1>13
<1> QED BY <1>16, <1>17

\* A net that is no such port shows what it holds.
LEMMA EvaluatedHere ==
  ASSUME NEW D, NetsFit1(D), NEW st, NEW n \in DOMAIN D, ~Inward(D[n]), NEW m, NEW l
  PROVE  Evaluated(D, st, n, m, l) = SeenIn(D[n], st[n], m, l)
<1> DEFINE up == ThroughPorts(D, n)
           result == CHOOSE f : f = [k \in 0 .. 0 |->
                       IF k > 0 THEN Fit(f[k - 1], D[up[0 - k]].size)
                       ELSE IF 0 > 0 /\ ~IsMemory(D[up[0]])
                       THEN SeenIn(D[up[0]], st[up[0]], D[up[0]].pms, D[up[0]].pls)
                       ELSE SeenIn(D[up[0]], st[up[0]], m, l)]
           f0 == [k \in 0 .. 0 |-> SeenIn(D[n], st[n], m, l)]
<1>1. Depth(up) = 0 /\ up[0] = n
  BY DepthType, ThroughSteps
<1>2. Evaluated(D, st, n, m, l) = SeenAt(D, st, up, 0, m, l)
  BY <1>1 DEF Evaluated, SeenThrough
<1>3. SeenAt(D, st, up, 0, m, l) = result[0]
  BY DEF SeenAt
<1> HIDE DEF up
<1>4. f0 = [k \in 0 .. 0 |->
              IF k > 0 THEN Fit(f0[k - 1], D[up[0 - k]].size)
              ELSE IF 0 > 0 /\ ~IsMemory(D[up[0]])
              THEN SeenIn(D[up[0]], st[up[0]], D[up[0]].pms, D[up[0]].pls)
              ELSE SeenIn(D[up[0]], st[up[0]], m, l)]
  BY <1>1
<1>5. result = [k \in 0 .. 0 |->
              IF k > 0 THEN Fit(result[k - 1], D[up[0 - k]].size)
              ELSE IF 0 > 0 /\ ~IsMemory(D[up[0]])
              THEN SeenIn(D[up[0]], st[up[0]], D[up[0]].pms, D[up[0]].pls)
              ELSE SeenIn(D[up[0]], st[up[0]], m, l)]
  <2> HIDE DEF f0
  <2> QED BY <1>4
<1> HIDE DEF result
<1>6. result[0] = SeenIn(D[n], st[n], m, l)
  BY <1>1, <1>5
<1> QED BY <1>2, <1>3, <1>6

\* A select comes to something that can be read and written.
LEMMA SelectedType ==
  ASSUME NEW D, NetsFit1(D), NEW st, StoreTyped(D, st), NEW x, NameFits(D, x)
  PROVE  LET t == Selected(D, st, x.sel) IN SelFits(D[x.net], t.m, t.l)
<1> DEFINE sel == x.sel
<1>1. /\ sel.at \in {"none", "bit", "part"}
      /\ sel.at = "bit" => sel.of \in DOMAIN D
      /\ sel.at = "part" => /\ sel.ms \in Nat /\ sel.ls \in Nat
                            /\ IsMemory(D[x.net]) \/ Inside(D[x.net], sel.ms, sel.ls)
  BY DEF NameFits
<1>2. CASE sel.at = "none"
  BY <1>2 DEF Selected, SelFits, None
<1>3. CASE sel.at = "part"
  BY <1>1, <1>3 DEF Selected, SelFits
<1>4. CASE sel.at = "bit"
  <2> DEFINE of == sel.of
             seen == Evaluated(D, st, of, None, None)
             index == SignedIndex(D[of], seen)
  <2>1. of \in DOMAIN D
    BY <1>1, <1>4
  <2>2. SelFits(D[of], None, None)
    BY DEF SelFits, None
  <2> HIDE DEF of, sel
  <2>3. seen \in [1 .. D[of].size -> Logic] /\ D[of].size \in Nat \ {0}
    BY <2>1, <2>2, EvaluatedType, SizeType
  <2>4. index \in Int
    BY <2>3, SignedIndexType
  <2>5. Selected(D, st, sel) = [m |-> index, l |-> index]
    BY <1>4 DEF Selected, of
  <2> QED BY <2>4, <2>5 DEF SelFits, sel
<1> QED BY <1>1, <1>2, <1>3, <1>4

\* The width of a name.
LEMMA WidthType ==
  ASSUME NEW D, NetsFit1(D), NEW x, NameFits(D, x)
  PROVE  WidthOf(D, x) \in Nat \ {0}
BY SizeType DEF NameFits, WidthOf, PartWidth

\* Reading a name gives as many bits.
LEMMA ReadType ==
  ASSUME NEW D, NetsFit1(D), NEW st, StoreTyped(D, st), NEW x, NameFits(D, x)
  PROVE  Read(D, st, x) \in [1 .. WidthOf(D, x) -> Logic]
<1> DEFINE t == Selected(D, st, x.sel)
           w == WidthOf(D, x)
<1>1. SelFits(D[x.net], t.m, t.l)
  BY SelectedType
<1>2. x.net \in DOMAIN D
  BY DEF NameFits
<1>3. w \in Nat
  BY WidthType
<1> HIDE DEF t, w
<1>4. Evaluated(D, st, x.net, t.m, t.l) \in [1 .. D[x.net].size -> Logic]
  BY <1>1, <1>2, EvaluatedType
<1>5. D[x.net].size \in Nat
  BY <1>2, SizeType
<1>6. Read(D, st, x) =
        Fit(IF x.sel.at # "none" /\ t.m = None THEN <<DC>>
            ELSE Evaluated(D, st, x.net, t.m, t.l), w)
  BY DEF Read, ReadAt, t, w
<1>7. Fit(<<DC>>, w) \in [1 .. w -> Logic]
  BY <1>3, UnknownType
<1>8. Fit(Evaluated(D, st, x.net, t.m, t.l), w) \in [1 .. w -> Logic]
  BY <1>3, <1>4, <1>5, FitType
<1> QED BY <1>6, <1>7, <1>8 DEF w

\* An expression without a condition.
LEMMA SimpleType ==
  ASSUME NEW D, NetsFit1(D), NEW st, StoreTyped(D, st), NEW e, SimpleFits(D, e)
  PROVE  /\ SimpleWidth(D, e) \in Nat \ {0}
         /\ Simple(D, st, e) \in [1 .. SimpleWidth(D, e) -> Logic]
<1>1. CASE e.op = "number"
  <2>1. e.bits \in Seq(Logic) /\ e.bits # <<>> /\ Simple(D, st, e) = e.bits
        /\ SimpleWidth(D, e) = Len(e.bits)
    BY <1>1 DEF SimpleFits, Simple, SimpleWidth
  <2> QED BY <2>1, SeqBits
<1>2. CASE e.op # "number"
  <2> DEFINE w == WidthOf(D, e.x)
             r == Read(D, st, e.x)
  <2>1. NameFits(D, e.x) /\ SimpleWidth(D, e) = w
    BY <1>2 DEF SimpleFits, ValueFits, SimpleWidth
  <2>2. w \in Nat \ {0} /\ r \in [1 .. w -> Logic]
    BY <2>1, WidthType, ReadType
  <2>3. Simple(D, st, e) = IF e.op = "not" THEN UnaryInv(w, r) ELSE r
    BY <1>2 DEF Simple
  <2> HIDE DEF w, r
  <2>4. UnaryInv(w, r) \in [1 .. w -> Logic]
    BY <2>2, InvType, AtType DEF UnaryInv
  <2> QED BY <2>1, <2>2, <2>3, <2>4
<1> QED BY <1>1, <1>2

\* An expression has the bits its width says.
LEMMA ValueType ==
  ASSUME NEW D, NetsFit1(D), NEW st, StoreTyped(D, st), NEW e, ExprFits(D, e)
  PROVE  /\ ExprWidth(D, e) \in Nat \ {0}
         /\ Value(D, st, e) \in [1 .. ExprWidth(D, e) -> Logic]
<1>1. CASE e.op # "if"
  BY <1>1, SimpleType DEF ExprFits, ExprWidth, Value
<1>2. CASE e.op = "if"
  <2> DEFINE t == Simple(D, st, e.then)
             f == Simple(D, st, e.else)
             tw == SimpleWidth(D, e.then)
             fw == SimpleWidth(D, e.else)
             c == IsLess(OfLogic(LO), Vector("unsigned", Read(D, st, e.x)))
             n == IF tw > fw THEN tw ELSE fw
  <2>1. SimpleFits(D, e.then) /\ SimpleFits(D, e.else)
    BY <1>2 DEF ExprFits
  <2>2. tw \in Nat \ {0} /\ fw \in Nat \ {0} /\ t \in [1 .. tw -> Logic] /\ f \in [1 .. fw -> Logic]
    BY <2>1, SimpleType
  <2>3. ExprWidth(D, e) = n /\ Value(D, st, e) = Conditional(c, t, f)
    BY <1>2 DEF ExprWidth, Value
  <2> HIDE DEF t, f, tw, fw, c
  <2>4. Len(t) = tw /\ Len(f) = fw /\ n \in Nat \ {0}
    BY <2>2, BitsLen
  <2>5. Conditional(c, t, f) = Branches(n, c, t, f)
    BY <2>4 DEF Conditional
  <2>6. ASSUME NEW k \in 1 .. n
        PROVE  /\ At(f, k) \in Logic /\ At(t, k) \in Logic
               /\ Ternary(At(t, k), At(f, k)) \in Logic
    <3>1. At(f, k) \in Logic /\ At(t, k) \in Logic
      BY <2>2, <2>4, AtType
    <3> QED BY <3>1 DEF Ternary, Logic
  <2> HIDE DEF n
  <2>7. Branches(n, c, t, f) \in [1 .. n -> Logic]
    BY <2>6 DEF Branches
  <2> QED BY <2>3, <2>4, <2>5, <2>7
<1> QED BY <1>1, <1>2
-----------------------------------------------------------------------------
(***************************************************************************)
(* Writing.                                                                *)
(***************************************************************************)

\* What all nets may hold.
Stores(g) ==
  {st \in [DOMAIN g.nets -> UNION {Words(g, n) : n \in DOMAIN g.nets}] : StoreFits(g, st)}

\* A design that setup lets through has nets that can be read.
LEMMA DesignNets ==
  ASSUME NEW g, DesignFits(g)
  PROVE  NetsFit1(g.nets)
BY DEF DesignFits, NetsFit1

\* Stores are what fits.
LEMMA StoresFit ==
  ASSUME NEW g, NEW st
  PROVE  st \in Stores(g) <=> StoreFits(g, st)
<1> SUFFICES ASSUME StoreFits(g, st)
             PROVE  st \in [DOMAIN g.nets -> UNION {Words(g, n) : n \in DOMAIN g.nets}]
  BY DEF Stores
<1>1. \A n \in DOMAIN g.nets : st[n] \in UNION {Words(g, m) : m \in DOMAIN g.nets}
  BY DEF StoreFits
<1>2. st = [n \in DOMAIN g.nets |-> st[n]]
  BY DEF StoreFits
<1> QED BY <1>1, <1>2

\* And have the words and the bits that reading needs.
LEMMA StoreIsTyped ==
  ASSUME NEW g, DesignFits(g), NEW st, StoreFits(g, st)
  PROVE  StoreTyped(g.nets, st)
<1> SUFFICES ASSUME NEW n \in DOMAIN g.nets
             PROVE  /\ \A w \in DOMAIN st[n] : st[n][w] \in [1 .. g.nets[n].size -> Logic]
                    /\ IF IsMemory(g.nets[n]) THEN g.nets[n].lo .. g.nets[n].hi \subseteq DOMAIN st[n]
                       ELSE DOMAIN st[n] = {0}
  BY DEF StoreTyped
<1>1. st[n] \in [DOMAIN g.init[n] -> [1 .. g.nets[n].size -> Logic]]
  BY DEF StoreFits, Words
<1>2. IF IsMemory(g.nets[n]) THEN g.nets[n].lo .. g.nets[n].hi \subseteq DOMAIN g.init[n]
      ELSE DOMAIN g.init[n] = {0}
  BY DEF DesignFits
<1>3. DOMAIN st[n] = DOMAIN g.init[n]
  BY <1>1
<1> QED BY <1>1, <1>2, <1>3

\* The part of a value that is stored.
SliceFits(num, ms, ls) ==
  ms = None \/ (ms \in Nat /\ ls \in 0 .. ms /\ ms < Len(num))

\* It is bits.
LEMMA SliceType ==
  ASSUME NEW num \in Seq(Logic), NEW ms, NEW ls, SliceFits(num, ms, ls)
  PROVE  Slice(num, ms, ls) \in Seq(Logic)
<1> DEFINE n == Len(num)
           span == Span(n, FALSE, ms, ls)
           k == ms - ls + 1
<1>1. n \in Nat /\ num \in [1 .. n -> Logic]
  OBVIOUS
<1>2. CASE ms = None
  BY <1>2 DEF Slice
<1>3. CASE ms # None
  <2>1. ms \in Nat /\ ls \in 0 .. ms /\ ms < n /\ k \in Nat
    BY <1>3 DEF SliceFits
  <2>2. span.first = ls /\ span.last = ms
    BY DEF Span
  <2>3. Slice(num, ms, ls) = PartOf(num, span, k)
    BY <1>3 DEF Slice
  <2> HIDE DEF n, span, k
  <2>4. PartOf(num, span, k) \in [1 .. k -> Logic]
    BY <1>1, <2>1, <2>2, PartOfType
  <2> QED BY <2>1, <2>3, <2>4, BitsLen
<1> QED BY <1>2, <1>3

\* What Write stores, where, and that nothing else moves.
WriteDoes(g, st, n, m, w) ==
  /\ w.net = n /\ w.changed \in BOOLEAN
  /\ w.before \in Seq(Logic) /\ w.after \in Seq(Logic)
  /\ StoreFits(g, w.st)
  /\ \A o \in DOMAIN g.nets : o # n => w.st[o] = st[o]
  /\ \A k \in DOMAIN st[n] :
       k # (IF IsMemory(g.nets[n]) THEN m ELSE 0) => w.st[n][k] = st[n][k]
  /\ w.changed <=> w.st[n] # st[n]

\* The bits that are there after a write: all of them, a part, or none when the
\* index is that of no place.
LEMMA AfterType ==
  ASSUME NEW size \in Nat, NEW up \in BOOLEAN, NEW before \in [1 .. size -> Logic],
         NEW num \in Seq(Logic), NEW ms, NEW ls, SliceFits(num, ms, ls),
         NEW m \in Int, NEW l \in Int, NEW memory \in BOOLEAN
  PROVE  (IF m < None \/ l < None THEN before
          ELSE IF ~memory /\ m # None
          THEN PartReplaced(before, Span(size, up, m, l), Slice(num, ms, ls))
          ELSE Fit(Slice(num, ms, ls), size)) \in [1 .. size -> Logic]
<1> DEFINE s == Slice(num, ms, ls)
           k == Len(s)
           span == Span(size, up, m, l)
<1>1. k \in Nat /\ s \in [1 .. k -> Logic]
  <2>1. s \in Seq(Logic)
    BY SliceType
  <2> HIDE DEF s
  <2> QED BY <2>1
<1>2. span.first \in Int /\ span.last \in Int
  BY SpanType
<1> HIDE DEF s, k, span
<1>3. PartReplaced(before, span, s) \in [1 .. size -> Logic]
  BY <1>1, <1>2, PartReplacedType
<1>4. Fit(s, size) \in [1 .. size -> Logic]
  BY <1>1, FitType
<1> QED BY <1>3, <1>4 DEF s, span

\* One net is written.
LEMMA WriteType ==
  ASSUME NEW g, DesignFits(g), NEW st, StoreFits(g, st), NEW n \in DOMAIN g.nets,
         NEW num \in Seq(Logic), NEW ms, NEW ls, SliceFits(num, ms, ls),
         NEW m \in Int, NEW l \in Int
  PROVE  WriteDoes(g, st, n, m, Write(g.nets, st, n, num, ms, ls, m, l))
<1> DEFINE d == g.nets[n]
           lost == IsMemory(d) /\ (m > d.hi \/ m < d.lo)
           w == IF IsMemory(d) THEN m ELSE 0
           after == IF m < None \/ l < None THEN st[n][w]
                    ELSE IF ~IsMemory(d) /\ m # None
                    THEN PartReplaced(st[n][w], Span(d.size, d.up, m, l), Slice(num, ms, ls))
                    ELSE Fit(Slice(num, ms, ls), d.size)
           out == Write(g.nets, st, n, num, ms, ls, m, l)
<1>1. /\ d.size \in Nat \ {0} /\ d.up \in BOOLEAN
      /\ IsMemory(d) => d.lo \in Nat /\ d.hi \in Nat
  BY DesignNets, SizeType
<1>2. /\ st = [o \in DOMAIN g.nets |-> st[o]]
      /\ \A o \in DOMAIN g.nets : st[o] \in Words(g, o)
      /\ st[n] \in [DOMAIN g.init[n] -> [1 .. d.size -> Logic]]
  BY DEF StoreFits, Words
<1>3. CASE lost
  <2>1. out = [net |-> n, before |-> <<>>, after |-> <<>>, changed |-> FALSE, st |-> st]
    BY <1>3 DEF Write
  <2> QED BY <2>1 DEF WriteDoes
<1>4. CASE ~lost
  <2>1. out = [net |-> n, before |-> st[n][w], after |-> after, changed |-> st[n][w] # after,
               st |-> [st EXCEPT ![n][w] = after]]
    BY <1>4, Zenon DEF Write
  <2>2. w \in DOMAIN st[n] /\ w \in DOMAIN g.init[n]
    <3>1. IF IsMemory(d) THEN d.lo .. d.hi \subseteq DOMAIN g.init[n] ELSE DOMAIN g.init[n] = {0}
      BY DEF DesignFits
    <3> HIDE DEF d
    <3> QED BY <3>1, <1>1, <1>2, <1>4
  <2>3. st[n][w] \in [1 .. d.size -> Logic]
    BY <1>2, <2>2
  <2>4. after \in [1 .. d.size -> Logic]
    <3> DEFINE before == st[n][w]
               size == d.size
               up == d.up
               memory == IsMemory(d)
    <3>1. before \in [1 .. size -> Logic] /\ memory \in BOOLEAN /\ size \in Nat /\ up \in BOOLEAN
      BY <1>1, <2>3 DEF IsMemory
    <3> HIDE DEF before, size, up, memory
    <3>2. (IF m < None \/ l < None THEN before
           ELSE IF ~memory /\ m # None
           THEN PartReplaced(before, Span(size, up, m, l), Slice(num, ms, ls))
           ELSE Fit(Slice(num, ms, ls), size)) \in [1 .. size -> Logic]
      BY <3>1, AfterType
    <3> QED BY <3>2 DEF before, size, up, memory
  <2> DEFINE new == [st EXCEPT ![n][w] = after]
  <2> HIDE DEF after, w
  <2>5. /\ new = [o \in DOMAIN g.nets |-> new[o]]
        /\ \A o \in DOMAIN g.nets : o # n => new[o] = st[o]
        /\ new[n] = [st[n] EXCEPT ![w] = after]
    BY <1>2
  <2>6. new[n] \in Words(g, n)
    BY <1>2, <2>2, <2>4, <2>5 DEF Words
  <2>7. StoreFits(g, new)
    BY <1>2, <2>5, <2>6 DEF StoreFits
  <2>8. st[n][w] # after <=> new[n] # st[n]
    BY <1>2, <2>2, <2>5
  <2>9. \A k \in DOMAIN st[n] : k # w => new[n][k] = st[n][k]
    BY <2>5
  <2>10. st[n][w] \in Seq(Logic) /\ after \in Seq(Logic)
    BY <2>3, <2>4, <1>1, BitsLen
  <2> HIDE DEF new
  <2>11. /\ out.net = n /\ out.before = st[n][w] /\ out.after = after
         /\ out.changed = (st[n][w] # after) /\ out.st = new
    BY <2>1 DEF new
  <2>12. \A k \in DOMAIN st[n] : k # (IF IsMemory(g.nets[n]) THEN m ELSE 0) => out.st[n][k] = st[n][k]
    BY <2>9, <2>11 DEF w
  <2>13. out.changed \in BOOLEAN /\ (out.changed <=> out.st[n] # st[n])
    BY <2>8, <2>11
  <2> HIDE DEF out
  <2>14. WriteDoes(g, st, n, m, out)
    BY <2>5, <2>7, <2>10, <2>11, <2>12, <2>13 DEF WriteDoes
  <2> QED BY <2>14 DEF out
<1> QED BY <1>3, <1>4

Climbs(g) == [net : DOMAIN g.nets, before : Seq(Logic), after : Seq(Logic),
              changed : BOOLEAN, st : Stores(g)]

\* One step outwards.
ClimbStep(g, p) ==
  IF p.changed /\ Outward(g.nets[p.net])
  THEN Write(g.nets, p.st, g.nets[p.net].port, p.after, None, None,
             g.nets[p.net].pms, g.nets[p.net].pls)
  ELSE [p EXCEPT !.changed = FALSE]

\* What is written is an entry of the way outwards.
LEMMA WriteEntry ==
  ASSUME NEW g, DesignFits(g), NEW st, StoreFits(g, st), NEW n \in DOMAIN g.nets,
         NEW num \in Seq(Logic), NEW ms, NEW ls, SliceFits(num, ms, ls),
         NEW m \in Int, NEW l \in Int
  PROVE  Write(g.nets, st, n, num, ms, ls, m, l) \in Climbs(g)
<1> DEFINE w == Write(g.nets, st, n, num, ms, ls, m, l)
<1>1. w = [net |-> w.net, before |-> w.before, after |-> w.after, changed |-> w.changed, st |-> w.st]
  BY DEF Write
<1>2. WriteDoes(g, st, n, m, w)
  BY WriteType
<1> HIDE DEF w
<1>3. w.st \in Stores(g)
  BY <1>2, StoresFit DEF WriteDoes
<1>4. w.net \in DOMAIN g.nets /\ w.before \in Seq(Logic) /\ w.after \in Seq(Logic) /\ w.changed \in BOOLEAN
  BY <1>2 DEF WriteDoes
<1> QED BY <1>1, <1>3, <1>4 DEF Climbs, w

\* A port and what it is connected to.
LEMMA PortType ==
  ASSUME NEW g, DesignFits(g), NEW n \in DOMAIN g.nets, Outward(g.nets[n])
  PROVE  LET d == g.nets[n]
         IN  d.port \in DOMAIN g.nets /\ d.pms \in Int /\ d.pls \in Int /\ ~IsMemory(g.nets[d.port])
BY DEF DesignFits, NetFits, Outward, None

\* A step outwards leads to such an entry.
LEMMA ClimbStepType ==
  ASSUME NEW g, DesignFits(g), NEW p \in Climbs(g)
  PROVE  /\ ClimbStep(g, p) \in Climbs(g)
         /\ LET q == ClimbStep(g, p)
                d == g.nets[p.net]
            IN  IF p.changed /\ Outward(d) THEN WriteDoes(g, p.st, d.port, d.pms, q)
                ELSE ~q.changed /\ q.st = p.st
<1> DEFINE d == g.nets[p.net]
<1>1. p.st \in Stores(g) /\ p.net \in DOMAIN g.nets /\ p.after \in Seq(Logic)
  BY DEF Climbs
<1>2. StoreFits(g, p.st)
  BY <1>1, StoresFit
<1>3. CASE p.changed /\ Outward(d)
  <2>1. d.port \in DOMAIN g.nets /\ d.pms \in Int /\ d.pls \in Int
    BY <1>1, <1>3, PortType
  <2>2. SliceFits(p.after, None, None)
    BY DEF SliceFits
  <2>3. ClimbStep(g, p) = Write(g.nets, p.st, d.port, p.after, None, None, d.pms, d.pls)
    BY <1>3 DEF ClimbStep
  <2> DEFINE port == d.port
             pms == d.pms
             pls == d.pls
             after == p.after
             ms == None
  <2>4. port \in DOMAIN g.nets /\ pms \in Int /\ pls \in Int /\ after \in Seq(Logic)
        /\ SliceFits(after, ms, ms)
    BY <1>1, <2>1, <2>2
  <2> HIDE DEF port, pms, pls, after, ms
  <2>5. Write(g.nets, p.st, port, after, ms, ms, pms, pls) \in Climbs(g)
    BY <1>2, <2>4, WriteEntry
  <2>6. WriteDoes(g, p.st, port, pms, Write(g.nets, p.st, port, after, ms, ms, pms, pls))
    BY <1>2, <2>4, WriteType
  <2> QED BY <1>3, <2>3, <2>5, <2>6 DEF port, pms, pls, after, ms
<1>4. CASE ~(p.changed /\ Outward(d))
  BY <1>4 DEF ClimbStep, Climbs
<1> QED BY <1>3, <1>4

\* The way outwards, step by step.
LEMMA ClimbSteps ==
  ASSUME NEW g, DesignFits(g), NEW st, StoreFits(g, st), NEW n \in DOMAIN g.nets,
         NEW num \in Seq(Logic), NEW ms, NEW ls, SliceFits(num, ms, ls),
         NEW m \in Int, NEW l \in Int
  PROVE  LET up == Climb(g.nets, st, n, num, ms, ls, m, l)
             top == Cardinality(DOMAIN g.nets)
         IN  /\ up \in [0 .. top -> Climbs(g)]
             /\ up[0] = Write(g.nets, st, n, num, ms, ls, m, l)
             /\ \A k \in 1 .. top : up[k] = ClimbStep(g, up[k - 1])
<1> DEFINE D == g.nets
           S == Climbs(g)
           top == Cardinality(DOMAIN g.nets)
           a == Write(g.nets, st, n, num, ms, ls, m, l)
           G == [k \in 1 .. top |-> [p \in S |-> ClimbStep(g, p)]]
           up == CHOOSE f : f = [k \in 0 .. top |->
                   IF k = 0 THEN Write(D, st, n, num, ms, ls, m, l)
                   ELSE LET p == f[k - 1]
                            d == D[p.net]
                        IN  IF p.changed /\ Outward(d)
                            THEN Write(D, p.st, d.port, p.after, None, None, d.pms, d.pls)
                            ELSE [p EXCEPT !.changed = FALSE]]
<1>1. top \in Nat /\ Levels(D) = 0 .. top
  BY DesignNets, LevelsType
<1>2. a \in S
  BY WriteEntry
<1>3. G \in [1 .. top -> [S -> S]]
  BY ClimbStepType
<1> HIDE DEF S, a, top
<1>4. PICK f : Steps(f, top, S, a, G)
  <2> HIDE DEF G
  <2> QED BY <1>1, <1>2, <1>3, Recursive
<1>5. f \in [0 .. top -> S] /\ f[0] = a /\ \A k \in 1 .. top : f[k - 1] \in S /\ f[k] = ClimbStep(g, f[k - 1])
  <2>1. f \in [0 .. top -> S] /\ f[0] = a /\ \A k \in 1 .. top : f[k] = G[k][f[k - 1]]
    BY <1>4 DEF Steps
  <2>2. \A k \in 1 .. top : f[k - 1] \in S
    BY <1>1, <2>1
  <2> QED BY <2>1, <2>2
<1>6. f = [k \in 0 .. top |-> IF k = 0 THEN a ELSE ClimbStep(g, f[k - 1])]
  <2>1. \A k \in 0 .. top : f[k] = IF k = 0 THEN a ELSE ClimbStep(g, f[k - 1])
    BY <1>1, <1>5
  <2>2. f = [k \in 0 .. top |-> f[k]]
    BY <1>5
  <2> QED BY <2>1, <2>2
<1>7. up = [k \in 0 .. top |-> IF k = 0 THEN a ELSE ClimbStep(g, up[k - 1])]
  <2>1. f = [k \in 0 .. top |->
                   IF k = 0 THEN Write(D, st, n, num, ms, ls, m, l)
                   ELSE LET p == f[k - 1]
                            d == D[p.net]
                        IN  IF p.changed /\ Outward(d)
                            THEN Write(D, p.st, d.port, p.after, None, None, d.pms, d.pls)
                            ELSE [p EXCEPT !.changed = FALSE]]
    BY <1>6, Zenon DEF a, ClimbStep
  <2>2. up = [k \in 0 .. top |->
                   IF k = 0 THEN Write(D, st, n, num, ms, ls, m, l)
                   ELSE LET p == up[k - 1]
                            d == D[p.net]
                        IN  IF p.changed /\ Outward(d)
                            THEN Write(D, p.st, d.port, p.after, None, None, d.pms, d.pls)
                            ELSE [p EXCEPT !.changed = FALSE]]
    BY <2>1, Zenon
  <2> HIDE DEF up
  <2> QED BY <2>2, Zenon DEF a, ClimbStep
<1>8. Climb(g.nets, st, n, num, ms, ls, m, l) = up
  BY <1>1, Zenon DEF Climb
<1> HIDE DEF up, G
<1>9. up[0] = a
  BY <1>1, <1>7
<1>10. \A k \in 1 .. top : up[k] = ClimbStep(g, up[k - 1])
  BY <1>1, <1>7
<1>11. Steps(up, top, S, a, G)
  <2>1. FunctionOn(up, 0 .. top)
    BY <1>7 DEF FunctionOn
  <2>2. \A k \in 1 .. top : up[k - 1] \in S => up[k] = G[k][up[k - 1]]
    BY <1>10 DEF G
  <2> QED BY <1>1, <1>2, <1>3, <1>9, <2>1, <2>2, StepsOf
<1>12. up \in [0 .. top -> S]
  BY <1>11 DEF Steps
<1> QED BY <1>8, <1>9, <1>10, <1>12 DEF S, a, top

\* The nets on the way that change.
Changes(up, k) == {up[j].net : j \in {i \in 0 .. k : up[i].changed}}

\* After k steps outwards the nets that changed are exactly those the entries
\* name, each lies further out than the ones before, and the first one keeps
\* what was written to it.
ClimbInv(g, st, n, level, up, k) ==
  /\ \A o \in DOMAIN g.nets : up[k].st[o] # st[o] <=> o \in Changes(up, k)
  /\ up[k].changed => \A j \in 0 .. k - 1 : up[j].changed => level[up[k].net] < level[up[j].net]
  /\ up[k].changed /\ k > 0 => level[up[k].net] < level[n]
  /\ up[k].st[n] = up[0].st[n]

\* Each step outwards keeps that.
LEMMA ClimbInvStep ==
  ASSUME NEW g, DesignFits(g), NEW st, NEW n \in DOMAIN g.nets,
         NEW level \in [DOMAIN g.nets -> Levels(g.nets)],
         \A o \in DOMAIN g.nets : g.nets[o].port # NoNet => level[g.nets[o].port] < level[o],
         NEW top \in Nat, NEW up \in [0 .. top -> Climbs(g)],
         \A k \in 1 .. top : up[k] = ClimbStep(g, up[k - 1]),
         up[0].net = n,
         NEW k \in 1 .. top, ClimbInv(g, st, n, level, up, k - 1)
  PROVE  ClimbInv(g, st, n, level, up, k)
<1> DEFINE p == up[k - 1]
           q == up[k]
           d == g.nets[p.net]
<1>1. p \in Climbs(g) /\ q \in Climbs(g) /\ q = ClimbStep(g, p) /\ k - 1 \in 0 .. top
  OBVIOUS
<1>2. IF p.changed /\ Outward(d) THEN WriteDoes(g, p.st, d.port, d.pms, q)
      ELSE ~q.changed /\ q.st = p.st
  BY <1>1, ClimbStepType
<1>3. p.net \in DOMAIN g.nets
  BY <1>1 DEF Climbs
<1>4. \A o \in DOMAIN g.nets : level[o] \in Nat
  BY DesignNets, LevelsType
<1>5. 0 .. k = (0 .. k - 1) \cup {k}
  OBVIOUS
<1>6. \A o : o \in Changes(up, k) <=> o \in Changes(up, k - 1) \/ (q.changed /\ o = q.net)
  <2> HIDE DEF p
  <2> QED BY <1>5 DEF Changes
<1>7. CASE ~(p.changed /\ Outward(d))
  <2>1. ~q.changed /\ q.st = p.st
    BY <1>2, <1>7
  <2>2. \A o : o \in Changes(up, k) <=> o \in Changes(up, k - 1)
    BY <1>6, <2>1
  <2> QED BY <2>1, <2>2 DEF ClimbInv
<1>8. CASE p.changed /\ Outward(d)
  <2>1. WriteDoes(g, p.st, d.port, d.pms, q)
    BY <1>2, <1>8
  <2>2. d.port \in DOMAIN g.nets /\ level[d.port] < level[p.net] /\ q.net = d.port
    <3>1. d.port # NoNet
      BY <1>8 DEF Outward
    <3> QED BY <3>1, <1>3, <1>8, <2>1, PortType DEF WriteDoes
  <2>3. \A j \in 0 .. k - 1 : up[j].changed => level[q.net] < level[up[j].net]
    <3> SUFFICES ASSUME NEW j \in 0 .. k - 1, up[j].changed
                 PROVE  level[q.net] < level[up[j].net]
      OBVIOUS
    <3>1. up[j].net \in DOMAIN g.nets
      BY DEF Climbs
    <3>2. CASE j = k - 1
      BY <3>2, <2>2
    <3>3. CASE j # k - 1
      <4>1. j \in 0 .. (k - 1) - 1
        BY <3>3
      <4>2. level[p.net] < level[up[j].net]
        BY <4>1, <1>8 DEF ClimbInv
      <4>3. /\ level[q.net] \in Nat /\ level[p.net] \in Nat /\ level[up[j].net] \in Nat
            /\ level[q.net] < level[p.net]
        BY <1>3, <1>4, <2>2, <3>1
      <4> QED BY <4>2, <4>3
    <3> QED BY <3>2, <3>3
  <2>4. level[q.net] < level[n]
    <3>1. CASE k - 1 = 0
      BY <3>1, <2>2
    <3>2. CASE k - 1 # 0
      <4>1. level[p.net] < level[n]
        BY <3>2, <1>8 DEF ClimbInv
      <4> QED BY <4>1, <2>2, <1>3, <1>4
    <3> QED BY <3>1, <3>2
  <2>5. q.net # n
    BY <2>2, <2>4, <1>4
  <2>6. q.net \notin Changes(up, k - 1)
    <3> SUFFICES ASSUME q.net \in Changes(up, k - 1) PROVE FALSE
      OBVIOUS
    <3>1. PICK j \in 0 .. k - 1 : up[j].changed /\ q.net = up[j].net
      BY DEF Changes
    <3>2. level[q.net] < level[q.net]
      BY <3>1, <2>3
    <3> QED BY <3>2, <2>2, <1>4
  <2>7. \A o \in DOMAIN g.nets : q.st[o] # st[o] <=> o \in Changes(up, k)
    <3> SUFFICES ASSUME NEW o \in DOMAIN g.nets
                 PROVE  q.st[o] # st[o] <=> o \in Changes(up, k)
      OBVIOUS
    <3>1. p.st[o] # st[o] <=> o \in Changes(up, k - 1)
      BY DEF ClimbInv
    <3>2. CASE o = q.net
      <4>1. p.st[o] = st[o]
        BY <3>1, <3>2, <2>6
      <4>2. q.changed <=> q.st[o] # p.st[o]
        BY <3>2, <2>1, <2>2 DEF WriteDoes
      <4> QED BY <3>2, <4>1, <4>2, <2>6, <1>6
    <3>3. CASE o # q.net
      <4>1. q.st[o] = p.st[o]
        BY <3>3, <2>1, <2>2 DEF WriteDoes
      <4> QED BY <3>1, <3>3, <4>1, <1>6
    <3> QED BY <3>2, <3>3
  <2>8. q.st[n] = up[0].st[n]
    <3>1. q.st[n] = p.st[n]
      BY <2>1, <2>2, <2>5 DEF WriteDoes
    <3> QED BY <3>1 DEF ClimbInv
  <2> QED BY <2>3, <2>4, <2>7, <2>8 DEF ClimbInv
<1> QED BY <1>7, <1>8

\* A way outwards from net n.
Way(g, n, top, up) ==
  /\ top \in Nat /\ up \in [0 .. top -> Climbs(g)] /\ up[0].net = n
  /\ \A k \in 1 .. top : up[k] = ClimbStep(g, up[k - 1])

\* The way outwards stays among the nets that have the same one in their name.
LEMMA ClimbTogether ==
  ASSUME NEW g, DesignFits(g), NEW n \in DOMAIN g.nets, NEW group \in Groups(g),
         NEW top, NEW up, Way(g, n, top, up)
  PROVE  \A o \in Changes(up, top) : group[o] = group[n]
<1> USE DEF Way
<1> DEFINE T == {k \in 0 .. top : up[k].changed => group[up[k].net] = group[n]}
<1>1. 0 \in T
  OBVIOUS
<1>2. ASSUME NEW k \in 1 .. top, k - 1 \in T PROVE k \in T
  <2> DEFINE p == up[k - 1]
             q == up[k]
             d == g.nets[p.net]
  <2>1. p \in Climbs(g) /\ q = ClimbStep(g, p) /\ k - 1 \in 0 .. top /\ k \in 0 .. top
    OBVIOUS
  <2>2. IF p.changed /\ Outward(d) THEN WriteDoes(g, p.st, d.port, d.pms, q)
        ELSE ~q.changed
    BY <2>1, ClimbStepType
  <2>3. SUFFICES ASSUME q.changed PROVE group[q.net] = group[n]
    BY <2>1
  <2>4. p.changed /\ Outward(d) /\ q.net = d.port
    BY <2>2, <2>3 DEF WriteDoes
  <2>5. p.net \in DOMAIN g.nets
    BY <2>1 DEF Climbs
  <2>6. group[d.port] = group[p.net]
    BY <2>4, <2>5 DEF Groups
  <2>7. group[p.net] = group[n]
    BY <1>2, <2>4
  <2> QED BY <2>4, <2>6, <2>7
<1> HIDE DEF T
<1>3. \A k \in 0 .. top : k \in T
  BY <1>1, <1>2, InductUpTo
<1> QED BY <1>3 DEF T, Changes

\* What an assignment to n does that starts with w.
Climbing(g, st, n, up, w) ==
  LET top == Cardinality(DOMAIN g.nets)
  IN  /\ top \in Nat /\ up \in [0 .. top -> Climbs(g)]
      /\ StoreFits(g, up[top].st)
      /\ \A o \in DOMAIN g.nets : up[top].st[o] # st[o] <=> o \in Changes(up, top)
      /\ up[top].st[n] = w.st[n]
      /\ \A group \in Groups(g) : \A o \in Changes(up, top) : group[o] = group[n]

\* A whole assignment to a net and those outside: the stores on the way fit,
\* the nets that change are those the way names, and the net itself is as it
\* was written.
LEMMA ClimbDoes ==
  ASSUME NEW g, DesignFits(g), NEW st, StoreFits(g, st), NEW n \in DOMAIN g.nets,
         NEW num \in Seq(Logic), NEW ms, NEW ls, SliceFits(num, ms, ls),
         NEW m \in Int, NEW l \in Int
  PROVE  Climbing(g, st, n, Climb(g.nets, st, n, num, ms, ls, m, l),
                  Write(g.nets, st, n, num, ms, ls, m, l))
<1> DEFINE top == Cardinality(DOMAIN g.nets)
           up == Climb(g.nets, st, n, num, ms, ls, m, l)
           w == Write(g.nets, st, n, num, ms, ls, m, l)
<1>1. top \in Nat
  BY DesignNets, LevelsType
<1>2. up \in [0 .. top -> Climbs(g)] /\ up[0] = w /\ \A k \in 1 .. top : up[k] = ClimbStep(g, up[k - 1])
  BY ClimbSteps
<1>3. WriteDoes(g, st, n, m, w)
  BY WriteType
<1>4. PICK level \in [DOMAIN g.nets -> Levels(g.nets)] :
        \A o \in DOMAIN g.nets : g.nets[o].port # NoNet => level[g.nets[o].port] < level[o]
  BY DEF DesignFits, Outwards
<1> HIDE DEF top, up, w
<1> DEFINE T == {k \in 0 .. top : ClimbInv(g, st, n, level, up, k)}
<1>5. 0 \in T
  <2>1. \A o : o \in Changes(up, 0) <=> w.changed /\ o = w.net
    BY <1>2 DEF Changes
  <2>2. \A o \in DOMAIN g.nets : w.st[o] # st[o] <=> o \in Changes(up, 0)
    BY <2>1, <1>3 DEF WriteDoes
  <2>3. 0 .. 0 - 1 = {} /\ ~(0 > 0)
    OBVIOUS
  <2>4. ClimbInv(g, st, n, level, up, 0)
    BY <1>2, <2>2, <2>3 DEF ClimbInv
  <2> QED BY <2>4, <1>1
<1>6. \A k \in 1 .. top : k - 1 \in T => k \in T
  <2> SUFFICES ASSUME NEW k \in 1 .. top, k - 1 \in T PROVE k \in T
    OBVIOUS
  <2>1. ClimbInv(g, st, n, level, up, k - 1)
    OBVIOUS
  <2>2. up[0].net = n
    BY <1>2, <1>3 DEF WriteDoes
  <2> HIDE DEF T
  <2>3. ClimbInv(g, st, n, level, up, k)
    BY <1>1, <1>2, <1>4, <2>1, <2>2, ClimbInvStep
  <2> QED BY <2>3 DEF T
<1>7. top \in T
  <2> HIDE DEF T
  <2>1. \A k \in 0 .. top : k \in T
    BY <1>1, <1>5, <1>6, InductUpTo
  <2> QED BY <2>1, <1>1
<1>8. ClimbInv(g, st, n, level, up, top)
  BY <1>7
<1>9. StoreFits(g, up[top].st)
  <2>1. up[top] \in Climbs(g)
    BY <1>1, <1>2
  <2>2. up[top].st \in Stores(g)
    BY <2>1 DEF Climbs
  <2> QED BY <2>2, StoresFit
<1>10. ASSUME NEW group \in Groups(g) PROVE \A o \in Changes(up, top) : group[o] = group[n]
  <2>1. up[0].net = n
    BY <1>2, <1>3 DEF WriteDoes
  <2>2. Way(g, n, top, up)
    BY <1>1, <1>2, <2>1 DEF Way
  <2> QED BY <2>2, ClimbTogether
<1> QED BY <1>1, <1>2, <1>8, <1>9, <1>10 DEF ClimbInv, Climbing, top, up, w
-----------------------------------------------------------------------------
(***************************************************************************)
(* Those who listen.                                                       *)
(***************************************************************************)

\* The five lists by name.
LEMMA StrataNames ==
  /\ Q!Strata = {"active", "inactive", "nonblocking", "monitor", "strobe"}
  /\ DOMAIN Q!Ranked = 1 .. 4
<1>1. DOMAIN Q!Ranked = 1 .. 4
  BY DEF Q!Ranked
<1>2. 1 .. 4 = {1, 2, 3, 4}
  OBVIOUS
<1> QED BY <1>1, <1>2 DEF Q!Strata, Q!Looped, Q!Ranked

\* An event of a container that is not queued goes to the end of its list.
LEMMA ListAppend ==
  ASSUME NEW E, NEW l, NEW C, NEW flag, ListOf(l, flag, C, E), NEW e \in E,
         e[1] \in C, C \subseteq DOMAIN flag, ~flag[e[1]]
  PROVE  ListOf(Append(l, e), [flag EXCEPT ![e[1]] = TRUE], C, E)
<1> DEFINE n == Len(l)
           a == Append(l, e)
           f == [flag EXCEPT ![e[1]] = TRUE]
<1>1. l \in Seq(E) /\ n \in Nat /\ DOMAIN l = 1 .. n
  BY DEF ListOf
<1>2. /\ a \in Seq(E) /\ DOMAIN a = 1 .. n + 1 /\ a[n + 1] = e
      /\ \A i \in 1 .. n : a[i] = l[i]
  BY <1>1
<1>3. \A c \in C : f[c] <=> flag[c] \/ c = e[1]
  OBVIOUS
<1>4. /\ \A i, j \in 1 .. n : l[i][1] = l[j][1] => i = j
      /\ \A c \in C : flag[c] <=> \E i \in 1 .. n : l[i][1] = c
  BY <1>1 DEF ListOf
<1> HIDE DEF n, a, f
<1>5. \A i \in 1 .. n : l[i][1] # e[1]
  BY <1>4
<1>6. \A i \in 1 .. n + 1 : i \in 1 .. n \/ i = n + 1
  BY <1>1
<1>7. \A i, j \in 1 .. n + 1 : a[i][1] = a[j][1] => i = j
  BY <1>2, <1>4, <1>5, <1>6
<1>8. ASSUME NEW c \in C PROVE f[c] <=> \E i \in 1 .. n + 1 : a[i][1] = c
  <2>1. \A i \in 1 .. n : i \in 1 .. n + 1
    BY <1>1
  <2>2. n + 1 \in 1 .. n + 1
    BY <1>1
  <2>3. CASE c = e[1]
    BY <2>3, <1>2, <1>3, <2>2
  <2>4. CASE c # e[1]
    BY <2>4, <1>2, <1>3, <1>4, <1>6, <2>1
  <2> QED BY <2>3, <2>4
<1> QED BY <1>2, <1>7, <1>8 DEF ListOf, a, f

\* The other lists do not notice.
LEMMA ListElsewhere ==
  ASSUME NEW E, NEW l, NEW C, NEW flag, ListOf(l, flag, C, E), NEW f,
         \A c \in C : f[c] = flag[c]
  PROVE  ListOf(l, f, C, E)
BY DEF ListOf

\* A list of which nothing is queued.
LEMMA ListEmpty ==
  ASSUME NEW E, NEW C, NEW flag, \A c \in C : ~flag[c]
  PROVE  ListOf(<<>>, flag, C, E)
BY DEF ListOf

\* What the states of the nets are while listeners are told of an assignment.
TellSet(s) ==
  [st : {s.st}, changed : {s.changed}, prev : [DOMAIN design.events -> Logic],
   active : [Listeners -> BOOLEAN], pending : {s.pending},
   queue : [Q!Strata -> Seq(AllEvents)], queued : [Listeners \cup Updates -> BOOLEAN],
   on : {s.on}, dumped : {s.dumped}]

Fires(s, e) == IsEdge(e) => Edge(s.prev[e], FirstBit(s.st, e)) = design.events[e].kind

\* From s, with the nets as they are, the events of T have been told.
Telling(s, t, T) ==
  /\ t \in TellSet(s) /\ QueueFits(design, t)
  /\ \A e \in DOMAIN design.events :
       t.prev[e] = IF e \in T /\ IsEdge(e) THEN FirstBit(s.st, e) ELSE s.prev[e]
  /\ \A c \in Listeners :
       /\ t.queued[c] <=> s.queued[c] \/ (IsActive(s, c) /\ \E e \in T : e[1] = c /\ Fires(s, e))
       /\ ~t.queued[c] => t.active[c] = s.active[c]
  /\ \A u \in Updates : t.queued[u] = s.queued[u]

\* An event of the design is one of a listener.
LEMMA EventType ==
  ASSUME DesignFits(design), NEW e \in DOMAIN design.events
  PROVE  /\ e \in AllEvents /\ e[1] \in Listeners /\ e[1] \notin Updates
         /\ design.events[e].kind \in {"change", "posedge", "negedge"}
         /\ ExprFits(Decl, design.events[e].expr)
BY NetsAssumption DEF DesignFits, AllEvents, Decl

\* The first bit of an expression.
LEMMA FirstBitType ==
  ASSUME DesignFits(design), NEW st, StoreFits(design, st), NEW e \in DOMAIN design.events
  PROVE  FirstBit(st, e) \in Logic
<1> DEFINE x == design.events[e].expr
<1>1. ExprFits(Decl, x) /\ NetsFit1(Decl) /\ StoreTyped(Decl, st)
  BY EventType, DesignNets, StoreIsTyped DEF Decl
<1> HIDE DEF x
<1>2. ExprWidth(Decl, x) \in Nat \ {0} /\ Value(Decl, st, x) \in [1 .. ExprWidth(Decl, x) -> Logic]
  BY <1>1, ValueType
<1> QED BY <1>2 DEF FirstBit, x

\* The bit is followed, and the state is otherwise as it was.
LEMMA FollowedType ==
  ASSUME DesignFits(design), NEW s, NEW t \in TellSet(s), NEW e \in DOMAIN design.events,
         NEW b \in Logic
  PROVE  LET f == Followed(t, e, b)
         IN  /\ f \in TellSet(s)
             /\ f.queue = t.queue /\ f.queued = t.queued /\ f.active = t.active
             /\ f.prev = (IF IsEdge(e) THEN [t.prev EXCEPT ![e] = b] ELSE t.prev)
BY DEF Followed, TellSet

\* An event is queued.
LEMMA AddedType ==
  ASSUME DesignFits(design), NEW s, NEW t \in TellSet(s), QueueFits(design, t),
         NEW e \in DOMAIN design.events, ~t.queued[e[1]]
  PROVE  LET a == Added(t, e)
         IN  /\ a \in TellSet(s) /\ QueueFits(design, a)
             /\ a.prev = t.prev
             /\ a.queued = [t.queued EXCEPT ![e[1]] = TRUE]
             /\ a.active = [t.active EXCEPT ![e[1]] = FALSE]
<1> DEFINE a == Added(t, e)
           q == [t.queue EXCEPT !["active"] = Append(@, e)]
           qd == [t.queued EXCEPT ![e[1]] = TRUE]
           ac == [t.active EXCEPT ![e[1]] = FALSE]
<1>1. /\ e \in AllEvents /\ e[1] \in Listeners /\ e[1] \notin Updates
  BY EventType
<1>2. /\ t.queue \in [Q!Strata -> Seq(AllEvents)] /\ t.active \in [Listeners -> BOOLEAN]
      /\ t.queued \in [Listeners \cup Updates -> BOOLEAN]
  BY DEF TellSet
<1>3. "active" \in Q!Strata /\ "nonblocking" \in Q!Strata /\ "active" # "nonblocking"
  BY StrataNames
<1>4. q["active"] = Append(t.queue["active"], e) /\ \A k \in Q!Strata : k # "active" => q[k] = t.queue[k]
  BY <1>2, <1>3
<1>5. q \in [Q!Strata -> Seq(AllEvents)]
  BY <1>1, <1>2, <1>3
<1>6. qd \in [Listeners \cup Updates -> BOOLEAN] /\ ac \in [Listeners -> BOOLEAN]
  BY <1>1, <1>2
<1>7. a = [st |-> t.st, changed |-> t.changed, prev |-> t.prev, active |-> ac, pending |-> t.pending,
           queue |-> q, queued |-> qd, on |-> t.on, dumped |-> t.dumped]
  <2>1. t = [st |-> t.st, changed |-> t.changed, prev |-> t.prev, active |-> t.active, pending |-> t.pending,
             queue |-> t.queue, queued |-> t.queued, on |-> t.on, dumped |-> t.dumped]
    BY DEF TellSet
  <2>2. a = [t EXCEPT !.queue = q, !.queued = qd, !.active = ac]
    BY Zenon DEF Added
  <2> HIDE DEF a, q, qd, ac
  <2> QED BY <2>1, <2>2
<1>8. a \in TellSet(s)
  <2> HIDE DEF q, qd, ac
  <2> QED BY <1>5, <1>6, <1>7 DEF TellSet
<1>9. ListOf(q["active"], qd, Listeners, DOMAIN design.events)
  <2>1. ListOf(t.queue["active"], t.queued, Listeners, DOMAIN design.events)
    BY DEF QueueFits
  <2>2. Listeners \subseteq DOMAIN t.queued
    BY <1>2
  <2> DEFINE l == t.queue["active"]
             E == DOMAIN design.events
             flag == t.queued
  <2>3. ListOf(l, flag, Listeners, E) /\ e \in E /\ ~flag[e[1]] /\ Listeners \subseteq DOMAIN flag
    BY <2>1, <2>2
  <2> HIDE DEF l, E, flag, q
  <2>4. ListOf(Append(l, e), [flag EXCEPT ![e[1]] = TRUE], Listeners, E)
    BY <2>3, <1>1, ListAppend
  <2> QED BY <2>4, <1>4 DEF l, E, flag
<1>10. ListOf(q["nonblocking"], qd, Updates, Updates \X {1})
  <2>1. ListOf(t.queue["nonblocking"], t.queued, Updates, Updates \X {1})
    BY DEF QueueFits
  <2>2. \A c \in Updates : qd[c] = t.queued[c]
    BY <1>1, <1>2
  <2>3. q["nonblocking"] = t.queue["nonblocking"]
    BY <1>3, <1>4
  <2> DEFINE l == t.queue["nonblocking"]
             E == Updates \X {1}
             flag == t.queued
  <2> HIDE DEF l, E, flag, q, qd
  <2>4. ListOf(l, qd, Updates, E)
    BY <2>1, <2>2, ListElsewhere DEF l, E, flag
  <2> QED BY <2>3, <2>4 DEF l, E
<1>11. \A k \in Q!Strata \ {"active", "nonblocking"} : q[k] = <<>>
  BY <1>4 DEF QueueFits
<1>12. QueueFits(design, a)
  <2>1. a.queue = q /\ a.queued = qd
    BY <1>7
  <2> HIDE DEF a, q, qd
  <2> QED BY <2>1, <1>5, <1>6, <1>9, <1>10, <1>11 DEF QueueFits
<1> QED BY <1>7, <1>8, <1>12

\* Nothing is an edge from a bit to itself.
LEMMA NoEdge ==
  ASSUME NEW b
  PROVE  Edge(b, b) = "none"
BY DEF Edge

\* One event is told.
LEMMA ToldStep ==
  ASSUME DesignFits(design), NEW s, StoreFits(design, s.st), NEW t, NEW T, Telling(s, t, T),
         NEW e \in DOMAIN design.events
  PROVE  Telling(s, Told(t, e), T \cup {e})
<1> DEFINE b == FirstBit(s.st, e)
           c == e[1]
           f == Followed(t, e, b)
           u == Told(t, e)
<1>1. b \in Logic
  BY FirstBitType
<1>2. t \in TellSet(s) /\ t.st = s.st /\ QueueFits(design, t)
  BY DEF Telling, TellSet
<1>3. u = AddedIf(Noticed(t, e, b), f, e)
  BY <1>2 DEF Told, ToldBit
<1>4. c \in Listeners /\ c \notin Updates /\ design.events[e].kind \in {"change", "posedge", "negedge"}
  BY EventType
<1> HIDE DEF b
<1>5. /\ f \in TellSet(s)
      /\ f.queue = t.queue /\ f.queued = t.queued /\ f.active = t.active
      /\ f.prev = (IF IsEdge(e) THEN [t.prev EXCEPT ![e] = b] ELSE t.prev)
  BY <1>1, <1>2, FollowedType
<1>6. t.prev \in [DOMAIN design.events -> Logic] /\ t.active \in [Listeners -> BOOLEAN]
      /\ t.queued \in [Listeners \cup Updates -> BOOLEAN]
  BY <1>2 DEF TellSet
<1>7. QueueFits(design, f)
  BY <1>2, <1>5 DEF QueueFits
<1> HIDE DEF f, u
<1>8. \A a \in DOMAIN design.events :
        f.prev[a] = IF a \in T \cup {e} /\ IsEdge(a) THEN FirstBit(s.st, a) ELSE s.prev[a]
  <2> SUFFICES ASSUME NEW a \in DOMAIN design.events
               PROVE  f.prev[a] = IF a \in T \cup {e} /\ IsEdge(a) THEN FirstBit(s.st, a) ELSE s.prev[a]
    OBVIOUS
  <2>1. t.prev[a] = IF a \in T /\ IsEdge(a) THEN FirstBit(s.st, a) ELSE s.prev[a]
    BY DEF Telling
  <2>2. CASE a = e
    BY <2>1, <2>2, <1>5, <1>6 DEF b
  <2>3. CASE a # e
    <3>1. f.prev[a] = t.prev[a]
      BY <2>3, <1>5
    <3> QED BY <2>1, <2>3, <3>1
  <2> QED BY <2>2, <2>3
<1>9. \A d \in Listeners :
        /\ t.queued[d] <=> s.queued[d] \/ (IsActive(s, d) /\ \E a \in T : a[1] = d /\ Fires(s, a))
        /\ ~t.queued[d] => t.active[d] = s.active[d]
  BY DEF Telling
<1>10. \A d \in Updates : t.queued[d] = s.queued[d]
  BY DEF Telling
<1>11. ~t.queued[c] => (IsActive(t, c) <=> IsActive(s, c))
  BY <1>4, <1>9 DEF IsActive
<1>12. e \notin T => t.prev[e] = s.prev[e]
  BY DEF Telling
<1>13. e \in T /\ IsEdge(e) => t.prev[e] = b
  BY DEF Telling, b
<1>14. CASE Noticed(t, e, b)
  <2>1. IsActive(t, c) /\ ~t.queued[c] /\ (IsEdge(e) => Edge(t.prev[e], b) = design.events[e].kind)
    BY <1>14 DEF Noticed
  <2>2. u = Added(f, e)
    BY <1>3, <1>14 DEF AddedIf
  <2>3. /\ u \in TellSet(s) /\ QueueFits(design, u) /\ u.prev = f.prev
        /\ u.queued = [t.queued EXCEPT ![c] = TRUE] /\ u.active = [t.active EXCEPT ![c] = FALSE]
    BY <2>1, <2>2, <1>5, <1>7, AddedType
  <2>4. Fires(s, e)
    <3>1. CASE ~IsEdge(e)
      BY <3>1 DEF Fires
    <3>2. CASE IsEdge(e)
      <4>1. Edge(t.prev[e], b) # "none"
        BY <3>2, <2>1, <1>4 DEF IsEdge
      <4>2. e \notin T
        BY <4>1, <3>2, <1>13, NoEdge
      <4> QED BY <4>2, <3>2, <2>1, <1>12 DEF Fires, b
    <3> QED BY <3>1, <3>2
  <2>5. IsActive(s, c)
    BY <2>1, <1>11
  <2>6. \A d \in Listeners :
          /\ u.queued[d] <=> s.queued[d] \/ (IsActive(s, d) /\ \E a \in T \cup {e} : a[1] = d /\ Fires(s, a))
          /\ ~u.queued[d] => u.active[d] = s.active[d]
    <3> SUFFICES ASSUME NEW d \in Listeners
                 PROVE  /\ u.queued[d] <=> s.queued[d] \/ (IsActive(s, d) /\ \E a \in T \cup {e} : a[1] = d /\ Fires(s, a))
                        /\ ~u.queued[d] => u.active[d] = s.active[d]
      OBVIOUS
    <3>1. CASE d = c
      <4>1. u.queued[d]
        BY <3>1, <2>3, <1>4, <1>6
      <4> QED BY <4>1, <3>1, <2>4, <2>5
    <3>2. CASE d # c
      <4>1. u.queued[d] = t.queued[d] /\ u.active[d] = t.active[d]
        BY <3>2, <2>3, <1>6
      <4>2. (\E a \in T \cup {e} : a[1] = d /\ Fires(s, a)) <=> \E a \in T : a[1] = d /\ Fires(s, a)
        BY <3>2
      <4> QED BY <4>1, <4>2, <1>9
    <3> QED BY <3>1, <3>2
  <2>7. \A d \in Updates : u.queued[d] = s.queued[d]
    BY <2>3, <1>4, <1>6, <1>10
  <2>8. \A a \in DOMAIN design.events :
          u.prev[a] = IF a \in T \cup {e} /\ IsEdge(a) THEN FirstBit(s.st, a) ELSE s.prev[a]
    BY <2>3, <1>8
  <2>9. u \in TellSet(s) /\ QueueFits(design, u)
    BY <2>3
  <2>10. Telling(s, u, T \cup {e})
    BY <2>6, <2>7, <2>8, <2>9, Zenon DEF Telling
  <2> QED BY <2>10 DEF u
<1>15. CASE ~Noticed(t, e, b)
  <2>1. u = f
    BY <1>3, <1>15 DEF AddedIf
  <2>2. IsActive(s, c) /\ Fires(s, e) => t.queued[c]
    <3> SUFFICES ASSUME IsActive(s, c), Fires(s, e), ~t.queued[c] PROVE FALSE
      OBVIOUS
    <3>1. IsActive(t, c)
      BY <1>11
    <3>2. IsEdge(e) /\ Edge(t.prev[e], b) # design.events[e].kind
      BY <3>1, <1>15 DEF Noticed
    <3>3. CASE e \in T
      BY <3>3, <1>4, <1>9
    <3>4. CASE e \notin T
      BY <3>2, <3>4, <1>12 DEF Fires, b
    <3> QED BY <3>3, <3>4
  <2>3. \A d \in Listeners :
          /\ u.queued[d] <=> s.queued[d] \/ (IsActive(s, d) /\ \E a \in T \cup {e} : a[1] = d /\ Fires(s, a))
          /\ ~u.queued[d] => u.active[d] = s.active[d]
    <3> SUFFICES ASSUME NEW d \in Listeners
                 PROVE  /\ u.queued[d] <=> s.queued[d] \/ (IsActive(s, d) /\ \E a \in T \cup {e} : a[1] = d /\ Fires(s, a))
                        /\ ~u.queued[d] => u.active[d] = s.active[d]
      OBVIOUS
    <3>1. u.queued = t.queued /\ u.active = t.active
      BY <2>1, <1>5
    <3>2. (\E a \in T \cup {e} : a[1] = d /\ Fires(s, a))
            <=> (\E a \in T : a[1] = d /\ Fires(s, a)) \/ (c = d /\ Fires(s, e))
      OBVIOUS
    <3> QED BY <3>1, <3>2, <2>2, <1>9
  <2>4. Telling(s, u, T \cup {e})
    BY <2>1, <2>3, <1>5, <1>7, <1>8, <1>10 DEF Telling
  <2> QED BY <2>4 DEF u
<1> QED BY <1>14, <1>15

\* The states in which some events have been told.
TellStates(s) == {t \in TellSet(s) : \E T \in SUBSET (DOMAIN design.events) : Telling(s, t, T)}

\* The i-th event of the order has its turn.
TellTurn(n, i, t) ==
  IF design.order[i] \in Listening(n) THEN Told(t, design.order[i]) ELSE t

\* Its turn leads from such a state to such a state.
LEMMA TellTurnType ==
  ASSUME DesignFits(design), NEW s, StoreFits(design, s.st), NEW n,
         NEW i \in 1 .. Len(design.order), NEW t, NEW T \in SUBSET (DOMAIN design.events),
         Telling(s, t, T)
  PROVE  LET U == IF design.order[i] \in Listening(n) THEN T \cup {design.order[i]} ELSE T
         IN  /\ U \in SUBSET (DOMAIN design.events)
             /\ Telling(s, TellTurn(n, i, t), U)
<1>1. design.order[i] \in DOMAIN design.events
  BY DEF DesignFits
<1> DEFINE e == design.order[i]
<1>2. e \in DOMAIN design.events
  BY <1>1
<1> HIDE DEF e
<1>3. Telling(s, Told(t, e), T \cup {e})
  BY <1>2, ToldStep
<1> QED BY <1>2, <1>3 DEF TellTurn, e

\* All who listen to a net are told.
LEMMA ToldAllDoes ==
  ASSUME DesignFits(design), NEW s, StoreFits(design, s.st), NEW n, NEW t,
         NEW T \in SUBSET (DOMAIN design.events), Telling(s, t, T)
  PROVE  Telling(s, ToldAll(t, n), T \cup Listening(n))
<1> DEFINE L == Len(design.order)
           S == TellStates(s)
           G == [i \in 1 .. L |-> [x \in S |-> TellTurn(n, i, x)]]
           told == CHOOSE f : f = [i \in 0 .. Len(design.order) |->
                     IF i = 0 THEN t
                     ELSE IF design.order[i] \in Listening(n) THEN Told(f[i - 1], design.order[i])
                     ELSE f[i - 1]]
<1>1. L \in Nat /\ DOMAIN design.order = 1 .. L /\ \A i \in 1 .. L : design.order[i] \in DOMAIN design.events
  BY DEF DesignFits
<1>2. t \in S
  BY DEF TellStates, Telling
<1>3. G \in [1 .. L -> [S -> S]]
  <2> SUFFICES ASSUME NEW i \in 1 .. L, NEW x \in S PROVE TellTurn(n, i, x) \in S
    OBVIOUS
  <2>1. PICK X \in SUBSET (DOMAIN design.events) : Telling(s, x, X)
    BY DEF TellStates
  <2> DEFINE U == IF design.order[i] \in Listening(n) THEN X \cup {design.order[i]} ELSE X
             y == TellTurn(n, i, x)
  <2>2. U \in SUBSET (DOMAIN design.events) /\ Telling(s, y, U)
    BY <2>1, TellTurnType
  <2> HIDE DEF U, y, S
  <2>3. y \in S
    BY <2>2 DEF S, TellStates, Telling
  <2> QED BY <2>3 DEF y
<1> HIDE DEF S, L
<1>4. PICK f : Steps(f, L, S, t, G)
  <2> HIDE DEF G
  <2> QED BY <1>1, <1>2, <1>3, Recursive
<1>5. /\ f \in [0 .. L -> S] /\ f[0] = t
      /\ \A i \in 1 .. L : f[i - 1] \in S /\ f[i] = TellTurn(n, i, f[i - 1])
  <2>1. f \in [0 .. L -> S] /\ f[0] = t /\ \A i \in 1 .. L : f[i] = G[i][f[i - 1]]
    BY <1>4 DEF Steps
  <2>2. \A i \in 1 .. L : f[i - 1] \in S
    BY <1>1, <2>1
  <2> QED BY <2>1, <2>2
<1>6. f = [i \in 0 .. L |-> IF i = 0 THEN t ELSE TellTurn(n, i, f[i - 1])]
  <2>1. \A i \in 0 .. L : f[i] = IF i = 0 THEN t ELSE TellTurn(n, i, f[i - 1])
    BY <1>1, <1>5
  <2>2. f = [i \in 0 .. L |-> f[i]]
    BY <1>5
  <2> QED BY <2>1, <2>2
<1>7. told = [i \in 0 .. L |-> IF i = 0 THEN t ELSE TellTurn(n, i, told[i - 1])]
  <2>1. f = [i \in 0 .. Len(design.order) |->
                     IF i = 0 THEN t
                     ELSE IF design.order[i] \in Listening(n) THEN Told(f[i - 1], design.order[i])
                     ELSE f[i - 1]]
    BY <1>6, Zenon DEF L, TellTurn
  <2>2. told = [i \in 0 .. Len(design.order) |->
                     IF i = 0 THEN t
                     ELSE IF design.order[i] \in Listening(n) THEN Told(told[i - 1], design.order[i])
                     ELSE told[i - 1]]
    BY <2>1, Zenon
  <2> HIDE DEF told
  <2> QED BY <2>2, Zenon DEF L, TellTurn
<1>8. ToldAll(t, n) = told[L]
  BY Zenon DEF ToldAll, L
<1> HIDE DEF told
<1> DEFINE before(i) == {e \in Listening(n) : \E j \in 1 .. i : design.order[j] = e}
           I == {i \in 0 .. L : Telling(s, told[i], T \cup before(i))}
<1>9. 0 \in I
  <2>1. told[0] = t
    BY <1>1, <1>7
  <2>2. T \cup before(0) = T
    OBVIOUS
  <2> HIDE DEF before
  <2>3. Telling(s, told[0], T \cup before(0))
    BY <2>1, <2>2
  <2> QED BY <1>1, <2>3
<1>10. \A i \in 1 .. L : i - 1 \in I => i \in I
  <2> SUFFICES ASSUME NEW i \in 1 .. L, i - 1 \in I PROVE i \in I
    OBVIOUS
  <2> DEFINE X == T \cup before(i - 1)
             x == told[i - 1]
             U == IF design.order[i] \in Listening(n) THEN X \cup {design.order[i]} ELSE X
  <2>1. X \in SUBSET (DOMAIN design.events)
    BY DEF Listening
  <2>2. Telling(s, x, X)
    OBVIOUS
  <2>3. told[i] = TellTurn(n, i, x)
    BY <1>1, <1>7
  <2>4. U = T \cup before(i)
    <3>1. 1 .. i = (1 .. i - 1) \cup {i}
      BY <1>1
    <3>2. \A e : e \in before(i) <=> e \in before(i - 1) \/ (e \in Listening(n) /\ e = design.order[i])
      BY <3>1
    <3> HIDE DEF before
    <3> QED BY <3>2
  <2>5. Telling(s, TellTurn(n, i, x), U)
    <3> HIDE DEF x, X, I
    <3> QED BY <2>1, <2>2, TellTurnType DEF L
  <2> HIDE DEF U, x, X, before
  <2> QED BY <1>1, <2>3, <2>4, <2>5
<1>11. L \in I
  <2> HIDE DEF I
  <2>1. \A i \in 0 .. L : i \in I
    BY <1>1, <1>9, <1>10, InductUpTo
  <2> QED BY <2>1, <1>1
<1>12. before(L) = Listening(n)
  <2>1. \A e \in DOMAIN design.events : \E i \in 1 .. L : design.order[i] = e
    BY <1>1 DEF DesignFits
  <2> QED BY <2>1 DEF Listening
<1> QED BY <1>8, <1>11, <1>12

\* What a state of the nets holds that is no event's and no queue's.
Typed(s) ==
  /\ s = [st |-> s.st, changed |-> s.changed, prev |-> s.prev, active |-> s.active,
          pending |-> s.pending, queue |-> s.queue, queued |-> s.queued,
          on |-> s.on, dumped |-> s.dumped]
  /\ NetsFit(design, s) /\ QueueFits(design, s)

\* Before anybody has been told, nobody has.
LEMMA TellNone ==
  ASSUME DesignFits(design), NEW s, Typed(s)
  PROVE  s \in TellSet(s) /\ Telling(s, s, {})
<1>1. /\ s.prev \in [DOMAIN design.events -> Logic] /\ s.active \in [Listeners -> BOOLEAN]
      /\ s.queued \in [Listeners \cup Updates -> BOOLEAN]
      /\ s.queue \in [Q!Strata -> Seq(AllEvents)]
      /\ QueueFits(design, s)
  BY DEF Typed, NetsFit, QueueFits
<1>2. s \in TellSet(s)
  <2>1. s = [st |-> s.st, changed |-> s.changed, prev |-> s.prev, active |-> s.active,
          pending |-> s.pending, queue |-> s.queue, queued |-> s.queued,
          on |-> s.on, dumped |-> s.dumped]
    BY DEF Typed
  <2> QED BY <2>1, <1>1 DEF TellSet
<1> QED BY <1>1, <1>2 DEF Telling

\* Those who listen to a net of a set.
ListeningTo(C) == {e \in DOMAIN design.events : \E n \in C : e \in Listening(n)}

\* The nets that the first k levels from outside have changed.
OuterChanges(up, top, k) == {up[j].net : j \in {i \in top + 1 - k .. top : up[i].changed}}

\* Level k from outside has its turn.
LevelTurn(up, levels, k, t) ==
  IF up[levels - k].changed THEN ToldAll(t, up[levels - k].net) ELSE t

\* All who listen to one of the nets that changed are told.
LEMMA AllToldDoes ==
  ASSUME DesignFits(design), NEW s, Typed(s),
         NEW top \in Nat, top = Cardinality(DOMAIN Decl),
         NEW up \in [0 .. top -> Climbs(design)],
         NEW c, c = Climbed(s, up), Typed(c)
  PROVE  Telling(c, AllTold(s, up), ListeningTo(Changes(up, top)))
<1> DEFINE levels == Cardinality(DOMAIN Decl) + 1
           S == TellStates(c)
           G == [i \in 1 .. levels |-> [x \in S |-> LevelTurn(up, levels, i, x)]]
           told == CHOOSE f : f = [i \in 0 .. Cardinality(DOMAIN Decl) + 1 |->
                     IF i = 0 THEN Climbed(s, up)
                     ELSE IF up[(Cardinality(DOMAIN Decl) + 1) - i].changed
                     THEN ToldAll(f[i - 1], up[(Cardinality(DOMAIN Decl) + 1) - i].net)
                     ELSE f[i - 1]]
<1>1. levels \in Nat /\ \A i \in 1 .. levels : levels - i \in 0 .. top
  OBVIOUS
<1>2. c \in TellSet(c) /\ Telling(c, c, {}) /\ StoreFits(design, c.st)
  BY TellNone DEF Typed, NetsFit
<1>3. c \in S
  BY <1>2 DEF TellStates
<1>4. G \in [1 .. levels -> [S -> S]]
  <2> SUFFICES ASSUME NEW i \in 1 .. levels, NEW x \in S PROVE LevelTurn(up, levels, i, x) \in S
    OBVIOUS
  <2>1. PICK X \in SUBSET (DOMAIN design.events) : Telling(c, x, X)
    BY DEF TellStates
  <2> DEFINE n == up[levels - i].net
  <2> HIDE DEF n, S
  <2>2. Telling(c, ToldAll(x, n), X \cup Listening(n))
    BY <1>2, <2>1, ToldAllDoes
  <2>3. ToldAll(x, n) \in S
    <3> DEFINE y == ToldAll(x, n)
               U == X \cup Listening(n)
    <3>1. U \in SUBSET (DOMAIN design.events)
      BY DEF Listening
    <3> HIDE DEF y, U
    <3>2. Telling(c, y, U)
      BY <2>2 DEF y, U
    <3>3. y \in S
      BY <3>1, <3>2 DEF S, TellStates, Telling
    <3> QED BY <3>3 DEF y
  <2> QED BY <2>3 DEF n, LevelTurn
<1> HIDE DEF S, levels
<1>5. PICK f : Steps(f, levels, S, c, G)
  <2> HIDE DEF G
  <2> QED BY <1>1, <1>3, <1>4, Recursive
<1>6. /\ f \in [0 .. levels -> S] /\ f[0] = c
      /\ \A i \in 1 .. levels : f[i - 1] \in S /\ f[i] = LevelTurn(up, levels, i, f[i - 1])
  <2>1. f \in [0 .. levels -> S] /\ f[0] = c /\ \A i \in 1 .. levels : f[i] = G[i][f[i - 1]]
    BY <1>5 DEF Steps
  <2>2. \A i \in 1 .. levels : f[i - 1] \in S
    BY <1>1, <2>1
  <2> QED BY <2>1, <2>2
<1>7. f = [i \in 0 .. levels |-> IF i = 0 THEN Climbed(s, up) ELSE LevelTurn(up, levels, i, f[i - 1])]
  <2>1. \A i \in 0 .. levels : f[i] = IF i = 0 THEN Climbed(s, up) ELSE LevelTurn(up, levels, i, f[i - 1])
    BY <1>1, <1>6
  <2>2. f = [i \in 0 .. levels |-> f[i]]
    BY <1>6
  <2> QED BY <2>1, <2>2
<1>8. levels = top + 1
  BY DEF levels
<1>9. told = [i \in 0 .. levels |-> IF i = 0 THEN Climbed(s, up) ELSE LevelTurn(up, levels, i, told[i - 1])]
  <2>1. f = [i \in 0 .. Cardinality(DOMAIN Decl) + 1 |->
                     IF i = 0 THEN Climbed(s, up)
                     ELSE IF up[(Cardinality(DOMAIN Decl) + 1) - i].changed
                     THEN ToldAll(f[i - 1], up[(Cardinality(DOMAIN Decl) + 1) - i].net)
                     ELSE f[i - 1]]
    BY <1>7, Zenon DEF LevelTurn, levels
  <2>2. told = [i \in 0 .. Cardinality(DOMAIN Decl) + 1 |->
                     IF i = 0 THEN Climbed(s, up)
                     ELSE IF up[(Cardinality(DOMAIN Decl) + 1) - i].changed
                     THEN ToldAll(told[i - 1], up[(Cardinality(DOMAIN Decl) + 1) - i].net)
                     ELSE told[i - 1]]
    BY <2>1, Zenon
  <2> HIDE DEF told
  <2> QED BY <2>2, Zenon DEF LevelTurn, levels
<1>10. AllTold(s, up) = told[levels]
  BY Zenon DEF AllTold, levels
<1> HIDE DEF told
<1> DEFINE I == {i \in 0 .. levels : Telling(c, told[i], ListeningTo(OuterChanges(up, top, i)))}
<1>11. 0 \in I
  <2>1. told[0] = c
    BY <1>1, <1>9
  <2>2. ListeningTo(OuterChanges(up, top, 0)) = {}
    BY DEF OuterChanges, ListeningTo
  <2>3. Telling(c, told[0], ListeningTo(OuterChanges(up, top, 0)))
    BY <1>2, <2>1, <2>2
  <2> QED BY <1>1, <2>3
<1>12. \A i \in 1 .. levels : i - 1 \in I => i \in I
  <2> SUFFICES ASSUME NEW i \in 1 .. levels, i - 1 \in I PROVE i \in I
    OBVIOUS
  <2> DEFINE X == ListeningTo(OuterChanges(up, top, i - 1))
             Y == ListeningTo(OuterChanges(up, top, i))
             x == told[i - 1]
             n == up[levels - i].net
             j == levels - i
  <2>1. X \in SUBSET (DOMAIN design.events)
    BY DEF ListeningTo
  <2>2. Telling(c, x, X)
    OBVIOUS
  <2>3. told[i] = LevelTurn(up, levels, i, x)
    BY <1>1, <1>9
  <2>4. Telling(c, ToldAll(x, n), X \cup Listening(n))
    <3> HIDE DEF x, X, I, n
    <3> QED BY <1>2, <2>1, <2>2, ToldAllDoes
  <2>5. \A o : o \in OuterChanges(up, top, i)
                 <=> o \in OuterChanges(up, top, i - 1) \/ (up[j].changed /\ o = n)
    <3>1. top + 1 - i .. top = (top + 1 - (i - 1) .. top) \cup {j}
      BY <1>1, <1>8
    <3> HIDE DEF j
    <3>2. n = up[j].net
      BY DEF j
    <3> HIDE DEF n
    <3> QED BY <3>1, <3>2 DEF OuterChanges
  <2>6. CASE up[j].changed
    <3>1. Y = X \cup Listening(n)
      <4> HIDE DEF n, j
      <4> QED BY <2>5, <2>6 DEF ListeningTo, Listening
    <3>2. told[i] = ToldAll(x, n)
      BY <2>3, <2>6 DEF LevelTurn
    <3> HIDE DEF X, Y, x, n, j
    <3>3. Telling(c, told[i], Y)
      BY <3>1, <3>2, <2>4
    <3> QED BY <3>3, <1>1 DEF Y
  <2>7. CASE ~up[j].changed
    <3>1. Y = X
      <4> HIDE DEF n, j
      <4> QED BY <2>5, <2>7 DEF ListeningTo
    <3>2. told[i] = x
      BY <2>3, <2>7 DEF LevelTurn
    <3> HIDE DEF X, Y, x, n, j
    <3>3. Telling(c, told[i], Y)
      BY <3>1, <3>2, <2>2
    <3> QED BY <3>3, <1>1 DEF Y
  <2> QED BY <2>6, <2>7
<1>13. levels \in I
  <2> HIDE DEF I
  <2>1. \A i \in 0 .. levels : i \in I
    BY <1>1, <1>11, <1>12, InductUpTo
  <2> QED BY <2>1, <1>1
<1>14. OuterChanges(up, top, levels) = Changes(up, top)
  <2>1. top + 1 - levels = 0
    BY <1>8
  <2> QED BY <2>1 DEF OuterChanges, Changes
<1>15. Telling(c, told[levels], ListeningTo(Changes(up, top)))
  BY <1>13, <1>14
<1> QED BY <1>10, <1>15

\* The nets that two stores differ in.
Differing(s, a) == {o \in DOMAIN Decl : a.st[o] # s.st[o]}

\* What an assignment makes of s: the nets that differ are those that have
\* changed, and of those who listen to one of them the bits are followed and
\* exactly those are queued that were active and waited for what happened.
Assigns(s, a) ==
  /\ Typed(a)
  /\ a.pending = s.pending /\ a.on = s.on /\ a.dumped = s.dumped
  /\ a.changed = s.changed \cup Differing(s, a)
  /\ \A e \in DOMAIN design.events :
       a.prev[e] = IF e \in ListeningTo(Differing(s, a)) /\ IsEdge(e)
                   THEN FirstBit(a.st, e) ELSE s.prev[e]
  /\ \A c \in Listeners :
       /\ a.queued[c] <=> \/ s.queued[c]
                          \/ /\ IsActive(s, c)
                             /\ \E e \in ListeningTo(Differing(s, a)) :
                                  /\ e[1] = c
                                  /\ IsEdge(e) =>
                                       Edge(s.prev[e], FirstBit(a.st, e)) = design.events[e].kind
       /\ ~a.queued[c] => a.active[c] = s.active[c]
  /\ \A u \in Updates : a.queued[u] = s.queued[u]

\* The nets on the way outside have their values.
LEMMA ClimbedType ==
  ASSUME DesignFits(design), NEW s, Typed(s),
         NEW top \in Nat, top = Cardinality(DOMAIN Decl),
         NEW up \in [0 .. top -> Climbs(design)], StoreFits(design, up[top].st)
  PROVE  LET c == Climbed(s, up)
         IN  /\ Typed(c)
             /\ c = [st |-> up[top].st, changed |-> s.changed \cup Changes(up, top),
                     prev |-> s.prev, active |-> s.active, pending |-> s.pending,
                     queue |-> s.queue, queued |-> s.queued, on |-> s.on, dumped |-> s.dumped]
<1> DEFINE c == Climbed(s, up)
           st == up[top].st
           ch == s.changed \cup Changes(up, top)
<1>1. s = [st |-> s.st, changed |-> s.changed, prev |-> s.prev, active |-> s.active,
          pending |-> s.pending, queue |-> s.queue, queued |-> s.queued,
          on |-> s.on, dumped |-> s.dumped]
  BY DEF Typed
<1>2. ch = s.changed \cup {up[k].net : k \in {j \in DOMAIN up : up[j].changed}}
  BY DEF Changes
<1>3. c = [s EXCEPT !.st = st, !.changed = ch]
  <2>1. c = [s EXCEPT !.st = up[Cardinality(DOMAIN Decl)].st,
            !.changed = s.changed \cup {up[k].net : k \in {j \in DOMAIN up : up[j].changed}}]
    BY Zenon DEF Climbed
  <2> HIDE DEF c, ch
  <2> QED BY <2>1, <1>2
<1>4. Changes(up, top) \subseteq DOMAIN Decl
  BY DEF Changes, Climbs, Decl
<1> HIDE DEF c, st, ch
<1>5. c = [st |-> st, changed |-> ch,
                     prev |-> s.prev, active |-> s.active, pending |-> s.pending,
                     queue |-> s.queue, queued |-> s.queued, on |-> s.on, dumped |-> s.dumped]
  BY <1>1, <1>3
<1>6. StoreFits(design, st) /\ ch \subseteq DOMAIN Decl
  BY <1>4 DEF st, ch, Typed, NetsFit, Decl
<1>7. Typed(c)
  BY <1>5, <1>6 DEF Typed, NetsFit, QueueFits, Decl
<1> QED BY <1>5, <1>7 DEF c, st, ch

\* A net is assigned, from a part of the value to the target that was
\* evaluated.
LEMMA AssignmentDoes ==
  ASSUME DesignFits(design), NEW s, Typed(s), NEW n \in DOMAIN Decl, NEW num \in Seq(Logic),
         NEW slice, SliceFits(num, slice.ms, slice.ls),
         NEW target, target.m \in Int, target.l \in Int
  PROVE  LET a == Assignment(s, n, num, slice, target)
         IN  /\ Assigns(s, a)
             /\ a.st[n] = Write(Decl, s.st, n, num, slice.ms, slice.ls, target.m, target.l).st[n]
             /\ \A group \in Groups(design) : \A o \in Differing(s, a) : group[o] = group[n]
<1> DEFINE top == Cardinality(DOMAIN Decl)
           up == Climb(Decl, s.st, n, num, slice.ms, slice.ls, target.m, target.l)
           w == Write(Decl, s.st, n, num, slice.ms, slice.ls, target.m, target.l)
           c == Climbed(s, up)
           a == AllTold(s, up)
           T == ListeningTo(Changes(up, top))
<1>1. StoreFits(design, s.st)
  BY DEF Typed, NetsFit
<1>2. /\ top \in Nat /\ up \in [0 .. top -> Climbs(design)]
      /\ StoreFits(design, up[top].st)
      /\ \A o \in DOMAIN Decl : up[top].st[o] # s.st[o] <=> o \in Changes(up, top)
      /\ up[top].st[n] = w.st[n]
      /\ \A group \in Groups(design) : \A o \in Changes(up, top) : group[o] = group[n]
  <2> DEFINE g == design
             st == s.st
             ms == slice.ms
             ls == slice.ls
             m == target.m
             l == target.l
  <2>1. DesignFits(g) /\ StoreFits(g, st) /\ n \in DOMAIN g.nets /\ SliceFits(num, ms, ls)
        /\ m \in Int /\ l \in Int
    BY <1>1 DEF Decl
  <2> HIDE DEF g, st, ms, ls, m, l
  <2>2. Climbing(g, st, n, Climb(g.nets, st, n, num, ms, ls, m, l),
                 Write(g.nets, st, n, num, ms, ls, m, l))
    BY <2>1, ClimbDoes
  <2> QED BY <2>2 DEF g, st, ms, ls, m, l, Decl, Climbing
<1>3. Assignment(s, n, num, slice, target) = a
  BY DEF Assignment
<1> HIDE DEF top, up, w
<1>4. /\ Typed(c)
      /\ c = [st |-> up[top].st, changed |-> s.changed \cup Changes(up, top),
                     prev |-> s.prev, active |-> s.active, pending |-> s.pending,
                     queue |-> s.queue, queued |-> s.queued, on |-> s.on, dumped |-> s.dumped]
  BY <1>2, ClimbedType DEF top
<1>5. Telling(c, a, T)
  <2>1. top = Cardinality(DOMAIN Decl)
    BY DEF top
  <2>2. c = Climbed(s, up)
    OBVIOUS
  <2> HIDE DEF c
  <2> QED BY <1>2, <1>4, <2>1, <2>2, AllToldDoes
<1> HIDE DEF c, a
<1>6. /\ a \in TellSet(c) /\ QueueFits(design, a)
      /\ a.st = up[top].st /\ a.changed = s.changed \cup Changes(up, top)
      /\ a.pending = s.pending /\ a.on = s.on /\ a.dumped = s.dumped
      /\ a.prev \in [DOMAIN design.events -> Logic] /\ a.active \in [Listeners -> BOOLEAN]
  BY <1>4, <1>5 DEF Telling, TellSet
<1>7. Changes(up, top) = Differing(s, a)
  <2>1. Changes(up, top) \subseteq DOMAIN Decl
    BY <1>2 DEF Changes, Climbs, Decl
  <2> QED BY <2>1, <1>2, <1>6 DEF Differing
<1>8. Typed(a)
  <2>1. a = [st |-> a.st, changed |-> a.changed, prev |-> a.prev, active |-> a.active,
          pending |-> a.pending, queue |-> a.queue, queued |-> a.queued,
          on |-> a.on, dumped |-> a.dumped]
    BY <1>6 DEF TellSet
  <2>2. a.changed \subseteq DOMAIN Decl
    BY <1>6, <1>7 DEF Differing, Typed, NetsFit, Decl
  <2> QED BY <2>1, <2>2, <1>2, <1>6 DEF Typed, NetsFit, Decl
<1>9. \A e \in DOMAIN design.events :
       a.prev[e] = IF e \in T /\ IsEdge(e) THEN FirstBit(a.st, e) ELSE s.prev[e]
  <2>1. c.st = a.st /\ c.prev = s.prev
    BY <1>4, <1>6
  <2> QED BY <1>5, <2>1 DEF Telling
<1>10. \A d \in Listeners :
       /\ a.queued[d] <=> \/ s.queued[d]
                          \/ /\ IsActive(s, d)
                             /\ \E e \in T :
                                  /\ e[1] = d
                                  /\ IsEdge(e) =>
                                       Edge(s.prev[e], FirstBit(a.st, e)) = design.events[e].kind
       /\ ~a.queued[d] => a.active[d] = s.active[d]
  <2>1. c.st = a.st /\ c.prev = s.prev /\ c.queued = s.queued /\ c.active = s.active
    BY <1>4, <1>6
  <2>2. \A d : IsActive(c, d) <=> IsActive(s, d)
    BY <2>1 DEF IsActive
  <2>3. \A e : Fires(c, e) <=> (IsEdge(e) => Edge(s.prev[e], FirstBit(a.st, e)) = design.events[e].kind)
    BY <2>1 DEF Fires
  <2> QED BY <1>5, <2>1, <2>2, <2>3 DEF Telling
<1>11. \A u \in Updates : a.queued[u] = s.queued[u]
  <2>1. c.queued = s.queued
    BY <1>4
  <2> QED BY <1>5, <2>1 DEF Telling
<1>12. T = ListeningTo(Differing(s, a))
  BY <1>7
<1> HIDE DEF T
<1>13. Assigns(s, a)
  BY <1>6, <1>7, <1>8, <1>9, <1>10, <1>11, <1>12 DEF Assigns
<1>14. \A group \in Groups(design) : \A o \in Differing(s, a) : group[o] = group[n]
  BY <1>2, <1>7
<1> QED BY <1>2, <1>3, <1>6, <1>13, <1>14 DEF w
-----------------------------------------------------------------------------
(***************************************************************************)
(* Left hand sides.                                                        *)
(***************************************************************************)

\* What any number of assignments leave: a net that has not changed is as it
\* was, and the updates that are queued are the same.
Keeps(s, a) ==
  /\ Typed(a)
  /\ a.pending = s.pending /\ a.on = s.on /\ a.dumped = s.dumped
  /\ \A n \in DOMAIN Decl : n \notin a.changed => n \notin s.changed /\ a.st[n] = s.st[n]
  /\ \A u \in Updates : a.queued[u] = s.queued[u]

\* No assignment leaves that, and one more does not matter.
LEMMA KeepsMore ==
  ASSUME NEW s, Typed(s)
  PROVE  /\ Keeps(s, s)
         /\ \A t, a : Keeps(s, t) /\ Assigns(t, a) => Keeps(s, a)
<1>1. Keeps(s, s)
  BY DEF Keeps
<1>2. ASSUME NEW t, NEW a, Keeps(s, t), Assigns(t, a) PROVE Keeps(s, a)
  <2>1. \A n \in DOMAIN Decl : n \notin a.changed => n \notin s.changed /\ a.st[n] = s.st[n]
    BY <1>2 DEF Keeps, Assigns, Differing
  <2> QED BY <2>1, <1>2 DEF Keeps, Assigns
<1> QED BY <1>1, <1>2

\* The states that assignments lead to.
KeepStates(s) ==
  {t \in [st : Stores(design), changed : SUBSET DOMAIN Decl,
          prev : [DOMAIN design.events -> Logic], active : [Listeners -> BOOLEAN],
          pending : {s.pending}, queue : [Q!Strata -> Seq(AllEvents)],
          queued : [Listeners \cup Updates -> BOOLEAN], on : {s.on}, dumped : {s.dumped}] :
     Keeps(s, t)}

\* These are all of them.
LEMMA KeepStatesAre ==
  ASSUME NEW s, NEW t
  PROVE  t \in KeepStates(s) <=> Keeps(s, t)
<1> SUFFICES ASSUME Keeps(s, t) PROVE t \in KeepStates(s)
  BY DEF KeepStates
<1>1. Typed(t) /\ t.pending = s.pending /\ t.on = s.on /\ t.dumped = s.dumped
  BY DEF Keeps
<1>2. t.st \in Stores(design)
  BY <1>1, StoresFit DEF Typed, NetsFit
<1>3. /\ t.changed \in SUBSET DOMAIN Decl
      /\ t.prev \in [DOMAIN design.events -> Logic] /\ t.active \in [Listeners -> BOOLEAN]
      /\ t.queued \in [Listeners \cup Updates -> BOOLEAN]
      /\ t.queue \in [Q!Strata -> Seq(AllEvents)]
  BY <1>1 DEF Typed, NetsFit, QueueFits, Decl
<1>4. t = [st |-> t.st, changed |-> t.changed, prev |-> t.prev, active |-> t.active,
          pending |-> t.pending, queue |-> t.queue, queued |-> t.queued,
          on |-> t.on, dumped |-> t.dumped]
  BY <1>1 DEF Typed
<1> QED BY <1>1, <1>2, <1>3, <1>4 DEF KeepStates

\* An element takes its part of the value.
LEMMA ElementFits ==
  ASSUME NEW lval, NEW num, LvalFits(Decl, lval, Len(num)), NEW i \in DOMAIN lval
  PROVE  /\ SliceFits(num, Elements(Decl, lval)[i].ms, Elements(Decl, lval)[i].ls)
         /\ Len(lval) = 1 => Elements(Decl, lval)[i] = [ms |-> None, ls |-> None]
<1>1. CASE Len(lval) = 1
  <2>1. Elements(Decl, lval)[i] = [ms |-> None, ls |-> None]
    BY <1>1 DEF Elements
  <2> QED BY <2>1 DEF SliceFits
<1>2. CASE Len(lval) # 1
  <2>1. Len(lval) > 1
    BY <1>2 DEF LvalFits
  <2> QED BY <2>1, <1>2 DEF LvalFits, SliceFits
<1> QED BY <1>1, <1>2

\* Targets that were evaluated before, or none.
TargetsFit(lval, targets) ==
  targets = <<>> \/ /\ DOMAIN targets = DOMAIN lval
                    /\ \A i \in DOMAIN targets : targets[i].m \in Int /\ targets[i].l \in Int

\* The i-th element of a left hand side is assigned.
IntoElement(lval, num, targets, i, t) ==
  Assignment(t, lval[i].net, num, Elements(Decl, lval)[i],
             IF targets = <<>> THEN Target(t, lval[i]) ELSE targets[i])

\* The target of an element is an index or a part.
LEMMA TargetType ==
  ASSUME DesignFits(design), NEW s, Typed(s), NEW x, NameFits(Decl, x)
  PROVE  /\ Target(s, x).m \in Int /\ Target(s, x).l \in Int
         /\ SelFits(Decl[x.net], Target(s, x).m, Target(s, x).l)
<1>1. NetsFit1(Decl) /\ StoreTyped(Decl, s.st)
  BY DesignNets, StoreIsTyped DEF Decl, Typed, NetsFit
<1>2. SelFits(Decl[x.net], Target(s, x).m, Target(s, x).l)
  BY <1>1, SelectedType DEF Target
<1> QED BY <1>2 DEF SelFits

\* That is an assignment to a net.
LEMMA IntoElementType ==
  ASSUME DesignFits(design), NEW num \in Seq(Logic), NEW lval, LvalFits(Decl, lval, Len(num)),
         NEW targets, TargetsFit(lval, targets), NEW i \in DOMAIN lval, NEW t, Typed(t)
  PROVE  LET a == IntoElement(lval, num, targets, i, t)
         IN  /\ Assigns(t, a)
             /\ \A group \in Groups(design) : \A o \in Differing(t, a) : group[o] = group[lval[i].net]
<1> DEFINE n == lval[i].net
           slice == Elements(Decl, lval)[i]
           target == IF targets = <<>> THEN Target(t, lval[i]) ELSE targets[i]
<1>1. NameFits(Decl, lval[i]) /\ n \in DOMAIN Decl
  BY DEF LvalFits, NameFits
<1>2. SliceFits(num, slice.ms, slice.ls)
  BY ElementFits
<1>3. target.m \in Int /\ target.l \in Int
  BY <1>1, TargetType DEF TargetsFit
<1> HIDE DEF n, slice, target
<1> DEFINE a == Assignment(t, n, num, slice, target)
<1>4. Assigns(t, a) /\ \A group \in Groups(design) : \A o \in Differing(t, a) : group[o] = group[n]
  BY <1>1, <1>2, <1>3, AssignmentDoes
<1> HIDE DEF a
<1>5. a = IntoElement(lval, num, targets, i, t)
  BY DEF a, n, slice, target, IntoElement
<1> QED BY <1>4, <1>5 DEF n

\* The elements of a left hand side are assigned one after the other.
LEMMA IntoSteps ==
  ASSUME DesignFits(design), NEW s, Typed(s), NEW num \in Seq(Logic),
         NEW lval, LvalFits(Decl, lval, Len(num)), NEW targets, TargetsFit(lval, targets)
  PROVE  \E into \in [0 .. Len(lval) -> KeepStates(s)] :
           /\ into[0] = s
           /\ \A i \in 1 .. Len(lval) : into[i] = IntoElement(lval, num, targets, i, into[i - 1])
           /\ Into(s, lval, num, targets) = into[Len(lval)]
<1> DEFINE L == Len(lval)
           S == KeepStates(s)
           G == [i \in 1 .. L |-> [x \in S |-> IntoElement(lval, num, targets, i, x)]]
           into == CHOOSE f : f = [i \in 0 .. Len(lval) |->
             IF i = 0 THEN s
             ELSE Assignment(f[i - 1], lval[i].net, num, Elements(Decl, lval)[i],
                    IF targets = <<>> THEN Target(f[i - 1], lval[i]) ELSE targets[i])]
<1>1. L \in Nat /\ DOMAIN lval = 1 .. L
  BY DEF LvalFits
<1>2. s \in S
  BY KeepsMore, KeepStatesAre
<1>3. G \in [1 .. L -> [S -> S]]
  <2> SUFFICES ASSUME NEW i \in 1 .. L, NEW x \in S
               PROVE  IntoElement(lval, num, targets, i, x) \in S
    OBVIOUS
  <2>1. Keeps(s, x) /\ Typed(x)
    BY KeepStatesAre DEF Keeps
  <2>2. Assigns(x, IntoElement(lval, num, targets, i, x))
    BY <1>1, <2>1, IntoElementType
  <2> QED BY <2>1, <2>2, KeepsMore, KeepStatesAre
<1> HIDE DEF S, L
<1>4. PICK f : Steps(f, L, S, s, G)
  <2> HIDE DEF G
  <2> QED BY <1>1, <1>2, <1>3, Recursive
<1>5. /\ f \in [0 .. L -> S] /\ f[0] = s
      /\ \A i \in 1 .. L : f[i - 1] \in S /\ f[i] = IntoElement(lval, num, targets, i, f[i - 1])
  <2>1. f \in [0 .. L -> S] /\ f[0] = s /\ \A i \in 1 .. L : f[i] = G[i][f[i - 1]]
    BY <1>4 DEF Steps
  <2>2. \A i \in 1 .. L : f[i - 1] \in S
    BY <1>1, <2>1
  <2> QED BY <2>1, <2>2
<1>6. f = [i \in 0 .. L |-> IF i = 0 THEN s ELSE IntoElement(lval, num, targets, i, f[i - 1])]
  <2>1. \A i \in 0 .. L : f[i] = IF i = 0 THEN s ELSE IntoElement(lval, num, targets, i, f[i - 1])
    BY <1>1, <1>5
  <2>2. f = [i \in 0 .. L |-> f[i]]
    BY <1>5
  <2> QED BY <2>1, <2>2
<1>7. into = [i \in 0 .. L |-> IF i = 0 THEN s ELSE IntoElement(lval, num, targets, i, into[i - 1])]
  <2>1. f = [i \in 0 .. Len(lval) |->
             IF i = 0 THEN s
             ELSE Assignment(f[i - 1], lval[i].net, num, Elements(Decl, lval)[i],
                    IF targets = <<>> THEN Target(f[i - 1], lval[i]) ELSE targets[i])]
    BY <1>6, Zenon DEF L, IntoElement
  <2>2. into = [i \in 0 .. Len(lval) |->
             IF i = 0 THEN s
             ELSE Assignment(into[i - 1], lval[i].net, num, Elements(Decl, lval)[i],
                    IF targets = <<>> THEN Target(into[i - 1], lval[i]) ELSE targets[i])]
    BY <2>1, Zenon
  <2> HIDE DEF into
  <2> QED BY <2>2, Zenon DEF L, IntoElement
<1>8. Into(s, lval, num, targets) = into[L]
  BY Zenon DEF Into, L
<1> HIDE DEF into, G
<1>9. /\ into[0] = s
      /\ \A i \in 1 .. L : into[i] = IntoElement(lval, num, targets, i, into[i - 1])
  BY <1>1, <1>7
<1>10. Steps(into, L, S, s, G)
  <2>1. FunctionOn(into, 0 .. L)
    BY <1>7 DEF FunctionOn
  <2>2. \A i \in 1 .. L : into[i - 1] \in S => into[i] = G[i][into[i - 1]]
    BY <1>9 DEF G
  <2> QED BY <1>1, <1>2, <1>3, <1>9, <2>1, <2>2, StepsOf
<1>11. into \in [0 .. L -> S]
  BY <1>10 DEF Steps
<1> QED BY <1>8, <1>9, <1>11 DEF S, L

\* In the end there is one such state.
LEMMA IntoDoes ==
  ASSUME DesignFits(design), NEW s, Typed(s), NEW num \in Seq(Logic),
         NEW lval, LvalFits(Decl, lval, Len(num)), NEW targets, TargetsFit(lval, targets)
  PROVE  /\ Keeps(s, Into(s, lval, num, targets))
         /\ Len(lval) = 1 => Into(s, lval, num, targets) = IntoElement(lval, num, targets, 1, s)
<1> DEFINE L == Len(lval)
           a == Into(s, lval, num, targets)
<1>1. L \in Nat \ {0}
  BY DEF LvalFits
<1>2. PICK into \in [0 .. L -> KeepStates(s)] :
           /\ into[0] = s
           /\ \A i \in 1 .. L : into[i] = IntoElement(lval, num, targets, i, into[i - 1])
           /\ a = into[L]
  BY IntoSteps
<1> HIDE DEF L, a
<1>3. a \in KeepStates(s)
  BY <1>1, <1>2
<1>4. L = 1 => a = IntoElement(lval, num, targets, 1, s)
  <2>1. 1 - 1 = 0
    OBVIOUS
  <2> QED BY <1>2, <2>1
<1> QED BY <1>3, <1>4, KeepStatesAre DEF L, a
-----------------------------------------------------------------------------
(***************************************************************************)
(* Statements.                                                             *)
(***************************************************************************)

\* The dump shows the nets as they are, where they have not changed.
Follows(s) ==
  s.on \/ time = 0 =>
    \A n \in DumpedNets \ design.locals :
      ~Inward(Decl[n]) /\ n \notin s.changed => s.dumped[n] = Shown(s.st, n)

\* The part of the invariant that statements are executed under.
StateOK(s) ==
  /\ Typed(s)
  /\ DOMAIN s.pending = Updates /\ \A u \in Updates : PendingFits(design, s.pending[u])
  /\ s.on \in BOOLEAN /\ DOMAIN s.dumped = DumpedNets
  /\ Follows(s)

\* A value has the width of its expression.
LEMMA ValueSeq ==
  ASSUME DesignFits(design), NEW s, Typed(s), NEW e, ExprFits(Decl, e)
  PROVE  /\ Value(Decl, s.st, e) \in Seq(Logic) /\ Value(Decl, s.st, e) # <<>>
         /\ Len(Value(Decl, s.st, e)) = ExprWidth(Decl, e)
         /\ Value(Decl, s.st, e) \in [1 .. ExprWidth(Decl, e) -> Logic] /\ ExprWidth(Decl, e) \in Nat \ {0}
<1> DEFINE n == ExprWidth(Decl, e)
           v == Value(Decl, s.st, e)
<1>1. NetsFit1(Decl) /\ StoreTyped(Decl, s.st)
  BY DesignNets, StoreIsTyped DEF Decl, Typed, NetsFit
<1>2. n \in Nat \ {0} /\ v \in [1 .. n -> Logic]
  BY <1>1, ValueType
<1> HIDE DEF n, v
<1>3. n \in Nat
  BY <1>2
<1>4. v \in Seq(Logic) /\ Len(v) = n
  BY <1>2, <1>3, BitsLen
<1>5. v # <<>>
  BY <1>2, <1>4
<1> QED BY <1>2, <1>4, <1>5 DEF n, v

\* What the dump shows of a net that is no input is what the net holds.
LEMMA ShownHere ==
  ASSUME DesignFits(design), NEW st, NEW sto, NEW n \in DumpedNets, ~Inward(Decl[n]), st[n] = sto[n]
  PROVE  Shown(st, n) = Shown(sto, n)
<1>1. NetsFit1(Decl) /\ n \in DOMAIN Decl
  BY DesignNets DEF Decl, DumpedNets
<1>2. /\ Evaluated(Decl, st, n, None, None) = SeenIn(Decl[n], st[n], None, None)
      /\ Evaluated(Decl, sto, n, None, None) = SeenIn(Decl[n], sto[n], None, None)
  BY <1>1, EvaluatedHere
<1> QED BY <1>2 DEF Shown

\* Assignments leave the dump as it must be.
LEMMA KeepsOK ==
  ASSUME DesignFits(design), NEW s, StateOK(s), NEW a, Keeps(s, a)
  PROVE  StateOK(a)
<1>1. Typed(a) /\ a.pending = s.pending /\ a.on = s.on /\ a.dumped = s.dumped
  BY DEF Keeps
<1>2. Follows(a)
  <2> SUFFICES ASSUME a.on \/ time = 0, NEW n \in DumpedNets \ design.locals,
                      ~Inward(Decl[n]), n \notin a.changed
               PROVE  a.dumped[n] = Shown(a.st, n)
    BY DEF Follows
  <2>1. n \in DOMAIN Decl
    BY DEF DumpedNets
  <2>2. n \notin s.changed /\ a.st[n] = s.st[n]
    BY <2>1 DEF Keeps
  <2>3. s.dumped[n] = Shown(s.st, n)
    BY <1>1, <2>2 DEF StateOK, Follows
  <2>4. Shown(a.st, n) = Shown(s.st, n)
    BY <2>2, ShownHere
  <2> QED BY <1>1, <2>3, <2>4
<1> QED BY <1>1, <1>2 DEF StateOK

\* Of the updates, none but u is affected.
Others(s, a, u) ==
  \A v \in Updates : v # u => a.queued[v] = s.queued[v] /\ a.pending[v] = s.pending[v]

\* A blocking assignment.
LEMMA BlockingDoes ==
  ASSUME DesignFits(design), NEW s, Typed(s), NEW p, StatementFits(design, p), p.kind = "set"
  PROVE  Keeps(s, Blocking(s, p))
<1> DEFINE v == Value(Decl, s.st, p.rval)
<1>1. ExprFits(Decl, p.rval) /\ LvalFits(Decl, p.lval, ExprWidth(Decl, p.rval))
  BY DEF StatementFits, Decl
<1>2. v \in Seq(Logic) /\ Len(v) = ExprWidth(Decl, p.rval)
  BY <1>1, ValueSeq
<1> HIDE DEF v
<1>3. Keeps(s, Into(s, p.lval, v, <<>>))
  BY <1>1, <1>2, IntoDoes DEF TargetsFit
<1>4. Keeps(s, s)
  BY KeepsMore
<1> QED BY <1>3, <1>4 DEF Blocking, BlockingValue, Store, v

\* The arguments of a task leave it as an assignment does.
LEMMA ExitDoes ==
  ASSUME DesignFits(design), NEW s, Typed(s), NEW p, StatementFits(design, p), p.kind = "exit"
  PROVE  Keeps(s, Exit(s, p)) /\ Assigns(s, Exit(s, p))
<1> DEFINE x == p.lval[1]
           v == Whole(s.st, p.of)
           target == Target(s, x)
           slice == [ms |-> None, ls |-> None]
<1>1. p.of \in DOMAIN Decl /\ ~IsMemory(Decl[p.of]) /\ NameFits(Decl, x)
  BY DEF StatementFits, Decl
<1>2. v \in Seq(Logic)
  <2>1. StoreTyped(Decl, s.st) /\ NetFits(Decl, p.of)
    BY <1>1, StoreIsTyped DEF Typed, NetsFit, Decl, DesignFits
  <2>2. s.st[p.of][0] \in [1 .. Decl[p.of].size -> Logic] /\ Decl[p.of].size \in Nat
    BY <1>1, <2>1 DEF StoreTyped, NetFits
  <2> QED BY <2>2, BitsLen DEF Whole
<1>3. target.m \in Int /\ target.l \in Int
  BY <1>1, TargetType
<1>4. x.net \in DOMAIN Decl
  BY <1>1 DEF NameFits
<1>5. SliceFits(v, slice.ms, slice.ls)
  BY DEF SliceFits
<1> DEFINE n == x.net
<1> HIDE DEF v, target, slice, n
<1>6. Assigns(s, Assignment(s, n, v, slice, target))
  BY <1>2, <1>3, <1>4, <1>5, AssignmentDoes DEF n
<1>7. Keeps(s, Assignment(s, n, v, slice, target))
  BY <1>6, KeepsMore
<1> QED BY <1>6, <1>7 DEF Exit, v, target, slice, n

\* A task gets its arguments: a local variable changes, and it is not dumped.
LEMMA EntryDoes ==
  ASSUME DesignFits(design), NEW s, StateOK(s), NEW p, StatementFits(design, p), p.kind = "entry"
  PROVE  LET a == Entry(s, p)
         IN  /\ StateOK(a) /\ a.pending = s.pending /\ a.queued = s.queued /\ a.prev = s.prev
             /\ \A n \in DOMAIN Decl \ design.locals : s.st[n] = a.st[n]
<1> DEFINE o == p.lval[1].net
           v == Fit(Value(Decl, s.st, p.rval), Decl[o].size)
           st == [s.st EXCEPT ![o][0] = v]
           a == Entry(s, p)
<1>1. ExprFits(Decl, p.rval) /\ o \in design.locals /\ o \in DOMAIN Decl /\ ~IsMemory(Decl[o])
  BY DEF StatementFits, Decl, DesignFits
<1>2. Typed(s) /\ StoreFits(design, s.st)
  BY DEF StateOK, Typed, NetsFit
<1>3. Decl[o].size \in Nat
  BY <1>1 DEF DesignFits, NetFits, Decl
<1>4. v \in [1 .. Decl[o].size -> Logic]
  BY <1>1, <1>2, <1>3, ValueSeq, FitType
<1>5. DOMAIN design.init[o] = {0}
  BY <1>1 DEF DesignFits, Decl
<1> HIDE DEF v, o, a
<1>6. /\ DOMAIN s.st = DOMAIN Decl
      /\ s.st[o] \in [{0} -> [1 .. Decl[o].size -> Logic]]
  BY <1>1, <1>2, <1>5 DEF StoreFits, Words, Decl
<1>7. st[o] = [s.st[o] EXCEPT ![0] = v] /\ \A n \in DOMAIN Decl : n # o => st[n] = s.st[n]
  BY <1>1, <1>6
<1>8. st = [n \in DOMAIN Decl |-> st[n]]
  BY <1>2, <1>6 DEF StoreFits, Decl
<1>9. st[o] \in Words(design, o)
  BY <1>4, <1>5, <1>6, <1>7 DEF Words, Decl
<1>10. StoreFits(design, st)
  <2> HIDE DEF st
  <2> QED BY <1>2, <1>7, <1>8, <1>9 DEF StoreFits, Decl
<1>11. s = [st |-> s.st, changed |-> s.changed, prev |-> s.prev, active |-> s.active,
          pending |-> s.pending, queue |-> s.queue, queued |-> s.queued,
          on |-> s.on, dumped |-> s.dumped]
  BY <1>2 DEF Typed
<1>12. a = [s EXCEPT !.st = st]
  <2>1. a = [s EXCEPT !.st = [s.st EXCEPT ![p.lval[1].net][0] = Fit(Value(Decl, s.st, p.rval), Decl[p.lval[1].net].size)]]
    BY Zenon DEF Entry, a
  <2> QED BY <2>1, Zenon DEF o, v
<1> HIDE DEF st
<1>13. a = [st |-> st, changed |-> s.changed, prev |-> s.prev, active |-> s.active,
          pending |-> s.pending, queue |-> s.queue, queued |-> s.queued,
          on |-> s.on, dumped |-> s.dumped]
  BY <1>11, <1>12
<1>14. Typed(a)
  BY <1>2, <1>10, <1>13 DEF Typed, NetsFit, QueueFits
<1>15. Follows(a)
  <2> SUFFICES ASSUME a.on \/ time = 0, NEW n \in DumpedNets \ design.locals,
                      ~Inward(Decl[n]), n \notin a.changed
               PROVE  a.dumped[n] = Shown(a.st, n)
    BY DEF Follows
  <2>1. n \in DOMAIN Decl /\ n # o
    BY <1>1 DEF DumpedNets
  <2>2. s.dumped[n] = Shown(s.st, n)
    BY <1>13 DEF StateOK, Follows
  <2>3. Shown(st, n) = Shown(s.st, n)
    BY <1>7, <2>1, ShownHere
  <2> QED BY <1>13, <2>2, <2>3
<1>16. \A n \in DOMAIN Decl \ design.locals : s.st[n] = a.st[n]
  BY <1>1, <1>7, <1>13
<1> QED BY <1>13, <1>14, <1>15, <1>16 DEF StateOK, a

\* The record of a state, and what becomes of it when some of it changes.
LEMMA RecordOf ==
  ASSUME NEW s, Typed(s)
  PROVE  s = [st |-> s.st, changed |-> s.changed, prev |-> s.prev, active |-> s.active,
          pending |-> s.pending, queue |-> s.queue, queued |-> s.queued,
          on |-> s.on, dumped |-> s.dumped]
BY DEF Typed

\* In a the update of p has got a value and is queued, and nothing else.
Postponed(s, p, a) ==
  /\ Others(s, a, p.of) /\ a.queued[p.of] = TRUE
  /\ a.pending[p.of] # Nothing /\ a.pending[p.of].lval = p.lval
  /\ a.pending[p.of].targets = Targets(Decl, s.st, p.lval)
  /\ a.st = s.st /\ a.prev = s.prev
  /\ \A c \in Listeners : a.queued[c] = s.queued[c]

\* A nonblocking assignment queues its update, if it is not queued yet, and
\* remembers the value and where it goes.
LEMMA NonblockingDoes ==
  ASSUME DesignFits(design), NEW s, StateOK(s), NEW p, StatementFits(design, p), p.kind = "later"
  PROVE  LET a == Nonblocking(s, p)
         IN  StateOK(a) /\ Postponed(s, p, a)
<1> DEFINE v == Value(Decl, s.st, p.rval)
           t == Targets(Decl, s.st, p.lval)
           u == p.of
           new == [lval |-> p.lval, targets |-> t, value |-> v]
           pe == [s.pending EXCEPT ![u] = new]
           qd == [s.queued EXCEPT ![u] = TRUE]
           l == s.queue["nonblocking"]
           nl == IF s.queued[u] THEN l ELSE Append(l, <<u, 1>>)
           q == [s.queue EXCEPT !["nonblocking"] = nl]
           a == Nonblocking(s, p)
<1>1. ExprFits(Decl, p.rval) /\ LvalFits(Decl, p.lval, ExprWidth(Decl, p.rval)) /\ u \in Updates
  BY DEF StatementFits, Decl
<1>2. Typed(s) /\ QueueFits(design, s) /\ NetsFit(design, s)
  BY DEF StateOK, Typed
<1>3. v \in Seq(Logic) /\ v # <<>> /\ Len(v) = ExprWidth(Decl, p.rval)
  BY <1>1, <1>2, ValueSeq
<1>4. PendingFits(design, new)
  <2>1. DOMAIN t = DOMAIN p.lval
    BY DEF Targets
  <2>2. \A i \in DOMAIN t : t[i].m \in Int /\ t[i].l \in Int
    <3> SUFFICES ASSUME NEW i \in DOMAIN p.lval PROVE t[i].m \in Int /\ t[i].l \in Int
      BY <2>1
    <3>1. NameFits(Decl, p.lval[i])
      BY <1>1 DEF LvalFits
    <3>2. t[i] = Target(s, p.lval[i])
      BY DEF Targets, Target
    <3> HIDE DEF t
    <3> QED BY <1>2, <3>1, <3>2, TargetType
  <2>3. /\ LvalFits(design.nets, new.lval, Len(new.value)) /\ new.value \in Seq(Logic)
        /\ new.value # <<>>
    BY <1>1, <1>3 DEF Decl
  <2> HIDE DEF t
  <2> QED BY <2>1, <2>2, <2>3 DEF PendingFits
<1>5. new # Nothing
  <2>1. p.lval # <<>>
    BY <1>1 DEF LvalFits
  <2> HIDE DEF v, t
  <2> QED BY <2>1 DEF Nothing
<1>18. new.lval = p.lval /\ new.targets = t /\ t = Targets(Decl, s.st, p.lval)
  OBVIOUS
<1> HIDE DEF new, v, t
<1>6. /\ DOMAIN pe = Updates /\ \A w \in Updates : PendingFits(design, pe[w])
      /\ pe[u] = new /\ \A w \in Updates : w # u => pe[w] = s.pending[w]
  BY <1>1, <1>4 DEF StateOK
<1>7. /\ qd \in [Listeners \cup Updates -> BOOLEAN] /\ qd[u] = TRUE
      /\ \A c \in Listeners \cup Updates : c # u => qd[c] = s.queued[c]
      /\ s.queued \in [Listeners \cup Updates -> BOOLEAN]
  BY <1>1, <1>2 DEF QueueFits
<1>8. "active" \in Q!Strata /\ "nonblocking" \in Q!Strata /\ "active" # "nonblocking"
  BY StrataNames
<1>9. ListOf(nl, qd, Updates, Updates \X {1})
  <2> DEFINE E == Updates \X {1}
             flag == s.queued
             e == <<u, 1>>
  <2>1. ListOf(l, flag, Updates, E) /\ e \in E /\ e[1] = u /\ Updates \subseteq DOMAIN flag
    BY <1>1, <1>2, <1>7 DEF QueueFits
  <2>2. CASE s.queued[u]
    <3>1. \A c \in Updates : qd[c] = flag[c]
      BY <1>7, <2>2
    <3> HIDE DEF E, flag, qd, l
    <3>2. ListOf(l, qd, Updates, E)
      BY <2>1, <3>1, ListElsewhere
    <3> QED BY <3>2, <2>2 DEF E, flag
  <2>3. CASE ~s.queued[u]
    <3>1. ~flag[e[1]] /\ e[1] \in Updates
      BY <2>1, <2>3, <1>1
    <3>2. ListOf(Append(l, e), [flag EXCEPT ![e[1]] = TRUE], Updates, E)
      <4> HIDE DEF l, E, flag, e
      <4> QED BY <2>1, <3>1, ListAppend
    <3>3. nl = Append(l, e) /\ qd = [flag EXCEPT ![e[1]] = TRUE]
      BY <2>1, <2>3
    <3> HIDE DEF nl, qd, l, e, flag
    <3> QED BY <3>2, <3>3 DEF E
  <2> QED BY <2>2, <2>3
<1>10. ListOf(s.queue["active"], qd, Listeners, DOMAIN design.events)
  <2> DEFINE E == DOMAIN design.events
             flag == s.queued
             al == s.queue["active"]
  <2>1. ListOf(al, flag, Listeners, E) /\ \A c \in Listeners : qd[c] = flag[c]
    BY <1>1, <1>2, <1>7, NetsAssumption DEF QueueFits
  <2> HIDE DEF E, flag, al, qd
  <2>2. ListOf(al, qd, Listeners, E)
    BY <2>1, ListElsewhere
  <2> QED BY <2>2 DEF E, al
<1>11. /\ q \in [Q!Strata -> Seq(AllEvents)] /\ q["nonblocking"] = nl
       /\ \A k \in Q!Strata : k # "nonblocking" => q[k] = s.queue[k]
  <2>1. nl \in Seq(AllEvents)
    <3>1. nl \in Seq(Updates \X {1})
      BY <1>9 DEF ListOf
    <3> HIDE DEF nl
    <3> QED BY <3>1 DEF AllEvents
  <2> HIDE DEF nl
  <2> QED BY <1>2, <1>8, <2>1 DEF QueueFits
<1>12. a = [st |-> s.st, changed |-> s.changed, prev |-> s.prev, active |-> s.active,
          pending |-> pe, queue |-> q, queued |-> qd,
          on |-> s.on, dumped |-> s.dumped]
  <2>1. s = [st |-> s.st, changed |-> s.changed, prev |-> s.prev, active |-> s.active,
          pending |-> s.pending, queue |-> s.queue, queued |-> s.queued,
          on |-> s.on, dumped |-> s.dumped]
    BY <1>2, RecordOf
  <2>2. Pended(s, p) = [s EXCEPT !.pending = pe]
    BY Zenon DEF Pended, new, v, t
  <2> DEFINE x == Pended(s, p)
  <2>3. a = [x EXCEPT !.queue = [x.queue EXCEPT !["nonblocking"] =
                                    IF s.queued[p.of] THEN x.queue["nonblocking"]
                                    ELSE Append(x.queue["nonblocking"], <<p.of, 1>>)],
                      !.queued = [x.queued EXCEPT ![p.of] = TRUE]]
    BY Zenon DEF Nonblocking
  <2> HIDE DEF pe, a, x
  <2>4. x = [st |-> s.st, changed |-> s.changed, prev |-> s.prev, active |-> s.active,
          pending |-> pe, queue |-> s.queue, queued |-> s.queued,
          on |-> s.on, dumped |-> s.dumped]
    BY <2>1, <2>2 DEF x
  <2>5. x.queue = s.queue /\ x.queued = s.queued
    BY <2>4
  <2>6. a = [x EXCEPT !.queue = q, !.queued = qd]
    BY <2>3, <2>5
  <2> HIDE DEF q, qd
  <2> QED BY <2>4, <2>6
<1> HIDE DEF a, pe, q, qd, nl, l
<1>13. QueueFits(design, a)
  <2>1. a.queue = q /\ a.queued = qd
    BY <1>12
  <2>2. q["active"] = s.queue["active"]
    BY <1>8, <1>11
  <2>3. \A k \in Q!Strata \ {"active", "nonblocking"} : q[k] = <<>>
    BY <1>2, <1>11 DEF QueueFits
  <2> QED BY <2>1, <2>2, <2>3, <1>7, <1>9, <1>10, <1>11 DEF QueueFits
<1>14. Typed(a)
  <2>1. NetsFit(design, a)
    BY <1>2, <1>12 DEF NetsFit
  <2> QED BY <2>1, <1>12, <1>13 DEF Typed
<1>15. Follows(a)
  BY <1>12 DEF StateOK, Follows
<1>16. StateOK(a)
  BY <1>6, <1>12, <1>14, <1>15 DEF StateOK
<1>17. Others(s, a, u) /\ a.queued[u] = TRUE /\ a.pending[u] # Nothing
  BY <1>5, <1>6, <1>7, <1>12 DEF Others
<1>19. a.pending[u].lval = p.lval /\ a.pending[u].targets = Targets(Decl, s.st, p.lval)
       /\ a.st = s.st /\ a.prev = s.prev
  BY <1>6, <1>12, <1>18
<1>20. \A c \in Listeners : a.queued[c] = s.queued[c]
  BY <1>1, <1>7, <1>12, NetsAssumption
<1> QED BY <1>16, <1>17, <1>19, <1>20 DEF a, Postponed

\* An update stores its value, and has none any more.
LEMMA UpdateDoes ==
  ASSUME DesignFits(design), NEW s, StateOK(s), NEW u \in Updates, s.pending[u] # Nothing
  PROVE  LET a == Update(s, u)
             x == s.pending[u]
         IN  /\ StateOK(a) /\ Others(s, a, u)
             /\ a.queued[u] = s.queued[u] /\ a.pending[u] = Nothing
             /\ LET b == Into(s, x.lval, x.value, x.targets)
                IN  a.st = b.st /\ a.prev = b.prev /\ a.queued = b.queued
<1> DEFINE x == s.pending[u]
           b == Into(s, x.lval, x.value, x.targets)
           pe == [b.pending EXCEPT ![u] = Nothing]
           a == Update(s, u)
<1>1. /\ LvalFits(Decl, x.lval, Len(x.value)) /\ x.value \in Seq(Logic)
      /\ TargetsFit(x.lval, x.targets)
  BY DEF StateOK, PendingFits, TargetsFit, Decl
<1>2. Keeps(s, b)
  <2> HIDE DEF x
  <2> QED BY <1>1, IntoDoes DEF StateOK
<1>3. StateOK(b) /\ Typed(b)
  BY <1>2, KeepsOK DEF StateOK
<1>4. a = [b EXCEPT !.pending = pe]
  BY Zenon DEF Update, StoreAt
<1> HIDE DEF x, b, a
<1>5. a = [st |-> b.st, changed |-> b.changed, prev |-> b.prev, active |-> b.active,
          pending |-> pe, queue |-> b.queue, queued |-> b.queued,
          on |-> b.on, dumped |-> b.dumped]
  <2>1. b = [st |-> b.st, changed |-> b.changed, prev |-> b.prev, active |-> b.active,
          pending |-> b.pending, queue |-> b.queue, queued |-> b.queued,
          on |-> b.on, dumped |-> b.dumped]
    BY <1>3, RecordOf
  <2> HIDE DEF pe
  <2> QED BY <1>4, <2>1
<1>6. /\ DOMAIN pe = Updates /\ \A w \in Updates : PendingFits(design, pe[w])
      /\ pe[u] = Nothing /\ \A w \in Updates : w # u => pe[w] = s.pending[w]
  BY <1>2, <1>3 DEF StateOK, Keeps, PendingFits
<1> HIDE DEF pe
<1>7. Typed(a)
  BY <1>3, <1>5 DEF Typed, NetsFit, QueueFits
<1>8. Follows(a)
  BY <1>3, <1>5 DEF StateOK, Follows
<1>9. StateOK(a)
  BY <1>3, <1>5, <1>6, <1>7, <1>8 DEF StateOK
<1>10. Others(s, a, u) /\ a.queued[u] = s.queued[u] /\ a.pending[u] = Nothing
       /\ a.st = b.st /\ a.prev = b.prev /\ a.queued = b.queued
  BY <1>2, <1>5, <1>6 DEF Others, Keeps
<1> QED BY <1>9, <1>10 DEF a, b, x

\* An event control makes its container active.
LEMMA WaitDoes ==
  ASSUME NEW s, StateOK(s), NEW c \in Listeners
  PROVE  LET a == [s EXCEPT !.active[c] = TRUE]
         IN  StateOK(a) /\ a.pending = s.pending /\ a.queued = s.queued
<1> DEFINE ac == [s.active EXCEPT ![c] = TRUE]
           a == [s EXCEPT !.active = ac]
<1>1. Typed(s) /\ ac \in [Listeners -> BOOLEAN]
  BY DEF StateOK, Typed, NetsFit
<1> HIDE DEF ac
<1>2. a = [st |-> s.st, changed |-> s.changed, prev |-> s.prev, active |-> ac,
          pending |-> s.pending, queue |-> s.queue, queued |-> s.queued,
          on |-> s.on, dumped |-> s.dumped]
  <2>1. s = [st |-> s.st, changed |-> s.changed, prev |-> s.prev, active |-> s.active,
          pending |-> s.pending, queue |-> s.queue, queued |-> s.queued,
          on |-> s.on, dumped |-> s.dumped]
    BY <1>1, RecordOf
  <2> QED BY <2>1
<1> HIDE DEF a
<1>3. Typed(a)
  BY <1>1, <1>2 DEF Typed, NetsFit, QueueFits
<1>4. Follows(a)
  BY <1>2 DEF StateOK, Follows
<1>5. StateOK(a) /\ a.pending = s.pending /\ a.queued = s.queued
  BY <1>2, <1>3, <1>4 DEF StateOK
<1> QED BY <1>5 DEF a, ac

\* The flag is on, and the dump written.
DumpedBy(s, on, dump, a) ==
  /\ on \in BOOLEAN /\ DOMAIN dump = DumpedNets
  /\ on \/ time = 0 => dump = AllShown(s.st) \/ (dump = s.dumped /\ (s.on \/ time = 0))
  /\ a = [s EXCEPT !.on = on, !.dumped = dump]

\* All that a dump task does is to set the flag and to write the dump.
LEMMA DumpedDoes ==
  ASSUME NEW s, StateOK(s), NEW on, NEW dump, NEW a, DumpedBy(s, on, dump, a)
  PROVE  StateOK(a) /\ a.pending = s.pending /\ a.queued = s.queued
<1>1. Typed(s)
  BY DEF StateOK
<1>2. a = [st |-> s.st, changed |-> s.changed, prev |-> s.prev, active |-> s.active,
          pending |-> s.pending, queue |-> s.queue, queued |-> s.queued,
          on |-> on, dumped |-> dump]
  <2>1. s = [st |-> s.st, changed |-> s.changed, prev |-> s.prev, active |-> s.active,
          pending |-> s.pending, queue |-> s.queue, queued |-> s.queued,
          on |-> s.on, dumped |-> s.dumped]
    BY <1>1, RecordOf
  <2> QED BY <2>1 DEF DumpedBy
<1>3. Typed(a)
  BY <1>1, <1>2 DEF Typed, NetsFit, QueueFits
<1>4. Follows(a)
  <2> SUFFICES ASSUME on \/ time = 0, NEW n \in DumpedNets \ design.locals,
                      ~Inward(Decl[n]), n \notin s.changed
               PROVE  dump[n] = Shown(s.st, n)
    BY <1>2 DEF Follows
  <2>1. CASE dump = AllShown(s.st)
    BY <2>1 DEF AllShown
  <2>2. CASE dump = s.dumped /\ (s.on \/ time = 0)
    BY <2>2 DEF StateOK, Follows
  <2>3. dump = AllShown(s.st) \/ (dump = s.dumped /\ (s.on \/ time = 0))
    BY DEF DumpedBy
  <2> QED BY <2>1, <2>2, <2>3
<1> QED BY <1>2, <1>3, <1>4 DEF StateOK, DumpedBy

\* $dumpall, $dumpon and $dumpoff.
LEMMA DumpTasksDo ==
  ASSUME NEW s, StateOK(s)
  PROVE  /\ LET a == DumpAll(s) IN StateOK(a) /\ a.pending = s.pending /\ a.queued = s.queued
         /\ \A on \in BOOLEAN :
              LET a == DumpOn(s, on) IN StateOK(a) /\ a.pending = s.pending /\ a.queued = s.queued
<1>1. /\ s = [st |-> s.st, changed |-> s.changed, prev |-> s.prev, active |-> s.active,
          pending |-> s.pending, queue |-> s.queue, queued |-> s.queued,
          on |-> s.on, dumped |-> s.dumped]
      /\ s.on \in BOOLEAN /\ DOMAIN s.dumped = DumpedNets
  BY RecordOf DEF StateOK
<1>2. DOMAIN AllShown(s.st) = DumpedNets /\ DOMAIN AllUnknown = DumpedNets
  BY DEF AllShown, AllUnknown
<1>3. LET a == DumpAll(s) IN StateOK(a) /\ a.pending = s.pending /\ a.queued = s.queued
  <2> DEFINE a == DumpAll(s)
             dump == AllShown(s.st)
  <2>1. a = [s EXCEPT !.on = s.on, !.dumped = dump]
    <3>1. a = [s EXCEPT !.dumped = dump]
      BY DEF DumpAll
    <3> HIDE DEF a, dump
    <3> QED BY <3>1, <1>1
  <2>2. StateOK(a) /\ a.pending = s.pending /\ a.queued = s.queued
    <3> HIDE DEF a
    <3>1. DumpedBy(s, s.on, dump, a)
      BY <1>1, <1>2, <2>1 DEF DumpedBy, dump
    <3> QED BY <3>1, DumpedDoes
  <2> QED BY <2>2
<1>4. ASSUME NEW on \in BOOLEAN
      PROVE  LET a == DumpOn(s, on) IN StateOK(a) /\ a.pending = s.pending /\ a.queued = s.queued
  <2> DEFINE a == DumpOn(s, on)
             dump == IF time = 0 THEN s.dumped ELSE IF on THEN AllShown(s.st) ELSE AllUnknown
  <2>1. a = [s EXCEPT !.on = on, !.dumped = dump]
    <3>1. CASE time = 0
      <4>1. a = [s EXCEPT !.on = on] /\ dump = s.dumped
        BY <3>1 DEF DumpOn
      <4> HIDE DEF a, dump
      <4> QED BY <4>1, <1>1
    <3>2. CASE time # 0
      <4>1. a = [[s EXCEPT !.on = on] EXCEPT !.dumped = IF on THEN AllShown(s.st) ELSE AllUnknown]
        BY <3>2, Zenon DEF DumpOn
      <4>2. dump = IF on THEN AllShown(s.st) ELSE AllUnknown
        BY <3>2
      <4>3. a = [[s EXCEPT !.on = on] EXCEPT !.dumped = dump]
        BY <4>1, <4>2
      <4> HIDE DEF a, dump
      <4> QED BY <4>3, <1>1
    <3> QED BY <3>1, <3>2
  <2>2. DOMAIN dump = DumpedNets
    BY <1>1, <1>2
  <2>3. on \/ time = 0 => dump = AllShown(s.st) \/ (dump = s.dumped /\ (s.on \/ time = 0))
    OBVIOUS
  <2>4. StateOK(a) /\ a.pending = s.pending /\ a.queued = s.queued
    <3> HIDE DEF a, dump
    <3>1. DumpedBy(s, on, dump, a)
      BY <2>1, <2>2, <2>3 DEF DumpedBy
    <3> QED BY <3>1, DumpedDoes
  <2> QED BY <2>4
<1> QED BY <1>3, <1>4

\* What a statement of the design makes of a state.
Ran(s, p, a) ==
  /\ StateOK(a)
  /\ IF p.kind = "later"
     THEN Others(s, a, p.of) /\ a.queued[p.of] = TRUE /\ a.pending[p.of] # Nothing
     ELSE \A v \in Updates : a.queued[v] = s.queued[v] /\ a.pending[v] = s.pending[v]

\* Every statement keeps the nets, the queue and the dump as they must be.
LEMMA ExecutedDoes ==
  ASSUME DesignFits(design), NEW s, StateOK(s), NEW p, StatementFits(design, p)
  PROVE  Ran(s, p, Executed(s, p))
<1> DEFINE a == Executed(s, p)
<1>1. p.kind \in {"set", "later", "entry", "exit", "wait", "dumpall", "dumpon", "dumpoff", "dumpvars"}
      /\ Typed(s)
  BY DEF StatementFits, StateOK
<1>2. ASSUME NEW b, Keeps(s, b), p.kind # "later" PROVE Ran(s, p, b)
  BY <1>2, KeepsOK DEF Ran, Keeps
<1>3. ASSUME NEW b, StateOK(b), b.pending = s.pending, b.queued = s.queued, p.kind # "later"
      PROVE  Ran(s, p, b)
  BY <1>3 DEF Ran
<1>4. CASE p.kind = "set"
  <2>1. a = Blocking(s, p)
    BY <1>4 DEF Executed
  <2> QED BY <1>1, <1>2, <1>4, <2>1, BlockingDoes
<1>5. CASE p.kind = "later"
  <2> DEFINE b == Nonblocking(s, p)
  <2>1. StateOK(b) /\ Postponed(s, p, b)
    BY <1>5, NonblockingDoes
  <2> HIDE DEF b
  <2>2. Ran(s, p, b)
    BY <1>5, <2>1 DEF Ran, Postponed
  <2> QED BY <1>5, <2>2 DEF Executed, b
<1>6. CASE p.kind = "entry"
  <2>1. a = Entry(s, p)
    BY <1>6 DEF Executed
  <2> QED BY <1>3, <1>6, <2>1, EntryDoes
<1>7. CASE p.kind = "exit"
  <2>1. a = Exit(s, p)
    BY <1>7 DEF Executed
  <2> QED BY <1>1, <1>2, <1>7, <2>1, ExitDoes
<1>8. CASE p.kind = "wait"
  <2>1. a = [s EXCEPT !.active[p.of] = TRUE]
    BY <1>8, Zenon DEF Executed
  <2>2. p.of \in Listeners
    BY <1>8 DEF StatementFits
  <2> DEFINE c == p.of
  <2> HIDE DEF a, c
  <2>3. StateOK(a) /\ a.pending = s.pending /\ a.queued = s.queued
    BY <2>1, <2>2, WaitDoes DEF c
  <2>4. Ran(s, p, a)
    BY <1>3, <1>8, <2>3
  <2> QED BY <2>4 DEF a
<1>9. CASE p.kind = "dumpall"
  <2>1. a = DumpAll(s)
    BY <1>9 DEF Executed
  <2> QED BY <1>3, <1>9, <2>1, DumpTasksDo
<1>10. CASE p.kind \in {"dumpon", "dumpoff", "dumpvars"}
  <2>1. a = DumpOn(s, TurnsOn(p))
    BY <1>10 DEF Executed
  <2>2. TurnsOn(p) \in BOOLEAN
    BY DEF TurnsOn
  <2> QED BY <1>3, <1>10, <2>1, <2>2, DumpTasksDo
<1> QED BY <1>1, <1>4, <1>5, <1>6, <1>7, <1>8, <1>9, <1>10
-----------------------------------------------------------------------------
(***************************************************************************)
(* Memory files.                                                           *)
(***************************************************************************)

\* Digits are bits.
LEMMA FromDigitsType ==
  ASSUME NEW text \in Seq(Digits), NEW base \in {2, 16}, NEW width \in Nat
  PROVE  FromDigits(text, base, width) \in [1 .. width -> Logic]
<1> DEFINE k == PerDigit(base)
           digit(i) == text[Len(text) - ((i - 1) \div k)]
<1>1. (base = 2 => k = 1) /\ (base = 16 => k = 4) /\ k \in {1, 4}
  BY DEF PerDigit
<1> HIDE DEF k
<1>2. \A d \in Digits : DigitBits(d, k) \in [1 .. k -> Logic]
  <2> SUFFICES ASSUME NEW d \in Digits PROVE DigitBits(d, k) \in [1 .. k -> Logic]
    OBVIOUS
  <2>1. k \in Nat /\ d \in Int
    BY <1>1 DEF Digits, ZDigit
  <2>2. Bits(d, k) \in [1 .. k -> {LO, HI}]
    BY <2>1, BitsType
  <2>3. Filled(k, DC) \in [1 .. k -> Logic] /\ Filled(k, Z) \in [1 .. k -> Logic]
    BY <2>1, FilledType DEF Logic
  <2>4. Bits(d, k) \in [1 .. k -> Logic]
    BY <2>2 DEF Logic
  <2> QED BY <2>3, <2>4 DEF DigitBits
<1>3. ASSUME NEW i \in 1 .. width
      PROVE  (IF i <= k * Len(text) THEN DigitBits(digit(i), k)[((i - 1) % k) + 1]
              ELSE LeftPad(text[1])) \in Logic
  <2>1. LeftPad(text[1]) \in Logic
    BY DEF LeftPad, Logic
  <2>2. CASE i <= k * Len(text)
    <3> DEFINE j == Len(text) - ((i - 1) \div k)
               r == ((i - 1) % k) + 1
    <3>1. j \in 1 .. Len(text)
      <4>1. CASE k = 1
        BY <4>1, <2>2
      <4>2. CASE k = 4
        BY <4>2, <2>2
      <4> QED BY <1>1, <4>1, <4>2
    <3>2. r \in 1 .. k
      <4>1. CASE k = 1
        BY <4>1
      <4>2. CASE k = 4
        BY <4>2
      <4> QED BY <1>1, <4>1, <4>2
    <3> HIDE DEF j, r
    <3>3. text[j] \in Digits
      BY <3>1
    <3>4. DigitBits(text[j], k)[r] \in Logic
      BY <1>2, <3>2, <3>3
    <3> QED BY <2>2, <3>4 DEF j, r
  <2> QED BY <2>1, <2>2
<1>4. FromDigits(text, base, width)
        = [i \in 1 .. width |->
             IF i <= k * Len(text) THEN DigitBits(digit(i), k)[((i - 1) % k) + 1]
             ELSE LeftPad(text[1])]
  BY DEF FromDigits, k
<1> HIDE DEF digit
<1> QED BY <1>3, <1>4

\* A file that is being read into words that fit.
Takes(W, hi) ==
  [words : W, at : Int, left : Int, hi : {hi}, incr : {1, -1},
   out : {"reading", "error", "beyond"}]

\* A token leaves them fitting.
LEMMA TakenType ==
  ASSUME NEW size \in Nat \ {0}, NEW I, NEW W, W = [I -> [1 .. size -> Logic]],
         NEW hi \in Int, NEW base \in {2, 16}, NEW t, t.text \in Seq(Digits), t.at \in Nat,
         NEW r \in Takes(W, hi)
  PROVE  Taken(r, t, base, size) \in Takes(W, hi)
<1> DEFINE word == FromDigits(t.text, base, size)
           at == t.at % Below(size)
           words == [r.words EXCEPT ![r.at] = word]
<1>1. word \in [1 .. size -> Logic]
  BY FromDigitsType
<1>2. at \in Int
  <2>1. Below(size) \in Nat \ {0}
    BY BelowProperties
  <2> QED BY <2>1
<1>3. r = [words |-> r.words, at |-> r.at, left |-> r.left, hi |-> hi, incr |-> r.incr, out |-> r.out]
      /\ r.words \in W /\ r.at \in Int /\ r.left \in Int /\ r.incr \in {1, -1} /\ r.hi = hi
      /\ r.out \in {"reading", "error", "beyond"}
  BY DEF Takes
<1> HIDE DEF word, at
<1>4. words \in W
  BY <1>1, <1>3
<1>5. [r EXCEPT !.out = "error"] \in Takes(W, hi) /\ [r EXCEPT !.out = "beyond"] \in Takes(W, hi)
  BY <1>3 DEF Takes
<1>6. [r EXCEPT !.at = at] \in Takes(W, hi)
  BY <1>2, <1>3 DEF Takes
<1>7. Stored(r, word) \in Takes(W, hi)
  <2>1. Stored(r, word) = [r EXCEPT !.words = words, !.at = r.at + r.incr, !.left = r.left - 1]
    BY Zenon DEF Stored
  <2> DEFINE a == r.at + r.incr
             l == r.left - 1
  <2>2. a \in Int /\ l \in Int
    BY <1>3
  <2> HIDE DEF words, a, l
  <2>3. [r EXCEPT !.words = words, !.at = a, !.left = l] \in Takes(W, hi)
    BY <1>3, <1>4, <2>2 DEF Takes
  <2> QED BY <2>1, <2>3 DEF a, l
<1> QED BY <1>5, <1>6, <1>7 DEF Taken, word, at

\* A file that is about to be read, and the tokens after it.
Opened(words, hi, b) ==
  [words |-> words, at |-> b.start, left |-> b.stop - b.start + 1, hi |-> hi,
   incr |-> IF b.start < b.stop THEN 1 ELSE -1, out |-> "reading"]
ReadOn(f, S, opened, file, base, size) ==
  /\ f \in [0 .. Readable(file) -> S] /\ f[0] = opened
  /\ \A k \in 1 .. Readable(file) : f[k] = Taken(f[k - 1], file.tokens[k], base, size)

\* The words, the indexes and the file fit together.
CanRead(size, W, words, lo, hi, base, file, b) ==
  /\ size \in Nat \ {0} /\ W = [DOMAIN words -> [1 .. size -> Logic]] /\ words \in W
  /\ lo \in Int /\ hi \in Int /\ lo .. hi \subseteq DOMAIN words
  /\ base \in {2, 16} /\ b.start \in Int /\ b.stop \in Int
  /\ Len(file.tokens) \in Nat
  /\ \A k \in 1 .. Len(file.tokens) :
       file.tokens[k].text \in Seq(Digits) /\ file.tokens[k].at \in Nat
  /\ Len(file.tokens) = 0 => file.tokens = <<>>

LoadedBy(size, W, words, lo, hi, base, file, b) ==
  \E f : /\ ReadOn(f, Takes(W, hi), Opened(words, hi, b), file, base, size)
         /\ Loaded(words, lo, hi, file, base, b) = f[Readable(file)]

\* A file is read token by token, and the words fit all the time.
LEMMA LoadedSteps ==
  ASSUME NEW size, NEW W, NEW words, NEW lo, NEW hi, NEW base, NEW file, NEW b,
         CanRead(size, W, words, lo, hi, base, file, b), ~OutOfRange(lo, hi, b)
  PROVE  LoadedBy(size, W, words, lo, hi, base, file, b)
<1> USE DEF CanRead
<1> DEFINE R == Readable(file)
           S == Takes(W, hi)
           a == [words |-> words, at |-> b.start, left |-> b.stop - b.start + 1, hi |-> hi,
                 incr |-> IF b.start < b.stop THEN 1 ELSE -1, out |-> "reading"]
           G == [k \in 1 .. R |-> [x \in S |-> Taken(x, file.tokens[k], base, size)]]
<1>1. b.start \in lo .. hi
  BY DEF OutOfRange
<1>2. Len(words[b.start]) = size
  <2>1. words[b.start] \in [1 .. size -> Logic]
    BY <1>1
  <2> QED BY <2>1, BitsLen
<1>3. R \in Nat /\ R <= Len(file.tokens)
  BY DEF Readable
<1>4. a \in S
  BY DEF Takes
<1>5. G \in [1 .. R -> [S -> S]]
  <2> SUFFICES ASSUME NEW k \in 1 .. R, NEW x \in S
               PROVE  Taken(x, file.tokens[k], base, size) \in S
    OBVIOUS
  <2> DEFINE t == file.tokens[k]
  <2>1. t.text \in Seq(Digits) /\ t.at \in Nat
    BY <1>3
  <2> HIDE DEF t
  <2> QED BY <2>1, TakenType DEF t
<1> HIDE DEF S, a, R
<1> DEFINE after == CHOOSE f : f = [k \in 0 .. Readable(file) |->
      IF k = 0
      THEN [words |-> words, at |-> b.start, left |-> b.stop - b.start + 1, hi |-> hi,
            incr |-> IF b.start < b.stop THEN 1 ELSE -1, out |-> "reading"]
      ELSE Taken(f[k - 1], file.tokens[k], base, Len(words[b.start]))]
           n == Len(words[b.start])
<1>6. PICK f : Steps(f, R, S, a, G)
  <2> HIDE DEF G
  <2> QED BY <1>3, <1>4, <1>5, Recursive
<1>7. f \in [0 .. R -> S] /\ f[0] = a /\ \A k \in 1 .. R : f[k] = Taken(f[k - 1], file.tokens[k], base, size)
  <2>1. f \in [0 .. R -> S] /\ f[0] = a /\ \A k \in 1 .. R : f[k] = G[k][f[k - 1]]
    BY <1>6 DEF Steps
  <2>2. \A k \in 1 .. R : f[k - 1] \in S
    BY <1>3, <2>1
  <2> QED BY <2>1, <2>2
<1>8. f = [k \in 0 .. R |-> IF k = 0 THEN a ELSE Taken(f[k - 1], file.tokens[k], base, n)]
  <2>1. \A k \in 0 .. R : f[k] = IF k = 0 THEN a ELSE Taken(f[k - 1], file.tokens[k], base, n)
    BY <1>2, <1>3, <1>7
  <2>2. f = [k \in 0 .. R |-> f[k]]
    BY <1>7
  <2> QED BY <2>1, <2>2
<1>9. after = [k \in 0 .. R |-> IF k = 0 THEN a ELSE Taken(after[k - 1], file.tokens[k], base, n)]
  <2>1. f = [k \in 0 .. Readable(file) |->
      IF k = 0
      THEN [words |-> words, at |-> b.start, left |-> b.stop - b.start + 1, hi |-> hi,
            incr |-> IF b.start < b.stop THEN 1 ELSE -1, out |-> "reading"]
      ELSE Taken(f[k - 1], file.tokens[k], base, Len(words[b.start]))]
    BY <1>8, Zenon DEF R, a
  <2>2. after = [k \in 0 .. Readable(file) |->
      IF k = 0
      THEN [words |-> words, at |-> b.start, left |-> b.stop - b.start + 1, hi |-> hi,
            incr |-> IF b.start < b.stop THEN 1 ELSE -1, out |-> "reading"]
      ELSE Taken(after[k - 1], file.tokens[k], base, Len(words[b.start]))]
    BY <2>1, Zenon
  <2> HIDE DEF after
  <2> QED BY <2>2, Zenon DEF R, a
<1>10. Loaded(words, lo, hi, file, base, b) = after[R]
  BY Zenon DEF Loaded, R
<1> HIDE DEF after, G, n
<1>11. after[0] = a /\ \A k \in 1 .. R : after[k] = Taken(after[k - 1], file.tokens[k], base, size)
  <2>1. \A k \in 0 .. R : after[k] = IF k = 0 THEN a ELSE Taken(after[k - 1], file.tokens[k], base, n)
    BY <1>9, Zenon
  <2>2. after[0] = a /\ \A k \in 1 .. R : after[k] = Taken(after[k - 1], file.tokens[k], base, n)
    BY <1>3, <2>1
  <2> QED BY <2>2, <1>2 DEF n
<1>12. Steps(after, R, S, a, G)
  <2>1. FunctionOn(after, 0 .. R)
    BY <1>9 DEF FunctionOn
  <2>2. \A k \in 1 .. R : after[k - 1] \in S => after[k] = G[k][after[k - 1]]
    BY <1>11 DEF G
  <2> QED BY <1>3, <1>4, <1>5, <1>11, <2>1, <2>2, StepsOf
<1>13. ReadOn(after, S, a, file, base, size)
  BY <1>11, <1>12 DEF Steps, ReadOn, R
<1>14. a = Opened(words, hi, b)
  BY DEF a, Opened
<1> QED BY <1>10, <1>13, <1>14 DEF R, S, LoadedBy

\* What is read from a file without an error fits into the memory.
LEMMA LoadedType ==
  ASSUME NEW size, NEW W, NEW words, NEW lo, NEW hi, NEW base, NEW file, NEW b,
         CanRead(size, W, words, lo, hi, base, file, b)
  PROVE  Loaded(words, lo, hi, file, base, b).words \in W
<1>1. CASE OutOfRange(lo, hi, b)
  <2> DEFINE after(f) == [k \in 0 .. Readable(file) |->
        IF k = 0
        THEN [words |-> words, at |-> b.start, left |-> b.stop - b.start + 1, hi |-> hi,
              incr |-> IF b.start < b.stop THEN 1 ELSE -1, out |-> "reading"]
        ELSE Taken(f[k - 1], file.tokens[k], base, Len(words[b.start]))]
  <2>1. Loaded(words, lo, hi, file, base, b) = [words |-> words, out |-> "error"]
    BY <1>1, Zenon DEF Loaded
  <2> QED BY <2>1 DEF CanRead
<1>2. CASE ~OutOfRange(lo, hi, b)
  <2>1. PICK f : /\ ReadOn(f, Takes(W, hi), Opened(words, hi, b), file, base, size)
                 /\ Loaded(words, lo, hi, file, base, b) = f[Readable(file)]
    BY <1>2, LoadedSteps DEF LoadedBy
  <2>2. Readable(file) \in Nat
    BY DEF Readable, CanRead
  <2>3. f[Readable(file)] \in Takes(W, hi)
    BY <2>1, <2>2 DEF ReadOn
  <2> QED BY <2>1, <2>3 DEF Takes
<1> QED BY <1>1, <1>2

\* A file that is read fits into its memory.
LEMMA ReadCan ==
  ASSUME DesignFits(design), NEW s, StateOK(s), NEW p, ReadFits(design, p)
  PROVE  CanRead(Decl[p.of].size, Words(design, p.of), s.st[p.of], Decl[p.of].lo,
                 Decl[p.of].hi, p.base, p.file, FileBounds(s, p))
<1> DEFINE o == p.of
           d == Decl[o]
           W == Words(design, o)
           b == FileBounds(s, p)
           size == d.size
           I == DOMAIN design.init[o]
           ws == s.st[o]
           lo == d.lo
           hi == d.hi
           file == p.file
           base == p.base
<1>1. /\ o \in DOMAIN Decl /\ IsMemory(d) /\ p.base \in {2, 16}
      /\ Len(p.args) \in Nat /\ DOMAIN p.args = 1 .. Len(p.args)
      /\ \A k \in DOMAIN p.args : ExprFits(Decl, p.args[k])
      /\ \A k \in DOMAIN p.file.tokens :
           p.file.tokens[k].text \in Seq(Digits) /\ p.file.tokens[k].at \in Nat
  BY DEF ReadFits, Decl
<1>2. /\ d.size \in Nat \ {0} /\ d.lo \in Nat /\ d.hi \in Nat /\ d.port = NoNet
      /\ d.lo .. d.hi \subseteq DOMAIN design.init[o]
  BY <1>1 DEF DesignFits, NetFits, Decl
<1>3. Typed(s) /\ StoreFits(design, s.st)
  BY DEF StateOK, Typed, NetsFit
<1>4. \A k \in {1, 2} : (IF k > Len(p.args) THEN None
                  ELSE SignedIndex([int |-> FALSE], Value(Decl, s.st, p.args[k]))) \in Int
  <2> SUFFICES ASSUME NEW k \in {1, 2}, ~(k > Len(p.args))
               PROVE  SignedIndex([int |-> FALSE], Value(Decl, s.st, p.args[k])) \in Int
    BY DEF None
  <2> DEFINE e == p.args[k]
             v == Value(Decl, s.st, e)
             n == ExprWidth(Decl, e)
  <2>1. k \in DOMAIN p.args /\ ExprFits(Decl, e)
    BY <1>1
  <2>2. n \in Nat \ {0} /\ v \in [1 .. n -> Logic]
    BY <1>3, <2>1, ValueSeq
  <2> HIDE DEF n, v
  <2>3. SignedIndex([int |-> FALSE], v) \in Int
    BY <2>2, SignedIndexType
  <2> QED BY <2>3 DEF v
<1>5. b.start \in Int /\ b.stop \in Int
  BY <1>2, <1>4 DEF FileBounds, Bounds
<1>6. W = [I -> [1 .. size -> Logic]]
  BY DEF Words, Decl
<1>7. ws \in W
  <2> HIDE DEF W
  <2> QED BY <1>1, <1>3 DEF StoreFits, W, Decl
<1>8. /\ size \in Nat \ {0} /\ lo \in Int /\ hi \in Int /\ lo .. hi \subseteq I
      /\ base \in {2, 16}
  BY <1>1, <1>2
<1>9. Len(file.tokens) = 0 => file.tokens = <<>>
  BY DEF ReadFits
<1>10. /\ Len(file.tokens) \in Nat
      /\ \A k \in 1 .. Len(file.tokens) : file.tokens[k].text \in Seq(Digits) /\ file.tokens[k].at \in Nat
  BY <1>1 DEF ReadFits
<1> HIDE DEF W, size, I, ws, lo, hi, file, base, b
<1>11. I = DOMAIN ws
  BY <1>6, <1>7
<1>12. CanRead(size, W, ws, lo, hi, base, file, b)
  BY <1>5, <1>6, <1>9, <1>10, <1>7, <1>8, <1>11 DEF CanRead, b
<1> QED BY <1>12 DEF W, size, ws, lo, hi, file, base, b

\* Reading a file leaves everything else as it is, the dump too, which shows
\* no memory.
LEMMA ReadDoes ==
  ASSUME DesignFits(design), NEW s, StateOK(s), NEW p, ReadFits(design, p),
         NEW a, a = [s EXCEPT !.st = [s.st EXCEPT ![p.of] = FromFile(s, p).words]]
  PROVE  StateOK(a) /\ a.pending = s.pending /\ a.queued = s.queued
<1> DEFINE o == p.of
           d == Decl[o]
           W == Words(design, o)
           words == FromFile(s, p).words
           b == FileBounds(s, p)
           st == [s.st EXCEPT ![o] = words]
<1>1. /\ o \in DOMAIN Decl /\ IsMemory(d) /\ p.base \in {2, 16}
      /\ Len(p.args) \in Nat /\ DOMAIN p.args = 1 .. Len(p.args)
      /\ \A k \in DOMAIN p.args : ExprFits(Decl, p.args[k])
      /\ \A k \in DOMAIN p.file.tokens :
           p.file.tokens[k].text \in Seq(Digits) /\ p.file.tokens[k].at \in Nat
  BY DEF ReadFits, Decl
<1>2. /\ d.size \in Nat \ {0} /\ d.lo \in Nat /\ d.hi \in Nat /\ d.port = NoNet
      /\ d.lo .. d.hi \subseteq DOMAIN design.init[o]
  BY <1>1 DEF DesignFits, NetFits, Decl
<1>3. Typed(s) /\ StoreFits(design, s.st)
  BY DEF StateOK, Typed, NetsFit
<1>6. words \in W
  <2> DEFINE ws == s.st[o]
             lo == d.lo
             hi == d.hi
             size == d.size
             file == p.file
             base == p.base
  <2>1. CanRead(size, W, ws, lo, hi, base, file, b)
    BY ReadCan
  <2>2. FromFile(s, p) = Loaded(ws, lo, hi, file, base, b)
    BY DEF FromFile
  <2> HIDE DEF W, size, ws, lo, hi, file, base, b
  <2>3. Loaded(ws, lo, hi, file, base, b).words \in W
    BY <2>1, LoadedType
  <2> QED BY <2>2, <2>3
<1>7. a = [s EXCEPT !.st = st]
  OBVIOUS
<1> HIDE DEF words
<1>8. StoreFits(design, st)
  <2>1. DOMAIN s.st = DOMAIN Decl
    BY <1>3 DEF StoreFits, Decl
  <2>2. st = [n \in DOMAIN Decl |-> st[n]]
    BY <2>1
  <2>3. \A n \in DOMAIN Decl : st[n] \in Words(design, n)
    BY <1>3, <1>6, <2>1 DEF StoreFits, Decl
  <2> HIDE DEF st
  <2> QED BY <2>2, <2>3 DEF StoreFits, Decl
<1>9. \A n \in DOMAIN Decl : n # o => st[n] = s.st[n]
  BY <1>3 DEF StoreFits, Decl
<1> HIDE DEF st
<1>10. a = [st |-> st, changed |-> s.changed, prev |-> s.prev, active |-> s.active,
          pending |-> s.pending, queue |-> s.queue, queued |-> s.queued,
          on |-> s.on, dumped |-> s.dumped]
  BY <1>3, <1>7, RecordOf
<1>11. Typed(a)
  <2>1. NetsFit(design, a)
    BY <1>3, <1>8, <1>10 DEF Typed, NetsFit
  <2>2. QueueFits(design, a)
    <3>1. a.queue = s.queue /\ a.queued = s.queued
      BY <1>10
    <3> QED BY <1>3, <3>1 DEF Typed, QueueFits
  <2> QED BY <1>10, <2>1, <2>2 DEF Typed
<1>12. Follows(a)
  <2> SUFFICES ASSUME s.on \/ time = 0, NEW n \in DumpedNets \ design.locals,
                      ~Inward(Decl[n]), n \notin s.changed
               PROVE  s.dumped[n] = Shown(st, n)
    BY <1>10 DEF Follows
  <2>1. s.dumped[n] = Shown(s.st, n)
    BY DEF StateOK, Follows
  <2>2. n \in DOMAIN Decl
    BY DEF DumpedNets
  <2>3. CASE n # o
    <3>1. Shown(st, n) = Shown(s.st, n)
      BY <1>9, <2>2, <2>3, ShownHere
    <3> QED BY <2>1, <3>1
  <2>4. CASE n = o
    <3>1. NetsFit1(Decl)
      BY DesignNets DEF Decl
    <3>2. /\ Evaluated(Decl, st, n, None, None) = SeenIn(Decl[n], st[n], None, None)
          /\ Evaluated(Decl, s.st, n, None, None) = SeenIn(Decl[n], s.st[n], None, None)
      BY <2>2, <3>1, EvaluatedHere
    <3>3. None < d.lo
      BY <1>2 DEF None
    <3>4. SeenIn(Decl[n], st[n], None, None) = SeenIn(Decl[n], s.st[n], None, None)
      BY <1>1, <2>4, <3>3 DEF SeenIn
    <3> QED BY <2>1, <3>2, <3>4 DEF Shown
  <2> QED BY <2>3, <2>4
<1> QED BY <1>10, <1>11, <1>12 DEF StateOK
-----------------------------------------------------------------------------
(***************************************************************************)
(* The invariant.                                                          *)
(***************************************************************************)

\* What the invariant says of the nets, the queue and the dump.
LEMMA InvState ==
  ASSUME NetsInv
  PROVE  DesignFits(design) /\ StateOK(OldState)
<1>1. DesignFits(design)
  BY DesignsAssumption DEF NetsInv, NetsTypeOK
<1>2. /\ OldState.st = store /\ OldState.changed = changed /\ OldState.prev = prev
      /\ OldState.active = active /\ OldState.pending = pending /\ OldState.queue = queue
      /\ OldState.queued = queued /\ OldState.on = dumpOn /\ OldState.dumped = dumped
  BY DEF OldState
<1>3. OldState = [st |-> OldState.st, changed |-> OldState.changed, prev |-> OldState.prev,
          active |-> OldState.active, pending |-> OldState.pending, queue |-> OldState.queue,
          queued |-> OldState.queued, on |-> OldState.on, dumped |-> OldState.dumped]
  BY DEF OldState
<1>4. Typed(OldState)
  BY <1>3 DEF Typed, NetsInv, NetsTypeOK
<1>5. Follows(OldState)
  BY <1>2 DEF NetsInv, DumpFollows, Follows
<1> QED BY <1>1, <1>2, <1>4, <1>5 DEF StateOK, NetsInv, NetsTypeOK

\* The rest of it.
BoundsOK == design \in Designs /\ drives \in 0 .. MaxDrives /\ time \in 0 .. MaxTime

\* The parts of the invariant together.
PartsOK == BoundsOK /\ StateOK(OldState) /\ BatchFits /\ PendingWhile

\* They are the invariant.
LEMMA InvParts == PartsOK => NetsInv
<1> SUFFICES ASSUME PartsOK PROVE NetsInv
  OBVIOUS
<1>1. /\ OldState.st = store /\ OldState.changed = changed /\ OldState.prev = prev
      /\ OldState.active = active /\ OldState.pending = pending /\ OldState.queue = queue
      /\ OldState.queued = queued /\ OldState.on = dumpOn /\ OldState.dumped = dumped
  BY DEF OldState
<1>2. NetsFit(design, OldState) /\ QueueFits(design, OldState)
  BY DEF PartsOK, StateOK, Typed
<1>3. DumpFollows
  BY <1>1 DEF PartsOK, StateOK, Follows, DumpFollows
<1> QED BY <1>1, <1>2, <1>3 DEF PartsOK, BoundsOK, StateOK, NetsInv, NetsTypeOK

\* A state that the nets come to is as it must be.
LEMMA BecomesOK ==
  ASSUME NEW a, StateOK(a), Becomes(a), design' = design, time' = time
  PROVE  StateOK(OldState)'
<1>1. OldState' = a
  <2>1. OldState' = [st |-> a.st, changed |-> a.changed, prev |-> a.prev, active |-> a.active,
          pending |-> a.pending, queue |-> a.queue, queued |-> a.queued,
          on |-> a.on, dumped |-> a.dumped]
    BY DEF OldState, Becomes
  <2>2. Typed(a)
    BY DEF StateOK
  <2> QED BY <2>1, <2>2, RecordOf
<1>2. design' = design /\ Decl' = Decl /\ DumpedNets' = DumpedNets
  BY DEF Decl, DumpedNets
<1>3. Typed(OldState)'
  BY <1>1, <1>2 DEF StateOK, Typed
<1>4. Follows(OldState)'
  BY <1>1, <1>2 DEF StateOK, Follows, Shown
<1> QED BY <1>1, <1>2, <1>3, <1>4 DEF StateOK

\* Statements in a batch and updates are different things.
LEMMA NoUpdateStatement ==
  ASSUME DesignFits(design), NEW l \in Seq(BodyStatements(design)), NEW u
  PROVE  l # <<UpdateOf(u)>>
<1> SUFFICES ASSUME l = <<UpdateOf(u)>> PROVE FALSE
  OBVIOUS
<1>1. Len(l) = 1 /\ l[1] = UpdateOf(u)
  OBVIOUS
<1>2. l[1] \in BodyStatements(design)
  BY <1>1
<1>3. StatementFits(design, UpdateOf(u))
  BY <1>1, <1>2 DEF DesignFits
<1> QED BY <1>3 DEF StatementFits, UpdateOf

\* Neither are events and updates.
LEMMA NoUpdateEvent ==
  ASSUME DesignFits(design), NEW l \in Seq(DOMAIN design.events), NEW u \in Updates,
         NEW i \in DOMAIN l
  PROVE  l[i] \in DOMAIN design.events /\ l[i][1] \in Listeners /\ l[i][1] # u /\ l[i] # <<u, 1>>
<1>1. l[i] \in DOMAIN design.events
  OBVIOUS
<1> DEFINE e == l[i]
<1> HIDE DEF e
<1>2. e \in DOMAIN design.events
  BY <1>1 DEF e
<1>3. e[1] \in Listeners /\ e[1] \notin Updates
  BY <1>2, EventType
<1>4. <<u, 1>>[1] = u
  OBVIOUS
<1>5. e # <<u, 1>>
  BY <1>3, <1>4
<1> QED BY <1>2, <1>3, <1>5 DEF e

\* After setup.
LEMMA InvInit == Init => NetsInv
<1> SUFFICES ASSUME Init PROVE PartsOK
  BY InvParts
<1>1. DesignFits(design)
  BY DesignsAssumption DEF Init
<1>2. /\ OldState.st = store /\ OldState.changed = changed /\ OldState.prev = prev
      /\ OldState.active = active /\ OldState.pending = pending /\ OldState.queue = queue
      /\ OldState.queued = queued /\ OldState.on = dumpOn /\ OldState.dumped = dumped
  BY DEF OldState
<1>3. OldState = [st |-> OldState.st, changed |-> OldState.changed, prev |-> OldState.prev,
          active |-> OldState.active, pending |-> OldState.pending, queue |-> OldState.queue,
          queued |-> OldState.queued, on |-> OldState.on, dumped |-> OldState.dumped]
  BY DEF OldState
<1>4. StoreFits(design, store)
  BY <1>1 DEF Init, DesignFits, StoreFits, Words
<1>5. prev \in [DOMAIN design.events -> Logic] /\ active \in [Listeners -> BOOLEAN] /\ changed = {}
  BY <1>1, <1>4, FirstBitType DEF Init
<1>6. NetsFit(design, OldState)
  BY <1>2, <1>4, <1>5 DEF NetsFit
<1>7. /\ design.first \in Seq(DOMAIN design.events)
      /\ \A i, j \in DOMAIN design.first : design.first[i][1] = design.first[j][1] => i = j
      /\ DOMAIN design.events \subseteq AllEvents
  BY <1>1 DEF DesignFits, AllEvents
<1>8. /\ queued \in [Listeners \cup Updates -> BOOLEAN]
      /\ \A c \in Listeners : queued[c] <=> \E i \in DOMAIN design.first : design.first[i][1] = c
      /\ \A u \in Updates : ~queued[u]
  <2>1. \A u \in Updates : \A i \in DOMAIN design.first : design.first[i][1] # u
    BY <1>1, <1>7, NoUpdateEvent
  <2> QED BY <2>1 DEF Init
<1>9. /\ queue["active"] = design.first
      /\ \A k \in Q!Strata : k # "active" => queue[k] = <<>>
      /\ queue \in [Q!Strata -> Seq(AllEvents)]
  BY <1>7, StrataNames DEF Init
<1>10. ListOf(queue["active"], queued, Listeners, DOMAIN design.events)
  BY <1>7, <1>8, <1>9 DEF ListOf
<1>11. ListOf(queue["nonblocking"], queued, Updates, Updates \X {1})
  <2>1. queue["nonblocking"] = <<>>
    BY <1>9, StrataNames
  <2> QED BY <2>1, <1>8 DEF ListOf
<1>12. QueueFits(design, OldState)
  BY <1>2, <1>8, <1>9, <1>10, <1>11 DEF QueueFits
<1>13. Typed(OldState)
  BY <1>3, <1>6, <1>12 DEF Typed
<1>14. pending = [u \in Updates |-> Nothing] /\ dumped = AllShown(store) /\ dumpOn \in BOOLEAN
  BY DEF Init, OnAtFirst
<1>15. Follows(OldState) /\ DOMAIN dumped = DumpedNets
  BY <1>2, <1>14 DEF Follows, AllShown
<1>16. StateOK(OldState)
  BY <1>2, <1>13, <1>14, <1>15 DEF StateOK, PendingFits
<1>17. BatchFits
  BY DEF Init, BatchFits
<1>18. PendingWhile
  <2>1. temp = <<>> /\ todo = <<>>
    BY DEF Init
  <2> QED BY <2>1, <1>8, <1>14 DEF PendingWhile
<1>19. BoundsOK
  BY NetsAssumption DEF Init, BoundsOK
<1> QED BY <1>16, <1>17, <1>18, <1>19 DEF PartsOK

\* A process, or a C program, executes a statement.
LEMMA InvDrive == NetsInv /\ Drive => NetsInv'
<1> SUFFICES ASSUME NetsInv, Drive PROVE PartsOK'
  BY InvParts, PTL
<1>1. DesignFits(design) /\ StateOK(OldState)
  BY InvState
<1>2. /\ OldState.st = store /\ OldState.changed = changed /\ OldState.prev = prev
      /\ OldState.active = active /\ OldState.pending = pending /\ OldState.queue = queue
      /\ OldState.queued = queued /\ OldState.on = dumpOn /\ OldState.dumped = dumped
  BY DEF OldState
<1>3. /\ design' = design /\ todo' = todo /\ temp' = temp /\ stage' = stage /\ time' = time
      /\ drives' = drives + 1 /\ stage = "idle" /\ drives < MaxDrives
  BY DEF Drive
<1>4. temp = <<>> /\ todo = <<>> /\ design \in Designs /\ design' = design
  BY <1>3 DEF NetsInv, BatchFits, NetsTypeOK
<1>5. PICK p \in design.moves :
        \/ p.kind # "readmem" /\ Becomes(Executed(OldState, p))
        \/ p.kind = "readmem" /\ ReadMemory(FromFile(OldState, p), p)
  BY DEF Drive
<1>6. StatementFits(design, p) \/ ReadFits(design, p)
  BY <1>1 DEF DesignFits
<1>7. BoundsOK'
  <2>1. drives' \in 0 .. MaxDrives
    BY <1>3, NetsAssumption DEF NetsInv, NetsTypeOK
  <2> QED BY <2>1, <1>3 DEF NetsInv, NetsTypeOK, BoundsOK
<1>8. BatchFits'
  BY <1>3, <1>4 DEF BatchFits
<1>9. CASE p.kind # "readmem"
  <2> DEFINE a == Executed(OldState, p)
  <2>1. StatementFits(design, p) /\ Becomes(a)
    BY <1>5, <1>6, <1>9 DEF ReadFits
  <2>2. Ran(OldState, p, a)
    BY <1>1, <2>1, ExecutedDoes
  <2> HIDE DEF a
  <2>3. StateOK(OldState)'
    BY <1>3, <2>1, <2>2, BecomesOK DEF Ran
  <2>4. queued' = a.queued /\ pending' = a.pending
    BY <2>1 DEF Becomes
  <2>5. PendingWhile'
    <3> SUFFICES ASSUME NEW u \in Updates PROVE pending'[u] # Nothing <=> queued'[u]
      BY <1>3, <1>4 DEF PendingWhile
    <3>1. pending[u] # Nothing <=> queued[u]
      BY <1>4 DEF NetsInv, PendingWhile
    <3>2. CASE p.kind = "later"
      BY <1>2, <2>2, <2>4, <3>1, <3>2 DEF Ran, Others
    <3>3. CASE p.kind # "later"
      BY <1>2, <2>2, <2>4, <3>1, <3>3 DEF Ran
    <3> QED BY <3>2, <3>3
  <2> QED BY <1>7, <1>8, <2>3, <2>5 DEF PartsOK
<1>10. CASE p.kind = "readmem"
  <2>1. ReadFits(design, p) /\ ReadMemory(FromFile(OldState, p), p)
    BY <1>5, <1>6, <1>10 DEF StatementFits
  <2> DEFINE st == [OldState.st EXCEPT ![p.of] = FromFile(OldState, p).words]
             a == [OldState EXCEPT !.st = st]
  <2>2. StateOK(a) /\ a.pending = OldState.pending /\ a.queued = OldState.queued
    BY <1>1, <2>1, ReadDoes
  <2>3. store' = st /\ UNCHANGED <<changed, prev, active, pending, dumpOn, dumped, queue, queued>>
    BY <1>2, <2>1 DEF ReadMemory
  <2> HIDE DEF st
  <2>4. a = [st |-> st, changed |-> changed, prev |-> prev, active |-> active,
             pending |-> pending, queue |-> queue, queued |-> queued,
             on |-> dumpOn, dumped |-> dumped]
    BY DEF OldState
  <2> HIDE DEF a
  <2>5. Becomes(a)
    BY <2>3, <2>4 DEF Becomes
  <2>6. StateOK(OldState)'
    BY <1>3, <2>2, <2>5, BecomesOK
  <2>7. PendingWhile'
    BY <1>3, <1>4, <2>3 DEF PendingWhile, NetsInv
  <2> QED BY <1>7, <1>8, <2>6, <2>7 DEF PartsOK
<1> QED BY <1>9, <1>10

\* The handler executes the next statement of a container.
LEMMA InvStep == NetsInv /\ Step => NetsInv'
<1> SUFFICES ASSUME NetsInv, Step PROVE PartsOK'
  BY InvParts, PTL
<1>1. DesignFits(design) /\ StateOK(OldState)
  BY InvState
<1>2. /\ OldState.st = store /\ OldState.changed = changed /\ OldState.prev = prev
      /\ OldState.active = active /\ OldState.pending = pending /\ OldState.queue = queue
      /\ OldState.queued = queued /\ OldState.on = dumpOn /\ OldState.dumped = dumped
  BY DEF OldState
<1> DEFINE p == Head(todo)
           a == Executed(OldState, p)
<1>3. /\ design' = design /\ todo' = Tail(todo) /\ temp' = temp /\ stage' = stage /\ time' = time
      /\ drives' = drives /\ todo # <<>> /\ Becomes(a) /\ design' = design
  BY DEF Step
<1>4. BoundsOK'
  BY <1>3 DEF NetsInv, NetsTypeOK, BoundsOK
<1>5. queued' = a.queued /\ pending' = a.pending
  BY <1>3 DEF Becomes
<1>6. BatchFits /\ PendingWhile
  BY DEF NetsInv
<1>7. stage \in {"idle", "loop"} /\ stage # "idle"
  BY <1>3, <1>6 DEF BatchFits
<1>8. CASE temp \in Seq(DOMAIN design.events) /\ todo \in Seq(BodyStatements(design))
  <2>1. p \in BodyStatements(design) /\ Tail(todo) \in Seq(BodyStatements(design))
    BY <1>3, <1>8
  <2> HIDE DEF p
  <2>2. StatementFits(design, p)
    BY <1>1, <2>1 DEF DesignFits
  <2>3. Ran(OldState, p, a)
    BY <1>1, <2>2, ExecutedDoes
  <2> HIDE DEF a
  <2>4. StateOK(OldState)'
    BY <1>3, <2>3, BecomesOK DEF Ran
  <2>5. BatchFits'
    BY <1>3, <1>7, <1>8, <2>1 DEF BatchFits
  <2>6. PendingWhile'
    <3>1. \A u \in Updates : /\ \A i \in DOMAIN temp : temp[i] # <<u, 1>>
                             /\ todo # <<UpdateOf(u)>> /\ Tail(todo) # <<UpdateOf(u)>>
      BY <1>1, <1>8, <2>1, NoUpdateEvent, NoUpdateStatement
    <3> SUFFICES ASSUME NEW u \in Updates PROVE pending'[u] # Nothing <=> queued'[u]
      BY <1>3, <3>1 DEF PendingWhile
    <3>2. pending[u] # Nothing <=> queued[u]
      BY <1>6, <3>1 DEF PendingWhile
    <3>3. CASE p.kind = "later"
      BY <1>2, <1>5, <2>3, <3>2, <3>3 DEF Ran, Others
    <3>4. CASE p.kind # "later"
      BY <1>2, <1>5, <2>3, <3>2, <3>4 DEF Ran
    <3> QED BY <3>3, <3>4
  <2> QED BY <1>4, <2>4, <2>5, <2>6 DEF PartsOK
<1>9. CASE ~(temp \in Seq(DOMAIN design.events) /\ todo \in Seq(BodyStatements(design)))
  <2>1. PICK u \in Updates : /\ todo = <<UpdateOf(u)>> /\ ~queued[u]
                             /\ \A i \in DOMAIN temp : temp[i] # <<u, 1>>
    BY <1>3, <1>6, <1>9 DEF BatchFits
  <2>2. /\ temp \in Seq(Updates \X {1})
        /\ \A i, j \in DOMAIN temp : temp[i] = temp[j] => i = j
        /\ \A i \in DOMAIN temp : ~queued[temp[i][1]]
    BY <1>6, <1>9 DEF BatchFits
  <2>3. p = UpdateOf(u) /\ Tail(todo) = <<>>
    BY <2>1
  <2> HIDE DEF p
  <2>4. a = Update(OldState, u)
    BY <2>3 DEF Executed, UpdateOf
  <2>5. pending[u] # Nothing
    BY <1>6, <2>1 DEF PendingWhile
  <2>6. /\ StateOK(a) /\ Others(OldState, a, u)
        /\ a.queued[u] = OldState.queued[u] /\ a.pending[u] = Nothing
    <3>1. OldState.pending[u] # Nothing
      BY <1>2, <2>5
    <3> QED BY <1>1, <2>4, <3>1, UpdateDoes
  <2> HIDE DEF a
  <2>7. StateOK(OldState)'
    BY <1>3, <2>6, BecomesOK
  <2>8. \A v \in Updates : queued'[v] = queued[v]
    BY <1>2, <1>5, <2>6 DEF Others
  <2>9. BatchFits'
    <3>1. \A i \in DOMAIN temp : temp[i][1] \in Updates
      BY <2>2
    <3> QED BY <1>3, <1>7, <2>2, <2>3, <2>8, <3>1 DEF BatchFits
  <2>10. PendingWhile'
    <3> SUFFICES ASSUME NEW v \in Updates
                 PROVE  pending'[v] # Nothing <=> \/ queued'[v]
                                                  \/ \E i \in DOMAIN temp : temp[i] = <<v, 1>>
      BY <1>3, <2>3 DEF PendingWhile
    <3>1. CASE v = u
      BY <3>1, <1>5, <2>1, <2>6, <2>8
    <3>2. CASE v # u
      <4>1. pending'[v] = pending[v]
        BY <3>2, <1>2, <1>5, <2>6 DEF Others
      <4>2. todo # <<UpdateOf(v)>>
        <5>1. UpdateOf(u) # UpdateOf(v)
          BY <3>2 DEF UpdateOf
        <5> QED BY <2>1, <5>1
      <4> QED BY <1>6, <2>8, <4>1, <4>2 DEF PendingWhile
    <3> QED BY <3>1, <3>2
  <2> QED BY <1>4, <2>7, <2>9, <2>10 DEF PartsOK
<1> QED BY <1>8, <1>9

\* The event queue is handled.
LEMMA InvEnter == NetsInv /\ Enter => NetsInv'
<1> SUFFICES ASSUME NetsInv, Enter PROVE NetsInv'
  OBVIOUS
<1>1. /\ stage' = "loop"
      /\ UNCHANGED <<design, store, changed, prev, active, pending, dumpOn, dumped, todo, drives, time,
                     queue, queued, temp>>
  BY DEF Enter, Q!Enter, netVars
<1>2. BatchFits'
  BY <1>1 DEF NetsInv, BatchFits
<1>3. NetsTypeOK' /\ PendingWhile' /\ DumpFollows'
  BY <1>1 DEF NetsInv, NetsTypeOK, PendingWhile, DumpFollows, OldState, Decl, DumpedNets, Shown
<1> QED BY <1>2, <1>3 DEF NetsInv

\* The first list that is not empty becomes the batch.
LEMMA InvActivate == NetsInv /\ Activate => NetsInv'
<1> SUFFICES ASSUME NetsInv, Activate PROVE NetsInv'
  OBVIOUS
<1>1. PICK r \in DOMAIN Q!Ranked : Q!Activate(r)
  BY DEF Activate
<1> DEFINE k == Q!Ranked[r]
           l == queue[k]
<1>2. /\ todo = <<>> /\ temp = <<>> /\ stage' = stage /\ stage = "loop"
      /\ l # <<>> /\ temp' = l /\ queue' = [queue EXCEPT ![k] = <<>>]
      /\ queued' = [c \in Listeners \cup Updates |->
            queued[c] /\ \A i \in DOMAIN l : [e \in AllEvents |-> e[1]][l[i]] # c]
      /\ UNCHANGED <<design, store, changed, prev, active, pending, dumpOn, dumped, todo, drives, time>>
  BY <1>1 DEF Activate, Q!Activate, Q!MoveEvents, netVars
<1>3. DesignFits(design) /\ QueueFits(design, OldState) /\ StateOK(OldState)
  BY InvState DEF StateOK, Typed
<1>4. /\ queued \in [Listeners \cup Updates -> BOOLEAN]
      /\ queue \in [Q!Strata -> Seq(AllEvents)]
      /\ ListOf(queue["active"], queued, Listeners, DOMAIN design.events)
      /\ ListOf(queue["nonblocking"], queued, Updates, Updates \X {1})
      /\ \A j \in Q!Strata \ {"active", "nonblocking"} : queue[j] = <<>>
  BY <1>3 DEF QueueFits, OldState
<1>5. k \in Q!Strata /\ "active" \in Q!Strata /\ "nonblocking" \in Q!Strata
      /\ "active" # "nonblocking"
  BY StrataNames DEF Q!Strata, Q!Looped
<1> HIDE DEF k
<1>6. k \in {"active", "nonblocking"}
  BY <1>2, <1>4, <1>5
<1>7. l \in Seq(AllEvents)
  BY <1>4, <1>5
<1>8. /\ queued' \in [Listeners \cup Updates -> BOOLEAN]
      /\ \A c \in Listeners \cup Updates :
           queued'[c] <=> queued[c] /\ \A i \in DOMAIN l : l[i][1] # c
  <2>1. \A i \in DOMAIN l : [e \in AllEvents |-> e[1]][l[i]] = l[i][1]
    <3> HIDE DEF l
    <3> QED BY <1>7
  <2>2. queued' = [c \in Listeners \cup Updates |->
            queued[c] /\ \A i \in DOMAIN l : [e \in AllEvents |-> e[1]][l[i]] # c]
    BY <1>2
  <2> HIDE DEF l
  <2>3. \A c \in Listeners \cup Updates :
           queued'[c] <=> queued[c] /\ \A i \in DOMAIN l : [e \in AllEvents |-> e[1]][l[i]] # c
    BY <2>2
  <2>4. queued' \in [Listeners \cup Updates -> BOOLEAN]
    BY <1>4, <2>2
  <2> DEFINE f == [e \in AllEvents |-> e[1]]
  <2>5. ASSUME NEW c \in Listeners \cup Updates
        PROVE  queued'[c] <=> queued[c] /\ \A i \in DOMAIN l : l[i][1] # c
    <3>1. \A i \in DOMAIN l : f[l[i]] = l[i][1]
      BY <2>1
    <3>2. queued'[c] <=> queued[c] /\ \A i \in DOMAIN l : f[l[i]] # c
      BY <2>3
    <3> HIDE DEF f
    <3>3. (\A i \in DOMAIN l : f[l[i]] # c) <=> \A i \in DOMAIN l : l[i][1] # c
      BY <3>1
    <3> QED BY <3>2, <3>3
  <2> QED BY <2>4, <2>5
<1>9. /\ queue' \in [Q!Strata -> Seq(AllEvents)] /\ queue'[k] = <<>>
      /\ \A j \in Q!Strata : j # k => queue'[j] = queue[j]
  BY <1>2, <1>4, <1>5
<1> HIDE DEF l
<1>10. BatchFits /\ PendingWhile /\ NetsTypeOK /\ DumpFollows
  BY DEF NetsInv
<1>11. \A u \in Updates : pending[u] # Nothing <=> queued[u]
  BY <1>2, <1>10 DEF PendingWhile
<1>12. ASSUME ListOf(queue'["active"], queued', Listeners, DOMAIN design.events),
              ListOf(queue'["nonblocking"], queued', Updates, Updates \X {1})
       PROVE  NetsTypeOK' /\ DumpFollows'
  <2>1. /\ design' = design /\ Decl' = Decl /\ DumpedNets' = DumpedNets
    BY <1>2 DEF Decl, DumpedNets
  <2>2. \A j \in Q!Strata \ {"active", "nonblocking"} : queue'[j] = <<>>
    BY <1>4, <1>6, <1>9
  <2>3. QueueFits(design, OldState)'
    <3>1. OldState'.queue = queue' /\ OldState'.queued = queued'
      BY DEF OldState
    <3> QED BY <1>8, <1>9, <1>12, <2>1, <2>2, <3>1 DEF QueueFits
  <2>4. NetsFit(design, OldState)'
    <3>1. NetsFit(design, OldState)
      BY <1>10 DEF NetsTypeOK
    <3> QED BY <1>2, <2>1, <3>1 DEF NetsFit, OldState
  <2>5. DumpFollows'
    BY <1>2, <1>10, <2>1 DEF DumpFollows, Shown
  <2> QED BY <1>2, <1>10, <2>1, <2>3, <2>4, <2>5 DEF NetsTypeOK
<1>13. CASE k = "active"
  <2>1. ListOf(l, queued, Listeners, DOMAIN design.events) /\ l \in Seq(DOMAIN design.events)
    BY <1>4, <1>13 DEF ListOf, l
  <2>2. \A c \in Listeners : ~queued'[c]
    BY <1>8, <2>1 DEF ListOf
  <2>3. \A u \in Updates : \A i \in DOMAIN l : l[i][1] # u /\ l[i] # <<u, 1>>
    BY <1>3, <2>1, NoUpdateEvent
  <2>4. \A u \in Updates : queued'[u] = queued[u]
    BY <1>4, <1>8, <2>3
  <2>5. ListOf(queue'["active"], queued', Listeners, DOMAIN design.events)
    BY <1>9, <1>13, <2>2, ListEmpty
  <2>6. ListOf(queue'["nonblocking"], queued', Updates, Updates \X {1})
    <3> DEFINE n == queue["nonblocking"]
               E == Updates \X {1}
               new == queued'
    <3>1. queue'["nonblocking"] = n /\ ListOf(n, queued, Updates, E)
      BY <1>4, <1>5, <1>9, <1>13
    <3>2. \A u \in Updates : new[u] = queued[u]
      BY <2>4
    <3> HIDE DEF n, E, new
    <3>3. ListOf(n, new, Updates, E)
      BY <3>1, <3>2, ListElsewhere
    <3> QED BY <3>1, <3>3 DEF n, E, new
  <2>7. BatchFits'
    <3>1. temp' \in Seq(DOMAIN design'.events) /\ todo' \in Seq(BodyStatements(design'))
      BY <1>2, <2>1
    <3> QED BY <1>2, <3>1 DEF BatchFits
  <2>8. PendingWhile'
    BY <1>2, <1>11, <2>3, <2>4 DEF PendingWhile
  <2> QED BY <1>12, <2>5, <2>6, <2>7, <2>8 DEF NetsInv
<1>14. CASE k = "nonblocking"
  <2>1. /\ ListOf(l, queued, Updates, Updates \X {1}) /\ l \in Seq(Updates \X {1})
        /\ \A i, j \in DOMAIN l : l[i][1] = l[j][1] => i = j
        /\ \A u \in Updates : queued[u] <=> \E i \in DOMAIN l : l[i][1] = u
    BY <1>4, <1>14 DEF ListOf, l
  <2>2. \A i \in DOMAIN l : l[i] \in Updates \X {1} /\ l[i][1] \in Updates /\ l[i] = <<l[i][1], 1>>
    <3> SUFFICES ASSUME NEW i \in DOMAIN l
                 PROVE  l[i] \in Updates \X {1} /\ l[i][1] \in Updates /\ l[i] = <<l[i][1], 1>>
      OBVIOUS
    <3>1. l[i] \in Updates \X {1}
      BY <2>1
    <3> QED BY <3>1
  <2>3. \A u \in Updates : ~queued'[u]
    BY <1>8, <2>1
  <2>4. \A c \in Listeners : queued'[c] = queued[c]
    BY <1>4, <1>8, <2>2, NetsAssumption
  <2>5. ListOf(queue'["nonblocking"], queued', Updates, Updates \X {1})
    BY <1>9, <1>14, <2>3, ListEmpty
  <2>6. ListOf(queue'["active"], queued', Listeners, DOMAIN design.events)
    <3> DEFINE n == queue["active"]
               E == DOMAIN design.events
               new == queued'
    <3>1. queue'["active"] = n /\ ListOf(n, queued, Listeners, E)
      BY <1>4, <1>5, <1>9, <1>14
    <3>2. \A c \in Listeners : new[c] = queued[c]
      BY <2>4
    <3> HIDE DEF n, E, new
    <3>3. ListOf(n, new, Listeners, E)
      BY <3>1, <3>2, ListElsewhere
    <3> QED BY <3>1, <3>3 DEF n, E, new
  <2>7. BatchFits'
    <3>1. \A i, j \in DOMAIN l : l[i] = l[j] => i = j
      BY <2>1
    <3>2. \A i \in DOMAIN l : ~queued'[l[i][1]]
      BY <2>2, <2>3
    <3> QED BY <1>2, <2>1, <3>1, <3>2 DEF BatchFits
  <2>8. PendingWhile'
    <3> SUFFICES ASSUME NEW u \in Updates
                 PROVE  pending'[u] # Nothing <=> \E i \in DOMAIN l : l[i] = <<u, 1>>
      BY <1>2, <2>3 DEF PendingWhile
    <3>1. (\E i \in DOMAIN l : l[i] = <<u, 1>>) <=> \E i \in DOMAIN l : l[i][1] = u
      <4>1. <<u, 1>>[1] = u
        OBVIOUS
      <4> QED BY <2>2, <4>1
    <3> QED BY <1>2, <1>11, <2>1, <3>1
  <2> QED BY <1>12, <2>5, <2>6, <2>7, <2>8 DEF NetsInv
<1> QED BY <1>6, <1>13, <1>14

\* The handler takes the next event of the batch.
LEMMA InvTrigger == NetsInv /\ Trigger => NetsInv'
<1> SUFFICES ASSUME NetsInv, Trigger PROVE NetsInv'
  OBVIOUS
<1> DEFINE c == temp[1][1]
<1>1. /\ todo = <<>> /\ temp # <<>> /\ temp' = Tail(temp)
      /\ todo' = IF c \in Updates THEN <<UpdateOf(c)>> ELSE design.body[c]
      /\ UNCHANGED <<design, store, changed, prev, active, pending, dumpOn, dumped, drives, time,
                     queue, queued, stage>>
  BY DEF Trigger, Q!Handle, netVars
<1>2. DesignFits(design)
  BY InvState
<1>3. BatchFits /\ PendingWhile /\ NetsTypeOK /\ DumpFollows
  BY DEF NetsInv
<1>4. NetsTypeOK' /\ DumpFollows'
  BY <1>1, <1>3 DEF NetsTypeOK, DumpFollows, OldState, Decl, DumpedNets, Shown
<1>5. stage \in {"idle", "loop"} /\ stage # "idle" /\ design' = design
  BY <1>1, <1>3 DEF BatchFits
<1>6. CASE temp \in Seq(DOMAIN design.events)
  <2>1. temp[1] \in DOMAIN design.events /\ Tail(temp) \in Seq(DOMAIN design.events)
    BY <1>1, <1>6
  <2>2. c \in Listeners /\ c \notin Updates
    <3> DEFINE e == temp[1]
    <3>1. e \in DOMAIN design.events
      BY <2>1
    <3> HIDE DEF e
    <3>2. e[1] \in Listeners /\ e[1] \notin Updates
      BY <1>2, <3>1, EventType
    <3> QED BY <3>2 DEF e
  <2>3. todo' \in Seq(BodyStatements(design))
    <3>1. c \in DOMAIN design.body
      BY <1>2, <2>1 DEF DesignFits
    <3> HIDE DEF c
    <3>2. design.body[c] \in Seq(BodyStatements(design))
      BY <1>2, <3>1 DEF DesignFits
    <3> QED BY <1>1, <2>2, <3>2
  <2>4. BatchFits'
    BY <1>1, <1>5, <2>1, <2>3 DEF BatchFits
  <2>5. PendingWhile'
    <3> SUFFICES ASSUME NEW u \in Updates
                 PROVE  pending'[u] # Nothing
                          <=> \/ queued'[u]
                              \/ \E i \in DOMAIN temp' : temp'[i] = <<u, 1>>
                              \/ todo' = <<UpdateOf(u)>>
      BY DEF PendingWhile
    <3>1. todo' # <<UpdateOf(u)>>
      BY <1>2, <2>3, NoUpdateStatement
    <3>2. \A i \in DOMAIN temp : temp[i] # <<u, 1>>
      BY <1>2, <1>6, NoUpdateEvent
    <3>3. \A i \in DOMAIN temp' : temp'[i] # <<u, 1>>
      <4> DEFINE l == Tail(temp)
      <4>1. l \in Seq(DOMAIN design.events)
        BY <2>1
      <4> HIDE DEF l
      <4>2. \A i \in DOMAIN l : l[i] # <<u, 1>>
        BY <1>2, <4>1, NoUpdateEvent
      <4> QED BY <1>1, <4>2 DEF l
    <3> QED BY <1>1, <1>3, <3>1, <3>2, <3>3 DEF PendingWhile
  <2> QED BY <1>4, <2>4, <2>5 DEF NetsInv
<1>7. CASE temp \notin Seq(DOMAIN design.events)
  <2>1. /\ temp \in Seq(Updates \X {1})
        /\ \A i, j \in DOMAIN temp : temp[i] = temp[j] => i = j
        /\ \A i \in DOMAIN temp : ~queued[temp[i][1]]
    BY <1>3, <1>7 DEF BatchFits
  <2> DEFINE n == Len(temp)
             l == Tail(temp)
  <2>2. /\ n \in Nat \ {0} /\ DOMAIN temp = 1 .. n /\ l \in Seq(Updates \X {1})
        /\ DOMAIN l = 1 .. n - 1 /\ \A i \in 1 .. n - 1 : l[i] = temp[i + 1]
    BY <1>1, <2>1
  <2>3. temp[1] \in Updates \X {1}
    BY <2>1, <2>2
  <2>4. c \in Updates /\ temp[1] = <<c, 1>>
    BY <2>3
  <2> HIDE DEF c, n, l
  <2>5. todo' = <<UpdateOf(c)>> /\ temp' = l
    BY <1>1, <2>4 DEF l
  <2>6. ~queued[c]
    <3>1. 1 \in DOMAIN temp
      BY <2>2
    <3> QED BY <2>1, <3>1 DEF c
  <2>7. \A i \in DOMAIN l : i + 1 \in DOMAIN temp /\ i + 1 # 1 /\ l[i] = temp[i + 1]
    BY <2>2
  <2>8. \A i \in DOMAIN l : l[i] # <<c, 1>>
    <3>1. 1 \in DOMAIN temp
      BY <2>2
    <3> QED BY <2>1, <2>4, <2>7, <3>1
  <2>9. \A i, j \in DOMAIN l : l[i] = l[j] => i = j
    <3> SUFFICES ASSUME NEW i \in DOMAIN l, NEW j \in DOMAIN l, l[i] = l[j] PROVE i = j
      OBVIOUS
    <3>1. i + 1 = j + 1
      BY <2>1, <2>7
    <3> QED BY <2>2, <3>1
  <2>10. \A i \in DOMAIN l : ~queued[l[i][1]]
    BY <2>1, <2>7
  <2>11. BatchFits'
    BY <1>1, <1>5, <2>2, <2>4, <2>5, <2>6, <2>8, <2>9, <2>10 DEF BatchFits
  <2>12. PendingWhile'
    <3>5. \A u \in Updates : todo' = <<UpdateOf(u)>> <=> u = c
      <4>1. \A u \in Updates : UpdateOf(u) = UpdateOf(c) <=> u = c
        BY DEF UpdateOf
      <4> QED BY <2>5, <4>1
    <3> SUFFICES ASSUME NEW u \in Updates
                 PROVE  pending[u] # Nothing
                          <=> \/ queued[u]
                              \/ \E i \in DOMAIN l : l[i] = <<u, 1>>
                              \/ u = c
      BY <1>1, <2>5, <3>5 DEF PendingWhile
    <3>1. (\E i \in DOMAIN temp : temp[i] = <<u, 1>>) <=> (\E i \in DOMAIN l : l[i] = <<u, 1>>) \/ u = c
      <4>1. (\E i \in DOMAIN l : l[i] = <<u, 1>>) => \E i \in DOMAIN temp : temp[i] = <<u, 1>>
        BY <2>7
      <4>2. u = c => \E i \in DOMAIN temp : temp[i] = <<u, 1>>
        BY <2>2, <2>4
      <4>3. ASSUME NEW i \in DOMAIN temp, temp[i] = <<u, 1>>
            PROVE  (\E j \in DOMAIN l : l[j] = <<u, 1>>) \/ u = c
        <5>1. CASE i = 1
          BY <4>3, <5>1, <2>4
        <5>2. CASE i # 1
          <6>1. i - 1 \in DOMAIN l /\ (i - 1) + 1 = i
            BY <5>2, <2>2
          <6> QED BY <2>2, <4>3, <6>1
        <5> QED BY <5>1, <5>2
      <4> QED BY <4>1, <4>2, <4>3
    <3>2. todo # <<UpdateOf(u)>>
      BY <1>1
    <3> QED BY <1>3, <3>1, <3>2 DEF PendingWhile
  <2> QED BY <1>4, <2>11, <2>12 DEF NetsInv
<1> QED BY <1>6, <1>7

\* The nets that changed are written to the dump.
LEMMA EndTimeDoes ==
  ASSUME NetsInv, EndTime
  PROVE  /\ todo = <<>> /\ temp = <<>> /\ temp' = temp /\ stage' = "idle"
         /\ time < MaxTime /\ time' = time + 1 /\ drives' = 0
         /\ UNCHANGED <<design, store, prev, active, pending, dumpOn, todo, queue, queued>>
         /\ IF dumpOn
            THEN /\ changed' = changed \ DumpedNets
                 /\ dumped' = [n \in DumpedNets |->
                                 IF n \in changed THEN Shown(store, n) ELSE dumped[n]]
            ELSE changed' = changed /\ dumped' = dumped
<1>1. /\ todo = <<>> /\ temp' = temp /\ stage' = "idle" /\ time < MaxTime /\ time' = time + 1
      /\ drives' = 0
      /\ UNCHANGED <<design, store, prev, active, pending, dumpOn, todo, queue, queued>>
      /\ Q!LoopDone \/ stage = "strobe"
  BY DEF EndTime, Q!Leave
<1>2. temp = <<>>
  BY <1>1 DEF NetsInv, BatchFits, Q!LoopDone
<1> DEFINE s == IF dumpOn THEN DumpValues(OldState) ELSE OldState
<1>3. changed' = s.changed /\ dumped' = s.dumped
  BY DEF EndTime
<1>4. CASE dumpOn
  <2> DEFINE ch == changed \ DumpedNets
             du == [n \in DumpedNets |-> IF n \in changed THEN Shown(store, n) ELSE dumped[n]]
  <2>1. s = [OldState EXCEPT !.dumped = du, !.changed = ch]
    <3>1. OldState.changed = changed /\ OldState.dumped = dumped /\ OldState.st = store
      BY DEF OldState
    <3>2. s = [OldState EXCEPT
                 !.dumped = [n \in DumpedNets |-> IF n \in OldState.changed THEN Shown(OldState.st, n)
                                                  ELSE OldState.dumped[n]],
                 !.changed = OldState.changed \ DumpedNets]
      BY <1>4, Zenon DEF DumpValues
    <3> HIDE DEF s
    <3> QED BY <3>1, <3>2
  <2> HIDE DEF s, ch, du
  <2>2. s.changed = ch /\ s.dumped = du
    BY <2>1 DEF OldState
  <2> QED BY <1>1, <1>2, <1>3, <1>4, <2>2 DEF ch, du
<1>5. CASE ~dumpOn
  BY <1>1, <1>2, <1>3, <1>5 DEF OldState
<1> QED BY <1>4, <1>5

\* The time unit ends.
LEMMA InvEndTime == NetsInv /\ EndTime => NetsInv'
<1> SUFFICES ASSUME NetsInv, EndTime PROVE NetsInv'
  OBVIOUS
<1>1. /\ todo = <<>> /\ temp = <<>> /\ temp' = temp /\ stage' = "idle"
      /\ time < MaxTime /\ time' = time + 1 /\ drives' = 0
      /\ UNCHANGED <<design, store, prev, active, pending, dumpOn, todo, queue, queued>>
      /\ IF dumpOn
         THEN /\ changed' = changed \ DumpedNets
              /\ dumped' = [n \in DumpedNets |->
                              IF n \in changed THEN Shown(store, n) ELSE dumped[n]]
         ELSE changed' = changed /\ dumped' = dumped
  BY EndTimeDoes
<1>2. BatchFits /\ PendingWhile /\ NetsTypeOK /\ DumpFollows
  BY DEF NetsInv
<1>3. design' = design /\ Decl' = Decl /\ DumpedNets' = DumpedNets
  BY <1>1 DEF Decl, DumpedNets
<1>4. time \in Nat /\ time' \in 0 .. MaxTime /\ time' # 0 /\ drives' \in 0 .. MaxDrives
  BY <1>1, <1>2, NetsAssumption DEF NetsTypeOK
<1>5. NetsFit(design, OldState)'
  <2>1. NetsFit(design, OldState)
    BY <1>2 DEF NetsTypeOK
  <2>2. changed' \subseteq changed
    BY <1>1
  <2> QED BY <1>1, <1>3, <2>1, <2>2 DEF NetsFit, OldState
<1>6. QueueFits(design, OldState)'
  <2>1. QueueFits(design, OldState)
    BY <1>2 DEF NetsTypeOK
  <2>2. /\ OldState'.queue = OldState.queue /\ OldState'.queued = OldState.queued
    BY <1>1 DEF OldState
  <2> QED BY <1>3, <2>1, <2>2 DEF QueueFits
<1>7. DOMAIN dumped' = DumpedNets
  BY <1>1, <1>2 DEF NetsTypeOK
<1>8. NetsTypeOK'
  BY <1>1, <1>2, <1>3, <1>4, <1>5, <1>6, <1>7 DEF NetsTypeOK
<1>9. DumpFollows'
  <2> SUFFICES ASSUME dumpOn, NEW n \in DumpedNets \ design.locals, ~Inward(Decl[n]), n \notin changed'
               PROVE  dumped'[n] = Shown(store, n)
    BY <1>1, <1>3, <1>4 DEF DumpFollows, Shown
  <2>1. n \notin changed => dumped[n] = Shown(store, n)
    BY <1>2 DEF DumpFollows
  <2> QED BY <1>1, <2>1
<1>10. BatchFits'
  BY <1>1, <1>2, <1>3 DEF BatchFits
<1>11. PendingWhile'
  BY <1>1, <1>2 DEF PendingWhile
<1> QED BY <1>8, <1>9, <1>10, <1>11 DEF NetsInv

\* Or nothing happens.
LEMMA InvStutter == NetsInv /\ UNCHANGED vars => NetsInv'
<1> SUFFICES ASSUME NetsInv, UNCHANGED vars PROVE NetsInv'
  OBVIOUS
<1>1. UNCHANGED <<design, store, changed, prev, active, pending, dumpOn, dumped, todo, drives, time,
                  queue, queued, temp, stage>>
  BY DEF vars, netVars, queueVars
<1>2. BatchFits'
  BY <1>1 DEF NetsInv, BatchFits
<1>3. NetsTypeOK' /\ PendingWhile' /\ DumpFollows'
  BY <1>1 DEF NetsInv, NetsTypeOK, PendingWhile, DumpFollows, OldState, Decl, DumpedNets, Shown
<1> QED BY <1>2, <1>3 DEF NetsInv

\* The inductive invariant of the nets: whatever processes and updates assign
\* through however many ports, every net keeps its width and its bits
\* (common/st_util.cc), every container is in its list once exactly while it
\* is queued (common/event.h), an update has a value exactly while it is to
\* come (stmt/strigger.cc), and a net the dump does not show as it is has
\* changed (common/dumpvcd.cc).
THEOREM NetsInvariant == Spec => []NetsInv
<1>1. NetsInv /\ [Next]_vars => NetsInv'
  BY InvDrive, InvEnter, InvActivate, InvTrigger, InvStep, InvEndTime, InvStutter DEF Next
<1> QED BY <1>1, InvInit, PTL DEF Spec

\* At the end of every time unit that is dumped the dump shows what the nets
\* hold (dump_values, common/dumpvcd.cc), for every design, and however often
\* the dump was turned off and on.
THEOREM DumpsShow == Spec => DumpShows
<1>1. NetsInv /\ [Next]_vars =>
        (time' # time /\ dumpOn =>
           \A n \in DumpedNets \ design.locals : ~Inward(Decl[n]) => dumped'[n] = Shown(store, n))
  <2> SUFFICES ASSUME NetsInv, [Next]_vars, time' # time, dumpOn,
                      NEW n \in DumpedNets \ design.locals, ~Inward(Decl[n])
               PROVE  dumped'[n] = Shown(store, n)
    OBVIOUS
  <2>1. EndTime
    BY DEF Next, vars, Drive, Enter, Activate, Trigger, Step
  <2>2. dumped' = [o \in DumpedNets |-> IF o \in changed THEN Shown(store, o) ELSE dumped[o]]
    BY <2>1, EndTimeDoes
  <2>3. n \notin changed => dumped[n] = Shown(store, n)
    BY DEF NetsInv, DumpFollows
  <2> QED BY <2>2, <2>3
<1> QED BY <1>1, NetsInvariant, PTL DEF Spec, DumpShows
-----------------------------------------------------------------------------
(***************************************************************************)
(* What is written is what is read.                                        *)
(***************************************************************************)

\* A select that names an element that is there.
HitsElement(d, m, l) ==
  /\ m \in Int /\ l \in Int /\ l >= None
  /\ IF IsMemory(d) THEN m \in d.lo .. d.hi
     ELSE m = None \/ (m \in 0 .. d.size - 1 /\ (m = l \/ Inside(d, m, l)))

\* The positions of a net around the part [m:l], and how many it has.
Around(d, m, l) ==
  LET span == Span(d.size, d.up, m, l)
  IN  IF IsMemory(d) \/ m = None THEN {}
      ELSE {i \in 1 .. d.size : i - 1 < span.first \/ i - 1 > span.last}
Across(d, m, l) ==
  IF IsMemory(d) \/ m = None THEN d.size ELSE Length(Span(d.size, d.up, m, l))

\* The bits b of a net have become after, and the part of it has those of v.
PartWritten(b, after, v, part) ==
  /\ Length(part) \in 1 .. Len(b)
  /\ \A i \in 1 .. Length(part) : PartOf(after, part, Len(b))[i] = At(v, i)
  /\ \A i \in 1 .. Len(b) : i - 1 < part.first \/ i - 1 > part.last => after[i] = b[i]

\* A part inside a net that is replaced is read as it was written, and what
\* is around it stays.
LEMMA PartReads ==
  ASSUME NEW n \in Nat \ {0}, NEW b \in [1 .. n -> Logic], NEW v \in Seq(Logic),
         NEW first \in Int, NEW last \in Int, 0 <= first, first <= last, last < n
  PROVE  LET part == [first |-> first, last |-> last]
         IN  PartWritten(b, PartReplaced(b, part, v), v, part)
<1> DEFINE span == [first |-> first, last |-> last]
           after == PartReplaced(b, span, v)
<1>1. span.first = first /\ span.last = last /\ Length(span) = last - first + 1
  BY DEF Length
<1> HIDE DEF span
<1>2. \A i \in 1 .. n : after[i] = IF first < i /\ i <= last + 1 THEN At(v, i - first) ELSE b[i]
  BY <1>1 DEF PartReplaced
<1>3. Len(after) = n
  <2>1. b \in Seq(Logic) /\ DOMAIN b = 1 .. n
    BY BitsLen
  <2>2. after \in [1 .. n -> {after[i] : i \in 1 .. n}]
    BY <2>1 DEF PartReplaced
  <2> HIDE DEF after
  <2> QED BY <2>2
<1> HIDE DEF after
<1>4. ASSUME NEW i \in 1 .. Length(span) PROVE PartOf(after, span, n)[i] = At(v, i)
  <2> DEFINE j == first + i
  <2>1. j \in 1 .. n /\ i \in 1 .. n /\ first < j /\ j <= last + 1 /\ j - first = i
    BY <1>1
  <2>2. PartOf(after, span, n)[i] = after[j]
    BY <1>1, <1>3, <2>1 DEF PartOf
  <2> HIDE DEF j
  <2>3. after[j] = At(v, j - first)
    BY <1>2, <2>1
  <2> QED BY <2>1, <2>2, <2>3
<1>5. Length(span) \in 1 .. n
  BY <1>1
<1>6. \A i \in 1 .. n : i - 1 < first \/ i - 1 > last => after[i] = b[i]
  BY <1>2
<1>7. Len(b) = n
  BY BitsLen
<1>8. PartWritten(b, after, v, span)
  BY <1>1, <1>4, <1>5, <1>6, <1>7 DEF PartWritten
<1> QED BY <1>8 DEF span, after

\* The words of net d have become after, and the element [m:l] of it has the
\* bits of v.
ElementWritten(d, words, after, v, m, l) ==
  /\ Across(d, m, l) \in 1 .. d.size
  /\ \A i \in 1 .. Across(d, m, l) : SeenIn(d, after, m, l)[i] = At(v, i)
  /\ \A i \in Around(d, m, l) : after[0][i] = words[0][i]
  /\ \A k \in DOMAIN words : k # (IF IsMemory(d) THEN m ELSE 0) => after[k] = words[k]

\* A write to an element that is there is what is seen in it, and the rest of
\* the net stays.
LEMMA WriteSeen ==
  ASSUME NEW g, DesignFits(g), NEW st, StoreFits(g, st), NEW n \in DOMAIN g.nets,
         NEW num \in Seq(Logic), NEW ms, NEW ls, SliceFits(num, ms, ls),
         NEW m, NEW l, HitsElement(g.nets[n], m, l)
  PROVE  ElementWritten(g.nets[n], st[n], Write(g.nets, st, n, num, ms, ls, m, l).st[n],
                        Slice(num, ms, ls), m, l)
<1> DEFINE d == g.nets[n]
           v == Slice(num, ms, ls)
           x == Write(g.nets, st, n, num, ms, ls, m, l)
           w == x.st[n]
           k == IF IsMemory(d) THEN m ELSE 0
<1>1. m \in Int /\ l \in Int /\ l >= None /\ v \in Seq(Logic)
  BY SliceType DEF HitsElement
<1>2. WriteDoes(g, st, n, m, x)
  BY <1>1, WriteType
<1>3. \A j \in DOMAIN st[n] : j # k => w[j] = st[n][j]
  BY <1>2 DEF WriteDoes
<1>4. NetsFit1(g.nets) /\ StoreTyped(g.nets, st)
  BY DesignNets, StoreIsTyped
<1>5. d.size \in Nat \ {0} /\ d.up \in BOOLEAN
  BY <1>4, SizeType
<1>6. k \in DOMAIN st[n] /\ st[n][k] \in [1 .. d.size -> Logic]
  BY <1>4 DEF StoreTyped, HitsElement
<1>7. st[n] = [j \in DOMAIN st[n] |-> st[n][j]] /\ n \in DOMAIN st
  BY DEF StoreFits, Words
<1> DEFINE after == IF ~IsMemory(d) /\ m # None
                    THEN PartReplaced(st[n][k], Span(d.size, d.up, m, l), v)
                    ELSE Fit(v, d.size)
<1>8. w[k] = after
  <2>1. ~(IsMemory(d) /\ (m > d.hi \/ m < d.lo))
    <3>1. IsMemory(d) => d.lo \in Nat /\ d.hi \in Nat
      BY <1>4, SizeType
    <3> QED BY <1>1, <3>1 DEF HitsElement
  <2>2. ~(m < None \/ l < None)
    <3>1. IsMemory(d) => d.lo \in Nat /\ d.hi \in Nat
      BY <1>4, SizeType
    <3> QED BY <1>1, <1>5, <3>1 DEF HitsElement, None
  <2>3. x.st = [st EXCEPT ![n] = [st[n] EXCEPT ![k] = after]]
    BY <2>1, <2>2 DEF Write
  <2> HIDE DEF x, after, k
  <2>4. x.st[n] = [st[n] EXCEPT ![k] = after]
    BY <1>7, <2>3
  <2> QED BY <1>6, <2>4
<1> HIDE DEF x, w, v
<1>9. CASE IsMemory(d) \/ m = None
  <2>1. Across(d, m, l) = d.size /\ Around(d, m, l) = {}
    BY <1>9 DEF Across, Around
  <2>2. w[k] = Fit(v, d.size)
    BY <1>8, <1>9
  <2>3. SeenIn(d, w, m, l) = w[k]
    <3>1. IsMemory(d) => d.lo \in Nat /\ d.hi \in Nat
      BY <1>4, SizeType
    <3> QED BY <1>1, <1>9, <3>1 DEF SeenIn, HitsElement
  <2>4. \A i \in 1 .. d.size : SeenIn(d, w, m, l)[i] = At(v, i)
    BY <2>2, <2>3 DEF Fit
  <2>5. ElementWritten(d, st[n], w, v, m, l)
    BY <1>3, <1>5, <2>1, <2>4 DEF ElementWritten
  <2> QED BY <2>5 DEF w, x, v
<1>10. CASE ~IsMemory(d) /\ m # None
  <2> DEFINE span == Span(d.size, d.up, m, l)
             first == span.first
             last == span.last
  <2>1. /\ first \in Int /\ last \in Int
        /\ first = (IF d.up THEN d.size - 1 - l ELSE l) /\ last = (IF d.up THEN d.size - 1 - m ELSE m)
    <3> DEFINE N == d.size
               u == d.up
    <3>1. N \in Int /\ u \in BOOLEAN
      BY <1>5
    <3>2. /\ Span(N, u, m, l).first = (IF u THEN N - 1 - l ELSE l)
          /\ Span(N, u, m, l).last = (IF u THEN N - 1 - m ELSE m)
      BY DEF Span
    <3> HIDE DEF N, u
    <3>3. /\ Span(N, u, m, l).first \in Int /\ Span(N, u, m, l).last \in Int
      BY <1>1, <3>1, <3>2
    <3> QED BY <3>2, <3>3 DEF N, u
  <2>2. 0 <= first /\ first <= last /\ last < d.size
    <3>1. CASE m = l
      BY <1>5, <1>10, <2>1, <3>1 DEF HitsElement
    <3>2. CASE Inside(d, m, l)
      BY <3>2 DEF Inside
    <3> QED BY <1>10, <3>1, <3>2 DEF HitsElement
  <2>3. span = [first |-> first, last |-> last]
    BY DEF Span
  <2> DEFINE b == st[n][k]
             a == PartReplaced(b, [first |-> first, last |-> last], v)
             s == [first |-> first, last |-> last]
  <2>4. w[k] = a
    BY <1>8, <1>10, <2>3
  <2>5. SeenIn(d, w, m, l) = PartOf(a, s, d.size)
    <3> HIDE DEF a, k
    <3>1. k = 0
      BY <1>10 DEF k
    <3> QED BY <1>10, <2>3, <2>4, <3>1 DEF SeenIn
  <2>6. Across(d, m, l) = Length(s)
    BY <1>10, <2>3 DEF Across
  <2>7. Around(d, m, l) = {i \in 1 .. d.size : i - 1 < first \/ i - 1 > last}
    BY <1>10 DEF Around
  <2> DEFINE N == d.size
  <2>8. /\ Length(s) \in 1 .. N
        /\ \A i \in 1 .. Length(s) : PartOf(a, s, N)[i] = At(v, i)
        /\ \A i \in 1 .. N : i - 1 < first \/ i - 1 > last => a[i] = b[i]
    <3>1. N \in Nat \ {0} /\ b \in [1 .. N -> Logic] /\ v \in Seq(Logic)
      BY <1>1, <1>5, <1>6
    <3>2. s.first = first /\ s.last = last
      OBVIOUS
    <3> HIDE DEF N, b, first, last
    <3>3. Len(b) = N
      BY <3>1, BitsLen
    <3>4. last < N /\ first \in Int /\ last \in Int
      BY <2>1, <2>2 DEF N, first, last
    <3>5. PartWritten(b, a, v, s)
      BY <2>2, <3>1, <3>4, PartReads
    <3> HIDE DEF a, s
    <3> QED BY <3>2, <3>3, <3>5 DEF PartWritten
  <2> HIDE DEF a, s, first, last
  <2>9. \A i \in 1 .. Across(d, m, l) : SeenIn(d, w, m, l)[i] = At(v, i)
    BY <2>5, <2>6, <2>8
  <2>10. \A i \in Around(d, m, l) : w[0][i] = st[n][0][i]
    BY <1>10, <2>4, <2>7, <2>8
  <2>11. Across(d, m, l) \in 1 .. d.size
    BY <2>6, <2>8
  <2>12. ElementWritten(d, st[n], w, v, m, l)
    BY <1>3, <2>9, <2>10, <2>11 DEF ElementWritten
  <2> QED BY <2>12 DEF w, x, v
<1> QED BY <1>9, <1>10

\* What a select comes to, and that it names an element that is there.
Lands(sel, t) ==
  /\ t.m \in Int /\ t.l \in Int
  /\ sel.at = "none" => t.m = None /\ t.l = None
  /\ sel.at = "bit" => t.l = t.m
  /\ sel.at = "part" => t.m = sel.ms /\ t.l = sel.ls
IsThere(d, sel, t) ==
  IF IsMemory(d) THEN t.m \in d.lo .. d.hi ELSE sel.at = "none" \/ t.m \in 0 .. d.size - 1

\* A select comes to the bounds it has.
LEMMA TargetLands ==
  ASSUME DesignFits(design), NEW s, Typed(s), NEW x, NameFits(Decl, x)
  PROVE  Lands(x.sel, Target(s, x))
<1>1. Target(s, x).m \in Int /\ Target(s, x).l \in Int
  BY TargetType
<1>2. Target(s, x) = Selected(Decl, s.st, x.sel)
  BY DEF Target
<1>3. CASE x.sel.at = "none"
  BY <1>1, <1>2, <1>3 DEF Selected, Lands
<1>4. CASE x.sel.at = "part"
  BY <1>1, <1>2, <1>4 DEF Selected, Lands
<1>5. CASE x.sel.at = "bit"
  <2>1. Target(s, x).l = Target(s, x).m
    BY <1>2, <1>5 DEF Selected
  <2> QED BY <1>1, <1>5, <2>1 DEF Lands
<1>6. x.sel.at \in {"none", "bit", "part"}
  BY DEF NameFits
<1> QED BY <1>3, <1>4, <1>5, <1>6

\* Such an element can be written and read.
LEMMA ThereHits ==
  ASSUME DesignFits(design), NEW x, NameFits(Decl, x), NEW t, Lands(x.sel, t),
         IsThere(Decl[x.net], x.sel, t)
  PROVE  HitsElement(Decl[x.net], t.m, t.l)
<1> DEFINE d == Decl[x.net]
           N == d.size
           lo == d.lo
           hi == d.hi
           m == t.m
           l == t.l
<1>1. N \in Nat \ {0} /\ (IsMemory(d) => lo \in Nat /\ hi \in Nat)
  BY DesignNets, SizeType DEF NameFits, Decl
<1>2. /\ m \in Int /\ l \in Int /\ x.sel.at \in {"none", "bit", "part"}
      /\ IF IsMemory(d) THEN m \in lo .. hi ELSE x.sel.at = "none" \/ m \in 0 .. N - 1
  BY DEF Lands, IsThere, NameFits
<1>3. CASE x.sel.at = "none"
  <2>1. m = None /\ l = None
    BY <1>3 DEF Lands
  <2> QED BY <1>1, <1>2, <2>1 DEF HitsElement, None
<1>4. CASE x.sel.at = "bit"
  <2>1. l = m /\ (IF IsMemory(d) THEN m \in lo .. hi ELSE m \in 0 .. N - 1)
    BY <1>2, <1>4 DEF Lands
  <2>2. m >= None
    <3> HIDE DEF m, lo, hi, N
    <3> QED BY <1>1, <1>2, <2>1 DEF None
  <2> QED BY <1>2, <2>1, <2>2 DEF HitsElement
<1>5. CASE x.sel.at = "part"
  <2>1. /\ m = x.sel.ms /\ l = x.sel.ls /\ m \in Nat /\ l \in Nat
        /\ ~IsMemory(d) => Inside(d, m, l)
    BY <1>5 DEF Lands, NameFits
  <2>2. l >= None
    BY <2>1 DEF None
  <2> QED BY <1>2, <1>5, <2>1, <2>2 DEF HitsElement
<1> QED BY <1>2, <1>3, <1>4, <1>5

\* What a statement that hits an element names is there.
LEMMA HitsDoes ==
  ASSUME DesignFits(design), Typed(OldState), NEW p, StatementFits(design, p), Hits(p)
  PROVE  LET x == p.lval[1]
             t == Selected(Decl, store, x.sel)
         IN  NameFits(Decl, x) /\ HitsElement(Decl[x.net], t.m, t.l)
<1> DEFINE x == p.lval[1]
           t == Selected(Decl, store, x.sel)
<1>1. NameFits(Decl, x)
  BY DEF Hits, StatementFits, LvalFits, Decl
<1>2. t = Target(OldState, x)
  BY DEF Target, OldState
<1>3. IsThere(Decl[x.net], x.sel, t)
  BY DEF Hits, IsThere
<1> HIDE DEF x, t
<1>4. HitsElement(Decl[x.net], t.m, t.l)
  BY <1>1, <1>2, <1>3, TargetLands, ThereHits
<1> QED BY <1>1, <1>4 DEF x, t

\* The assignment of a process whose driver is on, to one name.
LEMMA OneAssigned ==
  ASSUME DesignFits(design), Typed(OldState), NEW p, StatementFits(design, p), Hits(p)
  PROVE  LET x == p.lval[1]
             t == Selected(Decl, store, x.sel)
             v == Value(Decl, store, p.rval)
         IN  /\ v \in Seq(Logic)
             /\ Blocking(OldState, p).st[x.net]
                  = Write(Decl, store, x.net, v, None, None, t.m, t.l).st[x.net]
<1> DEFINE x == p.lval[1]
           v == Value(Decl, store, p.rval)
           slice == Elements(Decl, p.lval)[1]
           target == Target(OldState, x)
<1>1. /\ ExprFits(Decl, p.rval) /\ LvalFits(Decl, p.lval, ExprWidth(Decl, p.rval))
      /\ Len(p.lval) = 1 /\ ~IsTristate(p.rval, v)
  BY DEF Hits, StatementFits, Decl
<1>2. NetsFit1(Decl) /\ StoreTyped(Decl, store) /\ OldState.st = store
  BY DesignNets, StoreIsTyped DEF Decl, Typed, NetsFit, OldState
<1>3. v \in Seq(Logic) /\ Len(v) = ExprWidth(Decl, p.rval)
  <2>1. ExprWidth(Decl, p.rval) \in Nat \ {0} /\ v \in [1 .. ExprWidth(Decl, p.rval) -> Logic]
    BY <1>1, <1>2, ValueType
  <2> HIDE DEF v
  <2> QED BY <2>1, BitsLen
<1>4. NameFits(Decl, x) /\ x.net \in DOMAIN Decl /\ DOMAIN p.lval = 1 .. 1
  BY <1>1 DEF LvalFits, NameFits
<1>5. slice = [ms |-> None, ls |-> None]
  BY <1>1, <1>4 DEF Elements
<1>6. Blocking(OldState, p) = Into(OldState, p.lval, v, <<>>)
  BY <1>1, <1>2 DEF Blocking, BlockingValue, Store
<1>7. Into(OldState, p.lval, v, <<>>) = IntoElement(p.lval, v, <<>>, 1, OldState)
  <2> HIDE DEF v
  <2> QED BY <1>1, <1>3, IntoDoes DEF TargetsFit
<1>8. IntoElement(p.lval, v, <<>>, 1, OldState)
        = Assignment(OldState, x.net, v, slice, target)
  BY DEF IntoElement
<1>9. SliceFits(v, slice.ms, slice.ls)
  BY <1>5 DEF SliceFits
<1>10. target.m \in Int /\ target.l \in Int
  BY <1>4, TargetType
<1>11. Assignment(OldState, x.net, v, slice, target).st[x.net]
         = Write(Decl, store, x.net, v, slice.ms, slice.ls, target.m, target.l).st[x.net]
  <2> DEFINE n == x.net
  <2>1. n \in DOMAIN Decl /\ v \in Seq(Logic)
    BY <1>3, <1>4
  <2> HIDE DEF v, slice, target, x, n
  <2>2. Assignment(OldState, n, v, slice, target).st[n]
          = Write(Decl, OldState.st, n, v, slice.ms, slice.ls, target.m, target.l).st[n]
    BY <2>1, <1>9, <1>10, AssignmentDoes
  <2> QED BY <1>2, <2>2 DEF n
<1>12. target = Selected(Decl, store, x.sel)
  BY <1>2 DEF Target
<1> QED BY <1>3, <1>5, <1>6, <1>7, <1>8, <1>11, <1>12

\* What a process assigns to an element of a net is what reading that element
\* gives at once, and nothing around it moves (st_net_assign and
\* st_net_evaluate, st_util.cc:456-568): for every net that is not read through
\* a port, whatever else listens to it or lies outside of it.
THEOREM WriteReadsHolds == Spec => []WriteReads
<1>1. NetsInv => WriteReads
  <2> SUFFICES ASSUME NetsInv, NEW p \in design.moves, Hits(p), ~Inward(Decl[p.lval[1].net])
               PROVE  ReadsBack(p, Blocking(OldState, p).st)
    BY DEF WriteReads
  <2> DEFINE x == p.lval[1]
             d == Decl[x.net]
             t == Selected(Decl, store, x.sel)
             v == Value(Decl, store, p.rval)
             after == Blocking(OldState, p).st
  <2>1. DesignFits(design) /\ Typed(OldState) /\ StoreFits(design, store)
    BY InvState DEF StateOK, Typed, NetsFit, OldState
  <2>2. StatementFits(design, p)
    BY <2>1 DEF DesignFits, ReadFits, Hits
  <2>3. NameFits(Decl, x) /\ HitsElement(d, t.m, t.l)
    BY <2>1, <2>2, HitsDoes
  <2>4. x.net \in DOMAIN design.nets /\ Decl = design.nets
    BY <2>3 DEF NameFits, Decl
  <2>5. v \in Seq(Logic)
        /\ after[x.net] = Write(Decl, store, x.net, v, None, None, t.m, t.l).st[x.net]
    BY <2>1, <2>2, OneAssigned
  <2>6. Evaluated(Decl, after, x.net, t.m, t.l) = SeenIn(d, after[x.net], t.m, t.l)
    BY <2>1, <2>4, DesignNets, EvaluatedHere
  <2>7. Slice(v, None, None) = v /\ SliceFits(v, None, None)
    BY DEF Slice, SliceFits
  <2> DEFINE m == t.m
             l == t.l
             n == x.net
             w == after[n]
  <2>8. ElementWritten(d, store[n], w, v, m, l)
    <3>1. w = Write(design.nets, store, n, v, None, None, m, l).st[n]
      BY <2>4, <2>5
    <3>2. n \in DOMAIN design.nets /\ HitsElement(design.nets[n], m, l) /\ d = design.nets[n]
      BY <2>3, <2>4
    <3> HIDE DEF w, v, m, l, n, d
    <3> QED BY <2>1, <2>5, <2>7, <3>1, <3>2, WriteSeen
  <2>9. \A i \in 1 .. Across(d, m, l) : Evaluated(Decl, after, n, m, l)[i] = At(v, i)
    BY <2>6, <2>8 DEF ElementWritten
  <2> HIDE DEF after, v
  <2> QED BY <2>8, <2>9 DEF ElementWritten, ReadsBack, Around, Across, after, v
<1> QED BY <1>1, NetsInvariant, PTL DEF Spec
-----------------------------------------------------------------------------
(***************************************************************************)
(* No edge is missed.                                                      *)
(***************************************************************************)

\* Those who listen can hear: the nets they listen to are not read through a
\* port, no arguments of a task, and not loaded from a file.
Audible(g) ==
  \A e \in DOMAIN g.events : \A n \in Monitored(g.events[e].expr) :
    /\ ~Inward(g.nets[n]) /\ n \notin g.locals
    /\ \A p \in g.moves : p.kind = "readmem" => p.of # n

\* The nets of X are the same in two stores.
SameOn(st, sto, X) == \A n \in X : st[n] = sto[n] /\ n \in DOMAIN Decl /\ ~Inward(Decl[n])

\* A name is read from the nets it monitors.
LEMMA ReadSame ==
  ASSUME DesignFits(design), NEW st, NEW sto, NEW x, NameFits(Decl, x), SameOn(st, sto, NetsOf(x))
  PROVE  Read(Decl, st, x) = Read(Decl, sto, x)
<1>1. NetsFit1(Decl)
  BY DesignNets DEF Decl
<1>2. ASSUME NEW n \in NetsOf(x), NEW m, NEW l
      PROVE  Evaluated(Decl, st, n, m, l) = Evaluated(Decl, sto, n, m, l)
  <2>1. n \in DOMAIN Decl /\ ~Inward(Decl[n]) /\ st[n] = sto[n]
    BY DEF SameOn
  <2>2. /\ Evaluated(Decl, st, n, m, l) = SeenIn(Decl[n], st[n], m, l)
        /\ Evaluated(Decl, sto, n, m, l) = SeenIn(Decl[n], sto[n], m, l)
    BY <1>1, <2>1, EvaluatedHere
  <2> QED BY <2>1, <2>2
<1>3. Selected(Decl, st, x.sel) = Selected(Decl, sto, x.sel)
  <2>1. CASE x.sel.at = "bit"
    <3>1. x.sel.of \in NetsOf(x)
      BY <2>1 DEF NetsOf
    <3>2. Evaluated(Decl, st, x.sel.of, None, None) = Evaluated(Decl, sto, x.sel.of, None, None)
      BY <1>2, <3>1
    <3> QED BY <3>2 DEF Selected
  <2>2. CASE x.sel.at # "bit"
    BY <2>2 DEF Selected, NameFits
  <2> QED BY <2>1, <2>2
<1> DEFINE t == Selected(Decl, st, x.sel)
<1>4. Evaluated(Decl, st, x.net, t.m, t.l) = Evaluated(Decl, sto, x.net, t.m, t.l)
  <2>1. x.net \in NetsOf(x)
    BY DEF NetsOf
  <2> HIDE DEF t
  <2> QED BY <1>2, <2>1
<1> QED BY <1>3, <1>4 DEF Read, ReadAt

\* An expression is worth the same as long as the nets it monitors are.
LEMMA ValueSame ==
  ASSUME DesignFits(design), NEW st, NEW sto, NEW e, ExprFits(Decl, e), SameOn(st, sto, Monitored(e))
  PROVE  Value(Decl, st, e) = Value(Decl, sto, e)
<1>1. ASSUME NEW x \in OperandsOf(e), NameFits(Decl, x) PROVE Read(Decl, st, x) = Read(Decl, sto, x)
  <2>1. SameOn(st, sto, NetsOf(x))
    BY DEF SameOn, Monitored
  <2> QED BY <1>1, <2>1, ReadSame
<1>2. ASSUME NEW y, SimpleFits(Decl, y), y.op # "number" => y.x \in OperandsOf(e)
      PROVE  Simple(Decl, st, y) = Simple(Decl, sto, y)
  <2>1. CASE y.op = "number"
    BY <2>1 DEF Simple
  <2>2. CASE y.op # "number"
    <3>1. Read(Decl, st, y.x) = Read(Decl, sto, y.x)
      BY <1>1, <1>2, <2>2 DEF SimpleFits, ValueFits
    <3> QED BY <2>2, <3>1 DEF Simple
  <2> QED BY <2>1, <2>2
<1>3. CASE e.op # "if"
  <2>1. e.op # "number" => e.x \in OperandsOf(e)
    BY <1>3 DEF OperandsOf
  <2> QED BY <1>2, <1>3, <2>1 DEF Value, ExprFits
<1>4. CASE e.op = "if"
  <2>1. /\ e.x \in OperandsOf(e)
        /\ e.then.op # "number" => e.then.x \in OperandsOf(e)
        /\ e.else.op # "number" => e.else.x \in OperandsOf(e)
    BY <1>4 DEF OperandsOf
  <2>2. NameFits(Decl, e.x) /\ SimpleFits(Decl, e.then) /\ SimpleFits(Decl, e.else)
    BY <1>4 DEF ExprFits, ValueFits
  <2>3. Read(Decl, st, e.x) = Read(Decl, sto, e.x)
    BY <1>1, <2>1, <2>2
  <2>4. Simple(Decl, st, e.then) = Simple(Decl, sto, e.then)
    BY <1>2, <2>1, <2>2
  <2>5. Simple(Decl, st, e.else) = Simple(Decl, sto, e.else)
    BY <1>2, <2>1, <2>2
  <2> QED BY <1>4, <2>3, <2>4, <2>5 DEF Value
<1> QED BY <1>3, <1>4

\* The nets of an expression that setup has checked are nets.
LEMMA MonitoredNets ==
  ASSUME NEW g, NEW e, ExprFits(g.nets, e)
  PROVE  Monitored(e) \subseteq DOMAIN g.nets
<1>1. \A x : NameFits(g.nets, x) => NetsOf(x) \subseteq DOMAIN g.nets
  BY DEF NameFits, NetsOf
<1>2. \A x \in OperandsOf(e) : NameFits(g.nets, x)
  BY DEF OperandsOf, ExprFits, SimpleFits, ValueFits
<1> QED BY <1>1, <1>2 DEF Monitored

\* The bit an event compares with.
LEMMA FirstBitSame ==
  ASSUME DesignFits(design), Audible(design), NEW st, NEW sto, NEW e \in DOMAIN design.events,
         \A n \in Monitored(design.events[e].expr) : st[n] = sto[n]
  PROVE  FirstBit(st, e) = FirstBit(sto, e)
<1> DEFINE x == design.events[e].expr
<1>1. ExprFits(Decl, x)
  BY EventType
<1>2. Monitored(x) \subseteq DOMAIN Decl
  BY <1>1, MonitoredNets DEF Decl
<1>3. SameOn(st, sto, Monitored(x))
  BY <1>2 DEF SameOn, Audible, Decl
<1> HIDE DEF x
<1>4. Value(Decl, st, x) = Value(Decl, sto, x)
  BY <1>1, <1>3, ValueSame
<1> QED BY <1>4 DEF FirstBit, x

\* What event e waits for happens from one store to the other.
HitFrom(st, sto, e) ==
  IF IsEdge(e) THEN Edge(FirstBit(st, e), FirstBit(sto, e)) = design.events[e].kind
  ELSE \E n \in Monitored(design.events[e].expr) : st[n] # sto[n]

\* Nothing that is waited for happens where nothing changes.
LEMMA NoHit ==
  ASSUME DesignFits(design), Audible(design), NEW st, NEW sto, NEW e \in DOMAIN design.events,
         \A n \in Monitored(design.events[e].expr) : st[n] = sto[n]
  PROVE  ~HitFrom(st, sto, e)
<1>1. FirstBit(st, e) = FirstBit(sto, e)
  BY FirstBitSame
<1>2. Edge(FirstBit(st, e), FirstBit(sto, e)) = "none"
  BY <1>1 DEF Edge
<1>3. design.events[e].kind \in {"change", "posedge", "negedge"}
  BY EventType
<1> QED BY <1>2, <1>3 DEF HitFrom

\* Every event has the bit it compares with.
PrevSeen(s) == \A e \in DOMAIN design.events : IsEdge(e) => s.prev[e] = FirstBit(s.st, e)

\* Of those who wait, s has queued in a the ones whose wait is over.
Hears(s, a) ==
  \A c \in Listeners : IsActive(s, c) /\ ~s.queued[c] =>
    (a.queued[c] <=> \E e \in DOMAIN design.events : e[1] = c /\ HitFrom(s.st, a.st, e))

\* Who listens to nothing that changes is not concerned.
LEMMA QuietHeard ==
  ASSUME DesignFits(design), Audible(design), NEW s, NEW a, PrevSeen(s), a.prev = s.prev,
         \A c \in Listeners : a.queued[c] = s.queued[c],
         \A e \in DOMAIN design.events : \A n \in Monitored(design.events[e].expr) :
           s.st[n] = a.st[n]
  PROVE  PrevSeen(a) /\ Hears(s, a)
<1>1. \A e \in DOMAIN design.events : ~HitFrom(s.st, a.st, e)
  BY NoHit
<1>2. \A e \in DOMAIN design.events : FirstBit(s.st, e) = FirstBit(a.st, e)
  BY FirstBitSame
<1>3. PrevSeen(a)
  BY <1>2 DEF PrevSeen
<1>4. Hears(s, a)
  BY <1>1 DEF Hears
<1> QED BY <1>3, <1>4

\* One assignment is heard, through however many ports.
LEMMA OneHeard ==
  ASSUME DesignFits(design), Audible(design), NEW s, PrevSeen(s), NEW a, Assigns(s, a)
  PROVE  PrevSeen(a) /\ Hears(s, a)
<1> DEFINE C == Differing(s, a)
           T == ListeningTo(C)
<1>1. ASSUME NEW e \in DOMAIN design.events
      PROVE  e \in T <=> \E n \in Monitored(design.events[e].expr) : s.st[n] # a.st[n]
  <2>1. Monitored(design.events[e].expr) \subseteq DOMAIN Decl
    BY EventType, MonitoredNets DEF Decl
  <2> QED BY <2>1 DEF ListeningTo, Listening, Differing
<1> HIDE DEF C, T
<1>2. ASSUME NEW e \in DOMAIN design.events, e \notin T
      PROVE  FirstBit(s.st, e) = FirstBit(a.st, e) /\ ~HitFrom(s.st, a.st, e)
  <2>1. \A n \in Monitored(design.events[e].expr) : s.st[n] = a.st[n]
    BY <1>1, <1>2
  <2> QED BY <2>1, FirstBitSame, NoHit
<1>3. /\ \A e \in DOMAIN design.events :
           a.prev[e] = IF e \in T /\ IsEdge(e) THEN FirstBit(a.st, e) ELSE s.prev[e]
      /\ \A c \in Listeners :
           a.queued[c] <=> \/ s.queued[c]
                           \/ /\ IsActive(s, c)
                              /\ \E e \in T :
                                   /\ e[1] = c
                                   /\ IsEdge(e) =>
                                        Edge(s.prev[e], FirstBit(a.st, e)) = design.events[e].kind
      /\ T \subseteq DOMAIN design.events
  BY DEF Assigns, C, T, ListeningTo
<1>4. PrevSeen(a)
  BY <1>2, <1>3 DEF PrevSeen
<1>5. ASSUME NEW e \in T
      PROVE  HitFrom(s.st, a.st, e) <=>
               (IsEdge(e) => Edge(s.prev[e], FirstBit(a.st, e)) = design.events[e].kind)
  <2>1. e \in DOMAIN design.events
    BY <1>3
  <2> QED BY <1>1, <2>1 DEF HitFrom, PrevSeen
<1>6. ASSUME NEW c \in Listeners, IsActive(s, c), ~s.queued[c]
      PROVE  a.queued[c] <=> \E e \in DOMAIN design.events : e[1] = c /\ HitFrom(s.st, a.st, e)
  BY <1>2, <1>3, <1>5, <1>6
<1>7. Hears(s, a)
  BY <1>6 DEF Hears
<1> QED BY <1>4, <1>7

\* After the elements up to k, b is heard from s: every net that has changed
\* leads where one of them does, and who has not been queued is as active as
\* before.
HeardUpTo(s, group, lval, k, b) ==
  /\ PrevSeen(b) /\ Hears(s, b)
  /\ \A c \in Listeners : ~b.queued[c] => b.active[c] = s.active[c]
  /\ \A o \in DOMAIN Decl : b.st[o] # s.st[o] => \E j \in 1 .. k : group[o] = group[lval[j].net]

\* From r to s the elements K of a left hand side have been assigned, and to t
\* another one, k.
InTurn(group, lval, K, k, r, s, t) ==
  /\ k \in DOMAIN lval /\ K \subseteq DOMAIN lval /\ k \notin K
  /\ \A o \in DOMAIN Decl : s[o] # r[o] => \E j \in K : group[o] = group[lval[j].net]
  /\ \A o \in DOMAIN Decl : t[o] # s[o] => group[o] = group[lval[k].net]

\* What an event waits for has happened when it has happened up to an element
\* of a left hand side, or happens by the next one.
LEMMA HitOnce ==
  ASSUME DesignFits(design), Audible(design), NEW group, NEW lval, Apart(design, group, lval),
         NEW k, NEW K, NEW r, NEW s, NEW t, InTurn(group, lval, K, k, r, s, t),
         NEW e \in DOMAIN design.events
  PROVE  HitFrom(r, t, e) <=> HitFrom(r, s, e) \/ HitFrom(s, t, e)
<1> USE DEF InTurn
<1> DEFINE X == Monitored(design.events[e].expr)
<1>1. X \subseteq DOMAIN Decl
  BY EventType, MonitoredNets DEF Decl
<1>2. \A j \in K : group[lval[j].net] # group[lval[k].net]
  BY DEF Apart, Elsewhere
<1>3. CASE ~IsEdge(e)
  <2>1. \A n \in X : r[n] # t[n] <=> r[n] # s[n] \/ s[n] # t[n]
    BY <1>1, <1>2
  <2> QED BY <1>3, <2>1 DEF HitFrom
<1>4. CASE IsEdge(e)
  <2>1. \A j \in K : ~({group[lval[j].net], group[lval[k].net]} \subseteq {group[n] : n \in X})
    BY <1>4 DEF Apart, IsEdge
  <2>2. CASE \A n \in X : s[n] = t[n]
    <3>1. FirstBit(s, e) = FirstBit(t, e) /\ ~HitFrom(s, t, e)
      BY <2>2, FirstBitSame, NoHit
    <3> QED BY <1>4, <3>1 DEF HitFrom
  <2>3. CASE \E n \in X : s[n] # t[n]
    <3>1. group[lval[k].net] \in {group[n] : n \in X}
      BY <1>1, <2>3
    <3>2. ASSUME NEW n \in X, r[n] # s[n] PROVE FALSE
      <4>1. PICK j \in K : group[n] = group[lval[j].net]
        BY <1>1, <3>2
      <4>2. group[lval[j].net] \in {group[m] : m \in X}
        BY <4>1
      <4> QED BY <2>1, <3>1, <4>2
    <3>3. FirstBit(r, e) = FirstBit(s, e) /\ ~HitFrom(r, s, e)
      BY <3>2, FirstBitSame, NoHit
    <3> QED BY <1>4, <3>3 DEF HitFrom
  <2> QED BY <2>2, <2>3
<1> QED BY <1>3, <1>4

\* One more element is heard as the ones before.
LEMMA HeardMore ==
  ASSUME DesignFits(design), Audible(design), NEW group, NEW lval,
         Apart(design, group, lval), DOMAIN lval = 1 .. Len(lval), NEW s, Typed(s),
         NEW k \in DOMAIN lval, NEW b, Typed(b), HeardUpTo(s, group, lval, k - 1, b),
         NEW a, Assigns(b, a), \A o \in Differing(b, a) : group[o] = group[lval[k].net]
  PROVE  HeardUpTo(s, group, lval, k, a)
<1> DEFINE K == 1 .. k - 1
<1>1. k \in 1 .. Len(lval) /\ K \subseteq DOMAIN lval /\ k \notin K
      /\ \A j : j \in 1 .. k <=> j \in K \/ j = k
  OBVIOUS
<1>2. /\ PrevSeen(b) /\ Hears(s, b)
      /\ \A c \in Listeners : ~b.queued[c] => b.active[c] = s.active[c]
      /\ \A o \in DOMAIN Decl : b.st[o] # s.st[o] => \E j \in K : group[o] = group[lval[j].net]
  BY DEF HeardUpTo
<1>3. PrevSeen(a) /\ Hears(b, a)
  BY <1>2, OneHeard
<1>4. \A o \in DOMAIN Decl : a.st[o] # b.st[o] => group[o] = group[lval[k].net]
  BY DEF Differing
<1> HIDE DEF K
<1>5. ASSUME NEW e \in DOMAIN design.events
      PROVE  HitFrom(s.st, a.st, e) <=> HitFrom(s.st, b.st, e) \/ HitFrom(b.st, a.st, e)
  <2> DEFINE r == s.st
             m == b.st
             t == a.st
  <2>1. InTurn(group, lval, K, k, r, m, t)
    BY <1>1, <1>2, <1>4 DEF InTurn
  <2> HIDE DEF r, m, t
  <2>2. HitFrom(r, t, e) <=> HitFrom(r, m, e) \/ HitFrom(m, t, e)
    BY <2>1, HitOnce
  <2> QED BY <2>2 DEF r, m, t
<1>6. \A c \in Listeners : (b.queued[c] => a.queued[c]) /\ (~a.queued[c] => a.active[c] = b.active[c])
  BY DEF Assigns
<1>7. Hears(s, a)
  <2> SUFFICES ASSUME NEW c \in Listeners, IsActive(s, c), ~s.queued[c]
               PROVE  a.queued[c] <=>
                        \E e \in DOMAIN design.events : e[1] = c /\ HitFrom(s.st, a.st, e)
    BY DEF Hears
  <2>1. b.queued[c] <=> \E e \in DOMAIN design.events : e[1] = c /\ HitFrom(s.st, b.st, e)
    BY <1>2 DEF Hears
  <2>2. CASE b.queued[c]
    BY <1>5, <1>6, <2>1, <2>2
  <2>3. CASE ~b.queued[c]
    <3>1. IsActive(b, c)
      BY <1>2, <2>3 DEF IsActive
    <3>2. a.queued[c] <=> \E e \in DOMAIN design.events : e[1] = c /\ HitFrom(b.st, a.st, e)
      BY <1>3, <2>3, <3>1 DEF Hears
    <3> QED BY <1>5, <2>1, <2>3, <3>2
  <2> QED BY <2>2, <2>3
<1>8. \A c \in Listeners : ~a.queued[c] => a.active[c] = s.active[c]
  BY <1>2, <1>6
<1>9. \A o \in DOMAIN Decl : a.st[o] # s.st[o] => \E j \in 1 .. k : group[o] = group[lval[j].net]
  <2> SUFFICES ASSUME NEW o \in DOMAIN Decl, a.st[o] # s.st[o]
               PROVE  \E j \in 1 .. k : group[o] = group[lval[j].net]
    OBVIOUS
  <2>1. CASE a.st[o] # b.st[o]
    BY <1>1, <1>4, <2>1
  <2>2. CASE a.st[o] = b.st[o]
    BY <1>1, <1>2, <2>2
  <2> QED BY <2>1, <2>2
<1> QED BY <1>3, <1>7, <1>8, <1>9 DEF HeardUpTo

\* A left hand side whose elements lead to different nets is heard as if all
\* of them were assigned at once.
LEMMA IntoHeard ==
  ASSUME DesignFits(design), Audible(design), NEW group \in Groups(design),
         NEW s, Typed(s), PrevSeen(s), NEW num \in Seq(Logic),
         NEW lval, LvalFits(Decl, lval, Len(num)), Apart(design, group, lval),
         NEW targets, TargetsFit(lval, targets)
  PROVE  LET a == Into(s, lval, num, targets) IN PrevSeen(a) /\ Hears(s, a)
<1> DEFINE L == Len(lval)
           a == Into(s, lval, num, targets)
<1>1. L \in Nat \ {0} /\ DOMAIN lval = 1 .. L
  BY DEF LvalFits
<1>2. PICK into \in [0 .. L -> KeepStates(s)] :
           /\ into[0] = s
           /\ \A i \in 1 .. L : into[i] = IntoElement(lval, num, targets, i, into[i - 1])
           /\ a = into[L]
  BY IntoSteps
<1> HIDE DEF a
<1> DEFINE T == {k \in 0 .. L : HeardUpTo(s, group, lval, k, into[k])}
<1>3. 0 \in T
  <2>1. PrevSeen(s) /\ Hears(s, s)
    BY QuietHeard
  <2>2. HeardUpTo(s, group, lval, 0, s)
    BY <2>1 DEF HeardUpTo
  <2> QED BY <1>1, <1>2, <2>2
<1>4. ASSUME NEW k \in 1 .. L, k - 1 \in T PROVE k \in T
  <2> DEFINE b == into[k - 1]
             c == into[k]
  <2>1. k - 1 \in 0 .. L /\ k \in 0 .. L /\ HeardUpTo(s, group, lval, k - 1, b)
    BY <1>1, <1>4
  <2>2. b \in KeepStates(s) /\ c = IntoElement(lval, num, targets, k, b)
    BY <1>1, <1>2, <2>1
  <2> HIDE DEF b, c, T
  <2>3. Typed(b)
    BY <2>2, KeepStatesAre DEF Keeps
  <2>4. Assigns(b, c) /\ \A o \in Differing(b, c) : group[o] = group[lval[k].net]
    BY <1>1, <2>2, <2>3, IntoElementType
  <2>5. HeardUpTo(s, group, lval, k, c)
    <3>1. k \in DOMAIN lval /\ DOMAIN lval = 1 .. Len(lval)
      BY <1>1
    <3> HIDE DEF L
    <3> QED BY <2>1, <2>3, <2>4, <3>1, HeardMore
  <2> QED BY <2>1, <2>5 DEF T, c
<1>5. L \in T
  <2> HIDE DEF T, L
  <2>1. \A k \in 0 .. L : k \in T
    BY <1>1, <1>3, <1>4, InductUpTo
  <2> QED BY <1>1, <2>1
<1> QED BY <1>2, <1>5 DEF HeardUpTo, a

\* What is heard of a statement: those who wait, the bits they compare with,
\* and the elements of the assignments that are still to come.
Heard(s, group, a) ==
  /\ PrevSeen(a) /\ Hears(s, a)
  /\ \A u \in Updates : Apart(design, group, a.pending[u].lval)

\* The state a statement is executed in.
ToHear(s, group) ==
  /\ StateOK(s) /\ PrevSeen(s) /\ group \in Groups(design)
  /\ \A u \in Updates : Apart(design, group, s.pending[u].lval)

\* A blocking assignment is heard.
LEMMA BlockingHeard ==
  ASSUME DesignFits(design), Audible(design), NEW s, NEW group, ToHear(s, group),
         NEW p, StatementFits(design, p), p.kind = "set", Apart(design, group, p.lval)
  PROVE  Heard(s, group, Blocking(s, p))
<1> DEFINE v == Value(Decl, s.st, p.rval)
           a == Blocking(s, p)
<1>1. ExprFits(Decl, p.rval) /\ LvalFits(Decl, p.lval, ExprWidth(Decl, p.rval)) /\ Typed(s)
  BY DEF StatementFits, Decl, ToHear, StateOK
<1>2. v \in Seq(Logic) /\ Len(v) = ExprWidth(Decl, p.rval)
  BY <1>1, ValueSeq
<1>3. a = s \/ a = Into(s, p.lval, v, <<>>)
  BY DEF Blocking, BlockingValue, Store
<1> HIDE DEF v, a
<1>4. CASE a = s
  <2>1. PrevSeen(s) /\ Hears(s, s)
    BY QuietHeard DEF ToHear
  <2>2. Heard(s, group, s)
    BY <2>1 DEF Heard, ToHear
  <2> QED BY <1>4, <2>2 DEF a
<1>5. CASE a = Into(s, p.lval, v, <<>>)
  <2>1. PrevSeen(a) /\ Hears(s, a)
    BY <1>1, <1>2, <1>5, IntoHeard DEF TargetsFit, ToHear
  <2>2. a.pending = s.pending
    BY <1>1, <1>2, <1>5, IntoDoes DEF TargetsFit, Keeps
  <2>3. Heard(s, group, a)
    BY <2>1, <2>2 DEF Heard, ToHear
  <2> QED BY <2>3 DEF a
<1> QED BY <1>3, <1>4, <1>5 DEF a

\* A statement that changes no net that somebody listens to is heard by nobody.
LEMMA QuietStatement ==
  ASSUME DesignFits(design), Audible(design), NEW s, NEW group, ToHear(s, group),
         NEW a, a.prev = s.prev, a.pending = s.pending,
         \A c \in Listeners : a.queued[c] = s.queued[c],
         \A e \in DOMAIN design.events : \A n \in Monitored(design.events[e].expr) :
           s.st[n] = a.st[n]
  PROVE  Heard(s, group, a)
BY QuietHeard DEF Heard, ToHear

\* An update is heard.
LEMMA UpdateHeard ==
  ASSUME DesignFits(design), Audible(design), NEW s, NEW group, ToHear(s, group),
         NEW u \in Updates, s.pending[u] # Nothing
  PROVE  Heard(s, group, Update(s, u))
<1> DEFINE x == s.pending[u]
           b == Into(s, x.lval, x.value, x.targets)
           a == Update(s, u)
<1>1. /\ LvalFits(Decl, x.lval, Len(x.value)) /\ x.value \in Seq(Logic)
      /\ TargetsFit(x.lval, x.targets) /\ Apart(design, group, x.lval)
      /\ StateOK(s) /\ Typed(s) /\ PrevSeen(s) /\ group \in Groups(design)
  BY DEF ToHear, StateOK, PendingFits, TargetsFit, Decl
<1>2. /\ a.st = b.st /\ a.prev = b.prev /\ a.queued = b.queued
      /\ Others(s, a, u) /\ a.pending[u] = Nothing
  BY <1>1, UpdateDoes
<1>3. PrevSeen(b) /\ Hears(s, b)
  <2> HIDE DEF x
  <2> QED BY <1>1, IntoHeard
<1> HIDE DEF a, b, x
<1>4. PrevSeen(a) /\ Hears(s, a)
  BY <1>2, <1>3 DEF PrevSeen, Hears
<1>5. \A w \in Updates : Apart(design, group, a.pending[w].lval)
  <2>1. Apart(design, group, Nothing.lval)
    BY DEF Apart, Elsewhere, Nothing
  <2> QED BY <1>2, <2>1 DEF Others, ToHear
<1> QED BY <1>4, <1>5 DEF Heard, a

\* Every statement of the design is heard.
LEMMA ExecutedHeard ==
  ASSUME DesignFits(design), Audible(design), NEW s, NEW group, ToHear(s, group),
         NEW p, StatementFits(design, p),
         p.kind \in {"set", "later"} => Apart(design, group, p.lval)
  PROVE  Heard(s, group, Executed(s, p))
<1> DEFINE a == Executed(s, p)
<1>1. p.kind \in {"set", "later", "entry", "exit", "wait", "dumpall", "dumpon", "dumpoff", "dumpvars"}
      /\ Typed(s) /\ StateOK(s)
  BY DEF StatementFits, StateOK, ToHear
<1>2. \A e \in DOMAIN design.events : \A n \in Monitored(design.events[e].expr) :
        n \in DOMAIN Decl \ design.locals
  <2> SUFFICES ASSUME NEW e \in DOMAIN design.events, NEW n \in Monitored(design.events[e].expr)
               PROVE  n \in DOMAIN Decl \ design.locals
    OBVIOUS
  <2>1. n \in DOMAIN Decl
    BY EventType, MonitoredNets DEF Decl
  <2> QED BY <2>1 DEF Audible
<1>3. ASSUME NEW b, b.st = s.st, b.prev = s.prev, b.pending = s.pending, b.queued = s.queued
      PROVE  Heard(s, group, b)
  BY <1>3, QuietStatement
<1>4. CASE p.kind = "set"
  <2>1. a = Blocking(s, p)
    BY <1>4 DEF Executed
  <2> QED BY <1>4, <2>1, BlockingHeard
<1>5. CASE p.kind = "later"
  <2> DEFINE b == Nonblocking(s, p)
  <2>1. Postponed(s, p, b)
    BY <1>1, <1>5, NonblockingDoes
  <2> HIDE DEF b
  <2>2. PrevSeen(b) /\ Hears(s, b)
    BY <2>1, QuietHeard DEF ToHear, Postponed
  <2>3. \A u \in Updates : Apart(design, group, b.pending[u].lval)
    BY <1>5, <2>1 DEF Others, ToHear, Postponed
  <2>4. Heard(s, group, b)
    BY <2>2, <2>3 DEF Heard
  <2> QED BY <1>5, <2>4 DEF b, Executed
<1>6. CASE p.kind = "entry"
  <2>1. a = Entry(s, p)
    BY <1>6 DEF Executed
  <2> HIDE DEF a
  <2>2. /\ a.pending = s.pending /\ a.queued = s.queued /\ a.prev = s.prev
        /\ \A n \in DOMAIN Decl \ design.locals : s.st[n] = a.st[n]
    BY <1>1, <1>6, <2>1, EntryDoes
  <2>3. Heard(s, group, a)
    BY <1>2, <2>2, QuietStatement
  <2> QED BY <2>3 DEF a
<1>7. CASE p.kind = "exit"
  <2>1. a = Exit(s, p)
    BY <1>7 DEF Executed
  <2> HIDE DEF a
  <2>2. Assigns(s, a)
    BY <1>1, <1>7, <2>1, ExitDoes
  <2>3. PrevSeen(a) /\ Hears(s, a) /\ a.pending = s.pending
    BY <2>2, OneHeard DEF Assigns, ToHear
  <2> QED BY <2>3 DEF Heard, ToHear, a
<1>8. s = [st |-> s.st, changed |-> s.changed, prev |-> s.prev, active |-> s.active,
          pending |-> s.pending, queue |-> s.queue, queued |-> s.queued,
          on |-> s.on, dumped |-> s.dumped]
  BY <1>1, RecordOf
<1>9. CASE p.kind = "wait"
  <2>1. a = [s EXCEPT !.active[p.of] = TRUE]
    BY <1>9, Zenon DEF Executed
  <2> HIDE DEF a
  <2>2. a.st = s.st /\ a.prev = s.prev /\ a.pending = s.pending /\ a.queued = s.queued
    BY <1>8, <2>1
  <2> QED BY <1>3, <2>2 DEF a
<1>10. CASE p.kind = "dumpall"
  <2>1. a = [s EXCEPT !.dumped = AllShown(s.st)]
    BY <1>10, Zenon DEF Executed, DumpAll
  <2> HIDE DEF a
  <2>2. a.st = s.st /\ a.prev = s.prev /\ a.pending = s.pending /\ a.queued = s.queued
    BY <1>8, <2>1
  <2> QED BY <1>3, <2>2 DEF a
<1>11. CASE p.kind \in {"dumpon", "dumpoff", "dumpvars"}
  <2> DEFINE on == TurnsOn(p)
             f == [s EXCEPT !.on = on]
             dump == IF on THEN AllShown(s.st) ELSE AllUnknown
  <2>1. a = IF time = 0 THEN f ELSE [f EXCEPT !.dumped = dump]
    BY <1>11, Zenon DEF Executed, DumpOn
  <2> HIDE DEF a, on, dump
  <2>2. f = [st |-> s.st, changed |-> s.changed, prev |-> s.prev, active |-> s.active,
          pending |-> s.pending, queue |-> s.queue, queued |-> s.queued,
          on |-> on, dumped |-> s.dumped]
    BY <1>8
  <2> HIDE DEF f
  <2>3. a.st = s.st /\ a.prev = s.prev /\ a.pending = s.pending /\ a.queued = s.queued
    BY <2>1, <2>2
  <2> QED BY <1>3, <2>3 DEF a
<1> QED BY <1>1, <1>4, <1>5, <1>6, <1>7, <1>9, <1>10, <1>11

\* The invariant behind that: every event has the bit its expression had when
\* a net was last assigned, and the updates that are pending are of
\* assignments whose elements lead to different nets.
HeardSoFar ==
  \E group \in Groups(design) :
    /\ \A p \in BodyStatements(design) \cup design.moves :
         p.kind \in {"set", "later"} => Apart(design, group, p.lval)
    /\ PrevSeen(OldState)
    /\ \A u \in Updates : Apart(design, group, pending[u].lval)

\* Who waits is queued exactly by what it waits for.
HeardNow ==
  store' # store =>
    \A c \in Listeners :
      IsActive(OldState, c) /\ ~queued[c] =>
        (queued'[c] <=> \E e \in DOMAIN design.events : e[1] = c /\ HitFrom(store, store', e))

\* A design with listeners that can hear.
LEMMA WellHeardParts ==
  ASSUME NEW g, WellHeard(g)
  PROVE  /\ Audible(g)
         /\ \E group \in Groups(g) : \A p \in BodyStatements(g) \cup g.moves :
              p.kind \in {"set", "later"} => Apart(g, group, p.lval)
BY Zenon DEF WellHeard, Audible

\* What becomes of it when the nets become a.
LEMMA HeardBecomes ==
  ASSUME NetsInv, design' = design, NEW group \in Groups(design),
         \A p \in BodyStatements(design) \cup design.moves :
           p.kind \in {"set", "later"} => Apart(design, group, p.lval),
         NEW a, Heard(OldState, group, a), store' = a.st, prev' = a.prev,
         pending' = a.pending, queued' = a.queued
  PROVE  HeardSoFar' /\ HeardNow
<1>1. OldState.st = store /\ OldState.queued = queued
      /\ OldState'.st = store' /\ OldState'.prev = prev'
  BY DEF OldState
<1>2. design' = design /\ Decl' = Decl
  BY DEF Decl
<1>3. PrevSeen(a) /\ Hears(OldState, a)
      /\ \A u \in Updates : Apart(design, group, a.pending[u].lval)
  BY DEF Heard
<1>4. PrevSeen(OldState)'
  BY <1>1, <1>2, <1>3 DEF PrevSeen, FirstBit, IsEdge
<1>5. HeardSoFar'
  BY <1>2, <1>3, <1>4 DEF HeardSoFar
<1>6. HeardNow
  BY <1>1, <1>3 DEF HeardNow, Hears
<1> QED BY <1>5, <1>6

\* A step that assigns nothing is not heard.
LEMMA HeardQuiet ==
  ASSUME HeardSoFar, UNCHANGED <<design, store, prev, pending>>
  PROVE  HeardSoFar' /\ HeardNow
<1>1. OldState.st = store /\ OldState.prev = prev
      /\ OldState'.st = store' /\ OldState'.prev = prev'
  BY DEF OldState
<1>2. design' = design /\ Decl' = Decl
  BY DEF Decl
<1>3. PrevSeen(OldState) => PrevSeen(OldState)'
  BY <1>1, <1>2 DEF PrevSeen, FirstBit, IsEdge
<1>4. HeardSoFar'
  BY <1>2, <1>3 DEF HeardSoFar
<1> QED BY <1>4 DEF HeardNow

\* A statement of a process is heard.
LEMMA HeardDrive ==
  ASSUME NetsInv, Audible(design), HeardSoFar, Drive
  PROVE  HeardSoFar' /\ HeardNow
<1>1. DesignFits(design) /\ StateOK(OldState) /\ design' = design
  BY InvState DEF Drive
<1>2. PICK group \in Groups(design) :
        /\ \A p \in BodyStatements(design) \cup design.moves :
             p.kind \in {"set", "later"} => Apart(design, group, p.lval)
        /\ PrevSeen(OldState)
        /\ \A u \in Updates : Apart(design, group, pending[u].lval)
  BY DEF HeardSoFar
<1>3. ToHear(OldState, group)
  BY <1>1, <1>2 DEF ToHear, OldState
<1>4. PICK p \in design.moves :
        \/ p.kind # "readmem" /\ Becomes(Executed(OldState, p))
        \/ p.kind = "readmem" /\ ReadMemory(FromFile(OldState, p), p)
  BY DEF Drive
<1>5. StatementFits(design, p) \/ ReadFits(design, p)
  BY <1>1 DEF DesignFits
<1>6. CASE p.kind # "readmem"
  <2> DEFINE a == Executed(OldState, p)
  <2>1. StatementFits(design, p) /\ Becomes(a)
    BY <1>4, <1>5, <1>6 DEF ReadFits
  <2>2. Heard(OldState, group, a)
    BY <1>1, <1>2, <1>3, <2>1, ExecutedHeard
  <2> HIDE DEF a
  <2> QED BY <1>1, <1>2, <2>1, <2>2, HeardBecomes DEF Becomes
<1>7. CASE p.kind = "readmem"
  <2> DEFINE got == FromFile(OldState, p)
             a == [OldState EXCEPT !.st = [store EXCEPT ![p.of] = got.words]]
  <2>1. /\ store' = [store EXCEPT ![p.of] = got.words]
        /\ prev' = prev /\ pending' = pending /\ queued' = queued
    BY <1>4, <1>7 DEF ReadMemory
  <2>2. /\ a.st = store' /\ a.prev = prev /\ a.pending = pending /\ a.queued = queued
        /\ OldState.st = store /\ OldState.prev = prev /\ OldState.pending = pending
        /\ OldState.queued = queued
    BY <2>1 DEF OldState
  <2>3. \A e \in DOMAIN design.events : \A n \in Monitored(design.events[e].expr) :
          store[n] = store'[n]
    <3> SUFFICES ASSUME NEW e \in DOMAIN design.events, NEW n \in Monitored(design.events[e].expr)
                 PROVE  store[n] = store'[n]
      OBVIOUS
    <3>1. n # p.of
      BY <1>7 DEF Audible
    <3>2. n \in DOMAIN Decl
      BY <1>1, EventType, MonitoredNets DEF Decl
    <3>3. DOMAIN store = DOMAIN Decl
      BY <1>1, <2>2 DEF StateOK, Typed, NetsFit, StoreFits, Decl
    <3> QED BY <2>1, <3>1, <3>2, <3>3
  <2> HIDE DEF a, got
  <2>4. Heard(OldState, group, a)
    BY <1>1, <1>3, <2>2, <2>3, QuietStatement
  <2> QED BY <1>1, <1>2, <2>1, <2>2, <2>4, HeardBecomes
<1> QED BY <1>6, <1>7

\* So is a statement the handler executes.
LEMMA HeardStep ==
  ASSUME NetsInv, Audible(design), HeardSoFar, Step
  PROVE  HeardSoFar' /\ HeardNow
<1>1. DesignFits(design) /\ StateOK(OldState) /\ design' = design
  BY InvState DEF Step
<1>2. PICK group \in Groups(design) :
        /\ \A p \in BodyStatements(design) \cup design.moves :
             p.kind \in {"set", "later"} => Apart(design, group, p.lval)
        /\ PrevSeen(OldState)
        /\ \A u \in Updates : Apart(design, group, pending[u].lval)
  BY DEF HeardSoFar
<1>3. ToHear(OldState, group)
  BY <1>1, <1>2 DEF ToHear, OldState
<1> DEFINE p == Head(todo)
           a == Executed(OldState, p)
<1>4. todo # <<>> /\ Becomes(a) /\ BatchFits /\ PendingWhile
  BY DEF Step, NetsInv
<1>5. Heard(OldState, group, a)
  <2>1. CASE todo \in Seq(BodyStatements(design))
    <3>1. p \in BodyStatements(design)
      BY <1>4, <2>1
    <3> HIDE DEF p
    <3>2. StatementFits(design, p)
      BY <1>1, <3>1 DEF DesignFits
    <3> QED BY <1>1, <1>2, <1>3, <3>1, <3>2, ExecutedHeard
  <2>2. CASE ~(todo \in Seq(BodyStatements(design)))
    <3>1. PICK u \in Updates : todo = <<UpdateOf(u)>>
      BY <1>4, <2>2 DEF BatchFits
    <3>2. p = UpdateOf(u)
      BY <3>1
    <3> HIDE DEF p
    <3>3. a = Update(OldState, u)
      BY <3>2 DEF Executed, UpdateOf
    <3>4. OldState.pending[u] # Nothing
      BY <1>4, <3>1 DEF PendingWhile, OldState
    <3> QED BY <1>1, <1>3, <3>3, <3>4, UpdateHeard
  <2> QED BY <2>1, <2>2
<1> HIDE DEF a
<1> QED BY <1>1, <1>2, <1>4, <1>5, HeardBecomes DEF Becomes

\* Whoever waits for an edge of an expression, or for a change of its nets, is
\* queued by the assignment that makes it, whichever net or index of the
\* expression was assigned and through however many ports, and by no other
\* (check_monitor, st_util.cc:198-271): in every design whose listeners can
\* hear (WellHeard), however its processes interleave.
THEOREM NoEdgeMissed ==
  ASSUME \A g \in Designs : WellHeard(g)
  PROVE  Spec => EdgeSeen
<1>1. NetsInv => Audible(design)
  BY WellHeardParts DEF NetsInv, NetsTypeOK
<1>2. Init => HeardSoFar
  <2> SUFFICES ASSUME Init PROVE HeardSoFar
    OBVIOUS
  <2>1. PICK group \in Groups(design) : \A p \in BodyStatements(design) \cup design.moves :
              p.kind \in {"set", "later"} => Apart(design, group, p.lval)
    BY WellHeardParts DEF Init
  <2>2. PrevSeen(OldState)
    BY DEF Init, PrevSeen, OldState
  <2>3. \A u \in Updates : pending[u].lval = <<>>
    BY DEF Init, Nothing
  <2>4. \A u \in Updates : Apart(design, group, pending[u].lval)
    BY <2>3 DEF Apart, Elsewhere
  <2> QED BY <2>1, <2>2, <2>4 DEF HeardSoFar
<1>3. NetsInv /\ HeardSoFar /\ [Next]_vars => HeardSoFar' /\ HeardNow
  <2> SUFFICES ASSUME NetsInv, HeardSoFar, [Next]_vars PROVE HeardSoFar' /\ HeardNow
    OBVIOUS
  <2>1. CASE Drive
    BY <1>1, <2>1, HeardDrive
  <2>2. CASE Step
    BY <1>1, <2>2, HeardStep
  <2>3. CASE Enter \/ Activate \/ Trigger \/ EndTime \/ UNCHANGED vars
    <3>1. UNCHANGED <<design, store, prev, pending>>
      BY <2>3 DEF Enter, Activate, Trigger, EndTime, netVars, vars
    <3> QED BY <3>1, HeardQuiet
  <2> QED BY <2>1, <2>2, <2>3 DEF Next
<1>4. HeardNow => (store' # store =>
        \A c \in Listeners : IsActive(OldState, c) /\ ~queued[c] =>
          (queued'[c] <=> \E e \in DOMAIN design.events : e[1] = c /\ Hit(e)))
  BY DEF HeardNow, Hit, HitFrom
<1> QED BY <1>2, <1>3, <1>4, NetsInvariant, PTL DEF Spec, EdgeSeen
-----------------------------------------------------------------------------
(***************************************************************************)
(* An update lands where it was meant to.                                  *)
(***************************************************************************)

\* An element is written where it was looked for.
LEMMA ElementAssigned ==
  ASSUME DesignFits(design), NEW num \in Seq(Logic), NEW lval, LvalFits(Decl, lval, Len(num)),
         NEW targets, targets # <<>>, TargetsFit(lval, targets), NEW i \in DOMAIN lval,
         NEW t, Typed(t), HitsElement(Decl[lval[i].net], targets[i].m, targets[i].l)
  PROVE  LET n == lval[i].net
             slice == Elements(Decl, lval)[i]
         IN  ElementWritten(Decl[n], t.st[n], IntoElement(lval, num, targets, i, t).st[n],
                            Slice(num, slice.ms, slice.ls), targets[i].m, targets[i].l)
<1> DEFINE n == lval[i].net
           slice == Elements(Decl, lval)[i]
           target == targets[i]
           a == IntoElement(lval, num, targets, i, t)
           ms == slice.ms
           ls == slice.ls
           m == target.m
           l == target.l
           st == t.st
<1>1. n \in DOMAIN Decl /\ Decl = design.nets /\ StoreFits(design, st)
  BY DEF LvalFits, NameFits, Decl, Typed, NetsFit
<1>2. SliceFits(num, ms, ls)
  BY ElementFits
<1>3. target.m \in Int /\ target.l \in Int /\ HitsElement(Decl[n], m, l)
  BY DEF TargetsFit
<1>4. a = Assignment(t, n, num, slice, target)
  BY DEF IntoElement
<1> HIDE DEF a, n, slice, target
<1>5. a.st[n] = Write(Decl, st, n, num, ms, ls, m, l).st[n]
  BY <1>1, <1>2, <1>3, <1>4, AssignmentDoes
<1> HIDE DEF ms, ls, m, l, st
<1>6. ElementWritten(Decl[n], st[n], Write(Decl, st, n, num, ms, ls, m, l).st[n],
                     Slice(num, ms, ls), m, l)
  BY <1>1, <1>2, <1>3, WriteSeen
<1>7. ElementWritten(Decl[n], st[n], a.st[n], Slice(num, ms, ls), m, l)
  BY <1>5, <1>6
<1> QED BY <1>7 DEF a, n, slice, target, ms, ls, m, l, st

\* The net of one element of a left hand side is not touched by the others.
LEMMA ElementStays ==
  ASSUME DesignFits(design), NEW group \in Groups(design), NEW num \in Seq(Logic),
         NEW lval, LvalFits(Decl, lval, Len(num)), Elsewhere(group, lval),
         NEW targets, TargetsFit(lval, targets), NEW i \in DOMAIN lval,
         NEW j \in DOMAIN lval, i # j, NEW t, Typed(t)
  PROVE  IntoElement(lval, num, targets, j, t).st[lval[i].net] = t.st[lval[i].net]
<1> DEFINE a == IntoElement(lval, num, targets, j, t)
<1>1. \A o \in Differing(t, a) : group[o] = group[lval[j].net]
  BY IntoElementType
<1> HIDE DEF a
<1>2. lval[i].net \in DOMAIN Decl
  BY DEF LvalFits, NameFits
<1> QED BY <1>1, <1>2 DEF Elsewhere, Differing, a

\* In the end there is in each element what was to go there.
LEMMA IntoLands ==
  ASSUME DesignFits(design), NEW group \in Groups(design), NEW s, Typed(s),
         NEW num \in Seq(Logic), NEW lval, LvalFits(Decl, lval, Len(num)), Elsewhere(group, lval),
         NEW targets, targets # <<>>, TargetsFit(lval, targets), NEW i \in DOMAIN lval,
         HitsElement(Decl[lval[i].net], targets[i].m, targets[i].l)
  PROVE  LET n == lval[i].net
             slice == Elements(Decl, lval)[i]
         IN  \E words : ElementWritten(Decl[n], words, Into(s, lval, num, targets).st[n],
                          Slice(num, slice.ms, slice.ls), targets[i].m, targets[i].l)
<1> DEFINE L == Len(lval)
           a == Into(s, lval, num, targets)
           n == lval[i].net
           slice == Elements(Decl, lval)[i]
           v == Slice(num, slice.ms, slice.ls)
           W(words, b) == ElementWritten(Decl[n], words, b.st[n], v, targets[i].m, targets[i].l)
<1>1. L \in Nat \ {0} /\ DOMAIN lval = 1 .. L
  BY DEF LvalFits
<1>2. PICK into \in [0 .. L -> KeepStates(s)] :
           /\ into[0] = s
           /\ \A k \in 1 .. L : into[k] = IntoElement(lval, num, targets, k, into[k - 1])
           /\ a = into[L]
  BY IntoSteps
<1> HIDE DEF a
<1>3. \A k \in 1 .. L : Typed(into[k - 1]) /\ into[k] = IntoElement(lval, num, targets, k, into[k - 1])
  <2> SUFFICES ASSUME NEW k \in 1 .. L PROVE Typed(into[k - 1])
    BY <1>2
  <2>1. into[k - 1] \in KeepStates(s)
    BY <1>1, <1>2
  <2> QED BY <2>1, KeepStatesAre DEF Keeps
<1>4. W(into[i - 1].st[n], into[i])
  <2>1. i \in 1 .. L
    BY <1>1
  <2>2. Typed(into[i - 1]) /\ into[i] = IntoElement(lval, num, targets, i, into[i - 1])
    BY <1>3, <2>1
  <2> HIDE DEF L
  <2> QED BY <2>2, ElementAssigned
<1> HIDE DEF W, n
<1> DEFINE T == {k \in 0 .. L : k >= i => into[k].st[n] = into[i].st[n]}
<1>5. \A k \in 0 .. L : k \in T
  <2>1. 0 \in T
    BY <1>1
  <2>2. ASSUME NEW k \in 1 .. L, k - 1 \in T PROVE k \in T
    <3>1. CASE k <= i
      BY <1>1, <2>2, <3>1
    <3>2. CASE k > i
      <4>1. into[k - 1].st[n] = into[i].st[n]
        BY <1>1, <2>2, <3>2
      <4>2. k \in DOMAIN lval /\ k # i /\ Typed(into[k - 1])
        BY <1>1, <1>3, <3>2
      <4>3. into[k] = IntoElement(lval, num, targets, k, into[k - 1])
        BY <1>3
      <4> HIDE DEF L
      <4>4. into[k].st[n] = into[k - 1].st[n]
        BY <4>2, <4>3, ElementStays DEF n
      <4> QED BY <2>2, <4>1, <4>4
    <3> QED BY <1>1, <2>2, <3>1, <3>2
  <2> HIDE DEF T, L
  <2> QED BY <1>1, <2>1, <2>2, InductUpTo
<1>6. a.st[n] = into[i].st[n]
  <2>1. L \in 0 .. L /\ L >= i
    BY <1>1
  <2> QED BY <1>2, <1>5, <2>1
<1> HIDE DEF v, L
<1>7. W(into[i - 1].st[n], a)
  BY <1>4, <1>6 DEF W
<1> QED BY <1>7 DEF W, a, n, v

\* An element is no wider than what its target takes.
LEMMA ElementAcross ==
  ASSUME DesignFits(design), NEW x, NameFits(Decl, x), NEW t, Lands(x.sel, t),
         HitsElement(Decl[x.net], t.m, t.l), Across(Decl[x.net], t.m, t.l) \in Nat \ {0}
  PROVE  ElementWidth(Decl, x) \in 1 .. Across(Decl[x.net], t.m, t.l)
<1> DEFINE d == Decl[x.net]
           N == d.size
           m == t.m
           l == t.l
<1>1. N \in Nat \ {0} /\ d.up \in BOOLEAN /\ NetFits(Decl, x.net)
  BY DesignNets, SizeType DEF NameFits, Decl, NetsFit1
<1>2. m \in Int /\ l \in Int /\ x.sel.at \in {"none", "bit", "part"}
  BY DEF Lands, NameFits
<1>3. CASE IsMemory(d)
  <2>1. Across(d, m, l) = N
    BY <1>3 DEF Across
  <2>2. ElementWidth(Decl, x) = 1 \/ ElementWidth(Decl, x) = N
    BY <1>3 DEF ElementWidth
  <2> HIDE DEF N
  <2> QED BY <1>1, <2>1, <2>2
<1>4. CASE ~IsMemory(d)
  <2>1. d.lo = d.hi
    BY <1>1, <1>4 DEF NetFits, IsMemory
  <2>2. CASE x.sel.at = "none"
    <3>1. m = None
      BY <2>2 DEF Lands
    <3>2. Across(d, m, l) = N /\ ElementWidth(Decl, x) = N
      BY <2>2, <3>1 DEF Across, ElementWidth
    <3> HIDE DEF N
    <3> QED BY <1>1, <3>2
  <2>3. CASE x.sel.at = "bit"
    <3>1. ElementWidth(Decl, x) = 1
      BY <2>1, <2>3 DEF ElementWidth
    <3> HIDE DEF m, l, d
    <3> QED BY <3>1 DEF m, l, d
  <2>4. CASE x.sel.at = "part"
    <3>1. m = x.sel.ms /\ l = x.sel.ls /\ m \in Nat /\ l \in Nat /\ Inside(d, m, l)
      BY <1>4, <2>4 DEF Lands, NameFits
    <3>2. ElementWidth(Decl, x) = (IF m >= l THEN m - l ELSE l - m) + 1
      BY <1>4, <2>4, <3>1 DEF ElementWidth, PartWidth
    <3>3. Across(d, m, l) = Length(Span(N, d.up, m, l))
      BY <1>4, <3>1 DEF Across, None
    <3> DEFINE first == Span(N, d.up, m, l).first
               last == Span(N, d.up, m, l).last
    <3>4. /\ first <= last /\ Across(d, m, l) = last - first + 1
          /\ first = (IF d.up THEN N - 1 - l ELSE l) /\ last = (IF d.up THEN N - 1 - m ELSE m)
      <4>1. Across(d, m, l) = last - first + 1
        BY <3>3 DEF Length
      <4>2. first = (IF d.up THEN N - 1 - l ELSE l) /\ last = (IF d.up THEN N - 1 - m ELSE m)
        BY <1>1, <1>2, SpanType
      <4>3. first <= last
        BY <3>1 DEF Inside
      <4> QED BY <4>1, <4>2, <4>3
    <3> HIDE DEF first, last, N, m, l
    <3>5. Across(d, m, l) = ElementWidth(Decl, x)
      <4>1. CASE d.up
        BY <1>1, <3>1, <3>2, <3>4, <4>1
      <4>2. CASE ~d.up
        BY <1>1, <3>1, <3>2, <3>4, <4>2
      <4> QED BY <4>1, <4>2
    <3> QED BY <3>5 DEF m, l
  <2> QED BY <1>2, <2>2, <2>3, <2>4
<1> QED BY <1>3, <1>4

\* What was written is read where it was written.
LEMMA ReadBack ==
  ASSUME DesignFits(design), NEW st, StoreFits(design, st), NEW x, NameFits(Decl, x),
         ~Inward(Decl[x.net]), NEW t, Lands(x.sel, t), HitsElement(Decl[x.net], t.m, t.l),
         NEW words, NEW v, ElementWritten(Decl[x.net], words, st[x.net], v, t.m, t.l)
  PROVE  Fit(Evaluated(Decl, st, x.net, t.m, t.l), ElementWidth(Decl, x)) = Fit(v, ElementWidth(Decl, x))
<1> DEFINE n == x.net
           d == Decl[n]
           m == t.m
           l == t.l
           e == Evaluated(Decl, st, n, m, l)
           w == ElementWidth(Decl, x)
<1>1. n \in DOMAIN Decl /\ NetsFit1(Decl) /\ StoreTyped(Decl, st)
  BY DesignNets, StoreIsTyped DEF NameFits, Decl
<1>2. e = SeenIn(d, st[n], m, l)
  BY <1>1, EvaluatedHere
<1>3. d.size \in Nat \ {0} /\ e \in [1 .. d.size -> Logic]
  <2>1. SelFits(d, m, l)
    BY DEF HitsElement, SelFits
  <2>2. d.size \in Nat \ {0}
    BY <1>1, SizeType
  <2> HIDE DEF e, d, m, l
  <2>3. SeenIn(d, st[n], m, l) \in [1 .. d.size -> Logic]
    BY <1>1, <2>1, SeenInType DEF d
  <2> QED BY <1>2, <2>2, <2>3
<1>4. Across(d, m, l) \in 1 .. d.size /\ \A i \in 1 .. Across(d, m, l) : e[i] = At(v, i)
  <2> HIDE DEF e, d, m, l
  <2> QED BY <1>2 DEF ElementWritten, d, n, m, l
<1> DEFINE A == Across(d, m, l)
<1>5. w \in 1 .. A
  <2>1. A \in Nat \ {0}
    BY <1>3, <1>4
  <2> QED BY <2>1, ElementAcross
<1> HIDE DEF e, w, A
<1>6. \A i \in 1 .. w : At(e, i) = At(v, i)
  <2> SUFFICES ASSUME NEW i \in 1 .. w PROVE At(e, i) = At(v, i)
    OBVIOUS
  <2> DEFINE N == d.size
  <2>1. N \in Nat /\ e \in [1 .. N -> Logic] /\ A \in 1 .. N
    BY <1>3, <1>4 DEF A
  <2> HIDE DEF N
  <2>2. i \in 1 .. A /\ i \in 1 .. N
    BY <1>5, <2>1
  <2>3. Len(e) = N
    BY <2>1, BitsLen
  <2>4. At(e, i) = e[i]
    BY <2>2, <2>3 DEF At
  <2> QED BY <1>4, <2>2, <2>4 DEF A
<1>7. Fit(e, w) = Fit(v, w)
  BY <1>6 DEF Fit
<1> QED BY <1>7 DEF e, w

\* The targets of an update are what the selects of its assignment came to.
Aimed(x) == \A i \in DOMAIN x.lval : Lands(x.lval[i].sel, x.targets[i])

\* That holds of all updates that are pending.
AllAimed(group, s) ==
  \A u \in Updates :
    s.pending[u] # Nothing => Placed(design, group, s.pending[u].lval) /\ Aimed(s.pending[u])

\* The invariant behind it.
AimedSoFar ==
  \E group \in Groups(design) :
    /\ \A p \in BodyStatements(design) \cup design.moves :
         p.kind = "later" => Placed(design, group, p.lval)
    /\ AllAimed(group, OldState)

\* What update x was to put into its i-th element is there.
Landed(st, x, i) ==
  LET n == x.lval[i].net
      sel == x.lval[i].sel
      t == x.targets[i]
      slice == Elements(Decl, x.lval)[i]
      w == ElementWidth(Decl, x.lval[i])
  IN  IsThere(Decl[n], sel, t) =>
        Fit(Evaluated(Decl, st, n, t.m, t.l), w) = Fit(Slice(x.value, slice.ms, slice.ls), w)

\* An update that is done has done so.
LandedNow ==
  \A u \in Updates :
    pending[u] # Nothing /\ pending'[u] = Nothing =>
      \A i \in DOMAIN pending[u].lval : Landed(store', pending[u], i)

\* A statement of the design finishes no update, and aims the one it leaves.
LEMMA StatementAims ==
  ASSUME DesignFits(design), NEW s, StateOK(s), NEW group, AllAimed(group, s),
         NEW p, StatementFits(design, p), p.kind = "later" => Placed(design, group, p.lval)
  PROVE  LET a == Executed(s, p)
         IN  /\ AllAimed(group, a)
             /\ \A u \in Updates : s.pending[u] # Nothing => a.pending[u] # Nothing
<1> DEFINE a == Executed(s, p)
<1>1. Ran(s, p, a)
  BY ExecutedDoes
<1>2. CASE p.kind # "later"
  <2> HIDE DEF a
  <2>1. \A u \in Updates : a.pending[u] = s.pending[u]
    BY <1>1, <1>2 DEF Ran
  <2>2. AllAimed(group, a)
    BY <2>1 DEF AllAimed
  <2> QED BY <2>1, <2>2 DEF a
<1>3. CASE p.kind = "later"
  <2>1. a = Nonblocking(s, p)
    BY <1>3 DEF Executed
  <2> HIDE DEF a
  <2>2. Postponed(s, p, a)
    BY <1>3, <2>1, NonblockingDoes
  <2>3. LvalFits(Decl, p.lval, ExprWidth(Decl, p.rval)) /\ Typed(s)
    BY <1>3 DEF StatementFits, Decl, StateOK
  <2>4. Aimed(a.pending[p.of])
    <3> SUFFICES ASSUME NEW i \in DOMAIN p.lval
                 PROVE  Lands(p.lval[i].sel, a.pending[p.of].targets[i])
      BY <2>2 DEF Postponed, Aimed
    <3>1. NameFits(Decl, p.lval[i])
      BY <2>3 DEF LvalFits
    <3>2. a.pending[p.of].targets[i] = Target(s, p.lval[i])
      BY <2>2 DEF Postponed, Targets, Target
    <3> QED BY <2>3, <3>1, <3>2, TargetLands
  <2>5. AllAimed(group, a)
    BY <1>3, <2>2, <2>4 DEF AllAimed, Postponed, Others
  <2>6. \A u \in Updates : s.pending[u] # Nothing => a.pending[u] # Nothing
    BY <2>2 DEF Postponed, Others
  <2> QED BY <2>5, <2>6 DEF a
<1> QED BY <1>2, <1>3

\* An update lands, and touches no other.
LEMMA UpdateLands ==
  ASSUME DesignFits(design), NEW s, StateOK(s), NEW group \in Groups(design), AllAimed(group, s),
         NEW u \in Updates, s.pending[u] # Nothing
  PROVE  LET a == Update(s, u)
         IN  /\ AllAimed(group, a)
             /\ \A w \in Updates : s.pending[w] # Nothing /\ a.pending[w] = Nothing => w = u
             /\ \A i \in DOMAIN s.pending[u].lval : Landed(a.st, s.pending[u], i)
<1> DEFINE x == s.pending[u]
           b == Into(s, x.lval, x.value, x.targets)
           a == Update(s, u)
<1>1. /\ LvalFits(Decl, x.lval, Len(x.value)) /\ x.value \in Seq(Logic)
      /\ TargetsFit(x.lval, x.targets) /\ x.targets # <<>>
      /\ Elsewhere(group, x.lval) /\ Aimed(x)
      /\ \A i \in DOMAIN x.lval : ~Inward(Decl[x.lval[i].net])
      /\ Typed(s)
  <2>1. PendingFits(design, x) /\ x # Nothing /\ Typed(s)
    BY DEF StateOK
  <2>2. Placed(design, group, x.lval) /\ Aimed(x)
    BY DEF AllAimed
  <2> HIDE DEF x
  <2>3. LvalFits(Decl, x.lval, Len(x.value)) /\ x.value \in Seq(Logic)
    BY <2>1 DEF PendingFits, Decl
  <2>4. TargetsFit(x.lval, x.targets) /\ DOMAIN x.targets = DOMAIN x.lval
    BY <2>1 DEF PendingFits, TargetsFit
  <2>5. DOMAIN x.lval # {}
    <3>1. Len(x.lval) \in Nat \ {0} /\ DOMAIN x.lval = 1 .. Len(x.lval)
      BY <2>3 DEF LvalFits
    <3>2. 1 \in 1 .. Len(x.lval)
      BY <3>1
    <3> QED BY <3>1, <3>2
  <2>6. x.targets # <<>>
    BY <2>4, <2>5
  <2> QED BY <2>1, <2>2, <2>3, <2>4, <2>6 DEF Placed, Decl
<1>2. /\ StateOK(a) /\ Others(s, a, u) /\ a.pending[u] = Nothing /\ a.st = b.st
  BY UpdateDoes
<1> HIDE DEF a
<1>3. AllAimed(group, a) /\ \A w \in Updates : s.pending[w] # Nothing /\ a.pending[w] = Nothing => w = u
  BY <1>2 DEF AllAimed, Others
<1>4. ASSUME NEW i \in DOMAIN x.lval PROVE Landed(a.st, x, i)
  <2> DEFINE y == x.lval[i]
             n == y.net
             t == x.targets[i]
             slice == Elements(Decl, x.lval)[i]
             v == Slice(x.value, slice.ms, slice.ls)
             w == ElementWidth(Decl, y)
  <2> SUFFICES ASSUME IsThere(Decl[n], y.sel, t)
               PROVE  Fit(Evaluated(Decl, a.st, n, t.m, t.l), w) = Fit(v, w)
    BY DEF Landed
  <2>1. NameFits(Decl, y) /\ Lands(y.sel, t) /\ ~Inward(Decl[n])
    BY <1>1 DEF LvalFits, Aimed
  <2>2. HitsElement(Decl[n], t.m, t.l)
    <3> HIDE DEF t, y
    <3> QED BY <2>1, ThereHits DEF n
  <2>3. \E words : ElementWritten(Decl[n], words, b.st[n], v, t.m, t.l)
    <3> HIDE DEF x
    <3> QED BY <1>1, <2>2, IntoLands
  <2>4. StoreFits(design, a.st)
    BY <1>2 DEF StateOK, Typed, NetsFit
  <2>5. PICK words : ElementWritten(Decl[n], words, a.st[n], v, t.m, t.l)
    BY <1>2, <2>3
  <2> HIDE DEF y, t, v, w, x, b
  <2> QED BY <2>1, <2>2, <2>4, <2>5, ReadBack DEF n, w
<1> HIDE DEF x, b
<1>5. \A i \in DOMAIN x.lval : Landed(a.st, x, i)
  BY <1>4
<1> QED BY <1>3, <1>5 DEF a, x

\* What becomes of the invariant when the nets become a.
LEMMA AimedBecomes ==
  ASSUME design' = design, NEW group \in Groups(design),
         \A p \in BodyStatements(design) \cup design.moves :
           p.kind = "later" => Placed(design, group, p.lval),
         NEW a, AllAimed(group, a), Becomes(a)
  PROVE  AimedSoFar'
<1>1. design' = design /\ Decl' = Decl
  BY DEF Decl
<1>2. OldState'.pending = a.pending
  BY DEF OldState, Becomes
<1>3. AllAimed(group, OldState)'
  BY <1>1, <1>2 DEF AllAimed
<1> QED BY <1>1, <1>3 DEF AimedSoFar

\* A step that leaves the updates alone keeps it.
LEMMA AimedQuiet ==
  ASSUME AimedSoFar, UNCHANGED <<design, pending>>
  PROVE  AimedSoFar' /\ LandedNow
<1>1. OldState.pending = pending /\ OldState'.pending = pending'
  BY DEF OldState
<1>2. design' = design /\ Decl' = Decl
  BY DEF Decl
<1>3. \A group : AllAimed(group, OldState) => AllAimed(group, OldState)'
  BY <1>1, <1>2 DEF AllAimed
<1>4. AimedSoFar'
  BY <1>2, <1>3 DEF AimedSoFar
<1> QED BY <1>4 DEF LandedNow

\* A statement of a process keeps it.
LEMMA AimedDrive ==
  ASSUME NetsInv, AimedSoFar, Drive
  PROVE  AimedSoFar' /\ LandedNow
<1>1. DesignFits(design) /\ StateOK(OldState) /\ design' = design /\ OldState.pending = pending
  BY InvState DEF Drive, OldState
<1>2. PICK group \in Groups(design) :
        /\ \A p \in BodyStatements(design) \cup design.moves :
             p.kind = "later" => Placed(design, group, p.lval)
        /\ AllAimed(group, OldState)
  BY DEF AimedSoFar
<1>3. PICK p \in design.moves :
        \/ p.kind # "readmem" /\ Becomes(Executed(OldState, p))
        \/ p.kind = "readmem" /\ ReadMemory(FromFile(OldState, p), p)
  BY DEF Drive
<1>4. StatementFits(design, p) \/ ReadFits(design, p)
  BY <1>1 DEF DesignFits
<1>5. CASE p.kind # "readmem"
  <2> DEFINE a == Executed(OldState, p)
  <2>1. StatementFits(design, p) /\ Becomes(a)
    BY <1>3, <1>4, <1>5 DEF ReadFits
  <2>2. /\ AllAimed(group, a)
        /\ \A u \in Updates : OldState.pending[u] # Nothing => a.pending[u] # Nothing
    BY <1>1, <1>2, <2>1, StatementAims
  <2> HIDE DEF a
  <2>3. AimedSoFar'
    BY <1>1, <1>2, <2>1, <2>2, AimedBecomes
  <2>4. LandedNow
    BY <1>1, <2>1, <2>2 DEF Becomes, LandedNow
  <2> QED BY <2>3, <2>4
<1>6. CASE p.kind = "readmem"
  <2>1. pending' = pending
    BY <1>3, <1>6 DEF ReadMemory
  <2> QED BY <1>1, <2>1, AimedQuiet
<1> QED BY <1>5, <1>6

\* So does a statement the handler executes, and the update it may be lands.
LEMMA AimedStep ==
  ASSUME NetsInv, AimedSoFar, Step
  PROVE  AimedSoFar' /\ LandedNow
<1>1. DesignFits(design) /\ StateOK(OldState) /\ design' = design /\ OldState.pending = pending
  BY InvState DEF Step, OldState
<1>2. PICK group \in Groups(design) :
        /\ \A p \in BodyStatements(design) \cup design.moves :
             p.kind = "later" => Placed(design, group, p.lval)
        /\ AllAimed(group, OldState)
  BY DEF AimedSoFar
<1> DEFINE p == Head(todo)
           a == Executed(OldState, p)
<1>3. todo # <<>> /\ Becomes(a) /\ BatchFits /\ PendingWhile
  BY DEF Step, NetsInv
<1>4. CASE todo \in Seq(BodyStatements(design))
  <2>1. p \in BodyStatements(design)
    BY <1>3, <1>4
  <2> HIDE DEF p
  <2>2. StatementFits(design, p)
    BY <1>1, <2>1 DEF DesignFits
  <2>3. /\ AllAimed(group, a)
        /\ \A u \in Updates : OldState.pending[u] # Nothing => a.pending[u] # Nothing
    BY <1>1, <1>2, <2>1, <2>2, StatementAims
  <2> HIDE DEF a
  <2>4. AimedSoFar'
    BY <1>1, <1>2, <1>3, <2>3, AimedBecomes
  <2>5. LandedNow
    BY <1>1, <1>3, <2>3 DEF Becomes, LandedNow
  <2> QED BY <2>4, <2>5
<1>5. CASE ~(todo \in Seq(BodyStatements(design)))
  <2>1. PICK u \in Updates : todo = <<UpdateOf(u)>>
    BY <1>3, <1>5 DEF BatchFits
  <2>2. p = UpdateOf(u)
    BY <2>1
  <2> HIDE DEF p
  <2>3. a = Update(OldState, u)
    BY <2>2 DEF Executed, UpdateOf
  <2>4. OldState.pending[u] # Nothing
    BY <1>1, <1>3, <2>1 DEF PendingWhile
  <2> HIDE DEF a
  <2>5. /\ AllAimed(group, a)
        /\ \A w \in Updates : OldState.pending[w] # Nothing /\ a.pending[w] = Nothing => w = u
        /\ \A i \in DOMAIN OldState.pending[u].lval : Landed(a.st, OldState.pending[u], i)
    BY <1>1, <1>2, <2>3, <2>4, UpdateLands
  <2>6. AimedSoFar'
    BY <1>1, <1>2, <1>3, <2>5, AimedBecomes
  <2>7. LandedNow
    BY <1>1, <1>3, <2>5 DEF Becomes, LandedNow
  <2> QED BY <2>6, <2>7
<1> QED BY <1>4, <1>5

\* The update of a nonblocking assignment puts the value of its execution
\* where its target was then (strigger.cc:583-641, mtrigger.cc:42-60), however
\* many elements its left hand side has and whatever has moved since: in every
\* design whose nonblocking assignments write no net twice and none that is
\* read through a port (WellPlaced).
THEOREM UpdatesLandThere ==
  ASSUME \A g \in Designs : WellPlaced(g)
  PROVE  Spec => UpdatesLand
<1>1. Init => AimedSoFar
  <2> SUFFICES ASSUME Init PROVE AimedSoFar
    OBVIOUS
  <2>1. PICK group \in Groups(design) : \A p \in BodyStatements(design) \cup design.moves :
              p.kind = "later" => Placed(design, group, p.lval)
    BY DEF Init, WellPlaced
  <2>2. AllAimed(group, OldState)
    BY DEF Init, AllAimed, OldState
  <2> QED BY <2>1, <2>2 DEF AimedSoFar
<1>2. NetsInv /\ AimedSoFar /\ [Next]_vars => AimedSoFar' /\ LandedNow
  <2> SUFFICES ASSUME NetsInv, AimedSoFar, [Next]_vars PROVE AimedSoFar' /\ LandedNow
    OBVIOUS
  <2>1. CASE Drive
    BY <2>1, AimedDrive
  <2>2. CASE Step
    BY <2>2, AimedStep
  <2>3. CASE Enter \/ Activate \/ Trigger \/ EndTime \/ UNCHANGED vars
    <3>1. UNCHANGED <<design, pending>>
      BY <2>3 DEF Enter, Activate, Trigger, EndTime, netVars, vars
    <3> QED BY <3>1, AimedQuiet
  <2> QED BY <2>1, <2>2, <2>3 DEF Next
<1>3. LandedNow =>
        \A u \in Updates :
          pending[u] # Nothing /\ pending'[u] = Nothing =>
            \A i \in DOMAIN pending[u].lval :
              LET x == pending[u].lval[i]
                  t == pending[u].targets[i]
                  e == Elements(Decl, pending[u].lval)[i]
                  v == Slice(pending[u].value, e.ms, e.ls)
                  inside == IF IsMemory(Decl[x.net]) THEN t.m \in Decl[x.net].lo .. Decl[x.net].hi
                            ELSE x.sel.at = "none" \/ t.m \in 0 .. Decl[x.net].size - 1
              IN  inside => Fit(Evaluated(Decl, store', x.net, t.m, t.l), ElementWidth(Decl, x))
                              = Fit(v, ElementWidth(Decl, x))
  BY DEF LandedNow, Landed, IsThere
<1> QED BY <1>1, <1>2, <1>3, NetsInvariant, PTL DEF Spec, UpdatesLand
-----------------------------------------------------------------------------
(***************************************************************************)
(* What a file leaves in a memory.                                         *)
(***************************************************************************)

TokensFit(file) ==
  /\ Len(file.tokens) \in Nat /\ DOMAIN file.tokens = 1 .. Len(file.tokens)
  /\ \A k \in 1 .. Len(file.tokens) :
       /\ file.tokens[k].is \in {"word", "address", "comment", "bad"}
       /\ file.tokens[k].text \in Seq(Digits) /\ file.tokens[k].at \in Nat

\* The words and the last address among the first k tokens, and where the next
\* word goes.
WordsUpTo(file, k) == {j \in WordsOf(file) : j <= k}
WordsSince(file, from, k) == {j \in WordsOf(file) : from < j /\ j <= k}
AddressesUpTo(file, k) == {j \in 1 .. k : file.tokens[j].is = "address"}
LatestAddress(file, k) ==
  IF AddressesUpTo(file, k) = {} THEN 0 ELSE Last(AddressesUpTo(file, k))
From(file, from, start) == IF from = 0 THEN start ELSE file.tokens[from].at
Position(file, k, start) ==
  From(file, LatestAddress(file, k), start)
    + Cardinality(WordsSince(file, LatestAddress(file, k), k))

\* The words from one place on, a token at a time.
LEMMA SinceStep ==
  ASSUME NEW file, TokensFit(file), NEW k \in 1 .. Len(file.tokens), NEW from \in 0 .. k
  PROVE  /\ IsFiniteSet(WordsSince(file, from, k))
         /\ Cardinality(WordsSince(file, from, k)) \in Nat
         /\ from = k => Cardinality(WordsSince(file, from, k)) = 0
         /\ from < k =>
              Cardinality(WordsSince(file, from, k))
                = Cardinality(WordsSince(file, from, k - 1))
                    + (IF file.tokens[k].is = "word" THEN 1 ELSE 0)
<1> DEFINE A == WordsSince(file, from, k)
           B == WordsSince(file, from, k - 1)
<1>1. IsFiniteSet(1 .. Len(file.tokens))
  BY FS_Interval DEF TokensFit
<1>2. A \subseteq 1 .. Len(file.tokens) /\ B \subseteq 1 .. Len(file.tokens)
  BY DEF WordsSince, WordsOf, TokensFit
<1> HIDE DEF A, B
<1>3. IsFiniteSet(A) /\ IsFiniteSet(B)
  BY <1>1, <1>2, FS_Subset
<1>4. Cardinality(A) \in Nat /\ Cardinality(B) \in Nat
  BY <1>3, FS_CardinalityType
<1>5. CASE from = k
  <2>1. A = {}
    BY <1>5 DEF A, WordsSince, WordsOf, TokensFit
  <2> QED BY <1>3, <1>4, <1>5, <2>1, FS_EmptySet DEF A
<1>6. CASE from < k /\ file.tokens[k].is = "word"
  <2>1. A = B \cup {k} /\ k \notin B
    BY <1>6 DEF A, B, WordsSince, WordsOf, TokensFit
  <2>2. Cardinality(A) = Cardinality(B) + 1
    BY <1>3, <2>1, FS_AddElement
  <2> QED BY <1>3, <1>4, <1>6, <2>2 DEF A, B
<1>7. CASE from < k /\ file.tokens[k].is # "word"
  <2>1. A = B
    BY <1>7 DEF A, B, WordsSince, WordsOf, TokensFit
  <2> QED BY <1>3, <1>4, <1>7, <2>1 DEF A, B
<1> QED BY <1>5, <1>6, <1>7

\* The last address, a token at a time.
LEMMA LatestStep ==
  ASSUME NEW file, TokensFit(file), NEW k \in 1 .. Len(file.tokens)
  PROVE  /\ LatestAddress(file, k) \in 0 .. k
         /\ LatestAddress(file, k)
              = IF file.tokens[k].is = "address" THEN k ELSE LatestAddress(file, k - 1)
<1> DEFINE A == AddressesUpTo(file, k)
           B == AddressesUpTo(file, k - 1)
<1>1. k \in Nat /\ A \subseteq 1 .. k
  BY DEF AddressesUpTo, TokensFit
<1>2. A # {} => Last(A) \in A /\ \A j \in A : j <= Last(A)
  <2> HIDE DEF A
  <2> QED BY <1>1, LastOf
<1>3. CASE file.tokens[k].is = "address"
  <2>1. k \in A
    BY <1>3 DEF AddressesUpTo, TokensFit
  <2> HIDE DEF A
  <2>2. Last(A) \in 1 .. k /\ k <= Last(A)
    BY <1>1, <1>2, <2>1
  <2>3. Last(A) = k
    BY <1>1, <2>2
  <2> QED BY <1>1, <1>3, <2>1, <2>3 DEF A, LatestAddress
<1>4. CASE file.tokens[k].is # "address"
  <2>1. A = B
    BY <1>1, <1>4 DEF AddressesUpTo
  <2>2. LatestAddress(file, k) \in 0 .. k
    <3> HIDE DEF A
    <3>1. LatestAddress(file, k) = IF A = {} THEN 0 ELSE Last(A)
      BY DEF LatestAddress, A
    <3>2. A # {} => Last(A) \in 1 .. k
      BY <1>1, <1>2
    <3> QED BY <1>1, <3>1, <3>2
  <2> QED BY <1>4, <2>1, <2>2 DEF LatestAddress
<1> QED BY <1>3, <1>4

PositionStep(file, k, start) ==
  LET now == Position(file, k, start)
      before == Position(file, k - 1, start)
      is == file.tokens[k].is
  IN  /\ before \in Int
      /\ is = "address" => now = file.tokens[k].at
      /\ is = "word" => AddressOf(file, k, start) = before /\ now = before + 1
      /\ is \notin {"word", "address"} => now = before

\* Where the next word goes before the first token, and after each.
LEMMA Positions ==
  ASSUME NEW file, TokensFit(file), NEW start \in Int
  PROVE  /\ Position(file, 0, start) = start
         /\ \A k \in 1 .. Len(file.tokens) : PositionStep(file, k, start)
<1>1. Position(file, 0, start) = start
  <2>1. AddressesUpTo(file, 0) = {}
    BY DEF AddressesUpTo
  <2>2. LatestAddress(file, 0) = 0
    BY <2>1 DEF LatestAddress
  <2>3. WordsSince(file, 0, 0) = {}
    BY DEF WordsSince, WordsOf, TokensFit
  <2>4. Cardinality(WordsSince(file, 0, 0)) = 0
    BY <2>3, FS_EmptySet
  <2> QED BY <2>2, <2>4 DEF Position, From
<1>2. ASSUME NEW k \in 1 .. Len(file.tokens)
      PROVE  PositionStep(file, k, start)
  <2> DEFINE la == LatestAddress(file, k)
             lb == LatestAddress(file, k - 1)
             is == file.tokens[k].is
             c(from, j) == Cardinality(WordsSince(file, from, j))
  <2>1. lb \in 0 .. k - 1
    <3>1. CASE k = 1
      <4>1. AddressesUpTo(file, 0) = {}
        BY DEF AddressesUpTo
      <4> QED BY <3>1, <4>1 DEF LatestAddress
    <3>2. CASE k # 1
      <4>1. k - 1 \in 1 .. Len(file.tokens)
        BY <3>2 DEF TokensFit
      <4> HIDE DEF lb
      <4>2. LatestAddress(file, k - 1) \in 0 .. k - 1
        BY <4>1, LatestStep
      <4> QED BY <4>2 DEF lb
    <3> QED BY <3>1, <3>2
  <2>2. la \in 0 .. k /\ la = IF is = "address" THEN k ELSE lb
    BY LatestStep
  <2>3. c(lb, k - 1) \in Nat
    <3>1. CASE lb = k - 1
      <4>1. WordsSince(file, lb, k - 1) = {}
        BY <3>1 DEF WordsSince, WordsOf, TokensFit
      <4> QED BY <4>1, FS_EmptySet
    <3>2. CASE lb # k - 1
      <4>1. k - 1 \in 1 .. Len(file.tokens) /\ lb \in 0 .. k - 1
        BY <2>1, <3>2 DEF TokensFit
      <4> HIDE DEF lb
      <4> QED BY <4>1, SinceStep
    <3> QED BY <3>1, <3>2
  <2>4. /\ k \in 0 .. k /\ lb \in 0 .. k /\ lb < k
        /\ k \in Nat
    BY <2>1 DEF TokensFit
  <2> HIDE DEF la, lb
  <2>5. c(k, k) = 0 /\ c(lb, k) = c(lb, k - 1) + (IF is = "word" THEN 1 ELSE 0)
    BY <2>4, SinceStep
  <2>6. /\ Position(file, k, start) = From(file, la, start) + c(la, k)
        /\ Position(file, k - 1, start) = From(file, lb, start) + c(lb, k - 1)
    BY DEF Position, la, lb
  <2>7. From(file, lb, start) \in Int /\ From(file, k, start) = file.tokens[k].at
        /\ file.tokens[k].at \in Nat
    BY <2>1, <2>4 DEF From, TokensFit
  <2>8. ASSUME is = "word"
        PROVE  AddressOf(file, k, start) = Position(file, k - 1, start)
    <3>1. {j \in 1 .. k : file.tokens[j].is = "address"} = AddressesUpTo(file, k)
      BY DEF AddressesUpTo
    <3>2. la = lb
      BY <2>2, <2>8
    <3>3. {j \in WordsOf(file) : la < j /\ j < k} = WordsSince(file, lb, k - 1)
      BY <2>1, <3>2 DEF WordsSince, WordsOf, TokensFit
    <3>4. AddressOf(file, k, start)
            = (IF la = 0 THEN start ELSE file.tokens[la].at)
              + Cardinality({j \in WordsOf(file) : la < j /\ j < k})
      BY <3>1, Zenon DEF AddressOf, la, LatestAddress
    <3> QED BY <2>6, <3>2, <3>3, <3>4 DEF From
  <2> HIDE DEF c, is
  <2>9. /\ Position(file, k - 1, start) \in Int
        /\ is = "address" => Position(file, k, start) = file.tokens[k].at
        /\ is = "word" => Position(file, k, start) = Position(file, k - 1, start) + 1
        /\ is \notin {"word", "address"} => Position(file, k, start) = Position(file, k - 1, start)
    BY <2>2, <2>3, <2>5, <2>6, <2>7
  <2> QED BY <2>8, <2>9 DEF is, PositionStep
<1> QED BY <1>1, <1>2

\* A file that can be read in whole, into part p.of of which b is.
Readily(p, b) ==
  /\ TokensFit(p.file) /\ WellFormed(p.file, p.base, Decl[p.of].size)
  /\ Decl[p.of].size \in Nat \ {0} /\ Decl[p.of].hi \in Int
  /\ b.start \in Int /\ b.stop \in Int /\ b.start <= b.stop

Asked(b) == b.stop - b.start + 1
Many(p, k) == Cardinality(WordsUpTo(p.file, k))
Inside1(p, b, k) ==
  \A j \in WordsUpTo(p.file, k) : AddressOf(p.file, j, b.start) <= Decl[p.of].hi
Arrived(p, b, w, k) == {j \in Kept(p, b) : AddressOf(p.file, j, b.start) = w /\ j <= k}
WordsAfter(p, b, old, k) == [w \in DOMAIN old |-> WordAfter(p, Arrived(p, b, w, k), old[w])]

\* r is what has become of the words old after k tokens.
Loading(p, b, old, r, k) ==
  /\ r.words = WordsAfter(p, b, old, k)
  /\ r.out \in {"reading", "beyond"}
  /\ r.out = "beyond" => ~Inside1(p, b, k)
  /\ r.out = "reading" => r.left = IF Many(p, k) < Asked(b) THEN Asked(b) - Many(p, k) ELSE 0
  /\ r.out = "reading" /\ r.left # 0 => r.at = Position(p.file, k, b.start) /\ Inside1(p, b, k)
  /\ r.incr = IF b.start < b.stop THEN 1 ELSE -1

\* The words are counted a token at a time.
LEMMA ManyStep ==
  ASSUME NEW p, TokensFit(p.file), NEW k \in 1 .. Len(p.file.tokens)
  PROVE  /\ Many(p, k) \in Nat /\ Many(p, k - 1) \in Nat
         /\ Many(p, k) = Many(p, k - 1) + (IF p.file.tokens[k].is = "word" THEN 1 ELSE 0)
<1>1. \A j \in Nat : WordsUpTo(p.file, j) = WordsSince(p.file, 0, j)
  BY DEF WordsUpTo, WordsSince, WordsOf, TokensFit
<1>2. k \in Nat /\ k - 1 \in Nat /\ 0 \in 0 .. k /\ 0 < k
  BY DEF TokensFit
<1>3. Many(p, k) = Cardinality(WordsSince(p.file, 0, k))
      /\ Many(p, k - 1) = Cardinality(WordsSince(p.file, 0, k - 1))
  BY <1>1, <1>2 DEF Many
<1>4. /\ Cardinality(WordsSince(p.file, 0, k)) \in Nat
      /\ Cardinality(WordsSince(p.file, 0, k))
           = Cardinality(WordsSince(p.file, 0, k - 1))
               + (IF p.file.tokens[k].is = "word" THEN 1 ELSE 0)
  BY <1>2, SinceStep
<1>5. Cardinality(WordsSince(p.file, 0, k - 1)) \in Nat
  <2>1. CASE k = 1
    <3>1. WordsSince(p.file, 0, 0) = {}
      BY DEF WordsSince, WordsOf, TokensFit
    <3> QED BY <2>1, <3>1, FS_EmptySet
  <2>2. CASE k # 1
    <3>1. k - 1 \in 1 .. Len(p.file.tokens) /\ 0 \in 0 .. k - 1
      BY <2>2 DEF TokensFit
    <3> QED BY <3>1, SinceStep
  <2> QED BY <2>1, <2>2
<1> QED BY <1>3, <1>4, <1>5

\* Whether a word is kept.
LEMMA KeptWord ==
  ASSUME NEW p, NEW b, NEW k
  PROVE  k \in Kept(p, b)
           <=> k \in WordsOf(p.file) /\ Many(p, k) <= Asked(b) /\ Inside1(p, b, k)
BY Zenon DEF Kept, Many, Asked, Inside1, WordsUpTo

\* A token that is not kept leaves the words.
LEMMA WordsStay ==
  ASSUME NEW p, NEW b, NEW old, TokensFit(p.file), NEW k \in 1 .. Len(p.file.tokens),
         k \notin Kept(p, b)
  PROVE  WordsAfter(p, b, old, k) = WordsAfter(p, b, old, k - 1)
<1>1. \A j \in Kept(p, b) : j \in 1 .. Len(p.file.tokens)
  BY DEF Kept, WordsOf, TokensFit
<1>2. ASSUME NEW w PROVE Arrived(p, b, w, k) = Arrived(p, b, w, k - 1)
  BY <1>1 DEF Arrived, TokensFit
<1> QED BY <1>2 DEF WordsAfter

\* One that is kept goes to its address.
LEMMA WordsGrow ==
  ASSUME NEW p, NEW b, NEW old, TokensFit(p.file), NEW k \in 1 .. Len(p.file.tokens),
         k \in Kept(p, b)
  PROVE  WordsAfter(p, b, old, k)
           = [WordsAfter(p, b, old, k - 1) EXCEPT
                ![AddressOf(p.file, k, b.start)]
                  = FromDigits(p.file.tokens[k].text, p.base, Decl[p.of].size)]
<1> DEFINE at == AddressOf(p.file, k, b.start)
           word == FromDigits(p.file.tokens[k].text, p.base, Decl[p.of].size)
           A(w) == Arrived(p, b, w, k)
           B(w) == Arrived(p, b, w, k - 1)
<1>1. \A j \in Kept(p, b) : j \in 1 .. Len(p.file.tokens)
  BY DEF Kept, WordsOf, TokensFit
<1>2. ASSUME NEW w, w # at PROVE A(w) = B(w)
  <2>1. ASSUME NEW j \in Kept(p, b), AddressOf(p.file, j, b.start) = w
        PROVE  j <= k <=> j <= k - 1
    <3>1. j \in 1 .. Len(p.file.tokens) /\ j # k
      BY <1>1, <1>2, <2>1
    <3> QED BY <3>1 DEF TokensFit
  <2> QED BY <2>1, Zenon DEF Arrived
<1>3. WordAfter(p, A(at), old[at]) = word
  <2> DEFINE T == A(at)
  <2>1. k \in T /\ T \subseteq 1 .. k /\ k \in Nat
    <3>1. k \in Nat /\ k <= k
      BY DEF TokensFit
    <3>2. k \in T
      BY <3>1, Zenon DEF Arrived
    <3>3. \A j \in T : j \in 1 .. Len(p.file.tokens) /\ j <= k
      BY <1>1, Zenon DEF Arrived
    <3> HIDE DEF T
    <3> QED BY <3>1, <3>2, <3>3 DEF TokensFit
  <2> HIDE DEF T
  <2>2. Last(T) \in T /\ \A j \in T : j <= Last(T)
    BY <2>1, LastOf
  <2>3. Last(T) \in 1 .. k /\ k <= Last(T)
    BY <2>1, <2>2
  <2>4. Last(T) = k
    BY <2>1, <2>3
  <2>5. WordAfter(p, T, old[at]) = word
    BY <2>1, <2>4 DEF WordAfter
  <2> QED BY <2>5 DEF T
<1> HIDE DEF at, word, A, B
<1>4. WordsAfter(p, b, old, k) = [w \in DOMAIN old |-> WordAfter(p, A(w), old[w])]
      /\ WordsAfter(p, b, old, k - 1) = [w \in DOMAIN old |-> WordAfter(p, B(w), old[w])]
  BY DEF WordsAfter, A, B
<1>5. \A w \in DOMAIN old : WordAfter(p, A(w), old[w])
                              = IF w = at THEN word ELSE WordAfter(p, B(w), old[w])
  BY <1>2, <1>3
<1>6. [WordsAfter(p, b, old, k - 1) EXCEPT ![at] = word]
        = [w \in DOMAIN old |-> IF w = at THEN word ELSE WordAfter(p, B(w), old[w])]
  BY <1>4
<1> QED BY <1>4, <1>5, <1>6 DEF at, word

\* What a token that is not a word, or comes too late, leaves as it is.
LEMMA LoadingStays ==
  ASSUME NEW p, NEW b, NEW old, Readily(p, b), NEW k \in 1 .. Len(p.file.tokens), NEW r,
         Loading(p, b, old, r, k - 1),
         \/ r.out # "reading" \/ r.left = 0 \/ p.file.tokens[k].is = "comment"
  PROVE  Loading(p, b, old, r, k)
<1> DEFINE t == p.file.tokens[k]
<1>1. TokensFit(p.file) /\ k \in Nat /\ Asked(b) \in Int
  BY DEF Readily, TokensFit, Asked
<1>2. /\ Many(p, k) \in Nat /\ Many(p, k - 1) \in Nat
      /\ Many(p, k) = Many(p, k - 1) + (IF t.is = "word" THEN 1 ELSE 0)
  BY <1>1, ManyStep
<1>3. \A j \in WordsUpTo(p.file, k - 1) : j \in WordsUpTo(p.file, k)
  BY <1>1 DEF WordsUpTo, WordsOf, TokensFit
<1>4. t.is # "word" => \A j \in WordsUpTo(p.file, k) : j \in WordsUpTo(p.file, k - 1)
  BY <1>1 DEF WordsUpTo, WordsOf, TokensFit
<1>5. Inside1(p, b, k) => Inside1(p, b, k - 1)
  BY <1>3 DEF Inside1
<1>6. t.is # "word" /\ Inside1(p, b, k - 1) => Inside1(p, b, k)
  BY <1>4 DEF Inside1
<1>7. t.is # "word" => k \notin WordsOf(p.file)
  BY DEF WordsOf
<1>8. t.is = "comment" => Position(p.file, k, b.start) = Position(p.file, k - 1, b.start)
  <2>1. b.start \in Int
    BY DEF Readily
  <2>2. PositionStep(p.file, k, b.start)
    BY <1>1, <2>1, Positions
  <2> QED BY <2>2 DEF PositionStep
<1>9. r.out \in {"reading", "beyond"}
  BY DEF Loading
<1>10. k \notin Kept(p, b)
  <2>1. CASE t.is # "word"
    BY <1>7, <2>1, KeptWord
  <2>2. CASE r.out # "reading"
    <3>1. ~Inside1(p, b, k - 1)
      BY <1>9, <2>2 DEF Loading
    <3> QED BY <1>5, <3>1, KeptWord
  <2>3. CASE r.out = "reading" /\ r.left = 0 /\ t.is = "word"
    <3>1. Many(p, k - 1) >= Asked(b)
      BY <1>1, <1>2, <2>3 DEF Loading
    <3>2. ~(Many(p, k) <= Asked(b))
      BY <1>1, <1>2, <2>3, <3>1
    <3> QED BY <3>2, KeptWord
  <2>4. t.is = "comment" => t.is # "word"
    OBVIOUS
  <2> HIDE DEF t
  <2>5. r.out # "reading" \/ r.left = 0 \/ t.is = "comment"
    BY DEF t
  <2> QED BY <2>1, <2>2, <2>3, <2>5
<1>11. WordsAfter(p, b, old, k) = WordsAfter(p, b, old, k - 1)
  BY <1>1, <1>10, WordsStay
<1>12. r.out = "reading" => r.left = IF Many(p, k) < Asked(b) THEN Asked(b) - Many(p, k) ELSE 0
  <2>1. CASE t.is = "word" /\ r.out = "reading"
    <3>1. r.left = 0
      BY <2>1
    <3>2. Many(p, k - 1) >= Asked(b)
      BY <1>1, <1>2, <2>1, <3>1 DEF Loading
    <3> QED BY <1>1, <1>2, <2>1, <3>1, <3>2
  <2>2. CASE t.is # "word"
    <3>1. Many(p, k) = Many(p, k - 1)
      BY <1>2, <2>2
    <3> QED BY <3>1 DEF Loading
  <2> QED BY <2>1, <2>2
<1>13. r.out = "reading" /\ r.left # 0 => r.at = Position(p.file, k, b.start) /\ Inside1(p, b, k)
  <2> SUFFICES ASSUME r.out = "reading", r.left # 0
               PROVE  r.at = Position(p.file, k, b.start) /\ Inside1(p, b, k)
    OBVIOUS
  <2>1. t.is = "comment"
    OBVIOUS
  <2>2. r.at = Position(p.file, k - 1, b.start) /\ Inside1(p, b, k - 1)
    BY DEF Loading
  <2> QED BY <1>6, <1>8, <2>1, <2>2
<1>14. /\ r.words = WordsAfter(p, b, old, k)
       /\ r.out = "beyond" => ~Inside1(p, b, k)
       /\ r.incr = IF b.start < b.stop THEN 1 ELSE -1
  BY <1>5, <1>11 DEF Loading
<1> QED BY <1>9, <1>12, <1>13, <1>14 DEF Loading

\* What is below a number is its own remainder.
LEMMA BelowStays ==
  ASSUME NEW a \in Nat, NEW m \in Nat \ {0}, a < m
  PROVE  a % m = a
OBVIOUS

\* An address, and a word that is stored or beyond the memory.
LEMMA LoadingGoesOn ==
  ASSUME NEW p, NEW b, NEW old, Readily(p, b), NEW k \in 1 .. Len(p.file.tokens), NEW r,
         NEW W, NEW hi, hi = Decl[p.of].hi, r \in Takes(W, hi),
         Loading(p, b, old, r, k - 1), r.out = "reading", r.left # 0,
         p.file.tokens[k].is # "comment"
  PROVE  Loading(p, b, old, Taken(r, p.file.tokens[k], p.base, Decl[p.of].size), k)
<1> DEFINE t == p.file.tokens[k]
           size == Decl[p.of].size
           base == p.base
           after == Taken(r, t, base, size)
           now == Position(p.file, k, b.start)
           before == Position(p.file, k - 1, b.start)
<1>1. /\ TokensFit(p.file) /\ k \in Nat /\ Asked(b) \in Int /\ hi \in Int
      /\ b.start \in Int /\ b.stop \in Int /\ b.start <= b.stop
  BY DEF Readily, TokensFit, Asked
<1>2. /\ Many(p, k) \in Nat /\ Many(p, k - 1) \in Nat
      /\ Many(p, k) = Many(p, k - 1) + (IF t.is = "word" THEN 1 ELSE 0)
  BY <1>1, ManyStep
<1>3. /\ before \in Int
      /\ t.is = "address" => now = t.at
      /\ t.is = "word" => AddressOf(p.file, k, b.start) = before /\ now = before + 1
  <2>1. PositionStep(p.file, k, b.start)
    BY <1>1, Positions
  <2> QED BY <2>1 DEF PositionStep
<1>4. /\ ~Refused(t, base, size) /\ t.is \in {"word", "address"} /\ t.at \in Nat
      /\ t.is = "address" => t.at < Below(size)
  BY <1>1 DEF Readily, WellFormed, Refused, TokensFit
<1>5. /\ r = [words |-> r.words, at |-> r.at, left |-> r.left, hi |-> hi,
              incr |-> r.incr, out |-> r.out]
      /\ r.at \in Int /\ r.left \in Int /\ r.incr \in {1, -1}
  BY DEF Takes
<1>6. /\ r.words = WordsAfter(p, b, old, k - 1)
      /\ r.left = IF Many(p, k - 1) < Asked(b) THEN Asked(b) - Many(p, k - 1) ELSE 0
      /\ r.at = before /\ Inside1(p, b, k - 1)
      /\ r.incr = IF b.start < b.stop THEN 1 ELSE -1
  BY DEF Loading
<1>7. Many(p, k - 1) < Asked(b) /\ r.left = Asked(b) - Many(p, k - 1)
  BY <1>6
<1>8. t.is = "word" => k \in WordsUpTo(p.file, k)
  BY <1>1 DEF WordsUpTo, WordsOf, TokensFit
<1>9. \A j \in WordsUpTo(p.file, k) : j \in WordsUpTo(p.file, k - 1) \/ (j = k /\ t.is = "word")
  BY <1>1 DEF WordsUpTo, WordsOf, TokensFit
<1> HIDE DEF t, size, now, before
<1>10. CASE t.is = "address"
  <2> DEFINE at == t.at % Below(size)
  <2>1. at = t.at
    <3>1. Below(size) \in Nat \ {0}
      BY BelowProperties DEF Readily, size
    <3> QED BY <1>4, <1>10, <3>1, BelowStays
  <2> HIDE DEF at
  <2>2. after = [r EXCEPT !.at = at]
    BY <1>4, <1>10, Zenon DEF Taken, at
  <2>3. after = [words |-> r.words, at |-> at, left |-> r.left, hi |-> hi,
                 incr |-> r.incr, out |-> r.out]
    BY <1>5, <2>2
  <2>4. k \notin Kept(p, b)
    <3>1. k \notin WordsOf(p.file)
      BY <1>10 DEF WordsOf, t
    <3> QED BY <3>1, KeptWord
  <2>5. WordsAfter(p, b, old, k) = WordsAfter(p, b, old, k - 1)
    BY <1>1, <2>4, WordsStay
  <2>6. Inside1(p, b, k)
    BY <1>6, <1>9, <1>10 DEF Inside1
  <2>7. Many(p, k) = Many(p, k - 1)
    BY <1>2, <1>10
  <2> HIDE DEF after
  <2>8. /\ after.words = r.words /\ after.at = t.at /\ after.left = r.left
        /\ after.incr = r.incr /\ after.out = "reading"
    BY <2>1, <2>3
  <2> QED BY <1>3, <1>6, <1>10, <2>5, <2>6, <2>7, <2>8 DEF Loading, after, t, base, size, now
<1>11. CASE t.is = "word" /\ r.at > hi
  <2>1. after = [r EXCEPT !.out = "beyond"]
    <3>1. r.at > r.hi
      BY <1>5, <1>11
    <3> QED BY <1>4, <1>11, <3>1, Zenon DEF Taken
  <2>2. after = [words |-> r.words, at |-> r.at, left |-> r.left, hi |-> hi,
                 incr |-> r.incr, out |-> "beyond"]
    BY <1>5, <2>1
  <2>3. ~Inside1(p, b, k)
    BY <1>1, <1>3, <1>6, <1>8, <1>11 DEF Inside1
  <2>4. k \notin Kept(p, b)
    BY <2>3, KeptWord
  <2>5. WordsAfter(p, b, old, k) = WordsAfter(p, b, old, k - 1)
    BY <1>1, <2>4, WordsStay
  <2> HIDE DEF after
  <2>6. after.words = r.words /\ after.incr = r.incr /\ after.out = "beyond"
    BY <2>2
  <2> QED BY <1>6, <2>3, <2>5, <2>6 DEF Loading, after, t, base, size
<1>12. CASE t.is = "word" /\ ~(r.at > hi)
  <2> DEFINE word == FromDigits(t.text, base, size)
             words == [r.words EXCEPT ![r.at] = word]
             at == r.at + r.incr
             left == r.left - 1
  <2>1. after = Stored(r, word)
    <3>1. ~(r.at > r.hi)
      BY <1>5, <1>12
    <3> QED BY <1>4, <1>12, <3>1, Zenon DEF Taken
  <2>2. after = [r EXCEPT !.words = words, !.at = at, !.left = left]
    BY <2>1, Zenon DEF Stored
  <2> HIDE DEF words, at, left, word
  <2>3. after = [words |-> words, at |-> at, left |-> left, hi |-> hi,
                 incr |-> r.incr, out |-> r.out]
    <3> DEFINE one == [r EXCEPT !.words = words]
               two == [one EXCEPT !.at = at]
    <3>1. one = [words |-> words, at |-> r.at, left |-> r.left, hi |-> hi,
                 incr |-> r.incr, out |-> r.out]
      BY <1>5
    <3> HIDE DEF one
    <3>2. two = [words |-> words, at |-> at, left |-> r.left, hi |-> hi,
                 incr |-> r.incr, out |-> r.out]
      BY <3>1
    <3> HIDE DEF two
    <3>3. [two EXCEPT !.left = left]
            = [words |-> words, at |-> at, left |-> left, hi |-> hi,
               incr |-> r.incr, out |-> r.out]
      BY <3>2
    <3>4. after = [two EXCEPT !.left = left]
      BY <2>2, Zenon DEF one, two
    <3> HIDE DEF after
    <3> QED BY <3>3, <3>4
  <2>4. Inside1(p, b, k)
    BY <1>1, <1>3, <1>5, <1>6, <1>9, <1>12 DEF Inside1
  <2>5. Many(p, k) = Many(p, k - 1) + 1 /\ Many(p, k) <= Asked(b)
    BY <1>1, <1>2, <1>7, <1>12
  <2>6. k \in Kept(p, b)
    <3>1. k \in WordsOf(p.file)
      BY <1>8, <1>12 DEF WordsUpTo
    <3> QED BY <2>4, <2>5, <3>1, KeptWord
  <2>7. words = WordsAfter(p, b, old, k)
    <3>1. WordsAfter(p, b, old, k)
            = [WordsAfter(p, b, old, k - 1) EXCEPT
                 ![AddressOf(p.file, k, b.start)]
                   = FromDigits(p.file.tokens[k].text, p.base, Decl[p.of].size)]
      BY <1>1, <2>6, WordsGrow
    <3>2. r.at = AddressOf(p.file, k, b.start)
      BY <1>3, <1>6, <1>12
    <3> QED BY <1>6, <3>1, <3>2 DEF words, word, t, base, size
  <2>8. left = IF Many(p, k) < Asked(b) THEN Asked(b) - Many(p, k) ELSE 0
    BY <1>1, <1>2, <1>7, <2>5 DEF left
  <2>9. left # 0 => at = now
    <3> SUFFICES ASSUME left # 0 PROVE at = now
      OBVIOUS
    <3>1. 1 < Asked(b)
      BY <1>1, <1>2, <2>5, <2>8
    <3>2. r.incr = 1
      BY <1>1, <1>6, <3>1 DEF Asked
    <3> QED BY <1>3, <1>6, <1>12, <3>2 DEF at
  <2> HIDE DEF after
  <2>10. /\ after.words = words /\ after.at = at /\ after.left = left
         /\ after.incr = r.incr /\ after.out = "reading"
    BY <2>3
  <2> QED BY <1>6, <2>4, <2>7, <2>8, <2>9, <2>10 DEF Loading, after, t, base, size, now
<1> QED BY <1>4, <1>10, <1>11, <1>12

\* Before the first token nothing has changed.
LEMMA LoadingStarts ==
  ASSUME NEW p, NEW b, NEW W, NEW old, NEW hi, Readily(p, b),
         old = [w \in DOMAIN old |-> old[w]]
  PROVE  Loading(p, b, old, Opened(old, hi, b), 0)
<1> DEFINE r == Opened(old, hi, b)
<1>1. TokensFit(p.file) /\ b.start \in Int /\ b.stop \in Int /\ b.start <= b.stop
  BY DEF Readily
<1>2. WordsUpTo(p.file, 0) = {}
  BY <1>1 DEF WordsUpTo, WordsOf, TokensFit
<1>3. \A w : Arrived(p, b, w, 0) = {}
  BY <1>1 DEF Arrived, Kept, WordsOf, TokensFit
<1>4. WordsAfter(p, b, old, 0) = old
  BY <1>3 DEF WordsAfter, WordAfter
<1>5. Many(p, 0) = 0 /\ Inside1(p, b, 0)
  BY <1>2, FS_EmptySet DEF Many, Inside1
<1>6. Position(p.file, 0, b.start) = b.start
  BY <1>1, Positions
<1>7. Asked(b) \in Int /\ 0 < Asked(b) /\ b.stop - b.start + 1 = Asked(b)
  BY <1>1 DEF Asked
<1>8. /\ r.words = old /\ r.at = b.start /\ r.left = b.stop - b.start + 1
      /\ r.incr = (IF b.start < b.stop THEN 1 ELSE -1) /\ r.out = "reading"
  BY DEF Opened
<1> HIDE DEF r
<1>9. Loading(p, b, old, r, 0)
  BY <1>4, <1>5, <1>6, <1>7, <1>8 DEF Loading
<1> QED BY <1>9 DEF r

\* A file that can be read in whole puts its words where they belong.
LEMMA LoadedRight ==
  ASSUME NEW p, NEW b, NEW W, NEW words, NEW lo, Readily(p, b),
         CanRead(Decl[p.of].size, W, words, lo, Decl[p.of].hi, p.base, p.file, b),
         ~OutOfRange(lo, Decl[p.of].hi, b)
  PROVE  Loaded(words, lo, Decl[p.of].hi, p.file, p.base, b).words
           = WordsAfter(p, b, words, Len(p.file.tokens))
<1> DEFINE size == Decl[p.of].size
           hi == Decl[p.of].hi
           file == p.file
           base == p.base
           S == Takes(W, hi)
           n == Len(file.tokens)
<1>1. PICK f : /\ ReadOn(f, S, Opened(words, hi, b), file, base, size)
               /\ Loaded(words, lo, hi, file, base, b) = f[Readable(file)]
  BY LoadedSteps DEF LoadedBy
<1>2. TokensFit(p.file) /\ n \in Nat /\ Readable(file) = n
  BY DEF Readily, WellFormed, Readable, TokensFit
<1>3. /\ f \in [0 .. n -> S] /\ f[0] = Opened(words, hi, b)
      /\ \A k \in 1 .. n : f[k] = Taken(f[k - 1], file.tokens[k], base, size)
  BY <1>1, <1>2 DEF ReadOn
<1> DEFINE T == {k \in 0 .. n : Loading(p, b, words, f[k], k)}
<1>4. 0 \in T
  <2>1. words = [w \in DOMAIN words |-> words[w]]
    BY DEF CanRead
  <2>2. Loading(p, b, words, Opened(words, hi, b), 0)
    BY <2>1, LoadingStarts
  <2> QED BY <1>2, <1>3, <2>2
<1>5. ASSUME NEW k \in 1 .. n, k - 1 \in T PROVE k \in T
  <2> DEFINE r == f[k - 1]
             t == p.file.tokens[k]
  <2>1. r \in S /\ Loading(p, b, words, r, k - 1) /\ k \in 1 .. Len(p.file.tokens) /\ k \in 0 .. n
    BY <1>2, <1>3, <1>5
  <2>2. f[k] = Taken(r, t, p.base, Decl[p.of].size)
    BY <1>3
  <2> HIDE DEF r, S, n
  <2>3. CASE r.out # "reading" \/ r.left = 0 \/ t.is = "comment"
    <3>1. Loading(p, b, words, r, k)
      BY <2>1, <2>3, LoadingStays
    <3>2. f[k] = r
      BY <2>2, <2>3, Zenon DEF Taken
    <3> QED BY <2>1, <3>1, <3>2
  <2>4. CASE ~(r.out # "reading" \/ r.left = 0 \/ t.is = "comment")
    <3>1. r \in Takes(W, hi)
      BY <2>1 DEF S
    <3>2. Loading(p, b, words, Taken(r, t, p.base, Decl[p.of].size), k)
      BY <2>1, <2>4, <3>1, LoadingGoesOn
    <3> QED BY <2>1, <2>2, <3>2
  <2> QED BY <2>3, <2>4
<1>6. Loading(p, b, words, f[n], n)
  <2>1. \A k \in 1 .. n : k - 1 \in T => k \in T
    BY <1>5
  <2> HIDE DEF T, n
  <2>2. \A k \in 0 .. n : k \in T
    BY <1>2, <1>4, <2>1, InductUpTo
  <2> QED BY <1>2, <2>2 DEF T
<1> QED BY <1>1, <1>2, <1>6 DEF Loading

\* Reading a file that can be read in whole puts each of its words at its
\* address, as many as the task asks for, and touches no other word
\* (readmem_data, common/st_util.cc), for every file, memory and pair of
\* indexes that ascend.
THEOREM FilesLoaded == Spec => []FileLoaded
<1>1. NetsInv => FileLoaded
  <2> SUFFICES ASSUME NetsInv, NEW p \in design.moves, p.kind = "readmem"
               PROVE  LoadedAfter(p, FileBounds(OldState, p), FromFile(OldState, p).words)
    BY DEF FileLoaded
  <2> DEFINE d == Decl[p.of]
             b == FileBounds(OldState, p)
             got == FromFile(OldState, p).words
             old == store[p.of]
             W == Words(design, p.of)
             size == d.size
             lo == d.lo
             hi == d.hi
             file == p.file
             base == p.base
  <2> SUFFICES ASSUME WellFormed(file, base, size), b.start \in lo .. b.stop, b.stop <= hi
               PROVE  got = [w \in DOMAIN got |-> WordAfter(p, Arriving(p, b, w), store[p.of][w])]
    BY DEF LoadedAfter
  <2>1. DesignFits(design) /\ ReadFits(design, p) /\ StateOK(OldState)
    <3>1. DesignFits(design) /\ StateOK(OldState)
      BY InvState
    <3>2. ~StatementFits(design, p)
      BY DEF StatementFits
    <3> QED BY <3>1, <3>2 DEF DesignFits
  <2>2. CanRead(size, W, old, lo, hi, base, file, b)
    <3>1. OldState.st = store
      BY DEF OldState
    <3> QED BY <2>1, <3>1, ReadCan
  <2>3. got = Loaded(old, lo, hi, file, base, b).words
    BY DEF FromFile, OldState
  <2>4. TokensFit(file)
    <3>1. Len(file.tokens) \in Nat /\ DOMAIN file.tokens = 1 .. Len(file.tokens)
      BY <2>1 DEF ReadFits
    <3> QED BY <2>1, <3>1 DEF ReadFits, TokensFit
  <2>5. /\ size \in Nat \ {0} /\ lo \in Int /\ hi \in Int /\ b.start \in Int /\ b.stop \in Int
        /\ old = [w \in DOMAIN old |-> old[w]]
    BY <2>2 DEF CanRead
  <2> HIDE DEF b, got, old, W
  <2>6. b.start <= b.stop /\ ~OutOfRange(lo, hi, b)
    BY <2>5 DEF OutOfRange
  <2>7. Readily(p, b)
    BY <2>4, <2>5, <2>6 DEF Readily
  <2>8. got = WordsAfter(p, b, old, Len(file.tokens))
    <3> HIDE DEF lo
    <3> QED BY <2>2, <2>3, <2>6, <2>7, LoadedRight
  <2>9. ASSUME NEW w PROVE Arrived(p, b, w, Len(file.tokens)) = Arriving(p, b, w)
    <3>1. \A j \in Kept(p, b) : j <= Len(file.tokens)
      BY <2>4 DEF Kept, WordsOf, TokensFit
    <3> QED BY <3>1, Zenon DEF Arrived, Arriving
  <2>10. got = [w \in DOMAIN old |-> WordAfter(p, Arriving(p, b, w), old[w])]
    BY <2>8, <2>9, Zenon DEF WordsAfter
  <2>11. DOMAIN got = DOMAIN old
    BY <2>10
  <2> QED BY <2>10, <2>11 DEF old, b
<1> QED BY <1>1, NetsInvariant, PTL
-----------------------------------------------------------------------------
(***************************************************************************)
(* At the end of a time unit every net is what drives it.                  *)
(***************************************************************************)

\* An element that does not move: all of a net or a constant part of it.
Fixed(x) ==
  /\ NameFits(Decl, x) /\ x.sel.at # "bit"
  /\ ~IsMemory(Decl[x.net]) /\ ~Inward(Decl[x.net])

\* The bounds of its select.
BoundsOf(x) ==
  IF x.sel.at = "none" THEN [m |-> None, l |-> None] ELSE [m |-> x.sel.ms, l |-> x.sel.ls]

\* The bits of an element that does not move.
BitsOf(words, d, x) ==
  IF x.sel.at = "none" THEN words[0]
  ELSE PartOf(words[0], Span(d.size, d.up, x.sel.ms, x.sel.ls), d.size)

\* An element that does not move is read from its net.
LEMMA FixedRead ==
  ASSUME DesignFits(design), NEW x, Fixed(x), NEW st
  PROVE  /\ Selected(Decl, st, x.sel) = BoundsOf(x) /\ Lands(x.sel, BoundsOf(x))
         /\ HitsElement(Decl[x.net], BoundsOf(x).m, BoundsOf(x).l)
         /\ ElementWidth(Decl, x) = WidthOf(Decl, x)
         /\ Read(Decl, st, x) = Fit(BitsOf(st[x.net], Decl[x.net], x), WidthOf(Decl, x))
         /\ Read(Decl, st, x)
              = Fit(Evaluated(Decl, st, x.net, BoundsOf(x).m, BoundsOf(x).l), WidthOf(Decl, x))
<1> DEFINE d == Decl[x.net]
           t == BoundsOf(x)
<1>1. /\ NameFits(Decl, x) /\ x.sel.at \in {"none", "part"} /\ x.net \in DOMAIN Decl
      /\ ~IsMemory(d) /\ ~Inward(d)
  BY DEF Fixed, NameFits
<1>2. NetsFit1(Decl) /\ d.size \in Nat \ {0} /\ d.up \in BOOLEAN
  BY <1>1, DesignNets, SizeType DEF Decl
<1>3. Selected(Decl, st, x.sel) = t
  BY <1>1 DEF Selected, BoundsOf
<1>4. x.sel.at = "part" => /\ x.sel.ms \in Nat /\ x.sel.ls \in Nat /\ Inside(d, x.sel.ms, x.sel.ls)
  BY <1>1 DEF NameFits
<1>5. Lands(x.sel, t)
  BY <1>1, <1>4 DEF Lands, BoundsOf, None
<1>6. IsThere(d, x.sel, t)
  <2>1. CASE x.sel.at = "none"
    BY <1>1, <2>1 DEF IsThere
  <2>2. CASE x.sel.at = "part"
    <3> DEFINE N == d.size
               up == d.up
               ms == x.sel.ms
               ls == x.sel.ls
               first == Span(N, up, ms, ls).first
               last == Span(N, up, ms, ls).last
    <3>1. N \in Nat \ {0} /\ up \in BOOLEAN /\ ms \in Nat /\ ls \in Nat
          /\ 0 <= first /\ first <= last /\ last < N
      BY <1>2, <1>4, <2>2 DEF Inside
    <3>2. first = (IF up THEN N - 1 - ls ELSE ls) /\ last = (IF up THEN N - 1 - ms ELSE ms)
      <4> HIDE DEF N, up, ms, ls
      <4> QED BY <3>1, SpanType
    <3> HIDE DEF N, up, ms, ls, first, last
    <3>3. ms \in 0 .. N - 1
      BY <3>1, <3>2
    <3> QED BY <1>1, <2>2, <3>3 DEF IsThere, BoundsOf, N, ms
  <2> QED BY <1>1, <2>1, <2>2
<1>7. HitsElement(d, t.m, t.l)
  <2> HIDE DEF t
  <2> QED BY <1>1, <1>5, <1>6, ThereHits
<1>8. ElementWidth(Decl, x) = WidthOf(Decl, x)
  BY <1>1 DEF ElementWidth, WidthOf
<1>9. Evaluated(Decl, st, x.net, t.m, t.l) = SeenIn(d, st[x.net], t.m, t.l)
  BY <1>1, <1>2, EvaluatedHere
<1>10. SeenIn(d, st[x.net], t.m, t.l) = BitsOf(st[x.net], d, x)
  BY <1>1, <1>4 DEF SeenIn, BitsOf, BoundsOf, None
<1>11. Read(Decl, st, x) = Fit(Evaluated(Decl, st, x.net, t.m, t.l), WidthOf(Decl, x))
  <2>1. x.sel.at # "none" => t.m # None
    BY <1>1, <1>4 DEF BoundsOf, None
  <2> HIDE DEF t
  <2> QED BY <1>3, <2>1 DEF Read, ReadAt
<1> HIDE DEF t, d
<1> QED BY <1>3, <1>5, <1>7, <1>8, <1>9, <1>10, <1>11 DEF t, d

\* A part of the bits of a net is the same where they are.
LEMMA PartSame ==
  ASSUME NEW n \in Nat, NEW b \in [1 .. n -> Logic], NEW c \in [1 .. n -> Logic],
         NEW first \in Nat, NEW last \in Int, last < n,
         \A i \in 1 .. n : first < i /\ i <= last + 1 => b[i] = c[i]
  PROVE  PartOf(b, [first |-> first, last |-> last], n) = PartOf(c, [first |-> first, last |-> last], n)
<1> DEFINE span == [first |-> first, last |-> last]
<1>1. span.first = first /\ span.last = last /\ Length(span) = last - first + 1
  BY DEF Length
<1> HIDE DEF span
<1>2. Len(b) = n /\ Len(c) = n
  BY BitsLen
<1>3. ASSUME NEW i \in 1 .. n, i <= last - first + 1 PROVE b[first + i] = c[first + i]
  <2> DEFINE j == first + i
  <2>1. j \in 1 .. n /\ first < j /\ j <= last + 1
    BY <1>3
  <2> HIDE DEF j
  <2> QED BY <2>1 DEF j
<1>4. PartOf(b, span, n) = PartOf(c, span, n)
  BY <1>1, <1>2, <1>3 DEF PartOf
<1> QED BY <1>4 DEF span

\* What is written elsewhere does not touch an element that does not move.
LEMMA Spared ==
  ASSUME DesignFits(design), NEW st, StoreFits(design, st), NEW x, Fixed(x),
         NEW y, NameFits(Decl, y), NoOverlap(Decl, x, y), NEW t, Lands(y.sel, t),
         NEW num \in Seq(Logic), NEW ms, NEW ls, SliceFits(num, ms, ls)
  PROVE  Read(Decl, Write(Decl, st, y.net, num, ms, ls, t.m, t.l).st, x) = Read(Decl, st, x)
<1> DEFINE n == y.net
           m == t.m
           l == t.l
           w == Write(Decl, st, n, num, ms, ls, m, l)
           sto == w.st
           d == Decl[x.net]
<1>1. /\ m \in Int /\ l \in Int /\ n \in DOMAIN Decl /\ Decl = design.nets
      /\ x.net \in DOMAIN Decl /\ NameFits(Decl, x) /\ x.sel.at # "bit" /\ ~IsMemory(d) /\ ~Inward(d)
  BY DEF Lands, NameFits, Decl, Fixed
<1>2. WriteDoes(design, st, n, m, w)
  <2> HIDE DEF n, m, l
  <2> QED BY <1>1, WriteType
<1> HIDE DEF w
<1>3. BitsOf(sto[x.net], d, x) = BitsOf(st[x.net], d, x)
  <2>1. CASE x.net # n
    BY <1>1, <1>2, <2>1 DEF WriteDoes
  <2>2. CASE x.net = n
    <3> DEFINE N == d.size
               up == d.up
               xs == Span(N, up, x.sel.ms, x.sel.ls)
               ys == Span(N, up, m, l)
    <3>1. /\ x.sel.at = "part" /\ y.sel.at = "part" /\ m = y.sel.ms /\ l = y.sel.ls
          /\ xs.last < ys.first \/ ys.last < xs.first
      BY <2>2 DEF NoOverlap, Lands
    <3>2. /\ x.sel.ms \in Nat /\ x.sel.ls \in Nat /\ Inside(d, x.sel.ms, x.sel.ls)
          /\ m \in Nat /\ l \in Nat /\ Inside(d, m, l)
      BY <1>1, <2>2, <3>1 DEF NameFits
    <3>3. Fixed(y) /\ BoundsOf(y).m = m /\ BoundsOf(y).l = l
      BY <1>1, <2>2, <3>1 DEF Fixed, BoundsOf
    <3>4. HitsElement(Decl[n], m, l)
      <4> HIDE DEF m, l, n, d
      <4> QED BY <3>3, FixedRead DEF n
    <3>5. ElementWritten(Decl[n], st[n], sto[n], Slice(num, ms, ls), m, l)
      <4> HIDE DEF n, m, l, d
      <4> QED BY <1>1, <3>4, WriteSeen DEF w
    <3>6. N \in Nat \ {0} /\ up \in BOOLEAN
      BY <1>1, DesignNets, SizeType
    <3>7. st[n][0] \in [1 .. N -> Logic] /\ sto[n][0] \in [1 .. N -> Logic]
      <4>1. StoreTyped(Decl, st) /\ StoreTyped(Decl, sto)
        BY <1>1, <1>2, StoreIsTyped DEF WriteDoes
      <4> QED BY <4>1, <1>1, <2>2 DEF StoreTyped
    <3>8. \A i \in 1 .. N : i - 1 < ys.first \/ i - 1 > ys.last => sto[n][0][i] = st[n][0][i]
      <4>1. m # None
        BY <3>2 DEF None
      <4> QED BY <1>1, <2>2, <3>5, <4>1 DEF ElementWritten, Around
    <3> DEFINE first == xs.first
               last == xs.last
               b == st[n][0]
               c == sto[n][0]
    <3>9. xs = [first |-> first, last |-> last]
      BY DEF Span
    <3>10. /\ first \in Int /\ last \in Int /\ 0 <= first /\ first <= last /\ last < N
           /\ ys.first \in Int /\ ys.last \in Int
           /\ last < ys.first \/ ys.last < first
      <4>1. first \in Int /\ last \in Int /\ ys.first \in Int /\ ys.last \in Int
        <5> DEFINE xm == x.sel.ms
                   xl == x.sel.ls
        <5>1. xm \in Int /\ xl \in Int /\ m \in Int /\ l \in Int /\ N \in Nat /\ up \in BOOLEAN
          BY <3>2, <3>6
        <5> HIDE DEF xm, xl, m, l, N, up
        <5>2. Span(N, up, xm, xl).first \in Int /\ Span(N, up, xm, xl).last \in Int
          BY <5>1, SpanType
        <5>3. Span(N, up, m, l).first \in Int /\ Span(N, up, m, l).last \in Int
          BY <5>1, SpanType
        <5> QED BY <5>2, <5>3 DEF xm, xl
      <4> QED BY <3>1, <3>2, <4>1 DEF Inside
    <3> DEFINE yf == ys.first
               yl == ys.last
    <3> HIDE DEF xs, ys, N, first, last, b, c, yf, yl
    <3>11. \A i \in 1 .. N : first < i /\ i <= last + 1 => b[i] = c[i]
      <4> SUFFICES ASSUME NEW i \in 1 .. N, first < i, i <= last + 1 PROVE b[i] = c[i]
        OBVIOUS
      <4>1. i - 1 < yf \/ i - 1 > yl
        BY <3>6, <3>10 DEF yf, yl
      <4> QED BY <3>8, <4>1 DEF b, c, yf, yl
    <3>12. PartOf(b, xs, N) = PartOf(c, xs, N)
      <4>1. N \in Nat /\ b \in [1 .. N -> Logic] /\ c \in [1 .. N -> Logic] /\ first \in Nat
        BY <3>6, <3>7, <3>10 DEF b, c
      <4> QED BY <3>9, <3>10, <3>11, <4>1, PartSame
    <3> QED BY <2>2, <3>1, <3>12 DEF BitsOf, xs, N, b, c
  <2> QED BY <2>1, <2>2
<1>4. /\ Read(Decl, sto, x) = Fit(BitsOf(sto[x.net], d, x), WidthOf(Decl, x))
      /\ Read(Decl, st, x) = Fit(BitsOf(st[x.net], d, x), WidthOf(Decl, x))
  <2> HIDE DEF d, sto
  <2> QED BY FixedRead DEF d
<1> HIDE DEF sto, d
<1>5. Read(Decl, sto, x) = Read(Decl, st, x)
  BY <1>3, <1>4
<1> QED BY <1>5 DEF sto, w

\* What is written to an element that does not move is what it is read as.
LEMMA FixedWritten ==
  ASSUME DesignFits(design), NEW st, StoreFits(design, st), NEW x, Fixed(x), NEW v \in Seq(Logic),
         NEW sto, StoreFits(design, sto),
         sto[x.net] = Write(Decl, st, x.net, v, None, None, BoundsOf(x).m, BoundsOf(x).l).st[x.net]
  PROVE  Read(Decl, sto, x) = Fit(v, WidthOf(Decl, x))
<1> DEFINE n == x.net
           t == BoundsOf(x)
           w == Write(Decl, st, n, v, None, None, t.m, t.l)
<1>1. NameFits(Decl, x) /\ ~Inward(Decl[n]) /\ n \in DOMAIN Decl /\ Decl = design.nets
  BY DEF Fixed, NameFits, Decl
<1>2. /\ Lands(x.sel, t) /\ HitsElement(Decl[n], t.m, t.l)
      /\ ElementWidth(Decl, x) = WidthOf(Decl, x)
      /\ Read(Decl, sto, x) = Fit(Evaluated(Decl, sto, n, t.m, t.l), WidthOf(Decl, x))
  <2> HIDE DEF t, n
  <2> QED BY FixedRead DEF t, n
<1>3. SliceFits(v, None, None) /\ Slice(v, None, None) = v
  BY DEF SliceFits, Slice
<1>4. ElementWritten(Decl[n], st[n], w.st[n], v, t.m, t.l)
  <2> HIDE DEF t, n
  <2>1. ElementWritten(Decl[n], st[n], Write(Decl, st, n, v, None, None, t.m, t.l).st[n],
                       Slice(v, None, None), t.m, t.l)
    BY <1>1, <1>2, <1>3, WriteSeen
  <2> QED BY <1>3, <2>1
<1>5. ElementWritten(Decl[n], st[n], sto[n], v, t.m, t.l)
  BY <1>4
<1>6. Fit(Evaluated(Decl, sto, n, t.m, t.l), ElementWidth(Decl, x)) = Fit(v, ElementWidth(Decl, x))
  <2> HIDE DEF t
  <2> QED BY <1>1, <1>2, <1>5, ReadBack
<1> HIDE DEF t, n
<1> QED BY <1>2, <1>6

\* The ports that lead outside, and what they lead to.
PortsOut == {n \in DOMAIN Decl : Outward(Decl[n])}
Outer(n) == OutsideOf(Decl[n])

\* No port leads to a bit of y.
ClearOfPorts(y) == \A n \in PortsOut : NoOverlap(Decl, Outer(n), y)

\* An element that no port leads to.
Wire(x) ==
  /\ Fixed(x) /\ x.net \notin design.locals
  /\ \A n \in PortsOut : NoOverlap(Decl, x, Outer(n))

\* Port n has reached the net outside.
Ported(st, n) ==
  st[n] # design.init[n] =>
    Read(Decl, st, Outer(n)) = Fit(Whole(st, n), WidthOf(Decl, Outer(n)))

AllPorted(st) == \A n \in PortsOut : Ported(st, n)

\* What a port leads to, nothing else writes.
OuterIs(n) ==
  /\ Fixed(Outer(n)) /\ NameFits(Decl, Outer(n)) /\ Outer(n).net = Decl[n].port
  /\ Decl[n].port \in DOMAIN Decl /\ Decl[n].port \notin design.locals
  /\ n \notin design.locals /\ ~IsMemory(Decl[n]) /\ n \in DOMAIN Decl
  /\ BoundsOf(Outer(n)).m = Decl[n].pms /\ BoundsOf(Outer(n)).l = Decl[n].pls
  /\ Decl[n].pms \in Int /\ Decl[n].pls \in Int
  /\ \A m \in PortsOut \ {n} : NoOverlap(Decl, Outer(n), Outer(m))
  /\ \A p \in BodyStatements(design) \cup design.moves : \A y \in Aims(p) :
       NoOverlap(Decl, Outer(n), y)

\* So it is in a design whose bits have one driver each.
LEMMA PortLeads ==
  ASSUME DesignFits(design), WellConnected(design), NEW n \in PortsOut
  PROVE  OuterIs(n)
<1> DEFINE x == Outer(n)
           d == Decl[n]
<1>1. n \in DOMAIN Decl /\ Outward(d) /\ Decl = design.nets
  BY DEF PortsOut, Decl
<1>2. n \notin design.locals /\ Exclusive(design, x, {}, {n})
  BY <1>1 DEF WellConnected, Outer
<1>3. /\ NameFits(Decl, x) /\ x.sel.at # "bit" /\ x.net \notin design.locals
      /\ ~IsMemory(Decl[x.net]) /\ ~Inward(Decl[x.net])
      /\ \A p \in BodyStatements(design) \cup design.moves : \A y \in Aims(p) : NoOverlap(Decl, x, y)
      /\ \A m \in DOMAIN Decl \ {n} : Outward(Decl[m]) => NoOverlap(Decl, x, OutsideOf(Decl[m]))
  BY <1>1, <1>2 DEF Exclusive
<1>4. NetFits(Decl, n) /\ d.port # NoNet
  BY <1>1 DEF DesignFits, Outward
<1>5. /\ ~IsMemory(d) /\ d.port \in DOMAIN Decl
      /\ IF d.pms = None THEN d.pls = None ELSE d.pms \in Nat /\ d.pls \in Nat
  BY <1>4 DEF NetFits
<1>6. x.net = d.port
  BY DEF Outer, OutsideOf
<1>7. BoundsOf(x).m = d.pms /\ BoundsOf(x).l = d.pls
  <2>1. CASE d.pms = None
    <3>1. x.sel.at = "none"
      BY <2>1 DEF Outer, OutsideOf
    <3> QED BY <1>5, <2>1, <3>1 DEF BoundsOf
  <2>2. CASE d.pms # None
    <3>1. x.sel = [at |-> "part", ms |-> d.pms, ls |-> d.pls]
      BY <2>2 DEF Outer, OutsideOf
    <3> QED BY <3>1 DEF BoundsOf
  <2> QED BY <2>1, <2>2
<1>8. d.pms \in Int /\ d.pls \in Int
  BY <1>5 DEF None
<1>9. Fixed(x)
  BY <1>3 DEF Fixed
<1>10. \A m \in PortsOut \ {n} : NoOverlap(Decl, x, Outer(m))
  BY <1>3 DEF PortsOut, Outer
<1> HIDE DEF x, d
<1> QED BY <1>1, <1>2, <1>3, <1>5, <1>6, <1>7, <1>8, <1>9, <1>10 DEF OuterIs, x, d

\* A net that changes passes on what it has.
Truthful(p) == p.changed /\ ~IsMemory(Decl[p.net]) => p.after = Whole(p.st, p.net)

\* What is written to a net is there.
LEMMA WriteTrue ==
  ASSUME DesignFits(design), NEW st, StoreFits(design, st), NEW n \in DOMAIN Decl,
         NEW num, NEW ms, NEW ls, NEW m, NEW l
  PROVE  Truthful(Write(Decl, st, n, num, ms, ls, m, l))
<1> DEFINE d == Decl[n]
           w == Write(Decl, st, n, num, ms, ls, m, l)
<1> SUFFICES ASSUME ~IsMemory(d) PROVE w.after = Whole(w.st, n)
  BY DEF Truthful, Write
<1>1. n \in DOMAIN st /\ 0 \in DOMAIN st[n]
  <2>1. StoreTyped(Decl, st)
    BY StoreIsTyped DEF Decl
  <2>2. DOMAIN st = DOMAIN Decl
    BY DEF StoreFits, Decl
  <2> QED BY <2>1, <2>2 DEF StoreTyped
<1>2. w.st = [st EXCEPT ![n][0] = w.after]
  BY DEF Write
<1> HIDE DEF w, d
<1> QED BY <1>1, <1>2 DEF Whole

\* A net that changed and leads outside reaches what it leads to, and nobody
\* else is touched.
Passed(p, q) ==
  /\ q \in Climbs(design) /\ q.net = Decl[p.net].port /\ Truthful(q)
  /\ Ported(q.st, p.net)
  /\ ~q.changed => q.st = p.st
  /\ \A o \in DOMAIN Decl : o # q.net => q.st[o] = p.st[o]
  /\ \A x : Fixed(x) /\ NoOverlap(Decl, x, Outer(p.net)) => Read(Decl, q.st, x) = Read(Decl, p.st, x)

\* Stores with the same words are the same.
LEMMA StoresSame ==
  ASSUME NEW g, NEW st, NEW sto, StoreFits(g, st), StoreFits(g, sto),
         \A n \in DOMAIN g.nets : st[n] = sto[n]
  PROVE  st = sto
<1>1. st = [n \in DOMAIN g.nets |-> st[n]] /\ sto = [n \in DOMAIN g.nets |-> sto[n]]
  BY DEF StoreFits
<1>2. [n \in DOMAIN g.nets |-> st[n]] = [n \in DOMAIN g.nets |-> sto[n]]
  OBVIOUS
<1> QED BY <1>1, <1>2, Zenon

\* So it is with every step of the way outwards.
LEMMA PortPasses ==
  ASSUME DesignFits(design), WellConnected(design), NEW p \in Climbs(design),
         p.changed, p.net \in PortsOut, Truthful(p)
  PROVE  Passed(p, ClimbStep(design, p))
<1> DEFINE q == ClimbStep(design, p)
           n == p.net
           d == Decl[n]
           y == Outer(n)
           t == BoundsOf(y)
<1>1. Decl = design.nets /\ n \in DOMAIN Decl /\ Outward(d)
  BY DEF Decl, PortsOut
<1>2. OuterIs(n)
  BY PortLeads
<1>3. q = Write(Decl, p.st, d.port, p.after, None, None, d.pms, d.pls)
  BY <1>1 DEF ClimbStep
<1>4. q \in Climbs(design) /\ WriteDoes(design, p.st, d.port, d.pms, q)
  BY <1>1, ClimbStepType
<1>5. StoreFits(design, p.st) /\ StoreFits(design, q.st) /\ p.after \in Seq(Logic)
  BY <1>4, StoresFit DEF Climbs
<1>6. d.port # n
  <2>1. PICK level \in [DOMAIN Decl -> Levels(Decl)] :
          \A o \in DOMAIN Decl : Decl[o].port # NoNet => level[Decl[o].port] < level[o]
    BY <1>1 DEF DesignFits, Outwards
  <2>2. level[d.port] < level[n]
    BY <1>1, <2>1 DEF Outward
  <2>3. level[n] \in Int
    BY <1>1, <2>1 DEF Levels
  <2> QED BY <2>2, <2>3
<1>7. /\ Fixed(y) /\ y.net = d.port /\ NameFits(Decl, y) /\ t.m = d.pms /\ t.l = d.pls
      /\ d.port \in DOMAIN Decl /\ ~IsMemory(d)
  BY <1>2 DEF OuterIs
<1> HIDE DEF q, n, d, y, t
<1>8. Truthful(q)
  BY <1>3, <1>5, <1>7, WriteTrue
<1>9. \A o \in DOMAIN Decl : o # q.net => q.st[o] = p.st[o]
  BY <1>1, <1>4 DEF WriteDoes
<1>10. q.net = d.port /\ (~q.changed => q.st = p.st)
  <2>1. q.net = d.port
    BY <1>4 DEF WriteDoes
  <2>2. ASSUME ~q.changed PROVE q.st = p.st
    <3>1. \A o \in DOMAIN design.nets : q.st[o] = p.st[o]
      BY <1>1, <1>4, <2>2 DEF WriteDoes
    <3> QED BY <1>5, <3>1, StoresSame
  <2> QED BY <2>1, <2>2
<1>11. Lands(y.sel, t)
  BY <1>7, FixedRead DEF t
<1>12. q.st = Write(Decl, p.st, y.net, p.after, None, None, t.m, t.l).st
  BY <1>3, <1>7
<1>13. ASSUME NEW x, Fixed(x), NoOverlap(Decl, x, y) PROVE Read(Decl, q.st, x) = Read(Decl, p.st, x)
  <2>1. SliceFits(p.after, None, None)
    BY DEF SliceFits
  <2> QED BY <1>5, <1>7, <1>11, <1>12, <1>13, <2>1, Spared
<1>14. Ported(q.st, n)
  <2>1. q.st[y.net] = Write(Decl, p.st, y.net, p.after, None, None, BoundsOf(y).m, BoundsOf(y).l).st[y.net]
    BY <1>12 DEF t
  <2>2. Read(Decl, q.st, y) = Fit(p.after, WidthOf(Decl, y))
    BY <1>5, <1>7, <2>1, FixedWritten
  <2>3. p.after = Whole(p.st, n)
    BY <1>7 DEF Truthful, n, d
  <2>4. Whole(q.st, n) = Whole(p.st, n)
    BY <1>1, <1>6, <1>9, <1>10 DEF Whole
  <2> QED BY <2>2, <2>3, <2>4 DEF Ported, y
<1>15. \A x : Fixed(x) /\ NoOverlap(Decl, x, y) => Read(Decl, q.st, x) = Read(Decl, p.st, x)
  BY <1>13
<1> QED BY <1>4, <1>8, <1>9, <1>10, <1>14, <1>15 DEF Passed, q, n, d, y

\* The way outwards of an assignment to y, so far: but for the net it is at,
\* every port has reached the net outside.
OnTheWay(st, y, level, up, k) ==
  /\ Truthful(up[k])
  /\ \A n \in PortsOut : Ported(up[k].st, n) \/ (up[k].changed /\ up[k].net = n)
  /\ \A x : Wire(x) /\ NoOverlap(Decl, x, y) => Read(Decl, up[k].st, x) = Read(Decl, st, x)
  /\ up[k].changed => level[up[k].net] + k <= level[y.net]

\* It starts so.
LEMMA WayStarts ==
  ASSUME DesignFits(design), WellConnected(design), NEW st, StoreFits(design, st), AllPorted(st),
         NEW y, NameFits(Decl, y), ClearOfPorts(y), NEW t, Lands(y.sel, t),
         NEW num \in Seq(Logic), NEW ms, NEW ls, SliceFits(num, ms, ls),
         NEW level \in [DOMAIN Decl -> Levels(Decl)], NEW up,
         up[0] = Write(Decl, st, y.net, num, ms, ls, t.m, t.l)
  PROVE  OnTheWay(st, y, level, up, 0)
<1> DEFINE w == Write(Decl, st, y.net, num, ms, ls, t.m, t.l)
<1>1. Decl = design.nets /\ y.net \in DOMAIN Decl /\ t.m \in Int /\ t.l \in Int
  BY DEF Decl, NameFits, Lands
<1>2. WriteDoes(design, st, y.net, t.m, w)
  <2> DEFINE n == y.net
             m == t.m
             l == t.l
  <2>1. n \in DOMAIN design.nets /\ m \in Int /\ l \in Int
    BY <1>1
  <2> HIDE DEF n, m, l
  <2>2. WriteDoes(design, st, n, m, Write(design.nets, st, n, num, ms, ls, m, l))
    BY <2>1, WriteType
  <2> QED BY <1>1, <2>2 DEF n, m, l
<1>3. Truthful(w)
  <2> DEFINE n == y.net
             m == t.m
             l == t.l
  <2>1. n \in DOMAIN Decl
    BY <1>1
  <2> HIDE DEF n, m, l
  <2>2. Truthful(Write(Decl, st, n, num, ms, ls, m, l))
    BY <2>1, WriteTrue
  <2> QED BY <2>2 DEF n, m, l
<1>4. \A x : Fixed(x) /\ NoOverlap(Decl, x, y) => Read(Decl, w.st, x) = Read(Decl, st, x)
  BY Spared
<1> HIDE DEF w
<1>5. ASSUME NEW n \in PortsOut PROVE Ported(w.st, n) \/ (w.changed /\ w.net = n)
  <2>1. OuterIs(n) /\ Ported(st, n)
    BY PortLeads DEF AllPorted
  <2>2. Read(Decl, w.st, Outer(n)) = Read(Decl, st, Outer(n)) /\ n \in DOMAIN Decl
    BY <1>4, <2>1 DEF ClearOfPorts, OuterIs
  <2>3. CASE w.st[n] = st[n]
    BY <2>1, <2>2, <2>3 DEF Ported, Whole
  <2>4. CASE w.st[n] # st[n]
    BY <1>1, <1>2, <2>2, <2>4 DEF WriteDoes
  <2> QED BY <2>3, <2>4
<1>6. level[w.net] + 0 <= level[y.net]
  <2>1. w.net = y.net
    BY <1>2 DEF WriteDoes
  <2>2. level[y.net] \in Int
    BY <1>1 DEF Levels
  <2> QED BY <2>1, <2>2
<1>7. up[0] = w
  BY DEF w
<1> QED BY <1>3, <1>4, <1>5, <1>6, <1>7 DEF OnTheWay, Wire

\* Every step keeps it.
LEMMA WayGoesOn ==
  ASSUME DesignFits(design), WellConnected(design), NEW st, NEW y, NameFits(Decl, y),
         NEW level \in [DOMAIN Decl -> Levels(Decl)],
         \A o \in DOMAIN Decl : Decl[o].port # NoNet => level[Decl[o].port] < level[o],
         NEW top \in Nat, NEW up \in [0 .. top -> Climbs(design)], NEW k \in 1 .. top,
         up[k] = ClimbStep(design, up[k - 1]), OnTheWay(st, y, level, up, k - 1)
  PROVE  OnTheWay(st, y, level, up, k)
<1> DEFINE p == up[k - 1]
           q == up[k]
<1>1. /\ p \in Climbs(design) /\ q \in Climbs(design) /\ q = ClimbStep(design, p)
      /\ Decl = design.nets
  BY DEF Decl
<1>2. /\ Truthful(p) /\ \A n \in PortsOut : Ported(p.st, n) \/ (p.changed /\ p.net = n)
      /\ \A x : Wire(x) /\ NoOverlap(Decl, x, y) => Read(Decl, p.st, x) = Read(Decl, st, x)
      /\ p.changed => level[p.net] + (k - 1) <= level[y.net]
  BY DEF OnTheWay
<1>3. p.net \in DOMAIN Decl /\ q.net \in DOMAIN Decl
  BY <1>1 DEF Climbs
<1> HIDE DEF p, q
<1>4. CASE p.changed /\ p.net \in PortsOut
  <2>1. Passed(p, q)
    BY <1>1, <1>2, <1>4, PortPasses
  <2>2. OuterIs(p.net)
    BY <1>4, PortLeads
  <2>3. ASSUME NEW n \in PortsOut PROVE Ported(q.st, n) \/ (q.changed /\ q.net = n)
    <3>1. CASE n = p.net
      BY <2>1, <3>1 DEF Passed
    <3>2. CASE n # p.net
      <4>1. Ported(p.st, n)
        BY <1>2, <3>2
      <4>2. Read(Decl, q.st, Outer(n)) = Read(Decl, p.st, Outer(n)) /\ n \in DOMAIN Decl
        <5>1. OuterIs(n)
          BY PortLeads
        <5> QED BY <1>4, <2>1, <3>2, <5>1 DEF OuterIs, Passed
      <4>3. CASE q.net # n
        BY <2>1, <4>1, <4>2, <4>3 DEF Passed, Ported, Whole
      <4>4. CASE q.net = n
        BY <2>1, <4>1, <4>4 DEF Passed
      <4> QED BY <4>3, <4>4
    <3> QED BY <3>1, <3>2
  <2>4. \A x : Wire(x) /\ NoOverlap(Decl, x, y) => Read(Decl, q.st, x) = Read(Decl, st, x)
    BY <1>2, <1>4, <2>1 DEF Passed, Wire
  <2>5. level[q.net] + k <= level[y.net]
    <3>1. level[q.net] < level[p.net]
      BY <1>3, <1>4, <2>1 DEF Passed, PortsOut, Outward
    <3>2. level[q.net] \in Int /\ level[p.net] \in Int /\ level[y.net] \in Int
      BY <1>3 DEF Levels, NameFits
    <3> QED BY <1>2, <1>4, <3>1, <3>2
  <2> QED BY <2>1, <2>3, <2>4, <2>5 DEF OnTheWay, Passed, q
<1>5. CASE ~(p.changed /\ p.net \in PortsOut)
  <2>1. ~(p.changed /\ Outward(design.nets[p.net]))
    BY <1>1, <1>3, <1>5 DEF PortsOut
  <2>2. ~q.changed /\ q.st = p.st
    BY <1>1, <2>1, ClimbStepType
  <2>3. \A n \in PortsOut : Ported(q.st, n)
    BY <1>2, <1>5, <2>2
  <2>4. Truthful(q)
    BY <2>2 DEF Truthful
  <2> QED BY <1>2, <2>2, <2>3, <2>4 DEF OnTheWay, q
<1> QED BY <1>4, <1>5

\* A whole assignment keeps the ports connected, and does not touch what it
\* does not aim at.
LEMMA ClimbPlacid ==
  ASSUME DesignFits(design), WellConnected(design), NEW st, StoreFits(design, st), AllPorted(st),
         NEW y, NameFits(Decl, y), ClearOfPorts(y), NEW t, Lands(y.sel, t),
         NEW num \in Seq(Logic), NEW ms, NEW ls, SliceFits(num, ms, ls),
         NEW sto, sto = Climb(Decl, st, y.net, num, ms, ls, t.m, t.l)[Cardinality(DOMAIN Decl)].st
  PROVE  /\ AllPorted(sto)
         /\ \A x : Wire(x) /\ NoOverlap(Decl, x, y) => Read(Decl, sto, x) = Read(Decl, st, x)
<1> DEFINE top == Cardinality(DOMAIN Decl)
           up == Climb(Decl, st, y.net, num, ms, ls, t.m, t.l)
<1>1. top \in Nat /\ Levels(Decl) = 0 .. top
  <2>1. NetsFit1(Decl)
    BY DesignNets DEF Decl
  <2> QED BY <2>1, LevelsType
<1>2. /\ up \in [0 .. top -> Climbs(design)]
      /\ up[0] = Write(Decl, st, y.net, num, ms, ls, t.m, t.l)
      /\ \A k \in 1 .. top : up[k] = ClimbStep(design, up[k - 1])
  <2> DEFINE n == y.net
             m == t.m
             l == t.l
  <2>1. n \in DOMAIN design.nets /\ m \in Int /\ l \in Int /\ Decl = design.nets
    BY DEF NameFits, Lands, Decl
  <2> HIDE DEF n, m, l
  <2>2. LET cl == Climb(design.nets, st, n, num, ms, ls, m, l)
            tp == Cardinality(DOMAIN design.nets)
        IN  /\ cl \in [0 .. tp -> Climbs(design)]
            /\ cl[0] = Write(design.nets, st, n, num, ms, ls, m, l)
            /\ \A k \in 1 .. tp : cl[k] = ClimbStep(design, cl[k - 1])
    BY <2>1, ClimbSteps
  <2> QED BY <2>1, <2>2 DEF n, m, l
<1>3. PICK level \in [DOMAIN Decl -> Levels(Decl)] :
        \A o \in DOMAIN Decl : Decl[o].port # NoNet => level[Decl[o].port] < level[o]
  BY DEF DesignFits, Outwards, Decl
<1>4. sto = up[top].st
  OBVIOUS
<1> HIDE DEF top, up
<1> DEFINE T == {k \in 0 .. top : OnTheWay(st, y, level, up, k)}
<1>5. 0 \in T
  <2>1. OnTheWay(st, y, level, up, 0)
    BY <1>2, WayStarts
  <2> QED BY <1>1, <2>1
<1>6. ASSUME NEW k \in 1 .. top, k - 1 \in T PROVE k \in T
  <2>1. OnTheWay(st, y, level, up, k - 1) /\ up[k] = ClimbStep(design, up[k - 1]) /\ k \in 0 .. top
    BY <1>1, <1>2, <1>6
  <2> HIDE DEF T
  <2>2. OnTheWay(st, y, level, up, k)
    BY <1>1, <1>2, <1>3, <2>1, WayGoesOn
  <2> QED BY <2>1, <2>2 DEF T
<1>7. OnTheWay(st, y, level, up, top)
  <2> HIDE DEF T
  <2>1. \A k \in 0 .. top : k \in T
    BY <1>1, <1>5, <1>6, InductUpTo
  <2>2. top \in T
    BY <1>1, <2>1
  <2> QED BY <2>2 DEF T
<1> HIDE DEF T
<1>8. ~(up[top].changed /\ up[top].net \in PortsOut)
  <2> SUFFICES ASSUME up[top].changed, up[top].net \in PortsOut PROVE FALSE
    OBVIOUS
  <2> DEFINE n == up[top].net
  <2>1. n \in DOMAIN Decl /\ Decl[n].port # NoNet /\ Decl[n].port \in DOMAIN Decl
    <3>1. OuterIs(n)
      BY PortLeads
    <3> QED BY <3>1 DEF OuterIs, PortsOut, Outward
  <2>2. level[Decl[n].port] < level[n] /\ level[n] + top <= level[y.net]
    BY <1>3, <1>7, <2>1 DEF OnTheWay
  <2>3. level[Decl[n].port] \in 0 .. top /\ level[n] \in 0 .. top /\ level[y.net] \in 0 .. top
    BY <1>1, <1>3, <2>1 DEF NameFits
  <2> HIDE DEF n
  <2> QED BY <1>1, <2>2, <2>3
<1>9. AllPorted(up[top].st)
  BY <1>7, <1>8 DEF OnTheWay, AllPorted
<1> QED BY <1>4, <1>7, <1>9 DEF OnTheWay

\* From s to a the ports stay connected, elements that Y has no bit of and no
\* port leads to keep their bits, and nobody leaves the queue.
Placid(s, a, Y) ==
  /\ AllPorted(a.st)
  /\ \A x : Wire(x) /\ (\A y \in Y : NoOverlap(Decl, x, y)) => Read(Decl, a.st, x) = Read(Decl, s.st, x)
  /\ \A c \in Listeners : s.queued[c] => a.queued[c]

\* One assignment does so.
LEMMA AssignmentPlacid ==
  ASSUME DesignFits(design), WellConnected(design), NEW s, Typed(s), AllPorted(s.st),
         NEW y, NameFits(Decl, y), ClearOfPorts(y), NEW num \in Seq(Logic),
         NEW slice, SliceFits(num, slice.ms, slice.ls), NEW target, Lands(y.sel, target)
  PROVE  Placid(s, Assignment(s, y.net, num, slice, target), {y})
<1> DEFINE top == Cardinality(DOMAIN Decl)
           n == y.net
           up == Climb(Decl, s.st, n, num, slice.ms, slice.ls, target.m, target.l)
           c == Climbed(s, up)
           a == AllTold(s, up)
           sto == up[top].st
<1>1. StoreFits(design, s.st) /\ n \in DOMAIN Decl /\ target.m \in Int /\ target.l \in Int
  BY DEF Typed, NetsFit, NameFits, Lands
<1>2. Assignment(s, n, num, slice, target) = a
  BY DEF Assignment
<1>3. Assigns(s, a)
  <2> HIDE DEF a, n
  <2>1. Assigns(s, Assignment(s, n, num, slice, target))
    BY <1>1, AssignmentDoes
  <2> QED BY <1>2, <2>1
<1>4. /\ top \in Nat /\ up \in [0 .. top -> Climbs(design)]
      /\ StoreFits(design, up[top].st)
  <2> DEFINE g == design
             st == s.st
             ms == slice.ms
             ls == slice.ls
             m == target.m
             l == target.l
  <2>1. DesignFits(g) /\ StoreFits(g, st) /\ n \in DOMAIN g.nets /\ SliceFits(num, ms, ls)
        /\ m \in Int /\ l \in Int
    BY <1>1 DEF Decl
  <2> HIDE DEF g, st, ms, ls, m, l, n
  <2>2. Climbing(g, st, n, Climb(g.nets, st, n, num, ms, ls, m, l),
                 Write(g.nets, st, n, num, ms, ls, m, l))
    BY <2>1, ClimbDoes
  <2> QED BY <2>2 DEF g, st, ms, ls, m, l, n, Decl, Climbing
<1>5. /\ AllPorted(sto)
      /\ \A x : Wire(x) /\ NoOverlap(Decl, x, y) => Read(Decl, sto, x) = Read(Decl, s.st, x)
  <2> DEFINE st == s.st
             ms == slice.ms
             ls == slice.ls
  <2>1. StoreFits(design, st) /\ AllPorted(st) /\ SliceFits(num, ms, ls)
        /\ sto = Climb(Decl, st, y.net, num, ms, ls, target.m, target.l)[Cardinality(DOMAIN Decl)].st
    BY <1>1
  <2> HIDE DEF st, ms, ls, sto
  <2>2. /\ AllPorted(sto)
        /\ \A x : Wire(x) /\ NoOverlap(Decl, x, y) => Read(Decl, sto, x) = Read(Decl, st, x)
    BY <2>1, ClimbPlacid
  <2> QED BY <2>2 DEF st
<1>6. a.st = sto
  <2>1. top = Cardinality(DOMAIN Decl)
    OBVIOUS
  <2> HIDE DEF top, up
  <2>2. Typed(c) /\ c.st = up[top].st
    BY <1>4, <2>1, ClimbedType
  <2>3. c = Climbed(s, up)
    OBVIOUS
  <2> HIDE DEF c, a
  <2>4. Telling(c, AllTold(s, up), ListeningTo(Changes(up, top)))
    BY <1>4, <2>1, <2>2, <2>3, AllToldDoes
  <2> QED BY <2>2, <2>4 DEF Telling, TellSet, a
<1> HIDE DEF a, sto
<1> QED BY <1>2, <1>3, <1>5, <1>6 DEF Placid, Assigns

\* One after the other do.
LEMMA PlacidMore ==
  ASSUME NEW s, NEW b, NEW a, NEW Y, NEW y \in Y, Placid(s, b, Y), Placid(b, a, {y})
  PROVE  Placid(s, a, Y)
BY DEF Placid

\* The elements of a left hand side.
ElementsOf(lval) == {lval[i] : i \in DOMAIN lval}

\* A whole left hand side does.
LEMMA IntoPlacid ==
  ASSUME DesignFits(design), WellConnected(design), NEW s, Typed(s), AllPorted(s.st),
         NEW num \in Seq(Logic), NEW lval, LvalFits(Decl, lval, Len(num)),
         \A y \in ElementsOf(lval) : ClearOfPorts(y),
         NEW targets, TargetsFit(lval, targets),
         targets = <<>> \/ \A i \in DOMAIN lval : Lands(lval[i].sel, targets[i])
  PROVE  Placid(s, Into(s, lval, num, targets), ElementsOf(lval))
<1> DEFINE L == Len(lval)
           a == Into(s, lval, num, targets)
           Y == ElementsOf(lval)
<1>1. L \in Nat \ {0} /\ DOMAIN lval = 1 .. L
  BY DEF LvalFits
<1>2. PICK into \in [0 .. L -> KeepStates(s)] :
           /\ into[0] = s
           /\ \A i \in 1 .. L : into[i] = IntoElement(lval, num, targets, i, into[i - 1])
           /\ a = into[L]
  BY IntoSteps
<1> HIDE DEF a
<1> DEFINE T == {k \in 0 .. L : Placid(s, into[k], Y)}
<1>3. 0 \in T
  <2>1. Placid(s, s, Y)
    BY DEF Placid
  <2> QED BY <1>1, <1>2, <2>1
<1>4. ASSUME NEW k \in 1 .. L, k - 1 \in T PROVE k \in T
  <2> DEFINE b == into[k - 1]
             c == into[k]
             y == lval[k]
             slice == Elements(Decl, lval)[k]
             target == IF targets = <<>> THEN Target(b, y) ELSE targets[k]
  <2>1. k - 1 \in 0 .. L /\ k \in 0 .. L /\ Placid(s, b, Y) /\ k \in DOMAIN lval
    BY <1>1, <1>4
  <2>2. b \in KeepStates(s) /\ c = IntoElement(lval, num, targets, k, b)
    BY <1>1, <1>2, <2>1
  <2> HIDE DEF b, c, T
  <2>3. Typed(b)
    BY <2>2, KeepStatesAre DEF Keeps
  <2>4. AllPorted(b.st) /\ NameFits(Decl, y) /\ ClearOfPorts(y) /\ y \in Y
    BY <2>1 DEF Placid, LvalFits, ElementsOf
  <2>5. Lands(y.sel, target)
    <3>1. Lands(y.sel, Target(b, y))
      <4> HIDE DEF y
      <4> QED BY <2>3, <2>4, TargetLands
    <3> QED BY <2>1, <3>1
  <2>6. SliceFits(num, slice.ms, slice.ls)
    BY <2>1, ElementFits
  <2>7. c = Assignment(b, y.net, num, slice, target)
    BY <2>2 DEF IntoElement
  <2> HIDE DEF y, slice, target, Y
  <2>8. Placid(b, c, {y})
    BY <2>3, <2>4, <2>5, <2>6, <2>7, AssignmentPlacid
  <2>9. Placid(s, c, Y)
    BY <2>1, <2>4, <2>8, PlacidMore
  <2> QED BY <2>1, <2>9 DEF T, c
<1>5. L \in T
  <2> HIDE DEF T, L
  <2>1. \A k \in 0 .. L : k \in T
    BY <1>1, <1>3, <1>4, InductUpTo
  <2> QED BY <1>1, <2>1
<1> QED BY <1>2, <1>5 DEF a

\* The statements of a design.
Statements == BodyStatements(design) \cup design.moves

\* What an update will write, a statement aimed at.
Meant(s) ==
  \A u \in Updates : s.pending[u] # Nothing =>
    /\ Aimed(s.pending[u])
    /\ \E q \in Statements : q.kind = "later" /\ q.lval = s.pending[u].lval

\* No statement aims at what a port leads to.
LEMMA AimsClear ==
  ASSUME DesignFits(design), WellConnected(design), NEW p \in Statements
  PROVE  /\ \A y \in Aims(p) : ClearOfPorts(y)
         /\ p.kind \in {"set", "later"} => Aims(p) = ElementsOf(p.lval)
         /\ p.kind = "exit" => Aims(p) = {p.lval[1]}
<1>1. \A y \in Aims(p) : ClearOfPorts(y)
  <2> SUFFICES ASSUME NEW y \in Aims(p), NEW n \in PortsOut PROVE NoOverlap(Decl, Outer(n), y)
    BY DEF ClearOfPorts
  <2>1. OuterIs(n)
    BY PortLeads
  <2> QED BY <2>1 DEF OuterIs, Statements
<1> QED BY <1>1 DEF Aims, ElementsOf

\* What happens to other nets does not matter.
LEMMA PlacidElsewhere ==
  ASSUME DesignFits(design), WellConnected(design), NEW s, AllPorted(s.st), NEW a, NEW X, NEW Y,
         \A n \in DOMAIN Decl \ X : a.st[n] = s.st[n],
         \A n \in PortsOut : n \notin X /\ Decl[n].port \notin X,
         \A x : Wire(x) => x.net \notin X,
         \A c \in Listeners : s.queued[c] => a.queued[c]
  PROVE  Placid(s, a, Y)
<1>1. ASSUME NEW x, Fixed(x), x.net \notin X PROVE Read(Decl, a.st, x) = Read(Decl, s.st, x)
  <2>1. x.net \in DOMAIN Decl
    BY <1>1 DEF Fixed, NameFits
  <2>2. a.st[x.net] = s.st[x.net]
    BY <1>1, <2>1
  <2>3. /\ Read(Decl, a.st, x) = Fit(BitsOf(a.st[x.net], Decl[x.net], x), WidthOf(Decl, x))
        /\ Read(Decl, s.st, x) = Fit(BitsOf(s.st[x.net], Decl[x.net], x), WidthOf(Decl, x))
    BY <1>1, FixedRead
  <2> QED BY <2>2, <2>3
<1>2. ASSUME NEW n \in PortsOut PROVE Ported(a.st, n)
  <2>1. OuterIs(n) /\ Ported(s.st, n)
    BY PortLeads DEF AllPorted
  <2>2. a.st[n] = s.st[n]
    BY DEF PortsOut
  <2>3. Read(Decl, a.st, Outer(n)) = Read(Decl, s.st, Outer(n))
    BY <1>1, <2>1 DEF OuterIs
  <2> QED BY <2>1, <2>2, <2>3 DEF Ported, Whole
<1> QED BY <1>1, <1>2 DEF Placid, AllPorted, Wire

\* Every statement keeps the ports connected and writes what it aims at only.
LEMMA ExecutedPlacid ==
  ASSUME DesignFits(design), WellConnected(design), NEW s, StateOK(s), AllPorted(s.st),
         NEW p \in Statements, StatementFits(design, p)
  PROVE  Placid(s, Executed(s, p), Aims(p))
<1> DEFINE a == Executed(s, p)
           Y == Aims(p)
<1>1. p.kind \in {"set", "later", "entry", "exit", "wait", "dumpall", "dumpon", "dumpoff", "dumpvars"}
      /\ Typed(s)
  BY DEF StatementFits, StateOK
<1>2. /\ \A y \in Y : ClearOfPorts(y)
      /\ p.kind \in {"set", "later"} => Y = ElementsOf(p.lval)
      /\ p.kind = "exit" => Y = {p.lval[1]}
  BY AimsClear
<1> HIDE DEF Y
<1>3. ASSUME NEW b, b.st = s.st, \A c \in Listeners : b.queued[c] = s.queued[c] PROVE Placid(s, b, Y)
  BY <1>3 DEF Placid
<1>4. CASE p.kind = "set"
  <2> DEFINE v == Value(Decl, s.st, p.rval)
  <2>1. ExprFits(Decl, p.rval) /\ LvalFits(Decl, p.lval, ExprWidth(Decl, p.rval))
    BY <1>4 DEF StatementFits, Decl
  <2>2. v \in Seq(Logic) /\ Len(v) = ExprWidth(Decl, p.rval)
    BY <1>1, <2>1, ValueSeq
  <2>3. a = s \/ a = Into(s, p.lval, v, <<>>)
    BY <1>4 DEF Executed, Blocking, BlockingValue, Store
  <2> HIDE DEF v, a
  <2>4. Placid(s, Into(s, p.lval, v, <<>>), ElementsOf(p.lval))
    BY <1>1, <1>2, <1>4, <2>1, <2>2, IntoPlacid DEF TargetsFit
  <2>5. Placid(s, a, Y)
    BY <1>2, <1>3, <1>4, <2>3, <2>4
  <2> QED BY <2>5 DEF a, Y
<1>5. CASE p.kind = "later"
  <2>1. a = Nonblocking(s, p)
    BY <1>5 DEF Executed
  <2> HIDE DEF a
  <2>2. Postponed(s, p, a)
    BY <1>5, <2>1, NonblockingDoes
  <2>3. Placid(s, a, Y)
    BY <1>3, <2>2 DEF Postponed
  <2> QED BY <2>3 DEF a, Y
<1>6. CASE p.kind = "entry"
  <2>1. a = Entry(s, p)
    BY <1>6 DEF Executed
  <2> HIDE DEF a
  <2>2. a.queued = s.queued /\ \A n \in DOMAIN Decl \ design.locals : s.st[n] = a.st[n]
    BY <1>6, <2>1, EntryDoes
  <2>3. \A n \in PortsOut : n \notin design.locals /\ Decl[n].port \notin design.locals
    BY PortLeads DEF OuterIs
  <2>4. \A x : Wire(x) => x.net \notin design.locals
    BY DEF Wire
  <2>5. Placid(s, a, Y)
    BY <2>2, <2>3, <2>4, PlacidElsewhere
  <2> QED BY <2>5 DEF a, Y
<1>7. CASE p.kind = "exit"
  <2> DEFINE x == p.lval[1]
             num == Whole(s.st, p.of)
             slice == [ms |-> None, ls |-> None]
             target == Target(s, x)
  <2>1. a = Assignment(s, x.net, num, slice, target)
    BY <1>7 DEF Executed, Exit
  <2>2. p.of \in DOMAIN Decl /\ ~IsMemory(Decl[p.of]) /\ NameFits(Decl, x)
    BY <1>7 DEF StatementFits, Decl
  <2>3. num \in Seq(Logic)
    <3>1. StoreTyped(Decl, s.st) /\ Decl[p.of].size \in Nat
      <4>1. StoreTyped(Decl, s.st)
        BY <1>1, StoreIsTyped DEF Typed, NetsFit, Decl
      <4>2. NetsFit1(Decl)
        BY DesignNets DEF Decl
      <4> QED BY <2>2, <4>1, <4>2, SizeType
    <3>2. num \in [1 .. Decl[p.of].size -> Logic]
      BY <2>2, <3>1 DEF StoreTyped, Whole
    <3> HIDE DEF num
    <3> QED BY <3>1, <3>2, BitsLen
  <2>4. SliceFits(num, slice.ms, slice.ls)
    BY DEF SliceFits
  <2>5. Lands(x.sel, target)
    <3> HIDE DEF x
    <3> QED BY <1>1, <2>2, TargetLands
  <2>6. ClearOfPorts(x)
    BY <1>2, <1>7
  <2> HIDE DEF a, x, num, slice, target
  <2>7. Placid(s, a, {x})
    BY <1>1, <2>1, <2>2, <2>3, <2>4, <2>5, <2>6, AssignmentPlacid
  <2> QED BY <1>2, <1>7, <2>7 DEF a, x, Y
<1>8. s = [st |-> s.st, changed |-> s.changed, prev |-> s.prev, active |-> s.active,
          pending |-> s.pending, queue |-> s.queue, queued |-> s.queued,
          on |-> s.on, dumped |-> s.dumped]
  BY <1>1, RecordOf
<1>9. CASE p.kind = "wait"
  <2>1. a = [s EXCEPT !.active[p.of] = TRUE]
    BY <1>9, Zenon DEF Executed
  <2> HIDE DEF a
  <2>2. a.st = s.st /\ a.queued = s.queued
    BY <1>8, <2>1
  <2> QED BY <1>3, <2>2 DEF a, Y
<1>10. CASE p.kind = "dumpall"
  <2>1. a = [s EXCEPT !.dumped = AllShown(s.st)]
    BY <1>10, Zenon DEF Executed, DumpAll
  <2> HIDE DEF a
  <2>2. a.st = s.st /\ a.queued = s.queued
    BY <1>8, <2>1
  <2> QED BY <1>3, <2>2 DEF a, Y
<1>11. CASE p.kind \in {"dumpon", "dumpoff", "dumpvars"}
  <2> DEFINE on == TurnsOn(p)
             f == [s EXCEPT !.on = on]
             dump == IF on THEN AllShown(s.st) ELSE AllUnknown
  <2>1. a = IF time = 0 THEN f ELSE [f EXCEPT !.dumped = dump]
    BY <1>11, Zenon DEF Executed, DumpOn
  <2> HIDE DEF a, on, dump
  <2>2. f = [st |-> s.st, changed |-> s.changed, prev |-> s.prev, active |-> s.active,
          pending |-> s.pending, queue |-> s.queue, queued |-> s.queued,
          on |-> on, dumped |-> s.dumped]
    BY <1>8
  <2> HIDE DEF f
  <2>3. a.st = s.st /\ a.queued = s.queued
    BY <2>1, <2>2
  <2> QED BY <1>3, <2>3 DEF a, Y
<1> QED BY <1>1, <1>4, <1>5, <1>6, <1>7, <1>9, <1>10, <1>11 DEF Y

\* It leaves no update that no statement aimed.
LEMMA ExecutedMeant ==
  ASSUME DesignFits(design), NEW s, StateOK(s), Meant(s), NEW p \in Statements,
         StatementFits(design, p)
  PROVE  Meant(Executed(s, p))
<1> DEFINE a == Executed(s, p)
<1>1. Ran(s, p, a)
  BY ExecutedDoes
<1>2. CASE p.kind # "later"
  <2> HIDE DEF a
  <2>1. \A u \in Updates : a.pending[u] = s.pending[u]
    BY <1>1, <1>2 DEF Ran
  <2>2. Meant(a)
    BY <2>1 DEF Meant
  <2> QED BY <2>2 DEF a
<1>3. CASE p.kind = "later"
  <2>1. a = Nonblocking(s, p)
    BY <1>3 DEF Executed
  <2> HIDE DEF a
  <2>2. Postponed(s, p, a)
    BY <1>3, <2>1, NonblockingDoes
  <2>3. LvalFits(Decl, p.lval, ExprWidth(Decl, p.rval)) /\ Typed(s)
    BY <1>3 DEF StatementFits, Decl, StateOK
  <2>4. Aimed(a.pending[p.of])
    <3> SUFFICES ASSUME NEW i \in DOMAIN p.lval
                 PROVE  Lands(p.lval[i].sel, a.pending[p.of].targets[i])
      BY <2>2 DEF Postponed, Aimed
    <3>1. NameFits(Decl, p.lval[i])
      BY <2>3 DEF LvalFits
    <3>2. a.pending[p.of].targets[i] = Target(s, p.lval[i])
      BY <2>2 DEF Postponed, Targets, Target
    <3> QED BY <2>3, <3>1, <3>2, TargetLands
  <2>5. Meant(a)
    BY <1>3, <2>2, <2>4 DEF Meant, Postponed, Others
  <2> QED BY <2>5 DEF a
<1> QED BY <1>2, <1>3

\* An update writes what its statement aims at.
LEMMA UpdatePlacid ==
  ASSUME DesignFits(design), WellConnected(design), NEW s, StateOK(s), AllPorted(s.st), Meant(s),
         NEW u \in Updates, s.pending[u] # Nothing
  PROVE  /\ \E q \in Statements : q.kind = "later" /\ Placid(s, Update(s, u), Aims(q))
         /\ Meant(Update(s, u))
<1> DEFINE x == s.pending[u]
           b == Into(s, x.lval, x.value, x.targets)
           a == Update(s, u)
<1>1. PICK q \in Statements : q.kind = "later" /\ q.lval = x.lval
  BY DEF Meant
<1>2. (\A y \in Aims(q) : ClearOfPorts(y)) /\ Aims(q) = ElementsOf(x.lval)
  BY <1>1, AimsClear
<1>3. /\ LvalFits(Decl, x.lval, Len(x.value)) /\ x.value \in Seq(Logic)
      /\ TargetsFit(x.lval, x.targets) /\ Typed(s)
      /\ \A i \in DOMAIN x.lval : Lands(x.lval[i].sel, x.targets[i])
  BY DEF StateOK, PendingFits, TargetsFit, Decl, Meant, Aimed
<1>4. a.st = b.st /\ a.queued = b.queued /\ Others(s, a, u) /\ a.pending[u] = Nothing
  BY UpdateDoes
<1>5. Placid(s, b, ElementsOf(x.lval))
  <2> HIDE DEF x
  <2> QED BY <1>2, <1>3, IntoPlacid
<1> HIDE DEF a, b
<1>6. Placid(s, a, ElementsOf(x.lval))
  BY <1>4, <1>5 DEF Placid
<1>7. Meant(a)
  BY <1>4 DEF Meant, Others
<1> HIDE DEF x
<1> QED BY <1>1, <1>2, <1>6, <1>7 DEF a

\* Container c is of a continuous assignment or a port that has the bits it
\* writes for itself and waits for all that it reads.
WireIs(c) ==
  LET p == Drives(c)
  IN  /\ c \in Listeners /\ c \in design.forced /\ c \in DOMAIN design.body
      /\ design.body[c] = <<p>> /\ p \in BodyStatements(design) /\ StatementFits(design, p)
      /\ p.kind = "set" /\ Len(p.lval) = 1 /\ ExprFits(Decl, p.rval)
      /\ LvalFits(Decl, p.lval, ExprWidth(Decl, p.rval))
      /\ \E e \in DOMAIN design.events :
           e[1] = c /\ ~IsEdge(e) /\ design.events[e].expr = p.rval
      /\ \A n \in Monitored(p.rval) : n \in DOMAIN Decl /\ ~Inward(Decl[n])
      /\ Wire(p.lval[1])
      /\ \A q \in Statements \ {p} : \A y \in Aims(q) : NoOverlap(Decl, p.lval[1], y)

\* So it is in a design whose bits have one driver each.
LEMMA WiresFollow ==
  ASSUME DesignFits(design), WellConnected(design), NEW c \in design.wires
  PROVE  WireIs(c)
<1> DEFINE p == Drives(c)
           x == p.lval[1]
<1>1. Follower(design, c) /\ Exclusive(design, x, {p}, {}) /\ WellHeard(design) /\ Decl = design.nets
  BY DEF WellConnected, Drives, Decl
<1>2. /\ c \in design.forced /\ c \in DOMAIN design.body /\ Len(design.body[c]) = 1
      /\ p.kind = "set" /\ Len(p.lval) = 1
  BY <1>1 DEF Follower, Drives
<1>3. PICK e \in DOMAIN design.events :
        e[1] = c /\ design.events[e].kind = "change" /\ design.events[e].expr = p.rval
  BY <1>1 DEF Follower, Drives
<1>4. c \in Listeners /\ ~IsEdge(e) /\ ExprFits(Decl, p.rval)
  BY <1>3, EventType DEF IsEdge
<1>5. p \in BodyStatements(design) /\ design.body[c] = <<p>>
  <2>1. design.body[c] \in Seq(BodyStatements(design))
    BY <1>2 DEF DesignFits
  <2> DEFINE S == BodyStatements(design)
             l == design.body[c]
  <2>2. l \in Seq(S) /\ Len(l) = 1 /\ p = l[1]
    BY <1>2, <2>1 DEF Drives
  <2> HIDE DEF S, l, p
  <2>3. p \in S /\ l = <<p>>
    BY <2>2
  <2> QED BY <2>3 DEF S, l
<1> HIDE DEF p
<1>6. StatementFits(design, p)
  BY <1>5 DEF DesignFits
<1>7. LvalFits(Decl, p.lval, ExprWidth(Decl, p.rval))
  BY <1>1, <1>2, <1>6 DEF StatementFits
<1>8. \A n \in Monitored(p.rval) : n \in DOMAIN Decl /\ ~Inward(Decl[n])
  <2>1. Audible(design)
    BY <1>1, WellHeardParts
  <2>2. Monitored(p.rval) \subseteq DOMAIN Decl
    BY <1>1, <1>4, MonitoredNets
  <2> QED BY <1>1, <1>3, <2>1, <2>2 DEF Audible
<1>9. /\ NameFits(Decl, x) /\ x.sel.at # "bit" /\ x.net \notin design.locals
      /\ ~IsMemory(Decl[x.net]) /\ ~Inward(Decl[x.net])
      /\ \A q \in Statements \ {p} : \A y \in Aims(q) : NoOverlap(Decl, x, y)
      /\ \A n \in DOMAIN Decl : Outward(Decl[n]) => NoOverlap(Decl, x, OutsideOf(Decl[n]))
  BY <1>1 DEF Exclusive, Statements
<1>10. Wire(x)
  BY <1>9 DEF Wire, Fixed, PortsOut, Outer
<1> QED BY <1>2, <1>3, <1>4, <1>5, <1>6, <1>7, <1>8, <1>9, <1>10 DEF WireIs, p

\* A driver that is on and has something to say is heard.
Driven(st, c) ==
  LET p == Drives(c)
      v == Value(Decl, st, p.rval)
  IN  /\ ~IsTristate(p.rval, v)
      /\ \/ \E i \in DOMAIN design.first : design.first[i][1] = c
         \/ \E n \in Monitored(p.rval) : st[n] # design.init[n]
      => Read(Decl, st, p.lval[1]) = Fit(v, WidthOf(Decl, p.lval[1]))

\* It stays so while neither what it reads nor what it writes changes.
LEMMA DrivenStays ==
  ASSUME DesignFits(design), NEW c, WireIs(c), NEW st, NEW sto,
         SameOn(st, sto, Monitored(Drives(c).rval)),
         Read(Decl, sto, Drives(c).lval[1]) = Read(Decl, st, Drives(c).lval[1]), Driven(st, c)
  PROVE  Driven(sto, c)
<1> DEFINE p == Drives(c)
<1>1. ExprFits(Decl, p.rval)
  BY DEF WireIs
<1>2. Value(Decl, st, p.rval) = Value(Decl, sto, p.rval)
  <2> HIDE DEF p
  <2> QED BY <1>1, ValueSame DEF p
<1>3. \A n \in Monitored(p.rval) : st[n] = sto[n]
  BY DEF SameOn
<1> QED BY <1>2, <1>3 DEF Driven

\* Its statement makes it so, when it does not change what it reads.
LEMMA DrivenNow ==
  ASSUME DesignFits(design), NEW c, WireIs(c), NEW s, StateOK(s), NEW a,
         a = Executed(s, Drives(c)), SameOn(s.st, a.st, Monitored(Drives(c).rval))
  PROVE  Driven(a.st, c)
<1> DEFINE p == Drives(c)
           x == p.lval[1]
           v == Value(Decl, s.st, p.rval)
           slice == Elements(Decl, p.lval)[1]
           target == Target(s, x)
<1>1. /\ p.kind = "set" /\ Len(p.lval) = 1 /\ ExprFits(Decl, p.rval)
      /\ LvalFits(Decl, p.lval, ExprWidth(Decl, p.rval)) /\ Wire(x) /\ Typed(s)
  BY DEF WireIs, StateOK
<1>2. v \in Seq(Logic) /\ Len(v) = ExprWidth(Decl, p.rval)
  BY <1>1, ValueSeq
<1>3. Value(Decl, a.st, p.rval) = v
  <2> HIDE DEF p
  <2> QED BY <1>1, ValueSame DEF p
<1>4. a = Blocking(s, p)
  BY <1>1 DEF Executed
<1>5. CASE IsTristate(p.rval, v)
  <2> HIDE DEF v
  <2> QED BY <1>3, <1>5 DEF Driven
<1>6. CASE ~IsTristate(p.rval, v)
  <2>1. a = Into(s, p.lval, v, <<>>)
    BY <1>4, <1>6 DEF Blocking, BlockingValue, Store
  <2>2. a = IntoElement(p.lval, v, <<>>, 1, s)
    <3> HIDE DEF v
    <3> QED BY <1>1, <1>2, <2>1, IntoDoes DEF TargetsFit
  <2>3. a = Assignment(s, x.net, v, slice, target)
    BY <2>2 DEF IntoElement
  <2>4. slice = [ms |-> None, ls |-> None]
    <3>1. DOMAIN p.lval = 1 .. 1
      BY <1>1 DEF LvalFits
    <3> QED BY <1>1, <3>1 DEF Elements
  <2>5. Fixed(x) /\ NameFits(Decl, x) /\ x.net \in DOMAIN Decl
    BY <1>1 DEF Wire, Fixed, NameFits
  <2>6. target = BoundsOf(x) /\ target.m \in Int /\ target.l \in Int
    <3> HIDE DEF x
    <3>1. Selected(Decl, s.st, x.sel) = BoundsOf(x) /\ Lands(x.sel, BoundsOf(x))
      BY <2>5, FixedRead
    <3> QED BY <3>1 DEF Target, Lands
  <2>7. SliceFits(v, slice.ms, slice.ls)
    BY <2>4 DEF SliceFits
  <2>8. StoreFits(design, s.st) /\ StoreFits(design, a.st)
    <3>1. Keeps(s, a)
      BY <1>1, <1>4, BlockingDoes DEF WireIs
    <3> QED BY <1>1, <3>1 DEF Keeps, Typed, NetsFit
  <2> HIDE DEF v, slice, target, x
  <2>9. a.st[x.net] = Write(Decl, s.st, x.net, v, slice.ms, slice.ls, target.m, target.l).st[x.net]
    <3> DEFINE n == x.net
    <3>1. n \in DOMAIN Decl
      BY <2>5
    <3> HIDE DEF n
    <3>2. Assignment(s, n, v, slice, target).st[n]
            = Write(Decl, s.st, n, v, slice.ms, slice.ls, target.m, target.l).st[n]
      BY <1>1, <1>2, <2>6, <2>7, <3>1, AssignmentDoes
    <3> QED BY <2>3, <3>2 DEF n
  <2>10. a.st[x.net]
           = Write(Decl, s.st, x.net, v, None, None, BoundsOf(x).m, BoundsOf(x).l).st[x.net]
    BY <2>4, <2>6, <2>9
  <2>11. Read(Decl, a.st, x) = Fit(v, WidthOf(Decl, x))
    BY <1>2, <2>5, <2>8, <2>10, FixedWritten
  <2> QED BY <1>3, <2>11 DEF Driven, x
<1> QED BY <1>5, <1>6

\* Who drives is still queued or in the batch, or about to be executed.
Busy(c) ==
  \/ queued[c]
  \/ \E i \in DOMAIN temp : temp[i][1] = c
  \/ todo = design.body[c]

\* A wire that is not busy after a statement drives.
LEMMA DrivenOn ==
  ASSUME DesignFits(design), StateOK(OldState), HeardNow, design' = design, temp' = temp,
         NEW c, WireIs(c), Busy(c) \/ Driven(store, c), ~Busy(c)',
         queued[c] => queued'[c],
         \/ store' = Executed(OldState, Drives(c)).st
         \/ /\ todo # design.body[c]
            /\ Read(Decl, store', Drives(c).lval[1]) = Read(Decl, store, Drives(c).lval[1])
  PROVE  Driven(store', c)
<1> DEFINE p == Drives(c)
<1>1. ~queued'[c] /\ ~queued[c] /\ ~(\E i \in DOMAIN temp : temp[i][1] = c)
  BY DEF Busy
<1>2. SameOn(store, store', Monitored(p.rval))
  <2>1. PICK e \in DOMAIN design.events :
          e[1] = c /\ ~IsEdge(e) /\ design.events[e].expr = p.rval
    BY DEF WireIs
  <2>2. c \in Listeners /\ IsActive(OldState, c)
    BY DEF WireIs, IsActive
  <2>3. store' # store => ~HitFrom(store, store', e)
    BY <1>1, <2>1, <2>2 DEF HeardNow
  <2>4. \A n \in Monitored(p.rval) : store[n] = store'[n]
    BY <2>1, <2>3 DEF HitFrom
  <2> QED BY <2>4 DEF SameOn, WireIs
<1>3. OldState.st = store
  BY DEF OldState
<1>4. CASE store' = Executed(OldState, p).st
  <2> DEFINE a == Executed(OldState, p)
  <2>1. SameOn(OldState.st, a.st, Monitored(p.rval)) /\ a = Executed(OldState, Drives(c)) /\ a.st = store'
    BY <1>2, <1>3, <1>4
  <2> HIDE DEF a
  <2>2. Driven(a.st, c)
    BY <2>1, DrivenNow
  <2> QED BY <2>1, <2>2
<1>5. CASE store' # Executed(OldState, p).st
  <2>1. Driven(store, c)
    BY <1>1, <1>5 DEF Busy
  <2> QED BY <1>2, <1>5, <2>1, DrivenStays
<1> QED BY <1>4, <1>5

\* The inductive invariant behind Connected: a wire is busy or it drives, every
\* port has reached the net outside, an update writes what a statement aimed
\* at, and at the end of a time unit nobody is queued.
ConnectedSoFar ==
  /\ \A c \in design.wires : Busy(c) \/ Driven(store, c)
  /\ AllPorted(store) /\ Meant(OldState)
  /\ Settled => \A c \in Listeners : ~queued[c]

\* It says so of the next state when the design is the same.
LEMMA DesignStays ==
  ASSUME design' = design
  PROVE  /\ AllPorted(store') <=> AllPorted(store)'
         /\ \A c : Driven(store', c) <=> Driven(store, c)'
         /\ \A c : Drives(c)' = Drives(c)
<1>1. design' = design /\ Decl' = Decl
  BY DEF Decl
<1>2. PortsOut' = PortsOut /\ \A n : Outer(n)' = Outer(n)
  BY <1>1 DEF PortsOut, Outer
<1>3. AllPorted(store') <=> AllPorted(store)'
  BY <1>1, <1>2 DEF AllPorted, Ported
<1>4. \A c : Drives(c)' = Drives(c)
  BY <1>1 DEF Drives
<1>5. \A c : Driven(store', c) <=> Driven(store, c)'
  BY <1>1, <1>4 DEF Driven
<1> QED BY <1>3, <1>4, <1>5

\* A statement keeps it.
LEMMA ConnectedBecomes ==
  ASSUME NetsInv, HeardNow, WellConnected(design), ConnectedSoFar, design' = design, temp' = temp,
         NEW a, store' = a.st, pending' = a.pending, queued' = a.queued, ~Settled',
         NEW Y, Placid(OldState, a, Y), Meant(a),
         \A c \in design.wires :
           \/ a = Executed(OldState, Drives(c))
           \/ /\ todo # design.body[c]
              /\ \A y \in Y : NoOverlap(Decl, Drives(c).lval[1], y)
  PROVE  ConnectedSoFar'
<1>1. DesignFits(design) /\ StateOK(OldState)
  BY InvState
<1>2. OldState.st = store /\ OldState.queued = queued /\ OldState'.pending = pending'
  BY DEF OldState
<1>3. AllPorted(store)'
  BY DesignStays DEF Placid
<1>4. Meant(OldState)'
  <2>1. Statements' = Statements
    BY DEF Statements, BodyStatements
  <2> QED BY <1>2, <2>1 DEF Meant
<1>5. ASSUME NEW c \in design.wires, ~Busy(c)' PROVE Driven(store, c)'
  <2>1. WireIs(c)
    BY <1>1, WiresFollow
  <2>2. queued[c] => queued'[c]
    BY <1>2, <2>1 DEF Placid, WireIs
  <2>3. \/ store' = Executed(OldState, Drives(c)).st
        \/ /\ todo # design.body[c]
           /\ Read(Decl, store', Drives(c).lval[1]) = Read(Decl, store, Drives(c).lval[1])
    BY <1>2, <2>1 DEF Placid, WireIs
  <2>4. Busy(c) \/ Driven(store, c)
    BY DEF ConnectedSoFar
  <2>5. Driven(store', c)
    BY <1>1, <1>5, <2>1, <2>2, <2>3, <2>4, DrivenOn
  <2> QED BY <2>5, DesignStays
<1> QED BY <1>3, <1>4, <1>5 DEF ConnectedSoFar

\* A step that executes nothing keeps it, if who was busy is.
LEMMA ConnectedQuiet ==
  ASSUME ConnectedSoFar, UNCHANGED <<design, store, pending>>,
         \A c \in design.wires : Busy(c) => Busy(c)',
         Settled' => \A c \in Listeners : ~queued'[c]
  PROVE  ConnectedSoFar'
<1>1. AllPorted(store)' /\ \A c : Driven(store, c) => Driven(store, c)'
  BY DesignStays DEF ConnectedSoFar
<1>2. Meant(OldState)'
  <2>1. Statements' = Statements
    BY DEF Statements, BodyStatements
  <2>2. OldState.pending = pending /\ OldState'.pending = pending'
    BY DEF OldState
  <2> QED BY <2>1, <2>2 DEF Meant, ConnectedSoFar
<1> QED BY <1>1, <1>2 DEF ConnectedSoFar

\* At first nobody drives but who is queued.
LEMMA ConnectedInit ==
  ASSUME Init, WellConnected(design)
  PROVE  ConnectedSoFar
<1>1. DesignFits(design) /\ store = design.init /\ time = 0
  BY InvInit, InvState DEF Init
<1>2. \A n \in PortsOut : Ported(store, n)
  BY <1>1 DEF Ported
<1>3. Meant(OldState)
  BY DEF Init, Meant, OldState
<1>4. ASSUME NEW c \in design.wires PROVE Busy(c) \/ Driven(store, c)
  <2>1. WireIs(c) /\ c \in Listeners
    BY <1>1, WiresFollow DEF WireIs
  <2>2. queued[c] <=> \E i \in DOMAIN design.first : design.first[i][1] = c
    BY <2>1 DEF Init
  <2> QED BY <1>1, <2>2 DEF Busy, Driven
<1> QED BY <1>1, <1>2, <1>3, <1>4 DEF ConnectedSoFar, AllPorted, Settled

\* A statement of a process keeps it.
LEMMA ConnectedDrive ==
  ASSUME NetsInv, HeardNow, WellConnected(design), ConnectedSoFar, Drive
  PROVE  ConnectedSoFar'
<1>1. /\ DesignFits(design) /\ StateOK(OldState) /\ AllPorted(store) /\ Meant(OldState)
      /\ design' = design /\ temp' = temp /\ stage = "idle" /\ drives' = drives + 1
      /\ OldState.st = store /\ OldState.queued = queued /\ OldState.pending = pending
  BY InvState DEF Drive, ConnectedSoFar, OldState
<1>2. PICK p \in design.moves :
        \/ p.kind # "readmem" /\ Becomes(Executed(OldState, p))
        \/ p.kind = "readmem" /\ ReadMemory(FromFile(OldState, p), p)
  BY DEF Drive
<1>3. StatementFits(design, p) \/ ReadFits(design, p)
  BY <1>1 DEF DesignFits
<1>4. ~Settled'
  <2>1. drives \in Nat
    BY DEF NetsInv, NetsTypeOK
  <2>2. drives' # 0
    BY <1>1, <2>1
  <2> QED BY <2>2 DEF Settled
<1>5. p \in Statements
  BY DEF Statements
<1>6. ASSUME NEW c \in design.wires
      PROVE  WireIs(c) /\ todo # design.body[c]
  <2>1. WireIs(c)
    BY <1>1, WiresFollow
  <2>2. todo = <<>>
    BY <1>1 DEF NetsInv, BatchFits
  <2>3. design.body[c] # <<>>
    BY <2>1 DEF WireIs
  <2> QED BY <2>1, <2>2, <2>3
<1>7. CASE p.kind # "readmem"
  <2> DEFINE a == Executed(OldState, p)
  <2>1. StatementFits(design, p) /\ Becomes(a)
    BY <1>2, <1>3, <1>7 DEF ReadFits
  <2>2. Placid(OldState, a, Aims(p)) /\ Meant(a)
    BY <1>1, <1>5, <2>1, ExecutedPlacid, ExecutedMeant
  <2>3. ASSUME NEW c \in design.wires
        PROVE  \/ a = Executed(OldState, Drives(c))
               \/ /\ todo # design.body[c]
                  /\ \A y \in Aims(p) : NoOverlap(Decl, Drives(c).lval[1], y)
    <3>1. CASE p = Drives(c)
      BY <3>1
    <3>2. CASE p # Drives(c)
      BY <1>5, <1>6, <3>2 DEF WireIs
    <3> QED BY <3>1, <3>2
  <2>4. store' = a.st /\ pending' = a.pending /\ queued' = a.queued
    BY <2>1 DEF Becomes
  <2> HIDE DEF a
  <2> QED BY <1>1, <1>4, <2>2, <2>3, <2>4, ConnectedBecomes
<1>8. CASE p.kind = "readmem"
  <2> DEFINE got == FromFile(OldState, p)
             a == [OldState EXCEPT !.st = [store EXCEPT ![p.of] = got.words]]
  <2>1. /\ store' = [store EXCEPT ![p.of] = got.words]
        /\ pending' = pending /\ queued' = queued
    BY <1>2, <1>8 DEF ReadMemory
  <2>2. a.st = store' /\ a.pending = pending /\ a.queued = queued
    BY <2>1 DEF OldState
  <2>3. p.of \in DOMAIN Decl /\ IsMemory(Decl[p.of])
    BY <1>3, <1>8 DEF ReadFits, StatementFits, Decl
  <2>4. \A n \in DOMAIN Decl \ {p.of} : store'[n] = store[n]
    <3>1. DOMAIN store = DOMAIN Decl
      BY <1>1 DEF StateOK, Typed, NetsFit, StoreFits, Decl
    <3> QED BY <2>1, <3>1
  <2>5. ASSUME NEW n \in PortsOut PROVE n # p.of /\ Decl[n].port # p.of
    <3>1. OuterIs(n)
      BY <1>1, PortLeads
    <3> QED BY <2>3, <3>1 DEF OuterIs, Fixed
  <2>6. \A x : Wire(x) => x.net # p.of
    BY <2>3 DEF Wire, Fixed
  <2> HIDE DEF a, got
  <2>7. Placid(OldState, a, {})
    <3> DEFINE X == {p.of}
               Y == {}
    <3>1. /\ \A n \in DOMAIN Decl \ X : a.st[n] = OldState.st[n]
          /\ \A n \in PortsOut : n \notin X /\ Decl[n].port \notin X
          /\ \A x : Wire(x) => x.net \notin X
          /\ \A c \in Listeners : OldState.queued[c] => a.queued[c]
          /\ AllPorted(OldState.st)
      BY <1>1, <2>2, <2>4, <2>5, <2>6
    <3> HIDE DEF X, Y
    <3>2. Placid(OldState, a, Y)
      BY <1>1, <3>1, PlacidElsewhere
    <3> QED BY <3>2 DEF Y
  <2>8. Meant(a)
    BY <1>1, <2>2 DEF Meant
  <2>9. /\ store' = a.st /\ pending' = a.pending /\ queued' = a.queued
        /\ \A c \in design.wires :
             /\ todo # design.body[c]
             /\ \A y \in {} : NoOverlap(Decl, Drives(c).lval[1], y)
    BY <1>6, <2>1, <2>2
  <2> QED BY <1>1, <1>4, <2>7, <2>8, <2>9, ConnectedBecomes
<1> QED BY <1>7, <1>8

\* So does a statement the handler executes, or an update.
LEMMA ConnectedStep ==
  ASSUME NetsInv, HeardNow, WellConnected(design), ConnectedSoFar, Step
  PROVE  ConnectedSoFar'
<1> DEFINE p == Head(todo)
           a == Executed(OldState, p)
<1>1. /\ DesignFits(design) /\ StateOK(OldState) /\ AllPorted(store) /\ Meant(OldState)
      /\ design' = design /\ temp' = temp /\ stage' = stage
      /\ OldState.st = store /\ OldState.pending = pending
  BY InvState DEF Step, ConnectedSoFar, OldState
<1>2. todo # <<>> /\ Becomes(a) /\ BatchFits /\ PendingWhile
  BY DEF Step, NetsInv
<1>3. ~Settled' /\ store' = a.st /\ pending' = a.pending /\ queued' = a.queued
  BY <1>1, <1>2 DEF BatchFits, Settled, Becomes
<1>4. ASSUME NEW c \in design.wires
      PROVE  /\ WireIs(c) /\ Drives(c).kind = "set"
             /\ todo = design.body[c] => p = Drives(c)
  <2>1. WireIs(c)
    BY <1>1, WiresFollow
  <2>2. design.body[c] = <<Drives(c)>> /\ Drives(c).kind = "set"
    BY <2>1 DEF WireIs
  <2> QED BY <2>1, <2>2
<1>5. CASE todo \in Seq(BodyStatements(design))
  <2>1. p \in BodyStatements(design)
    BY <1>2, <1>5
  <2> HIDE DEF p
  <2>2. StatementFits(design, p) /\ p \in Statements
    BY <1>1, <2>1 DEF DesignFits, Statements
  <2>3. Placid(OldState, a, Aims(p)) /\ Meant(a)
    BY <1>1, <2>2, ExecutedPlacid, ExecutedMeant
  <2>4. ASSUME NEW c \in design.wires
        PROVE  \/ a = Executed(OldState, Drives(c))
               \/ /\ todo # design.body[c]
                  /\ \A y \in Aims(p) : NoOverlap(Decl, Drives(c).lval[1], y)
    <3>1. CASE p = Drives(c)
      BY <3>1
    <3>2. CASE p # Drives(c)
      BY <1>4, <2>2, <3>2 DEF WireIs
    <3> QED BY <3>1, <3>2
  <2> HIDE DEF a
  <2> QED BY <1>1, <1>3, <2>3, <2>4, ConnectedBecomes
<1>6. CASE ~(todo \in Seq(BodyStatements(design)))
  <2>1. PICK u \in Updates : todo = <<UpdateOf(u)>>
    BY <1>2, <1>6 DEF BatchFits
  <2>2. p = UpdateOf(u)
    BY <2>1
  <2> HIDE DEF p
  <2>3. a = Update(OldState, u)
    BY <2>2 DEF Executed, UpdateOf
  <2>4. OldState.pending[u] # Nothing
    BY <1>1, <1>2, <2>1 DEF PendingWhile
  <2> HIDE DEF a
  <2>5. /\ \E q \in Statements : q.kind = "later" /\ Placid(OldState, a, Aims(q))
        /\ Meant(a)
    BY <1>1, <2>3, <2>4, UpdatePlacid
  <2>6. PICK q \in Statements : q.kind = "later" /\ Placid(OldState, a, Aims(q))
    BY <2>5
  <2>7. ASSUME NEW c \in design.wires
        PROVE  /\ todo # design.body[c]
               /\ \A y \in Aims(q) : NoOverlap(Decl, Drives(c).lval[1], y)
    <3>1. p.kind = "update"
      BY <2>2 DEF UpdateOf
    <3>2. p # Drives(c) /\ q # Drives(c)
      BY <1>4, <2>6, <3>1
    <3> QED BY <1>4, <2>6, <3>2 DEF WireIs
  <2> QED BY <1>1, <1>3, <2>5, <2>6, <2>7, ConnectedBecomes
<1> QED BY <1>5, <1>6

\* Who leaves the queue is in the batch.
LEMMA ConnectedActivate ==
  ASSUME NetsInv, WellConnected(design), ConnectedSoFar, Activate
  PROVE  ConnectedSoFar'
<1>1. PICK r \in DOMAIN Q!Ranked : Q!Activate(r)
  BY DEF Activate
<1> DEFINE l == queue[Q!Ranked[r]]
           f == [e \in AllEvents |-> e[1]]
<1>2. /\ todo = <<>> /\ temp = <<>> /\ stage' = stage /\ stage = "loop" /\ temp' = l
      /\ queued' = [c \in Listeners \cup Updates |->
                      queued[c] /\ \A i \in DOMAIN l : f[l[i]] # c]
      /\ UNCHANGED <<design, store, pending, todo>>
  BY <1>1 DEF Activate, Q!Activate, Q!MoveEvents, netVars
<1>3. DesignFits(design) /\ queue \in [Q!Strata -> Seq(AllEvents)]
  BY InvState DEF StateOK, Typed, QueueFits, OldState
<1>4. l \in Seq(AllEvents)
  <2>1. Q!Ranked[r] \in Q!Strata
    BY StrataNames DEF Q!Strata, Q!Looped
  <2> QED BY <1>3, <2>1
<1>5. \A i \in DOMAIN l : f[l[i]] = l[i][1]
  <2> HIDE DEF l
  <2> QED BY <1>4
<1> HIDE DEF l, f
<1>6. ASSUME NEW c \in design.wires, Busy(c) PROVE Busy(c)'
  <2>1. c \in Listeners /\ design.body[c] # <<>>
    <3>1. WireIs(c)
      BY <1>3, WiresFollow
    <3> QED BY <3>1 DEF WireIs
  <2>2. queued[c]
    BY <1>2, <1>6, <2>1 DEF Busy
  <2>3. CASE \A i \in DOMAIN l : f[l[i]] # c
    <3>1. queued'[c]
      BY <1>2, <2>1, <2>2, <2>3
    <3> QED BY <3>1 DEF Busy
  <2>4. CASE ~(\A i \in DOMAIN l : f[l[i]] # c)
    BY <1>2, <1>5, <2>4 DEF Busy
  <2> QED BY <2>3, <2>4
<1>7. ~Settled'
  BY <1>2 DEF Settled
<1> QED BY <1>2, <1>6, <1>7, ConnectedQuiet

\* Who leaves the batch is about to be executed.
LEMMA ConnectedTrigger ==
  ASSUME NetsInv, WellConnected(design), ConnectedSoFar, Trigger
  PROVE  ConnectedSoFar'
<1>1. /\ todo = <<>> /\ temp # <<>> /\ temp' = Tail(temp)
      /\ todo' = IF temp[1][1] \in Updates THEN <<UpdateOf(temp[1][1])>>
                 ELSE design.body[temp[1][1]]
      /\ UNCHANGED <<design, store, pending, queued, stage>>
  BY DEF Trigger, Q!Handle, netVars
<1>2. DesignFits(design) /\ BatchFits
  BY InvState DEF NetsInv
<1>3. \E S : temp \in Seq(S)
  BY <1>2 DEF BatchFits
<1>4. ASSUME NEW c \in design.wires, Busy(c) PROVE Busy(c)'
  <2>1. c \in Listeners /\ design.body[c] # <<>>
    <3>1. WireIs(c)
      BY <1>2, WiresFollow
    <3> QED BY <3>1 DEF WireIs
  <2>2. c \notin Updates
    BY <2>1, NetsAssumption
  <2>3. CASE queued[c]
    BY <1>1, <2>3 DEF Busy
  <2>4. CASE ~queued[c]
    <3>1. PICK i \in DOMAIN temp : temp[i][1] = c
      BY <1>1, <1>4, <2>1, <2>4 DEF Busy
    <3>2. CASE i = 1
      BY <1>1, <2>2, <3>1, <3>2 DEF Busy
    <3>3. CASE i # 1
      <4>1. i - 1 \in DOMAIN temp' /\ temp'[i - 1] = temp[i]
        BY <1>1, <1>3, <3>3
      <4> QED BY <3>1, <4>1 DEF Busy
    <3> QED BY <3>2, <3>3
  <2> QED BY <2>3, <2>4
<1>5. ~Settled'
  BY <1>1, <1>2 DEF BatchFits, Settled
<1> QED BY <1>1, <1>4, <1>5, ConnectedQuiet

\* When the event queue is left, it is empty.
LEMMA ConnectedEndTime ==
  ASSUME NetsInv, WellConnected(design), ConnectedSoFar, EndTime
  PROVE  ConnectedSoFar'
<1>1. /\ UNCHANGED <<design, store, pending, todo, queue, queued>> /\ temp' = temp
      /\ Q!LoopDone \/ stage = "strobe"
  BY DEF EndTime, Q!Leave
<1>2. Q!LoopDone
  BY <1>1 DEF NetsInv, BatchFits
<1>3. queue["active"] = <<>>
  BY <1>2, StrataNames DEF Q!LoopDone, Q!Ranked
<1>4. ListOf(queue["active"], queued, Listeners, DOMAIN design.events)
  BY InvState DEF StateOK, Typed, QueueFits, OldState
<1>5. \A c \in Listeners : ~queued'[c]
  BY <1>1, <1>3, <1>4 DEF ListOf
<1>6. \A c \in design.wires : Busy(c) => Busy(c)'
  BY <1>1 DEF Busy
<1> QED BY <1>1, <1>5, <1>6, ConnectedQuiet

\* At the end of a time unit every net is what drives it (st_net_assign,
\* st_util.cc:474-568, and check_monitor, st_util.cc:198-271): continuous
\* assignments and input ports agree with their expressions, and every output
\* has reached the nets outside, through ports in ports, however the processes
\* and the updates interleave, in every design of which each bit that is driven
\* has one driver and whose listeners can hear (WellConnected).
THEOREM DriversReach ==
  ASSUME \A g \in Designs : WellConnected(g)
  PROVE  Spec => []Connected
<1>1. NetsInv => WellConnected(design) /\ Audible(design)
  BY WellHeardParts DEF NetsInv, NetsTypeOK, WellConnected
<1>2. Init => HeardSoFar /\ ConnectedSoFar
  <2> SUFFICES ASSUME Init PROVE HeardSoFar /\ ConnectedSoFar
    OBVIOUS
  <2>1. WellConnected(design) /\ WellHeard(design)
    BY DEF Init, WellConnected
  <2>2. PICK group \in Groups(design) : \A p \in BodyStatements(design) \cup design.moves :
              p.kind \in {"set", "later"} => Apart(design, group, p.lval)
    BY <2>1, WellHeardParts
  <2>3. PrevSeen(OldState)
    BY DEF Init, PrevSeen, OldState
  <2>4. \A u \in Updates : pending[u].lval = <<>>
    BY DEF Init, Nothing
  <2>5. \A u \in Updates : Apart(design, group, pending[u].lval)
    BY <2>4 DEF Apart, Elsewhere
  <2>6. HeardSoFar
    BY <2>2, <2>3, <2>5 DEF HeardSoFar
  <2> QED BY <2>1, <2>6, ConnectedInit
<1>3. NetsInv /\ HeardSoFar /\ ConnectedSoFar /\ [Next]_vars => HeardSoFar' /\ ConnectedSoFar'
  <2> SUFFICES ASSUME NetsInv, HeardSoFar, ConnectedSoFar, [Next]_vars
               PROVE  HeardSoFar' /\ ConnectedSoFar'
    OBVIOUS
  <2>1. CASE Drive
    <3>1. HeardSoFar' /\ HeardNow
      BY <1>1, <2>1, HeardDrive
    <3> QED BY <1>1, <2>1, <3>1, ConnectedDrive
  <2>2. CASE Step
    <3>1. HeardSoFar' /\ HeardNow
      BY <1>1, <2>2, HeardStep
    <3> QED BY <1>1, <2>2, <3>1, ConnectedStep
  <2>3. CASE Enter \/ Activate \/ Trigger \/ EndTime \/ UNCHANGED vars
    <3>1. UNCHANGED <<design, store, prev, pending>>
      BY <2>3 DEF Enter, Activate, Trigger, EndTime, netVars, vars
    <3>2. HeardSoFar'
      BY <3>1, HeardQuiet
    <3>3. CASE Activate
      BY <1>1, <3>2, <3>3, ConnectedActivate
    <3>4. CASE Trigger
      BY <1>1, <3>2, <3>4, ConnectedTrigger
    <3>5. CASE EndTime
      BY <1>1, <3>2, <3>5, ConnectedEndTime
    <3>6. CASE Enter
      <4>1. UNCHANGED <<design, store, pending, queued, temp, todo>> /\ ~Settled'
        BY <3>6 DEF Enter, Q!Enter, netVars, Settled
      <4>2. \A c \in design.wires : Busy(c) => Busy(c)'
        BY <4>1 DEF Busy
      <4> QED BY <3>2, <4>1, <4>2, ConnectedQuiet
    <3>7. CASE UNCHANGED vars
      <4>1. UNCHANGED <<design, store, pending, queued, temp, todo, stage, drives, time>>
        BY <3>7 DEF vars, netVars, queueVars
      <4>2. \A c \in design.wires : Busy(c) => Busy(c)'
        BY <4>1 DEF Busy
      <4>3. Settled' => \A c \in Listeners : ~queued'[c]
        BY <4>1 DEF Settled, ConnectedSoFar
      <4> QED BY <3>2, <4>1, <4>2, <4>3, ConnectedQuiet
    <3> QED BY <2>3, <3>3, <3>4, <3>5, <3>6, <3>7
  <2> QED BY <2>1, <2>2, <2>3 DEF Next
<1>4. NetsInv /\ ConnectedSoFar => Connected
  <2> SUFFICES ASSUME NetsInv, ConnectedSoFar, Settled PROVE Connected
    BY DEF Connected
  <2>1. DesignFits(design) /\ WellConnected(design) /\ BatchFits
    BY <1>1, InvState DEF NetsInv
  <2>2. ASSUME NEW n \in DOMAIN Decl, NEW c \in Drivers(n), On(c), Assigned1(c)
        PROVE  LET x == Drives(c).lval[1]
               IN  Read(Decl, store, x) = Fit(Value(Decl, store, Drives(c).rval), WidthOf(Decl, x))
    <3>1. c \in design.wires /\ WireIs(c)
      BY <2>1, WiresFollow DEF Drivers
    <3>2. ~Busy(c)
      <4>1. temp = <<>> /\ todo = <<>> /\ ~queued[c] /\ design.body[c] # <<>>
        BY <2>1, <3>1 DEF BatchFits, Settled, ConnectedSoFar, WireIs
      <4> QED BY <4>1 DEF Busy
    <3>3. Driven(store, c)
      BY <3>1, <3>2 DEF ConnectedSoFar
    <3> QED BY <2>2, <3>3 DEF Driven, On, Assigned1
  <2>3. ASSUME NEW n \in DOMAIN Decl, Outward(Decl[n]), store[n] # design.init[n]
        PROVE  Read(Decl, store, OutsideOf(Decl[n]))
                 = Fit(Whole(store, n), WidthOf(Decl, OutsideOf(Decl[n])))
    BY <2>3 DEF ConnectedSoFar, AllPorted, Ported, PortsOut, Outer
  <2> QED BY <2>2, <2>3 DEF Connected
<1> QED BY <1>2, <1>3, <1>4, NetsInvariant, PTL DEF Spec
=============================================================================
