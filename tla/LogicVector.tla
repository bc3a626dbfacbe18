------------------------------ MODULE LogicVector -----------------------------
(***************************************************************************)
(* Four-valued logic (common/logic.h) and the arithmetic of bit vectors    *)
(* (common/bvector.h, common/bvector.cc).  A vector is [sgn, bits]: the    *)
(* bits from the least significant up, and whether arithmetic takes them   *)
(* as two's complement.  An operator that fills a result takes what the    *)
(* result held before, because some leave part of it as it was.            *)
(***************************************************************************)
EXTENDS Integers, Sequences

CONSTANT DecimalBits   \* the width of decimal_type, the machine's own integers

ASSUME LogicVectorAssumption == DecimalBits \in Nat \ {0}

LO == 0
HI == 1
DC == 2     \* don't care, x
Z == 3
NVL == 4    \* no value at all

Logic == {LO, HI, DC, Z}   \* what a bit of a vector holds
Known(a) == a \in {LO, HI}

\* Two to the power of k: the number of values below bit k + 1.
Below(k) ==
  LET pow[i \in 0 .. k] == IF i = 0 THEN 1 ELSE 2 * pow[i - 1]
  IN  pow[k]

-----------------------------------------------------------------------------
(* The tables of logic.h.                                                  *)

Inv(a) == IF Known(a) THEN 1 - a ELSE DC

And(a, b) == IF NVL \notin {a, b} /\ LO \in {a, b} THEN LO
             ELSE IF {a, b} = {HI} THEN HI ELSE DC

Or(a, b) == IF NVL \notin {a, b} /\ HI \in {a, b} THEN HI
            ELSE IF {a, b} = {LO} THEN LO ELSE DC

Xor(a, b) == IF Known(a) /\ Known(b) THEN (a + b) % 2 ELSE DC

\* Fault model: the value of the first branch wins.
TernaryFirst(a, b) == IF Known(a) THEN a ELSE DC

Ternary(a, b) == IF a = b /\ Known(a) THEN a ELSE DC

Equal(a, b) == Inv(Xor(a, b))

\* Z stands for equal, so that the comparison goes on with the next bit.
Less(a, b) == IF ~Known(a) \/ ~Known(b) THEN DC
              ELSE IF a = b THEN Z ELSE IF a < b THEN HI ELSE LO

EqualCase(a, b) == IF a = b THEN HI ELSE LO

\* Fault model: a bit that is ignored on one side only.
EqualButLeft(ignored, a, b) ==
  IF (Known(a) /\ a = b) \/ (b # NVL /\ a \in ignored \ {DC}) THEN HI ELSE LO

\* Bits of ignored match whatever has a value.
EqualBut(ignored, a, b) ==
  IF a = b \/ (NVL \notin {a, b} /\ {a, b} \cap ignored # {}) THEN HI ELSE LO

-----------------------------------------------------------------------------
(* Whole vectors.                                                          *)

SignTypes == {"unset", "unsigned", "signed"}
VectorOf(n) == [sgn : SignTypes, bits : [1 .. n -> Logic]]
Vector(sgn, bits) == [sgn |-> sgn, bits |-> bits]
Filled(n, a) == [i \in 1 .. n |-> a]
Width(v) == Len(v.bits)
Top(v) == v.bits[Width(v)]
Negative(v) == v.sgn = "signed" /\ Top(v) = HI
AllKnown(b) == \A i \in DOMAIN b : Known(b[i])
At(b, i) == IF i <= Len(b) THEN b[i] ELSE LO
First(S) == CHOOSE i \in S : \A j \in S : i <= j
Last(S) == CHOOSE i \in S : \A j \in S : j <= i

Unsigned(b) ==
  LET sum[i \in 0 .. Len(b)] ==
        IF i = 0 THEN 0 ELSE sum[i - 1] + b[i] * Below(i - 1)
  IN  sum[Len(b)]

Bits(x, n) == [i \in 1 .. n |-> (x \div Below(i - 1)) % 2]

\* Fault model: a shorter value is not extended.
AssignedShort(old, v) ==
  IF Width(v) < Width(old) THEN v ELSE Vector(old.sgn, SubSeq(v.bits, 1, Width(old)))

\* operator=: sign or zero extended, truncated; the sign is adopted once.
Adopt(v, from) == IF v.sgn = "unset" THEN from ELSE v.sgn
Assigned(old, v) ==
  LET pad == IF v.sgn = "signed" THEN Top(v) ELSE LO
  IN  Vector(Adopt(old, v.sgn),
             [i \in 1 .. Width(old) |-> IF i <= Width(v) THEN v.bits[i] ELSE pad])

\* The vector of a machine integer is as short as it can be.
OfDecimal(x) ==
  LET n == CHOOSE k \in 1 .. DecimalBits :
             /\ x < Below(k)
             /\ k = 1 \/ x >= Below(k - 1)
  IN  Vector("unsigned", Bits(x, n))
OfLogic(a) == Vector("unsigned", <<a>>)

\* to_decimal_type with nb bits: [fail, val].
ToBits(v, nb) ==
  LET low  == SubSeq(v.bits, 1, IF nb > Width(v) THEN Width(v) ELSE nb)
      high == {v.bits[i] : i \in nb + 1 .. Width(v)}
      val  == Unsigned(low)
  IN  IF ~AllKnown(low) THEN [fail |-> TRUE, val |-> 0]
      ELSE IF high \ {Top(v)} # {}
           THEN [fail |-> TRUE, val |-> Below(DecimalBits) - 1]
      ELSE IF nb > Width(v) /\ Negative(v)
           THEN [fail |-> FALSE,
                 val |-> val + Below(DecimalBits) - Below(Width(v))]
      ELSE [fail |-> FALSE, val |-> val]
ToDecimal(v) == ToBits(v, DecimalBits)

-----------------------------------------------------------------------------
(* Comparisons.                                                            *)

CompareForward(Cmp(_, _), l, r, pad) ==
  LET n == IF Len(l) > Len(r) THEN Len(l) ELSE Len(r)
      at(b, i) == IF i <= Len(b) THEN b[i] ELSE pad
      stops == {i \in 1 .. n : Cmp(at(l, i), at(r, i)) # HI}
  IN  IF stops = {} THEN HI
      ELSE Cmp(at(l, First(stops)), at(r, First(stops)))

\* What stands for the missing bits of the shorter operand.
PadOf(l, r) ==
  IF Width(l) < Width(r) /\ l.sgn = "signed" THEN Top(l)
  ELSE IF Width(r) < Width(l) /\ r.sgn = "signed" THEN Top(r)
  ELSE LO

IsEqual(l, r) == CompareForward(Equal, l.bits, r.bits, PadOf(l, r))
CompareC(l, r) == CompareForward(EqualCase, l.bits, r.bits, PadOf(l, r))
CompareX(l, r) ==
  LET cmp(a, b) == EqualBut({DC, Z}, a, b)
  IN  CompareForward(cmp, l.bits, r.bits, LO)
CompareZ(l, r) ==
  LET cmp(a, b) == EqualBut({Z}, a, b)
  IN  CompareForward(cmp, l.bits, r.bits, LO)

NotNegative(v) == v.sgn = "unsigned" \/ (v.sgn = "signed" /\ Top(v) = LO)

\* compare_backward with logic_LES: from the top, the shorter one padded.
IsLess(l, r) ==
  LET n == IF Width(l) > Width(r) THEN Width(l) ELSE Width(r)
      stops == {i \in 1 .. n : Less(At(l.bits, i), At(r.bits, i)) # Z}
      known(a) == IF AllKnown(l.bits) /\ AllKnown(r.bits) THEN a ELSE DC
  IN  IF Negative(l) /\ NotNegative(r) THEN known(HI)
      ELSE IF ~Negative(l) /\ Negative(r) /\ NotNegative(l) THEN known(LO)
      ELSE IF stops = {} THEN LO
      ELSE Less(At(l.bits, Last(stops)), At(r.bits, Last(stops)))

IsTrue(v) == AllKnown(v.bits) /\ \E i \in DOMAIN v.bits : v.bits[i] = HI

Not(v) == IF ~AllKnown(v.bits) THEN DC ELSE IF IsTrue(v) THEN LO ELSE HI

ReduceAnd(b) == IF \E i \in DOMAIN b : b[i] = LO THEN LO
                ELSE IF AllKnown(b) THEN HI ELSE DC

ReduceOr(b) == IF \E i \in DOMAIN b : b[i] = HI THEN HI
               ELSE IF AllKnown(b) THEN LO ELSE DC

ReduceXor(b) ==
  LET parity[i \in 0 .. Len(b)] ==
        IF i = 0 THEN LO ELSE Xor(parity[i - 1], b[i])
  IN  parity[Len(b)]

LogicOp(Op(_, _), n, l, r) == [i \in 1 .. n |-> Op(At(l, i), At(r, i))]

-----------------------------------------------------------------------------
(***************************************************************************)
(* Sums bit by bit.  carry[i] enters bit i.  A loop stops at the first bit *)
(* past an operand that has nothing to add; of what follows, the caller    *)
(* copies or clears some and leaves the rest as it was.                    *)
(***************************************************************************)
Carries(l, r, n) ==
  LET carry[i \in 1 .. n + 1] ==
        IF i = 1 THEN 0
        ELSE (At(l, i - 1) + At(r, i - 1) + carry[i - 1]) \div 2
  IN  carry

SumBit(l, r, carry, i) == (At(l, i) + At(r, i) + carry[i]) % 2

\* operator+=
AddedTo(d, b) ==
  LET carry == Carries(d, b, Len(d))
      halts == {i \in 1 .. Len(d) : i > Len(b) /\ carry[i] = 0}
      stray == {i \in 1 .. Len(d) : ~Known(d[i]) \/ ~Known(At(b, i))}
      end   == First(halts \cup stray \cup {Len(d) + 1})
  IN  [i \in 1 .. Len(d) |->
         IF i < end THEN SumBit(d, b, carry, i)
         ELSE IF end \in halts THEN d[i] ELSE DC]

\* Fault model: no borrow.
DifferenceUnborrowed(l, r, n) == [i \in 1 .. n |-> (At(l, i) + At(r, i)) % 2]

\* The difference of bits as both subtractions compute it.
Difference(l, r, n) ==
  LET value(b) == Unsigned([i \in 1 .. n |-> At(b, i)])
  IN  Bits((value(l) - value(r)) % Below(n), n)

\* operator-=
SubtractedFrom(d, b) ==
  LET stray == {i \in 1 .. Len(d) : ~Known(d[i]) \/ ~Known(At(b, i))}
      end   == First(stray \cup {Len(d) + 1})
      low   == Difference(SubSeq(d, 1, end - 1), b, end - 1)
  IN  [i \in 1 .. Len(d) |-> IF i < end THEN low[i] ELSE DC]

\* operator<<= by one
Doubled(d) == [i \in 1 .. Len(d) |-> IF i = 1 THEN LO ELSE d[i - 1]]

AddHalt(l, r, n) ==
  LET carry == Carries(l, r, n)
  IN  First({i \in 1 .. n : carry[i] = 0 /\ (i > Len(l) \/ i > Len(r))}
            \cup {n + 1})

\* Fault model: only the left operand is looked at.
AddMeetsUnknownLeft(l, r, n) ==
  \E i \in 1 .. AddHalt(l, r, n) - 1 : ~Known(At(l, i))

\* The sum meets an unknown bit before it stops.
AddMeetsUnknown(l, r, n) ==
  LET end == AddHalt(l, r, n)
  IN  \/ \E i \in 1 .. end - 1 : ~Known(At(l, i)) \/ ~Known(At(r, i))
      \/ end <= n /\ end <= Len(r) /\ ~Known(r[end])

\* binary_add: the bits of the longer operand are copied once the shorter
\* one is through, and nothing is written beyond them.
AddBits(old, l, r) ==
  LET n     == Len(old)
      carry == Carries(l, r, n)
      end   == AddHalt(l, r, n)
      clear == end > Len(r) /\ Len(l) <= Len(r)
      long  == IF Len(l) > Len(r) THEN l ELSE r
  IN  IF AddMeetsUnknown(l, r, n) THEN Filled(n, DC)
      ELSE [i \in 1 .. n |->
              IF i < end THEN SumBit(l, r, carry, i)
              ELSE IF clear THEN LO
              ELSE IF i <= Len(long) THEN long[i]
              ELSE old[i]]

\* The copy of what is left of the left operand begins past its end, with a
\* length below zero.
AddRunsOff(n, l, r) ==
  LET end == AddHalt(l, r, n)
  IN  /\ ~AddMeetsUnknown(l, r, n)
      /\ end <= n
      /\ Len(l) > Len(r)
      /\ end > Len(l) + 1

SumSign(res, l, r) ==
  Adopt(res, IF "signed" \in {l.sgn, r.sgn} THEN "signed" ELSE "unsigned")

BinaryAdd(res, l, r) ==
  Vector(SumSign(res, l, r), AddBits(res.bits, l.bits, r.bits))

\* binary_sub
BinarySub(res, l, r) ==
  LET n == Width(res)
  IN  Vector(SumSign(res, l, r),
             IF \E i \in 1 .. n : ~Known(At(l.bits, i)) \/ ~Known(At(r.bits, i))
             THEN Filled(n, DC)
             ELSE Difference(l.bits, r.bits, n))

UnaryInv(n, b) == [i \in 1 .. n |-> Inv(At(b, i))]
UnaryNeg(n, b) == AddedTo(UnaryInv(n, b), <<HI>>)

\* The absolute value the long algorithms work with, put into old.
Magnitude(old, v) ==
  IF Negative(v)
  THEN Vector(Adopt(old, "unsigned"),
              AddBits(old.bits, UnaryInv(Width(v), v.bits), <<HI>>))
  ELSE Assigned(old, v)

-----------------------------------------------------------------------------
(***************************************************************************)
(* Products and quotients: machine arithmetic where both operands fit into *)
(* decimal_type, shifting otherwise.  An operand is looked at through      *)
(* to_decimal_type, whose failure with 0 means an unknown bit.             *)
(***************************************************************************)
Wrap(x) == x % Below(DecimalBits)
AbsDecimal(v) == Wrap(IF Negative(v) THEN -ToDecimal(v).val ELSE ToDecimal(v).val)
Signed(x, l, r) == Wrap(IF Negative(l) # Negative(r) THEN -x ELSE x)
Unknown(v) == ToDecimal(v).fail /\ ToDecimal(v).val = 0
NoNumber(v) == Assigned(v, Vector("unset", Filled(Width(v), DC)))

\* unary_inv and binary_add of one, in place.
Negated(b) == AddBits(b, UnaryInv(Len(b), b), <<HI>>)

ShiftAndAdd(n, l, r) ==
  LET mcand  == Magnitude(Vector("unsigned", Filled(n, DC)), l).bits
      mplier == IF Negative(r) THEN <<>> ELSE r.bits   \* an empty vector stays empty
      shifted[i \in 0 .. Len(mplier)] ==
        IF i = 0 THEN mcand ELSE Doubled(shifted[i - 1])
      sum[i \in 0 .. Len(mplier)] ==
        IF i = 0 THEN Filled(n, LO)
        ELSE IF mplier[i] = HI THEN AddedTo(sum[i - 1], shifted[i - 1])
        ELSE sum[i - 1]
      p == sum[Len(mplier)]
  IN  IF Negative(l) # Negative(r) THEN Negated(p) ELSE p

BinaryMul(p, l, r) ==
  LET half == Below(DecimalBits \div 2)
      fits(v) == ~ToDecimal(v).fail /\ AbsDecimal(v) < half
  IN  IF Unknown(l) \/ Unknown(r) THEN NoNumber(p)
      ELSE IF fits(l) /\ fits(r)
           THEN Assigned(p, OfDecimal(Signed(AbsDecimal(l) * AbsDecimal(r), l, r)))
      ELSE Vector(Adopt(p, "unsigned"), ShiftAndAdd(Width(p), l, r))

\* The long division: [q, rem, fail].  Bit by bit from the top of the
\* dividend, into a quotient whose other bits are zero.
ShiftAndSubtract(q, zero, l, r) ==
  LET dend == Magnitude(Vector("unsigned", Filled(Width(l), DC)), l).bits
      dsor == Magnitude(Vector("unsigned", Filled(Width(r), DC)), r)
      bring(rem, i) == [Doubled(rem) EXCEPT ![1] = dend[i]]
      below(rem) == IsLess(Vector(zero.sgn, rem), dsor)
      run[i \in 1 .. Len(dend) + 1] ==
        IF i > Len(dend)
        THEN [q |-> q, rem |-> zero.bits, fail |-> FALSE]
        ELSE LET prev == run[i + 1]
                 rem  == bring(prev.rem, i)
             IN  IF prev.fail \/ ~Known(below(rem)) THEN [prev EXCEPT !.fail = TRUE]
                 ELSE IF below(rem) = HI
                          THEN [prev EXCEPT !.q[i] = LO, !.rem = rem]
                 ELSE [q |-> [prev.q EXCEPT ![i] = HI], fail |-> FALSE,
                       rem |-> SubtractedFrom(rem, dsor.bits)]
  IN  run[1]

\* binary_div_rem of cleared results: [q, rem], both of the width of res.
DivRem(q, rem, l, r) ==
  LET none == [q |-> NoNumber(q), rem |-> NoNumber(rem)]
      long == ShiftAndSubtract(q.bits, rem, l, r)
      once(b) == IF Negative(l) # Negative(r) THEN Negated(b) ELSE b
      twice(b) == IF Negative(l) THEN Negated(b) ELSE b
  IN  IF Unknown(l) \/ Unknown(r) THEN none
      ELSE IF ~ToDecimal(l).fail /\ ~ToDecimal(r).fail
           THEN IF AbsDecimal(r) = 0 THEN none
                ELSE [q   |-> Assigned(q, OfDecimal(Signed(AbsDecimal(l) \div AbsDecimal(r), l, r))),
                      rem |-> Assigned(rem, OfDecimal(
                        (IF Negative(l) THEN Wrap(-AbsDecimal(l)) ELSE AbsDecimal(l))
                          % AbsDecimal(r)))]
      ELSE IF IsEqual(r, OfLogic(LO)) = HI \/ long.fail THEN none
      ELSE [q   |-> Vector(SumSign(q, l, r), twice(once(long.q))),
            rem |-> Vector(l.sgn, long.rem)]

\* Fault model: the quotient is not cleared first.
BinaryDivKept(q, l, r) ==
  DivRem(q, Vector("unset", Filled(Width(q), LO)), l, r).q

BinaryDiv(q, l, r) ==
  LET zero == Assigned(q, OfLogic(LO))
  IN  DivRem(zero, Vector("unset", zero.bits), l, r).q
BinaryMod(rem, l, r) ==
  LET zero == Assigned(rem, OfLogic(LO))
  IN  DivRem(Vector("unset", zero.bits), zero, l, r).rem

\* An amount that fails leaves no number; a negative one addresses memory
\* before the vector.
BinaryLshf(n, l, r) ==
  LET c == ToDecimal(r).val
  IN  [i \in 1 .. n |->
         IF ToDecimal(r).fail THEN DC ELSE IF i > c THEN At(l.bits, i - c) ELSE LO]
BinaryRshf(n, l, r) ==
  LET c == ToDecimal(r).val
  IN  [i \in 1 .. n |-> IF ToDecimal(r).fail THEN DC ELSE At(l.bits, i + c)]
ShiftRunsOff(r) ==
  /\ ~ToDecimal(r).fail
  /\ ToDecimal(r).val >= Below(DecimalBits - 1)

-----------------------------------------------------------------------------
(***************************************************************************)
(* Parts of vectors.  Positions count from 0.  A net declared [0:n] has    *)
(* its least significant bit at n; a part in the wrong order leaves the    *)
(* span unset, and setup has refused it.                                   *)
(***************************************************************************)
Span(n, up, m, l) == IF up THEN [first |-> n - 1 - l, last |-> n - 1 - m]
                     ELSE [first |-> l, last |-> m]
Length(span) == span.last - span.first + 1

\* A part that leaves the vector on one side only reads memory behind it.
PartRunsOff(b, span) == span.first < Len(b) /\ span.last >= Len(b)

\* The part, assigned to an unsigned vector of n bits.
PartOf(b, span, n) ==
  [i \in 1 .. n |->
     IF span.first >= Len(b) \/ span.last < 0 THEN DC
     ELSE IF i <= Length(span) THEN b[span.first + i] ELSE LO]

\* Fault model: the bits count from the start of the vector.
PartReplacedShifted(b, span, num) ==
  [i \in DOMAIN b |->
     IF span.first < i /\ i <= span.last + 1 THEN At(num, i) ELSE b[i]]

PartReplaced(b, span, num) ==
  [i \in DOMAIN b |->
     IF span.first < i /\ i <= span.last + 1
     THEN At(num, i - span.first) ELSE b[i]]

=============================================================================
