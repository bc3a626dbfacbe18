------------------------------ MODULE Expression ------------------------------
(***************************************************************************)
(* One node of an expression tree, set up once and then evaluated again    *)
(* and again (expr/esetup.cc, expr/eeval.cc).  The node owns the vector    *)
(* its value is computed into, so that an evaluation starts from what the  *)
(* one before left.  The operands are what the nodes below deliver: of a   *)
(* width and a sign settled by setup.                                      *)
(***************************************************************************)
EXTENDS FiniteSets, VectorText

CONSTANTS
  Shapes,      \* what setup finds: [op, ops, need], ops a sequence of [sgn, width]
  Values       \* the operands looked at, by width: sequences of bits

VARIABLES
  node,     \* the shape of the node
  args,     \* the operands of the last evaluation, << >> before the first
  result,   \* the vector the node owns
  broken    \* memory outside of a vector has been touched

vars == <<node, args, result, broken>>

Sums == {"+", "-", "/", "%"}
Masks == {"&", "~&", "|", "~|", "^", "~^"}
Relations == {"==", "!=", "===", "!==", "<", "<=", ">", ">=", "&&", "||"}
Reductions == {"r&", "r~&", "r|", "r~|", "r^", "r~^"}
Shifts == {"<<", ">>"}
Singles == Reductions \cup {"!", "~", "u+", "u-"}
Pairs == Sums \cup {"*"} \cup Masks \cup Relations \cup Shifts

Wider(a, b) == IF a > b THEN a ELSE b
OpWidth(s, k) == s.ops[k].width
Total(s) ==
  LET sum[k \in 0 .. Len(s.ops)] == IF k = 0 THEN 0 ELSE sum[k - 1] + OpWidth(s, k)
  IN  sum[Len(s.ops)]

\* What setup has not refused: as many operands as the operator takes, of a
\* bit at least.  A concatenation takes any number, here up to three (bound).
ASSUME ExpressionAssumption ==
  \A s \in Shapes :
    /\ s.ops \in Seq([sgn : SignTypes, width : Nat \ {0}])
    /\ s.need \in Nat
    /\ \/ s.op \in Singles /\ Len(s.ops) = 1
       \/ s.op \in Pairs /\ Len(s.ops) = 2
       \/ s.op = "?:" /\ Len(s.ops) = 3
       \/ s.op = "concat" /\ Len(s.ops) \in 1 .. 3 /\ s.need > 0
    /\ \A k \in 1 .. Len(s.ops) :
         Values[OpWidth(s, k)] \subseteq [1 .. OpWidth(s, k) -> Logic]

(***************************************************************************)
(* The width of the result.  need is what the assignment the expression    *)
(* stands in stores to (0 elsewhere); relations do not care, and neither   *)
(* does a concatenation, whose operands must fit each other.               *)
(***************************************************************************)
ResultWidth(s) ==
  CASE s.op \in Relations \cup Reductions \cup {"!"} -> 1
    [] s.op \in Sums \cup Masks -> Wider(s.need, Wider(OpWidth(s, 1), OpWidth(s, 2)))
    [] s.op = "*"               -> Wider(s.need, OpWidth(s, 1) + OpWidth(s, 2))
    [] s.op \in Shifts \cup {"~", "u+", "u-"} -> Wider(s.need, OpWidth(s, 1))
    [] s.op = "?:"              -> Wider(s.need, Wider(OpWidth(s, 2), OpWidth(s, 3)))
    [] s.op = "concat"          -> s.need * Total(s)

\* Sign of the result before the first evaluation; a minus makes a constant signed.
ResultSign(s) ==
  IF ResultWidth(s) = 1 THEN "unsigned"
  ELSE IF s.op = "u-" /\ s.constant THEN "signed" ELSE "unset"

Fresh(s) == Vector(ResultSign(s), Filled(ResultWidth(s), DC))

\* A bool becomes an integer, a logic value a vector of one bit.
OfBool(b) == OfDecimal(IF b THEN 1 ELSE 0)

Relation(op, l, r) ==
  CASE op = "=="  -> OfLogic(IsEqual(l, r))
    [] op = "!="  -> OfLogic(Inv(IsEqual(l, r)))
    [] op = "===" -> OfLogic(CompareC(l, r))
    [] op = "!==" -> OfLogic(Inv(CompareC(l, r)))
    [] op = "<"   -> OfLogic(IsLess(l, r))
    [] op = ">"   -> OfLogic(IsLess(r, l))
    [] op = "<="  -> OfLogic(Inv(IsLess(r, l)))
    [] op = ">="  -> OfLogic(Inv(IsLess(l, r)))
    [] op = "&&"  -> OfBool(IsTrue(l) /\ IsTrue(r))
    [] op = "||"  -> OfBool(IsTrue(l) \/ IsTrue(r))

Mask(op, n, l, r) ==
  CASE op = "&"  -> LogicOp(And, n, l, r)
    [] op = "~&" -> LET nand(a, b) == Inv(And(a, b)) IN LogicOp(nand, n, l, r)
    [] op = "|"  -> LogicOp(Or, n, l, r)
    [] op = "~|" -> LET nor(a, b) == Inv(Or(a, b)) IN LogicOp(nor, n, l, r)
    [] op = "^"  -> LogicOp(Xor, n, l, r)
    [] op = "~^" -> LogicOp(Equal, n, l, r)

Reduction(op, b) ==
  CASE op = "r&"  -> ReduceAnd(b)
    [] op = "r~&" -> Inv(ReduceAnd(b))
    [] op = "r|"  -> ReduceOr(b)
    [] op = "r~|" -> Inv(ReduceOr(b))
    [] op = "r^"  -> ReduceXor(b)
    [] op = "r~^" -> Inv(ReduceXor(b))

\* The condition is compared with an unsigned zero; one that is unknown
\* leaves the bits the two branches agree in.
TernaryResult(res, c, t, f) ==
  LET nonZero == IsLess(OfLogic(LO), c)
  IN  IF nonZero = HI THEN Assigned(res, t)
      ELSE IF nonZero = LO THEN Assigned(res, f)
      ELSE Vector(res.sgn, LogicOp(Ternary, Width(res), t.bits, f.bits))

\* need copies of the operands, the last operand in the lowest bits.
Concatenation(s, res, ops) ==
  LET low[k \in 1 .. Len(ops) + 1] ==
        IF k > Len(ops) THEN <<>> ELSE low[k + 1] \o ops[k].bits
      all == low[1]
  IN  Vector(Adopt(res, ops[1].sgn),
             [i \in 1 .. Width(res) |-> all[((i - 1) % Len(all)) + 1]])

Sum(op, res, l, r) ==
  CASE op = "+" -> BinaryAdd(res, l, r)
    [] op = "-" -> BinarySub(res, l, r)
    [] op = "*" -> BinaryMul(res, l, r)
    [] op = "/" -> BinaryDiv(res, l, r)
    [] op = "%" -> BinaryMod(res, l, r)

Shift(op, n, l, r) == IF op = "<<" THEN BinaryLshf(n, l, r) ELSE BinaryRshf(n, l, r)

\* What an evaluation leaves in the vector of the node.
Computed(s, res, ops) ==
  LET n == Width(res)
      l == ops[1]
      r == ops[2]
  IN  CASE s.op \in Sums \cup {"*"} -> Sum(s.op, res, l, r)
        [] s.op \in Masks      -> Vector(res.sgn, Mask(s.op, n, l.bits, r.bits))
        [] s.op \in Relations  -> Assigned(res, Relation(s.op, l, r))
        [] s.op \in Reductions -> Assigned(res, OfLogic(Reduction(s.op, l.bits)))
        [] s.op \in Shifts     -> Vector(res.sgn, Shift(s.op, n, l, r))
        [] s.op = "!"          -> Assigned(res, OfLogic(Not(l)))
        [] s.op = "~"          -> Vector(res.sgn, UnaryInv(n, l.bits))
        [] s.op = "u-"         -> Vector(res.sgn, UnaryNeg(n, l.bits))
        [] s.op = "u+"         -> Assigned(res, l)
        [] s.op = "?:"         -> TernaryResult(res, l, r, ops[3])
        [] s.op = "concat"     -> Concatenation(s, res, ops)

RunsOff(s, ops) ==
  \/ s.op = "+" /\ AddRunsOff(ResultWidth(s), ops[1].bits, ops[2].bits)
  \/ s.op \in Shifts /\ ShiftRunsOff(ops[2])

-----------------------------------------------------------------------------
Init ==
  /\ node \in Shapes
  /\ args = <<>>
  /\ result = Fresh(node)
  /\ broken = FALSE

Operands(s) ==
  LET of(k) == {Vector(s.ops[k].sgn, b) : b \in Values[OpWidth(s, k)]}
  IN  CASE Len(s.ops) = 1 -> {<<a>> : a \in of(1)}
        [] Len(s.ops) = 2 -> {<<a, b>> : a \in of(1), b \in of(2)}
        [] Len(s.ops) = 3 -> {<<a, b, c>> : a \in of(1), b \in of(2), c \in of(3)}

Evaluate ==
  \E ops \in Operands(node) :
    /\ ~RunsOff(node, ops)
    /\ args' = ops
    /\ result' = Computed(node, result, ops)
    /\ UNCHANGED <<node, broken>>

\* A copy that begins past its end: what it leaves behind is anyone's guess.
EvaluateOutside ==
  \E ops \in Operands(node) :
    /\ RunsOff(node, ops)
    /\ args' = ops
    /\ broken' = TRUE
    /\ UNCHANGED <<node, result>>

Next == ~broken /\ (Evaluate \/ EvaluateOutside)

Spec == Init /\ [][Next]_vars

-----------------------------------------------------------------------------
(* What the value should be, in integers.                                  *)

Value(v) == Unsigned(v.bits) - (IF Negative(v) THEN Below(Width(v)) ELSE 0)
Evaluated == args # <<>> /\ ~broken
NoStray == \A k \in DOMAIN args : AllKnown(args[k].bits)

\* The vector of a node keeps the width setup gave it, whatever is computed.
ExpressionTypeOK ==
  /\ node \in Shapes
  /\ broken \in BOOLEAN
  /\ result \in VectorOf(ResultWidth(node))

(***************************************************************************)
(* Where the code means to be exact: no negative number is shorter than    *)
(* the result of a sum (it would be filled with zeros), no dividend of a   *)
(* remainder is negative, and a product fits the machine's integers (a     *)
(* negative one is not extended beyond them).  A                           *)
(* sum of operands of different widths is excluded where the result is     *)
(* wider than both, see Repeatable.                                        *)
(***************************************************************************)
Exact ==
  LET l == args[1]
      r == args[2]
      n == Width(result)
      short(v) == Negative(v) /\ Width(v) < n
      small(v) == Width(v) <= DecimalBits \div 2
      even == Width(l) = Width(r) \/ n = Wider(Width(l), Width(r))
  IN  CASE node.op = "+" -> even /\ ~short(l) /\ ~short(r)
        [] node.op = "-" -> ~short(l) /\ ~short(r)
        [] node.op = "*" -> small(l) /\ small(r) /\ (n <= DecimalBits \/ Negative(l) = Negative(r))
        [] node.op = "/" -> n <= DecimalBits /\ Value(r) # 0
        [] node.op = "%" -> n <= DecimalBits /\ Value(r) # 0 /\ ~Negative(l)
        [] OTHER         -> FALSE

Quotient(a, b) ==   \* towards zero
  LET abs(x) == IF x < 0 THEN -x ELSE x
  IN  IF (a < 0) # (b < 0) THEN -(abs(a) \div abs(b)) ELSE abs(a) \div abs(b)

Expected(a, b) ==
  CASE node.op = "+" -> a + b
    [] node.op = "-" -> a - b
    [] node.op = "*" -> a * b
    [] node.op = "/" -> Quotient(a, b)
    [] node.op = "%" -> a - b * Quotient(a, b)

\* Sums, products and quotients of known operands are those of the integers
\* they stand for, modulo the width of the result.
ArithmeticExact ==
  Evaluated /\ NoStray /\ node.op \in Sums \cup {"*"} /\ Exact =>
    Unsigned(result.bits)
      = Expected(Value(args[1]), Value(args[2])) % Below(Width(result))

\* Arithmetic with an unknown bit in an operand never gives a number; but for
\* products and quotients of vectors wider than the machine's integers, where
\* only the bits above are compared, with one another.
UnknownStays ==
  LET narrow == \A k \in DOMAIN args : Width(args[k]) <= DecimalBits
  IN  Evaluated /\ ~NoStray
        /\ (node.op \in {"+", "-", "u-"} \/ (node.op \in {"*", "/", "%"} /\ narrow)) =>
      ~AllKnown(result.bits)

\* Where the code compares known operands as numbers.  Two negative ones of
\* different widths it does not put in order, the missing bits being zero
\* whatever the sign, nor a negative one and one without a sign; and it takes
\* a negative one for the unsigned number of the same bits, if that is not
\* the narrower one.
InOrder(l, r) ==
  /\ Negative(l) /\ Negative(r) => Width(l) = Width(r)
  /\ Negative(l) # Negative(r) => "unset" \notin {l.sgn, r.sgn}
ToldApart(l, r) ==
  /\ Negative(l) /\ ~Negative(r) => r.sgn = "signed" \/ Width(r) < Width(l)
  /\ Negative(r) /\ ~Negative(l) => l.sgn = "signed" \/ Width(l) < Width(r)

\* Known operands of any width and sign are less or equal as the integers have
\* it, so that exactly one of less, equal and greater holds of them, and
\* whatever is unknown, no two operands are less than one another.
Trichotomy ==
  Evaluated /\ node.op \in Relations =>
  LET l == args[1]
      r == args[2]
  IN  /\ NoStray /\ InOrder(l, r) => (IsLess(l, r) = HI) = (Value(l) < Value(r))
      /\ NoStray /\ ToldApart(l, r) => (IsEqual(l, r) = HI) = (Value(l) = Value(r))
      /\ ~(IsLess(l, r) = HI /\ IsLess(r, l) = HI)

\* Identical vectors are equal if known, equal ones are identical and match in
\* a casez, and what matches in a casez matches in a casex, at any widths; but
\* a casez does not extend the sign of the shorter one.
MatchesWiden ==
  Evaluated /\ node.op \in Relations =>
  LET l == args[1]
      r == args[2]
  IN  /\ IsEqual(l, r) = HI => CompareC(l, r) = HI
      /\ CompareC(l, r) = HI /\ NoStray => IsEqual(l, r) = HI
      /\ CompareC(l, r) = HI /\ (Width(l) = Width(r) \/ PadOf(l, r) = LO) => CompareZ(l, r) = HI
      /\ CompareZ(l, r) = HI => CompareX(l, r) = HI

\* The comparisons agree with one another and with the integers (bvector.cc,
\* from line 873).
ComparisonsAgree == Trichotomy /\ MatchesWiden

\* A condition that may or may not be zero decides nothing: the result has no
\* bit one of the branches does not have.
BranchesAgree ==
  Evaluated /\ node.op = "?:" /\ ReduceOr(args[1].bits) = DC =>
    \A i \in 1 .. Width(result) :
      Known(result.bits[i]) =>
        /\ At(args[2].bits, i) = result.bits[i]
        /\ At(args[3].bits, i) = result.bits[i]

\* What is shown in full of a value reads back as the value; without leading
\* zeros or in another base it does so if it is known.
ReadsBack ==
  Evaluated =>
  LET b == result.bits
      n == Width(result)
      d == Decimal(result)
  IN  /\ FromDigits(AllDigits(b, 2), 2, n) = b
      /\ AllKnown(b) =>
           /\ \A base \in {2, 8, 16} : FromDigits(SomeDigits(b, base), base, n) = b
           /\ n <= DecimalBits =>
                FromInteger(IF d.neg THEN Below(n) - d.val ELSE d.val, n, FALSE) = b

\* The operands of a sum are through before the result is.
UnevenSum ==
  /\ node.op = "+" /\ OpWidth(node, 1) # OpWidth(node, 2)
  /\ ResultWidth(node) # Wider(OpWidth(node, 1), OpWidth(node, 2))

\* The dividend is the number that has no positive counterpart, and too long
\* for the machine's integers.
MostNegative(v) == Negative(v) /\ \A i \in 1 .. Width(v) - 1 : v.bits[i] = LO
MostNegativeDividend(l) ==
  /\ node.op = "%" /\ MostNegative(l)
  /\ Width(l) = ResultWidth(node) /\ Width(l) > DecimalBits

(***************************************************************************)
(* The value depends on the operands alone, not on what the vector held.   *)
(* It does not hold of a sum whose operands differ in width and whose      *)
(* result is wider than both: its upper bits are never written once the    *)
(* shorter operand is through.  Nor does it hold of a remainder of the     *)
(* most negative number: the magnitude fills the vector of the node, which *)
(* has become signed, so that it is negative again (bvector.cc:1392).      *)
(***************************************************************************)
Repeatable ==
  [][Evaluate /\ ~UnevenSum /\ ~MostNegativeDividend(args'[1])
     => result'.bits = Computed(node, Fresh(node), args').bits]_vars

\* The remainder of signed numbers as wide as the result has the sign of the
\* dividend (the comment in binary_div_rem).
RemainderHasSign ==
  LET full(v) == v.sgn = "signed" /\ Width(v) = Width(result)
      rem     == Value(Vector("signed", result.bits))
  IN  Evaluated /\ NoStray /\ node.op = "%"
        /\ full(args[1]) /\ full(args[2]) /\ Value(args[2]) # 0 =>
      IF Negative(args[1]) THEN rem <= 0 ELSE rem >= 0

=============================================================================
