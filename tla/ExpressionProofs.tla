---------------------------- MODULE ExpressionProofs ----------------------------
(***************************************************************************)
(* Theorems about one node of an expression tree, for every operator, for  *)
(* operands of every width and sign, and for machine integers of every     *)
(* width.                                                                  *)
(***************************************************************************)
EXTENDS Expression, LogicVectorProofs, FiniteSetTheorems

USE DEF LO, HI, DC, Z, NVL

-----------------------------------------------------------------------------
(***************************************************************************)
(* Shapes and operands.                                                    *)
(***************************************************************************)

\* What setup has not refused has operands of a bit at least.
ShapeOK(s) ==
  /\ Len(s.ops) \in 1 .. 3
  /\ \A k \in 1 .. Len(s.ops) : s.ops[k].sgn \in SignTypes /\ OpWidth(s, k) \in Nat \ {0}
  /\ s.need \in Nat
  /\ s.op \in Pairs => Len(s.ops) = 2
  /\ s.op = "?:" => Len(s.ops) = 3
  /\ s.op = "concat" => s.need > 0
  /\ s.op \in Singles \cup Pairs \cup {"?:", "concat"}

\* Every shape is such a shape.
LEMMA ShapesOK ==
  ASSUME NEW s \in Shapes
  PROVE  ShapeOK(s)
<1>1. /\ s.ops \in Seq([sgn : SignTypes, width : Nat \ {0}])
      /\ s.need \in Nat
      /\ \/ s.op \in Singles /\ Len(s.ops) = 1
         \/ s.op \in Pairs /\ Len(s.ops) = 2
         \/ s.op = "?:" /\ Len(s.ops) = 3
         \/ s.op = "concat" /\ Len(s.ops) \in 1 .. 3 /\ s.need > 0
  BY ExpressionAssumption
<1>2. \A k \in 1 .. Len(s.ops) : s.ops[k] \in [sgn : SignTypes, width : Nat \ {0}]
  BY <1>1, ElementOfSeq
<1>3. \A k \in 1 .. Len(s.ops) : s.ops[k].sgn \in SignTypes /\ OpWidth(s, k) \in Nat \ {0}
  BY <1>2 DEF OpWidth
<1>4. /\ s.op \in Pairs => s.op \notin Singles \cup {"?:", "concat"}
      /\ s.op = "?:" => s.op \notin Singles
      /\ s.op = "concat" => s.op \notin Singles
  BY DEF Pairs, Singles, Sums, Masks, Relations, Shifts, Reductions
<1>5. Len(s.ops) \in 1 .. 3
  BY <1>1
<1>6. /\ s.op \in Pairs => Len(s.ops) = 2
      /\ s.op = "?:" => Len(s.ops) = 3
      /\ s.op = "concat" => s.need > 0
  BY <1>1, <1>4
<1> QED BY <1>1, <1>3, <1>5, <1>6 DEF ShapeOK

\* ops are vectors of the widths and signs the shape says.
OperandsOK(s, ops) ==
  /\ DOMAIN ops = 1 .. Len(s.ops) /\ Len(ops) = Len(s.ops)
  /\ \A k \in 1 .. Len(s.ops) : ops[k] \in VectorOf(OpWidth(s, k)) /\ ops[k].sgn = s.ops[k].sgn

\* The operands that are looked at are.
LEMMA OperandsType ==
  ASSUME NEW s \in Shapes, NEW ops \in Operands(s)
  PROVE  OperandsOK(s, ops)
<1> DEFINE of(k) == {Vector(s.ops[k].sgn, b) : b \in Values[OpWidth(s, k)]}
<1>1. ShapeOK(s)
  BY ShapesOK
<1>2. ASSUME NEW k \in 1 .. Len(s.ops), NEW a \in of(k)
      PROVE  a \in VectorOf(OpWidth(s, k)) /\ a.sgn = s.ops[k].sgn
  <2>1. PICK b \in Values[OpWidth(s, k)] : a = Vector(s.ops[k].sgn, b)
    OBVIOUS
  <2>2. b \in [1 .. OpWidth(s, k) -> Logic]
    BY ExpressionAssumption
  <2>3. s.ops[k].sgn \in SignTypes
    BY <1>1 DEF ShapeOK
  <2> QED BY <2>1, <2>2, <2>3, VectorType DEF Vector
<1>3. \/ Len(s.ops) = 1 /\ \E a \in of(1) : ops = <<a>>
      \/ Len(s.ops) = 2 /\ \E a \in of(1), b \in of(2) : ops = <<a, b>>
      \/ Len(s.ops) = 3 /\ \E a \in of(1), b \in of(2), c \in of(3) : ops = <<a, b, c>>
  <2>1. Operands(s) = CASE Len(s.ops) = 1 -> {<<a>> : a \in of(1)}
                        [] Len(s.ops) = 2 -> {<<a, b>> : a \in of(1), b \in of(2)}
                        [] Len(s.ops) = 3 -> {<<a, b, c>> : a \in of(1), b \in of(2), c \in of(3)}
    BY DEF Operands
  <2> HIDE DEF of
  <2>2. Len(s.ops) = 1 \/ Len(s.ops) = 2 \/ Len(s.ops) = 3
    BY <1>1 DEF ShapeOK
  <2> QED BY <2>1, <2>2
<1> HIDE DEF of
<1>4. CASE Len(s.ops) = 1
  BY <1>2, <1>3, <1>4 DEF OperandsOK
<1>5. CASE Len(s.ops) = 2
  BY <1>2, <1>3, <1>5 DEF OperandsOK
<1>6. CASE Len(s.ops) = 3
  BY <1>2, <1>3, <1>6 DEF OperandsOK
<1> QED BY <1>1, <1>4, <1>5, <1>6 DEF ShapeOK

\* The widths of the operands add up to a bit at least.
LEMMA TotalType ==
  ASSUME NEW s, ShapeOK(s)
  PROVE  Total(s) \in Nat \ {0}
<1> DEFINE n == Len(s.ops)
           G == [k \in 1 .. n |-> [x \in Nat |-> x + OpWidth(s, k)]]
           sum == CHOOSE f : f = [k \in 0 .. Len(s.ops) |->
                    IF k = 0 THEN 0 ELSE f[k - 1] + OpWidth(s, k)]
<1>1. n \in Nat \ {0} /\ \A k \in 1 .. n : OpWidth(s, k) \in Nat \ {0}
  <2>1. n \in 1 .. 3 /\ \A k \in 1 .. n : OpWidth(s, k) \in Nat \ {0}
    BY Zenon DEF ShapeOK
  <2> HIDE DEF n
  <2> QED BY <2>1
<1>2. G \in [1 .. n -> [Nat -> Nat]]
  BY <1>1
<1>3. PICK f : Steps(f, n, Nat, 0, G)
  <2> HIDE DEF G, n
  <2> QED BY <1>1, <1>2, Recursive
<1>4. f = [k \in 0 .. Len(s.ops) |-> IF k = 0 THEN 0 ELSE f[k - 1] + OpWidth(s, k)]
  <2>1. \A k \in 1 .. n : f[k - 1] \in Nat
    <3> HIDE DEF n
    <3> QED BY <1>1, <1>3 DEF Steps
  <2>2. \A k \in 1 .. n : f[k] = f[k - 1] + OpWidth(s, k)
    BY <2>1, <1>3 DEF Steps
  <2>3. f \in [0 .. n -> Nat] /\ f[0] = 0
    BY <1>3 DEF Steps
  <2> HIDE DEF G
  <2> QED BY <1>1, <2>2, <2>3
<1>5. sum = [k \in 0 .. Len(s.ops) |-> IF k = 0 THEN 0 ELSE sum[k - 1] + OpWidth(s, k)]
  BY <1>4
<1>6. Total(s) = sum[n]
  BY DEF Total
<1> HIDE DEF sum
<1>7. sum[0] = 0 /\ \A k \in 1 .. n : sum[k] = sum[k - 1] + OpWidth(s, k)
  BY <1>1, <1>5, SMTT(30)
<1>8. Steps(sum, n, Nat, 0, G)
  <2>1. FunctionOn(sum, 0 .. n)
    BY <1>5 DEF FunctionOn
  <2>2. \A k \in 1 .. n : sum[k - 1] \in Nat => sum[k] = G[k][sum[k - 1]]
    BY <1>7
  <2> HIDE DEF G, n
  <2> QED BY <1>1, <1>2, <1>7, <2>1, <2>2, StepsOf
<1>9. sum[n - 1] \in Nat /\ n \in 1 .. n
  <2> HIDE DEF G, n
  <2> QED BY <1>1, <1>8 DEF Steps
<1> HIDE DEF n
<1> QED BY <1>1, <1>6, <1>7, <1>9

\* The operands an operator takes are there.
LEMMA OperandsThere ==
  ASSUME NEW s, ShapeOK(s)
  PROVE  /\ 1 \in 1 .. Len(s.ops) /\ OpWidth(s, 1) \in Nat \ {0}
         /\ s.op \in Pairs \cup {"?:"} => 2 \in 1 .. Len(s.ops) /\ OpWidth(s, 2) \in Nat \ {0}
         /\ s.op = "?:" => 3 \in 1 .. Len(s.ops) /\ OpWidth(s, 3) \in Nat \ {0}
<1> DEFINE n == Len(s.ops)
<1>1. /\ n \in 1 .. 3 /\ \A k \in 1 .. n : OpWidth(s, k) \in Nat \ {0}
      /\ s.op \in Pairs => n = 2
      /\ s.op = "?:" => n = 3
  BY Zenon DEF ShapeOK
<1>2. 1 \in 1 .. n /\ (s.op \in Pairs => 2 \in 1 .. n)
      /\ (s.op = "?:" => 2 \in 1 .. n /\ 3 \in 1 .. n)
  <2> HIDE DEF n
  <2> QED BY <1>1
<1> HIDE DEF n
<1>3. /\ 1 \in 1 .. n /\ OpWidth(s, 1) \in Nat \ {0}
      /\ s.op \in Pairs \cup {"?:"} => 2 \in 1 .. n /\ OpWidth(s, 2) \in Nat \ {0}
      /\ s.op = "?:" => 3 \in 1 .. n /\ OpWidth(s, 3) \in Nat \ {0}
  BY <1>1, <1>2, Zenon
<1> QED BY <1>3, Zenon DEF n

\* The result is of a bit at least.
LEMMA ResultWidthType ==
  ASSUME NEW s, ShapeOK(s)
  PROVE  ResultWidth(s) \in Nat \ {0}
<1>1. /\ s.need \in Nat /\ OpWidth(s, 1) \in Nat \ {0}
      /\ s.op \in Pairs \cup {"?:"} => OpWidth(s, 2) \in Nat \ {0}
      /\ s.op = "?:" => OpWidth(s, 3) \in Nat \ {0}
  BY OperandsThere DEF ShapeOK
<1>3. CASE s.op = "concat"
  <2>1. s.need \in Nat /\ s.need > 0 /\ Total(s) \in Nat \ {0}
    BY <1>3, TotalType DEF ShapeOK
  <2>2. s.need * Total(s) \in Nat \ {0}
    BY <2>1
  <2>3. ResultWidth(s) = s.need * Total(s)
    BY <1>3 DEF ResultWidth, Sums, Masks, Relations, Reductions, Shifts
  <2> QED BY <2>2, <2>3
<1>4. CASE s.op \in Relations \cup Reductions \cup {"!"}
  BY <1>4 DEF ResultWidth, Sums, Masks, Relations, Reductions, Shifts
<1>5. CASE s.op = "?:"
  BY <1>1, <1>5 DEF ResultWidth, Wider, Sums, Masks, Relations, Reductions, Shifts
<1>6. CASE s.op \in Sums \cup Masks
  BY <1>1, <1>6 DEF ResultWidth, Wider, Sums, Masks, Relations, Reductions, Shifts, Pairs
<1>7. CASE s.op = "*"
  BY <1>1, <1>7 DEF ResultWidth, Wider, Sums, Masks, Relations, Reductions, Shifts, Pairs
<1>8. CASE s.op \in Shifts \cup {"~", "u+", "u-"}
  BY <1>1, <1>8 DEF ResultWidth, Wider, Sums, Masks, Relations, Reductions, Shifts, Pairs
<1> QED BY <1>3, <1>4, <1>5, <1>6, <1>7, <1>8 DEF ShapeOK, Singles, Pairs

-----------------------------------------------------------------------------
(***************************************************************************)
(* What an evaluation computes.                                            *)
(***************************************************************************)

\* A vector of a bit or more.
IsVector(v) == \E m \in Nat \ {0} : v \in VectorOf(m)

\* The vector of a bool.
LEMMA OfBoolType ==
  ASSUME NEW b \in BOOLEAN
  PROVE  IsVector(OfBool(b))
<1> DEFINE x == IF b THEN 1 ELSE 0
<1>1. x \in 0 .. Below(DecimalBits) - 1
  <2> DEFINE d == DecimalBits - 1
  <2>1. d \in Nat /\ d + 1 = DecimalBits
    BY LogicVectorAssumption
  <2> HIDE DEF d
  <2>2. Below(d) \in Nat \ {0} /\ Below(d + 1) = 2 * Below(d)
    BY <2>1, BelowProperties
  <2> QED BY <2>1, <2>2
<1>2. OfBool(b) = OfDecimal(x)
  BY DEF OfBool
<1> HIDE DEF x
<1> QED BY <1>1, <1>2, OfDecimalType DEF IsVector

\* The vector of a logic value.
LEMMA OfLogicIsVector ==
  ASSUME NEW a \in Logic
  PROVE  IsVector(OfLogic(a))
<1>1. 1 \in Nat \ {0}
  OBVIOUS
<1> QED BY <1>1, OfLogicType DEF IsVector

\* A comparison gives a logic value.
LEMMA ComparisonType ==
  ASSUME NEW l, NEW r
  PROVE  /\ IsEqual(l, r) \in Logic /\ CompareC(l, r) \in Logic
         /\ IsLess(l, r) \in Logic /\ Not(l) \in Logic
<1>1. IsEqual(l, r) \in Logic
  BY InvType DEF IsEqual, CompareForward, Equal, Logic
<1>2. CompareC(l, r) \in Logic
  BY DEF CompareC, CompareForward, EqualCase, Logic
<1>3. IsLess(l, r) \in Logic
  BY DEF IsLess, Less, Logic
<1>4. Not(l) \in Logic
  BY DEF Not, Logic
<1> QED BY <1>1, <1>2, <1>3, <1>4

\* A relation gives a vector.
LEMMA RelationType ==
  ASSUME NEW op \in Relations, NEW l, NEW r
  PROVE  IsVector(Relation(op, l, r))
<1>1. /\ IsVector(OfLogic(IsEqual(l, r))) /\ IsVector(OfLogic(Inv(IsEqual(l, r))))
      /\ IsVector(OfLogic(CompareC(l, r))) /\ IsVector(OfLogic(Inv(CompareC(l, r))))
      /\ IsVector(OfLogic(IsLess(l, r))) /\ IsVector(OfLogic(IsLess(r, l)))
      /\ IsVector(OfLogic(Inv(IsLess(l, r)))) /\ IsVector(OfLogic(Inv(IsLess(r, l))))
  BY ComparisonType, InvType, OfLogicIsVector
<1>2. IsVector(OfBool(IsTrue(l) /\ IsTrue(r))) /\ IsVector(OfBool(IsTrue(l) \/ IsTrue(r)))
  BY OfBoolType
<1>3. CASE op = "=="
  BY <1>1, <1>3 DEF Relation
<1>4. CASE op = "!="
  BY <1>1, <1>4 DEF Relation
<1>5. CASE op = "==="
  BY <1>1, <1>5 DEF Relation
<1>6. CASE op = "!=="
  BY <1>1, <1>6 DEF Relation
<1>7. CASE op = "<"
  BY <1>1, <1>7 DEF Relation
<1>8. CASE op = ">"
  BY <1>1, <1>8 DEF Relation
<1>9. CASE op = "<="
  BY <1>1, <1>9 DEF Relation
<1>10. CASE op = ">="
  BY <1>1, <1>10 DEF Relation
<1>11. CASE op = "&&"
  BY <1>2, <1>11 DEF Relation
<1>12. CASE op = "||"
  BY <1>2, <1>12 DEF Relation
<1> QED BY <1>3, <1>4, <1>5, <1>6, <1>7, <1>8, <1>9, <1>10, <1>11, <1>12 DEF Relations

\* A mask gives as many bits as are asked for.
LEMMA MaskType ==
  ASSUME NEW op \in Masks, NEW n \in Nat, NEW m \in Nat, NEW k \in Nat,
         NEW l \in [1 .. m -> Logic], NEW r \in [1 .. k -> Logic]
  PROVE  Mask(op, n, l, r) \in [1 .. n -> Logic]
<1>1. \A i \in 1 .. n : At(l, i) \in Logic /\ At(r, i) \in Logic
  <2>1. \A i \in 1 .. n : At(l, i) \in Logic
    BY AtType
  <2>2. \A i \in 1 .. n : At(r, i) \in Logic
    BY AtType
  <2> QED BY <2>1, <2>2
<1>2. \A i \in 1 .. n : /\ And(At(l, i), At(r, i)) \in Logic /\ Or(At(l, i), At(r, i)) \in Logic
                        /\ Xor(At(l, i), At(r, i)) \in Logic /\ Equal(At(l, i), At(r, i)) \in Logic
  BY <1>1, LogicOpTypes
<1>3. \A a, b : Inv(And(a, b)) \in Logic /\ Inv(Or(a, b)) \in Logic
  BY InvType
<1>4. CASE op = "&"
  BY <1>2, <1>4 DEF Mask, LogicOp
<1>5. CASE op = "~&"
  BY <1>3, <1>5 DEF Mask, LogicOp
<1>6. CASE op = "|"
  BY <1>2, <1>6 DEF Mask, LogicOp
<1>7. CASE op = "~|"
  BY <1>3, <1>7 DEF Mask, LogicOp
<1>8. CASE op = "^"
  BY <1>2, <1>8 DEF Mask, LogicOp
<1>9. CASE op = "~^"
  BY <1>2, <1>9 DEF Mask, LogicOp
<1> QED BY <1>4, <1>5, <1>6, <1>7, <1>8, <1>9 DEF Masks

\* The parity of bits is a logic value.
LEMMA ReduceXorType ==
  ASSUME NEW n \in Nat, NEW b \in [1 .. n -> Logic]
  PROVE  ReduceXor(b) \in Logic
<1> DEFINE G == [i \in 1 .. n |-> [x \in Logic |-> Xor(x, b[i])]]
           parity == CHOOSE f : f = [i \in 0 .. Len(b) |->
                       IF i = 0 THEN LO ELSE Xor(f[i - 1], b[i])]
<1>0. Len(b) = n /\ LO \in Logic
  BY DEF Logic
<1>1. G \in [1 .. n -> [Logic -> Logic]]
  BY LogicOpTypes
<1>2. PICK f : Steps(f, n, Logic, LO, G)
  <2> HIDE DEF G
  <2> QED BY <1>0, <1>1, Recursive
<1>3. f = [i \in 0 .. Len(b) |-> IF i = 0 THEN LO ELSE Xor(f[i - 1], b[i])]
  <2>1. \A i \in 1 .. n : f[i - 1] \in Logic
    BY <1>2 DEF Steps
  <2>2. \A i \in 1 .. n : f[i] = Xor(f[i - 1], b[i])
    BY <2>1, <1>2 DEF Steps
  <2>3. f \in [0 .. n -> Logic] /\ f[0] = LO
    BY <1>2 DEF Steps
  <2> HIDE DEF G
  <2> QED BY <1>0, <2>2, <2>3
<1>4. parity = [i \in 0 .. Len(b) |-> IF i = 0 THEN LO ELSE Xor(parity[i - 1], b[i])]
  BY <1>3
<1>5. ReduceXor(b) = parity[n]
  BY <1>0 DEF ReduceXor
<1> HIDE DEF parity
<1>6. parity[0] = LO /\ \A i \in 1 .. n : parity[i] = Xor(parity[i - 1], b[i])
  BY <1>0, <1>4
<1>7. Steps(parity, n, Logic, LO, G)
  <2>1. FunctionOn(parity, 0 .. n)
    BY <1>0, <1>4 DEF FunctionOn
  <2>2. \A i \in 1 .. n : parity[i - 1] \in Logic => parity[i] = G[i][parity[i - 1]]
    BY <1>6
  <2> HIDE DEF G
  <2> QED BY <1>0, <1>1, <1>6, <2>1, <2>2, StepsOf
<1> QED BY <1>5, <1>7 DEF Steps

\* A reduction gives a logic value.
LEMMA ReductionType ==
  ASSUME NEW op \in Reductions, NEW n \in Nat, NEW b \in [1 .. n -> Logic]
  PROVE  Reduction(op, b) \in Logic
<1>1. ReduceAnd(b) \in Logic /\ ReduceOr(b) \in Logic
  BY DEF ReduceAnd, ReduceOr, Logic
<1>2. ReduceXor(b) \in Logic
  BY ReduceXorType
<1>3. CASE op = "r&"
  BY <1>1, <1>3 DEF Reduction
<1>4. CASE op = "r~&"
  BY <1>4, InvType DEF Reduction
<1>5. CASE op = "r|"
  BY <1>1, <1>5 DEF Reduction
<1>6. CASE op = "r~|"
  BY <1>6, InvType DEF Reduction
<1>7. CASE op = "r^"
  BY <1>2, <1>7 DEF Reduction
<1>8. CASE op = "r~^"
  BY <1>8, InvType DEF Reduction
<1> QED BY <1>3, <1>4, <1>5, <1>6, <1>7, <1>8 DEF Reductions

\* The operands of a concatenation, one behind the other.
Joined(ops) ==
  LET low[k \in 1 .. Len(ops) + 1] ==
        IF k > Len(ops) THEN <<>> ELSE low[k + 1] \o ops[k].bits
  IN  low[1]

\* They are a bit at least.
LEMMA JoinedType ==
  ASSUME NEW n \in Nat \ {0}, NEW ops, Len(ops) = n,
         \A k \in 1 .. n : ops[k].bits \in Seq(Logic) /\ Len(ops[k].bits) > 0
  PROVE  Joined(ops) \in Seq(Logic) /\ Len(Joined(ops)) \in Nat \ {0}
<1> DEFINE S == Seq(Logic)
           next(k, x) == x \o ops[k].bits
           G == [k \in 1 .. n |-> [x \in S |-> next(k, x)]]
           empty == <<>>
           low == CHOOSE f : f = [k \in 1 .. Len(ops) + 1 |->
                    IF k > Len(ops) THEN empty ELSE next(k, f[k + 1])]
<1>1. G \in [1 .. n -> [S -> S]]
  <2>1. ASSUME NEW k \in 1 .. n, NEW x \in S PROVE next(k, x) \in S
    OBVIOUS
  <2> HIDE DEF S, next
  <2> QED BY <2>1
<1>2. empty \in S
  OBVIOUS
<1>3. PICK f : StepsDown(f, n, S, empty, G)
  <2> HIDE DEF G, S, empty
  <2> QED BY <1>1, <1>2, RecursiveDown
<1>4. Joined(ops) = low[1]
  BY DEF Joined
<1> HIDE DEF S, next, empty
<1>5. f = [k \in 1 .. Len(ops) + 1 |-> IF k > Len(ops) THEN empty ELSE next(k, f[k + 1])]
  <2>1. ASSUME NEW k \in 1 .. n PROVE f[k] = next(k, f[k + 1])
    <3>1. f[k + 1] \in S /\ f[k] = G[k][f[k + 1]]
      <4>1. k + 1 \in 1 .. n + 1
        OBVIOUS
      <4> HIDE DEF G
      <4> QED BY <4>1, <1>3 DEF StepsDown
    <3> QED BY <3>1
  <2>2. f \in [1 .. n + 1 -> S] /\ f[n + 1] = empty
    BY <1>3 DEF StepsDown
  <2>3. \A k \in 1 .. n + 1 : (k > n <=> k = n + 1) /\ (~(k > n) <=> k \in 1 .. n)
    OBVIOUS
  <2> HIDE DEF G
  <2> QED BY <2>1, <2>2, <2>3
<1>6. low = [k \in 1 .. Len(ops) + 1 |-> IF k > Len(ops) THEN empty ELSE next(k, low[k + 1])]
  BY <1>5
<1> HIDE DEF low
<1>7. low[n + 1] = empty /\ \A k \in 1 .. n : low[k] = next(k, low[k + 1])
  BY <1>6
<1>8. StepsDown(low, n, S, empty, G)
  <2>1. FunctionOn(low, 1 .. n + 1)
    BY <1>6 DEF FunctionOn
  <2>2. \A k \in 1 .. n : low[k + 1] \in S => low[k] = G[k][low[k + 1]]
    BY <1>7
  <2> HIDE DEF G
  <2> QED BY <1>1, <1>2, <1>7, <2>1, <2>2, StepsDownOf
<1>9. \A k \in 1 .. n + 1 : low[k] \in S
  <2> HIDE DEF G
  <2> QED BY <1>8 DEF StepsDown
<1>10. low[1] = low[2] \o ops[1].bits /\ low[2] \in Seq(Logic) /\ low[1] \in Seq(Logic)
  <2>1. 1 \in 1 .. n /\ 2 \in 1 .. n + 1 /\ 1 \in 1 .. n + 1 /\ 1 + 1 = 2
    OBVIOUS
  <2>2. low[1] = next(1, low[2]) /\ low[2] \in S /\ low[1] \in S
    BY <1>7, <1>9, <2>1
  <2> QED BY <2>2 DEF next, S
<1>11. 1 \in 1 .. n
  OBVIOUS
<1>12. ops[1].bits \in Seq(Logic) /\ Len(ops[1].bits) > 0
  BY <1>11
<1>13. Len(low[1]) \in Nat \ {0}
  <2> DEFINE a == Len(low[2])
             b == Len(ops[1].bits)
  <2>1. Len(low[1]) = a + b
    BY <1>10, <1>12, ConcatProperties
  <2>2. a \in Nat /\ b \in Nat /\ b > 0
    BY <1>10, <1>12, LenProperties
  <2> HIDE DEF a, b
  <2> QED BY <2>1, <2>2
<1> QED BY <1>4, <1>10, <1>13

\* A concatenation fills the vector it is put into.
LEMMA ConcatenationType ==
  ASSUME NEW s, ShapeOK(s), NEW ops, OperandsOK(s, ops), NEW n \in Nat \ {0}, NEW res \in VectorOf(n)
  PROVE  Concatenation(s, res, ops) \in VectorOf(n)
<1> DEFINE m == Len(s.ops)
           all == Joined(ops)
           b == [i \in 1 .. n |-> all[((i - 1) % Len(all)) + 1]]
<1>1. m \in Nat \ {0} /\ \A k \in 1 .. m : OpWidth(s, k) \in Nat \ {0}
  <2>1. m \in 1 .. 3 /\ \A k \in 1 .. m : OpWidth(s, k) \in Nat \ {0}
    BY Zenon DEF ShapeOK
  <2> HIDE DEF m
  <2> QED BY <2>1
<1>2. Len(ops) = m /\ \A k \in 1 .. m : ops[k] \in VectorOf(OpWidth(s, k))
  BY Zenon DEF OperandsOK
<1> HIDE DEF m
<1>3. \A k \in 1 .. m : ops[k].bits \in Seq(Logic) /\ Len(ops[k].bits) > 0 /\ ops[k].sgn \in SignTypes
  <2> SUFFICES ASSUME NEW k \in 1 .. m
               PROVE  ops[k].bits \in Seq(Logic) /\ Len(ops[k].bits) > 0 /\ ops[k].sgn \in SignTypes
    OBVIOUS
  <2>1. Width(ops[k]) = OpWidth(s, k) /\ OpWidth(s, k) > 0
        /\ ops[k].bits \in Seq(Logic) /\ ops[k].sgn \in SignTypes
    BY <1>1, <1>2, VectorWidth
  <2> QED BY <2>1 DEF Width
<1>4. all \in Seq(Logic) /\ Len(all) \in Nat \ {0}
  BY <1>1, <1>2, <1>3, JoinedType
<1> HIDE DEF all
<1>5. b \in [1 .. n -> Logic]
  <2>1. ASSUME NEW i \in 1 .. n PROVE all[((i - 1) % Len(all)) + 1] \in Logic
    <3>1. (i - 1) % Len(all) \in 0 .. Len(all) - 1
      BY <1>4
    <3>2. ((i - 1) % Len(all)) + 1 \in 1 .. Len(all)
      BY <1>4, <3>1
    <3> QED BY <1>4, <3>2, ElementOfSeq
  <2> QED BY <2>1
<1>6. Concatenation(s, res, ops) = Vector(Adopt(res, ops[1].sgn), b)
  <2>1. Width(res) = n
    BY VectorWidth
  <2> QED BY <2>1, Zenon DEF Concatenation, Joined, all
<1>7. 1 \in 1 .. m
  BY <1>1
<1>8. Adopt(res, ops[1].sgn) \in SignTypes
  BY <1>3, <1>7, AdoptType
<1> HIDE DEF b
<1> QED BY <1>5, <1>6, <1>8, VectorType

\* A conditional fills the vector it is put into.
LEMMA TernaryType ==
  ASSUME NEW n \in Nat, NEW m \in Nat \ {0}, NEW k \in Nat \ {0},
         NEW res \in VectorOf(n), NEW c, NEW t \in VectorOf(m), NEW f \in VectorOf(k)
  PROVE  TernaryResult(res, c, t, f) \in VectorOf(n)
<1>1. Assigned(res, t) \in VectorOf(n) /\ Assigned(res, f) \in VectorOf(n)
  BY AssignedType
<1>2. LogicOp(Ternary, n, t.bits, f.bits) \in [1 .. n -> Logic]
  <2>1. \A i \in 1 .. n : Ternary(At(t.bits, i), At(f.bits, i)) \in Logic
    BY VectorWidth, AtType, LogicOpTypes
  <2> QED BY <2>1 DEF LogicOp
<1>3. Vector(res.sgn, LogicOp(Ternary, n, t.bits, f.bits)) \in VectorOf(n) /\ Width(res) = n
  BY <1>2, VectorWidth, VectorType
<1> QED BY <1>1, <1>3 DEF TernaryResult

\* The operands of an operator, in vectors of their widths.
LEMMA OperandVectors ==
  ASSUME NEW s, ShapeOK(s), NEW ops, OperandsOK(s, ops)
  PROVE  /\ OpWidth(s, 1) \in Nat \ {0} /\ ops[1] \in VectorOf(OpWidth(s, 1))
         /\ ops[1].sgn = s.ops[1].sgn
         /\ s.op \in Pairs \cup {"?:"} =>
              OpWidth(s, 2) \in Nat \ {0} /\ ops[2] \in VectorOf(OpWidth(s, 2))
         /\ s.op = "?:" => OpWidth(s, 3) \in Nat \ {0} /\ ops[3] \in VectorOf(OpWidth(s, 3))
BY OperandsThere, Zenon DEF OperandsOK

\* The kinds of operators do not overlap.
LEMMA Kinds ==
  ASSUME NEW s, ShapeOK(s)
  PROVE  \/ s.op \in Sums \cup {"*"} /\ s.op \in Pairs
         \/ s.op \in Masks /\ s.op \in Pairs
         \/ s.op \in Relations /\ s.op \in Pairs
         \/ s.op \in Shifts /\ s.op \in Pairs
         \/ s.op \in Reductions
         \/ s.op \in {"!", "~", "u+", "u-", "?:", "concat"}
BY DEF ShapeOK, Singles, Pairs

\* Whatever is computed fills the vector it is put into.
LEMMA ComputedType ==
  ASSUME NEW s, ShapeOK(s), NEW ops, OperandsOK(s, ops), NEW n \in Nat \ {0}, NEW res \in VectorOf(n)
  PROVE  Computed(s, res, ops) \in VectorOf(n)
<1> DEFINE l == ops[1]
           r == ops[2]
           m == OpWidth(s, 1)
           k == OpWidth(s, 2)
<1>1. m \in Nat \ {0} /\ l \in VectorOf(m)
  BY OperandVectors
<1>2. s.op \in Pairs \cup {"?:"} => k \in Nat \ {0} /\ r \in VectorOf(k)
  BY OperandVectors
<1>3. Width(res) = n /\ res.sgn \in SignTypes /\ l.bits \in [1 .. m -> Logic]
  BY <1>1, VectorWidth
<1>4. ASSUME NEW v, IsVector(v) PROVE Assigned(res, v) \in VectorOf(n)
  BY <1>4, AssignedType DEF IsVector
<1>5. ASSUME NEW b \in [1 .. n -> Logic] PROVE Vector(res.sgn, b) \in VectorOf(n)
  BY <1>3, VectorType
<1>6. CASE s.op \in Sums \cup {"*"} /\ s.op \in Pairs
  <2>1. Computed(s, res, ops) = Sum(s.op, res, l, r)
    BY <1>6 DEF Computed, Sums, Masks, Relations, Reductions, Shifts
  <2> HIDE DEF l, r, m, k
  <2>2. CASE s.op = "+"
    BY <1>1, <1>2, <1>6, <2>1, <2>2, BinaryAddType DEF Sum
  <2>3. CASE s.op = "-"
    BY <1>1, <1>2, <1>6, <2>1, <2>3, BinarySubType DEF Sum
  <2>4. CASE s.op = "*"
    BY <1>1, <1>2, <1>6, <2>1, <2>4, BinaryMulType DEF Sum
  <2>5. CASE s.op = "/"
    BY <1>1, <1>2, <1>6, <2>1, <2>5, BinaryDivModType DEF Sum
  <2>6. CASE s.op = "%"
    BY <1>1, <1>2, <1>6, <2>1, <2>6, BinaryDivModType DEF Sum
  <2> QED BY <1>6, <2>2, <2>3, <2>4, <2>5, <2>6 DEF Sums
<1>7. CASE s.op \in Masks /\ s.op \in Pairs
  <2>1. Computed(s, res, ops) = Vector(res.sgn, Mask(s.op, n, l.bits, r.bits))
    BY <1>3, <1>7 DEF Computed, Sums, Masks, Relations, Reductions, Shifts
  <2> HIDE DEF l, r, m, k
  <2>2. r.bits \in [1 .. k -> Logic] /\ k \in Nat
    BY <1>2, <1>7, VectorWidth
  <2>3. Mask(s.op, n, l.bits, r.bits) \in [1 .. n -> Logic]
    BY <1>1, <1>3, <1>7, <2>2, MaskType
  <2> QED BY <1>5, <2>1, <2>3
<1>8. CASE s.op \in Relations /\ s.op \in Pairs
  <2>1. Computed(s, res, ops) = Assigned(res, Relation(s.op, l, r))
    BY <1>8 DEF Computed, Sums, Masks, Relations, Reductions, Shifts
  <2>2. IsVector(Relation(s.op, l, r))
    BY <1>8, RelationType
  <2> QED BY <1>4, <2>1, <2>2
<1>9. CASE s.op \in Shifts /\ s.op \in Pairs
  <2>1. Computed(s, res, ops) = Vector(res.sgn, Shift(s.op, n, l, r))
    BY <1>3, <1>9 DEF Computed, Sums, Masks, Relations, Reductions, Shifts
  <2> HIDE DEF l, r, m, k
  <2>2. Shift(s.op, n, l, r) \in [1 .. n -> Logic]
    BY <1>1, <1>2, <1>9, ShiftType DEF Shift
  <2> QED BY <1>5, <2>1, <2>2
<1>10. CASE s.op \in Reductions
  <2>1. Computed(s, res, ops) = Assigned(res, OfLogic(Reduction(s.op, l.bits)))
    BY <1>10 DEF Computed, Sums, Masks, Relations, Reductions, Shifts
  <2>2. Reduction(s.op, l.bits) \in Logic
    BY <1>1, <1>3, <1>10, ReductionType
  <2>3. IsVector(OfLogic(Reduction(s.op, l.bits)))
    BY <2>2, OfLogicIsVector
  <2> QED BY <1>4, <2>1, <2>3
<1>11. CASE s.op = "!"
  <2>1. Computed(s, res, ops) = Assigned(res, OfLogic(Not(l)))
    BY <1>11 DEF Computed, Sums, Masks, Relations, Reductions, Shifts
  <2>2. IsVector(OfLogic(Not(l)))
    BY ComparisonType, OfLogicIsVector
  <2> QED BY <1>4, <2>1, <2>2
<1>12. CASE s.op = "~"
  <2>1. Computed(s, res, ops) = Vector(res.sgn, UnaryInv(n, l.bits))
    BY <1>3, <1>12 DEF Computed, Sums, Masks, Relations, Reductions, Shifts
  <2> QED BY <1>5, <2>1, UnaryInvType
<1>13. CASE s.op = "u-"
  <2>1. Computed(s, res, ops) = Vector(res.sgn, UnaryNeg(n, l.bits))
    BY <1>3, <1>13 DEF Computed, Sums, Masks, Relations, Reductions, Shifts
  <2> QED BY <1>5, <2>1, UnaryNegType
<1>14. CASE s.op = "u+"
  <2>1. Computed(s, res, ops) = Assigned(res, l)
    BY <1>14 DEF Computed, Sums, Masks, Relations, Reductions, Shifts
  <2>2. IsVector(l)
    BY <1>1 DEF IsVector
  <2> QED BY <1>4, <2>1, <2>2
<1>15. CASE s.op = "?:"
  <2>1. Computed(s, res, ops) = TernaryResult(res, l, r, ops[3])
    BY <1>15 DEF Computed, Sums, Masks, Relations, Reductions, Shifts
  <2>2. OpWidth(s, 3) \in Nat \ {0} /\ ops[3] \in VectorOf(OpWidth(s, 3))
    BY <1>15, OperandVectors
  <2> HIDE DEF l, r, m, k
  <2> QED BY <1>2, <1>15, <2>1, <2>2, TernaryType
<1>16. CASE s.op = "concat"
  <2>1. Computed(s, res, ops) = Concatenation(s, res, ops)
    BY <1>16 DEF Computed, Sums, Masks, Relations, Reductions, Shifts
  <2> QED BY <2>1, ConcatenationType
<1> QED BY <1>6, <1>7, <1>8, <1>9, <1>10, <1>11, <1>12, <1>13, <1>14, <1>15, <1>16, Kinds

-----------------------------------------------------------------------------
(***************************************************************************)
(* The vector of the node.                                                 *)
(***************************************************************************)

\* The vector setup makes is of the width of the result.
LEMMA FreshType ==
  ASSUME NEW s, ShapeOK(s)
  PROVE  Fresh(s) \in VectorOf(ResultWidth(s))
<1>1. ResultWidth(s) \in Nat \ {0}
  BY ResultWidthType
<1>2. ResultSign(s) \in SignTypes
  BY DEF ResultSign, SignTypes
<1>3. Filled(ResultWidth(s), DC) \in [1 .. ResultWidth(s) -> Logic]
  BY <1>1, FilledType DEF Logic
<1> QED BY <1>2, <1>3, VectorType DEF Fresh

\* The vector of a node keeps the width setup gave it, for every operator and
\* operands of every width: but for the copy that leaves its memory (broken), no
\* algorithm of bvector.cc writes more bits than the result has, or leaves a
\* bit that is none of 0, 1, x and z.
THEOREM ExpressionTypeCorrect == Spec => []ExpressionTypeOK
<1>1. Init => ExpressionTypeOK
  BY ShapesOK, FreshType DEF Init, ExpressionTypeOK
<1>2. ExpressionTypeOK /\ [Next]_vars => ExpressionTypeOK'
  <2> SUFFICES ASSUME ExpressionTypeOK, [Next]_vars PROVE ExpressionTypeOK'
    OBVIOUS
  <2>1. CASE Evaluate
    <3>1. PICK ops \in Operands(node) : result' = Computed(node, result, ops)
      BY <2>1 DEF Evaluate
    <3>2. ShapeOK(node) /\ OperandsOK(node, ops)
      BY ShapesOK, OperandsType DEF ExpressionTypeOK
    <3>3. ResultWidth(node) \in Nat \ {0} /\ result \in VectorOf(ResultWidth(node))
      BY <3>2, ResultWidthType DEF ExpressionTypeOK
    <3>4. result' \in VectorOf(ResultWidth(node))
      BY <3>1, <3>2, <3>3, ComputedType
    <3>5. node' = node /\ broken' = broken
      BY <2>1 DEF Evaluate
    <3> QED BY <3>4, <3>5 DEF ExpressionTypeOK
  <2>2. CASE EvaluateOutside
    BY <2>2 DEF EvaluateOutside, ExpressionTypeOK
  <2>3. CASE UNCHANGED vars
    BY <2>3 DEF vars, ExpressionTypeOK
  <2> QED BY <2>1, <2>2, <2>3 DEF Next
<1> QED BY <1>1, <1>2, PTL DEF Spec

\* What is in the vector is what the last evaluation computed of its operands.
Latest ==
  Evaluated =>
    /\ args \in Operands(node)
    /\ \E old \in VectorOf(ResultWidth(node)) : result = Computed(node, old, args)

\* Only an evaluation changes the operands and the vector, and it changes both.
LEMMA LatestCorrect == Spec => []Latest
<1>1. Init => Latest
  BY DEF Init, Latest, Evaluated
<1>2. ExpressionTypeOK /\ Latest /\ [Next]_vars => Latest'
  <2> SUFFICES ASSUME ExpressionTypeOK, Latest, [Next]_vars PROVE Latest'
    OBVIOUS
  <2>1. CASE Evaluate
    <3>1. PICK ops \in Operands(node) : args' = ops /\ result' = Computed(node, result, ops)
      BY <2>1 DEF Evaluate
    <3>2. node' = node
      BY <2>1 DEF Evaluate
    <3>3. args' \in Operands(node') /\ result \in VectorOf(ResultWidth(node'))
          /\ result' = Computed(node', result, args')
      BY <3>1, <3>2 DEF ExpressionTypeOK
    <3> QED BY <3>3 DEF Latest
  <2>2. CASE EvaluateOutside
    BY <2>2 DEF EvaluateOutside, Latest, Evaluated
  <2>3. CASE UNCHANGED vars
    BY <2>3 DEF vars, Latest, Evaluated
  <2> QED BY <2>1, <2>2, <2>3 DEF Next
<1> QED BY <1>1, <1>2, ExpressionTypeCorrect, PTL DEF Spec

\* The operands and the vector of the last evaluation, for what follows.
LEMMA LatestOperands ==
  ASSUME ExpressionTypeOK, Latest, Evaluated
  PROVE  /\ ShapeOK(node) /\ OperandsOK(node, args) /\ ResultWidth(node) \in Nat \ {0}
         /\ Width(result) = ResultWidth(node)
         /\ \E old \in VectorOf(ResultWidth(node)) : result = Computed(node, old, args)
<1>1. ShapeOK(node)
  BY ShapesOK DEF ExpressionTypeOK
<1>2. OperandsOK(node, args)
  BY OperandsType DEF ExpressionTypeOK, Latest
<1>3. ResultWidth(node) \in Nat \ {0}
  BY <1>1, ResultWidthType
<1>4. Width(result) = ResultWidth(node)
  BY <1>3, VectorWidth DEF ExpressionTypeOK
<1> QED BY <1>1, <1>2, <1>3, <1>4 DEF Latest

-----------------------------------------------------------------------------
(***************************************************************************)
(* Conditions.                                                             *)
(***************************************************************************)

\* A condition that has an unknown bit and no one is neither zero nor not.
LEMMA UndecidedCondition ==
  ASSUME NEW m \in Nat \ {0}, NEW c \in VectorOf(m), ReduceOr(c.bits) = DC
  PROVE  IsLess(OfLogic(LO), c) = DC
<1> DEFINE l == OfLogic(LO)
           n == IF Width(l) > Width(c) THEN Width(l) ELSE Width(c)
           stops == {i \in 1 .. n : Less(At(l.bits, i), At(c.bits, i)) # Z}
<1>1. Width(c) = m /\ c.bits \in [1 .. m -> Logic] /\ Width(l) = 1 /\ l.bits = <<LO>> /\ l.sgn = "unsigned"
  BY VectorWidth DEF OfLogic, Vector, Width
<1>2. (\A i \in 1 .. m : c.bits[i] # HI) /\ \E i \in 1 .. m : ~Known(c.bits[i])
  <2>1. ~(\E i \in DOMAIN c.bits : c.bits[i] = HI) /\ ~AllKnown(c.bits)
    BY DEF ReduceOr
  <2> QED BY <1>1, <2>1 DEF AllKnown
<1>3. ~Negative(l) /\ ~Negative(c)
  BY <1>1, <1>2 DEF Negative, Top
<1>4. n = m
  BY <1>1
<1>5. \A i \in 1 .. m : At(l.bits, i) = LO /\ At(c.bits, i) = c.bits[i]
  <2> SUFFICES ASSUME NEW i \in 1 .. m PROVE At(l.bits, i) = LO /\ At(c.bits, i) = c.bits[i]
    OBVIOUS
  <2>1. At(l.bits, i) = LO
    BY <1>1 DEF At
  <2>2. At(c.bits, i) = c.bits[i]
    BY <1>1 DEF At
  <2> QED BY <2>1, <2>2
<1>6. \A i \in stops : Less(At(l.bits, i), At(c.bits, i)) = DC
  BY <1>2, <1>4, <1>5 DEF Less, Known
<1>7. stops # {} /\ stops \subseteq 1 .. m
  <2>1. PICK i \in 1 .. m : ~Known(c.bits[i])
    BY <1>2
  <2>2. Less(At(l.bits, i), At(c.bits, i)) # Z
    BY <1>5, <2>1 DEF Less
  <2> HIDE DEF l
  <2>3. i \in stops
    BY <1>4, <2>2
  <2> HIDE DEF n
  <2> QED BY <1>4, <2>3
<1>8. Last(stops) \in stops
  <2> HIDE DEF stops
  <2> QED BY <1>7, LastOf
<1>9. IsLess(l, c) = IF stops = {} THEN LO ELSE Less(At(l.bits, Last(stops)), At(c.bits, Last(stops)))
  <2> HIDE DEF l
  <2> QED BY <1>3, Zenon DEF IsLess
<1> HIDE DEF stops, l
<1>10. IsLess(l, c) = DC
  BY <1>6, <1>7, <1>8, <1>9
<1> QED BY <1>10 DEF l

\* The result of such a conditional.
LEMMA UndecidedResult ==
  ASSUME ExpressionTypeOK, Latest, Evaluated, node.op = "?:", ReduceOr(args[1].bits) = DC
  PROVE  result.bits = LogicOp(Ternary, Width(result), args[2].bits, args[3].bits)
<1>1. PICK old \in VectorOf(ResultWidth(node)) : result = Computed(node, old, args)
  BY LatestOperands
<1>2. result = TernaryResult(old, args[1], args[2], args[3])
  BY <1>1 DEF Computed, Sums, Masks, Relations, Reductions, Shifts
<1>3. IsLess(OfLogic(LO), args[1]) = DC
  BY LatestOperands, OperandVectors, UndecidedCondition
<1>4. Width(old) = Width(result)
  BY LatestOperands, VectorWidth
<1> QED BY <1>2, <1>3, <1>4 DEF TernaryResult, Vector

\* A conditional over an unknown condition never has a bit one of its
\* branches does not have (expr/eeval.cc, the ternary operator).
THEOREM BranchesCorrect == Spec => []BranchesAgree
<1>1. ExpressionTypeOK /\ Latest => BranchesAgree
  <2> SUFFICES ASSUME ExpressionTypeOK, Latest, Evaluated, node.op = "?:",
                      ReduceOr(args[1].bits) = DC,
                      NEW i \in 1 .. Width(result), Known(result.bits[i])
               PROVE  At(args[2].bits, i) = result.bits[i] /\ At(args[3].bits, i) = result.bits[i]
    BY DEF BranchesAgree
  <2>1. result.bits[i] = Ternary(At(args[2].bits, i), At(args[3].bits, i))
    BY UndecidedResult DEF LogicOp
  <2> QED BY <2>1 DEF Ternary, Known
<1> QED BY <1>1, ExpressionTypeCorrect, LatestCorrect, PTL

-----------------------------------------------------------------------------
(***************************************************************************)
(* Unknown bits.                                                           *)
(***************************************************************************)

\* A vector without a number is not known.
LEMMA FilledUnknown ==
  ASSUME NEW n \in Nat \ {0}
  PROVE  ~AllKnown(Filled(n, DC))
<1> DEFINE b == Filled(n, DC)
<1>1. 1 \in DOMAIN b /\ b[1] = DC
  BY DEF Filled
<1> HIDE DEF b
<1>2. ~AllKnown(b)
  BY <1>1 DEF AllKnown, Known
<1> QED BY <1>2 DEF b

\* A difference of an unknown bit is unknown.
LEMMA SubUnknown ==
  ASSUME NEW n \in Nat \ {0}, NEW m \in 1 .. n, NEW k \in 1 .. n,
         NEW res \in VectorOf(n), NEW l \in VectorOf(m), NEW r \in VectorOf(k),
         ~AllKnown(l.bits) \/ ~AllKnown(r.bits)
  PROVE  ~AllKnown(BinarySub(res, l, r).bits)
<1>1. /\ Width(res) = n /\ DOMAIN l.bits = 1 .. m /\ DOMAIN r.bits = 1 .. k
      /\ Len(l.bits) = m /\ Len(r.bits) = k
  BY VectorWidth DEF Width
<1>2. \E i \in 1 .. n : ~Known(At(l.bits, i)) \/ ~Known(At(r.bits, i))
  BY <1>1 DEF AllKnown, At
<1>3. BinarySub(res, l, r).bits = Filled(n, DC)
  BY <1>1, <1>2 DEF BinarySub, Vector
<1> QED BY <1>3, FilledUnknown

\* A sum of an unknown bit has an unknown bit: it meets the bit and is unknown
\* altogether, or it has stopped before and copies the rest of the operand.
LEMMA AddUnknown ==
  ASSUME NEW n \in Nat \ {0}, NEW m \in 1 .. n, NEW k \in 1 .. n, NEW old \in [1 .. n -> Logic],
         NEW l \in [1 .. m -> Logic], NEW r \in [1 .. k -> Logic],
         ~AllKnown(l) \/ ~AllKnown(r)
  PROVE  ~AllKnown(AddBits(old, l, r))
<1> DEFINE end == AddHalt(l, r, n)
           b == AddBits(old, l, r)
<1>1. end \in 1 .. n + 1 /\ (end <= n => end > Len(l) \/ end > Len(r))
  BY AddHaltType
<1>2. Len(l) = m /\ Len(r) = k /\ DOMAIN l = 1 .. m /\ DOMAIN r = 1 .. k
  OBVIOUS
<1>3. CASE AddMeetsUnknown(l, r, n)
  <2>1. b = Filled(n, DC)
    BY <1>3 DEF AddBits
  <2> QED BY <2>1, FilledUnknown
<1>4. CASE ~AddMeetsUnknown(l, r, n)
  <2>1. \A i \in 1 .. end - 1 : Known(At(l, i)) /\ Known(At(r, i))
    BY <1>4 DEF AddMeetsUnknown
  <2> DEFINE clear == end > Len(r) /\ Len(l) <= Len(r)
             long == IF Len(l) > Len(r) THEN l ELSE r
  <2>2. b = [i \in 1 .. n |->
               IF i < end THEN SumBit(l, r, Carries(l, r, n), i)
               ELSE IF clear THEN LO
               ELSE IF i <= Len(long) THEN long[i]
               ELSE old[i]]
    BY <1>4 DEF AddBits
  <2> HIDE DEF end, b
  <2>3. CASE ~AllKnown(l)
    <3>1. PICK j \in 1 .. m : ~Known(l[j])
      BY <1>2, <2>3 DEF AllKnown
    <3>2. j \in 1 .. n /\ ~(j < end)
      BY <1>1, <1>2, <2>1, <3>1 DEF At
    <3>3. ~clear /\ long = l /\ j <= Len(long)
      BY <1>1, <1>2, <3>2
    <3>4. b[j] = l[j] /\ j \in DOMAIN b
      BY <2>2, <3>2, <3>3
    <3>5. ~AllKnown(b)
      BY <3>1, <3>4 DEF AllKnown
    <3> QED BY <3>5 DEF b
  <2>4. CASE ~AllKnown(r)
    <3>1. PICK j \in 1 .. k : ~Known(r[j])
      BY <1>2, <2>4 DEF AllKnown
    <3>2. j \in 1 .. n /\ ~(j < end)
      BY <1>1, <1>2, <2>1, <3>1 DEF At
    <3>3. ~clear /\ long = r /\ j <= Len(long)
      BY <1>1, <1>2, <3>2
    <3>4. b[j] = r[j] /\ j \in DOMAIN b
      BY <2>2, <3>2, <3>3
    <3>5. ~AllKnown(b)
      BY <3>1, <3>4 DEF AllKnown
    <3> QED BY <3>5 DEF b
  <2> QED BY <2>3, <2>4
<1> QED BY <1>3, <1>4

\* The complement of a number of an unknown bit has it, too.
LEMMA NegUnknown ==
  ASSUME NEW n \in Nat \ {0}, NEW m \in 1 .. n, NEW b \in [1 .. m -> Logic], ~AllKnown(b)
  PROVE  ~AllKnown(UnaryNeg(n, b))
<1> DEFINE d == UnaryInv(n, b)
           one == <<HI>>
           halts == {i \in 1 .. n : i > Len(one) /\ Carries(d, one, n)[i] = 0}
           stray == {i \in 1 .. n : ~Known(d[i]) \/ ~Known(At(one, i))}
           end == First(halts \cup stray \cup {n + 1})
           res == UnaryNeg(n, b)
<1>1. d \in [1 .. n -> Logic] /\ Len(d) = n
  BY UnaryInvType
<1>2. res = [i \in 1 .. n |-> IF i < end THEN SumBit(d, one, Carries(d, one, n), i)
                              ELSE IF end \in halts THEN d[i] ELSE DC]
  <2>1. UnaryNeg(n, b) = AddedTo(d, one)
    BY DEF UnaryNeg
  <2> HIDE DEF d, one
  <2> QED BY <1>1, <2>1, Zenon DEF AddedTo
<1>3. PICK j \in 1 .. m : ~Known(b[j])
  BY DEF AllKnown
<1>4. j \in 1 .. n /\ d[j] = DC
  BY <1>3 DEF UnaryInv, At, Inv
<1>5. j \in stray
  <2>1. ~Known(d[j])
    BY <1>4 DEF Known
  <2> HIDE DEF d
  <2> QED BY <1>4, <2>1, Zenon
<1>6. ~(j < end)
  <2>1. halts \cup stray \cup {n + 1} \subseteq Nat /\ j \in halts \cup stray \cup {n + 1}
    BY <1>5
  <2> HIDE DEF halts, stray
  <2>2. end \in Nat /\ end <= j
    BY <2>1, FirstOf
  <2> QED BY <2>2
<1> HIDE DEF res, end, halts, stray, d
<1>7. res[j] = DC /\ j \in DOMAIN res
  BY <1>2, <1>4, <1>6
<1>8. ~AllKnown(res)
  BY <1>7 DEF AllKnown, Known
<1> QED BY <1>8 DEF res

\* A vector no wider than a machine integer is no number if it has an unknown bit.
LEMMA UnknownNumber ==
  ASSUME NEW m \in 1 .. DecimalBits, NEW v \in VectorOf(m), ~AllKnown(v.bits)
  PROVE  Unknown(v)
<1>1. Width(v) = m /\ m \in Nat /\ v.bits \in [1 .. m -> Logic]
  BY LogicVectorAssumption, VectorWidth
<1> DEFINE k == IF DecimalBits > Width(v) THEN Width(v) ELSE DecimalBits
           low == SubSeq(v.bits, 1, k)
<1>2. k = m
  BY <1>1, LogicVectorAssumption
<1>3. low = v.bits
  <2>1. m \in 0 .. m
    BY <1>1
  <2>2. SubSeq(v.bits, 1, m) \in [1 .. m -> Logic]
        /\ \A i \in 1 .. m : SubSeq(v.bits, 1, m)[i] = v.bits[i]
    BY <1>1, <2>1, PrefixType
  <2> HIDE DEF k
  <2>3. low = SubSeq(v.bits, 1, m)
    BY <1>2
  <2> HIDE DEF low
  <2> QED BY <1>1, <2>2, <2>3
<1>4. ~AllKnown(low)
  BY <1>3
<1>5. ToDecimal(v) = [fail |-> TRUE, val |-> 0]
  BY <1>4, Zenon DEF ToDecimal, ToBits
<1> QED BY <1>5 DEF Unknown

\* What is no number has no known bit.
LEMMA NoNumberUnknown ==
  ASSUME NEW n \in Nat \ {0}, NEW v \in VectorOf(n)
  PROVE  ~AllKnown(NoNumber(v).bits)
<1>1. Width(v) = n
  BY VectorWidth
<1>2. Width(Vector("unset", Filled(n, DC))) = n
  BY DEF Width, Vector, Filled
<1>3. NoNumber(v).bits = [i \in 1 .. n |-> IF i <= n THEN Filled(n, DC)[i] ELSE LO]
  BY <1>1, <1>2 DEF NoNumber, Assigned, Vector
<1>4. NoNumber(v).bits = Filled(n, DC)
  BY <1>3 DEF Filled
<1> QED BY <1>4, FilledUnknown

\* Products, quotients and remainders of an unknown number are unknown.
LEMMA ProductUnknown ==
  ASSUME NEW n \in Nat \ {0}, NEW v \in VectorOf(n), NEW l, NEW r, Unknown(l) \/ Unknown(r)
  PROVE  /\ ~AllKnown(BinaryMul(v, l, r).bits)
         /\ ~AllKnown(BinaryDiv(v, l, r).bits)
         /\ ~AllKnown(BinaryMod(v, l, r).bits)
<1>1. BinaryMul(v, l, r) = NoNumber(v)
  BY DEF BinaryMul
<1> DEFINE zero == Assigned(v, OfLogic(LO))
           unset == Vector("unset", zero.bits)
<1>2. zero \in VectorOf(n) /\ unset \in VectorOf(n)
  BY ClearedType
<1> HIDE DEF zero, unset
<1>3. DivRem(zero, unset, l, r).q = NoNumber(zero)
  BY DEF DivRem
<1>4. DivRem(unset, zero, l, r).rem = NoNumber(zero)
  BY DEF DivRem
<1>5. BinaryDiv(v, l, r) = NoNumber(zero)
  BY <1>3 DEF BinaryDiv, zero, unset
<1>6. BinaryMod(v, l, r) = NoNumber(zero)
  BY <1>4 DEF BinaryMod, zero, unset
<1> QED BY <1>1, <1>2, <1>5, <1>6, NoNumberUnknown

\* Neither operand of an operator is wider than its result, but for those of
\* which only the first counts.
LEMMA OperandsFit ==
  ASSUME NEW s, ShapeOK(s)
  PROVE  /\ s.op \in Sums \cup {"*"} => OpWidth(s, 1) \in 1 .. ResultWidth(s)
                                        /\ OpWidth(s, 2) \in 1 .. ResultWidth(s)
         /\ s.op = "u-" => OpWidth(s, 1) \in 1 .. ResultWidth(s)
<1>1. /\ s.need \in Nat /\ OpWidth(s, 1) \in Nat \ {0}
      /\ s.op \in Pairs \cup {"?:"} => OpWidth(s, 2) \in Nat \ {0}
  BY OperandsThere DEF ShapeOK
<1>2. CASE s.op \in Sums
  BY <1>1, <1>2 DEF ResultWidth, Wider, Sums, Masks, Relations, Reductions, Shifts, Pairs
<1>3. CASE s.op = "*"
  BY <1>1, <1>3 DEF ResultWidth, Wider, Sums, Masks, Relations, Reductions, Shifts, Pairs
<1>4. CASE s.op = "u-"
  BY <1>1, <1>4 DEF ResultWidth, Wider, Sums, Masks, Relations, Reductions, Shifts, Pairs
<1>5. "u-" \notin Sums
  BY DEF Sums
<1> QED BY <1>2, <1>3, <1>4, <1>5

\* The operators of arithmetic, as the node computes them.
LEMMA ComputedSum ==
  ASSUME NEW s, NEW res, NEW ops
  PROVE  /\ s.op \in Sums \cup {"*"} => Computed(s, res, ops) = Sum(s.op, res, ops[1], ops[2])
         /\ s.op = "u-" => Computed(s, res, ops) = Vector(res.sgn, UnaryNeg(Width(res), ops[1].bits))
BY DEF Computed, Sums, Masks, Relations, Reductions, Shifts

\* Arithmetic never makes a number of an unknown bit (bvector.cc): sums meet
\* the bit or copy it, and the machine's integers are not used of a vector
\* that is not known.
THEOREM UnknownCorrect == Spec => []UnknownStays
<1>1. ExpressionTypeOK /\ Latest => UnknownStays
  <2> DEFINE narrow == \A k \in DOMAIN args : Width(args[k]) <= DecimalBits
             n == ResultWidth(node)
             l == args[1]
             r == args[2]
             w == OpWidth(node, 1)
             u == OpWidth(node, 2)
  <2> SUFFICES ASSUME ExpressionTypeOK, Latest, Evaluated, ~NoStray,
                      node.op \in {"+", "-", "u-"} \/ (node.op \in {"*", "/", "%"} /\ narrow)
               PROVE  ~AllKnown(result.bits)
    BY Zenon DEF UnknownStays
  <2>1. PICK old \in VectorOf(n) : result = Computed(node, old, args)
    BY LatestOperands
  <2>2. ShapeOK(node) /\ OperandsOK(node, args) /\ n \in Nat \ {0} /\ Width(old) = n
    BY LatestOperands, VectorWidth
  <2>3. PICK k \in DOMAIN args : ~AllKnown(args[k].bits)
    BY DEF NoStray
  <2>4. k \in 1 .. Len(node.ops)
    BY <2>2, <2>3 DEF OperandsOK
  <2>5. CASE node.op = "u-"
    <3>1. Len(node.ops) = 1
      BY <2>5, ExpressionAssumption DEF ExpressionTypeOK, Singles, Pairs, Sums, Masks, Relations,
            Shifts, Reductions
    <3>2. k = 1
      BY <2>4, <3>1
    <3>3. l.bits \in [1 .. w -> Logic] /\ w \in 1 .. n
      BY <2>2, <2>5, OperandVectors, OperandsFit, VectorWidth
    <3>4. result.bits = UnaryNeg(n, l.bits)
      BY <2>1, <2>2, <2>5, ComputedSum DEF Vector
    <3> QED BY <2>2, <2>3, <3>2, <3>3, <3>4, NegUnknown
  <2>6. CASE node.op \in Sums \cup {"*"}
    <3>1. Len(node.ops) = 2
      BY <2>2, <2>6 DEF ShapeOK, Pairs
    <3>2. k = 1 \/ k = 2
      BY <2>4, <3>1
    <3>3. ~AllKnown(l.bits) \/ ~AllKnown(r.bits)
      BY <2>3, <3>2
    <3>4. l \in VectorOf(w) /\ r \in VectorOf(u) /\ w \in 1 .. n /\ u \in 1 .. n
      BY <2>2, <2>6, OperandVectors, OperandsFit DEF Pairs
    <3>5. l.bits \in [1 .. w -> Logic] /\ r.bits \in [1 .. u -> Logic] /\ w \in Nat /\ u \in Nat
          /\ Width(l) = w /\ Width(r) = u /\ old.bits \in [1 .. n -> Logic]
      BY <2>2, <3>4, VectorWidth
    <3>6. result = Sum(node.op, old, l, r)
      BY <2>1, <2>6, ComputedSum
    <3> HIDE DEF n, l, r, w, u
    <3>7. CASE node.op = "+"
      <4>1. result.bits = AddBits(old.bits, l.bits, r.bits)
        BY <3>6, <3>7 DEF Sum, BinaryAdd, Vector
      <4>2. ~AllKnown(AddBits(old.bits, l.bits, r.bits))
        <5> DEFINE ob == old.bits  lb == l.bits  rb == r.bits
        <5>1. /\ n \in Nat \ {0} /\ w \in 1 .. n /\ u \in 1 .. n
              /\ ob \in [1 .. n -> Logic] /\ lb \in [1 .. w -> Logic] /\ rb \in [1 .. u -> Logic]
              /\ ~AllKnown(lb) \/ ~AllKnown(rb)
          BY <2>2, <3>3, <3>4, <3>5
        <5> HIDE DEF ob, lb, rb
        <5>2. ~AllKnown(AddBits(ob, lb, rb))
          BY <5>1, AddUnknown
        <5> QED BY <5>2 DEF ob, lb, rb
      <4> QED BY <4>1, <4>2
    <3>8. CASE node.op = "-"
      <4>1. result = BinarySub(old, l, r)
        BY <3>6, <3>8 DEF Sum
      <4> QED BY <2>2, <3>3, <3>4, <4>1, SubUnknown
    <3>9. CASE node.op \in {"*", "/", "%"}
      <4>1. w \in 1 .. DecimalBits /\ u \in 1 .. DecimalBits
        <5>1. 1 \in DOMAIN args /\ 2 \in DOMAIN args
          BY <2>2, <3>1 DEF OperandsOK
        <5>2. narrow
          BY <3>9
        <5>3. w <= DecimalBits /\ u <= DecimalBits
          BY <3>5, <5>1, <5>2 DEF l, r
        <5> QED BY <3>4, <3>5, <5>3, LogicVectorAssumption
      <4>2. Unknown(l) \/ Unknown(r)
        BY <3>3, <3>4, <4>1, UnknownNumber
      <4> QED BY <2>2, <3>6, <3>9, <4>2, ProductUnknown DEF Sum
    <3> QED BY <2>6, <3>7, <3>8, <3>9 DEF Sums
  <2> QED BY <2>5, <2>6 DEF Sums
<1> QED BY <1>1, ExpressionTypeCorrect, LatestCorrect, PTL

-----------------------------------------------------------------------------
(***************************************************************************)
(* Comparisons.                                                            *)
(***************************************************************************)

\* A number and its complement together have every bit.
LEMMA InvertedNumber ==
  ASSUME NEW n \in Nat, NEW b \in [1 .. n -> {LO, HI}]
  PROVE  /\ UnaryInv(n, b) \in [1 .. n -> {LO, HI}]
         /\ Unsigned(UnaryInv(n, b)) + Unsigned(b) = Below(n) - 1
<1> DEFINE c == UnaryInv(n, b)
<1>1. c = [i \in 1 .. n |-> 1 - b[i]]
  <2>1. \A i \in 1 .. n : Inv(At(b, i)) = 1 - b[i]
    BY DEF At, Inv, Known
  <2>2. c = [i \in 1 .. n |-> Inv(At(b, i))]
    BY DEF UnaryInv
  <2> HIDE DEF c
  <2> QED BY <2>1, <2>2
<1> HIDE DEF c
<1>2. c \in [1 .. n -> {LO, HI}] /\ \A i \in 1 .. n : c[i] = 1 - b[i]
  BY <1>1
<1>3. PICK f : Prefixes(f, n, b)
  BY PrefixesOf
<1>4. PICK g : Prefixes(g, n, c)
  BY <1>2, PrefixesOf
<1>5. ASSUME NEW i \in 0 .. n PROVE f[i] \in Nat /\ g[i] \in Nat /\ Below(i) \in Nat \ {0}
  <2>1. i \in Nat
    OBVIOUS
  <2>2. Below(i) \in Nat \ {0}
    BY <2>1, BelowProperties
  <2> QED BY <1>3, <1>4, <2>2 DEF Prefixes
<1> DEFINE T == {i \in 0 .. n : g[i] + f[i] = Below(i) - 1}
<1>6. 0 \in T
  <2>1. f[0] = 0 /\ g[0] = 0 /\ Below(0) = 1
    BY <1>3, <1>4, BelowProperties DEF Prefixes
  <2> QED BY <2>1
<1>7. ASSUME NEW i \in 1 .. n, i - 1 \in T PROVE i \in T
  <2> DEFINE j == i - 1
             p == Below(j)
  <2>1. j \in Nat /\ j \in 0 .. n /\ j + 1 = i
    OBVIOUS
  <2>2. g[j] + f[j] = p - 1
    BY <1>7
  <2>3. (b[i] = 0 => f[i] = f[j] /\ g[i] = g[j] + p)
        /\ (b[i] = 1 => f[i] = f[j] + p /\ g[i] = g[j])
    <3>1. c[i] = 1 - b[i]
      BY <1>2
    <3> QED BY <1>3, <1>4, <3>1 DEF Prefixes
  <2> HIDE DEF j
  <2>4. f[j] \in Nat /\ g[j] \in Nat /\ p \in Nat \ {0}
    BY <1>5, <2>1
  <2>5. Below(i) = 2 * p
    <3>1. Below(j + 1) = 2 * Below(j)
      BY <2>1, BelowProperties
    <3> QED BY <2>1, <3>1
  <2> HIDE DEF p
  <2>6. b[i] \in {0, 1}
    OBVIOUS
  <2>7. g[i] + f[i] = Below(i) - 1
    BY <2>2, <2>3, <2>4, <2>5, <2>6
  <2> QED BY <2>7
<1>8. n \in T
  <2>1. \A i \in 1 .. n : i - 1 \in T => i \in T
    BY <1>7
  <2>2. \A i \in 0 .. n : i \in T
    <3> HIDE DEF T
    <3> QED BY <1>6, <2>1, InductUpTo
  <2> HIDE DEF T
  <2> QED BY <2>2
<1>9. Unsigned(c) = g[n] /\ Unsigned(b) = f[n]
  BY <1>3, <1>4 DEF Prefixes
<1> QED BY <1>2, <1>8, <1>9 DEF c

\* The sign of a negative number extended to more bits.
LEMMA ExtendedNumber ==
  ASSUME NEW n \in Nat, NEW m \in 0 .. n, NEW b \in [1 .. m -> {LO, HI}], NEW e,
         e = [i \in 1 .. n |-> BitOr(b, i, HI)]
  PROVE  e \in [1 .. n -> {LO, HI}] /\ Unsigned(e) = Unsigned(b) + Below(n) - Below(m)
<1> DEFINE c == UnaryInv(m, b)
           d == UnaryInv(n, e)
<1>1. m \in Nat /\ Len(b) = m
  OBVIOUS
<1>2. e \in [1 .. n -> {LO, HI}] /\ Len(e) = n
  BY <1>1 DEF BitOr
<1>3. /\ c \in [1 .. m -> {LO, HI}] /\ Unsigned(c) + Unsigned(b) = Below(m) - 1
      /\ Unsigned(d) + Unsigned(e) = Below(n) - 1
  BY <1>1, <1>2, InvertedNumber
<1>4. d = Padded(c, n)
  <2>1. \A i \in 1 .. n : Inv(At(e, i)) = At(c, i)
    <3> SUFFICES ASSUME NEW i \in 1 .. n PROVE Inv(At(e, i)) = At(c, i)
      OBVIOUS
    <3>1. At(e, i) = BitOr(b, i, HI)
      BY <1>2 DEF At
    <3>2. CASE i <= m
      <4>1. At(e, i) = At(b, i) /\ i \in 1 .. m
        BY <1>1, <3>1, <3>2 DEF BitOr, At
      <4>2. Len(c) = m /\ c[i] = Inv(At(b, i))
        BY <1>3, <4>1 DEF UnaryInv
      <4> QED BY <3>2, <4>1, <4>2 DEF At
    <3>3. CASE m < i
      <4>1. At(e, i) = HI
        BY <1>1, <3>1, <3>3 DEF BitOr
      <4>2. At(c, i) = LO
        BY <1>3, <3>3 DEF At
      <4> QED BY <4>1, <4>2 DEF Inv, Known
    <3> QED BY <1>1, <3>2, <3>3
  <2>2. d = [i \in 1 .. n |-> Inv(At(e, i))]
    BY DEF UnaryInv
  <2> HIDE DEF c, d
  <2> QED BY <2>1, <2>2 DEF Padded
<1> HIDE DEF c, d
<1>5. Unsigned(d) = Unsigned(c)
  BY <1>3, <1>4, PaddedNumber
<1>6. /\ Unsigned(b) \in Nat /\ Unsigned(c) \in Nat /\ Unsigned(e) \in Nat
      /\ Below(m) \in Nat /\ Below(n) \in Nat
  BY <1>1, <1>2, <1>3, UnsignedRange, BelowProperties
<1> QED BY <1>2, <1>3, <1>5, <1>6

\* The number of a known vector.
LEMMA ValueKnown ==
  ASSUME NEW m \in Nat \ {0}, NEW v \in VectorOf(m), AllKnown(v.bits)
  PROVE  /\ v.bits \in [1 .. m -> {LO, HI}] /\ Len(v.bits) = m /\ Width(v) = m
         /\ v.sgn \in SignTypes /\ Top(v) = v.bits[m] /\ Top(v) \in {LO, HI}
         /\ Unsigned(v.bits) \in Nat /\ Unsigned(v.bits) < Below(m) /\ Below(m) \in Nat
         /\ Value(v) = IF Negative(v) THEN Unsigned(v.bits) - Below(m) ELSE Unsigned(v.bits)
         /\ Value(v) \in Int /\ (Value(v) < 0 <=> Negative(v))
<1> DEFINE a == Unsigned(v.bits)
           p == Below(m)
<1>1. /\ v.bits \in [1 .. m -> {LO, HI}] /\ Width(v) = m /\ v.sgn \in SignTypes
      /\ Len(v.bits) = m
  BY VectorWidth DEF AllKnown, Known
<1>2. Top(v) = v.bits[m] /\ Top(v) \in {LO, HI}
  BY <1>1 DEF Top
<1>3. a \in Nat /\ a < p /\ p \in Nat
  BY <1>1, UnsignedRange, BelowProperties
<1>4. Value(v) = a - (IF Negative(v) THEN p ELSE 0)
  BY <1>1, Zenon DEF Value
<1>5. Value(v) = IF Negative(v) THEN a - p ELSE a
  <2> HIDE DEF a, p
  <2> QED BY <1>3, <1>4
<1>6. Value(v) \in Int /\ (Value(v) < 0 <=> Negative(v))
  <2> HIDE DEF a, p
  <2> QED BY <1>3, <1>5
<1> QED BY <1>1, <1>2, <1>3, <1>5, <1>6

\* Which of two known vectors is less, where they are compared in order.
LEMMA OrderedNumbers ==
  ASSUME NEW m \in Nat \ {0}, NEW k \in Nat \ {0}, NEW l \in VectorOf(m), NEW r \in VectorOf(k),
         AllKnown(l.bits), AllKnown(r.bits), InOrder(l, r)
  PROVE  IsLess(l, r) = HI <=> Value(l) < Value(r)
<1> DEFINE a == Unsigned(l.bits)
           b == Unsigned(r.bits)
           p == Below(m)
           q == Below(k)
<1>1. /\ Width(l) = m /\ Width(r) = k /\ Top(l) \in {LO, HI} /\ Top(r) \in {LO, HI}
      /\ l.sgn \in SignTypes /\ r.sgn \in SignTypes
      /\ a \in Nat /\ b \in Nat /\ p \in Nat /\ q \in Nat
      /\ Value(l) = (IF Negative(l) THEN a - p ELSE a) /\ (Value(l) < 0 <=> Negative(l))
      /\ Value(r) = (IF Negative(r) THEN b - q ELSE b) /\ (Value(r) < 0 <=> Negative(r))
      /\ Value(l) \in Int /\ Value(r) \in Int
  BY ValueKnown
<1>2. IsLess(l, r) = HI <=>
        \/ Negative(l) /\ NotNegative(r)
        \/ /\ ~(Negative(l) /\ NotNegative(r))
           /\ ~(~Negative(l) /\ Negative(r) /\ NotNegative(l))
           /\ a < b
  BY LessKnown
<1>3. /\ Negative(l) => ~NotNegative(l)
      /\ Negative(r) => ~NotNegative(r)
      /\ Negative(l) /\ ~Negative(r) => NotNegative(r)
      /\ Negative(r) /\ ~Negative(l) => NotNegative(l)
      /\ Negative(l) /\ Negative(r) => p = q
  BY <1>1 DEF Negative, NotNegative, InOrder, SignTypes
<1> HIDE DEF a, b, p, q
<1>4. CASE Negative(l) /\ Negative(r)
  BY <1>1, <1>2, <1>3, <1>4
<1>5. CASE Negative(l) # Negative(r)
  <2>1. Negative(l) \in BOOLEAN /\ Negative(r) \in BOOLEAN
    BY DEF Negative
  <2> QED BY <1>1, <1>2, <1>3, <1>5, <2>1
<1>6. CASE ~Negative(l) /\ ~Negative(r)
  BY <1>1, <1>2, <1>6
<1> QED BY <1>4, <1>5, <1>6 DEF Negative

\* Whether two known vectors are equal, where they are told apart; the first
\* one is no wider than the second.
LEMMA EqualNumbers ==
  ASSUME NEW k \in Nat \ {0}, NEW m \in 1 .. k, NEW l \in VectorOf(m), NEW r \in VectorOf(k),
         AllKnown(l.bits), AllKnown(r.bits), ToldApart(l, r)
  PROVE  IsEqual(l, r) = HI <=> Value(l) = Value(r)
<1> DEFINE a == Unsigned(l.bits)
           b == Unsigned(r.bits)
           p == Below(m)
           q == Below(k)
           pad == PadOf(l, r)
           e == [i \in 1 .. k |-> BitOr(l.bits, i, pad)]
<1>0. m \in Nat \ {0}
  OBVIOUS
<1>1. /\ Width(l) = m /\ Top(l) = l.bits[m] /\ Top(l) \in {LO, HI}
      /\ l.bits \in [1 .. m -> {LO, HI}] /\ Len(l.bits) = m
      /\ a \in Nat /\ p \in Nat
      /\ Value(l) = (IF Negative(l) THEN a - p ELSE a)
      /\ Value(l) \in Int /\ (Value(l) < 0 <=> Negative(l))
  BY <1>0, ValueKnown
<1>2. /\ Width(r) = k /\ Top(r) = r.bits[k] /\ Top(r) \in {LO, HI}
      /\ r.bits \in [1 .. k -> {LO, HI}] /\ Len(r.bits) = k
      /\ b \in Nat /\ q \in Nat
      /\ Value(r) = (IF Negative(r) THEN b - q ELSE b)
      /\ Value(r) \in Int /\ (Value(r) < 0 <=> Negative(r))
  BY ValueKnown
<1>3. pad = IF m < k /\ l.sgn = "signed" THEN Top(l) ELSE LO
  BY <1>0, <1>1, <1>2 DEF PadOf
<1> HIDE DEF pad
<1>4. e \in [1 .. k -> {LO, HI}]
  BY <1>0, <1>1, <1>3 DEF BitOr
<1>5. IsEqual(l, r) = HI <=> e = r.bits
  <2>1. WiderOf(l, r) = k
    BY <1>0, <1>1, <1>2 DEF WiderOf
  <2>2. IsEqual(l, r) = HI <=>
          \A i \in 1 .. k : /\ BitOr(l.bits, i, pad) = BitOr(r.bits, i, pad)
                            /\ Known(BitOr(l.bits, i, pad))
    BY <1>0, <2>1, Matches DEF pad
  <2>3. \A i \in 1 .. k : /\ e[i] = BitOr(l.bits, i, pad) /\ BitOr(r.bits, i, pad) = r.bits[i]
                          /\ Known(e[i])
    BY <1>2, <1>4 DEF BitOr, Known
  <2> HIDE DEF e
  <2>4. IsEqual(l, r) = HI <=> \A i \in 1 .. k : e[i] = r.bits[i]
    BY <2>2, <2>3
  <2>5. (\A i \in 1 .. k : e[i] = r.bits[i]) => e = r.bits
    <3> SUFFICES ASSUME \A i \in 1 .. k : e[i] = r.bits[i] PROVE e = r.bits
      OBVIOUS
    <3>1. e = [i \in 1 .. k |-> e[i]] /\ r.bits = [i \in 1 .. k |-> r.bits[i]]
      BY <1>2, <1>4
    <3>2. [i \in 1 .. k |-> e[i]] = [i \in 1 .. k |-> r.bits[i]]
      BY Zenon
    <3> QED BY <3>1, <3>2, Zenon
  <2> QED BY <2>4, <2>5
<1>6. e = r.bits <=> Unsigned(e) = b
  <2> HIDE DEF e
  <2> QED BY <1>2, <1>4, SameNumber
<1>7. pad = LO => Unsigned(e) = a
  <2> SUFFICES ASSUME pad = LO PROVE Unsigned(e) = a
    OBVIOUS
  <2>1. e = Padded(l.bits, k)
    BY DEF BitOr, At, Padded
  <2> HIDE DEF e
  <2> QED BY <1>0, <1>1, <2>1, PaddedNumber
<1>8. pad = HI => Unsigned(e) = a + q - p
  <2> SUFFICES ASSUME pad = HI PROVE Unsigned(e) = a + q - p
    OBVIOUS
  <2>1. e = [i \in 1 .. k |-> BitOr(l.bits, i, HI)]
    OBVIOUS
  <2> HIDE DEF e
  <2> QED BY <1>0, <1>1, <2>1, ExtendedNumber
<1>9. e[k] = IF m = k THEN Top(l) ELSE pad
  BY <1>0, <1>1 DEF BitOr
<1>10. m = k => p = q
  OBVIOUS
<1> HIDE DEF a, b, p, q, e
<1>11. CASE Negative(l) /\ Negative(r)
  <2>1. CASE m = k
    <3>1. pad = LO
      BY <1>3, <2>1
    <3> QED BY <1>1, <1>2, <1>5, <1>6, <1>7, <1>10, <1>11, <2>1, <3>1
  <2>2. CASE m # k
    <3>1. pad = HI
      BY <1>0, <1>3, <1>11, <2>2 DEF Negative
    <3> QED BY <1>1, <1>2, <1>5, <1>6, <1>8, <1>11, <3>1
  <2> QED BY <2>1, <2>2
<1>12. CASE ~Negative(l) /\ ~Negative(r)
  <2>1. pad = LO
    BY <1>1, <1>3, <1>12 DEF Negative
  <2> QED BY <1>1, <1>2, <1>5, <1>6, <1>7, <1>12, <2>1
<1>13. CASE Negative(l) /\ ~Negative(r)
  <2>1. r.sgn = "signed" /\ l.sgn = "signed" /\ Top(l) = HI
    BY <1>0, <1>1, <1>2, <1>13 DEF ToldApart, Negative
  <2>2. r.bits[k] = LO /\ e[k] = HI
    BY <1>0, <1>2, <1>3, <1>9, <1>13, <2>1 DEF Negative
  <2> QED BY <1>1, <1>2, <1>5, <1>13, <2>2
<1>14. CASE ~Negative(l) /\ Negative(r)
  <2>1. l.sgn = "signed" \/ m < k
    BY <1>1, <1>2, <1>14 DEF ToldApart
  <2>2. l.sgn = "signed" => Top(l) = LO
    BY <1>1, <1>14 DEF Negative
  <2>3. r.bits[k] = HI /\ e[k] = LO
    BY <1>2, <1>3, <1>9, <1>14, <2>1, <2>2 DEF Negative
  <2> QED BY <1>1, <1>2, <1>5, <1>14, <2>3
<1> QED BY <1>11, <1>12, <1>13, <1>14

\* The order of the operands does not matter to equality.
LEMMA EqualEitherWay ==
  ASSUME NEW m \in Nat \ {0}, NEW k \in Nat \ {0}, NEW l \in VectorOf(m), NEW r \in VectorOf(k)
  PROVE  IsEqual(l, r) = HI <=> IsEqual(r, l) = HI
<1> DEFINE n == WiderOf(l, r)
           pad == PadOf(l, r)
           at(v, i) == BitOr(v.bits, i, pad)
<1>1. Width(l) = m /\ Width(r) = k
  BY VectorWidth
<1>2. WiderOf(r, l) = n /\ PadOf(r, l) = pad
  BY <1>1 DEF WiderOf, PadOf
<1>3. IsEqual(l, r) = HI <=> \A i \in 1 .. n : at(l, i) = at(r, i) /\ Known(at(l, i))
  BY Matches
<1>4. IsEqual(r, l) = HI <=> \A i \in 1 .. n : at(r, i) = at(l, i) /\ Known(at(r, i))
  <2> HIDE DEF n, pad
  <2> QED BY <1>2, Matches
<1> HIDE DEF n, at
<1> QED BY <1>3, <1>4

\* Known vectors compare as their numbers do.
LEMMA NumbersCompare ==
  ASSUME NEW m \in Nat \ {0}, NEW k \in Nat \ {0}, NEW l \in VectorOf(m), NEW r \in VectorOf(k),
         AllKnown(l.bits), AllKnown(r.bits)
  PROVE  /\ InOrder(l, r) => (IsLess(l, r) = HI <=> Value(l) < Value(r))
         /\ ToldApart(l, r) => (IsEqual(l, r) = HI <=> Value(l) = Value(r))
<1>1. InOrder(l, r) => (IsLess(l, r) = HI <=> Value(l) < Value(r))
  BY OrderedNumbers
<1>2. ASSUME ToldApart(l, r) PROVE IsEqual(l, r) = HI <=> Value(l) = Value(r)
  <2>1. CASE m <= k
    <3>1. m \in 1 .. k
      BY <2>1
    <3> QED BY <1>2, <3>1, EqualNumbers
  <2>2. CASE k <= m
    <3>1. k \in 1 .. m
      BY <2>2
    <3>2. ToldApart(r, l)
      BY <1>2 DEF ToldApart
    <3>3. IsEqual(r, l) = HI <=> Value(r) = Value(l)
      BY <3>1, <3>2, EqualNumbers
    <3> QED BY <3>3, EqualEitherWay
  <2> QED BY <2>1, <2>2
<1> QED BY <1>1, <1>2

\* The operands of a relation.
LEMMA RelationOperands ==
  ASSUME ExpressionTypeOK, Latest, Evaluated, node.op \in Relations
  PROVE  /\ \E n \in Nat \ {0} : args[1] \in VectorOf(n)
         /\ \E n \in Nat \ {0} : args[2] \in VectorOf(n)
         /\ NoStray <=> AllKnown(args[1].bits) /\ AllKnown(args[2].bits)
<1>1. ShapeOK(node) /\ OperandsOK(node, args) /\ node.op \in Pairs
  BY LatestOperands DEF Pairs
<1>2. DOMAIN args = {1, 2}
  <2> DEFINE n == Len(node.ops)
  <2>1. DOMAIN args = 1 .. n /\ n = 2
    BY <1>1, Zenon DEF OperandsOK, ShapeOK
  <2> HIDE DEF n
  <2> QED BY <2>1
<1>3. /\ \E n \in Nat \ {0} : args[1] \in VectorOf(n)
      /\ \E n \in Nat \ {0} : args[2] \in VectorOf(n)
  BY <1>1, OperandVectors
<1> QED BY <1>2, <1>3 DEF NoStray

\* What is identical and known is equal, what is identical matches in a casez,
\* and what matches there matches in a casex.
LEMMA MatchesWidenHolds ==
  ASSUME ExpressionTypeOK, Latest
  PROVE  MatchesWiden
<1> DEFINE l == args[1]
           r == args[2]
           n == WiderOf(l, r)
           pad == PadOf(l, r)
           at(v, i) == BitOr(v.bits, i, pad)
           plain(v, i) == BitOr(v.bits, i, LO)
<1> SUFFICES ASSUME Evaluated, node.op \in Relations
             PROVE  /\ IsEqual(l, r) = HI => CompareC(l, r) = HI
                    /\ CompareC(l, r) = HI /\ NoStray => IsEqual(l, r) = HI
                    /\ CompareC(l, r) = HI /\ (Width(l) = Width(r) \/ pad = LO) => CompareZ(l, r) = HI
                    /\ CompareZ(l, r) = HI => CompareX(l, r) = HI
  BY Zenon DEF MatchesWiden
<1>1. PICK m \in Nat \ {0} : l \in VectorOf(m)
  BY RelationOperands
<1>2. PICK k \in Nat \ {0} : r \in VectorOf(k)
  BY RelationOperands
<1>3. NoStray => AllKnown(l.bits) /\ AllKnown(r.bits)
  BY RelationOperands
<1> HIDE DEF l, r
<1>4. /\ Width(l) = m /\ Len(l.bits) = m /\ l.bits \in [1 .. m -> Logic]
      /\ Width(r) = k /\ Len(r.bits) = k /\ r.bits \in [1 .. k -> Logic]
  BY <1>1, <1>2, VectorWidth DEF Width
<1>5. n \in Nat /\ m <= n /\ k <= n /\ (m = k => n = m)
  BY <1>4 DEF WiderOf
<1>6. /\ IsEqual(l, r) = HI <=> \A i \in 1 .. n : at(l, i) = at(r, i) /\ Known(at(l, i))
      /\ CompareC(l, r) = HI <=> \A i \in 1 .. n : at(l, i) = at(r, i)
      /\ CompareZ(l, r) = HI <=> \A i \in 1 .. n : EqualBut({Z}, plain(l, i), plain(r, i)) = HI
      /\ CompareX(l, r) = HI <=>
           \A i \in 1 .. n : EqualBut({DC, Z}, plain(l, i), plain(r, i)) = HI
  BY <1>1, <1>2, Matches
<1>7. NoStray => \A i \in 1 .. n : Known(at(l, i))
  <2> SUFFICES ASSUME NoStray, NEW i \in 1 .. n PROVE Known(at(l, i))
    OBVIOUS
  <2>1. /\ l.bits \in [1 .. m -> {LO, HI}]
        /\ r.bits \in [1 .. k -> {LO, HI}]
    BY <1>3, <1>4 DEF AllKnown, Known
  <2>2. pad \in {LO, HI}
    BY <1>4, <2>1 DEF PadOf, Top
  <2> HIDE DEF pad, n
  <2> QED BY <1>4, <1>5, <2>1, <2>2 DEF BitOr, Known
<1>8. \A a, b : /\ a = b => EqualBut({Z}, a, b) = HI
                /\ EqualBut({Z}, a, b) = HI => EqualBut({DC, Z}, a, b) = HI
  BY DEF EqualBut
<1>9. Width(l) = Width(r) \/ pad = LO =>
        \A i \in 1 .. n : at(l, i) = plain(l, i) /\ at(r, i) = plain(r, i)
  <2>1. CASE pad = LO
    BY <2>1
  <2>2. CASE Width(l) = Width(r)
    <3>1. Len(l.bits) = n /\ Len(r.bits) = n
      BY <1>4, <1>5, <2>2
    <3> HIDE DEF n, pad
    <3> QED BY <1>5, <3>1 DEF BitOr
  <2> QED BY <2>1, <2>2
<1> HIDE DEF at, plain, n, pad
<1>10. CompareC(l, r) = HI /\ (Width(l) = Width(r) \/ pad = LO) => CompareZ(l, r) = HI
  <2> SUFFICES ASSUME CompareC(l, r) = HI, Width(l) = Width(r) \/ pad = LO
               PROVE  CompareZ(l, r) = HI
    OBVIOUS
  <2>1. \A i \in 1 .. n : plain(l, i) = plain(r, i)
    BY <1>6, <1>9
  <2> QED BY <1>6, <1>8, <2>1
<1> QED BY <1>6, <1>7, <1>8, <1>10

\* The relations of known operands are those of the integers, and two vectors
\* are never less than one another.
LEMMA TrichotomyHolds ==
  ASSUME ExpressionTypeOK, Latest
  PROVE  Trichotomy
<1> DEFINE l == args[1]
           r == args[2]
<1> SUFFICES ASSUME Evaluated, node.op \in Relations
             PROVE  /\ NoStray /\ InOrder(l, r) => (IsLess(l, r) = HI) = (Value(l) < Value(r))
                    /\ NoStray /\ ToldApart(l, r) => (IsEqual(l, r) = HI) = (Value(l) = Value(r))
                    /\ ~(IsLess(l, r) = HI /\ IsLess(r, l) = HI)
  BY Zenon DEF Trichotomy
<1>1. PICK m \in Nat \ {0} : l \in VectorOf(m)
  BY RelationOperands
<1>2. PICK k \in Nat \ {0} : r \in VectorOf(k)
  BY RelationOperands
<1>3. NoStray => AllKnown(l.bits) /\ AllKnown(r.bits)
  BY RelationOperands
<1> HIDE DEF l, r
<1>4. ASSUME NoStray
      PROVE  /\ InOrder(l, r) => (IsLess(l, r) = HI <=> Value(l) < Value(r))
             /\ ToldApart(l, r) => (IsEqual(l, r) = HI <=> Value(l) = Value(r))
  BY <1>1, <1>2, <1>3, <1>4, NumbersCompare
<1>5. ~(IsLess(l, r) = HI /\ IsLess(r, l) = HI)
  BY <1>1, <1>2, LessOneWay
<1> QED BY <1>4, <1>5

\* Known operands of any width and sign are compared as the integers they
\* stand for, but where the code does not mean to (InOrder, ToldApart); no two
\* are less than one another; and equal, identical, casez and casex follow
\* from one another as far as they extend the sign alike (bvector.cc, from
\* line 873: each of them walks the bits for itself, from the one end or the
\* other).
THEOREM ComparisonsCorrect == Spec => []ComparisonsAgree
<1>1. ExpressionTypeOK /\ Latest => ComparisonsAgree
  BY TrichotomyHolds, MatchesWidenHolds DEF ComparisonsAgree
<1> QED BY <1>1, ExpressionTypeCorrect, LatestCorrect, PTL

-----------------------------------------------------------------------------
(***************************************************************************)
(* The value does not depend on what the vector of the node held.          *)
(***************************************************************************)

\* The bits that are assigned to a vector depend on its width alone.
LEMMA AssignedForgets ==
  ASSUME NEW n \in Nat, NEW v \in VectorOf(n), NEW w \in VectorOf(n), NEW x
  PROVE  Assigned(v, x).bits = Assigned(w, x).bits
<1>1. Width(v) = n /\ Width(w) = n
  BY VectorWidth
<1> QED BY <1>1 DEF Assigned, Vector

\* A vector that has been cleared is zero, and unsigned if it had no sign.
LEMMA ClearedBits ==
  ASSUME NEW n \in Nat \ {0}, NEW v \in VectorOf(n)
  PROVE  /\ Assigned(v, OfLogic(LO)).bits = Filled(n, LO)
         /\ Assigned(v, OfLogic(LO)).sgn = IF v.sgn = "unset" THEN "unsigned" ELSE v.sgn
<1>1. /\ Width(v) = n /\ OfLogic(LO).sgn = "unsigned" /\ OfLogic(LO).bits = <<LO>>
      /\ Width(OfLogic(LO)) = 1
  BY VectorWidth DEF OfLogic, Vector, Width
<1>2. Assigned(v, OfLogic(LO)).bits
        = [i \in 1 .. n |-> IF i <= 1 THEN <<LO>>[i] ELSE LO]
  BY <1>1 DEF Assigned, Vector
<1>3. [i \in 1 .. n |-> IF i <= 1 THEN <<LO>>[i] ELSE LO] = [i \in 1 .. n |-> LO]
  <2>1. \A i \in 1 .. n : (IF i <= 1 THEN <<LO>>[i] ELSE LO) = LO
    OBVIOUS
  <2> QED BY <2>1
<1>4. Assigned(v, OfLogic(LO)).sgn = Adopt(v, "unsigned")
  BY <1>1 DEF Assigned, Vector
<1> QED BY <1>2, <1>3, <1>4 DEF Filled, Adopt

\* A number no wider than the machine's integers fits into them, or has an
\* unknown bit.
LEMMA NarrowFits ==
  ASSUME NEW m \in 1 .. DecimalBits, NEW v \in VectorOf(m)
  PROVE  Unknown(v) \/ ~ToDecimal(v).fail
<1>1. Width(v) = m /\ m \in Nat
  BY LogicVectorAssumption, VectorWidth
<1>2. {v.bits[i] : i \in DecimalBits + 1 .. Width(v)} \ {Top(v)} = {}
  BY <1>1, LogicVectorAssumption
<1>3. \/ ToDecimal(v).fail /\ ToDecimal(v).val = 0
      \/ ~ToDecimal(v).fail
  BY <1>2, Zenon DEF ToDecimal, ToBits
<1> QED BY <1>3 DEF Unknown

\* A division does not look at the sign of a quotient that is cleared, nor at
\* that of the remainder unless the long division does.
LEMMA DivRemForgets ==
  ASSUME NEW n \in Nat \ {0}, NEW q \in VectorOf(n), NEW p \in VectorOf(n),
         NEW v \in VectorOf(n), NEW w \in VectorOf(n), NEW l, NEW r, q.bits = p.bits,
         \/ Unknown(l) \/ Unknown(r) \/ (~ToDecimal(l).fail /\ ~ToDecimal(r).fail)
         \/ ShiftAndSubtract(q.bits, v, l, r) = ShiftAndSubtract(p.bits, w, l, r)
  PROVE  /\ DivRem(q, v, l, r).q.bits = DivRem(p, w, l, r).q.bits
         /\ DivRem(q, v, l, r).rem.bits = DivRem(p, w, l, r).rem.bits
<1> DEFINE long(a, b) == ShiftAndSubtract(a.bits, b, l, r)
           once(a, b) == IF Negative(l) # Negative(r) THEN Negated(long(a, b).q) ELSE long(a, b).q
           twice(a, b) == IF Negative(l) THEN Negated(once(a, b)) ELSE once(a, b)
           x == OfDecimal(Signed(AbsDecimal(l) \div AbsDecimal(r), l, r))
           y == OfDecimal((IF Negative(l) THEN Wrap(-AbsDecimal(l)) ELSE AbsDecimal(l)) % AbsDecimal(r))
           none(a, b) == [q |-> NoNumber(a), rem |-> NoNumber(b)]
           short(a, b) == [q |-> Assigned(a, x), rem |-> Assigned(b, y)]
           full(a, b) == [q |-> Vector(SumSign(a, l, r), twice(a, b)), rem |-> Vector(l.sgn, long(a, b).rem)]
           same(c, d) == c.q.bits = d.q.bits /\ c.rem.bits = d.rem.bits
<1>1. ASSUME NEW a, NEW b
      PROVE  DivRem(a, b, l, r)
               = IF Unknown(l) \/ Unknown(r) THEN none(a, b)
                 ELSE IF ~ToDecimal(l).fail /\ ~ToDecimal(r).fail
                      THEN IF AbsDecimal(r) = 0 THEN none(a, b) ELSE short(a, b)
                 ELSE IF IsEqual(r, OfLogic(LO)) = HI \/ long(a, b).fail THEN none(a, b)
                 ELSE full(a, b)
  BY Zenon DEF DivRem
<1>2. same(none(q, v), none(p, w))
  <2>1. Width(q) = n /\ Width(p) = n /\ Width(v) = n /\ Width(w) = n
    BY VectorWidth
  <2>2. NoNumber(q).bits = NoNumber(p).bits /\ NoNumber(v).bits = NoNumber(w).bits
    BY <2>1, AssignedForgets DEF NoNumber
  <2> QED BY <2>2
<1>3. same(short(q, v), short(p, w))
  <2> HIDE DEF x, y
  <2>1. Assigned(q, x).bits = Assigned(p, x).bits /\ Assigned(v, y).bits = Assigned(w, y).bits
    BY AssignedForgets
  <2> QED BY <2>1
<1>4. long(q, v) = long(p, w) => same(full(q, v), full(p, w))
  <2> HIDE DEF long
  <2> QED BY DEF Vector
<1> HIDE DEF none, short, full
<1>5. same(DivRem(q, v, l, r), DivRem(p, w, l, r))
  <2>1. CASE Unknown(l) \/ Unknown(r)
    BY <1>1, <1>2, <2>1
  <2>2. CASE ~(Unknown(l) \/ Unknown(r)) /\ ~ToDecimal(l).fail /\ ~ToDecimal(r).fail
    BY <1>1, <1>2, <1>3, <2>2
  <2>3. CASE /\ ~(Unknown(l) \/ Unknown(r)) /\ ~(~ToDecimal(l).fail /\ ~ToDecimal(r).fail)
             /\ long(q, v) = long(p, w)
    BY <1>1, <1>2, <1>4, <2>3
  <2> QED BY <2>1, <2>2, <2>3
<1> QED BY <1>5

\* The quotient forgets what the vector held.
LEMMA QuotientForgets ==
  ASSUME NEW n \in Nat \ {0}, NEW v \in VectorOf(n), NEW w \in VectorOf(n), NEW l, NEW r
  PROVE  BinaryDiv(v, l, r).bits = BinaryDiv(w, l, r).bits
<1> DEFINE q == Assigned(v, OfLogic(LO))
           p == Assigned(w, OfLogic(LO))
           qu == Vector("unset", q.bits)
           pu == Vector("unset", p.bits)
<1>1. q \in VectorOf(n) /\ p \in VectorOf(n) /\ qu \in VectorOf(n) /\ pu \in VectorOf(n)
  BY ClearedType
<1>2. q.bits = p.bits /\ qu = pu
  BY AssignedForgets
<1>3. ShiftAndSubtract(q.bits, qu, l, r) = ShiftAndSubtract(p.bits, pu, l, r)
  BY <1>2
<1>4. BinaryDiv(v, l, r) = DivRem(q, qu, l, r).q /\ BinaryDiv(w, l, r) = DivRem(p, pu, l, r).q
  BY DEF BinaryDiv
<1> HIDE DEF q, p, qu, pu
<1> QED BY <1>1, <1>2, <1>3, <1>4, DivRemForgets

\* The long division begins with the magnitudes of its operands.
LEMMA DivisionBegun ==
  ASSUME NEW n \in Nat \ {0}, NEW m \in 1 .. n, NEW k \in 1 .. n,
         NEW l \in VectorOf(m), NEW r \in VectorOf(k),
         NEW q \in [1 .. n -> Logic], NEW zero \in VectorOf(n)
  PROVE  LET dend == Magnitude(Vector("unsigned", Filled(m, DC)), l).bits
             dsor == Magnitude(Vector("unsigned", Filled(k, DC)), r)
         IN  /\ dend \in [1 .. m -> Logic] /\ dsor \in VectorOf(k)
             /\ ShiftAndSubtract(q, zero, l, r) = DivisionOf(q, zero, dend, dsor)[1]
<1>1. m \in Nat \ {0} /\ k \in Nat \ {0}
  OBVIOUS
<1> QED BY <1>1, ShiftAndSubtractType

\* The remainder forgets what the vector held: the sign of the node is looked
\* at by a remainder that fills it, and only that of the lowest number does.
LEMMA RemainderForgets ==
  ASSUME NEW n \in Nat \ {0}, NEW m \in 1 .. n, NEW k \in 1 .. n,
         NEW v \in VectorOf(n), NEW w \in VectorOf(n),
         NEW l \in VectorOf(m), NEW r \in VectorOf(k),
         ~(MostNegative(l) /\ m = n /\ m > DecimalBits),
         l.sgn # "signed" => v.sgn # "signed" /\ w.sgn # "signed"
  PROVE  BinaryMod(v, l, r).bits = BinaryMod(w, l, r).bits
<1> DEFINE q == Assigned(v, OfLogic(LO))
           p == Assigned(w, OfLogic(LO))
           qu == Vector("unset", q.bits)
           pu == Vector("unset", p.bits)
           fits == Unknown(l) \/ Unknown(r) \/ (~ToDecimal(l).fail /\ ~ToDecimal(r).fail)
           dend == Magnitude(Vector("unsigned", Filled(m, DC)), l).bits
           dsor == Magnitude(Vector("unsigned", Filled(k, DC)), r)
<1>0. m \in Nat \ {0} /\ k \in Nat \ {0}
  OBVIOUS
<1>1. q \in VectorOf(n) /\ p \in VectorOf(n) /\ qu \in VectorOf(n) /\ pu \in VectorOf(n)
  BY ClearedType
<1>2. /\ q.bits = Filled(n, LO) /\ p.bits = Filled(n, LO)
      /\ q.sgn = (IF v.sgn = "unset" THEN "unsigned" ELSE v.sgn)
      /\ p.sgn = (IF w.sgn = "unset" THEN "unsigned" ELSE w.sgn)
  BY ClearedBits
<1>3. qu = pu /\ qu.bits = Filled(n, LO) /\ pu.bits = Filled(n, LO)
  BY <1>2 DEF Vector
<1>4. BinaryMod(v, l, r) = DivRem(qu, q, l, r).rem /\ BinaryMod(w, l, r) = DivRem(pu, p, l, r).rem
  BY DEF BinaryMod
<1> HIDE DEF q, p, qu, pu
<1>5. \/ fits
      \/ ShiftAndSubtract(Filled(n, LO), q, l, r) = ShiftAndSubtract(Filled(n, LO), p, l, r)
  <2> SUFFICES ASSUME ~fits
               PROVE  ShiftAndSubtract(Filled(n, LO), q, l, r) = ShiftAndSubtract(Filled(n, LO), p, l, r)
    OBVIOUS
  <2>1. CASE l.sgn # "signed"
    <3>1. q.sgn = "unsigned" /\ p.sgn = "unsigned"
      <4>1. v.sgn \in {"unset", "unsigned"} /\ w.sgn \in {"unset", "unsigned"}
        BY <2>1, VectorWidth DEF SignTypes
      <4> QED BY <1>2, <4>1
    <3>2. q = p
      BY <1>1, <1>2, <3>1 DEF VectorOf
    <3> QED BY <3>2
  <2>2. CASE l.sgn = "signed"
    <3>1. ASSUME NEW zero \in VectorOf(n)
          PROVE  /\ dend \in [1 .. m -> Logic] /\ dsor \in VectorOf(k)
                 /\ ShiftAndSubtract(Filled(n, LO), zero, l, r)
                      = DivisionOf(Filled(n, LO), zero, dend, dsor)[1]
      <4> DEFINE f == Filled(n, LO)
      <4>1. f \in [1 .. n -> Logic]
        BY FilledType DEF Logic
      <4> HIDE DEF f
      <4>2. /\ dend \in [1 .. m -> Logic] /\ dsor \in VectorOf(k)
            /\ ShiftAndSubtract(f, zero, l, r) = DivisionOf(f, zero, dend, dsor)[1]
        BY <4>1, DivisionBegun
      <4> QED BY <4>2 DEF f
    <3>2. dsor.sgn = "unsigned"
      BY Zenon DEF Magnitude, Assigned, Adopt, Vector
    <3>3. m < n \/ dend[m] # HI
      <4> SUFFICES ASSUME m = n, dend[m] = HI PROVE FALSE
        BY <1>0
      <4>1. Width(l) = m
        BY VectorWidth
      <4>2. MostNegative(l)
        BY <1>0, <2>2, <4>1, MagnitudeTop DEF MostNegative
      <4>3. m \in 1 .. DecimalBits /\ k \in 1 .. DecimalBits
        BY <1>0, <4>2, LogicVectorAssumption
      <4> QED BY <4>3, NarrowFits
    <3>4. Filled(n, LO) \in [1 .. n -> Logic]
      BY FilledType DEF Logic
    <3> DEFINE same == DivisionOf(Filled(n, LO), Vector("unsigned", Filled(n, LO)), dend, dsor)[1]
    <3> HIDE DEF dend, dsor
    <3>5. Unfilled(n, m, k, Filled(n, LO), dend, dsor)
      BY <1>1, <3>1, <3>2, <3>3, <3>4 DEF Unfilled
    <3>6. DivisionOf(Filled(n, LO), q, dend, dsor)[1] = same
      BY <1>1, <1>2, <3>5, DivisionSignless
    <3>7. DivisionOf(Filled(n, LO), p, dend, dsor)[1] = same
      BY <1>1, <1>2, <3>5, DivisionSignless
    <3> QED BY <1>1, <3>1, <3>6, <3>7
  <2> QED BY <2>1, <2>2
<1> QED BY <1>1, <1>3, <1>4, <1>5, DivRemForgets

\* A remainder is signed only if its vector or the dividend was.
LEMMA RemainderSigned ==
  ASSUME NEW v, NEW l, NEW r, v.sgn # "signed", l.sgn # "signed"
  PROVE  BinaryMod(v, l, r).sgn # "signed"
<1> DEFINE zero == Assigned(v, OfLogic(LO))
           unset == Vector("unset", zero.bits)
<1>1. zero.sgn # "signed" /\ zero.sgn # "unset"
  BY DEF Assigned, Adopt, OfLogic, Vector
<1>2. BinaryMod(v, l, r) = DivRem(unset, zero, l, r).rem
  BY DEF BinaryMod
<1> HIDE DEF zero, unset
<1>3. \/ DivRem(unset, zero, l, r).rem = NoNumber(zero)
      \/ \E x : DivRem(unset, zero, l, r).rem = Assigned(zero, x)
      \/ \E x : DivRem(unset, zero, l, r).rem = Vector(l.sgn, x)
  <2> DEFINE x == OfDecimal((IF Negative(l) THEN Wrap(-AbsDecimal(l)) ELSE AbsDecimal(l)) % AbsDecimal(r))
             long == ShiftAndSubtract(unset.bits, zero, l, r)
  <2>1. \/ DivRem(unset, zero, l, r).rem = NoNumber(zero)
        \/ DivRem(unset, zero, l, r).rem = Assigned(zero, x)
        \/ DivRem(unset, zero, l, r).rem = Vector(l.sgn, long.rem)
    BY DEF DivRem
  <2> HIDE DEF x, long
  <2> QED BY <2>1
<1>4. NoNumber(zero).sgn = zero.sgn /\ \A x : Assigned(zero, x).sgn = zero.sgn
  BY <1>1 DEF NoNumber, Assigned, Adopt, Vector
<1>5. \A x : Vector(l.sgn, x).sgn = l.sgn
  BY DEF Vector
<1> QED BY <1>1, <1>2, <1>3, <1>4, <1>5

\* Operands of m and k bits that reach the end of n bits together, or one of them.
Reach(n, m, k) == m = k \/ m = n \/ k = n

\* A sum forgets what the vector held if the operands are as long as each other
\* or as the vector: the bits of one of them are copied up to the end, or the
\* rest is cleared.
LEMMA SumForgets ==
  ASSUME NEW n \in Nat \ {0}, NEW m \in 1 .. n, NEW k \in 1 .. n,
         NEW v \in VectorOf(n), NEW w \in VectorOf(n),
         NEW x \in VectorOf(m), NEW y \in VectorOf(k), Reach(n, m, k)
  PROVE  BinaryAdd(v, x, y).bits = BinaryAdd(w, x, y).bits
<1> DEFINE a == v.bits
           b == w.bits
           l == x.bits
           r == y.bits
           carry == Carries(l, r, n)
           end == AddHalt(l, r, n)
           clear == end > Len(r) /\ Len(l) <= Len(r)
           long == IF Len(l) > Len(r) THEN l ELSE r
           sum(old) == [i \in 1 .. n |->
                          IF i < end THEN SumBit(l, r, carry, i)
                          ELSE IF clear THEN LO
                          ELSE IF i <= Len(long) THEN long[i]
                          ELSE old[i]]
<1>1. Len(a) = n /\ Len(b) = n /\ Len(l) = m /\ Len(r) = k /\ m \in Nat /\ k \in Nat
  BY VectorWidth DEF Width
<1> HIDE DEF a, b, l, r
<1>2. \A old : Len(old) = n =>
         AddBits(old, l, r) = IF AddMeetsUnknown(l, r, n) THEN Filled(n, DC) ELSE sum(old)
  BY Zenon DEF AddBits
<1>3. /\ end \in 1 .. n + 1
      /\ end <= n => end > m \/ end > k
  BY <1>1, AddHaltType
<1> HIDE DEF end
<1>4. \A i \in 1 .. n : i < end \/ clear \/ i <= Len(long)
  BY <1>1, <1>3 DEF Reach
<1> HIDE DEF carry, clear, long
<1>5. sum(a) = sum(b)
  BY <1>4
<1> HIDE DEF sum
<1>6. AddBits(a, l, r) = AddBits(b, l, r)
  BY <1>1, <1>2, <1>5
<1> QED BY <1>6 DEF BinaryAdd, Vector, a, b, l, r

\* A product forgets what the vector held.
LEMMA ProductForgets ==
  ASSUME NEW n \in Nat \ {0}, NEW v \in VectorOf(n), NEW w \in VectorOf(n), NEW l, NEW r
  PROVE  BinaryMul(v, l, r).bits = BinaryMul(w, l, r).bits
<1> DEFINE half == Below(DecimalBits \div 2)
           fits(x) == ~ToDecimal(x).fail /\ AbsDecimal(x) < half
           x == OfDecimal(Signed(AbsDecimal(l) * AbsDecimal(r), l, r))
           b == ShiftAndAdd(n, l, r)
<1>1. Width(v) = n /\ Width(w) = n
  BY VectorWidth
<1>2. ASSUME NEW p, Width(p) = n
      PROVE  BinaryMul(p, l, r) = IF Unknown(l) \/ Unknown(r) THEN NoNumber(p)
                                  ELSE IF fits(l) /\ fits(r) THEN Assigned(p, x)
                                  ELSE Vector(Adopt(p, "unsigned"), b)
  BY <1>2, Zenon DEF BinaryMul
<1> HIDE DEF fits, x, b
<1>3. NoNumber(v).bits = NoNumber(w).bits
  BY <1>1, AssignedForgets DEF NoNumber
<1>4. Assigned(v, x).bits = Assigned(w, x).bits
  BY AssignedForgets
<1>5. Vector(Adopt(v, "unsigned"), b).bits = Vector(Adopt(w, "unsigned"), b).bits
  BY DEF Vector
<1> QED BY <1>1, <1>2, <1>3, <1>4, <1>5

\* Every operator forgets what the vector of the node held, but for the sum of
\* operands that are both shorter and not as long as each other, and the
\* remainder of the lowest number.
LEMMA ComputedForgets ==
  ASSUME NEW s, ShapeOK(s), NEW ops, OperandsOK(s, ops),
         NEW n, n = ResultWidth(s), NEW v \in VectorOf(n), NEW w \in VectorOf(n),
         s.op = "+" => \/ OpWidth(s, 1) = OpWidth(s, 2)
                       \/ n = Wider(OpWidth(s, 1), OpWidth(s, 2)),
         s.op = "%" => /\ ~(MostNegative(ops[1]) /\ OpWidth(s, 1) = n /\ OpWidth(s, 1) > DecimalBits)
                       /\ ops[1].sgn # "signed" => v.sgn # "signed" /\ w.sgn # "signed"
  PROVE  Computed(s, v, ops).bits = Computed(s, w, ops).bits
<1> DEFINE l == ops[1]
           r == ops[2]
           m == OpWidth(s, 1)
           k == OpWidth(s, 2)
<1>1. m \in Nat \ {0} /\ l \in VectorOf(m) /\ n \in Nat \ {0}
  BY OperandVectors, ResultWidthType
<1>2. s.op \in Pairs \cup {"?:"} => k \in Nat \ {0} /\ r \in VectorOf(k)
  BY OperandVectors
<1>3. Width(v) = n /\ Width(w) = n /\ l.bits \in [1 .. m -> Logic]
      /\ v.bits \in [1 .. n -> Logic] /\ w.bits \in [1 .. n -> Logic]
  BY <1>1, VectorWidth
<1>4. \A x : Assigned(v, x).bits = Assigned(w, x).bits
  BY <1>1, AssignedForgets
<1>5. \A x : Vector(v.sgn, x).bits = x /\ Vector(w.sgn, x).bits = x
  BY DEF Vector
<1>6. CASE s.op \in Sums \cup {"*"} /\ s.op \in Pairs
  <2>1. /\ Computed(s, v, ops) = Sum(s.op, v, l, r)
        /\ Computed(s, w, ops) = Sum(s.op, w, l, r)
    BY <1>6, ComputedSum
  <2>2. m \in 1 .. n /\ k \in 1 .. n /\ r \in VectorOf(k) /\ r.bits \in [1 .. k -> Logic]
    BY <1>2, <1>6, OperandsFit, VectorWidth
  <2>3. s.op = "+" => Reach(n, m, k)
    BY <2>2 DEF Wider, Reach
  <2> HIDE DEF l, r, m, k
  <2>4. CASE s.op = "+"
    <3>1. BinaryAdd(v, l, r).bits = BinaryAdd(w, l, r).bits
      BY <1>1, <2>2, <2>3, <2>4, SumForgets
    <3> QED BY <2>1, <2>4, <3>1 DEF Sum
  <2>5. CASE s.op = "-"
    <3>1. BinarySub(v, l, r).bits = BinarySub(w, l, r).bits
      BY <1>3 DEF BinarySub, Vector
    <3> QED BY <2>1, <2>5, <3>1 DEF Sum
  <2>6. CASE s.op = "*"
    BY <1>1, <2>1, <2>6, ProductForgets DEF Sum
  <2>7. CASE s.op = "/"
    BY <1>1, <2>1, <2>7, QuotientForgets DEF Sum
  <2>8. CASE s.op = "%"
    <3>1. /\ ~(MostNegative(l) /\ m = n /\ m > DecimalBits)
          /\ l.sgn # "signed" => v.sgn # "signed" /\ w.sgn # "signed"
      BY <2>8 DEF l, m
    <3>2. BinaryMod(v, l, r).bits = BinaryMod(w, l, r).bits
      BY <1>1, <2>2, <3>1, RemainderForgets
    <3> QED BY <2>1, <2>8, <3>2 DEF Sum
  <2> QED BY <1>6, <2>4, <2>5, <2>6, <2>7, <2>8 DEF Sums
<1>7. CASE s.op \in Masks /\ s.op \in Pairs
  BY <1>3, <1>5, <1>7 DEF Computed, Sums, Masks, Relations, Reductions, Shifts
<1>8. CASE s.op \in Relations /\ s.op \in Pairs
  BY <1>4, <1>8 DEF Computed, Sums, Masks, Relations, Reductions, Shifts
<1>9. CASE s.op \in Shifts /\ s.op \in Pairs
  BY <1>3, <1>5, <1>9 DEF Computed, Sums, Masks, Relations, Reductions, Shifts
<1>10. CASE s.op \in Reductions
  BY <1>4, <1>10 DEF Computed, Sums, Masks, Relations, Reductions, Shifts
<1>11. CASE s.op \in {"!", "u+"}
  BY <1>4, <1>11 DEF Computed, Sums, Masks, Relations, Reductions, Shifts
<1>12. CASE s.op \in {"~", "u-"}
  BY <1>3, <1>5, <1>12 DEF Computed, Sums, Masks, Relations, Reductions, Shifts
<1>13. CASE s.op = "?:"
  <2>1. /\ Computed(s, v, ops) = TernaryResult(v, l, r, ops[3])
        /\ Computed(s, w, ops) = TernaryResult(w, l, r, ops[3])
    BY <1>13 DEF Computed, Sums, Masks, Relations, Reductions, Shifts
  <2>2. TernaryResult(v, l, r, ops[3]).bits = TernaryResult(w, l, r, ops[3]).bits
    BY <1>3, <1>4, <1>5 DEF TernaryResult
  <2> QED BY <2>1, <2>2
<1>14. CASE s.op = "concat"
  <2>1. /\ Computed(s, v, ops) = Concatenation(s, v, ops)
        /\ Computed(s, w, ops) = Concatenation(s, w, ops)
    BY <1>14 DEF Computed, Sums, Masks, Relations, Reductions, Shifts
  <2>2. Concatenation(s, v, ops).bits = Concatenation(s, w, ops).bits
    BY <1>3, Zenon DEF Concatenation, Vector
  <2> QED BY <2>1, <2>2
<1> QED BY <1>6, <1>7, <1>8, <1>9, <1>10, <1>11, <1>12, <1>13, <1>14, Kinds

\* The vector of a remainder is signed only if the dividend is.
RemainderSign ==
  node.op = "%" /\ node.ops[1].sgn # "signed" => result.sgn # "signed"

\* Setup makes it so and evaluations leave it so.
LEMMA RemainderSignCorrect == Spec => []RemainderSign
<1>1. Init => RemainderSign
  BY DEF Init, RemainderSign, Fresh, ResultSign, Vector
<1>2. ExpressionTypeOK /\ RemainderSign /\ [Next]_vars => RemainderSign'
  <2> SUFFICES ASSUME ExpressionTypeOK, RemainderSign, [Next]_vars PROVE RemainderSign'
    OBVIOUS
  <2>1. CASE Evaluate
    <3>1. PICK ops \in Operands(node) : result' = Computed(node, result, ops)
      BY <2>1 DEF Evaluate
    <3>2. node' = node
      BY <2>1 DEF Evaluate
    <3>3. ShapeOK(node) /\ OperandsOK(node, ops)
      BY ShapesOK, OperandsType DEF ExpressionTypeOK
    <3>4. ops[1].sgn = node.ops[1].sgn
      BY <3>3, OperandVectors
    <3>5. SUFFICES ASSUME node.op = "%", node.ops[1].sgn # "signed" PROVE result'.sgn # "signed"
      BY <3>2 DEF RemainderSign
    <3>6. result' = BinaryMod(result, ops[1], ops[2])
      BY <3>1, <3>5, ComputedSum DEF Sum, Sums
    <3>7. result.sgn # "signed"
      BY <3>5 DEF RemainderSign
    <3> QED BY <3>4, <3>5, <3>6, <3>7, RemainderSigned
  <2>2. CASE EvaluateOutside
    BY <2>2 DEF EvaluateOutside, RemainderSign
  <2>3. CASE UNCHANGED vars
    BY <2>3 DEF vars, RemainderSign
  <2> QED BY <2>1, <2>2, <2>3 DEF Next
<1> QED BY <1>1, <1>2, ExpressionTypeCorrect, PTL DEF Spec

\* The value of a node depends on its operands alone, not on what earlier
\* evaluations left in the vector it owns (bvector.cc), but for the sum whose
\* upper bits are never written and the remainder of the lowest number.
THEOREM RepeatableCorrect == Spec => Repeatable
<1> DEFINE Same == Evaluate /\ ~UnevenSum /\ ~MostNegativeDividend(args'[1])
                     => result'.bits = Computed(node, Fresh(node), args').bits
<1>1. ExpressionTypeOK /\ RemainderSign => Same
  <2> SUFFICES ASSUME ExpressionTypeOK, RemainderSign, Evaluate, ~UnevenSum,
                      ~MostNegativeDividend(args'[1])
               PROVE  result'.bits = Computed(node, Fresh(node), args').bits
    OBVIOUS
  <2> DEFINE n == ResultWidth(node)
  <2>1. PICK ops \in Operands(node) : args' = ops /\ result' = Computed(node, result, ops)
    BY DEF Evaluate
  <2>2. ShapeOK(node) /\ OperandsOK(node, ops)
    BY ShapesOK, OperandsType DEF ExpressionTypeOK
  <2>3. result \in VectorOf(n) /\ Fresh(node) \in VectorOf(n)
    BY <2>2, FreshType DEF ExpressionTypeOK
  <2>4. /\ ops[1] \in VectorOf(OpWidth(node, 1)) /\ OpWidth(node, 1) \in Nat
        /\ ops[1].sgn = node.ops[1].sgn
    BY <2>2, OperandVectors
  <2>5. node.op = "+" => \/ OpWidth(node, 1) = OpWidth(node, 2)
                         \/ n = Wider(OpWidth(node, 1), OpWidth(node, 2))
    BY DEF UnevenSum
  <2>6. ASSUME node.op = "%"
        PROVE  /\ ~(MostNegative(ops[1]) /\ OpWidth(node, 1) = n /\ OpWidth(node, 1) > DecimalBits)
               /\ ops[1].sgn # "signed" => result.sgn # "signed" /\ Fresh(node).sgn # "signed"
    <3>1. Width(ops[1]) = OpWidth(node, 1)
      BY <2>4, VectorWidth
    <3>2. Fresh(node).sgn # "signed"
      BY <2>6 DEF Fresh, ResultSign, Vector
    <3> QED BY <2>1, <2>4, <2>6, <3>1, <3>2 DEF MostNegativeDividend, RemainderSign
  <2> HIDE DEF n
  <2>7. Computed(node, result, ops).bits = Computed(node, Fresh(node), ops).bits
    BY <2>2, <2>3, <2>5, <2>6, ComputedForgets DEF n
  <2> QED BY <2>1, <2>7
<1>2. Repeatable <=> [][Same]_vars
  BY DEF Repeatable
<1> QED BY <1>1, <1>2, ExpressionTypeCorrect, RemainderSignCorrect, PTL

-----------------------------------------------------------------------------
(***************************************************************************)
(* Arithmetic.                                                             *)
(***************************************************************************)

Abs(x) == IF x < 0 THEN -x ELSE x

Numbered(v, m) ==
  /\ Width(v) = m /\ v.bits \in [1 .. m -> {LO, HI}]
  /\ Value(v) \in Int /\ Unsigned(v.bits) \in Nat /\ Unsigned(v.bits) < Below(m)
  /\ IF Negative(v) THEN Value(v) = Unsigned(v.bits) - Below(m) /\ Value(v) < 0
                    ELSE Value(v) = Unsigned(v.bits) /\ Value(v) >= 0
  /\ Abs(Value(v)) \in Nat /\ Abs(Value(v)) < Below(m)

\* The number of a known vector, and its size.
LEMMA ValueOf ==
  ASSUME NEW m \in Nat \ {0}, NEW v \in VectorOf(m), AllKnown(v.bits)
  PROVE  Numbered(v, m)
<1> DEFINE u == Unsigned(v.bits)
           p == Below(m)
<1>1. Width(v) = m /\ v.bits \in [1 .. m -> {LO, HI}]
  BY VectorWidth DEF AllKnown, Known
<1>2. u \in Nat /\ u < p /\ p \in Nat \ {0}
  BY <1>1, UnsignedRange, BelowProperties
<1>3. Negative(v) => u > 0
  <2> SUFFICES ASSUME Negative(v) PROVE u > 0
    OBVIOUS
  <2>1. v.bits[m] = HI
    BY <1>1 DEF Negative, Top
  <2>2. u \in Nat \ {0}
    BY <1>1, <2>1, TopNumber
  <2> HIDE DEF u
  <2> QED BY <2>2
<1>4. Value(v) = u - (IF Negative(v) THEN p ELSE 0)
  BY <1>1, Zenon DEF Value
<1> HIDE DEF u, p
<1>5. /\ Value(v) \in Int
      /\ IF Negative(v) THEN Value(v) = u - p /\ Value(v) < 0 ELSE Value(v) = u /\ Value(v) >= 0
      /\ Abs(Value(v)) \in Nat /\ Abs(Value(v)) < p
  <2>1. CASE Negative(v)
    <3> DEFINE x == Value(v)
    <3>1. x = u - p
      BY <1>2, <1>4, <2>1
    <3> HIDE DEF x
    <3>2. x \in Int /\ x < 0 /\ Abs(x) \in Nat /\ Abs(x) < p
      BY <1>2, <1>3, <2>1, <3>1 DEF Abs
    <3> QED BY <2>1, <3>1, <3>2 DEF x
  <2>2. CASE ~Negative(v)
    <3> DEFINE x == Value(v)
    <3>1. x = u
      BY <1>2, <1>4, <2>2
    <3> HIDE DEF x
    <3>2. x \in Int /\ x >= 0 /\ Abs(x) \in Nat /\ Abs(x) < p
      BY <1>2, <3>1 DEF Abs
    <3> QED BY <2>2, <3>1, <3>2 DEF x
  <2> QED BY <2>1, <2>2
<1> QED BY <1>1, <1>2, <1>5 DEF Numbered, u, p

\* The bits of a number, cut or padded, stand for it modulo the power of two;
\* but a negative number must not be padded.
LEMMA ValueCut ==
  ASSUME NEW n \in Nat, NEW m \in Nat \ {0}, NEW v, Numbered(v, m), Negative(v) => n <= m
  PROVE  /\ Padded(v.bits, n) \in [1 .. n -> {LO, HI}]
         /\ Unsigned(Padded(v.bits, n)) \in Int
         /\ Congruent(Unsigned(Padded(v.bits, n)), Value(v), Below(n))
<1> DEFINE b == Padded(v.bits, n)
           c == Unsigned(b)
           u == Unsigned(v.bits)
           p == Below(n)
           x == Value(v)
<1>1. b \in [1 .. n -> {LO, HI}] /\ Congruent(u, c, p)
  BY CutNumber DEF Numbered
<1>2. c \in Int
  <2> HIDE DEF b
  <2>1. c \in Nat
    BY <1>1, UnsignedRange
  <2> QED BY <2>1
<1>3. u \in Int /\ x \in Int /\ p \in Nat \ {0} /\ p \in Int
  <2>1. p \in Nat \ {0}
    BY BelowProperties
  <2> QED BY <2>1 DEF Numbered
<1>4. Congruent(u, x, p)
  <2>1. CASE Negative(v)
    <3>1. x = u - Below(m) /\ n <= m
      BY <2>1 DEF Numbered
    <3>2. PICK d \in Nat \ {0} : Below(m) = d * p
      BY <3>1, BelowDivides
    <3> HIDE DEF u, p, x
    <3>3. u = x + d * p
      BY <1>3, <3>1, <3>2
    <3> QED BY <3>3 DEF Congruent
  <2>2. CASE ~Negative(v)
    <3>1. x = u
      BY <2>2 DEF Numbered
    <3> HIDE DEF u, p, x
    <3> QED BY <1>3, <3>1, CongruentResidue
  <2> QED BY <2>1, <2>2
<1> HIDE DEF c, u, p, x
<1>5. Congruent(c, u, p)
  BY <1>1, <1>2, <1>3, CongruentSymmetric
<1>6. Congruent(c, x, p)
  BY <1>2, <1>3, <1>4, <1>5, CongruentTransitive
<1> QED BY <1>1, <1>2, <1>6 DEF b, c, p, x

\* A sum is exact modulo its width.
LEMMA SumExact ==
  ASSUME NEW n \in Nat \ {0}, NEW m \in 1 .. n, NEW k \in 1 .. n, NEW res \in VectorOf(n),
         NEW l, NEW r, Numbered(l, m), Numbered(r, k),
         Reach(n, m, k), Negative(l) => n <= m, Negative(r) => n <= k
  PROVE  Unsigned(BinaryAdd(res, l, r).bits) = (Value(l) + Value(r)) % Below(n)
<1> DEFINE s == AddBits(res.bits, l.bits, r.bits)
           p == Below(n)
           u == Unsigned(s)
           a == Unsigned(l.bits)
           b == Unsigned(r.bits)
           x == Value(l)
           y == Value(r)
<1>1. BinaryAdd(res, l, r).bits = s
  BY DEF BinaryAdd, Vector
<1>2. s \in [1 .. n -> {LO, HI}] /\ Congruent(u, a + b, p)
  <2>1. l.bits \in [1 .. m -> {LO, HI}] /\ r.bits \in [1 .. k -> {LO, HI}]
        /\ res.bits \in [1 .. n -> Logic] /\ (m = k \/ m = n \/ k = n)
    BY VectorWidth DEF Numbered, Reach
  <2> QED BY <2>1, AddedNumber
<1>3. u \in Nat /\ u < p
  <2> HIDE DEF s
  <2> QED BY <1>2, UnsignedRange
<1>4. p \in Nat \ {0} /\ a \in Int /\ b \in Int /\ x \in Int /\ y \in Int
  <2>1. p \in Nat \ {0}
    BY BelowProperties
  <2> QED BY <2>1 DEF Numbered
<1>5. Congruent(a, x, p)
  <2>1. m \in Nat \ {0} /\ m \in 0 .. n /\ n \in Nat
    OBVIOUS
  <2>2. Congruent(Unsigned(Padded(l.bits, n)), x, p)
    BY <2>1, ValueCut
  <2>3. Unsigned(Padded(l.bits, n)) = a
    <3>1. l.bits \in [1 .. m -> {LO, HI}]
      BY DEF Numbered
    <3> QED BY <2>1, <3>1, PaddedNumber
  <2> QED BY <2>2, <2>3
<1>6. Congruent(b, y, p)
  <2>1. k \in Nat \ {0} /\ k \in 0 .. n /\ n \in Nat
    OBVIOUS
  <2>2. Congruent(Unsigned(Padded(r.bits, n)), y, p)
    BY <2>1, ValueCut
  <2>3. Unsigned(Padded(r.bits, n)) = b
    <3>1. r.bits \in [1 .. k -> {LO, HI}]
      BY DEF Numbered
    <3> QED BY <2>1, <3>1, PaddedNumber
  <2> QED BY <2>2, <2>3
<1> HIDE DEF s, p, u, a, b, x, y
<1>7. Congruent(a + b, x + y, p)
  BY <1>4, <1>5, <1>6, CongruentSums
<1>8. Congruent(u, x + y, p)
  <2>1. a + b \in Int /\ x + y \in Int /\ u \in Int /\ p \in Int
    BY <1>3, <1>4
  <2> QED BY <1>2, <1>7, <2>1, CongruentTransitive
<1>9. (x + y) % p = u
  <2>1. x + y \in Int /\ u \in 0 .. p - 1
    BY <1>3, <1>4
  <2> QED BY <1>4, <1>8, <2>1, ResidueOf
<1> QED BY <1>1, <1>9 DEF u, p, x, y

\* A difference is exact modulo its width.
LEMMA DifferenceExact ==
  ASSUME NEW n \in Nat \ {0}, NEW m \in 1 .. n, NEW k \in 1 .. n, NEW res \in VectorOf(n),
         NEW l, NEW r, Numbered(l, m), Numbered(r, k), Negative(l) => n <= m, Negative(r) => n <= k
  PROVE  Unsigned(BinarySub(res, l, r).bits) = (Value(l) - Value(r)) % Below(n)
<1> DEFINE p == Below(n)
           a == Unsigned(Padded(l.bits, n))
           b == Unsigned(Padded(r.bits, n))
           x == Value(l)
           y == Value(r)
<1>1. m \in Nat \ {0} /\ k \in Nat \ {0} /\ n \in Nat
  OBVIOUS
<1>2. /\ Padded(l.bits, n) \in [1 .. n -> {LO, HI}] /\ a \in Int /\ Congruent(a, x, p)
      /\ Padded(r.bits, n) \in [1 .. n -> {LO, HI}] /\ b \in Int /\ Congruent(b, y, p)
  BY <1>1, ValueCut
<1>3. p \in Nat \ {0} /\ x \in Int /\ y \in Int
  <2>1. p \in Nat \ {0}
    BY BelowProperties
  <2> QED BY <2>1 DEF Numbered
<1>4. BinarySub(res, l, r).bits = Bits((a - b) % p, n)
  <2>1. \A i \in 1 .. n : Known(At(l.bits, i)) /\ Known(At(r.bits, i))
    BY <1>2 DEF Padded, Known
  <2>2. Width(res) = n
    BY VectorWidth
  <2>3. BinarySub(res, l, r).bits = Difference(l.bits, r.bits, n)
    BY <2>1, <2>2 DEF BinarySub, Vector
  <2> QED BY <2>3, Zenon DEF Difference, Padded
<1> HIDE DEF p, a, b, x, y
<1> DEFINE d == (a - b) % p
<1>5. d \in Int /\ d \in 0 .. p - 1 /\ a - b \in Int /\ x - y \in Int
  BY <1>2, <1>3
<1>6. Unsigned(Bits(d, n)) = d % p
  <2> HIDE DEF d
  <2> QED BY <1>1, <1>5, BitsNumber DEF p
<1>7. d % p = d
  <2> HIDE DEF d
  <2> QED BY <1>3, <1>5
<1>8. Congruent(d, a - b, p)
  <2> DEFINE e == a - b
  <2>1. e \in Int
    BY <1>5
  <2> HIDE DEF e
  <2>2. Congruent(e % p, e, p)
    BY <1>3, <2>1, CongruentResidue
  <2> QED BY <2>2 DEF e
<1>9. Congruent(a - b, x - y, p)
  BY <1>2, <1>3, CongruentSums
<1> HIDE DEF d
<1>10. Congruent(d, x - y, p)
  BY <1>3, <1>5, <1>8, <1>9, CongruentTransitive
<1>11. (x - y) % p = d
  BY <1>3, <1>5, <1>10, ResidueOf
<1> QED BY <1>4, <1>6, <1>7, <1>11 DEF d, p, x, y

\* Modulo the machine's own width.
LEMMA Wrapped ==
  ASSUME NEW x \in Int
  PROVE  /\ Wrap(x) \in 0 .. Below(DecimalBits) - 1 /\ Wrap(x) \in Int
         /\ Congruent(Wrap(x), x, Below(DecimalBits))
         /\ x \in 0 .. Below(DecimalBits) - 1 => Wrap(x) = x
<1> DEFINE p == Below(DecimalBits)
<1>1. p \in Nat \ {0}
  BY LogicVectorAssumption, BelowProperties
<1> HIDE DEF p
<1>2. x % p \in 0 .. p - 1 /\ x % p \in Int
  BY <1>1, Divided
<1>3. Congruent(x % p, x, p)
  BY <1>1, CongruentResidue
<1>4. x \in 0 .. p - 1 => x % p = x
  BY <1>1
<1>5. Wrap(x) = x % p
  BY DEF Wrap, p
<1> QED BY <1>2, <1>3, <1>4, <1>5 DEF p

\* A known operand that is no wider than the machine's integers is taken by
\* its absolute value.
LEMMA DecimalOf ==
  ASSUME NEW m \in 1 .. DecimalBits, NEW v \in VectorOf(m), AllKnown(v.bits)
  PROVE  ~ToDecimal(v).fail /\ ~Unknown(v) /\ AbsDecimal(v) = Abs(Value(v))
<1> DEFINE k == IF DecimalBits > Width(v) THEN Width(v) ELSE DecimalBits
           low == SubSeq(v.bits, 1, k)
           high == {v.bits[i] : i \in DecimalBits + 1 .. Width(v)}
           u == Unsigned(v.bits)
           p == Below(m)
           q == Below(DecimalBits)
           x == Value(v)
           d == ToDecimal(v).val
<1>1. m \in Nat \ {0} /\ m <= DecimalBits /\ DecimalBits \in Nat
  BY LogicVectorAssumption
<1>2. Numbered(v, m)
  BY <1>1, ValueOf
<1>3. k = m /\ Width(v) = m
  BY <1>1, <1>2 DEF Numbered
<1>4. low = v.bits
  <2>1. v.bits \in [1 .. m -> Logic]
    BY <1>1, VectorWidth
  <2>2. SubSeq(v.bits, 1, m) \in [1 .. m -> Logic]
        /\ \A i \in 1 .. m : SubSeq(v.bits, 1, m)[i] = v.bits[i]
    <3>1. m \in 0 .. m
      BY <1>1
    <3> QED BY <1>1, <2>1, <3>1, PrefixType
  <2>3. SubSeq(v.bits, 1, m) = v.bits
    BY <2>1, <2>2
  <2> QED BY <1>3, <2>3
<1>5. high = {}
  BY <1>1, <1>3
<1>6. /\ ToDecimal(v).fail = FALSE
      /\ d = IF DecimalBits > m /\ Negative(v) THEN u + (q - p) ELSE u
  <2>1. high \ {Top(v)} = {}
    BY <1>5
  <2> HIDE DEF high
  <2>2. ToDecimal(v) = IF DecimalBits > Width(v) /\ Negative(v)
                       THEN [fail |-> FALSE, val |-> u + (q - Below(Width(v)))]
                       ELSE [fail |-> FALSE, val |-> u]
    BY <1>4, <2>1, Zenon DEF ToDecimal, ToBits, high
  <2> QED BY <1>3, <2>2
<1>7. p \in Nat \ {0} /\ q \in Nat \ {0} /\ p <= q
  <2>1. p \in Nat \ {0} /\ q \in Nat \ {0}
    BY <1>1, BelowProperties
  <2> QED BY <1>1, <2>1, BelowMonotone
<1>8. /\ u \in Nat /\ u < p /\ x \in Int
      /\ IF Negative(v) THEN x = u - p /\ x < 0 ELSE x = u /\ x >= 0
      /\ Abs(x) \in Nat /\ Abs(x) < p
  BY <1>2 DEF Numbered
<1>9. AbsDecimal(v) = Abs(x)
  <2>1. CASE Negative(v)
    <3>1. AbsDecimal(v) = Wrap(-d)
      BY <2>1 DEF AbsDecimal
    <3>2. DecimalBits = m => p = q
      OBVIOUS
    <3> HIDE DEF u, p, q, x, d
    <3>3. d = u + (q - p)
      BY <1>1, <1>6, <1>7, <1>8, <2>1, <3>2
    <3> DEFINE e == -x
               f == -d
    <3>4. e \in 0 .. q - 1 /\ f \in Int /\ f = (-1) * q + e
      <4>1. x = u - p /\ x < 0
        BY <1>8, <2>1
      <4>2. e \in 0 .. q - 1
        BY <1>7, <1>8, <4>1 DEF Abs
      <4>3. d \in Int /\ f \in Int
        BY <1>7, <1>8, <3>3
      <4>4. f = (-1) * q + e
        BY <1>7, <1>8, <3>3, <4>1
      <4> QED BY <4>2, <4>3, <4>4
    <3>5. Abs(x) = e
      BY <1>8, <2>1 DEF Abs
    <3> HIDE DEF e, f
    <3>6. f % q = e
      <4>1. -1 \in Int
        OBVIOUS
      <4> QED BY <1>7, <3>4, <4>1, DividedOnce
    <3>7. Wrap(f) = e
      BY <3>6 DEF Wrap, q
    <3> QED BY <3>1, <3>5, <3>7 DEF f
  <2>2. CASE ~Negative(v)
    <3>1. AbsDecimal(v) = Wrap(u)
      BY <1>6, <2>2 DEF AbsDecimal
    <3>2. u \in Int /\ u \in 0 .. q - 1
      <4> HIDE DEF u, p, q
      <4> QED BY <1>7, <1>8
    <3>3. Wrap(u) = u
      <4> HIDE DEF u
      <4> QED BY <3>2, Wrapped DEF q
    <3>4. Abs(x) = u
      <4> HIDE DEF u, x
      <4> QED BY <1>8, <2>2 DEF Abs
    <3> QED BY <3>1, <3>3, <3>4
  <2> QED BY <2>1, <2>2
<1> QED BY <1>6, <1>9 DEF Unknown

\* What is assigned from a machine integer stands for it modulo the width.
LEMMA AssignedNumber ==
  ASSUME NEW n \in Nat \ {0}, NEW res \in VectorOf(n), NEW x \in 0 .. Below(DecimalBits) - 1
  PROVE  Unsigned(Assigned(res, OfDecimal(x)).bits) = x % Below(n)
<1>1. PICK m \in 1 .. DecimalBits : x < Below(m) /\ OfDecimal(x) = Vector("unsigned", Bits(x, m))
  BY OfDecimalWidth
<1> DEFINE b == Bits(x, m)
           c == Padded(b, n)
           p == Below(n)
           u == Unsigned(c)
<1>2. m \in Nat /\ x \in Int /\ x \in Nat
  BY LogicVectorAssumption, BelowProperties
<1>3. b \in [1 .. m -> {LO, HI}]
  BY <1>2, BitsType
<1>4. Unsigned(b) = x
  <2> DEFINE q == Below(m)
  <2>1. Unsigned(b) = x % q
    BY <1>2, BitsNumber
  <2>2. q \in Nat \ {0} /\ x < q
    BY <1>1, <1>2, BelowProperties
  <2> HIDE DEF q, b
  <2>3. x % q = x
    BY <1>2, <2>2
  <2> QED BY <2>1, <2>3
<1>5. Assigned(res, OfDecimal(x)).bits = c
  <2>1. Width(res) = n
    BY VectorWidth
  <2>2. OfDecimal(x).sgn = "unsigned" /\ OfDecimal(x).bits = b /\ Width(OfDecimal(x)) = Len(b)
    BY <1>1 DEF Vector, Width
  <2> HIDE DEF b
  <2>3. Assigned(res, OfDecimal(x)).bits = [i \in 1 .. n |-> IF i <= Len(b) THEN b[i] ELSE LO]
    BY <2>1, <2>2 DEF Assigned, Vector
  <2> QED BY <2>3 DEF Padded, At
<1> HIDE DEF b
<1>6. c \in [1 .. n -> {LO, HI}] /\ Congruent(x, u, p)
  BY <1>2, <1>3, <1>4, CutNumber
<1> HIDE DEF c
<1>7. u \in Nat /\ u < p /\ p \in Nat \ {0}
  <2>1. p \in Nat \ {0}
    BY BelowProperties
  <2> QED BY <1>6, <2>1, UnsignedRange
<1> HIDE DEF u, p
<1>8. Congruent(u, x, p)
  <2>1. u \in Int /\ p \in Int
    BY <1>7
  <2> QED BY <1>2, <1>6, <2>1, CongruentSymmetric
<1>9. x % p = u
  <2>1. u \in 0 .. p - 1
    BY <1>7
  <2> QED BY <1>2, <1>7, <1>8, <2>1, ResidueOf
<1> QED BY <1>5, <1>9 DEF u, p

\* What the sign of the operands makes of a product or quotient of their sizes.
WithSign(x, l, r) == IF Negative(l) # Negative(r) THEN -x ELSE x

\* It is assigned modulo the width, if it is not negative or the result is no
\* wider than the machine's integers.
LEMMA SignedNumber ==
  ASSUME NEW n \in Nat \ {0}, NEW res \in VectorOf(n), NEW x \in 0 .. Below(DecimalBits) - 1,
         NEW l, NEW r, n <= DecimalBits \/ Negative(l) = Negative(r)
  PROVE  Unsigned(Assigned(res, OfDecimal(Signed(x, l, r))).bits) = WithSign(x, l, r) % Below(n)
<1> DEFINE y == WithSign(x, l, r)
           w == Wrap(y)
           p == Below(n)
           q == Below(DecimalBits)
<1>0. Signed(x, l, r) = w
  BY Zenon DEF Signed, WithSign
<1>1. y \in Int /\ (Negative(l) = Negative(r) => y = x) /\ p \in Nat \ {0}
  BY BelowProperties DEF WithSign
<1> HIDE DEF y
<1>2. w \in 0 .. q - 1 /\ w \in Int /\ Congruent(w, y, q) /\ (y \in 0 .. q - 1 => w = y)
  BY <1>1, Wrapped
<1>3. w % p = y % p
  <2>1. CASE n <= DecimalBits
    <3>1. DecimalBits \in Nat
      BY LogicVectorAssumption
    <3> HIDE DEF w
    <3>2. Congruent(w, y, p)
      BY <1>1, <1>2, <2>1, <3>1, CongruentLower
    <3> HIDE DEF p
    <3> QED BY <1>1, <1>2, <3>2, SameRemainder
  <2>2. CASE Negative(l) = Negative(r)
    <3> HIDE DEF w, p, q
    <3>1. w = y
      BY <1>1, <1>2, <2>2 DEF q
    <3> QED BY <3>1
  <2> QED BY <2>1, <2>2
<1>4. Unsigned(Assigned(res, OfDecimal(w)).bits) = w % p
  <2> HIDE DEF w
  <2> QED BY <1>2, AssignedNumber DEF q
<1> QED BY <1>0, <1>3, <1>4 DEF y

\* A product of operands of half the machine's width is exact.
LEMMA ProductExact ==
  ASSUME NEW n \in Nat \ {0}, NEW m \in Nat \ {0}, NEW k \in Nat \ {0}, NEW res \in VectorOf(n),
         NEW l \in VectorOf(m), NEW r \in VectorOf(k), AllKnown(l.bits), AllKnown(r.bits),
         m <= DecimalBits \div 2, k <= DecimalBits \div 2,
         n <= DecimalBits \/ Negative(l) = Negative(r)
  PROVE  Unsigned(BinaryMul(res, l, r).bits) = (Value(l) * Value(r)) % Below(n)
<1> DEFINE h == DecimalBits \div 2
           half == Below(h)
           q == Below(DecimalBits)
           x == Value(l)
           y == Value(r)
           z == Abs(x) * Abs(y)
<1>1. h \in Nat /\ h + h <= DecimalBits /\ DecimalBits \in Nat /\ h + h \in Nat
      /\ m \in 1 .. DecimalBits /\ k \in 1 .. DecimalBits /\ m <= h /\ k <= h
  BY LogicVectorAssumption
<1> HIDE DEF h
<1>2. /\ ~ToDecimal(l).fail /\ ~Unknown(l) /\ AbsDecimal(l) = Abs(x)
      /\ ~ToDecimal(r).fail /\ ~Unknown(r) /\ AbsDecimal(r) = Abs(y)
  BY <1>1, DecimalOf
<1>3. Numbered(l, m) /\ Numbered(r, k)
  BY ValueOf
<1>4. Abs(x) \in Nat /\ Abs(x) < half /\ Abs(y) \in Nat /\ Abs(y) < half
  <2>1. Below(m) <= half /\ Below(k) <= half
    BY <1>1, BelowMonotone
  <2>2. Below(m) \in Nat /\ Below(k) \in Nat /\ half \in Nat
    BY <1>1, BelowProperties
  <2>3. Abs(x) \in Nat /\ Abs(x) < Below(m) /\ Abs(y) \in Nat /\ Abs(y) < Below(k)
    BY <1>3 DEF Numbered
  <2> HIDE DEF half, x, y
  <2> QED BY <2>1, <2>2, <2>3
<1>5. z \in 0 .. q - 1
  <2>1. half * half <= q
    <3>1. Below(h + h) = half * half
      BY <1>1, BelowProduct
    <3>2. Below(h + h) <= q
      BY <1>1, BelowMonotone
    <3> QED BY <3>1, <3>2
  <2>2. half \in Nat /\ q \in Nat
    BY <1>1, BelowProperties
  <2> DEFINE a == Abs(x)
             b == Abs(y)
  <2> HIDE DEF half, q, a, b
  <2>3. a \in Nat /\ b \in Nat /\ a < half /\ b < half
    BY <1>4 DEF a, b
  <2>4. a * b \in Nat /\ a * b < half * half
    <3>1. a * b \in Nat /\ a * b <= a * half
      BY <2>2, <2>3
    <3>2. a * half < half * half
      BY <2>2, <2>3
    <3> QED BY <2>2, <2>3, <3>1, <3>2
  <2> DEFINE c == a * b
             d == half * half
  <2>5. c \in Nat /\ d \in Nat /\ c < d /\ d <= q
    BY <2>1, <2>2, <2>4
  <2> HIDE DEF c, d
  <2>6. c \in 0 .. q - 1
    BY <2>2, <2>5
  <2> QED BY <2>6 DEF a, b, c
<1>6. x * y = WithSign(z, l, r)
  <2>1. /\ x \in Int /\ y \in Int
        /\ IF Negative(l) THEN x < 0 ELSE x >= 0
        /\ IF Negative(r) THEN y < 0 ELSE y >= 0
    BY <1>3 DEF Numbered
  <2> HIDE DEF x, y
  <2>2. CASE Negative(l) /\ Negative(r)
    <3>1. z = (-x) * (-y)
      BY <2>1, <2>2 DEF Abs
    <3>2. WithSign(z, l, r) = z
      BY <2>2, Zenon DEF WithSign
    <3>3. (-x) * (-y) = x * y
      BY <2>1
    <3> QED BY <3>1, <3>2, <3>3
  <2>3. CASE Negative(l) /\ ~Negative(r)
    <3>1. z = (-x) * y
      BY <2>1, <2>3 DEF Abs
    <3>2. WithSign(z, l, r) = -z
      BY <2>3, Zenon DEF WithSign
    <3>3. -((-x) * y) = x * y
      BY <2>1
    <3> QED BY <3>1, <3>2, <3>3
  <2>4. CASE ~Negative(l) /\ Negative(r)
    <3>1. z = x * (-y)
      BY <2>1, <2>4 DEF Abs
    <3>2. WithSign(z, l, r) = -z
      BY <2>4, Zenon DEF WithSign
    <3>3. -(x * (-y)) = x * y
      BY <2>1
    <3> QED BY <3>1, <3>2, <3>3
  <2>5. CASE ~Negative(l) /\ ~Negative(r)
    <3>1. z = x * y
      BY <2>1, <2>5 DEF Abs
    <3>2. WithSign(z, l, r) = z
      <4>1. Negative(l) = FALSE /\ Negative(r) = FALSE
        BY <2>5 DEF Negative
      <4> QED BY <4>1, Zenon DEF WithSign
    <3> QED BY <3>1, <3>2
  <2> QED BY <2>2, <2>3, <2>4, <2>5
<1>7. BinaryMul(res, l, r) = Assigned(res, OfDecimal(Signed(z, l, r)))
  <2>1. AbsDecimal(l) < half /\ AbsDecimal(r) < half
    BY <1>2, <1>4
  <2>2. BinaryMul(res, l, r) = Assigned(res, OfDecimal(Signed(AbsDecimal(l) * AbsDecimal(r), l, r)))
    <3> HIDE DEF half
    <3> QED BY <1>2, <2>1, Zenon DEF BinaryMul, half, h
  <2> QED BY <1>2, <2>2
<1> HIDE DEF z, x, y
<1>8. Unsigned(Assigned(res, OfDecimal(Signed(z, l, r))).bits) = WithSign(z, l, r) % Below(n)
  BY <1>5, SignedNumber
<1> QED BY <1>6, <1>7, <1>8 DEF x, y

\* A quotient of operands no wider than the machine's integers is exact.
LEMMA QuotientExact ==
  ASSUME NEW n \in 1 .. DecimalBits, NEW m \in 1 .. n, NEW k \in 1 .. n, NEW res \in VectorOf(n),
         NEW l \in VectorOf(m), NEW r \in VectorOf(k), AllKnown(l.bits), AllKnown(r.bits),
         Value(r) # 0
  PROVE  Unsigned(BinaryDiv(res, l, r).bits) = Quotient(Value(l), Value(r)) % Below(n)
<1> DEFINE q == Below(DecimalBits)
           x == Value(l)
           y == Value(r)
           z == Abs(x) \div Abs(y)
           zero == Assigned(res, OfLogic(LO))
<1>1. n \in Nat \ {0} /\ n <= DecimalBits /\ DecimalBits \in Nat
      /\ m \in 1 .. DecimalBits /\ k \in 1 .. DecimalBits /\ m \in Nat \ {0} /\ k \in Nat \ {0}
  BY LogicVectorAssumption
<1>2. /\ ~ToDecimal(l).fail /\ ~Unknown(l) /\ AbsDecimal(l) = Abs(x)
      /\ ~ToDecimal(r).fail /\ ~Unknown(r) /\ AbsDecimal(r) = Abs(y)
  BY <1>1, DecimalOf
<1>3. Numbered(l, m) /\ Numbered(r, k)
  BY <1>1, ValueOf
<1>4. Abs(x) \in Nat /\ Abs(x) < q /\ Abs(y) \in Nat \ {0} /\ q \in Nat
  <2>1. Below(m) <= q
    BY <1>1, BelowMonotone
  <2>2. Below(m) \in Nat /\ q \in Nat
    BY <1>1, BelowProperties
  <2>3. Abs(x) \in Nat /\ Abs(x) < Below(m) /\ Abs(y) \in Nat /\ y \in Int
    BY <1>3 DEF Numbered
  <2>4. y # 0
    OBVIOUS
  <2> HIDE DEF q, x, y
  <2>5. Abs(y) # 0
    BY <2>3, <2>4 DEF Abs
  <2> QED BY <2>1, <2>2, <2>3, <2>5
<1>5. z \in 0 .. q - 1
  <2> DEFINE a == Abs(x)
             b == Abs(y)
             c == a \div b
             d == a % b
  <2>1. a \in Nat /\ a < q /\ b \in Nat \ {0} /\ q \in Nat
    BY <1>4
  <2> HIDE DEF a, b, q
  <2>2. c \in Int /\ d \in Nat /\ a = c * b + d /\ d \in 0 .. b - 1
    BY <2>1, Divided
  <2> HIDE DEF c, d
  <2>3. c >= 0
    <3> SUFFICES ASSUME c <= -1 PROVE FALSE
      BY <2>2
    <3>1. c * b <= (-1) * b
      BY <2>1, <2>2
    <3> QED BY <2>1, <2>2, <3>1
  <2>4. c <= a
    <3>1. c * b >= c * 1
      BY <2>1, <2>2, <2>3
    <3> QED BY <2>1, <2>2, <3>1
  <2>5. c \in 0 .. q - 1
    BY <2>1, <2>2, <2>3, <2>4
  <2> QED BY <2>5 DEF a, b, c
<1>6. Quotient(x, y) = WithSign(z, l, r)
  <2>1. (x < 0) = Negative(l) /\ (y < 0) = Negative(r)
    BY <1>3 DEF Numbered, Negative
  <2>2. Quotient(x, y) = IF (x < 0) # (y < 0) THEN -z ELSE z
    <3> HIDE DEF x, y
    <3> QED BY Zenon DEF Quotient, Abs
  <2> HIDE DEF x, y, z
  <2> QED BY <2>1, <2>2, Zenon DEF WithSign
<1>7. zero \in VectorOf(n)
  BY <1>1, ClearedType
<1>8. BinaryDiv(res, l, r) = Assigned(zero, OfDecimal(Signed(z, l, r)))
  <2>1. AbsDecimal(r) # 0
    BY <1>2, <1>4
  <2>2. BinaryDiv(res, l, r) = DivRem(zero, Vector("unset", zero.bits), l, r).q
    BY DEF BinaryDiv
  <2> HIDE DEF zero
  <2>3. DivRem(zero, Vector("unset", zero.bits), l, r).q
          = Assigned(zero, OfDecimal(Signed(AbsDecimal(l) \div AbsDecimal(r), l, r)))
    BY <1>2, <2>1 DEF DivRem
  <2> QED BY <1>2, <2>2, <2>3
<1> HIDE DEF z, zero, x, y
<1>9. Unsigned(Assigned(zero, OfDecimal(Signed(z, l, r))).bits) = WithSign(z, l, r) % Below(n)
  BY <1>1, <1>5, <1>7, SignedNumber
<1> QED BY <1>6, <1>8, <1>9 DEF x, y

\* So is a remainder, if the dividend is not negative.
LEMMA RemainderExact ==
  ASSUME NEW n \in 1 .. DecimalBits, NEW m \in 1 .. n, NEW k \in 1 .. n, NEW res \in VectorOf(n),
         NEW l \in VectorOf(m), NEW r \in VectorOf(k), AllKnown(l.bits), AllKnown(r.bits),
         Value(r) # 0, ~Negative(l)
  PROVE  Unsigned(BinaryMod(res, l, r).bits)
           = (Value(l) - Value(r) * Quotient(Value(l), Value(r))) % Below(n)
<1> DEFINE q == Below(DecimalBits)
           x == Value(l)
           y == Value(r)
           a == Abs(y)
           z == x % a
           zero == Assigned(res, OfLogic(LO))
<1>1. n \in Nat \ {0} /\ n <= DecimalBits /\ DecimalBits \in Nat
      /\ m \in 1 .. DecimalBits /\ k \in 1 .. DecimalBits /\ m \in Nat \ {0} /\ k \in Nat \ {0}
  BY LogicVectorAssumption
<1>2. /\ ~ToDecimal(l).fail /\ ~Unknown(l) /\ AbsDecimal(l) = Abs(x)
      /\ ~ToDecimal(r).fail /\ ~Unknown(r) /\ AbsDecimal(r) = a
  BY <1>1, DecimalOf
<1>3. Numbered(l, m) /\ Numbered(r, k)
  BY <1>1, ValueOf
<1>4. x \in Nat /\ Abs(x) = x /\ y \in Int /\ a \in Nat \ {0} /\ a < q /\ q \in Nat
  <2>1. Below(k) <= q
    BY <1>1, BelowMonotone
  <2>2. Below(k) \in Nat /\ q \in Nat
    BY <1>1, BelowProperties
  <2>3. x \in Int /\ x >= 0 /\ a \in Nat /\ a < Below(k) /\ y \in Int
    BY <1>3 DEF Numbered
  <2>4. y # 0
    OBVIOUS
  <2> HIDE DEF q, x, y
  <2>5. a # 0
    BY <2>3, <2>4 DEF Abs
  <2>6. Abs(x) = x
    BY <2>3 DEF Abs
  <2> QED BY <2>1, <2>2, <2>3, <2>5, <2>6
<1>5. z \in 0 .. q - 1 /\ z \in Int
  <2> HIDE DEF q, x, a
  <2>1. z \in 0 .. a - 1
    BY <1>4
  <2> HIDE DEF z
  <2> QED BY <1>4, <2>1
<1>6. x - y * Quotient(x, y) = z
  <2> DEFINE d == x \div a
  <2>1. Quotient(x, y) = IF (x < 0) # (y < 0) THEN -d ELSE d
    <3>1. Quotient(x, y) = IF (x < 0) # (y < 0) THEN -(Abs(x) \div Abs(y)) ELSE Abs(x) \div Abs(y)
      <4> HIDE DEF x, y
      <4> QED BY Zenon DEF Quotient, Abs
    <3> QED BY <1>4, <3>1
  <2> HIDE DEF x, y
  <2>2. a = IF y < 0 THEN -y ELSE y
    BY Zenon DEF Abs
  <2> HIDE DEF a
  <2>3. d \in Int /\ x = d * a + z
    <3>1. x \in Int /\ a \in Nat \ {0}
      BY <1>4
    <3> QED BY <3>1, Divided
  <2> HIDE DEF d, z
  <2> DEFINE e == Quotient(x, y)
  <2>4. e = IF y < 0 THEN -d ELSE d
    BY <1>4, <2>1
  <2> HIDE DEF e
  <2>5. y * e = d * a
    BY <1>4, <2>2, <2>3, <2>4
  <2>6. d * a \in Int
    BY <1>4, <2>3
  <2>7. x - y * e = z
    BY <1>4, <1>5, <2>3, <2>5, <2>6
  <2> QED BY <2>7 DEF e
<1>7. zero \in VectorOf(n)
  BY <1>1, ClearedType
<1>8. BinaryMod(res, l, r) = Assigned(zero, OfDecimal(z))
  <2>1. AbsDecimal(r) # 0
    BY <1>2, <1>4
  <2>2. BinaryMod(res, l, r) = DivRem(Vector("unset", zero.bits), zero, l, r).rem
    BY DEF BinaryMod
  <2> HIDE DEF zero
  <2>3. DivRem(Vector("unset", zero.bits), zero, l, r).rem
          = Assigned(zero, OfDecimal(AbsDecimal(l) % AbsDecimal(r)))
    BY <1>2, <2>1 DEF DivRem
  <2> HIDE DEF a, x
  <2> QED BY <1>2, <1>4, <2>2, <2>3
<1> HIDE DEF z, zero, x, y
<1>9. Unsigned(Assigned(zero, OfDecimal(z)).bits) = z % Below(n)
  BY <1>1, <1>5, <1>7, AssignedNumber
<1> QED BY <1>6, <1>8, <1>9 DEF x, y

\* The widths and values of the last evaluation of an arithmetic operator.
LatestSum(n, m, k, old) ==
  /\ n = ResultWidth(node) /\ Width(result) = n /\ m <= n /\ k <= n
  /\ args[1] \in VectorOf(m) /\ args[2] \in VectorOf(k)
  /\ AllKnown(args[1].bits) /\ AllKnown(args[2].bits)
  /\ result = Sum(node.op, old, args[1], args[2])

\* There are such.
LEMMA ArithmeticOperands ==
  ASSUME ExpressionTypeOK, Latest, Evaluated, NoStray, node.op \in Sums \cup {"*"}
  PROVE  \E n, m, k \in Nat \ {0} : \E old \in VectorOf(n) : LatestSum(n, m, k, old)
<1> DEFINE n == ResultWidth(node)
           m == OpWidth(node, 1)
           k == OpWidth(node, 2)
<1>1. ShapeOK(node) /\ OperandsOK(node, args) /\ n \in Nat \ {0} /\ Width(result) = n
  BY LatestOperands
<1>2. node.op \in Pairs
  BY DEF Pairs
<1>3. m \in Nat \ {0} /\ args[1] \in VectorOf(m) /\ k \in Nat \ {0} /\ args[2] \in VectorOf(k)
  BY <1>1, <1>2, OperandVectors
<1>4. m \in 1 .. n /\ k \in 1 .. n
  BY <1>1, OperandsFit
<1>5. AllKnown(args[1].bits) /\ AllKnown(args[2].bits)
  <2>1. 1 \in DOMAIN args /\ 2 \in DOMAIN args
    <3>1. Len(node.ops) = 2
      BY <1>1, <1>2 DEF ShapeOK
    <3>2. DOMAIN args = 1 .. Len(node.ops)
      BY <1>1 DEF OperandsOK
    <3> QED BY <3>1, <3>2
  <2> QED BY <2>1 DEF NoStray
<1>6. PICK old \in VectorOf(n) : result = Computed(node, old, args)
  BY LatestOperands
<1>7. result = Sum(node.op, old, args[1], args[2])
  BY <1>6, ComputedSum
<1>8. m <= n /\ k <= n
  <2> HIDE DEF m, n, k
  <2> QED BY <1>1, <1>3, <1>4
<1>9. LatestSum(n, m, k, old)
  BY <1>1, <1>3, <1>5, <1>7, <1>8 DEF LatestSum
<1> HIDE DEF m, n, k
<1> QED BY <1>1, <1>3, <1>6, <1>9

\* Where the code means to be exact, it is: the result is that of the integers
\* the operands stand for, modulo the width of the result (common/bvector.cc,
\* binary_add, binary_sub, binary_mul, binary_div_rem).
THEOREM ArithmeticCorrect == Spec => []ArithmeticExact
<1>1. ExpressionTypeOK /\ Latest => ArithmeticExact
  <2> SUFFICES ASSUME ExpressionTypeOK, Latest, Evaluated, NoStray, node.op \in Sums \cup {"*"}, Exact
               PROVE  Unsigned(result.bits)
                        = Expected(Value(args[1]), Value(args[2])) % Below(Width(result))
    BY DEF ArithmeticExact
  <2> DEFINE l == args[1]
             r == args[2]
  <2>0. PICK n \in Nat \ {0}, m \in Nat \ {0}, k \in Nat \ {0} :
           \E old \in VectorOf(n) : LatestSum(n, m, k, old)
    BY ArithmeticOperands
  <2>1. PICK old \in VectorOf(n) :
           /\ n = ResultWidth(node) /\ Width(result) = n /\ m <= n /\ k <= n
           /\ l \in VectorOf(m) /\ r \in VectorOf(k)
           /\ AllKnown(l.bits) /\ AllKnown(r.bits)
           /\ result = Sum(node.op, old, l, r)
    BY <2>0 DEF LatestSum
  <2>2. Numbered(l, m) /\ Numbered(r, k)
    BY <2>1, ValueOf
  <2>3. Width(l) = m /\ Width(r) = k
    BY <2>2 DEF Numbered
  <2>4. m \in 1 .. n /\ k \in 1 .. n
    BY <2>1
  <2>5. node.op \in {"+", "-", "*", "/", "%"}
    BY DEF Sums
  <2>6. CASE node.op = "+"
    <3>1. (m = k \/ n = Wider(m, k)) /\ ~(Negative(l) /\ m < n) /\ ~(Negative(r) /\ k < n)
      BY <2>1, <2>3, <2>6 DEF Exact
    <3>2. Reach(n, m, k)
      BY <2>1, <3>1 DEF Wider, Reach
    <3>3. (Negative(l) => n <= m) /\ (Negative(r) => n <= k)
      BY <2>1, <3>1
    <3>4. result = BinaryAdd(old, l, r)
      BY <2>1, <2>6 DEF Sum
    <3>5. Expected(Value(l), Value(r)) = Value(l) + Value(r)
      BY <2>6 DEF Expected
    <3> HIDE DEF l, r
    <3>6. Unsigned(BinaryAdd(old, l, r).bits) = (Value(l) + Value(r)) % Below(n)
      BY <2>1, <2>2, <2>4, <3>2, <3>3, SumExact
    <3> QED BY <2>1, <3>4, <3>5, <3>6 DEF l, r
  <2>7. CASE node.op = "-"
    <3>1. ~(Negative(l) /\ m < n) /\ ~(Negative(r) /\ k < n)
      BY <2>1, <2>3, <2>7 DEF Exact
    <3>2. (Negative(l) => n <= m) /\ (Negative(r) => n <= k)
      BY <2>1, <3>1
    <3>3. result = BinarySub(old, l, r)
      BY <2>1, <2>7 DEF Sum
    <3>4. Expected(Value(l), Value(r)) = Value(l) - Value(r)
      BY <2>7 DEF Expected
    <3> HIDE DEF l, r
    <3>5. Unsigned(BinarySub(old, l, r).bits) = (Value(l) - Value(r)) % Below(n)
      BY <2>1, <2>2, <2>4, <3>2, DifferenceExact
    <3> QED BY <2>1, <3>3, <3>4, <3>5 DEF l, r
  <2>8. CASE node.op = "*"
    <3>1. m <= DecimalBits \div 2 /\ k <= DecimalBits \div 2
          /\ (n <= DecimalBits \/ Negative(l) = Negative(r))
      BY <2>1, <2>3, <2>8 DEF Exact
    <3>2. result = BinaryMul(old, l, r)
      BY <2>1, <2>8 DEF Sum
    <3>3. Expected(Value(l), Value(r)) = Value(l) * Value(r)
      BY <2>8 DEF Expected
    <3> HIDE DEF l, r
    <3>4. Unsigned(BinaryMul(old, l, r).bits) = (Value(l) * Value(r)) % Below(n)
      BY <2>1, <3>1, ProductExact
    <3> QED BY <2>1, <3>2, <3>3, <3>4 DEF l, r
  <2>9. CASE node.op = "/"
    <3>1. n <= DecimalBits /\ Value(r) # 0
      BY <2>1, <2>9 DEF Exact
    <3>2. result = BinaryDiv(old, l, r)
      BY <2>1, <2>9 DEF Sum
    <3>3. Expected(Value(l), Value(r)) = Quotient(Value(l), Value(r))
      BY <2>9 DEF Expected
    <3>4. n \in 1 .. DecimalBits
      BY <3>1, LogicVectorAssumption
    <3> HIDE DEF l, r
    <3>5. Unsigned(BinaryDiv(old, l, r).bits) = Quotient(Value(l), Value(r)) % Below(n)
      BY <2>1, <2>4, <3>1, <3>4, QuotientExact
    <3> QED BY <2>1, <3>2, <3>3, <3>5 DEF l, r
  <2>10. CASE node.op = "%"
    <3>1. n <= DecimalBits /\ Value(r) # 0 /\ ~Negative(l)
      BY <2>1, <2>10 DEF Exact
    <3>2. result = BinaryMod(old, l, r)
      BY <2>1, <2>10 DEF Sum
    <3>3. Expected(Value(l), Value(r)) = Value(l) - Value(r) * Quotient(Value(l), Value(r))
      BY <2>10 DEF Expected
    <3>4. n \in 1 .. DecimalBits
      BY <3>1, LogicVectorAssumption
    <3> HIDE DEF l, r
    <3>5. Unsigned(BinaryMod(old, l, r).bits)
            = (Value(l) - Value(r) * Quotient(Value(l), Value(r))) % Below(n)
      BY <2>1, <2>4, <3>1, <3>4, RemainderExact
    <3> QED BY <2>1, <3>2, <3>3, <3>5 DEF l, r
  <2> QED BY <2>5, <2>6, <2>7, <2>8, <2>9, <2>10
<1> QED BY <1>1, ExpressionTypeCorrect, LatestCorrect, PTL

-----------------------------------------------------------------------------
(***************************************************************************)
(* Text.                                                                   *)
(***************************************************************************)

\* The bits of the number that known bits stand for are those bits, padded.
LEMMA BitsBack ==
  ASSUME NEW n \in Nat, NEW m \in 0 .. n, NEW b \in [1 .. m -> {LO, HI}]
  PROVE  Bits(Unsigned(b), n) = Padded(b, n)
<1> DEFINE u == Unsigned(b)
           p == Below(n)
           c == Padded(b, n)
           d == Bits(u, n)
<1>1. c \in [1 .. n -> {LO, HI}] /\ Unsigned(c) = u
  BY PaddedNumber
<1>2. u \in Nat /\ u < p
  <2>1. Unsigned(c) \in Nat /\ Unsigned(c) < p
    <3> HIDE DEF c
    <3> QED BY <1>1, UnsignedRange
  <2> QED BY <1>1, <2>1
<1>3. p \in Nat \ {0} /\ u \in Int
  BY <1>2, BelowProperties
<1> HIDE DEF u
<1>4. d \in [1 .. n -> {LO, HI}] /\ Unsigned(d) = u % p
  BY <1>3, BitsType, BitsNumber
<1> HIDE DEF p, c, d
<1>5. u % p = u
  BY <1>2, <1>3
<1>6. d = c
  BY <1>1, <1>4, <1>5, SameNumber
<1> QED BY <1>6 DEF c, d, u

\* Where the digit of bit i is, counted from the right.
Group(i, k) == (i - 1) \div k

\* The place of a bit within its digit.
LEMMA GroupOf ==
  ASSUME NEW k \in Nat \ {0}, NEW n \in Nat, NEW i \in 1 .. n
  PROVE  /\ Group(i, k) \in Nat /\ (i - 1) % k \in 0 .. k - 1
         /\ i = Group(i, k) * k + (((i - 1) % k) + 1)
         /\ Group(i, k) < (n + (k - 1)) \div k
         /\ Group(i, k) * k < n
<1> DEFINE x == i - 1
           g == x \div k
           r == x % k
           y == n + (k - 1)
           h == y \div k
           s == y % k
<1>1. x \in Int /\ x >= 0 /\ x < n /\ y \in Int /\ k \in Int /\ k > 0
  OBVIOUS
<1> HIDE DEF x, y
<1>2. g \in Int /\ r \in 0 .. k - 1 /\ r \in Nat /\ x = g * k + r
  BY <1>1, Divided
<1>3. h \in Int /\ s \in 0 .. k - 1 /\ y = h * k + s
  BY <1>1, Divided
<1> HIDE DEF g, r, h, s
<1>4. g >= 0
  <2> SUFFICES ASSUME g <= -1 PROVE FALSE
    BY <1>2
  <2>1. g * k <= (-1) * k
    BY <1>1, <1>2
  <2> QED BY <1>1, <1>2, <2>1
<1>5. g < h
  <2> SUFFICES ASSUME h <= g PROVE FALSE
    BY <1>2, <1>3
  <2>1. h * k <= g * k /\ h * k \in Int /\ g * k \in Int
    BY <1>1, <1>2, <1>3
  <2> QED BY <1>1, <1>2, <1>3, <2>1 DEF x, y
<1>6. g * k \in Int /\ g * k <= x
  BY <1>1, <1>2
<1>7. g * k < n
  BY <1>1, <1>6
<1>8. i = g * k + (r + 1)
  BY <1>2, <1>6 DEF x
<1> QED BY <1>2, <1>4, <1>5, <1>7, <1>8 DEF Group, g, r, h, x, y

\* A digit of known bits.
LEMMA DigitValue ==
  ASSUME NEW n \in Nat, NEW b \in [1 .. n -> {LO, HI}], NEW k \in {1, 3, 4}, NEW i \in 1 .. n
  PROVE  LET d == DigitOf(b, Group(i, k) * k + 1, k)
         IN  d \in 0 .. 15 /\ Bits(d, k)[((i - 1) % k) + 1] = b[i]
<1> DEFINE f == Group(i, k) * k + 1
           e == ((i - 1) % k) + 1
           t == IF f + (k - 1) > n THEN n ELSE f + (k - 1)
           part == SubSeq(b, f, t)
           c == t - f + 1
           d == DigitOf(b, f, k)
<1>1. f \in Nat \ {0} /\ f <= n /\ e \in 1 .. k /\ i = f + (e - 1)
  <2>1. k \in Nat \ {0}
    OBVIOUS
  <2>2. /\ Group(i, k) \in Nat /\ (i - 1) % k \in 0 .. k - 1
        /\ i = Group(i, k) * k + (((i - 1) % k) + 1) /\ Group(i, k) * k < n
    BY <2>1, GroupOf
  <2> DEFINE g == Group(i, k)
             r == (i - 1) % k
  <2>3. g * k \in Nat
    BY <2>1, <2>2
  <2> HIDE DEF g, r
  <2> QED BY <2>1, <2>2, <2>3 DEF g, r
<1> HIDE DEF f, e
<1>2. t \in f .. n /\ c \in 1 .. k /\ e <= c /\ c \in Nat /\ t = f + (c - 1)
  BY <1>1
<1>3. part \in [1 .. c -> {LO, HI}] /\ \A j \in 1 .. c : part[j] = b[f + (j - 1)]
  <2> HIDE DEF t
  <2>1. part = [j \in 1 .. c |-> b[f + (j - 1)]]
    BY <1>1, <1>2 DEF SubSeq
  <2>2. \A j \in 1 .. c : b[f + (j - 1)] \in {LO, HI}
    BY <1>1, <1>2
  <2> HIDE DEF c, part
  <2> QED BY <2>1, <2>2
<1>4. AllKnown(part)
  <2> HIDE DEF part, c
  <2> QED BY <1>3 DEF AllKnown, Known
<1>5. d = Unsigned(part)
  <2>1. Len(b) = n
    OBVIOUS
  <2>2. part = SubSeq(b, f, IF f + k - 1 > Len(b) THEN Len(b) ELSE f + k - 1)
    BY <1>1, <2>1
  <2> HIDE DEF part
  <2> QED BY <1>4, <2>2, Zenon DEF DigitOf
<1> HIDE DEF part, c, d
<1>6. Unsigned(part) \in Nat /\ Unsigned(part) < Below(c)
  BY <1>2, <1>3, UnsignedRange
<1>7. d \in 0 .. 15
  <2>1. Below(4) = 16
    <3>1. Below(0 + 1) = 2
      BY BelowProperties
    <3>2. Below(1 + 1) = 4
      BY <3>1, BelowProperties
    <3>3. Below(2 + 1) = 8
      BY <3>2, BelowProperties
    <3>4. Below(3 + 1) = 16
      BY <3>3, BelowProperties
    <3> QED BY <3>4
  <2>2. Below(c) <= 16 /\ Below(c) \in Nat
    <3>1. c <= 4 /\ 4 \in Nat
      BY <1>2
    <3> QED BY <1>2, <2>1, <3>1, BelowMonotone, BelowProperties
  <2> QED BY <1>5, <1>6, <2>2
<1>8. Bits(d, k) = Padded(part, k)
  <2>1. k \in Nat /\ c \in 0 .. k
    BY <1>2
  <2> QED BY <1>3, <1>5, <2>1, BitsBack
<1>9. Bits(d, k)[e] = b[i]
  <2>1. Padded(part, k)[e] = part[e]
    <3>1. Len(part) = c
      BY <1>2, <1>3
    <3> QED BY <1>1, <1>2, <3>1 DEF Padded, At
  <2>2. part[e] = b[i]
    BY <1>1, <1>2, <1>3
  <2> QED BY <1>8, <2>1, <2>2
<1> QED BY <1>7, <1>9 DEF d, e, f

\* A text whose digits are those of the bits, which are zero beyond them.
Spells(text, b, k, n) ==
  /\ Len(text) \in Nat \ {0} /\ text[1] \in 0 .. 15
  /\ \A i \in 1 .. n :
       IF i <= k * Len(text)
       THEN LET d == text[Len(text) - Group(i, k)]
            IN  d \in 0 .. 15 /\ Bits(d, k)[((i - 1) % k) + 1] = b[i]
       ELSE b[i] = LO

\* A digit of the base is neither x nor z, and zeros are put before it.
LEMMA DigitKnown ==
  ASSUME NEW d \in 0 .. 15
  PROVE  d # XDigit /\ d # ZDigit /\ LeftPad(d) = LO
BY DEF LeftPad, XDigit, ZDigit

\* It reads as them.
LEMMA SpelledReads ==
  ASSUME NEW n \in Nat, NEW b \in [1 .. n -> {LO, HI}], NEW base \in {2, 8, 16}, NEW text,
         Spells(text, b, PerDigit(base), n)
  PROVE  FromDigits(text, base, n) = b
<1> DEFINE k == PerDigit(base)
           d(i) == text[Len(text) - Group(i, k)]
           bit(i) == IF i <= k * Len(text) THEN DigitBits(d(i), k)[((i - 1) % k) + 1]
                     ELSE LeftPad(text[1])
<1>1. FromDigits(text, base, n) = [i \in 1 .. n |-> bit(i)]
  BY Zenon DEF FromDigits, Group
<1>2. ASSUME NEW i \in 1 .. n PROVE bit(i) = b[i]
  <2>0. /\ text[1] \in 0 .. 15
        /\ IF i <= k * Len(text)
           THEN d(i) \in 0 .. 15 /\ Bits(d(i), k)[((i - 1) % k) + 1] = b[i]
           ELSE b[i] = LO
    BY Zenon DEF Spells
  <2>1. CASE i <= k * Len(text)
    <3>1. d(i) \in 0 .. 15 /\ Bits(d(i), k)[((i - 1) % k) + 1] = b[i]
      <4> HIDE DEF d, k
      <4> QED BY <2>0, <2>1
    <3> HIDE DEF d, k
    <3>2. d(i) # XDigit /\ d(i) # ZDigit
      BY <3>1, DigitKnown, Zenon
    <3>3. DigitBits(d(i), k) = Bits(d(i), k)
      BY <3>2 DEF DigitBits
    <3> QED BY <2>1, <3>1, <3>3
  <2>2. CASE ~(i <= k * Len(text))
    <3>1. b[i] = LO /\ text[1] \in 0 .. 15
      <4> HIDE DEF d, k
      <4> QED BY <2>0, <2>2
    <3>2. LeftPad(text[1]) = LO
      BY <3>1, DigitKnown, Zenon
    <3> QED BY <2>2, <3>1, <3>2
  <2> QED BY <2>1, <2>2
<1> HIDE DEF bit
<1>3. [i \in 1 .. n |-> bit(i)] = [i \in 1 .. n |-> b[i]]
  BY <1>2, Zenon
<1>4. [i \in 1 .. n |-> b[i]] = b
  OBVIOUS
<1> QED BY <1>1, <1>3, <1>4, Zenon

\* What the digits of a number are: each holds its bits of the vector.
Shows(all, N, b, k, n) ==
  /\ k \in {1, 3, 4} /\ N = Len(all) /\ N \in Nat \ {0} /\ all \in [1 .. N -> 0 .. 15]
  /\ \A i \in 1 .. n : /\ Group(i, k) \in Nat /\ Group(i, k) < N
                       /\ all[N - Group(i, k)] \in 0 .. 15
                       /\ Bits(all[N - Group(i, k)], k)[((i - 1) % k) + 1] = b[i]

\* The digits written for a known vector are those, leading zeros included.
LEMMA ShownDigits ==
  ASSUME NEW n \in Nat \ {0}, NEW b \in [1 .. n -> {LO, HI}], NEW base \in {2, 8, 16}
  PROVE  Shows(AllDigits(b, base), Len(AllDigits(b, base)), b, PerDigit(base), n)
<1> DEFINE k == PerDigit(base)
           all == AllDigits(b, base)
           y == n + (k - 1)
           N == y \div k
<1>1. k \in {1, 3, 4}
  BY DEF PerDigit
<1>2. N \in Nat \ {0} /\ \A g \in 0 .. N - 1 : g * k + 1 \in 1 .. n /\ Group(g * k + 1, k) = g
  <2> HIDE DEF k
  <2> DEFINE s == y % k
  <2>1. y \in Int /\ k \in Nat \ {0}
    BY <1>1
  <2>2. N \in Int /\ s \in 0 .. k - 1 /\ y = N * k + s
    <3> HIDE DEF y
    <3> QED BY <2>1, Divided
  <2> HIDE DEF N, s
  <2>3. N >= 1
    <3> SUFFICES ASSUME N <= 0 PROVE FALSE
      BY <2>2
    <3>1. N * k <= 0
      BY <2>1, <2>2
    <3>2. N * k \in Int
      BY <2>1, <2>2
    <3> QED BY <2>1, <2>2, <3>1, <3>2
  <2>4. ASSUME NEW g \in 0 .. N - 1 PROVE g * k + 1 \in 1 .. n /\ Group(g * k + 1, k) = g
    <3>1. g \in Nat /\ g <= N - 1
      BY <2>2
    <3>2. g * k <= (N - 1) * k /\ (N - 1) * k = N * k - k /\ g * k \in Nat /\ N * k \in Int
      BY <2>1, <2>2, <3>1
    <3>3. g * k + 1 \in 1 .. n
      BY <2>1, <2>2, <3>2
    <3> DEFINE x == g * k
    <3>4. (x + 1) - 1 = x /\ x \in Int /\ x = g * k + 0 /\ 0 \in 0 .. k - 1 /\ g \in Int
      BY <2>1, <3>1, <3>2
    <3>5. x \div k = g
      <4> HIDE DEF x
      <4> QED BY <2>1, <3>4, DividedOnce
    <3>6. Group(x + 1, k) = g
      BY <3>4, <3>5 DEF Group
    <3> QED BY <3>3, <3>6
  <2> QED BY <2>2, <2>3, <2>4
<1>3. all = [j \in 1 .. N |-> DigitOf(b, (N - j) * k + 1, k)]
  <2>1. Len(b) = n /\ n + k - 1 = n + (k - 1)
    BY <1>1
  <2> QED BY <2>1 DEF AllDigits
<1> HIDE DEF k, all, N, y
<1>4. Len(all) = N
  BY <1>2, <1>3
<1>5. all \in [1 .. N -> 0 .. 15]
  <2>1. ASSUME NEW j \in 1 .. N PROVE DigitOf(b, (N - j) * k + 1, k) \in 0 .. 15
    <3> DEFINE g == N - j
               i == g * k + 1
    <3>1. g \in 0 .. N - 1
      BY <1>2
    <3>2. i \in 1 .. n /\ Group(i, k) = g
      <4> HIDE DEF g
      <4> QED BY <1>2, <3>1
    <3> HIDE DEF i, g
    <3>3. DigitOf(b, Group(i, k) * k + 1, k) \in 0 .. 15
      BY <1>1, <3>2, DigitValue
    <3> QED BY <3>2, <3>3 DEF g
  <2> QED BY <1>3, <2>1
<1>6. ASSUME NEW i \in 1 .. n
      PROVE  /\ Group(i, k) \in Nat /\ Group(i, k) < N
             /\ all[N - Group(i, k)] \in 0 .. 15
             /\ Bits(all[N - Group(i, k)], k)[((i - 1) % k) + 1] = b[i]
  <2> DEFINE g == Group(i, k)
  <2>1. g \in Nat /\ g < N
    <3>1. k \in Nat \ {0} /\ n \in Nat
      BY <1>1
    <3>2. g \in Nat /\ g < (n + (k - 1)) \div k
      BY <3>1, GroupOf
    <3> HIDE DEF g
    <3> QED BY <3>2 DEF N, y
  <2>2. DigitOf(b, g * k + 1, k) \in 0 .. 15 /\ Bits(DigitOf(b, g * k + 1, k), k)[((i - 1) % k) + 1] = b[i]
    <3>1. n \in Nat
      OBVIOUS
    <3> QED BY <1>1, <3>1, DigitValue, Zenon
  <2> HIDE DEF g
  <2>3. N - g \in 1 .. N /\ N - (N - g) = g
    BY <1>2, <2>1
  <2>4. all[N - g] = DigitOf(b, g * k + 1, k)
    BY <1>3, <2>3
  <2> QED BY <2>1, <2>2, <2>4 DEF g
<1>7. Shows(all, Len(all), b, k, n)
  BY <1>1, <1>2, <1>4, <1>5, <1>6 DEF Shows
<1> QED BY <1>7 DEF k, all

\* Without its leading zeros a number reads back.
LEMMA SomeReadBack ==
  ASSUME NEW n \in Nat \ {0}, NEW b \in [1 .. n -> {LO, HI}], NEW base \in {2, 8, 16}
  PROVE  FromDigits(SomeDigits(b, base), base, n) = b
<1> DEFINE k == PerDigit(base)
           all == AllDigits(b, base)
           N == Len(all)
           used == {j \in DOMAIN all : all[j] # 0}
           text == SomeDigits(b, base)
           at(i) == all[N - Group(i, k)]
<1>0. Shows(all, N, b, k, n)
  BY ShownDigits
<1>2. text = IF used = {} THEN <<0>> ELSE SubSeq(all, First(used), N)
  BY Zenon DEF SomeDigits
<1> HIDE DEF k, all, N, text
<1>1. /\ k \in {1, 3, 4} /\ N \in Nat \ {0} /\ all \in [1 .. N -> 0 .. 15]
      /\ \A i \in 1 .. n : /\ Group(i, k) \in Nat /\ Group(i, k) < N
                           /\ at(i) \in 0 .. 15 /\ Bits(at(i), k)[((i - 1) % k) + 1] = b[i]
  BY <1>0, Zenon DEF Shows
<1>3. \A i \in 1 .. n : (i - 1) % k \in 0 .. k - 1
                        /\ i = Group(i, k) * k + (((i - 1) % k) + 1)
  <2>1. k \in Nat \ {0}
    BY <1>1
  <2> QED BY <2>1, GroupOf
\* A digit that is zero has no bits but zeros.
<1>4. ASSUME NEW i \in 1 .. n, at(i) = 0 PROVE b[i] = LO
  <2> DEFINE e == ((i - 1) % k) + 1
  <2>1. e \in 1 .. k
    <3> DEFINE x == (i - 1) % k
    <3>1. x \in 0 .. k - 1
      BY <1>3
    <3> HIDE DEF x
    <3>2. x + 1 \in 1 .. k
      BY <1>1, <3>1
    <3> QED BY <3>2 DEF x
  <2>2. Bits(0, k)[e] = b[i]
    BY <1>1, <1>4
  <2> HIDE DEF e
  <2>3. Bits(0, k)[e] = LO
    <3>1. k \in Nat
      BY <1>1
    <3>2. 0 \in 0 .. k /\ 0 \in Nat
      BY <3>1
    <3>3. 0 < Below(0)
      BY BelowProperties
    <3>4. 0 < e
      BY <2>1
    <3> QED BY <2>1, <3>1, <3>2, <3>3, <3>4, SmallHasZeros
  <2> QED BY <2>2, <2>3
\* A bit beyond the digits of the text.
<1>5. ASSUME NEW L \in Nat \ {0}, NEW i \in 1 .. n
      PROVE  i <= k * L <=> Group(i, k) < L
  <2> DEFINE g == Group(i, k)
             x == (i - 1) % k
  <2>a. Group(i, k) \in Nat
    BY <1>1
  <2>b. x \in 0 .. k - 1 /\ i = g * k + (x + 1)
    BY <1>3
  <2> HIDE DEF x
  <2>1. g \in Nat /\ x \in 0 .. k - 1 /\ i = g * k + (x + 1) /\ k \in Nat \ {0}
    <3>1. k \in Nat \ {0}
      BY <1>1
    <3> QED BY <2>a, <2>b, <3>1
  <2> HIDE DEF g
  <2>2. ASSUME g < L PROVE i <= k * L
    <3>1. g * k <= (L - 1) * k /\ (L - 1) * k = k * L - k /\ k * L \in Int /\ g * k \in Int
      BY <2>1, <2>2
    <3> QED BY <2>1, <3>1
  <2>3. ASSUME L <= g PROVE ~(i <= k * L)
    <3>1. k * L <= g * k /\ k * L \in Int /\ g * k \in Int
      BY <2>1, <2>3
    <3> QED BY <2>1, <3>1
  <2>4. i <= k * L <=> g < L
    BY <2>1, <2>2, <2>3
  <2> QED BY <2>4 DEF g
<1>6. CASE used = {}
  <2>1. \A j \in 1 .. N : all[j] = 0
    BY <1>1, <1>6
  <2>2. text = <<0>> /\ Len(text) = 1 /\ text[1] = 0
    BY <1>2, <1>6
  <2>3. ASSUME NEW i \in 1 .. n
        PROVE  /\ at(i) = 0 /\ b[i] = LO
               /\ i <= k * 1 => text[1 - Group(i, k)] = at(i)
    <3> DEFINE g == Group(i, k)
    <3>a. g \in Nat /\ g < N /\ N \in Nat
      BY <1>1
    <3> HIDE DEF g
    <3>b. N - g \in 1 .. N
      BY <3>a
    <3>1. N - Group(i, k) \in 1 .. N
      BY <3>b DEF g
    <3>2. at(i) = 0
      BY <2>1, <3>1
    <3>3. b[i] = LO
      BY <1>4, <3>2
    <3>4. i <= k * 1 => Group(i, k) = 0
      <4>1. i <= k * 1 => Group(i, k) < 1
        BY <1>5
      <4> QED BY <1>1, <4>1
    <3>5. i <= k * 1 => text[1 - Group(i, k)] = 0
      BY <2>2, <3>4
    <3> HIDE DEF at
    <3> QED BY <3>2, <3>3, <3>5
  <2>4. Spells(text, b, k, n)
    <3>1. ASSUME NEW i \in 1 .. n
          PROVE  IF i <= k * 1
                 THEN LET d == text[1 - Group(i, k)]
                      IN  d \in 0 .. 15 /\ Bits(d, k)[((i - 1) % k) + 1] = b[i]
                 ELSE b[i] = LO
      <4>1. at(i) \in 0 .. 15 /\ Bits(at(i), k)[((i - 1) % k) + 1] = b[i]
        BY <1>1, Zenon
      <4> HIDE DEF at
      <4> QED BY <2>3, <4>1
    <3>2. 1 \in Nat \ {0} /\ 0 \in 0 .. 15
      OBVIOUS
    <3> QED BY <2>2, <3>1, <3>2 DEF Spells
  <2> QED BY <2>4, SpelledReads DEF k, text
<1>7. CASE used # {}
  <2> DEFINE s == First(used)
             L == N - s + 1
  <2>1. used \subseteq 1 .. N /\ used \subseteq Nat
    BY <1>1
  <2>2. s \in used /\ \A j \in used : s <= j
    <3> HIDE DEF used
    <3> QED BY <1>7, <2>1, FirstOf
  <2>3. s \in 1 .. N /\ \A j \in 1 .. N : j < s => all[j] = 0
    <3> HIDE DEF s
    <3>1. s \in 1 .. N
      BY <2>1, <2>2
    <3>2. ASSUME NEW j \in 1 .. N, j < s, all[j] # 0 PROVE FALSE
      <4>1. j \in used
        BY <1>1, <3>2
      <4> HIDE DEF used
      <4> QED BY <2>2, <3>1, <3>2, <4>1
    <3> QED BY <3>1, <3>2
  <2> HIDE DEF s
  <2>4. L \in 1 .. N /\ L \in Nat \ {0} /\ L = N - (s - 1)
    BY <1>1, <2>3
  <2>5. Len(text) = L /\ \A j \in 1 .. L : text[j] = all[s + (j - 1)]
    <3>1. text = SubSeq(all, s, N)
      BY <1>2, <1>7 DEF s
    <3>2. text = [j \in 1 .. L |-> all[s + (j - 1)]]
      BY <1>1, <2>3, <3>1 DEF SubSeq
    <3> HIDE DEF L
    <3>3. Len(text) = L
      BY <2>4, <3>2
    <3> QED BY <3>2, <3>3
  <2>6. text[1] \in 0 .. 15
    <3>1. text[1] = all[s]
      BY <2>3, <2>4, <2>5
    <3> QED BY <1>1, <2>3, <3>1
  <2> HIDE DEF L
  <2>7. ASSUME NEW i \in 1 .. n
        PROVE  IF i <= k * L
               THEN LET d == text[L - Group(i, k)]
                    IN  d \in 0 .. 15 /\ Bits(d, k)[((i - 1) % k) + 1] = b[i]
               ELSE b[i] = LO
    <3> DEFINE g == Group(i, k)
    <3>1. g \in Nat /\ g < N /\ (i <= k * L <=> g < L)
      BY <1>1, <1>5, <2>4
    <3>2. all[N - g] \in 0 .. 15 /\ Bits(all[N - g], k)[((i - 1) % k) + 1] = b[i]
          /\ (all[N - g] = 0 => b[i] = LO)
      BY <1>1, <1>4
    <3> HIDE DEF g
    <3>3. CASE g < L
      <4>1. L - g \in 1 .. L /\ s + ((L - g) - 1) = N - g
        BY <1>1, <2>3, <2>4, <3>1, <3>3
      <4>2. text[L - g] = all[N - g]
        BY <2>5, <4>1
      <4>3. text[L - g] \in 0 .. 15 /\ Bits(text[L - g], k)[((i - 1) % k) + 1] = b[i]
        BY <3>2, <4>2
      <4> QED BY <3>1, <3>3, <4>3 DEF g
    <3>4. CASE ~(g < L)
      <4>1. N - g \in 1 .. N /\ N - g < s
        BY <1>1, <2>3, <2>4, <3>1, <3>4
      <4>2. b[i] = LO
        BY <2>3, <3>2, <4>1
      <4> QED BY <3>1, <3>4, <4>2
    <3> QED BY <3>3, <3>4
  <2>8. Spells(text, b, k, n)
    BY <2>4, <2>5, <2>6, <2>7 DEF Spells
  <2> QED BY <2>8, SpelledReads DEF k, text
<1> QED BY <1>6, <1>7

\* In binary every vector reads back, known or not.
LEMMA AllReadBack ==
  ASSUME NEW n \in Nat \ {0}, NEW b \in [1 .. n -> Logic]
  PROVE  FromDigits(AllDigits(b, 2), 2, n) = b
<1> DEFINE text == AllDigits(b, 2)
           digit(i) == text[Len(text) - (i - 1)]
<1>1. PerDigit(2) = 1
  BY DEF PerDigit
<1>2. text = [j \in 1 .. n |-> DigitOf(b, (n - j) + 1, 1)]
  <2>1. Len(b) = n /\ (n + 1 - 1) \div 1 = n
    OBVIOUS
  <2>2. text = [j \in 1 .. (Len(b) + 1 - 1) \div 1 |-> DigitOf(b, (((Len(b) + 1 - 1) \div 1) - j) * 1 + 1, 1)]
    BY <1>1, Zenon DEF AllDigits
  <2>3. \A j \in 1 .. n : (n - j) * 1 + 1 = (n - j) + 1
    OBVIOUS
  <2> HIDE DEF text
  <2>4. text = [j \in 1 .. n |-> DigitOf(b, (n - j) * 1 + 1, 1)]
    BY <2>1, <2>2
  <2> QED BY <2>3, <2>4
<1> HIDE DEF text
<1>3. Len(text) = n
  BY <1>2
<1>4. ASSUME NEW i \in 1 .. n PROVE DigitBits(text[n - (i - 1)], 1)[1] = b[i]
  <2> DEFINE d == DigitOf(b, i, 1)
  <2>1. text[n - (i - 1)] = d
    <3>1. n - (i - 1) \in 1 .. n /\ (n - (n - (i - 1))) + 1 = i
      OBVIOUS
    <3> QED BY <1>2, <3>1
  <2>2. SubSeq(b, i, i) = <<b[i]>> /\ Len(b) = n /\ i + (1 - 1) = i /\ ~(i > n)
    <3>1. Len(b) = n /\ i + (1 - 1) = i /\ ~(i > n) /\ 1 .. i - i + 1 = 1 .. 1
      OBVIOUS
    <3>2. SubSeq(b, i, i) = [j \in 1 .. 1 |-> b[i + (j - 1)]]
      BY <3>1 DEF SubSeq
    <3>3. [j \in 1 .. 1 |-> b[i + (j - 1)]] = [j \in 1 .. 1 |-> b[i]]
      <4>1. \A j \in 1 .. 1 : i + (j - 1) = i
        OBVIOUS
      <4> QED BY <4>1, Zenon
    <3>4. [j \in 1 .. 1 |-> b[i]] = <<b[i]>>
      OBVIOUS
    <3> QED BY <3>1, <3>2, <3>3, <3>4
  <2>3. d = IF AllKnown(<<b[i]>>) THEN Unsigned(<<b[i]>>) ELSE IF b[i] = Z THEN ZDigit ELSE XDigit
    <3> DEFINE part == <<b[i]>>
    <3>1. SubSeq(b, i, IF i + (1 - 1) > Len(b) THEN Len(b) ELSE i + (1 - 1)) = part
      BY <2>2
    <3>2. part[1] = b[i]
      OBVIOUS
    <3> HIDE DEF part
    <3>3. d = IF AllKnown(part) THEN Unsigned(part) ELSE IF part[1] = Z THEN ZDigit ELSE XDigit
      BY <3>1, Zenon DEF DigitOf
    <3> QED BY <3>2, <3>3 DEF part
  <2> HIDE DEF d
  <2>4. CASE Known(b[i])
    <3> DEFINE part == <<b[i]>>
    <3>1. part \in [1 .. 1 -> {LO, HI}] /\ AllKnown(part) /\ part[1] = b[i] /\ Len(part) = 1
      BY <2>4 DEF Known, AllKnown
    <3> HIDE DEF part
    <3>2. Unsigned(part) \in Nat /\ Unsigned(part) < 2
      <4>1. Below(1) = 2
        <5>1. Below(0) = 1 /\ Below(0 + 1) = 2 * Below(0)
          BY BelowProperties
        <5> QED BY <5>1
      <4>2. 1 \in Nat
        OBVIOUS
      <4>3. Unsigned(part) \in Nat /\ Unsigned(part) < Below(1)
        BY <3>1, <4>2, UnsignedRange
      <4> QED BY <4>1, <4>3
    <3>3. Bits(Unsigned(part), 1) = Padded(part, 1)
      <4>1. 1 \in Nat /\ 1 \in 0 .. 1
        OBVIOUS
      <4> QED BY <3>1, <4>1, BitsBack
    <3>4. d = Unsigned(part)
      BY <2>3, <3>1 DEF part
    <3>5. DigitBits(d, 1) = Bits(d, 1)
      BY <3>2, <3>4 DEF DigitBits, XDigit, ZDigit
    <3>6. Padded(part, 1)[1] = b[i]
      BY <3>1 DEF Padded, At
    <3> QED BY <2>1, <3>3, <3>4, <3>5, <3>6
  <2>5. CASE ~Known(b[i])
    <3>1. ~AllKnown(<<b[i]>>)
      BY <2>5 DEF AllKnown
    <3>2. b[i] \in {DC, Z}
      BY <2>5 DEF Known, Logic
    <3>3. d = IF b[i] = Z THEN ZDigit ELSE XDigit
      BY <2>3, <3>1
    <3>4. DigitBits(d, 1) = IF b[i] = Z THEN Filled(1, Z) ELSE Filled(1, DC)
      BY <3>3 DEF DigitBits, XDigit, ZDigit
    <3>5. Filled(1, Z)[1] = Z /\ Filled(1, DC)[1] = DC
      BY DEF Filled
    <3> QED BY <2>1, <3>2, <3>4, <3>5
  <2> QED BY <2>4, <2>5
<1> DEFINE k == PerDigit(2)
           bit(i) == IF i <= k * Len(text)
                     THEN DigitBits(text[Len(text) - ((i - 1) \div k)], k)[((i - 1) % k) + 1]
                     ELSE LeftPad(text[1])
<1>5. FromDigits(text, 2, n) = [i \in 1 .. n |-> bit(i)]
  BY Zenon DEF FromDigits
<1>6. ASSUME NEW i \in 1 .. n PROVE bit(i) = b[i]
  <2>1. i <= 1 * n /\ (i - 1) \div 1 = i - 1 /\ ((i - 1) % 1) + 1 = 1
    OBVIOUS
  <2> QED BY <1>1, <1>3, <1>4, <2>1
<1> HIDE DEF bit
<1>7. [i \in 1 .. n |-> bit(i)] = [i \in 1 .. n |-> b[i]]
  BY <1>6, Zenon
<1>8. [i \in 1 .. n |-> b[i]] = b
  OBVIOUS
<1> QED BY <1>5, <1>7, <1>8, Zenon DEF text

\* A number assigned from a machine integer wide enough for it.
LEMMA IntegerRead ==
  ASSUME NEW n \in Nat \ {0}, n <= DecimalBits, NEW b \in [1 .. n -> {LO, HI}]
  PROVE  FromInteger(Unsigned(b), n, FALSE) = b
<1> DEFINE u == Unsigned(b)
<1>1. u \in Nat /\ u < Below(n)
  BY UnsignedRange
<1>2. Bits(u, n) = Padded(b, n)
  <2>1. n \in Nat /\ n \in 0 .. n
    OBVIOUS
  <2> QED BY <2>1, BitsBack
<1>3. Padded(b, n) = b
  BY DEF Padded, At
<1> HIDE DEF u
<1>4. Wrap(u) = u
  <2>1. Below(n) <= Below(DecimalBits) /\ Below(n) \in Int /\ Below(DecimalBits) \in Int
    <3>1. n \in Nat /\ DecimalBits \in Nat
      BY LogicVectorAssumption
    <3>2. Below(n) \in Nat /\ Below(DecimalBits) \in Nat
      BY <3>1, BelowProperties
    <3> QED BY <3>1, <3>2, BelowMonotone
  <2>2. u \in Int /\ u \in 0 .. Below(DecimalBits) - 1
    BY <1>1, <2>1
  <2> QED BY <2>2, Wrapped
<1>5. FromInteger(u, n, FALSE) = [i \in 1 .. n |-> (u \div Below(i - 1)) % 2]
  <2>1. \A i \in 1 .. n : ~(i > DecimalBits)
    BY LogicVectorAssumption
  <2>2. FromInteger(u, n, FALSE)
          = [i \in 1 .. n |-> IF i > DecimalBits THEN LO ELSE (Wrap(u) \div Below(i - 1)) % 2]
    BY Zenon DEF FromInteger
  <2> QED BY <1>4, <2>1, <2>2
<1>6. FromInteger(u, n, FALSE) = b
  BY <1>2, <1>3, <1>5, Zenon DEF Bits
<1> QED BY <1>6 DEF u

\* The fields of what binary_2_decimal gives.
LEMMA DecimalFields ==
  ASSUME NEW d, NEW neg, NEW letter, NEW val, d = [neg |-> neg, letter |-> letter, val |-> val]
  PROVE  d.neg = neg /\ d.val = val
OBVIOUS

\* What binary_2_decimal gives of a known vector that fits the machine's
\* integers stands for its bits.
LEMMA DecimalShown ==
  ASSUME NEW n \in Nat \ {0}, n <= DecimalBits, NEW v \in VectorOf(n), AllKnown(v.bits)
  PROVE  (IF Decimal(v).neg THEN Below(n) - Decimal(v).val ELSE Decimal(v).val) = Unsigned(v.bits)
<1> DEFINE inv == UnaryInv(n, v.bits)
           abs == IF Negative(v) THEN AddBits(v.bits, inv, <<HI>>) ELSE v.bits
           b == SubSeq(abs, 1, IF Len(abs) > DecimalBits THEN DecimalBits ELSE Len(abs))
           u == Unsigned(v.bits)
           p == Below(n)
           w == Unsigned(abs)
<1>1. Numbered(v, n)
  BY ValueOf
<1>2. Width(v) = n /\ v.bits \in [1 .. n -> {LO, HI}] /\ u \in Nat /\ u < p
  BY <1>1 DEF Numbered
<1>3. p \in Nat \ {0}
  BY BelowProperties
<1>4. inv \in [1 .. n -> {LO, HI}] /\ Unsigned(inv) + u = p - 1 /\ Unsigned(inv) \in Int
  <2>1. inv \in [1 .. n -> {LO, HI}] /\ Unsigned(inv) + u = p - 1
    BY <1>2, InvertedNumber
  <2> HIDE DEF inv
  <2> QED BY <2>1, UnsignedRange
<1> HIDE DEF inv
<1>5. CASE Negative(v)
  <2>1. abs = AddBits(v.bits, inv, <<HI>>)
    BY <1>5
  <2>2. u > 0
    <3>1. v.bits[n] = HI
      BY <1>2, <1>5 DEF Negative, Top
    <3>2. u \in Nat \ {0}
      BY <1>2, <3>1, TopNumber
    <3> HIDE DEF u
    <3> QED BY <3>2
  <2>3. abs \in [1 .. n -> {LO, HI}] /\ Congruent(w, Unsigned(inv) + 1, p)
    <3> DEFINE one == <<HI>>
    <3>1. one \in [1 .. 1 -> {LO, HI}] /\ Unsigned(one) = 1
      <4>1. one \in [1 .. 1 -> {LO, HI}] /\ one[1] = 1
        OBVIOUS
      <4> HIDE DEF one
      <4>2. PICK f : Prefixes(f, 1, one)
        BY <4>1, PrefixesOf
      <4>3. f[1] = f[0] + Below(0) /\ f[0] = 0 /\ Unsigned(one) = f[1]
        BY <4>1, <4>2 DEF Prefixes
      <4>4. Below(0) = 1
        BY BelowProperties
      <4> QED BY <4>1, <4>3, <4>4
    <3>2. n \in 1 .. n /\ 1 \in 1 .. n /\ n \in Nat /\ v.bits \in [1 .. n -> Logic]
      BY <1>2 DEF Logic
    <3> HIDE DEF abs, w, p, one
    <3>3. /\ AddBits(v.bits, inv, one) \in [1 .. n -> {LO, HI}]
          /\ Congruent(Unsigned(AddBits(v.bits, inv, one)), Unsigned(inv) + Unsigned(one), Below(n))
      BY <1>4, <3>1, <3>2, AddedNumber
    <3> QED BY <2>1, <3>1, <3>3 DEF w, p, one
  <2>4. w \in Nat /\ w < p
    <3> HIDE DEF abs
    <3> QED BY <2>3, UnsignedRange
  <2> HIDE DEF abs, w, p, u
  <2>5. w = p - u
    <3> DEFINE x == Unsigned(inv) + 1
    <3>1. x = p - u /\ x \in Int /\ x \in 0 .. p - 1
      BY <1>2, <1>3, <1>4, <2>2
    <3>2. w \in 0 .. p - 1
      BY <1>3, <2>4
    <3>3. Congruent(w, x, p)
      BY <2>3
    <3> HIDE DEF x
    <3>4. x % p = w
      BY <1>3, <3>1, <3>2, <3>3, ResidueOf
    <3>5. x % p = x
      BY <1>3, <3>1
    <3> QED BY <3>1, <3>4, <3>5
  <2>6. b = abs
    <3>1. Len(abs) = n /\ ~(n > DecimalBits)
      BY <2>3, LogicVectorAssumption
    <3>2. SubSeq(abs, 1, n) = abs
      BY <2>3
    <3> QED BY <3>1, <3>2
  <2>7. AllKnown(b)
    <3> HIDE DEF b
    <3> QED BY <2>3, <2>6 DEF AllKnown, Known
  <2>8. Decimal(v).neg = TRUE /\ Decimal(v).val = w
    <3> HIDE DEF b
    <3>1. Decimal(v) = [neg |-> Negative(v), letter |-> "", val |-> Unsigned(b)]
      BY <1>2, <2>7, Zenon DEF Decimal, b, abs, inv
    <3>2. Negative(v) = TRUE
      BY <1>5 DEF Negative
    <3>3. Decimal(v).neg = Negative(v) /\ Decimal(v).val = Unsigned(b)
      BY <3>1, DecimalFields, Zenon
    <3> QED BY <2>6, <3>2, <3>3 DEF w
  <2>9. p - w = u
    BY <1>2, <1>3, <2>4, <2>5
  <2> QED BY <2>8, <2>9 DEF p, u
<1>6. CASE ~Negative(v)
  <2>1. abs = v.bits
    BY <1>6
  <2> HIDE DEF abs
  <2>2. b = v.bits
    <3>1. Len(abs) = n /\ ~(n > DecimalBits)
      BY <1>2, <2>1, LogicVectorAssumption
    <3>2. SubSeq(v.bits, 1, n) = v.bits
      BY <1>2
    <3> QED BY <2>1, <3>1, <3>2
  <2> HIDE DEF b
  <2>3. Decimal(v) = [neg |-> Negative(v), letter |-> "", val |-> Unsigned(b)]
    <3>1. AllKnown(b)
      BY <2>2
    <3> QED BY <1>2, <3>1, Zenon DEF Decimal, b, abs, inv
  <2>4. Decimal(v).neg = FALSE /\ Decimal(v).val = u
    <3>1. Decimal(v).neg = Negative(v) /\ Decimal(v).val = Unsigned(b)
      BY <2>3, DecimalFields, Zenon
    <3>2. Negative(v) = FALSE
      BY <1>6 DEF Negative
    <3> QED BY <2>2, <3>1, <3>2
  <2> HIDE DEF u
  <2> QED BY <2>4 DEF u
<1> QED BY <1>5, <1>6

\* ReadsBack holds of every result.
LEMMA ReadsBackHolds ==
  ASSUME ExpressionTypeOK
  PROVE  ReadsBack
<1> SUFFICES ASSUME Evaluated PROVE ReadsBack
  BY DEF ReadsBack
<1> DEFINE b == result.bits
           n == Width(result)
           x == IF Decimal(result).neg THEN Below(n) - Decimal(result).val ELSE Decimal(result).val
<1>1. n \in Nat \ {0} /\ result \in VectorOf(n) /\ b \in [1 .. n -> Logic]
  <2> DEFINE m == ResultWidth(node)
  <2>1. m \in Nat \ {0} /\ result \in VectorOf(m)
    <3>1. ShapeOK(node)
      BY ShapesOK DEF ExpressionTypeOK
    <3> QED BY <3>1, ResultWidthType DEF ExpressionTypeOK
  <2> HIDE DEF m
  <2>2. m \in Nat /\ n = m /\ b \in [1 .. m -> Logic]
    BY <2>1, VectorWidth
  <2> HIDE DEF n, b
  <2> QED BY <2>1, <2>2
<1> HIDE DEF n
<1>2. FromDigits(AllDigits(b, 2), 2, n) = b
  BY <1>1, AllReadBack
<1>3. ASSUME AllKnown(b)
      PROVE  /\ \A base \in {2, 8, 16} : FromDigits(SomeDigits(b, base), base, n) = b
             /\ n <= DecimalBits => FromInteger(x, n, FALSE) = b
  <2>1. b \in [1 .. n -> {LO, HI}]
    BY <1>1, <1>3 DEF AllKnown, Known
  <2>2. \A base \in {2, 8, 16} : FromDigits(SomeDigits(b, base), base, n) = b
    <3> HIDE DEF b
    <3> QED BY <1>1, <2>1, SomeReadBack
  <2>3. ASSUME n <= DecimalBits PROVE FromInteger(x, n, FALSE) = b
    <3>1. x = Unsigned(b)
      BY <1>1, <1>3, <2>3, DecimalShown
    <3> HIDE DEF b, x
    <3>2. FromInteger(Unsigned(b), n, FALSE) = b
      BY <1>1, <2>1, <2>3, IntegerRead
    <3> QED BY <3>1, <3>2
  <2> QED BY <2>2, <2>3
<1> QED BY <1>2, <1>3, Zenon DEF ReadsBack, n

\* What to_string shows of a result in binary with all its digits reads back
\* (assign_from_bin) as that result, x and z bits too; a known result also reads
\* back without leading zeros in binary, octal and hexadecimal, and through
\* binary_2_decimal, sign and value, where it fits the machine's integers.
THEOREM ReadsBackCorrect == Spec => []ReadsBack
<1>1. ExpressionTypeOK => ReadsBack
  BY ReadsBackHolds
<1> QED BY <1>1, ExpressionTypeCorrect, PTL

=============================================================================
