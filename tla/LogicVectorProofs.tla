---------------------------- MODULE LogicVectorProofs ----------------------------
(***************************************************************************)
(* Lemmas about vectors of every width.  Most operators of LogicVector     *)
(* compute bit by bit, with a recursive function: the first part says that *)
(* such a function exists, the others what it computes.                    *)
(***************************************************************************)
EXTENDS LogicVector, TLAPS, SequenceTheorems, WellFoundedInduction, NaturalsInduction

USE DEF LO, HI, DC, Z, NVL

-----------------------------------------------------------------------------
(***************************************************************************)
(* Recursive functions over an interval of integers.                       *)
(***************************************************************************)

Smaller == {p \in Nat \X Nat : p[1] < p[2]}

\* No sequence of naturals descends for ever.
LEMMA SmallerWellFounded == IsWellFoundedOn(Smaller, Nat)
<1>1. OpToRel(<, Nat) = Smaller
  BY Zenon DEF OpToRel, Smaller
<1> QED BY <1>1, NatLessThanWellFounded

\* A set of naturals that is not empty has a least element.
LEMMA LeastOf ==
  ASSUME NEW T, T \subseteq Nat, T # {}
  PROVE  \E m \in T : \A k \in T : m <= k
<1>1. PICK m \in T : \A k \in T : ~(<<k, m>> \in Smaller)
  BY SmallerWellFounded, WFMin
<1>2. ASSUME NEW k \in T PROVE m <= k
  <2>1. <<k, m>> \notin Smaller
    BY <1>1
  <2>2. ~(k < m)
    BY <2>1 DEF Smaller
  <2> QED BY <2>2
<1> QED BY <1>2

\* Induction up to n.
LEMMA InductUpTo ==
  ASSUME NEW n \in Nat, NEW T, 0 \in T, \A i \in 1 .. n : i - 1 \in T => i \in T
  PROVE  \A i \in 0 .. n : i \in T
<1> DEFINE bad == {i \in 0 .. n : i \notin T}
<1> SUFFICES ASSUME bad # {} PROVE FALSE
  OBVIOUS
<1>1. PICK m \in bad : \A k \in bad : m <= k
  <2>1. bad \subseteq Nat
    OBVIOUS
  <2> HIDE DEF bad
  <2> QED BY <2>1, LeastOf
<1>2. m # 0 /\ m \in 1 .. n
  OBVIOUS
<1>3. m - 1 \in T
  BY <1>1, <1>2
<1> QED BY <1>2, <1>3

\* f starts with a at 0 and is stepped by G from there up to n.
Steps(f, n, S, a, G) ==
  f \in [0 .. n -> S] /\ f[0] = a /\ \A i \in 1 .. n : f[i] = G[i][f[i - 1]]

\* There is such a function.
LEMMA Recursive ==
  ASSUME NEW n \in Nat, NEW S, NEW a \in S, NEW G \in [1 .. n -> [S -> S]]
  PROVE  \E f : Steps(f, n, S, a, G)
<1> DEFINE T == {k \in 0 .. n : \E f : Steps(f, k, S, a, G)}
<1>1. 0 \in T
  <2> DEFINE g == [i \in 0 .. 0 |-> a]
  <2>1. Steps(g, 0, S, a, G)
    BY DEF Steps
  <2>2. 0 \in 0 .. n
    OBVIOUS
  <2> HIDE DEF g
  <2> QED BY <2>1, <2>2
<1>2. ASSUME NEW k \in 1 .. n, k - 1 \in T PROVE k \in T
  <2>1. PICK f : Steps(f, k - 1, S, a, G)
    BY <1>2
  <2> DEFINE g == [i \in 0 .. k |-> IF i < k THEN f[i] ELSE G[k][f[k - 1]]]
  <2>2. g \in [0 .. k -> S]
    BY <2>1 DEF Steps
  <2>3. ASSUME NEW i \in 1 .. k PROVE g[i] = G[i][g[i - 1]]
    <3>1. CASE i < k
      <4>1. g[i] = f[i] /\ g[i - 1] = f[i - 1] /\ i \in 1 .. k - 1
        BY <3>1
      <4> QED BY <4>1, <2>1 DEF Steps
    <3>2. CASE i = k
      BY <3>2
    <3> QED BY <3>1, <3>2
  <2>4. Steps(g, k, S, a, G)
    BY <2>1, <2>2, <2>3 DEF Steps
  <2> HIDE DEF g
  <2> QED BY <2>4
<1>3. n \in T
  <2>1. \A k \in 1 .. n : k - 1 \in T => k \in T
    BY <1>2
  <2> HIDE DEF T
  <2>2. \A k \in 0 .. n : k \in T
    BY <1>1, <2>1, InductUpTo
  <2> QED BY <2>2
<1> QED BY <1>3

FunctionOn(h, D) == h = [i \in D |-> h[i]]

\* A function that takes the steps is it, with values in S.
LEMMA StepsOf ==
  ASSUME NEW n \in Nat, NEW S, NEW a \in S, NEW G \in [1 .. n -> [S -> S]],
         NEW h, FunctionOn(h, 0 .. n), h[0] = a,
         \A i \in 1 .. n : h[i - 1] \in S => h[i] = G[i][h[i - 1]]
  PROVE  Steps(h, n, S, a, G)
<1> DEFINE T == {i \in 0 .. n : h[i] \in S}
<1>1. 0 \in T
  OBVIOUS
<1>2. ASSUME NEW i \in 1 .. n, i - 1 \in T PROVE i \in T
  <2>1. h[i] = G[i][h[i - 1]] /\ h[i - 1] \in S
    BY <1>2
  <2> QED BY <2>1
<1>3. \A i \in 0 .. n : h[i] \in S
  <2>1. \A i \in 1 .. n : i - 1 \in T => i \in T
    BY <1>2
  <2> HIDE DEF T
  <2>2. \A i \in 0 .. n : i \in T
    BY <1>1, <2>1, InductUpTo
  <2> QED BY <2>2 DEF T
<1>4. h \in [0 .. n -> S]
  BY <1>3 DEF FunctionOn
<1>5. ASSUME NEW i \in 1 .. n PROVE h[i] = G[i][h[i - 1]]
  <2>1. h[i - 1] \in S
    BY <1>3
  <2> QED BY <2>1
<1> QED BY <1>4, <1>5 DEF Steps

\* The same from n + 1 down to 1.
StepsDown(f, n, S, a, G) ==
  f \in [1 .. n + 1 -> S] /\ f[n + 1] = a /\ \A i \in 1 .. n : f[i] = G[i][f[i + 1]]

\* There is such a function.
LEMMA RecursiveDown ==
  ASSUME NEW n \in Nat, NEW S, NEW a \in S, NEW G \in [1 .. n -> [S -> S]]
  PROVE  \E f : StepsDown(f, n, S, a, G)
<1> DEFINE up == [i \in 1 .. n |-> G[n + 1 - i]]
<1>1. up \in [1 .. n -> [S -> S]]
  OBVIOUS
<1>2. PICK g : Steps(g, n, S, a, up)
  <2> HIDE DEF up
  <2> QED BY <1>1, Recursive
<1> DEFINE f == [i \in 1 .. n + 1 |-> g[n + 1 - i]]
<1>3. f \in [1 .. n + 1 -> S] /\ f[n + 1] = a
  BY <1>2 DEF Steps
<1>4. ASSUME NEW i \in 1 .. n PROVE f[i] = G[i][f[i + 1]]
  <2>1. n + 1 - i \in 1 .. n /\ (n + 1 - i) - 1 = n + 1 - (i + 1)
    OBVIOUS
  <2>2. g[n + 1 - i] = up[n + 1 - i][g[n + 1 - (i + 1)]]
    BY <1>2, <2>1 DEF Steps
  <2>3. up[n + 1 - i] = G[i]
    BY <2>1
  <2> QED BY <2>2, <2>3
<1>5. StepsDown(f, n, S, a, G)
  <2> HIDE DEF f
  <2> QED BY <1>3, <1>4 DEF StepsDown
<1> QED BY <1>5

\* A function that takes the steps down is it, with values in S.
LEMMA StepsDownOf ==
  ASSUME NEW n \in Nat, NEW S, NEW a \in S, NEW G \in [1 .. n -> [S -> S]],
         NEW h, FunctionOn(h, 1 .. n + 1), h[n + 1] = a,
         \A i \in 1 .. n : h[i + 1] \in S => h[i] = G[i][h[i + 1]]
  PROVE  StepsDown(h, n, S, a, G)
<1> DEFINE T == {i \in 0 .. n : h[n + 1 - i] \in S}
<1>1. 0 \in T
  OBVIOUS
<1>2. ASSUME NEW i \in 1 .. n, i - 1 \in T PROVE i \in T
  <2>1. n + 1 - i \in 1 .. n /\ (n + 1 - i) + 1 = n + 1 - (i - 1)
    OBVIOUS
  <2>2. h[(n + 1 - i) + 1] \in S
    BY <1>2, <2>1
  <2>3. h[n + 1 - i] = G[n + 1 - i][h[(n + 1 - i) + 1]]
    BY <2>1, <2>2
  <2> QED BY <2>1, <2>2, <2>3
<1>3. \A i \in 1 .. n + 1 : h[i] \in S
  <2>1. \A i \in 1 .. n : i - 1 \in T => i \in T
    BY <1>2
  <2>2. \A i \in 0 .. n : i \in T
    <3> HIDE DEF T
    <3> QED BY <1>1, <2>1, InductUpTo
  <2>3. ASSUME NEW i \in 1 .. n + 1 PROVE h[i] \in S
    <3>1. n + 1 - i \in 0 .. n /\ n + 1 - (n + 1 - i) = i
      OBVIOUS
    <3>2. n + 1 - i \in T
      <4> HIDE DEF T
      <4> QED BY <2>2, <3>1
    <3> QED BY <3>1, <3>2
  <2> QED BY <2>3
<1>4. h \in [1 .. n + 1 -> S]
  BY <1>3 DEF FunctionOn
<1>5. ASSUME NEW i \in 1 .. n PROVE h[i] = G[i][h[i + 1]]
  <2>1. h[i + 1] \in S
    BY <1>3
  <2> QED BY <2>1
<1> QED BY <1>4, <1>5 DEF StepsDown
-----------------------------------------------------------------------------
(***************************************************************************)
(* Powers of two and what known bits stand for.                            *)
(***************************************************************************)

\* The recursion of Below.
LEMMA BelowSteps ==
  ASSUME NEW k \in Nat
  PROVE  \E f \in [0 .. k -> Nat \ {0}] :
           f[0] = 1 /\ (\A i \in 1 .. k : f[i] = 2 * f[i - 1]) /\ Below(k) = f[k]
<1> DEFINE S == Nat \ {0}
           G == [i \in 1 .. k |-> [x \in S |-> 2 * x]]
           pow == CHOOSE f : f = [i \in 0 .. k |-> IF i = 0 THEN 1 ELSE 2 * f[i - 1]]
<1>1. G \in [1 .. k -> [S -> S]] /\ 1 \in S
  OBVIOUS
<1>2. PICK f : Steps(f, k, S, 1, G)
  <2> HIDE DEF G, S
  <2> QED BY <1>1, Recursive
<1>3. f = [i \in 0 .. k |-> IF i = 0 THEN 1 ELSE 2 * f[i - 1]]
  <2>1. \A i \in 1 .. k : f[i - 1] \in S
    BY <1>2 DEF Steps
  <2>2. \A i \in 1 .. k : f[i] = 2 * f[i - 1]
    BY <2>1, <1>2 DEF Steps
  <2>3. f \in [0 .. k -> S] /\ f[0] = 1
    BY <1>2 DEF Steps
  <2> HIDE DEF G, S
  <2> QED BY <2>2, <2>3
<1>4. pow = [i \in 0 .. k |-> IF i = 0 THEN 1 ELSE 2 * pow[i - 1]]
  BY <1>3
<1>5. Below(k) = pow[k]
  BY DEF Below
<1> HIDE DEF pow
<1>6. pow[0] = 1 /\ (\A i \in 1 .. k : pow[i] = 2 * pow[i - 1])
  BY <1>4
<1>7. Steps(pow, k, S, 1, G)
  <2>1. FunctionOn(pow, 0 .. k)
    BY <1>4 DEF FunctionOn
  <2>2. \A i \in 1 .. k : pow[i - 1] \in S => pow[i] = G[i][pow[i - 1]]
    BY <1>6
  <2> HIDE DEF G, S
  <2> QED BY <1>1, <1>6, <2>1, <2>2, StepsOf
<1> QED BY <1>5, <1>6, <1>7 DEF Steps

\* Below is the power of two.
LEMMA BelowProperties ==
  /\ Below(0) = 1
  /\ \A k \in Nat : Below(k) \in Nat \ {0} /\ Below(k + 1) = 2 * Below(k)
<1>1. Below(0) = 1
  BY BelowSteps
<1>2. ASSUME NEW k \in Nat
      PROVE  Below(k) \in Nat \ {0} /\ Below(k + 1) = 2 * Below(k)
  <2>1. PICK f \in [0 .. k -> Nat \ {0}] :
           f[0] = 1 /\ (\A i \in 1 .. k : f[i] = 2 * f[i - 1]) /\ Below(k) = f[k]
    BY BelowSteps
  <2>2. PICK g \in [0 .. k + 1 -> Nat \ {0}] :
           g[0] = 1 /\ (\A i \in 1 .. k + 1 : g[i] = 2 * g[i - 1]) /\ Below(k + 1) = g[k + 1]
    <3> DEFINE m == k + 1
    <3>1. m \in Nat
      OBVIOUS
    <3> HIDE DEF m
    <3>2. \E g \in [0 .. m -> Nat \ {0}] :
            g[0] = 1 /\ (\A i \in 1 .. m : g[i] = 2 * g[i - 1]) /\ Below(m) = g[m]
      BY <3>1, BelowSteps
    <3> QED BY <3>2 DEF m
  <2> DEFINE T == {i \in 0 .. k : f[i] = g[i]}
  <2>3. 0 \in T
    BY <2>1, <2>2
  <2>4. \A i \in 1 .. k : i - 1 \in T => i \in T
    BY <2>1, <2>2
  <2>5. k \in T
    <3> HIDE DEF T
    <3>1. \A i \in 0 .. k : i \in T
      BY <2>3, <2>4, InductUpTo
    <3> QED BY <3>1
  <2> QED BY <2>1, <2>2, <2>5
<1> QED BY <1>1, <1>2

\* What a sequence of bits stands for, bit by bit.
LEMMA UnsignedSteps ==
  ASSUME NEW n \in Nat, NEW b \in [1 .. n -> Nat]
  PROVE  \E f \in [0 .. n -> Nat] :
           /\ f[0] = 0 /\ (\A i \in 1 .. n : f[i] = f[i - 1] + b[i] * Below(i - 1))
           /\ Unsigned(b) = f[n]
<1> DEFINE G == [i \in 1 .. n |-> [x \in Nat |-> x + b[i] * Below(i - 1)]]
           sum == CHOOSE f : f = [i \in 0 .. Len(b) |->
                                    IF i = 0 THEN 0 ELSE f[i - 1] + b[i] * Below(i - 1)]
<1>1. G \in [1 .. n -> [Nat -> Nat]]
  <2>1. \A i \in 1 .. n : b[i] * Below(i - 1) \in Nat
    <3> SUFFICES ASSUME NEW i \in 1 .. n PROVE b[i] * Below(i - 1) \in Nat
      OBVIOUS
    <3>1. b[i] \in Nat /\ i - 1 \in Nat
      OBVIOUS
    <3>2. Below(i - 1) \in Nat
      BY <3>1, BelowProperties
    <3> QED BY <3>1, <3>2
  <2> QED BY <2>1
<1>2. PICK f : Steps(f, n, Nat, 0, G)
  <2> HIDE DEF G
  <2> QED BY <1>1, Recursive
<1>3. f = [i \in 0 .. Len(b) |-> IF i = 0 THEN 0 ELSE f[i - 1] + b[i] * Below(i - 1)]
  <2>1. \A i \in 1 .. n : f[i - 1] \in Nat
    BY <1>2 DEF Steps
  <2>2. \A i \in 1 .. n : f[i] = f[i - 1] + b[i] * Below(i - 1)
    BY <2>1, <1>2 DEF Steps
  <2>3. f \in [0 .. n -> Nat] /\ f[0] = 0
    BY <1>2 DEF Steps
  <2>4. Len(b) = n
    OBVIOUS
  <2> HIDE DEF G
  <2> QED BY <2>2, <2>3, <2>4
<1>4. sum = [i \in 0 .. Len(b) |-> IF i = 0 THEN 0 ELSE sum[i - 1] + b[i] * Below(i - 1)]
  BY <1>3
<1>5. Unsigned(b) = sum[n]
  BY DEF Unsigned
<1> HIDE DEF sum
<1>6. sum[0] = 0 /\ (\A i \in 1 .. n : sum[i] = sum[i - 1] + b[i] * Below(i - 1))
  BY <1>4
<1>7. Steps(sum, n, Nat, 0, G)
  <2>1. FunctionOn(sum, 0 .. n)
    BY <1>4 DEF FunctionOn
  <2>2. \A i \in 1 .. n : sum[i - 1] \in Nat => sum[i] = G[i][sum[i - 1]]
    BY <1>6
  <2> HIDE DEF G
  <2> QED BY <1>1, <1>6, <2>1, <2>2, StepsOf
<1> QED BY <1>5, <1>6, <1>7 DEF Steps

\* What bits stand for is a natural number.
LEMMA UnsignedType ==
  ASSUME NEW n \in Nat, NEW b \in [1 .. n -> Nat]
  PROVE  Unsigned(b) \in Nat
BY UnsignedSteps

\* Powers of two grow.
LEMMA BelowMonotone ==
  ASSUME NEW j \in Nat, NEW k \in Nat, j <= k
  PROVE  Below(j) <= Below(k)
<1> DEFINE T == {i \in 0 .. k - j : Below(j) <= Below(j + i)}
<1>1. 0 \in T
  BY BelowProperties
<1>2. ASSUME NEW i \in 1 .. k - j, i - 1 \in T PROVE i \in T
  <2>1. j + (i - 1) \in Nat /\ (j + (i - 1)) + 1 = j + i
    OBVIOUS
  <2>2. Below(j + i) = 2 * Below(j + (i - 1)) /\ Below(j + (i - 1)) \in Nat /\ Below(j) \in Nat
    BY <2>1, BelowProperties
  <2> QED BY <1>2, <2>2
<1>3. k - j \in T
  <2>1. \A i \in 1 .. k - j : i - 1 \in T => i \in T
    BY <1>2
  <2>2. k - j \in Nat /\ k - j \in 0 .. k - j
    OBVIOUS
  <2> HIDE DEF T
  <2>3. \A i \in 0 .. k - j : i \in T
    BY <1>1, <2>1, <2>2, InductUpTo
  <2> QED BY <2>2, <2>3
<1>4. j + (k - j) = k
  OBVIOUS
<1> QED BY <1>3, <1>4

\* The parity of an integer is a bit.
LEMMA ParityBit ==
  ASSUME NEW x \in Int
  PROVE  x % 2 \in {0, 1}
OBVIOUS

\* The bits of an integer are known.
LEMMA BitsType ==
  ASSUME NEW x \in Int, NEW n \in Nat
  PROVE  Bits(x, n) \in [1 .. n -> {LO, HI}]
<1>1. ASSUME NEW i \in 1 .. n PROVE (x \div Below(i - 1)) % 2 \in {LO, HI}
  <2>1. i - 1 \in Nat
    OBVIOUS
  <2>2. Below(i - 1) \in Nat \ {0}
    BY <2>1, BelowProperties
  <2>3. x \div Below(i - 1) \in Int
    BY <2>2
  <2> QED BY <2>3, ParityBit
<1> QED BY <1>1 DEF Bits

\* The first and the last of a set of positions.
LEMMA FirstOf ==
  ASSUME NEW T, T \subseteq Nat, T # {}
  PROVE  First(T) \in T /\ \A j \in T : First(T) <= j
BY LeastOf DEF First

\* A set of naturals with an upper bound has a last element.
LEMMA LastOf ==
  ASSUME NEW n \in Nat, NEW T, T \subseteq 1 .. n, T # {}
  PROVE  Last(T) \in T /\ \A j \in T : j <= Last(T)
<1> DEFINE up == {n - j : j \in T}
<1>1. up \subseteq Nat /\ up # {}
  OBVIOUS
<1>2. PICK m \in up : \A k \in up : m <= k
  <2> HIDE DEF up
  <2> QED BY <1>1, LeastOf
<1>3. PICK i \in T : m = n - i
  BY <1>2
<1>4. \A j \in T : j <= i
  <2> SUFFICES ASSUME NEW j \in T PROVE j <= i
    OBVIOUS
  <2>1. n - j \in up /\ i \in Int /\ j \in Int
    OBVIOUS
  <2>2. n - i <= n - j
    BY <1>2, <1>3, <2>1
  <2> QED BY <2>1, <2>2
<1> QED BY <1>4 DEF Last
-----------------------------------------------------------------------------
(***************************************************************************)
(* What the operators make of bits: bits, and as many of them.             *)
(***************************************************************************)

\* A vector has the width of its bits.
LEMMA VectorWidth ==
  ASSUME NEW n \in Nat, NEW v \in VectorOf(n)
  PROVE  /\ Width(v) = n /\ v.bits \in [1 .. n -> Logic] /\ v.bits \in Seq(Logic)
         /\ v.sgn \in SignTypes /\ DOMAIN v.bits = 1 .. n
BY DEF VectorOf, Width

\* Beyond its end a vector has zeros.
LEMMA AtType ==
  ASSUME NEW n \in Nat, NEW b \in [1 .. n -> Logic], NEW i \in Nat \ {0}
  PROVE  At(b, i) \in Logic /\ At(b, i) \in Nat
BY DEF At, Logic

\* A vector of a sign and bits.
LEMMA VectorType ==
  ASSUME NEW n, NEW sgn \in SignTypes, NEW b \in [1 .. n -> Logic]
  PROVE  Vector(sgn, b) \in VectorOf(n)
BY DEF Vector, VectorOf

\* A vector keeps its sign or takes the one it is given.
LEMMA AdoptType ==
  ASSUME NEW n, NEW v \in VectorOf(n), NEW from \in SignTypes
  PROVE  Adopt(v, from) \in SignTypes
BY DEF Adopt, VectorOf

\* A vector of a single value.
LEMMA FilledType ==
  ASSUME NEW n \in Nat, NEW a \in Logic
  PROVE  Filled(n, a) \in [1 .. n -> Logic]
BY DEF Filled

\* Assigning to a vector leaves its width.
LEMMA AssignedType ==
  ASSUME NEW n \in Nat, NEW m \in Nat \ {0}, NEW old \in VectorOf(n), NEW v \in VectorOf(m)
  PROVE  Assigned(old, v) \in VectorOf(n)
<1> DEFINE pad == IF v.sgn = "signed" THEN Top(v) ELSE LO
           b == [i \in 1 .. Width(old) |-> IF i <= Width(v) THEN v.bits[i] ELSE pad]
<1>1. pad \in Logic
  BY VectorWidth DEF Top, Logic
<1>2. b \in [1 .. n -> Logic]
  <2> HIDE DEF pad
  <2> QED BY <1>1, VectorWidth
<1>3. Adopt(old, v.sgn) \in SignTypes
  BY AdoptType, VectorWidth
<1>4. Assigned(old, v) = Vector(Adopt(old, v.sgn), b)
  BY DEF Assigned
<1> HIDE DEF b
<1> QED BY <1>2, <1>3, <1>4, VectorType

\* An inverted bit is a bit.
LEMMA InvType ==
  ASSUME NEW a
  PROVE  Inv(a) \in Logic
BY DEF Inv, Known, Logic

\* The tables of logic.h give bits.
LEMMA LogicOpTypes ==
  ASSUME NEW a \in Logic, NEW b \in Logic
  PROVE  /\ And(a, b) \in Logic /\ Or(a, b) \in Logic /\ Xor(a, b) \in Logic
         /\ Ternary(a, b) \in Logic /\ Equal(a, b) \in Logic /\ Less(a, b) \in Logic
BY DEF And, Or, Xor, Ternary, Equal, Less, Inv, Known, Logic

\* The first k bits of a vector.
LEMMA PrefixType ==
  ASSUME NEW n \in Nat, NEW S, NEW b \in [1 .. n -> S], NEW k \in 0 .. n
  PROVE  SubSeq(b, 1, k) \in [1 .. k -> S] /\ \A i \in 1 .. k : SubSeq(b, 1, k)[i] = b[i]
<1>1. SubSeq(b, 1, k) = [i \in 1 .. k |-> b[i]]
  OBVIOUS
<1>2. \A i \in 1 .. k : b[i] \in S
  OBVIOUS
<1> QED BY <1>1, <1>2

\* A machine integer is below the power of its width.
LEMMA WrapType ==
  ASSUME NEW x \in Int
  PROVE  Wrap(x) \in 0 .. Below(DecimalBits) - 1
<1>1. Below(DecimalBits) \in Nat \ {0}
  BY LogicVectorAssumption, BelowProperties
<1> QED BY <1>1 DEF Wrap

\* The vector of a machine integer has as many bits as the integer needs.
LEMMA OfDecimalWidth ==
  ASSUME NEW x \in 0 .. Below(DecimalBits) - 1
  PROVE  \E n \in 1 .. DecimalBits :
           /\ x < Below(n) /\ (n = 1 \/ x >= Below(n - 1))
           /\ OfDecimal(x) = Vector("unsigned", Bits(x, n))
<1> DEFINE T == {k \in 1 .. DecimalBits : x < Below(k)}
           P(k) == x < Below(k) /\ (k = 1 \/ x >= Below(k - 1))
           n == CHOOSE k \in 1 .. DecimalBits : P(k)
<1>1. x \in Nat /\ T \subseteq Nat /\ T # {}
  <2>1. Below(DecimalBits) \in Nat \ {0} /\ DecimalBits \in 1 .. DecimalBits
    BY LogicVectorAssumption, BelowProperties
  <2>2. DecimalBits \in T
    BY <2>1
  <2>3. \A k \in T : k \in Nat
    BY LogicVectorAssumption
  <2> QED BY <2>1, <2>2, <2>3
<1>2. PICK m \in T : \A k \in T : m <= k
  <2> HIDE DEF T
  <2> QED BY <1>1, LeastOf
<1>3. m \in 1 .. DecimalBits /\ P(m)
  <2>1. CASE m = 1
    BY <2>1
  <2>2. CASE m # 1
    <3>1. m - 1 \in 1 .. DecimalBits /\ m - 1 \in Nat
      BY <2>2, LogicVectorAssumption
    <3>2. m - 1 \notin T
      BY <1>2, <3>1
    <3>3. Below(m - 1) \in Nat
      BY <3>1, BelowProperties
    <3> QED BY <1>1, <3>1, <3>2, <3>3
  <2> QED BY <2>1, <2>2
<1>4. n \in 1 .. DecimalBits /\ P(n)
  <2> HIDE DEF P
  <2> QED BY <1>3
<1>5. OfDecimal(x) = Vector("unsigned", Bits(x, n))
  BY DEF OfDecimal
<1> HIDE DEF n
<1> QED BY <1>4, <1>5

\* The vector of a machine integer is unsigned.
LEMMA OfDecimalType ==
  ASSUME NEW x \in 0 .. Below(DecimalBits) - 1
  PROVE  \E n \in Nat \ {0} : OfDecimal(x) \in VectorOf(n) /\ OfDecimal(x).sgn = "unsigned"
<1>1. PICK n \in 1 .. DecimalBits : OfDecimal(x) = Vector("unsigned", Bits(x, n))
  BY OfDecimalWidth
<1>2. n \in Nat \ {0} /\ x \in Int
  BY LogicVectorAssumption, BelowProperties
<1>3. Bits(x, n) \in [1 .. n -> Logic]
  <2>1. Bits(x, n) \in [1 .. n -> {LO, HI}]
    BY <1>2, BitsType
  <2> QED BY <2>1 DEF Logic
<1>4. "unsigned" \in SignTypes
  BY DEF SignTypes
<1>5. Vector("unsigned", Bits(x, n)) \in VectorOf(n)
  BY <1>3, <1>4, VectorType
<1>6. Vector("unsigned", Bits(x, n)).sgn = "unsigned"
  BY DEF Vector
<1> QED BY <1>1, <1>2, <1>5, <1>6

\* The vector of a bit is unsigned.
LEMMA OfLogicType ==
  ASSUME NEW a \in Logic
  PROVE  OfLogic(a) \in VectorOf(1) /\ OfLogic(a).sgn = "unsigned"
<1>1. <<a>> \in [1 .. 1 -> Logic]
  OBVIOUS
<1>2. "unsigned" \in SignTypes
  BY DEF SignTypes
<1>3. Vector("unsigned", <<a>>) \in VectorOf(1)
  BY <1>1, <1>2, VectorType
<1> QED BY <1>3 DEF OfLogic, Vector

\* A vector as a machine integer.
LEMMA ToDecimalType ==
  ASSUME NEW n \in Nat, NEW v \in VectorOf(n)
  PROVE  ToDecimal(v).val \in Nat
<1> DEFINE k == IF DecimalBits > Width(v) THEN Width(v) ELSE DecimalBits
           low == SubSeq(v.bits, 1, k)
<1>1. k \in 0 .. n /\ Width(v) = n
  BY LogicVectorAssumption, VectorWidth
<1>2. low \in [1 .. k -> Nat] /\ k \in Nat
  <2>1. v.bits \in [1 .. n -> Nat]
    BY VectorWidth DEF Logic
  <2>2. k \in Nat
    BY <1>1
  <2> HIDE DEF k
  <2> QED BY <1>1, <2>1, <2>2, PrefixType
<1>3. Unsigned(low) \in Nat
  <2> HIDE DEF low, k
  <2> QED BY <1>2, UnsignedType
<1>4. Below(DecimalBits) \in Nat \ {0} /\ Below(n) \in Nat
  BY LogicVectorAssumption, BelowProperties
<1>5. DecimalBits > n => Below(DecimalBits) - Below(n) \in Nat
  <2>1. DecimalBits > n => Below(n) <= Below(DecimalBits)
    BY LogicVectorAssumption, BelowMonotone
  <2> QED BY <1>4, <2>1
<1>6. \/ ToDecimal(v).val = 0
      \/ ToDecimal(v).val = Below(DecimalBits) - 1
      \/ DecimalBits > n /\ ToDecimal(v).val = Unsigned(low) + Below(DecimalBits) - Below(n)
      \/ ToDecimal(v).val = Unsigned(low)
  BY <1>1, Zenon DEF ToDecimal, ToBits
<1> HIDE DEF low
<1> QED BY <1>3, <1>4, <1>5, <1>6

\* The absolute value of a machine integer is one.
LEMMA AbsDecimalType ==
  ASSUME NEW n \in Nat, NEW v \in VectorOf(n)
  PROVE  AbsDecimal(v) \in 0 .. Below(DecimalBits) - 1 /\ AbsDecimal(v) \in Nat
<1>1. ToDecimal(v).val \in Nat
  BY ToDecimalType
<1>2. -ToDecimal(v).val \in Int /\ ToDecimal(v).val \in Int
  BY <1>1
<1>3. Wrap(-ToDecimal(v).val) \in 0 .. Below(DecimalBits) - 1
      /\ Wrap(ToDecimal(v).val) \in 0 .. Below(DecimalBits) - 1
  BY <1>2, WrapType
<1>4. Below(DecimalBits) \in Nat
  BY LogicVectorAssumption, BelowProperties
<1> QED BY <1>3, <1>4 DEF AbsDecimal
-----------------------------------------------------------------------------
(***************************************************************************)
(* Sums.                                                                   *)
(***************************************************************************)

\* The carries: 0 into the lowest bit, then half of the sum of the bits below.
LEMMA CarriesSteps ==
  ASSUME NEW n \in Nat, NEW l, NEW r,
         \A i \in 1 .. n : At(l, i) \in Nat /\ At(r, i) \in Nat
  PROVE  /\ Carries(l, r, n) \in [1 .. n + 1 -> Nat]
         /\ Carries(l, r, n)[1] = 0
         /\ \A i \in 1 .. n :
              Carries(l, r, n)[i + 1] = (At(l, i) + At(r, i) + Carries(l, r, n)[i]) \div 2
<1> DEFINE G == [i \in 1 .. n |-> [x \in Nat |-> (At(l, i) + At(r, i) + x) \div 2]]
           c == CHOOSE f : f = [i \in 1 .. n + 1 |->
                  IF i = 1 THEN 0 ELSE (At(l, i - 1) + At(r, i - 1) + f[i - 1]) \div 2]
<1>1. G \in [1 .. n -> [Nat -> Nat]]
  OBVIOUS
<1>2. PICK g : Steps(g, n, Nat, 0, G)
  <2> HIDE DEF G
  <2> QED BY <1>1, Recursive
<1> DEFINE f == [i \in 1 .. n + 1 |-> g[i - 1]]
<1>3. f = [i \in 1 .. n + 1 |->
             IF i = 1 THEN 0 ELSE (At(l, i - 1) + At(r, i - 1) + f[i - 1]) \div 2]
  <2>1. ASSUME NEW i \in 1 .. n + 1
        PROVE  f[i] = IF i = 1 THEN 0 ELSE (At(l, i - 1) + At(r, i - 1) + f[i - 1]) \div 2
    <3>1. CASE i = 1
      BY <1>2, <3>1 DEF Steps
    <3>2. CASE i # 1
      <4>1. i - 1 \in 1 .. n /\ g[(i - 1) - 1] \in Nat /\ f[i - 1] = g[(i - 1) - 1] /\ f[i] = g[i - 1]
        BY <1>2, <3>2 DEF Steps
      <4>2. g[i - 1] = G[i - 1][g[(i - 1) - 1]]
        BY <1>2, <4>1 DEF Steps
      <4> HIDE DEF f
      <4>3. f[i] = (At(l, i - 1) + At(r, i - 1) + f[i - 1]) \div 2
        BY <4>1, <4>2
      <4> QED BY <3>2, <4>3
    <3> QED BY <3>1, <3>2
  <2> QED BY <2>1
<1>4. c = [i \in 1 .. n + 1 |->
             IF i = 1 THEN 0 ELSE (At(l, i - 1) + At(r, i - 1) + c[i - 1]) \div 2]
  <2> HIDE DEF f
  <2> QED BY <1>3
<1>5. Carries(l, r, n) = c
  BY DEF Carries
<1> HIDE DEF c, f
<1>6. c[1] = 0 /\ \A i \in 1 .. n : c[i + 1] = (At(l, i) + At(r, i) + c[i]) \div 2
  <2>1. c[1] = 0
    BY <1>4
  <2>2. ASSUME NEW i \in 1 .. n PROVE c[i + 1] = (At(l, i) + At(r, i) + c[i]) \div 2
    <3>1. i + 1 \in 1 .. n + 1 /\ i + 1 # 1 /\ (i + 1) - 1 = i
      OBVIOUS
    <3> QED BY <1>4, <3>1
  <2> QED BY <2>1, <2>2
<1> DEFINE T == {i \in 0 .. n : c[i + 1] \in Nat}
<1>7. 0 \in T
  BY <1>6
<1>8. \A i \in 1 .. n : i - 1 \in T => i \in T
  <2> SUFFICES ASSUME NEW i \in 1 .. n, i - 1 \in T PROVE i \in T
    OBVIOUS
  <2>1. c[i] \in Nat
    <3>1. (i - 1) + 1 = i
      OBVIOUS
    <3> QED BY <3>1
  <2>2. (At(l, i) + At(r, i) + c[i]) \div 2 \in Nat
    BY <2>1
  <2> QED BY <1>6, <2>2
<1>9. \A i \in 1 .. n + 1 : c[i] \in Nat
  <2>1. \A i \in 0 .. n : i \in T
    <3> HIDE DEF T
    <3> QED BY <1>7, <1>8, InductUpTo
  <2> SUFFICES ASSUME NEW i \in 1 .. n + 1 PROVE c[i] \in Nat
    OBVIOUS
  <2>2. i - 1 \in 0 .. n /\ (i - 1) + 1 = i
    OBVIOUS
  <2> QED BY <2>1, <2>2
<1>10. c \in [1 .. n + 1 -> Nat]
  BY <1>4, <1>9
<1> QED BY <1>5, <1>6, <1>10

\* A bit of a sum is known.
LEMMA SumBitType ==
  ASSUME NEW n \in Nat, NEW m \in Nat, NEW k \in Nat,
         NEW l \in [1 .. m -> Logic], NEW r \in [1 .. k -> Logic], NEW i \in 1 .. n
  PROVE  SumBit(l, r, Carries(l, r, n), i) \in {LO, HI}
<1>1. \A j \in 1 .. n : At(l, j) \in Nat /\ At(r, j) \in Nat
  BY AtType
<1>2. Carries(l, r, n)[i] \in Nat
  BY <1>1, CarriesSteps
<1>3. At(l, i) + At(r, i) + Carries(l, r, n)[i] \in Int
  BY <1>1, <1>2
<1> QED BY <1>3, ParityBit DEF SumBit

\* The place where a sum stops.
LEMMA AddHaltType ==
  ASSUME NEW n \in Nat, NEW l, NEW r
  PROVE  /\ AddHalt(l, r, n) \in 1 .. n + 1
         /\ AddHalt(l, r, n) <= n =>
              Carries(l, r, n)[AddHalt(l, r, n)] = 0
                /\ (AddHalt(l, r, n) > Len(l) \/ AddHalt(l, r, n) > Len(r))
         /\ \A i \in 1 .. n : i < AddHalt(l, r, n) =>
              ~(Carries(l, r, n)[i] = 0 /\ (i > Len(l) \/ i > Len(r)))
<1> DEFINE halts == {i \in 1 .. n : Carries(l, r, n)[i] = 0 /\ (i > Len(l) \/ i > Len(r))}
           end == AddHalt(l, r, n)
<1>1. end = First(halts \cup {n + 1})
  BY DEF AddHalt
<1>2. halts \subseteq 1 .. n
  OBVIOUS
<1> HIDE DEF halts, end
<1>3. end \in halts \cup {n + 1} /\ \A i \in halts : end <= i
  <2>1. halts \cup {n + 1} \subseteq Nat /\ halts \cup {n + 1} # {}
    BY <1>2
  <2> QED BY <1>1, <2>1, FirstOf
<1>4. end \in 1 .. n + 1 /\ (end <= n => end \in halts)
  BY <1>2, <1>3
<1>5. \A i \in 1 .. n : i < end => i \notin halts
  BY <1>2, <1>3, <1>4
<1> QED BY <1>4, <1>5 DEF halts, end

\* A sum has the width of the vector it is put into.
LEMMA AddBitsType ==
  ASSUME NEW n \in Nat, NEW m \in Nat, NEW k \in Nat, NEW old \in [1 .. n -> Logic],
         NEW l \in [1 .. m -> Logic], NEW r \in [1 .. k -> Logic]
  PROVE  AddBits(old, l, r) \in [1 .. n -> Logic]
<1> DEFINE long == IF Len(l) > Len(r) THEN l ELSE r
           sum(i) == SumBit(l, r, Carries(l, r, n), i)
           end == AddHalt(l, r, n)
           clear == end > Len(r) /\ Len(l) <= Len(r)
           b == [i \in 1 .. n |-> IF i < end THEN sum(i) ELSE IF clear THEN LO
                                   ELSE IF i <= Len(long) THEN long[i] ELSE old[i]]
<1>1. \A i \in 1 .. n : sum(i) \in Logic
  BY SumBitType DEF Logic
<1>2. \A i \in 1 .. n : i <= Len(long) => long[i] \in Logic
  OBVIOUS
<1>3. b \in [1 .. n -> Logic]
  <2> HIDE DEF sum, long, end, clear
  <2> QED BY <1>1, <1>2 DEF Logic
<1>4. AddBits(old, l, r) = Filled(n, DC) \/ AddBits(old, l, r) = b
  BY DEF AddBits
<1> HIDE DEF b
<1> QED BY <1>3, <1>4, FilledType DEF Logic

\* Adding to a vector leaves its width.
LEMMA AddedToType ==
  ASSUME NEW n \in Nat, NEW k \in Nat,
         NEW d \in [1 .. n -> Logic], NEW b \in [1 .. k -> Logic]
  PROVE  AddedTo(d, b) \in [1 .. n -> Logic]
<1> DEFINE sum(i) == SumBit(d, b, Carries(d, b, n), i)
<1>1. \A i \in 1 .. n : sum(i) \in Logic
  BY SumBitType DEF Logic
<1>2. Len(d) = n /\ DC \in Logic
  BY DEF Logic
<1>3. ASSUME NEW i \in 1 .. n PROVE AddedTo(d, b)[i] \in {sum(i), d[i], DC}
  BY <1>2 DEF AddedTo
<1>4. AddedTo(d, b) = [i \in 1 .. n |-> AddedTo(d, b)[i]]
  BY <1>2 DEF AddedTo
<1>5. \A i \in 1 .. n : AddedTo(d, b)[i] \in Logic
  <2> HIDE DEF sum
  <2> QED BY <1>1, <1>2, <1>3
<1> QED BY <1>4, <1>5

\* A difference has as many bits as are asked for, all known.
LEMMA DifferenceType ==
  ASSUME NEW n \in Nat, NEW m \in Nat, NEW k \in Nat,
         NEW l \in [1 .. m -> Logic], NEW r \in [1 .. k -> Logic]
  PROVE  Difference(l, r, n) \in [1 .. n -> {LO, HI}]
<1> DEFINE value(b) == Unsigned([i \in 1 .. n |-> At(b, i)])
<1>1. value(l) \in Nat /\ value(r) \in Nat
  <2>1. [i \in 1 .. n |-> At(l, i)] \in [1 .. n -> Nat]
    BY AtType
  <2>2. [i \in 1 .. n |-> At(r, i)] \in [1 .. n -> Nat]
    BY AtType
  <2> QED BY <2>1, <2>2, UnsignedType
<1>2. Below(n) \in Nat \ {0}
  BY BelowProperties
<1>3. (value(l) - value(r)) % Below(n) \in Int
  <2> HIDE DEF value
  <2> QED BY <1>1, <1>2
<1>4. Difference(l, r, n) = Bits((value(l) - value(r)) % Below(n), n)
  BY DEF Difference
<1> HIDE DEF value
<1> QED BY <1>3, <1>4, BitsType

\* Subtracting from a vector leaves its width.
LEMMA SubtractedFromType ==
  ASSUME NEW n \in Nat, NEW k \in Nat,
         NEW d \in [1 .. n -> Logic], NEW b \in [1 .. k -> Logic]
  PROVE  SubtractedFrom(d, b) \in [1 .. n -> Logic]
<1> DEFINE stray == {i \in 1 .. n : ~Known(d[i]) \/ ~Known(At(b, i))}
           end == First(stray \cup {n + 1})
           low == Difference(SubSeq(d, 1, end - 1), b, end - 1)
<1>1. end \in 1 .. n + 1
  <2>1. stray \cup {n + 1} \subseteq Nat /\ stray \cup {n + 1} # {} /\ stray \cup {n + 1} \subseteq 1 .. n + 1
    OBVIOUS
  <2> HIDE DEF stray
  <2>2. end \in stray \cup {n + 1}
    BY <2>1, FirstOf
  <2> QED BY <2>1, <2>2
<1>2. low \in [1 .. end - 1 -> {LO, HI}]
  <2>1. end - 1 \in 0 .. n /\ end - 1 \in Nat
    BY <1>1
  <2> HIDE DEF end
  <2>2. SubSeq(d, 1, end - 1) \in [1 .. end - 1 -> Logic]
    BY <2>1, PrefixType
  <2> QED BY <2>1, <2>2, DifferenceType
<1>3. SubtractedFrom(d, b) = [i \in 1 .. n |-> IF i < end THEN low[i] ELSE DC]
  <2>1. Len(d) = n
    OBVIOUS
  <2> QED BY <2>1 DEF SubtractedFrom
<1> HIDE DEF end, low
<1>4. \A i \in 1 .. n : i < end => low[i] \in Logic
  BY <1>1, <1>2 DEF Logic
<1> QED BY <1>3, <1>4 DEF Logic

\* So does doubling it.
LEMMA DoubledType ==
  ASSUME NEW n \in Nat, NEW d \in [1 .. n -> Logic]
  PROVE  Doubled(d) \in [1 .. n -> Logic]
BY DEF Doubled, Logic

\* The sign of a sum.
LEMMA SumSignType ==
  ASSUME NEW n, NEW res \in VectorOf(n), NEW l, NEW r
  PROVE  SumSign(res, l, r) \in SignTypes
BY AdoptType DEF SumSign, SignTypes

\* A sum has the width of the vector it is put into.
LEMMA BinaryAddType ==
  ASSUME NEW n \in Nat, NEW m \in Nat, NEW k \in Nat,
         NEW res \in VectorOf(n), NEW l \in VectorOf(m), NEW r \in VectorOf(k)
  PROVE  BinaryAdd(res, l, r) \in VectorOf(n)
<1>1. /\ res.bits \in [1 .. n -> Logic] /\ l.bits \in [1 .. m -> Logic]
      /\ r.bits \in [1 .. k -> Logic]
  BY VectorWidth
<1>2. AddBits(res.bits, l.bits, r.bits) \in [1 .. n -> Logic]
  BY <1>1, AddBitsType
<1> QED BY <1>2, SumSignType, VectorType DEF BinaryAdd

\* So has a difference.
LEMMA BinarySubType ==
  ASSUME NEW n \in Nat, NEW m \in Nat, NEW k \in Nat,
         NEW res \in VectorOf(n), NEW l \in VectorOf(m), NEW r \in VectorOf(k)
  PROVE  BinarySub(res, l, r) \in VectorOf(n)
<1>1. l.bits \in [1 .. m -> Logic] /\ r.bits \in [1 .. k -> Logic] /\ Width(res) = n
  BY VectorWidth
<1>2. Difference(l.bits, r.bits, n) \in [1 .. n -> Logic]
  <2>1. Difference(l.bits, r.bits, n) \in [1 .. n -> {LO, HI}]
    BY <1>1, DifferenceType
  <2> QED BY <2>1 DEF Logic
<1>3. Filled(n, DC) \in [1 .. n -> Logic]
  BY FilledType DEF Logic
<1>4. \E b \in [1 .. n -> Logic] : BinarySub(res, l, r) = Vector(SumSign(res, l, r), b)
  BY <1>1, <1>2, <1>3 DEF BinarySub
<1> QED BY <1>4, SumSignType, VectorType

\* An inverted vector has as many bits as are asked for.
LEMMA UnaryInvType ==
  ASSUME NEW n \in Nat, NEW b
  PROVE  UnaryInv(n, b) \in [1 .. n -> Logic]
BY InvType DEF UnaryInv

\* The vector of a single one.
LEMMA OneType == <<HI>> \in [1 .. 1 -> Logic]
BY DEF Logic

\* So has a negated one.
LEMMA UnaryNegType ==
  ASSUME NEW n \in Nat, NEW b
  PROVE  UnaryNeg(n, b) \in [1 .. n -> Logic]
<1>1. UnaryInv(n, b) \in [1 .. n -> Logic]
  BY UnaryInvType
<1> QED BY <1>1, OneType, AddedToType DEF UnaryNeg

\* Negating in place leaves the width.
LEMMA NegatedType ==
  ASSUME NEW n \in Nat, NEW b \in [1 .. n -> Logic]
  PROVE  Negated(b) \in [1 .. n -> Logic]
<1>1. Len(b) = n
  OBVIOUS
<1>2. UnaryInv(n, b) \in [1 .. n -> Logic]
  BY UnaryInvType
<1> QED BY <1>1, <1>2, OneType, AddBitsType DEF Negated

\* The absolute value has the width of the vector it is put into.
LEMMA MagnitudeType ==
  ASSUME NEW n \in Nat, NEW m \in Nat \ {0}, NEW old \in VectorOf(n), NEW v \in VectorOf(m)
  PROVE  Magnitude(old, v) \in VectorOf(n)
<1>1. Width(v) = m /\ old.bits \in [1 .. n -> Logic]
  BY VectorWidth
<1>2. UnaryInv(m, v.bits) \in [1 .. m -> Logic]
  BY UnaryInvType
<1>3. AddBits(old.bits, UnaryInv(m, v.bits), <<HI>>) \in [1 .. n -> Logic]
  BY <1>1, <1>2, OneType, AddBitsType
<1>4. Adopt(old, "unsigned") \in SignTypes
  BY AdoptType DEF SignTypes
<1>5. Vector(Adopt(old, "unsigned"), AddBits(old.bits, UnaryInv(m, v.bits), <<HI>>)) \in VectorOf(n)
  BY <1>3, <1>4, VectorType
<1>6. Assigned(old, v) \in VectorOf(n)
  BY AssignedType
<1> QED BY <1>1, <1>5, <1>6 DEF Magnitude

\* What is no number has the width of the vector it is put into.
LEMMA NoNumberType ==
  ASSUME NEW n \in Nat \ {0}, NEW v \in VectorOf(n)
  PROVE  NoNumber(v) \in VectorOf(n)
<1>1. Filled(n, DC) \in [1 .. n -> Logic]
  BY FilledType DEF Logic
<1>2. "unset" \in SignTypes
  BY DEF SignTypes
<1>3. Vector("unset", Filled(n, DC)) \in VectorOf(n)
  BY <1>1, <1>2, VectorType
<1>4. Width(v) = n
  BY VectorWidth
<1> QED BY <1>3, <1>4, AssignedType DEF NoNumber
-----------------------------------------------------------------------------
(***************************************************************************)
(* Products and quotients.                                                 *)
(***************************************************************************)

\* The summands of a product: the multiplicand, doubled again and again.
ShiftedOf(mcand, k) ==
  LET shifted[i \in 0 .. k] == IF i = 0 THEN mcand ELSE Doubled(shifted[i - 1])
  IN  shifted

\* Each of them has the width of the product.
LEMMA ShiftedSteps ==
  ASSUME NEW n \in Nat, NEW k \in Nat, NEW mcand \in [1 .. n -> Logic]
  PROVE  /\ ShiftedOf(mcand, k) \in [0 .. k -> [1 .. n -> Logic]]
         /\ ShiftedOf(mcand, k)[0] = mcand
         /\ \A i \in 1 .. k : ShiftedOf(mcand, k)[i] = Doubled(ShiftedOf(mcand, k)[i - 1])
<1> DEFINE S == [1 .. n -> Logic]
           G == [i \in 1 .. k |-> [x \in S |-> Doubled(x)]]
           shifted == CHOOSE f : f = [i \in 0 .. k |->
                        IF i = 0 THEN mcand ELSE Doubled(f[i - 1])]
<1>1. G \in [1 .. k -> [S -> S]]
  BY DoubledType
<1>2. PICK f : Steps(f, k, S, mcand, G)
  <2> HIDE DEF G
  <2> QED BY <1>1, Recursive
<1>3. f = [i \in 0 .. k |-> IF i = 0 THEN mcand ELSE Doubled(f[i - 1])]
  <2>1. \A i \in 1 .. k : f[i - 1] \in S
    BY <1>2 DEF Steps
  <2>2. \A i \in 1 .. k : f[i] = Doubled(f[i - 1])
    BY <2>1, <1>2 DEF Steps
  <2>3. f \in [0 .. k -> S] /\ f[0] = mcand
    BY <1>2 DEF Steps
  <2> HIDE DEF G, S
  <2> QED BY <2>2, <2>3
<1>4. shifted = [i \in 0 .. k |-> IF i = 0 THEN mcand ELSE Doubled(shifted[i - 1])]
  BY <1>3
<1>5. ShiftedOf(mcand, k) = shifted
  BY DEF ShiftedOf
<1> HIDE DEF shifted
<1>6. shifted[0] = mcand /\ \A i \in 1 .. k : shifted[i] = Doubled(shifted[i - 1])
  BY <1>4
<1>7. Steps(shifted, k, S, mcand, G)
  <2>1. FunctionOn(shifted, 0 .. k)
    BY <1>4 DEF FunctionOn
  <2>2. \A i \in 1 .. k : shifted[i - 1] \in S => shifted[i] = G[i][shifted[i - 1]]
    BY <1>6
  <2>3. mcand \in S
    OBVIOUS
  <2> HIDE DEF G, S
  <2> QED BY <1>1, <1>6, <2>1, <2>2, <2>3, StepsOf
<1> QED BY <1>5, <1>6, <1>7 DEF Steps

\* The sum of the summands that meet a one in the multiplier.
ProductOf(n, mplier, shifted) ==
  LET sum[i \in 0 .. Len(mplier)] ==
        IF i = 0 THEN Filled(n, LO)
        ELSE IF mplier[i] = HI THEN AddedTo(sum[i - 1], shifted[i - 1])
        ELSE sum[i - 1]
  IN  sum[Len(mplier)]

\* It has the width of the summands.
LEMMA ProductType ==
  ASSUME NEW n \in Nat, NEW k \in Nat, NEW mplier \in [1 .. k -> Logic],
         NEW shifted \in [0 .. k -> [1 .. n -> Logic]]
  PROVE  ProductOf(n, mplier, shifted) \in [1 .. n -> Logic]
<1> DEFINE S == [1 .. n -> Logic]
           next(i, x) == IF mplier[i] = HI THEN AddedTo(x, shifted[i - 1]) ELSE x
           G == [i \in 1 .. k |-> [x \in S |-> next(i, x)]]
           zero == Filled(n, LO)
           sum == CHOOSE f : f = [i \in 0 .. Len(mplier) |->
                    IF i = 0 THEN Filled(n, LO)
                    ELSE IF mplier[i] = HI THEN AddedTo(f[i - 1], shifted[i - 1])
                    ELSE f[i - 1]]
<1>0. Len(mplier) = k
  OBVIOUS
<1>1. G \in [1 .. k -> [S -> S]]
  <2>1. ASSUME NEW i \in 1 .. k, NEW x \in S PROVE next(i, x) \in S
    <3>1. shifted[i - 1] \in S
      OBVIOUS
    <3>2. AddedTo(x, shifted[i - 1]) \in S
      BY <3>1, AddedToType
    <3> QED BY <3>2
  <2> HIDE DEF next, S
  <2> QED BY <2>1
<1>2. zero \in S
  BY FilledType DEF Logic
<1>3. PICK f : Steps(f, k, S, zero, G)
  <2> HIDE DEF G, S, zero
  <2> QED BY <1>1, <1>2, Recursive
<1>4. f = [i \in 0 .. Len(mplier) |->
             IF i = 0 THEN Filled(n, LO)
             ELSE IF mplier[i] = HI THEN AddedTo(f[i - 1], shifted[i - 1])
             ELSE f[i - 1]]
  <2>1. \A i \in 1 .. k : f[i - 1] \in S
    BY <1>3 DEF Steps
  <2>2. \A i \in 1 .. k : f[i] = next(i, f[i - 1])
    <3> HIDE DEF next, S, zero
    <3> QED BY <2>1, <1>3 DEF Steps
  <2>3. f \in [0 .. k -> S] /\ f[0] = Filled(n, LO)
    BY <1>3 DEF Steps
  <2> HIDE DEF G, S
  <2> QED BY <1>0, <2>2, <2>3
<1>5. sum = [i \in 0 .. Len(mplier) |->
               IF i = 0 THEN Filled(n, LO)
               ELSE IF mplier[i] = HI THEN AddedTo(sum[i - 1], shifted[i - 1])
               ELSE sum[i - 1]]
  BY <1>4
<1>6. ProductOf(n, mplier, shifted) = sum[k]
  BY <1>0 DEF ProductOf
<1> HIDE DEF sum
<1>7. sum[0] = zero /\ \A i \in 1 .. k : sum[i] = next(i, sum[i - 1])
  BY <1>0, <1>5
<1>8. Steps(sum, k, S, zero, G)
  <2>1. FunctionOn(sum, 0 .. k)
    BY <1>0, <1>5 DEF FunctionOn
  <2>2. \A i \in 1 .. k : sum[i - 1] \in S => sum[i] = G[i][sum[i - 1]]
    <3> HIDE DEF next, S, zero
    <3> QED BY <1>7
  <2> HIDE DEF G, S, zero, next
  <2> QED BY <1>1, <1>2, <1>7, <2>1, <2>2, StepsOf
<1>9. sum[k] \in S
  <2> HIDE DEF S, G, zero
  <2> QED BY <1>8 DEF Steps
<1> QED BY <1>6, <1>9

\* The long multiplication fills the width of its result.
LEMMA ShiftAndAddType ==
  ASSUME NEW n \in Nat, NEW m \in Nat \ {0}, NEW k \in Nat,
         NEW l \in VectorOf(m), NEW r \in VectorOf(k)
  PROVE  ShiftAndAdd(n, l, r) \in [1 .. n -> Logic]
<1> DEFINE mcand == Magnitude(Vector("unsigned", Filled(n, DC)), l).bits
           mplier == IF Negative(r) THEN <<>> ELSE r.bits
           p == ProductOf(n, mplier, ShiftedOf(mcand, Len(mplier)))
<1>1. mcand \in [1 .. n -> Logic]
  <2>1. Vector("unsigned", Filled(n, DC)) \in VectorOf(n)
    BY FilledType, VectorType DEF Logic, SignTypes
  <2>2. Magnitude(Vector("unsigned", Filled(n, DC)), l) \in VectorOf(n)
    BY <2>1, MagnitudeType
  <2> QED BY <2>2, VectorWidth
<1>2. Len(mplier) \in Nat /\ mplier \in [1 .. Len(mplier) -> Logic]
  <2>1. r.bits \in Seq(Logic)
    BY VectorWidth
  <2> QED BY <2>1
<1>3. ShiftAndAdd(n, l, r) = IF Negative(l) # Negative(r) THEN Negated(p) ELSE p
  BY DEF ShiftAndAdd, ShiftedOf, ProductOf
<1> HIDE DEF mcand, mplier
<1>4. ShiftedOf(mcand, Len(mplier)) \in [0 .. Len(mplier) -> [1 .. n -> Logic]]
  BY <1>1, <1>2, ShiftedSteps
<1>5. p \in [1 .. n -> Logic]
  BY <1>2, <1>4, ProductType
<1> HIDE DEF p
<1> QED BY <1>3, <1>5, NegatedType

\* The product has the width of the vector it is put into.
LEMMA BinaryMulType ==
  ASSUME NEW n \in Nat \ {0}, NEW m \in Nat \ {0}, NEW k \in Nat \ {0},
         NEW p \in VectorOf(n), NEW l \in VectorOf(m), NEW r \in VectorOf(k)
  PROVE  BinaryMul(p, l, r) \in VectorOf(n)
<1> DEFINE x == Signed(AbsDecimal(l) * AbsDecimal(r), l, r)
<1>1. x \in 0 .. Below(DecimalBits) - 1
  <2>1. AbsDecimal(l) \in Nat /\ AbsDecimal(r) \in Nat
    BY AbsDecimalType
  <2>2. AbsDecimal(l) * AbsDecimal(r) \in Int
    BY <2>1
  <2> DEFINE y == AbsDecimal(l) * AbsDecimal(r)
  <2>3. y \in Int /\ -y \in Int
    BY <2>2
  <2> HIDE DEF y
  <2>4. Wrap(y) \in 0 .. Below(DecimalBits) - 1 /\ Wrap(-y) \in 0 .. Below(DecimalBits) - 1
    BY <2>3, WrapType
  <2>5. x = Signed(y, l, r)
    BY DEF y
  <2> QED BY <2>4, <2>5 DEF Signed
<1> HIDE DEF x
<1>2. Assigned(p, OfDecimal(x)) \in VectorOf(n)
  BY <1>1, OfDecimalType, AssignedType
<1>3. Vector(Adopt(p, "unsigned"), ShiftAndAdd(n, l, r)) \in VectorOf(n)
  BY ShiftAndAddType, AdoptType, VectorType DEF SignTypes
<1>4. NoNumber(p) \in VectorOf(n) /\ Width(p) = n
  BY NoNumberType, VectorWidth
<1>5. \/ BinaryMul(p, l, r) = NoNumber(p)
      \/ BinaryMul(p, l, r) = Assigned(p, OfDecimal(x))
      \/ BinaryMul(p, l, r) = Vector(Adopt(p, "unsigned"), ShiftAndAdd(n, l, r))
  BY <1>4 DEF BinaryMul, x
<1> QED BY <1>2, <1>3, <1>4, <1>5

\* The next bit of the dividend, brought down.
Brought(rem, dend, i) == [Doubled(rem) EXCEPT ![1] = dend[i]]

\* One step of the long division, at bit i of the dividend.
DivisionStep(sgn, dend, dsor, i, prev) ==
  IF prev.fail \/ ~Known(IsLess(Vector(sgn, Brought(prev.rem, dend, i)), dsor))
  THEN [prev EXCEPT !.fail = TRUE]
  ELSE IF IsLess(Vector(sgn, Brought(prev.rem, dend, i)), dsor) = HI
           THEN [prev EXCEPT !.q[i] = LO, !.rem = Brought(prev.rem, dend, i)]
  ELSE [q |-> [prev.q EXCEPT ![i] = HI], fail |-> FALSE,
        rem |-> SubtractedFrom(Brought(prev.rem, dend, i), dsor.bits)]

\* The long division from the top of the dividend down.
DivisionOf(q, zero, dend, dsor) ==
  LET run[i \in 1 .. Len(dend) + 1] ==
        IF i > Len(dend)
        THEN [q |-> q, rem |-> zero.bits, fail |-> FALSE]
        ELSE DivisionStep(zero.sgn, dend, dsor, i, run[i + 1])
  IN  run

\* What it holds between two steps.
Quotients(n) == [q : [1 .. n -> Logic], rem : [1 .. n -> Logic], fail : BOOLEAN]

\* A step keeps the widths of the quotient and of the remainder.
LEMMA DivisionStepType ==
  ASSUME NEW n \in Nat \ {0}, NEW m \in Nat, NEW k \in Nat, NEW sgn,
         NEW dend \in [1 .. m -> Logic], NEW dsor \in VectorOf(k),
         NEW i \in 1 .. m, NEW prev \in Quotients(n)
  PROVE  DivisionStep(sgn, dend, dsor, i, prev) \in Quotients(n)
<1> DEFINE rem == Brought(prev.rem, dend, i)
<1>1. prev.q \in [1 .. n -> Logic] /\ prev.rem \in [1 .. n -> Logic] /\ prev.fail \in BOOLEAN
  BY DEF Quotients
<1>2. rem \in [1 .. n -> Logic]
  <2>1. Doubled(prev.rem) \in [1 .. n -> Logic]
    BY <1>1, DoubledType
  <2> QED BY <2>1 DEF Brought
<1> HIDE DEF rem
<1>3. SubtractedFrom(rem, dsor.bits) \in [1 .. n -> Logic]
  BY <1>2, VectorWidth, SubtractedFromType
<1>4. [prev EXCEPT !.fail = TRUE] \in Quotients(n)
  BY DEF Quotients
<1>5. [prev EXCEPT !.q[i] = LO, !.rem = rem] \in Quotients(n)
  <2>1. [prev.q EXCEPT ![i] = LO] \in [1 .. n -> Logic]
    BY <1>1 DEF Logic
  <2> QED BY <1>2, <2>1 DEF Quotients
<1>6. [q |-> [prev.q EXCEPT ![i] = HI], fail |-> FALSE, rem |-> SubtractedFrom(rem, dsor.bits)]
        \in Quotients(n)
  <2>1. [prev.q EXCEPT ![i] = HI] \in [1 .. n -> Logic]
    BY <1>1 DEF Logic
  <2> QED BY <1>3, <2>1 DEF Quotients
<1>7. \/ DivisionStep(sgn, dend, dsor, i, prev) = [prev EXCEPT !.fail = TRUE]
      \/ DivisionStep(sgn, dend, dsor, i, prev) = [prev EXCEPT !.q[i] = LO, !.rem = rem]
      \/ DivisionStep(sgn, dend, dsor, i, prev)
           = [q |-> [prev.q EXCEPT ![i] = HI], fail |-> FALSE,
              rem |-> SubtractedFrom(rem, dsor.bits)]
  BY Zenon DEF DivisionStep, rem
<1> QED BY <1>4, <1>5, <1>6, <1>7

\* run is a long division of m steps.
Divides(run, n, m, q, zero, dend, dsor) ==
  /\ run \in [1 .. m + 1 -> Quotients(n)]
  /\ run[m + 1] = [q |-> q, rem |-> zero.bits, fail |-> FALSE]
  /\ \A i \in 1 .. m : run[i] = DivisionStep(zero.sgn, dend, dsor, i, run[i + 1])

\* The long division takes these steps, one for each bit of the dividend.
LEMMA DivisionSteps ==
  ASSUME NEW n \in Nat \ {0}, NEW m \in Nat, NEW k \in Nat,
         NEW q \in [1 .. n -> Logic], NEW zero \in VectorOf(n),
         NEW dend \in [1 .. m -> Logic], NEW dsor \in VectorOf(k)
  PROVE  Divides(DivisionOf(q, zero, dend, dsor), n, m, q, zero, dend, dsor)
<1> DEFINE S == Quotients(n)
           next(i, x) == DivisionStep(zero.sgn, dend, dsor, i, x)
           G == [i \in 1 .. m |-> [x \in S |-> next(i, x)]]
           first == [q |-> q, rem |-> zero.bits, fail |-> FALSE]
           run == CHOOSE f : f = [i \in 1 .. Len(dend) + 1 |->
                    IF i > Len(dend) THEN first ELSE next(i, f[i + 1])]
<1>0. Len(dend) = m
  OBVIOUS
<1>1. G \in [1 .. m -> [S -> S]]
  <2>1. \A i \in 1 .. m : \A x \in S : next(i, x) \in S
    BY DivisionStepType
  <2> HIDE DEF next, S
  <2> QED BY <2>1
<1>2. first \in S
  BY VectorWidth DEF Quotients
<1>3. PICK f : StepsDown(f, m, S, first, G)
  <2> HIDE DEF G, S, first
  <2> QED BY <1>1, <1>2, RecursiveDown
<1> HIDE DEF next, first
<1>4. f = [i \in 1 .. Len(dend) + 1 |-> IF i > Len(dend) THEN first ELSE next(i, f[i + 1])]
  <2>1. ASSUME NEW i \in 1 .. m PROVE f[i] = next(i, f[i + 1])
    <3>1. f[i + 1] \in S /\ f[i] = G[i][f[i + 1]]
      <4>1. i + 1 \in 1 .. m + 1
        OBVIOUS
      <4> HIDE DEF S, G
      <4> QED BY <4>1, <1>3 DEF StepsDown
    <3> HIDE DEF S
    <3> QED BY <3>1
  <2>2. f \in [1 .. m + 1 -> S] /\ f[m + 1] = first
    BY <1>3 DEF StepsDown
  <2>3. \A i \in 1 .. m + 1 : (i > m <=> i = m + 1) /\ (~(i > m) <=> i \in 1 .. m)
    OBVIOUS
  <2> HIDE DEF G, S
  <2> QED BY <1>0, <2>1, <2>2, <2>3
<1>5. run = [i \in 1 .. Len(dend) + 1 |-> IF i > Len(dend) THEN first ELSE next(i, run[i + 1])]
  BY <1>4
<1>6. DivisionOf(q, zero, dend, dsor) = run
  BY DEF DivisionOf, next, first
<1> HIDE DEF run
<1>7. run[m + 1] = first /\ \A i \in 1 .. m : run[i] = next(i, run[i + 1])
  BY <1>0, <1>5
<1>8. StepsDown(run, m, S, first, G)
  <2>1. FunctionOn(run, 1 .. m + 1)
    BY <1>0, <1>5 DEF FunctionOn
  <2>2. \A i \in 1 .. m : run[i + 1] \in S => run[i] = G[i][run[i + 1]]
    <3> HIDE DEF S
    <3> QED BY <1>7
  <2> HIDE DEF G, S
  <2> QED BY <1>1, <1>2, <1>7, <2>1, <2>2, StepsDownOf
<1>9. run \in [1 .. m + 1 -> S]
  <2> HIDE DEF S, G
  <2> QED BY <1>8 DEF StepsDown
<1> QED BY <1>6, <1>7, <1>9 DEF next, first, Divides

\* What the long division makes of two vectors has the width of its results.
LEMMA ShiftAndSubtractType ==
  ASSUME NEW n \in Nat \ {0}, NEW m \in Nat \ {0}, NEW k \in Nat \ {0},
         NEW q \in [1 .. n -> Logic], NEW zero \in VectorOf(n),
         NEW l \in VectorOf(m), NEW r \in VectorOf(k)
  PROVE  /\ ShiftAndSubtract(q, zero, l, r) \in Quotients(n)
         /\ LET dend == Magnitude(Vector("unsigned", Filled(m, DC)), l).bits
                dsor == Magnitude(Vector("unsigned", Filled(k, DC)), r)
            IN  /\ dend \in [1 .. m -> Logic] /\ dsor \in VectorOf(k)
                /\ ShiftAndSubtract(q, zero, l, r) = DivisionOf(q, zero, dend, dsor)[1]
<1> DEFINE dend == Magnitude(Vector("unsigned", Filled(m, DC)), l).bits
           dsor == Magnitude(Vector("unsigned", Filled(k, DC)), r)
<1>1. Width(l) = m /\ Width(r) = k
  BY VectorWidth
<1>2. dend \in [1 .. m -> Logic]
  <2>1. Vector("unsigned", Filled(m, DC)) \in VectorOf(m)
    BY FilledType, VectorType DEF Logic, SignTypes
  <2>2. Magnitude(Vector("unsigned", Filled(m, DC)), l) \in VectorOf(m)
    BY <2>1, MagnitudeType
  <2> QED BY <2>2, VectorWidth
<1>3. dsor \in VectorOf(k)
  <2>1. Vector("unsigned", Filled(k, DC)) \in VectorOf(k)
    BY FilledType, VectorType DEF Logic, SignTypes
  <2> QED BY <2>1, MagnitudeType
<1>4. ShiftAndSubtract(q, zero, l, r) = DivisionOf(q, zero, dend, dsor)[1]
  BY <1>1 DEF ShiftAndSubtract, DivisionOf, DivisionStep, Brought
<1>5. ShiftAndSubtract(q, zero, l, r) \in Quotients(n)
  <2> HIDE DEF dend, dsor
  <2>1. 1 \in 1 .. m + 1
    OBVIOUS
  <2> DEFINE run == DivisionOf(q, zero, dend, dsor)
  <2>2. run \in [1 .. m + 1 -> Quotients(n)]
    BY <1>2, <1>3, DivisionSteps DEF Divides
  <2> HIDE DEF run
  <2>3. run[1] \in Quotients(n)
    BY <2>1, <2>2
  <2> QED BY <1>4, <2>3 DEF run
<1> QED BY <1>2, <1>3, <1>4, <1>5

\* Quotient and remainder have the width of the vectors they are put into.
LEMMA DivRemType ==
  ASSUME NEW n \in Nat \ {0}, NEW m \in Nat \ {0}, NEW k \in Nat \ {0},
         NEW q \in VectorOf(n), NEW rem \in VectorOf(n),
         NEW l \in VectorOf(m), NEW r \in VectorOf(k)
  PROVE  DivRem(q, rem, l, r).q \in VectorOf(n) /\ DivRem(q, rem, l, r).rem \in VectorOf(n)
<1> DEFINE long == ShiftAndSubtract(q.bits, rem, l, r)
           once == IF Negative(l) # Negative(r) THEN Negated(long.q) ELSE long.q
           twice == IF Negative(l) THEN Negated(once) ELSE once
           x == Signed(AbsDecimal(l) \div AbsDecimal(r), l, r)
           dend == IF Negative(l) THEN Wrap(-AbsDecimal(l)) ELSE AbsDecimal(l)
           y == dend % AbsDecimal(r)
           none == [q |-> NoNumber(q), rem |-> NoNumber(rem)]
           short == [q |-> Assigned(q, OfDecimal(x)), rem |-> Assigned(rem, OfDecimal(y))]
           full == [q |-> Vector(SumSign(q, l, r), twice), rem |-> Vector(l.sgn, long.rem)]
<1>1. AbsDecimal(l) \in 0 .. Below(DecimalBits) - 1 /\ AbsDecimal(r) \in 0 .. Below(DecimalBits) - 1
      /\ AbsDecimal(l) \in Nat /\ AbsDecimal(r) \in Nat
  BY AbsDecimalType
<1>2. NoNumber(q) \in VectorOf(n) /\ NoNumber(rem) \in VectorOf(n)
  BY NoNumberType
<1>3. ASSUME AbsDecimal(r) # 0
      PROVE  Assigned(q, OfDecimal(x)) \in VectorOf(n) /\ Assigned(rem, OfDecimal(y)) \in VectorOf(n)
  <2>1. x \in 0 .. Below(DecimalBits) - 1
    <3> DEFINE z == AbsDecimal(l) \div AbsDecimal(r)
    <3>1. z \in Int /\ -z \in Int
      BY <1>1, <1>3
    <3>2. x = Signed(z, l, r)
      OBVIOUS
    <3> HIDE DEF z, x
    <3>3. Wrap(z) \in 0 .. Below(DecimalBits) - 1 /\ Wrap(-z) \in 0 .. Below(DecimalBits) - 1
      BY <3>1, WrapType
    <3> QED BY <3>2, <3>3 DEF Signed
  <2>2. y \in 0 .. Below(DecimalBits) - 1
    <3>1. -AbsDecimal(l) \in Int
      BY <1>1
    <3>2. Below(DecimalBits) \in Nat
      BY LogicVectorAssumption, BelowProperties
    <3>3. dend \in Nat
      <4>1. Wrap(-AbsDecimal(l)) \in 0 .. Below(DecimalBits) - 1
        BY <3>1, WrapType
      <4> QED BY <1>1, <3>2, <4>1
    <3> HIDE DEF dend
    <3>4. y \in 0 .. AbsDecimal(r) - 1
      BY <1>1, <1>3, <3>3
    <3> QED BY <1>1, <3>2, <3>4
  <2> HIDE DEF x, y
  <2> QED BY <2>1, <2>2, OfDecimalType, AssignedType
<1>4. Vector(SumSign(q, l, r), twice) \in VectorOf(n) /\ Vector(l.sgn, long.rem) \in VectorOf(n)
  <2>1. q.bits \in [1 .. n -> Logic] /\ l.sgn \in SignTypes
    BY VectorWidth
  <2>2. long.q \in [1 .. n -> Logic] /\ long.rem \in [1 .. n -> Logic]
    <3>1. long \in Quotients(n)
      BY <2>1, ShiftAndSubtractType
    <3> HIDE DEF long
    <3> QED BY <3>1 DEF Quotients
  <2> HIDE DEF long
  <2>3. once \in [1 .. n -> Logic]
    BY <2>2, NegatedType
  <2> HIDE DEF once
  <2>4. twice \in [1 .. n -> Logic]
    BY <2>3, NegatedType
  <2> HIDE DEF twice
  <2> QED BY <2>1, <2>2, <2>4, SumSignType, VectorType
<1>5. \/ DivRem(q, rem, l, r) = none
      \/ AbsDecimal(r) # 0 /\ DivRem(q, rem, l, r) = short
      \/ DivRem(q, rem, l, r) = full
  BY Zenon DEF DivRem
<1> HIDE DEF x, y, twice, long
<1> QED BY <1>2, <1>3, <1>4, <1>5

\* The divisions clear what they put their results into.
LEMMA ClearedType ==
  ASSUME NEW n \in Nat \ {0}, NEW v \in VectorOf(n)
  PROVE  /\ Assigned(v, OfLogic(LO)) \in VectorOf(n)
         /\ Vector("unset", Assigned(v, OfLogic(LO)).bits) \in VectorOf(n)
<1>1. OfLogic(LO) \in VectorOf(1)
  BY OfLogicType DEF Logic
<1>2. Assigned(v, OfLogic(LO)) \in VectorOf(n)
  <2>1. 1 \in Nat \ {0}
    OBVIOUS
  <2> QED BY <1>1, <2>1, AssignedType
<1> QED BY <1>2, VectorWidth, VectorType DEF SignTypes

\* A quotient and a remainder have the width of the vector they are put into.
LEMMA BinaryDivModType ==
  ASSUME NEW n \in Nat \ {0}, NEW m \in Nat \ {0}, NEW k \in Nat \ {0},
         NEW v \in VectorOf(n), NEW l \in VectorOf(m), NEW r \in VectorOf(k)
  PROVE  BinaryDiv(v, l, r) \in VectorOf(n) /\ BinaryMod(v, l, r) \in VectorOf(n)
BY ClearedType, DivRemType DEF BinaryDiv, BinaryMod

\* A shift gives as many bits as are asked for.
LEMMA ShiftType ==
  ASSUME NEW n \in Nat \ {0}, NEW m \in Nat \ {0}, NEW k \in Nat \ {0},
         NEW l \in VectorOf(m), NEW r \in VectorOf(k)
  PROVE  BinaryLshf(n, l, r) \in [1 .. n -> Logic] /\ BinaryRshf(n, l, r) \in [1 .. n -> Logic]
<1>1. ToDecimal(r).val \in Nat /\ l.bits \in [1 .. m -> Logic]
  BY ToDecimalType, VectorWidth
<1> DEFINE c == ToDecimal(r).val
<1>2. \A i \in 1 .. n : i > c => At(l.bits, i - c) \in Logic
  <2> SUFFICES ASSUME NEW i \in 1 .. n, i > c PROVE At(l.bits, i - c) \in Logic
    OBVIOUS
  <2>1. i - c \in Nat \ {0}
    BY <1>1
  <2> DEFINE j == i - c
  <2> HIDE DEF j
  <2>2. At(l.bits, j) \in Logic
    BY <1>1, <2>1, AtType DEF j
  <2> QED BY <2>2 DEF j
<1>3. \A i \in 1 .. n : At(l.bits, i + c) \in Logic
  <2> SUFFICES ASSUME NEW i \in 1 .. n PROVE At(l.bits, i + c) \in Logic
    OBVIOUS
  <2> DEFINE j == i + c
  <2>1. j \in Nat \ {0}
    BY <1>1
  <2> HIDE DEF j
  <2>2. At(l.bits, j) \in Logic
    BY <1>1, <2>1, AtType
  <2> QED BY <2>2 DEF j
<1>4. LO \in Logic /\ DC \in Logic
  BY DEF Logic
<1> HIDE DEF c
<1>5. [i \in 1 .. n |-> IF ToDecimal(r).fail THEN DC ELSE IF i > c THEN At(l.bits, i - c) ELSE LO]
        \in [1 .. n -> Logic]
  BY <1>2, <1>4, Zenon
<1>6. [i \in 1 .. n |-> IF ToDecimal(r).fail THEN DC ELSE At(l.bits, i + c)] \in [1 .. n -> Logic]
  BY <1>3, <1>4, Zenon
<1> QED BY <1>5, <1>6, Zenon DEF BinaryLshf, BinaryRshf, c

-----------------------------------------------------------------------------
(***************************************************************************)
(* What known bits stand for.                                              *)
(***************************************************************************)

\* The number the lowest i bits stand for, for every i: it is below the i-th
\* power of two, and a bit adds the power of its place or nothing.
Prefixes(f, n, b) ==
  /\ f \in [0 .. n -> Nat] /\ f[0] = 0
  /\ \A i \in 1 .. n : (b[i] = LO => f[i] = f[i - 1]) /\ (b[i] = HI => f[i] = f[i - 1] + Below(i - 1))
  /\ \A i \in 0 .. n : f[i] < Below(i)
  /\ Unsigned(b) = f[n]

\* There are such numbers.
LEMMA PrefixesOf ==
  ASSUME NEW n \in Nat, NEW b \in [1 .. n -> {LO, HI}]
  PROVE  \E f : Prefixes(f, n, b)
<1>1. b \in [1 .. n -> Nat]
  OBVIOUS
<1>2. PICK f \in [0 .. n -> Nat] :
        /\ f[0] = 0 /\ (\A i \in 1 .. n : f[i] = f[i - 1] + b[i] * Below(i - 1))
        /\ Unsigned(b) = f[n]
  BY <1>1, UnsignedSteps
<1>3. ASSUME NEW i \in 1 .. n
      PROVE  (b[i] = LO => f[i] = f[i - 1]) /\ (b[i] = HI => f[i] = f[i - 1] + Below(i - 1))
  <2> DEFINE p == Below(i - 1)
  <2>1. f[i] = f[i - 1] + b[i] * p
    BY <1>2
  <2>2. p \in Nat
    <3>1. i - 1 \in Nat
      OBVIOUS
    <3> QED BY <3>1, BelowProperties
  <2>3. f[i - 1] \in Nat
    BY <1>2
  <2> HIDE DEF p
  <2>4. (b[i] = LO => f[i] = f[i - 1]) /\ (b[i] = HI => f[i] = f[i - 1] + p)
    BY <2>1, <2>2, <2>3
  <2> QED BY <2>4 DEF p
<1> DEFINE T == {i \in 0 .. n : f[i] < Below(i)}
<1>4. 0 \in T
  BY <1>2, BelowProperties
<1>5. ASSUME NEW i \in 1 .. n, i - 1 \in T PROVE i \in T
  <2> DEFINE j == i - 1
  <2>1. j \in Nat /\ j + 1 = i /\ f[j] \in Nat /\ f[j] < Below(j)
    BY <1>2, <1>5
  <2> HIDE DEF j
  <2>2. Below(j + 1) = 2 * Below(j) /\ Below(j) \in Nat
    BY <2>1, BelowProperties
  <2>3. f[i] = f[j] \/ f[i] = f[j] + Below(j)
    BY <1>3 DEF j
  <2>4. f[i] < Below(j + 1)
    <3> DEFINE x == f[j]
               y == Below(j)
    <3>1. x \in Nat /\ y \in Nat /\ x < y /\ (f[i] = x \/ f[i] = x + y) /\ Below(j + 1) = 2 * y
      BY <2>1, <2>2, <2>3
    <3> HIDE DEF x, y
    <3> QED BY <3>1
  <2>5. f[i] < Below(i)
    BY <2>1, <2>4
  <2> QED BY <2>5
<1>6. \A i \in 0 .. n : f[i] < Below(i)
  <2>1. \A i \in 1 .. n : i - 1 \in T => i \in T
    BY <1>5
  <2>2. \A i \in 0 .. n : i \in T
    <3> HIDE DEF T
    <3> QED BY <1>4, <2>1, InductUpTo
  <2> QED BY <2>2
<1>7. Prefixes(f, n, b)
  BY <1>2, <1>3, <1>6 DEF Prefixes
<1> QED BY <1>7

\* What n known bits stand for is below the n-th power of two.
LEMMA UnsignedRange ==
  ASSUME NEW n \in Nat, NEW b \in [1 .. n -> {LO, HI}]
  PROVE  Unsigned(b) \in Nat /\ Unsigned(b) < Below(n)
<1>1. PICK f : Prefixes(f, n, b)
  BY PrefixesOf
<1> QED BY <1>1 DEF Prefixes

\* The highest bit in which two numbers differ says which is less.
LEMMA TopDiffers ==
  ASSUME NEW n \in Nat, NEW a \in [1 .. n -> {LO, HI}], NEW b \in [1 .. n -> {LO, HI}],
         NEW t \in 1 .. n, a[t] = LO, b[t] = HI, \A i \in 1 .. n : t < i => a[i] = b[i]
  PROVE  Unsigned(a) < Unsigned(b)
<1>1. PICK f : Prefixes(f, n, a)
  BY PrefixesOf
<1>2. PICK g : Prefixes(g, n, b)
  BY PrefixesOf
<1> DEFINE T == {i \in 0 .. n : i < t \/ f[i] < g[i]}
<1>3. 0 \in T
  OBVIOUS
<1>4. ASSUME NEW i \in 1 .. n, i - 1 \in T PROVE i \in T
  <2>1. /\ f[i - 1] \in Nat /\ g[i - 1] \in Nat /\ f[i] \in Nat /\ g[i] \in Nat
        /\ f[i - 1] < Below(i - 1)
    BY <1>1, <1>2 DEF Prefixes
  <2>2. Below(i - 1) \in Nat
    <3>1. i - 1 \in Nat
      OBVIOUS
    <3> QED BY <3>1, BelowProperties
  <2>3. CASE i < t
    BY <2>3
  <2>4. CASE i = t
    <3>1. f[i] = f[i - 1] /\ g[i] = g[i - 1] + Below(i - 1)
      BY <1>1, <1>2, <2>4 DEF Prefixes
    <3>2. f[i] < g[i]
      BY <2>1, <2>2, <3>1
    <3> QED BY <3>2
  <2>5. CASE t < i
    <3>1. f[i - 1] < g[i - 1]
      BY <1>4, <2>5
    <3>2. a[i] = b[i] /\ a[i] \in {LO, HI}
      BY <2>5
    <3>3. (f[i] = f[i - 1] /\ g[i] = g[i - 1])
          \/ (f[i] = f[i - 1] + Below(i - 1) /\ g[i] = g[i - 1] + Below(i - 1))
      BY <1>1, <1>2, <3>2 DEF Prefixes
    <3>4. f[i] < g[i]
      BY <2>1, <2>2, <3>1, <3>3
    <3> QED BY <3>4
  <2> QED BY <2>3, <2>4, <2>5
<1>5. n \in T
  <2>1. \A i \in 1 .. n : i - 1 \in T => i \in T
    BY <1>4
  <2>2. \A i \in 0 .. n : i \in T
    <3> HIDE DEF T
    <3> QED BY <1>3, <2>1, InductUpTo
  <2>3. n \in 0 .. n
    OBVIOUS
  <2> HIDE DEF T
  <2> QED BY <2>2, <2>3
<1>6. f[n] < g[n]
  BY <1>5
<1> QED BY <1>1, <1>2, <1>6 DEF Prefixes

\* Known bits that stand for the same number are the same.
LEMMA SameNumber ==
  ASSUME NEW n \in Nat, NEW a \in [1 .. n -> {LO, HI}], NEW b \in [1 .. n -> {LO, HI}],
         Unsigned(a) = Unsigned(b)
  PROVE  a = b
<1> DEFINE D == {i \in 1 .. n : a[i] # b[i]}
<1> SUFFICES ASSUME D # {} PROVE FALSE
  OBVIOUS
<1>1. Last(D) \in D /\ \A j \in D : j <= Last(D)
  <2>1. D \subseteq 1 .. n
    OBVIOUS
  <2> HIDE DEF D
  <2> QED BY <2>1, LastOf
<1> DEFINE t == Last(D)
<1> HIDE DEF t
<1>2. t \in 1 .. n /\ a[t] # b[t] /\ \A i \in 1 .. n : t < i => a[i] = b[i]
  <2>1. t \in D /\ \A j \in D : j <= t
    BY <1>1 DEF t
  <2>2. \A i \in 1 .. n : t < i => ~(i <= t)
    BY <2>1
  <2> QED BY <2>1, <2>2
<1>3. \A i \in 1 .. n : t < i => b[i] = a[i]
  BY <1>2
<1>4. Unsigned(a) \in Nat /\ Unsigned(b) \in Nat
  BY UnsignedRange
<1>5. CASE a[t] = LO
  <2>1. b[t] = HI
    BY <1>2, <1>5
  <2>2. Unsigned(a) < Unsigned(b)
    BY <1>2, <1>5, <2>1, TopDiffers
  <2> QED BY <1>4, <2>2
<1>6. CASE a[t] = HI
  <2>1. b[t] = LO
    BY <1>2, <1>6
  <2>2. Unsigned(b) < Unsigned(a)
    BY <1>2, <1>3, <1>6, <2>1, TopDiffers
  <2> QED BY <1>4, <2>2
<1> QED BY <1>2, <1>5, <1>6

\* The bits of a vector, with zeros up to a width.
Padded(b, n) == [i \in 1 .. n |-> At(b, i)]

\* The zeros do not change the number.
LEMMA PaddedNumber ==
  ASSUME NEW n \in Nat, NEW m \in 0 .. n, NEW b \in [1 .. m -> {LO, HI}]
  PROVE  Padded(b, n) \in [1 .. n -> {LO, HI}] /\ Unsigned(Padded(b, n)) = Unsigned(b)
<1> DEFINE p == Padded(b, n)
<1>0. Len(b) = m /\ m \in Nat
  OBVIOUS
<1>1. p \in [1 .. n -> {LO, HI}]
  BY <1>0 DEF Padded, At
<1>2. \A i \in 1 .. n : (i <= m => p[i] = b[i]) /\ (m < i => p[i] = LO)
  BY <1>0 DEF Padded, At
<1> HIDE DEF p
<1>3. PICK f : Prefixes(f, m, b)
  BY <1>0, PrefixesOf
<1>4. PICK g : Prefixes(g, n, p)
  BY <1>1, PrefixesOf
<1> DEFINE T == {i \in 0 .. n : g[i] = IF i <= m THEN f[i] ELSE f[m]}
<1>5. 0 \in T
  BY <1>3, <1>4 DEF Prefixes
<1>6. ASSUME NEW i \in 1 .. n, i - 1 \in T PROVE i \in T
  <2>1. CASE i <= m
    <3>1. i \in 1 .. m /\ g[i - 1] = f[i - 1] /\ p[i] = b[i] /\ b[i] \in {LO, HI}
      BY <1>2, <1>6, <2>1
    <3>2. g[i] = f[i]
      BY <1>3, <1>4, <3>1 DEF Prefixes
    <3> QED BY <2>1, <3>2
  <2>2. CASE m < i
    <3>1. g[i - 1] = f[m] /\ p[i] = LO
      BY <1>2, <1>6, <2>2
    <3>2. g[i] = f[m]
      BY <1>4, <3>1 DEF Prefixes
    <3> QED BY <2>2, <3>2
  <2> QED BY <2>1, <2>2
<1>7. n \in T
  <2>1. \A i \in 1 .. n : i - 1 \in T => i \in T
    BY <1>6
  <2>2. \A i \in 0 .. n : i \in T
    <3> HIDE DEF T
    <3> QED BY <1>5, <2>1, InductUpTo
  <2>3. n \in 0 .. n
    OBVIOUS
  <2> HIDE DEF T
  <2> QED BY <2>2, <2>3
<1>8. g[n] = f[m]
  BY <1>7
<1> QED BY <1>1, <1>3, <1>4, <1>8 DEF Prefixes, p

\* The order of two known vectors is that of the numbers of their bits, but
\* where only one of them is negative.
LEMMA LessKnown ==
  ASSUME NEW m \in Nat \ {0}, NEW k \in Nat \ {0}, NEW l \in VectorOf(m), NEW r \in VectorOf(k),
         AllKnown(l.bits), AllKnown(r.bits)
  PROVE  /\ IsLess(l, r) \in {LO, HI}
         /\ IsLess(l, r) = HI <=>
              \/ Negative(l) /\ NotNegative(r)
              \/ /\ ~(Negative(l) /\ NotNegative(r))
                 /\ ~(~Negative(l) /\ Negative(r) /\ NotNegative(l))
                 /\ Unsigned(l.bits) < Unsigned(r.bits)
<1> DEFINE n == IF Width(l) > Width(r) THEN Width(l) ELSE Width(r)
           a == Padded(l.bits, n)
           b == Padded(r.bits, n)
           stops == {i \in 1 .. n : Less(At(l.bits, i), At(r.bits, i)) # Z}
<1>1. /\ Width(l) = m /\ Width(r) = k /\ n \in Nat /\ m \in 0 .. n /\ k \in 0 .. n
      /\ l.bits \in [1 .. m -> {LO, HI}] /\ r.bits \in [1 .. k -> {LO, HI}]
  BY VectorWidth DEF AllKnown, Known
<1> HIDE DEF n
<1>2. /\ a \in [1 .. n -> {LO, HI}] /\ Unsigned(a) = Unsigned(l.bits)
      /\ b \in [1 .. n -> {LO, HI}] /\ Unsigned(b) = Unsigned(r.bits)
  BY <1>1, PaddedNumber
<1>3. \A i \in 1 .. n : a[i] = At(l.bits, i) /\ b[i] = At(r.bits, i)
  BY DEF Padded
<1> HIDE DEF a, b
<1>4. stops = {i \in 1 .. n : a[i] # b[i]}
  <2>1. \A i \in 1 .. n : Less(a[i], b[i]) # Z <=> a[i] # b[i]
    BY <1>2 DEF Less, Known
  <2> QED BY <1>3, <2>1
<1>5. Unsigned(a) \in Nat /\ Unsigned(b) \in Nat
  BY <1>1, <1>2, UnsignedRange
<1> HIDE DEF stops
<1> DEFINE low == IF stops = {} THEN LO ELSE Less(At(l.bits, Last(stops)), At(r.bits, Last(stops)))
<1>6. low \in {LO, HI} /\ (low = HI <=> Unsigned(a) < Unsigned(b))
  <2>1. CASE stops = {}
    <3>1. \A i \in 1 .. n : a[i] = b[i]
      BY <1>4, <2>1
    <3>2. a = b
      <4>1. a = [i \in 1 .. n |-> a[i]] /\ b = [i \in 1 .. n |-> b[i]]
        BY <1>2
      <4>2. [i \in 1 .. n |-> a[i]] = [i \in 1 .. n |-> b[i]]
        BY <3>1, Zenon
      <4> QED BY <4>1, <4>2, Zenon
    <3>3. low = LO
      BY <2>1
    <3> QED BY <1>5, <3>2, <3>3
  <2>2. CASE stops # {}
    <3>1. Last(stops) \in stops /\ \A j \in stops : j <= Last(stops)
      <4>1. stops \subseteq 1 .. n
        BY DEF stops
      <4> QED BY <1>1, <2>2, <4>1, LastOf
    <3> DEFINE t == Last(stops)
    <3>2. t \in 1 .. n /\ a[t] # b[t] /\ (\A i \in 1 .. n : t < i => a[i] = b[i]) /\ low = Less(a[t], b[t])
      <4>1. t \in stops /\ (\A j \in stops : j <= t) /\ low = Less(At(l.bits, t), At(r.bits, t))
        BY <2>2, <3>1
      <4> HIDE DEF t, low
      <4>2. t \in 1 .. n /\ a[t] # b[t] /\ low = Less(a[t], b[t])
        BY <1>3, <1>4, <4>1
      <4>3. \A i \in 1 .. n : t < i => a[i] = b[i]
        <5>1. \A i \in 1 .. n : t < i => i \notin stops
          BY <4>1, <4>2
        <5> QED BY <1>4, <5>1
      <4> QED BY <4>2, <4>3
    <3> HIDE DEF t, low
    <3>3. a[t] \in {LO, HI} /\ b[t] \in {LO, HI}
      BY <1>2, <3>2
    <3>4. CASE a[t] = LO
      <4>1. b[t] = HI /\ low = HI
        BY <3>2, <3>3, <3>4 DEF Less, Known
      <4>2. Unsigned(a) < Unsigned(b)
        BY <1>1, <1>2, <3>2, <3>4, <4>1, TopDiffers
      <4> QED BY <4>1, <4>2
    <3>5. CASE a[t] = HI
      <4>1. b[t] = LO /\ low = LO
        BY <3>2, <3>3, <3>5 DEF Less, Known
      <4>2. Unsigned(b) < Unsigned(a)
        <5>1. \A i \in 1 .. n : t < i => b[i] = a[i]
          BY <3>2
        <5> QED BY <1>1, <1>2, <3>2, <3>5, <4>1, <5>1, TopDiffers
      <4> QED BY <1>5, <4>1, <4>2
    <3> QED BY <3>3, <3>4, <3>5
  <2> QED BY <2>1, <2>2
<1>7. IsLess(l, r) = IF Negative(l) /\ NotNegative(r) THEN HI
                     ELSE IF ~Negative(l) /\ Negative(r) /\ NotNegative(l) THEN LO
                     ELSE low
  BY Zenon DEF IsLess, n, stops
<1> HIDE DEF low
<1>8. CASE Negative(l) /\ NotNegative(r)
  BY <1>7, <1>8
<1>9. CASE ~(Negative(l) /\ NotNegative(r)) /\ ~Negative(l) /\ Negative(r) /\ NotNegative(l)
  BY <1>7, <1>9
<1>10. CASE /\ ~(Negative(l) /\ NotNegative(r))
            /\ ~(~Negative(l) /\ Negative(r) /\ NotNegative(l))
  BY <1>2, <1>6, <1>7, <1>10
<1> QED BY <1>8, <1>9, <1>10

\* Bit i of b, or what stands for it.
BitOr(b, i, pad) == IF i <= Len(b) THEN b[i] ELSE pad
WiderOf(l, r) == IF Width(l) > Width(r) THEN Width(l) ELSE Width(r)

\* Equal vectors are known and the same in every bit, those the shorter one
\* lacks included, identical ones are the same, and a bit that is ignored
\* matches whatever there is.
LEMMA Matches ==
  ASSUME NEW m \in Nat \ {0}, NEW k \in Nat \ {0}, NEW l \in VectorOf(m), NEW r \in VectorOf(k)
  PROVE  LET n == WiderOf(l, r)
             at(v, i) == BitOr(v.bits, i, PadOf(l, r))
             plain(v, i) == BitOr(v.bits, i, LO)
         IN  /\ IsEqual(l, r) = HI <=> \A i \in 1 .. n : at(l, i) = at(r, i) /\ Known(at(l, i))
             /\ CompareC(l, r) = HI <=> \A i \in 1 .. n : at(l, i) = at(r, i)
             /\ CompareZ(l, r) = HI <=> \A i \in 1 .. n : EqualBut({Z}, plain(l, i), plain(r, i)) = HI
             /\ CompareX(l, r) = HI <=>
                  \A i \in 1 .. n : EqualBut({DC, Z}, plain(l, i), plain(r, i)) = HI
<1> DEFINE a == l.bits
           b == r.bits
           n == IF Len(a) > Len(b) THEN Len(a) ELSE Len(b)
           at(c, i, pad) == IF i <= Len(c) THEN c[i] ELSE pad
           pad == PadOf(l, r)
<1>1. /\ Len(a) = m /\ Len(b) = k /\ a \in [1 .. m -> Logic] /\ b \in [1 .. k -> Logic]
      /\ n \in Nat /\ n = WiderOf(l, r)
  <2>1. /\ Len(a) = m /\ Len(b) = k /\ a \in [1 .. m -> Logic] /\ b \in [1 .. k -> Logic]
    BY VectorWidth DEF Width
  <2> QED BY <2>1 DEF WiderOf, Width
<1>2. pad \in Logic
  <2>1. Top(l) \in Logic /\ Top(r) \in Logic
    BY <1>1 DEF Top, Width
  <2> QED BY <2>1 DEF PadOf, Logic
<1>3. \A i \in 1 .. n : \A p \in Logic : at(a, i, p) \in Logic /\ at(b, i, p) \in Logic
  BY <1>1
<1> HIDE DEF a, b, pad
<1>4. IsEqual(l, r) = HI <=> \A i \in 1 .. n : Equal(at(a, i, pad), at(b, i, pad)) = HI
  <2> DEFINE stops == {i \in 1 .. n : Equal(at(a, i, pad), at(b, i, pad)) # HI}
  <2>1. IsEqual(l, r) = IF stops = {} THEN HI
          ELSE Equal(at(a, First(stops), pad), at(b, First(stops), pad))
    BY Zenon DEF IsEqual, CompareForward, a, b, pad
  <2>2. stops # {} => First(stops) \in stops
    <3>1. stops \subseteq Nat
      BY <1>1
    <3> HIDE DEF stops
    <3> QED BY <3>1, FirstOf
  <2>3. \A i : i \in stops <=> i \in 1 .. n /\ Equal(at(a, i, pad), at(b, i, pad)) # HI
    OBVIOUS
  <2> HIDE DEF at, n, stops
  <2>4. IsEqual(l, r) = HI => stops = {}
    BY <2>1, <2>2, <2>3
  <2>5. stops = {} => IsEqual(l, r) = HI
    BY <2>1
  <2> QED BY <2>3, <2>4, <2>5
<1>5. CompareC(l, r) = HI <=> \A i \in 1 .. n : EqualCase(at(a, i, pad), at(b, i, pad)) = HI
  <2> DEFINE stops == {i \in 1 .. n : EqualCase(at(a, i, pad), at(b, i, pad)) # HI}
  <2>1. CompareC(l, r) = IF stops = {} THEN HI
          ELSE EqualCase(at(a, First(stops), pad), at(b, First(stops), pad))
    BY Zenon DEF CompareC, CompareForward, a, b, pad
  <2>2. stops # {} => First(stops) \in stops
    <3>1. stops \subseteq Nat
      BY <1>1
    <3> HIDE DEF stops
    <3> QED BY <3>1, FirstOf
  <2>3. \A i : i \in stops <=> i \in 1 .. n /\ EqualCase(at(a, i, pad), at(b, i, pad)) # HI
    OBVIOUS
  <2> HIDE DEF at, n, stops
  <2>4. CompareC(l, r) = HI => stops = {}
    BY <2>1, <2>2, <2>3
  <2>5. stops = {} => CompareC(l, r) = HI
    BY <2>1
  <2> QED BY <2>3, <2>4, <2>5
<1>6. CompareZ(l, r) = HI <=> \A i \in 1 .. n : EqualBut({Z}, at(a, i, LO), at(b, i, LO)) = HI
  <2> DEFINE stops == {i \in 1 .. n : EqualBut({Z}, at(a, i, LO), at(b, i, LO)) # HI}
  <2>1. CompareZ(l, r) = IF stops = {} THEN HI
          ELSE EqualBut({Z}, at(a, First(stops), LO), at(b, First(stops), LO))
    BY Zenon DEF CompareZ, CompareForward, a, b, pad
  <2>2. stops # {} => First(stops) \in stops
    <3>1. stops \subseteq Nat
      BY <1>1
    <3> HIDE DEF stops
    <3> QED BY <3>1, FirstOf
  <2>3. \A i : i \in stops <=> i \in 1 .. n /\ EqualBut({Z}, at(a, i, LO), at(b, i, LO)) # HI
    OBVIOUS
  <2> HIDE DEF at, n, stops
  <2>4. CompareZ(l, r) = HI => stops = {}
    BY <2>1, <2>2, <2>3
  <2>5. stops = {} => CompareZ(l, r) = HI
    BY <2>1
  <2> QED BY <2>3, <2>4, <2>5
<1>7. CompareX(l, r) = HI <=> \A i \in 1 .. n : EqualBut({DC, Z}, at(a, i, LO), at(b, i, LO)) = HI
  <2> DEFINE stops == {i \in 1 .. n : EqualBut({DC, Z}, at(a, i, LO), at(b, i, LO)) # HI}
  <2>1. CompareX(l, r) = IF stops = {} THEN HI
          ELSE EqualBut({DC, Z}, at(a, First(stops), LO), at(b, First(stops), LO))
    BY Zenon DEF CompareX, CompareForward, a, b, pad
  <2>2. stops # {} => First(stops) \in stops
    <3>1. stops \subseteq Nat
      BY <1>1
    <3> HIDE DEF stops
    <3> QED BY <3>1, FirstOf
  <2>3. \A i : i \in stops <=> i \in 1 .. n /\ EqualBut({DC, Z}, at(a, i, LO), at(b, i, LO)) # HI
    OBVIOUS
  <2> HIDE DEF at, n, stops
  <2>4. CompareX(l, r) = HI => stops = {}
    BY <2>1, <2>2, <2>3
  <2>5. stops = {} => CompareX(l, r) = HI
    BY <2>1
  <2> QED BY <2>3, <2>4, <2>5
<1>8. \A x, y \in Logic : /\ Equal(x, y) = HI <=> x = y /\ Known(x)
                          /\ EqualCase(x, y) = HI <=> x = y
  BY DEF Equal, EqualCase, Inv, Xor, Known, Logic
<1>9. \A i \in 1 .. n :
        /\ Equal(at(a, i, pad), at(b, i, pad)) = HI
             <=> at(a, i, pad) = at(b, i, pad) /\ Known(at(a, i, pad))
        /\ EqualCase(at(a, i, pad), at(b, i, pad)) = HI <=> at(a, i, pad) = at(b, i, pad)
  <2> HIDE DEF at, n
  <2> QED BY <1>2, <1>3, <1>8
<1>10. \A i, p : at(a, i, p) = BitOr(l.bits, i, p) /\ at(b, i, p) = BitOr(r.bits, i, p)
  BY DEF BitOr, a, b
<1> HIDE DEF at, n
<1> QED BY <1>1, <1>4, <1>5, <1>6, <1>7, <1>9, <1>10 DEF pad

\* Never is each of two vectors less than the other.
LEMMA LessOneWay ==
  ASSUME NEW m \in Nat \ {0}, NEW k \in Nat \ {0}, NEW l \in VectorOf(m), NEW r \in VectorOf(k)
  PROVE  ~(IsLess(l, r) = HI /\ IsLess(r, l) = HI)
<1> SUFFICES ASSUME IsLess(l, r) = HI, IsLess(r, l) = HI PROVE FALSE
  OBVIOUS
<1> DEFINE n == IF Width(l) > Width(r) THEN Width(l) ELSE Width(r)
           o == IF Width(r) > Width(l) THEN Width(r) ELSE Width(l)
           stops == {i \in 1 .. n : Less(At(l.bits, i), At(r.bits, i)) # Z}
           back == {i \in 1 .. o : Less(At(r.bits, i), At(l.bits, i)) # Z}
           low == IF stops = {} THEN LO ELSE Less(At(l.bits, Last(stops)), At(r.bits, Last(stops)))
           high == IF back = {} THEN LO ELSE Less(At(r.bits, Last(back)), At(l.bits, Last(back)))
           known(c) == IF AllKnown(l.bits) /\ AllKnown(r.bits) THEN c ELSE DC
           same(c) == IF AllKnown(r.bits) /\ AllKnown(l.bits) THEN c ELSE DC
<1>1. IsLess(l, r) = IF Negative(l) /\ NotNegative(r) THEN known(HI)
                     ELSE IF ~Negative(l) /\ Negative(r) /\ NotNegative(l) THEN known(LO)
                     ELSE low
  BY Zenon DEF IsLess
<1>2. IsLess(r, l) = IF Negative(r) /\ NotNegative(l) THEN same(HI)
                     ELSE IF ~Negative(r) /\ Negative(l) /\ NotNegative(r) THEN same(LO)
                     ELSE high
  BY Zenon DEF IsLess
<1>3. n = o
  BY VectorWidth
<1>4. stops = back
  <2>1. \A a, b : Less(a, b) # Z <=> Less(b, a) # Z
    BY DEF Less
  <2> HIDE DEF n, o
  <2> QED BY <1>3, <2>1
<1>5. /\ known(LO) # HI /\ same(LO) # HI
      /\ ~(Negative(l) /\ NotNegative(l)) /\ ~(Negative(r) /\ NotNegative(r))
  BY DEF Negative, NotNegative
<1> HIDE DEF stops, back
<1>6. low = HI /\ high = HI
  <2> HIDE DEF low, high, known, same
  <2> QED BY <1>1, <1>2, <1>5
<1>7. \E a, b : Less(a, b) = HI /\ Less(b, a) = HI
  BY <1>4, <1>6
<1>8. \A a, b : ~(Less(a, b) = HI /\ Less(b, a) = HI)
  BY DEF Less, Known
<1> QED BY <1>7, <1>8

-----------------------------------------------------------------------------
(***************************************************************************)
(* The long division takes a remainder of either sign, since the remainder *)
(* never fills its vector.                                                 *)
(***************************************************************************)

\* Known bits of which only the lowest c are one stand for less than 2^c.
LEMMA HighZeros ==
  ASSUME NEW n \in Nat, NEW c \in 0 .. n, NEW b \in [1 .. n -> {LO, HI}],
         \A i \in 1 .. n : c < i => b[i] = LO
  PROVE  Unsigned(b) < Below(c)
<1>1. PICK f : Prefixes(f, n, b)
  BY PrefixesOf
<1> DEFINE T == {i \in 0 .. n : c <= i => f[i] = f[c]}
<1>2. 0 \in T
  OBVIOUS
<1>3. \A i \in 1 .. n : i - 1 \in T => i \in T
  <2> SUFFICES ASSUME NEW i \in 1 .. n, i - 1 \in T PROVE i \in T
    OBVIOUS
  <2>1. CASE c < i
    <3>1. c <= i - 1 /\ f[i - 1] = f[c] /\ b[i] = LO
      BY <2>1
    <3>2. f[i] = f[i - 1]
      BY <1>1, <3>1 DEF Prefixes
    <3> QED BY <3>1, <3>2
  <2>2. CASE i <= c
    BY <2>2
  <2> QED BY <2>1, <2>2
<1>4. f[n] = f[c]
  <2>1. \A i \in 0 .. n : i \in T
    <3> HIDE DEF T
    <3> QED BY <1>2, <1>3, InductUpTo
  <2>2. n \in 0 .. n /\ c <= n
    OBVIOUS
  <2> QED BY <2>1, <2>2
<1> QED BY <1>1, <1>4 DEF Prefixes

\* A number below 2^c has only zeros above its lowest c bits.
LEMMA SmallHasZeros ==
  ASSUME NEW n \in Nat, NEW c \in 0 .. n, NEW x \in Nat, x < Below(c),
         NEW i \in 1 .. n, c < i
  PROVE  Bits(x, n)[i] = LO
<1> DEFINE p == Below(i - 1)
<1>1. Bits(x, n)[i] = (x \div p) % 2
  BY DEF Bits
<1>2. p \in Nat \ {0} /\ Below(c) \in Nat /\ Below(c) <= p
  <2> DEFINE j == i - 1
  <2>1. c \in Nat /\ j \in Nat /\ c <= j
    OBVIOUS
  <2> HIDE DEF j
  <2>2. Below(j) \in Nat \ {0} /\ Below(c) \in Nat /\ Below(c) <= Below(j)
    BY <2>1, BelowProperties, BelowMonotone
  <2> QED BY <2>2 DEF j
<1> HIDE DEF p
<1>3. x \div p = 0
  BY <1>2
<1> QED BY <1>1, <1>3

\* How n bits compare with others, from the top.
Ordered(a, b, n) ==
  LET stops == {i \in 1 .. n : Less(At(a, i), At(b, i)) # Z}
  IN  IF stops = {} THEN LO ELSE Less(At(a, Last(stops)), At(b, Last(stops)))

\* The sign of a number whose top bit is not set does not matter where it is
\* compared with an unsigned one.
LEMMA SignNotLooked ==
  ASSUME NEW n \in Nat \ {0}, NEW k \in 1 .. n, NEW rem \in [1 .. n -> Logic],
         NEW d \in VectorOf(k), d.sgn = "unsigned", NEW sgn, rem[n] # HI \/ sgn # "signed"
  PROVE  IsLess(Vector(sgn, rem), d) = Ordered(rem, d.bits, n)
<1> DEFINE v == Vector(sgn, rem)
           stops == {i \in 1 .. n : Less(At(rem, i), At(d.bits, i)) # Z}
           wide == IF Width(v) > Width(d) THEN Width(v) ELSE Width(d)
<1>1. v.bits = rem /\ v.sgn = sgn /\ Width(v) = n /\ Width(d) = k
  BY VectorWidth DEF Vector, Width
<1>2. ~Negative(v) /\ ~Negative(d)
  BY <1>1 DEF Negative, Top
<1>3. wide = n
  BY <1>1
<1> HIDE DEF v
<1>4. IsLess(v, d) = IF stops = {} THEN LO ELSE Less(At(v.bits, Last(stops)), At(d.bits, Last(stops)))
  <2>1. stops = {i \in 1 .. wide : Less(At(v.bits, i), At(d.bits, i)) # Z}
    BY <1>1, <1>3
  <2> HIDE DEF stops
  <2> QED BY <1>2, <2>1, Zenon DEF IsLess
<1> QED BY <1>1, <1>4, Zenon DEF v, Ordered

\* No bit above the lowest c is set.
Short(b, n, c) == \A i \in 1 .. n : c < i => b[i] # HI

\* What is subtracted from a remainder of c bits leaves no bit above them set:
\* the difference is of c bits too, or unknown from the first stray bit on.
LEMMA SubtractedLow ==
  ASSUME NEW n \in Nat \ {0}, NEW k \in 1 .. n, NEW c \in 0 .. n,
         NEW rem \in [1 .. n -> Logic], NEW d \in VectorOf(k), d.sgn = "unsigned",
         Short(rem, n, c), IsLess(Vector("unsigned", rem), d) = LO
  PROVE  Short(SubtractedFrom(rem, d.bits), n, c)
<1> USE DEF Short
<1> DEFINE b == d.bits
           e == Padded(b, n)
           stops == {i \in 1 .. n : Less(At(rem, i), At(b, i)) # Z}
           stray == {i \in 1 .. n : ~Known(rem[i]) \/ ~Known(At(b, i))}
           end == First(stray \cup {n + 1})
           low == Difference(SubSeq(rem, 1, end - 1), b, end - 1)
<1>1. b \in [1 .. k -> Logic] /\ Len(rem) = n /\ Len(b) = k /\ k \in Nat \ {0} /\ b = d.bits
  BY VectorWidth DEF Width
<1>2. (IF stops = {} THEN LO ELSE Less(At(rem, Last(stops)), At(b, Last(stops)))) = LO
  <2>1. IsLess(Vector("unsigned", rem), d)
          = IF stops = {} THEN LO ELSE Less(At(rem, Last(stops)), At(b, Last(stops)))
    <3>1. IsLess(Vector("unsigned", rem), d) = Ordered(rem, d.bits, n)
      BY SignNotLooked
    <3> QED BY <3>1, Zenon DEF Ordered
  <2> HIDE DEF stops
  <2> QED BY <2>1
<1>3. SubtractedFrom(rem, b) = [i \in 1 .. n |-> IF i < end THEN low[i] ELSE DC]
  BY <1>1 DEF SubtractedFrom
<1>4. \A i \in 1 .. n : At(rem, i) = rem[i] /\ e[i] = At(b, i)
  BY <1>1 DEF At, Padded
<1> HIDE DEF b, e
<1>5. ASSUME stops # {}
      PROVE  \E t \in 1 .. n : /\ rem[t] = HI /\ e[t] = LO
                               /\ \A i \in 1 .. n : t < i => rem[i] = e[i] /\ i \notin stray
                               /\ t \notin stray
  <2> DEFINE t == Last(stops)
  <2>1. t \in stops /\ \A j \in stops : j <= t
    <3>1. stops \subseteq 1 .. n
      OBVIOUS
    <3> HIDE DEF stops
    <3> QED BY <1>5, <3>1, LastOf
  <2>2. Less(At(rem, t), At(b, t)) = LO
    <3> HIDE DEF stops
    <3> QED BY <1>2, <1>5
  <2> HIDE DEF t
  <2>3. t \in 1 .. n /\ Less(rem[t], e[t]) = LO
    BY <1>4, <2>1, <2>2
  <2>4. rem[t] = HI /\ e[t] = LO
    BY <2>3 DEF Less, Known
  <2>5. ASSUME NEW i \in 1 .. n, t < i PROVE rem[i] = e[i] /\ i \notin stray
    <3>1. Less(rem[i], e[i]) = Z
      <4>1. i \notin stops
        BY <2>1, <2>3, <2>5
      <4> QED BY <1>4, <4>1
    <3>2. rem[i] = e[i] /\ Known(rem[i]) /\ Known(e[i])
      BY <3>1 DEF Less
    <3> QED BY <1>4, <3>2
  <2>6. t \notin stray
    BY <1>4, <2>3, <2>4 DEF Known
  <2> QED BY <2>3, <2>4, <2>5, <2>6
<1>6. stops = {} => \A i \in 1 .. n : rem[i] = e[i] /\ i \notin stray
  <2> SUFFICES ASSUME stops = {}, NEW i \in 1 .. n PROVE rem[i] = e[i] /\ i \notin stray
    OBVIOUS
  <2>1. Less(rem[i], e[i]) = Z
    BY <1>4
  <2>2. rem[i] = e[i] /\ Known(rem[i]) /\ Known(e[i])
    BY <2>1 DEF Less
  <2> QED BY <1>4, <2>2
<1>7. end \in stray \cup {n + 1} /\ \A j \in stray : end <= j
  <2>1. stray \cup {n + 1} \subseteq Nat /\ stray \cup {n + 1} # {}
    OBVIOUS
  <2> HIDE DEF stray
  <2> QED BY <2>1, FirstOf
<1> HIDE DEF stops
<1>8. CASE stray # {}
  <2>1. PICK t \in 1 .. n : /\ rem[t] = HI
                            /\ \A i \in 1 .. n : t < i => i \notin stray
                            /\ t \notin stray
    <3>1. stops # {}
      BY <1>6, <1>8
    <3> QED BY <1>5, <3>1
  <2>2. t <= c
    BY <2>1
  <2>3. end < t
    <3>1. end \in 1 .. n /\ end \in stray
      BY <1>7, <1>8
    <3> HIDE DEF end, stray
    <3> QED BY <2>1, <3>1
  <2>4. end \in Nat
    BY <1>7
  <2> HIDE DEF end, low
  <2> QED BY <1>1, <1>3, <2>2, <2>3, <2>4
<1>9. CASE stray = {}
  <2>1. end = n + 1
    <3> HIDE DEF end, stray
    <3> QED BY <1>7, <1>9
  <2> DEFINE x == Unsigned(rem)
             y == Unsigned(e)
             p == Below(n)
  <2>2. rem \in [1 .. n -> {LO, HI}] /\ e \in [1 .. n -> {LO, HI}]
    <3>1. \A i \in 1 .. n : Known(rem[i]) /\ Known(e[i])
      BY <1>4, <1>9
    <3>2. rem = [i \in 1 .. n |-> rem[i]] /\ e = [i \in 1 .. n |-> e[i]]
      BY DEF Padded, e
    <3> QED BY <3>1, <3>2 DEF Known
  <2>3. x \in Nat /\ y \in Nat /\ p \in Nat /\ x < p
    BY <2>2, UnsignedRange, BelowProperties
  <2>4. y <= x
    <3>1. CASE stops = {}
      <4>1. rem = e
        <5>1. rem = [i \in 1 .. n |-> rem[i]] /\ e = [i \in 1 .. n |-> e[i]]
          BY <2>2
        <5>2. [i \in 1 .. n |-> rem[i]] = [i \in 1 .. n |-> e[i]]
          BY <1>6, <3>1, Zenon
        <5> QED BY <5>1, <5>2, Zenon
      <4> QED BY <2>3, <4>1
    <3>2. CASE stops # {}
      <4>1. PICK t \in 1 .. n : rem[t] = HI /\ e[t] = LO /\ \A i \in 1 .. n : t < i => e[i] = rem[i]
        BY <1>5, <3>2
      <4>2. y < x
        BY <2>2, <4>1, TopDiffers
      <4> HIDE DEF x, y
      <4> QED BY <2>3, <4>2
    <3> QED BY <3>1, <3>2
  <2>5. x < Below(c)
    <3>1. \A i \in 1 .. n : c < i => rem[i] = LO
      BY <2>2
    <3> QED BY <2>2, <3>1, HighZeros
  <2>6. low = Bits((x - y) % p, n)
    <3>1. end - 1 = n
      BY <2>1
    <3>2. SubSeq(rem, 1, n) = rem
      BY <1>1
    <3>3. [i \in 1 .. n |-> At(rem, i)] = rem
      BY <1>4
    <3>4. [i \in 1 .. n |-> At(b, i)] = e
      BY DEF e, Padded
    <3>5. low = Difference(rem, b, n)
      <4> HIDE DEF end
      <4> QED BY <3>1, <3>2
    <3> QED BY <3>3, <3>4, <3>5, Zenon DEF Difference
  <2>7. (x - y) % p = x - y /\ x - y \in Nat /\ x - y < Below(c)
    <3>1. Below(c) \in Nat
      <4>1. c \in Nat
        OBVIOUS
      <4> QED BY <4>1, BelowProperties
    <3> HIDE DEF x, y, p
    <3> QED BY <2>3, <2>4, <2>5, <3>1
  <2> HIDE DEF x, y, p, low, end
  <2>8. \A i \in 1 .. n : c < i => low[i] = LO
    BY <2>6, <2>7, SmallHasZeros
  <2> QED BY <1>1, <1>3, <2>1, <2>8
<1> QED BY <1>8, <1>9

\* Where the dividend leaves a bit of the remainder free: it is shorter, or its
\* first bit is not set.
Spare(n, m, dend, more) ==
  \/ more = 1 /\ m < n
  \/ more = 0 /\ dend[m] # HI

\* A state of the long division with the remainder in the c lowest bits.
Fits(x, n, c) == x.fail \/ Short(x.rem, n, c)

\* The step at bit i of the dividend makes the remainder one bit longer, c bits.
Lengthens(n, m, k, more, dend, dsor, i, c, prev) ==
  /\ n \in Nat \ {0} /\ m \in 1 .. n /\ k \in 1 .. n /\ more \in {0, 1}
  /\ dend \in [1 .. m -> Logic] /\ dsor \in VectorOf(k) /\ dsor.sgn = "unsigned"
  /\ Spare(n, m, dend, more)
  /\ i \in 1 .. m /\ c = m - i + more
  /\ prev \in Quotients(n) /\ Fits(prev, n, c - 1)

\* A step of the long division does not look at the sign: of the remainder only
\* the bits brought down so far are set, or one less where the first of the
\* dividend is not set.
LEMMA StepShort ==
  ASSUME NEW n, NEW m, NEW k, NEW more, NEW dend, NEW dsor, NEW i, NEW c, NEW prev, NEW sgn,
         Lengthens(n, m, k, more, dend, dsor, i, c, prev)
  PROVE  /\ DivisionStep(sgn, dend, dsor, i, prev) = DivisionStep("unsigned", dend, dsor, i, prev)
         /\ Fits(DivisionStep(sgn, dend, dsor, i, prev), n, c)
<1> DEFINE rem == Brought(prev.rem, dend, i)
           below == IsLess(Vector("unsigned", rem), dsor)
           next == DivisionStep(sgn, dend, dsor, i, prev)
<1> SUFFICES /\ next = DivisionStep("unsigned", dend, dsor, i, prev)
             /\ next.fail \/ Short(next.rem, n, c)
  <2> HIDE DEF next
  <2> QED BY DEF Fits, next
<1> USE DEF Lengthens
<1>1. c \in 0 .. n /\ c < n
  BY DEF Spare
<1>3. prev.fail \/ Short(prev.rem, n, c - 1)
  BY DEF Fits
<1>2. prev.q \in [1 .. n -> Logic] /\ prev.rem \in [1 .. n -> Logic] /\ prev.fail \in BOOLEAN
  BY DEF Quotients
<1>4. CASE prev.fail
  <2>1. next = [prev EXCEPT !.fail = TRUE] /\ next = DivisionStep("unsigned", dend, dsor, i, prev)
    BY <1>4 DEF DivisionStep
  <2>2. next.fail
    BY <2>1 DEF Quotients
  <2> HIDE DEF next
  <2> QED BY <2>1, <2>2 DEF next
<1>5. CASE ~prev.fail
  <2>1. /\ rem \in [1 .. n -> Logic] /\ rem[1] = dend[i]
        /\ \A x \in 1 .. n : x # 1 => rem[x] = prev.rem[x - 1]
    <3>1. Doubled(prev.rem) \in [1 .. n -> Logic]
      BY <1>2, DoubledType
    <3>2. \A x \in 1 .. n : x # 1 => Doubled(prev.rem)[x] = prev.rem[x - 1]
      BY <1>2 DEF Doubled
    <3>3. dend[i] \in Logic
      OBVIOUS
    <3> QED BY <3>1, <3>2, <3>3 DEF Brought
  <2> HIDE DEF rem
  <2>2. Short(rem, n, c)
    <3> SUFFICES ASSUME NEW x \in 1 .. n, c < x PROVE rem[x] # HI
      BY DEF Short
    <3>1. CASE x = 1
      <4>1. i = m /\ more = 0
        BY <3>1
      <4> QED BY <2>1, <3>1, <4>1 DEF Spare
    <3>2. CASE x # 1
      <4>1. x - 1 \in 1 .. n /\ c - 1 < x - 1
        BY <3>2
      <4>2. prev.rem[x - 1] # HI
        BY <1>3, <1>5, <4>1 DEF Short
      <4> QED BY <2>1, <3>2, <4>2
    <3> QED BY <3>1, <3>2
  <2>3. rem[n] # HI
    <3>1. n \in 1 .. n /\ c < n
      BY <1>1
    <3> QED BY <2>2, <3>1 DEF Short
  <2>4. IsLess(Vector(sgn, rem), dsor) = below
    <3>1. IsLess(Vector(sgn, rem), dsor) = Ordered(rem, dsor.bits, n)
      BY <2>1, <2>3, SignNotLooked
    <3>2. IsLess(Vector("unsigned", rem), dsor) = Ordered(rem, dsor.bits, n)
      BY <2>1, <2>3, SignNotLooked
    <3> QED BY <3>1, <3>2
  <2> HIDE DEF below
  <2>5. next = DivisionStep("unsigned", dend, dsor, i, prev)
    BY <2>4, Zenon DEF DivisionStep, rem, below
  <2>6. \/ next = [prev EXCEPT !.fail = TRUE]
        \/ next = [prev EXCEPT !.q[i] = LO, !.rem = rem]
        \/ /\ below = LO
           /\ next = [q |-> [prev.q EXCEPT ![i] = HI], fail |-> FALSE,
                      rem |-> SubtractedFrom(rem, dsor.bits)]
    <3>1. next = IF prev.fail \/ ~Known(below) THEN [prev EXCEPT !.fail = TRUE]
                 ELSE IF below = HI THEN [prev EXCEPT !.q[i] = LO, !.rem = rem]
                 ELSE [q |-> [prev.q EXCEPT ![i] = HI], fail |-> FALSE,
                       rem |-> SubtractedFrom(rem, dsor.bits)]
      BY <2>5, Zenon DEF DivisionStep, rem, below
    <3> HIDE DEF next
    <3> QED BY <3>1 DEF Known
  <2> HIDE DEF next
  <2>7. CASE next = [prev EXCEPT !.fail = TRUE]
    <3>1. next.fail
      BY <2>7 DEF Quotients
    <3> QED BY <2>5, <3>1 DEF next
  <2>8. CASE next = [prev EXCEPT !.q[i] = LO, !.rem = rem]
    <3>1. next.rem = rem
      BY <2>8 DEF Quotients
    <3> QED BY <2>2, <2>5, <3>1 DEF next
  <2>9. CASE /\ below = LO
             /\ next = [q |-> [prev.q EXCEPT ![i] = HI], fail |-> FALSE,
                        rem |-> SubtractedFrom(rem, dsor.bits)]
    <3>1. Short(SubtractedFrom(rem, dsor.bits), n, c)
      BY <1>1, <2>1, <2>2, <2>9, SubtractedLow DEF below
    <3>2. next.rem = SubtractedFrom(rem, dsor.bits)
      BY <2>9
    <3> QED BY <2>5, <3>1, <3>2 DEF next
  <2> QED BY <2>6, <2>7, <2>8, <2>9
<1> QED BY <1>4, <1>5

\* A division whose remainder never fills its vector.
Unfilled(n, m, k, q, dend, dsor) ==
  /\ n \in Nat \ {0} /\ m \in 1 .. n /\ k \in 1 .. n /\ q \in [1 .. n -> Logic]
  /\ dend \in [1 .. m -> Logic] /\ dsor \in VectorOf(k) /\ dsor.sgn = "unsigned"
  /\ m < n \/ dend[m] # HI

\* Such a division does not look at the sign either.
LEMMA DivisionSignless ==
  ASSUME NEW n, NEW m, NEW k, NEW q, NEW dend, NEW dsor, Unfilled(n, m, k, q, dend, dsor),
         NEW v \in VectorOf(n), v.bits = Filled(n, LO)
  PROVE  DivisionOf(q, v, dend, dsor)[1]
           = DivisionOf(q, Vector("unsigned", Filled(n, LO)), dend, dsor)[1]
<1> USE DEF Unfilled
<1> DEFINE w == Vector("unsigned", Filled(n, LO))
           run == DivisionOf(q, v, dend, dsor)
           same == DivisionOf(q, w, dend, dsor)
           more == IF m < n THEN 1 ELSE 0
           first == [q |-> q, rem |-> Filled(n, LO), fail |-> FALSE]
<1>1. w \in VectorOf(n) /\ w.bits = Filled(n, LO) /\ w.sgn = "unsigned"
  BY FilledType, VectorType DEF Logic, SignTypes, Vector
<1>2. more \in {0, 1} /\ Spare(n, m, dend, more)
  BY DEF Spare
<1> HIDE DEF w, more
<1>10. m \in Nat /\ k \in Nat
  OBVIOUS
<1>3. /\ run[m + 1] = first
      /\ \A i \in 1 .. m : run[i] = DivisionStep(v.sgn, dend, dsor, i, run[i + 1])
  <2>1. Divides(run, n, m, q, v, dend, dsor)
    BY <1>10, DivisionSteps
  <2> HIDE DEF run
  <2> QED BY <2>1 DEF Divides
<1>4. /\ same \in [1 .. m + 1 -> Quotients(n)] /\ same[m + 1] = first
      /\ \A i \in 1 .. m : same[i] = DivisionStep("unsigned", dend, dsor, i, same[i + 1])
  <2>1. Divides(same, n, m, q, w, dend, dsor)
    BY <1>1, <1>10, DivisionSteps
  <2> HIDE DEF same
  <2> QED BY <1>1, <2>1 DEF Divides
<1> HIDE DEF run, same
<1> DEFINE low(j) == Fits(same[m + 1 - j], n, j + more - 1)
           T == {j \in 0 .. m : run[m + 1 - j] = same[m + 1 - j] /\ low(j)}
<1>5. 0 \in T
  <2>1. m + 1 - 0 = m + 1 /\ first.rem = Filled(n, LO)
    OBVIOUS
  <2>2. Fits(first, n, 0 + more - 1)
    BY <2>1 DEF Fits, Short, Filled
  <2> HIDE DEF first
  <2> QED BY <1>3, <1>4, <2>1, <2>2
<1>6. ASSUME NEW j \in 1 .. m, j - 1 \in T PROVE j \in T
  <2> DEFINE i == m + 1 - j
             prev == same[i + 1]
             c == j + more - 1
             sgn == v.sgn
             next == DivisionStep(sgn, dend, dsor, i, prev)
  <2>1. /\ i \in 1 .. m /\ i + 1 = m + 1 - (j - 1) /\ (j - 1) + more - 1 = c - 1
        /\ c = m - i + more
    BY <1>2
  <2>2. run[i + 1] = prev /\ Fits(prev, n, c - 1)
    BY <1>6, <2>1
  <2>3. prev \in Quotients(n)
    <3>1. i + 1 \in 1 .. m + 1
      BY <2>1
    <3> QED BY <1>4, <3>1
  <2>4. /\ run[i] = DivisionStep(sgn, dend, dsor, i, prev)
        /\ same[i] = DivisionStep("unsigned", dend, dsor, i, prev)
    BY <1>3, <1>4, <2>1, <2>2
  <2>5. i = m + 1 - j /\ c = j + more - 1
    OBVIOUS
  <2> HIDE DEF prev, i, c, sgn
  <2>6. /\ next = DivisionStep("unsigned", dend, dsor, i, prev)
        /\ Fits(next, n, c)
    <3>1. Lengthens(n, m, k, more, dend, dsor, i, c, prev)
      BY <1>2, <2>1, <2>2, <2>3 DEF Lengthens
    <3> QED BY <3>1, StepShort
  <2>7. run[m + 1 - j] = next /\ same[m + 1 - j] = next
    BY <2>4, <2>5, <2>6
  <2> HIDE DEF next
  <2> QED BY <2>5, <2>6, <2>7
<1>7. run[1] = same[1]
  <2>1. \A j \in 1 .. m : j - 1 \in T => j \in T
    BY <1>6
  <2>2. \A j \in 0 .. m : j \in T
    <3> HIDE DEF T
    <3> QED BY <1>5, <1>10, <2>1, InductUpTo
  <2>3. m \in 0 .. m /\ m + 1 - m = 1
    OBVIOUS
  <2>4. run[m + 1 - m] = same[m + 1 - m]
    BY <2>2, <2>3
  <2> QED BY <2>3, <2>4
<1> QED BY <1>7 DEF run, same, w

\* The magnitude of a signed number sets the top bit only for the one that has
\* no positive counterpart.
LEMMA MagnitudeTop ==
  ASSUME NEW m \in Nat \ {0}, NEW l \in VectorOf(m), l.sgn = "signed",
         ~(Negative(l) /\ \A i \in 1 .. m - 1 : l.bits[i] = LO)
  PROVE  Magnitude(Vector("unsigned", Filled(m, DC)), l).bits[m] # HI
<1> DEFINE old == Vector("unsigned", Filled(m, DC))
<1>1. /\ Width(l) = m /\ l.bits \in [1 .. m -> Logic] /\ Len(l.bits) = m
      /\ old.bits = Filled(m, DC) /\ Len(Filled(m, DC)) = m /\ Width(old) = m
  BY VectorWidth DEF Vector, Filled, Width
<1> HIDE DEF old
<1>2. CASE ~Negative(l)
  <2>1. Magnitude(old, l) = Assigned(old, l)
    BY <1>2 DEF Magnitude
  <2>2. Assigned(old, l).bits[m] = l.bits[m]
    BY <1>1 DEF Assigned, Vector
  <2>3. l.bits[m] # HI
    BY <1>1, <1>2 DEF Negative, Top
  <2> QED BY <2>1, <2>2, <2>3 DEF old
<1>3. CASE Negative(l)
  <2> DEFINE b == UnaryInv(m, l.bits)
             one == <<HI>>
             sum == AddBits(Filled(m, DC), b, one)
             carry == Carries(b, one, m)
             end == AddHalt(b, one, m)
  <2>1. Magnitude(old, l).bits = sum
    BY <1>1, <1>3 DEF Magnitude, Vector
  <2>2. /\ b \in [1 .. m -> Logic] /\ Len(b) = m
        /\ \A i \in 1 .. m : b[i] = Inv(l.bits[i])
        /\ Len(one) = 1 /\ one[1] = HI /\ one \in [1 .. 1 -> Logic]
    <3>1. b \in [1 .. m -> Logic]
      BY UnaryInvType
    <3>2. \A i \in 1 .. m : b[i] = Inv(l.bits[i])
      BY <1>1 DEF UnaryInv, At
    <3> HIDE DEF b
    <3> QED BY <3>1, <3>2, OneType
  <2>3. b[m] = LO
    BY <1>1, <1>3, <2>2 DEF Negative, Top, Inv, Known
  <2> HIDE DEF b, one
  <2>4. /\ end \in 1 .. m + 1
        /\ \A i \in 1 .. m : i < end => ~(carry[i] = 0 /\ (i > Len(b) \/ i > Len(one)))
    BY AddHaltType
  <2>5. CASE AddMeetsUnknown(b, one, m)
    <3>1. sum = Filled(m, DC)
      BY <1>1, <2>5 DEF AddBits
    <3>2. sum[m] = DC
      BY <3>1 DEF Filled
    <3> QED BY <2>1, <3>2 DEF old
  <2>6. CASE ~AddMeetsUnknown(b, one, m)
    <3> DEFINE clear == end > Len(one) /\ Len(b) <= Len(one)
               long == IF Len(b) > Len(one) THEN b ELSE one
    <3>1. sum[m] = IF m < end THEN SumBit(b, one, carry, m)
                   ELSE IF clear THEN LO
                   ELSE IF m <= Len(long) THEN long[m] ELSE Filled(m, DC)[m]
      BY <1>1, <2>6 DEF AddBits
    <3>2. \A i \in 1 .. m : At(b, i) = b[i] /\ (At(one, i) = IF i = 1 THEN HI ELSE LO)
      BY <2>2 DEF At
    <3> HIDE DEF carry, end, sum
    <3>3. CASE end <= m
      <4>1. m # 1
        <5> SUFFICES ASSUME m = 1 PROVE FALSE
          OBVIOUS
        <5>1. end = 1
          BY <2>4, <3>3
        <5>2. end > Len(b) \/ end > Len(one)
          <6>1. m \in Nat /\ end \in 1 .. m
            BY <2>4, <3>3
          <6> QED BY <3>3, <6>1, AddHaltType DEF end
        <5> QED BY <2>2, <5>1, <5>2
      <4>2. sum[m] = LO
        BY <2>2, <2>3, <2>4, <3>1, <3>3, <4>1
      <4> QED BY <2>1, <4>2 DEF old
    <3>4. CASE end = m + 1
      <4>1. /\ carry \in [1 .. m + 1 -> Nat] /\ carry[1] = 0
            /\ \A i \in 1 .. m : carry[i + 1] = (At(b, i) + At(one, i) + carry[i]) \div 2
        <5>1. \A i \in 1 .. m : At(b, i) \in Nat /\ At(one, i) \in Nat
          BY <2>2, <3>2 DEF Logic
        <5> QED BY <5>1, CarriesSteps DEF carry
      <4>2. \A i \in 1 .. m : Known(b[i])
        BY <1>1, <2>6, <3>2, <3>4 DEF AddMeetsUnknown, end
      <4>3. \A i \in 1 .. m : i > 1 => carry[i] # 0
        BY <2>2, <2>4, <3>4
      <4>4. \A i \in 1 .. m - 1 : b[i] = HI
        <5> DEFINE T == {i \in 0 .. m - 1 : (i >= 1 => b[i] = HI) /\ carry[i + 1] <= 1}
        <5>1. 0 \in T
          BY <4>1
        <5>2. ASSUME NEW i \in 1 .. m - 1, i - 1 \in T PROVE i \in T
          <6>1. carry[i] <= 1 /\ carry[i] \in Nat /\ i \in 1 .. m /\ i + 1 \in 1 .. m
            <7>1. (i - 1) + 1 = i
              OBVIOUS
            <7> QED BY <4>1, <5>2, <7>1
          <6>2. carry[i + 1] = (b[i] + (IF i = 1 THEN HI ELSE LO) + carry[i]) \div 2
            BY <3>2, <4>1, <6>1
          <6>3. carry[i + 1] # 0 /\ b[i] \in {LO, HI}
            BY <4>2, <4>3, <6>1 DEF Known
          <6>4. i = 1 => carry[i] = 0
            BY <4>1
          <6>5. b[i] = HI /\ carry[i + 1] <= 1
            BY <6>1, <6>2, <6>3, <6>4
          <6> QED BY <6>5
        <5>3. \A i \in 0 .. m - 1 : i \in T
          <6>1. \A i \in 1 .. m - 1 : i - 1 \in T => i \in T
            BY <5>2
          <6>2. m - 1 \in Nat
            OBVIOUS
          <6> HIDE DEF T
          <6> QED BY <5>1, <6>1, <6>2, InductUpTo
        <5> QED BY <5>3
      <4>5. \A i \in 1 .. m - 1 : l.bits[i] = LO
        <5>1. \A i \in 1 .. m - 1 : Inv(l.bits[i]) = HI
          BY <2>2, <4>4
        <5> QED BY <5>1 DEF Inv, Known
      <4> QED BY <1>3, <4>5
    <3> QED BY <2>4, <3>3, <3>4
  <2> QED BY <2>5, <2>6
<1> QED BY <1>2, <1>3

-----------------------------------------------------------------------------
(***************************************************************************)
(* Numbers modulo a power of two.                                          *)
(***************************************************************************)

\* x and y differ by a multiple of p.
Congruent(x, y, p) == \E k \in Int : x = y + k * p

\* Division with a remainder.
LEMMA Divided ==
  ASSUME NEW p \in Nat \ {0}, NEW x \in Int
  PROVE  /\ x % p \in 0 .. p - 1 /\ x \div p \in Int /\ x % p \in Nat
         /\ x = (x \div p) * p + (x % p)
<1> DEFINE q == x \div p
           r == x % p
<1>1. q \in Int /\ r \in Int /\ r \in 0 .. p - 1
  OBVIOUS
<1>2. x = q * p + r
  <2>1. q = x \div p /\ r = x % p
    OBVIOUS
  <2> HIDE DEF q, r
  <2> QED BY <1>1, <2>1
<1> QED BY <1>1, <1>2

\* There is but one such quotient and remainder.
LEMMA DividedOnce ==
  ASSUME NEW p \in Nat \ {0}, NEW x \in Int, NEW q \in Int, NEW r \in 0 .. p - 1, x = q * p + r
  PROVE  x % p = r /\ x \div p = q
OBVIOUS

\* A number and its remainder.
LEMMA CongruentResidue ==
  ASSUME NEW p \in Nat \ {0}, NEW x \in Int
  PROVE  Congruent(x, x % p, p) /\ Congruent(x % p, x, p) /\ Congruent(x, x, p)
<1> DEFINE q == x \div p
           r == x % p
<1>1. q \in Int /\ r \in Int /\ x = q * p + r
  BY Divided
<1> HIDE DEF q, r
<1>2. x = r + q * p /\ r = x + (-q) * p /\ x = x + 0 * p /\ -q \in Int
  BY <1>1
<1>3. Congruent(x, r, p) /\ Congruent(r, x, p) /\ Congruent(x, x, p)
  BY <1>1, <1>2 DEF Congruent
<1> QED BY <1>3 DEF r

\* The remainder is the only one of them below p.
LEMMA ResidueOf ==
  ASSUME NEW p \in Nat \ {0}, NEW x \in Int, NEW y \in 0 .. p - 1, Congruent(y, x, p)
  PROVE  x % p = y
<1>1. PICK k \in Int : y = x + k * p
  BY DEF Congruent
<1>2. -k \in Int /\ x = (-k) * p + y
  BY <1>1
<1> DEFINE q == -k
<1>3. q \in Int /\ x = q * p + y
  BY <1>2
<1> HIDE DEF q
<1> QED BY <1>3, DividedOnce

\* Sums and differences.
LEMMA CongruentSums ==
  ASSUME NEW p \in Int, NEW a \in Int, NEW b \in Int, NEW c \in Int, NEW d \in Int,
         Congruent(a, b, p), Congruent(c, d, p)
  PROVE  Congruent(a + c, b + d, p) /\ Congruent(a - c, b - d, p)
<1>1. PICK j \in Int : a = b + j * p
  BY DEF Congruent
<1>2. PICK k \in Int : c = d + k * p
  BY DEF Congruent
<1>3. a + c = (b + d) + (j + k) * p /\ j + k \in Int
  BY <1>1, <1>2
<1>4. a - c = (b - d) + (j - k) * p /\ j - k \in Int
  BY <1>1, <1>2
<1> QED BY <1>3, <1>4 DEF Congruent

\* To differ by a multiple is transitive.
LEMMA CongruentTransitive ==
  ASSUME NEW p \in Int, NEW a \in Int, NEW b \in Int, NEW c \in Int, Congruent(a, b, p), Congruent(b, c, p)
  PROVE  Congruent(a, c, p)
<1>1. PICK j \in Int : a = b + j * p
  BY DEF Congruent
<1>2. PICK k \in Int : b = c + k * p
  BY DEF Congruent
<1>3. a = c + (j + k) * p /\ j + k \in Int
  BY <1>1, <1>2
<1> QED BY <1>3 DEF Congruent

\* It is symmetric.
LEMMA CongruentSymmetric ==
  ASSUME NEW p \in Int, NEW a \in Int, NEW b \in Int, Congruent(a, b, p)
  PROVE  Congruent(b, a, p)
<1>1. PICK j \in Int : a = b + j * p
  BY DEF Congruent
<1>2. b = a + (-j) * p /\ -j \in Int
  BY <1>1
<1> QED BY <1>2 DEF Congruent

\* A power of two divides the ones above it.
LEMMA BelowDivides ==
  ASSUME NEW j \in Nat, NEW k \in Nat, j <= k
  PROVE  \E c \in Nat \ {0} : Below(k) = c * Below(j)
<1> DEFINE T == {i \in 0 .. k : j <= i => \E c \in Nat \ {0} : Below(i) = c * Below(j)}
           p == Below(j)
<1>0. p \in Nat \ {0}
  BY BelowProperties
<1>1. 0 \in T
  <2>1. j <= 0 => Below(0) = 1 * p
    BY <1>0
  <2> QED BY <2>1
<1>2. ASSUME NEW i \in 1 .. k, i - 1 \in T PROVE i \in T
  <2> SUFFICES ASSUME j <= i PROVE \E c \in Nat \ {0} : Below(i) = c * p
    OBVIOUS
  <2>1. CASE j = i
    <3>1. Below(i) = 1 * p
      BY <2>1, <1>0
    <3> QED BY <3>1
  <2>2. CASE j # i
    <3> DEFINE h == i - 1
    <3>1. h \in Nat /\ h + 1 = i /\ j <= h
      BY <2>2
    <3>2. PICK c \in Nat \ {0} : Below(h) = c * p
      BY <1>2, <3>1
    <3> HIDE DEF h, p
    <3>3. Below(h + 1) = 2 * Below(h)
      BY <3>1, BelowProperties
    <3>4. Below(i) = (2 * c) * p /\ 2 * c \in Nat \ {0}
      BY <1>0, <3>1, <3>2, <3>3
    <3> QED BY <3>4
  <2> QED BY <2>1, <2>2
<1>3. k \in T
  <2>1. \A i \in 1 .. k : i - 1 \in T => i \in T
    BY <1>2
  <2> HIDE DEF T
  <2>2. \A i \in 0 .. k : i \in T
    BY <1>1, <2>1, InductUpTo
  <2> QED BY <2>2
<1> QED BY <1>3

\* What is the same modulo a power of two is so modulo a smaller one.
LEMMA CongruentLower ==
  ASSUME NEW j \in Nat, NEW k \in Nat, j <= k, NEW x \in Int, NEW y \in Int, Congruent(x, y, Below(k))
  PROVE  Congruent(x, y, Below(j))
<1> DEFINE p == Below(j)
<1>1. PICK c \in Nat \ {0} : Below(k) = c * p
  BY BelowDivides
<1>2. PICK i \in Int : x = y + i * Below(k)
  BY DEF Congruent
<1>3. p \in Nat \ {0}
  BY BelowProperties
<1> HIDE DEF p
<1>4. x = y + (i * c) * p /\ i * c \in Int
  BY <1>1, <1>2, <1>3
<1>5. Congruent(x, y, p)
  BY <1>4 DEF Congruent
<1> QED BY <1>5 DEF p

\* The bits of a number stand for what is left of it.
LEMMA BitsNumber ==
  ASSUME NEW n \in Nat, NEW x \in Int
  PROVE  Unsigned(Bits(x, n)) = x % Below(n)
<1> DEFINE b == Bits(x, n)
<1>1. b \in [1 .. n -> {LO, HI}]
  BY BitsType
<1>2. \A i \in 1 .. n : b[i] = (x \div Below(i - 1)) % 2
  BY DEF Bits
<1> HIDE DEF b
<1>3. PICK f : Prefixes(f, n, b)
  BY <1>1, PrefixesOf
<1>4. \A i \in 0 .. n : f[i] \in Nat /\ f[i] < Below(i) /\ Below(i) \in Nat \ {0}
  <2> SUFFICES ASSUME NEW i \in 0 .. n
               PROVE  f[i] \in Nat /\ f[i] < Below(i) /\ Below(i) \in Nat \ {0}
    OBVIOUS
  <2>1. Below(i) \in Nat \ {0}
    BY BelowProperties
  <2> QED BY <1>3, <2>1 DEF Prefixes
<1> DEFINE T == {i \in 0 .. n : x = (x \div Below(i)) * Below(i) + f[i]}
<1>5. 0 \in T
  <2>1. Below(0) = 1 /\ f[0] = 0
    BY <1>3, BelowProperties DEF Prefixes
  <2>2. x = (x \div 1) * 1 + 0
    OBVIOUS
  <2> QED BY <2>1, <2>2
<1>6. ASSUME NEW i \in 1 .. n, i - 1 \in T PROVE i \in T
  <2> DEFINE j == i - 1
             q == x \div Below(j)
             h == q \div 2
             p == Below(j)
  <2>1. j \in Nat /\ j \in 0 .. n /\ j + 1 = i
    OBVIOUS
  <2>2. p \in Nat \ {0} /\ f[j] \in Nat /\ f[j] < p /\ x = q * p + f[j]
    BY <1>4, <1>6, <2>1
  <2>3. Below(i) = 2 * p
    <3> HIDE DEF j
    <3>1. Below(j + 1) = 2 * Below(j)
      BY <2>1, BelowProperties
    <3> QED BY <2>1, <3>1
  <2>4. q \in Int
    <3> HIDE DEF j
    <3> QED BY <2>2, Divided DEF q
  <2>5. b[i] = q % 2 /\ b[i] \in {0, 1} /\ f[i] = f[j] + (IF b[i] = 1 THEN p ELSE 0)
    <3>1. b[i] = q % 2
      BY <1>2
    <3>2. b[i] \in {0, 1}
      BY <1>1
    <3> HIDE DEF q
    <3>3. (b[i] = 0 => f[i] = f[j]) /\ (b[i] = 1 => f[i] = f[j] + p)
      BY <1>3 DEF Prefixes
    <3> HIDE DEF p, j
    <3> QED BY <2>2, <3>1, <3>2, <3>3
  <2> HIDE DEF p, q, j
  <2>6. h \in Int /\ q = h * 2 + b[i]
    BY <2>4, <2>5
  <2> HIDE DEF h
  <2>7. f[i] = f[j] + b[i] * p
    BY <2>2, <2>5
  <2>8. x = h * (2 * p) + f[i]
    <3> DEFINE c == b[i]
               g == f[j]
               e == f[i]
    <3>1. x = q * p + g /\ q = h * 2 + c /\ e = g + c * p /\ c \in Int /\ g \in Int
      BY <2>2, <2>5, <2>6, <2>7
    <3> HIDE DEF c, g, e
    <3>2. q * p = h * (2 * p) + c * p
      BY <2>2, <2>4, <2>6, <3>1
    <3>3. x = h * (2 * p) + e
      BY <2>2, <2>4, <2>6, <3>1, <3>2
    <3> QED BY <3>3 DEF e
  <2>9. f[i] \in 0 .. Below(i) - 1 /\ Below(i) \in Nat \ {0}
    BY <1>4
  <2>10. x \div Below(i) = h
    <3> DEFINE e == f[i]
               d == Below(i)
    <3>1. x = h * d + e /\ e \in 0 .. d - 1 /\ d \in Nat \ {0}
      BY <2>3, <2>8, <2>9
    <3> HIDE DEF d, e
    <3>2. x \div d = h
      BY <2>6, <3>1, DividedOnce
    <3> QED BY <3>2 DEF d
  <2> QED BY <2>3, <2>8, <2>10
<1>7. n \in T
  <2>1. \A i \in 1 .. n : i - 1 \in T => i \in T
    BY <1>6
  <2>2. \A i \in 0 .. n : i \in T
    <3> HIDE DEF T
    <3> QED BY <1>5, <2>1, InductUpTo
  <2> HIDE DEF T
  <2> QED BY <2>2
<1> DEFINE d == Below(n)
           e == f[n]
           q == x \div d
<1>8. x = q * d + e /\ d \in Nat \ {0} /\ e \in 0 .. d - 1
  BY <1>4, <1>7
<1>9. q \in Int
  <2> HIDE DEF d
  <2> QED BY <1>8, Divided
<1>10. Unsigned(b) = e
  BY <1>3 DEF Prefixes
<1> HIDE DEF d, e, q
<1>11. x % d = e
  BY <1>8, <1>9, DividedOnce
<1> QED BY <1>10, <1>11 DEF b, d

\* Cut or padded to n bits, known bits stand for the same modulo the n-th
\* power of two.
LEMMA CutNumber ==
  ASSUME NEW n \in Nat, NEW m \in Nat, NEW b \in [1 .. m -> {LO, HI}]
  PROVE  /\ Padded(b, n) \in [1 .. n -> {LO, HI}]
         /\ Congruent(Unsigned(b), Unsigned(Padded(b, n)), Below(n))
<1> DEFINE p == Below(n)
           c == Padded(b, n)
<1>0. p \in Nat \ {0}
  BY BelowProperties
<1>1. p \in Nat \ {0} /\ Len(b) = m
  BY <1>0
<1>2. CASE m <= n
  <2>1. c \in [1 .. n -> {LO, HI}] /\ Unsigned(c) = Unsigned(b)
    BY <1>2, PaddedNumber
  <2>2. Unsigned(b) \in Int
    BY UnsignedRange
  <2>3. Congruent(Unsigned(b), Unsigned(b), p)
    <3> DEFINE u == Unsigned(b)
    <3> HIDE DEF u, p
    <3> QED BY <1>1, <2>2, CongruentResidue DEF u
  <2> QED BY <2>1, <2>3
<1>3. CASE n < m
  <2>1. c \in [1 .. n -> {LO, HI}] /\ \A i \in 1 .. n : c[i] = b[i]
    BY <1>1, <1>3 DEF Padded, At
  <2> HIDE DEF c
  <2>2. PICK f : Prefixes(f, m, b)
    BY PrefixesOf
  <2>3. PICK g : Prefixes(g, n, c)
    BY <2>1, PrefixesOf
  <2> DEFINE T == {i \in 0 .. m : IF i <= n THEN f[i] = g[i] ELSE Congruent(f[i], g[n], p)}
  <2>4. 0 \in T
    BY <2>2, <2>3 DEF Prefixes
  <2>5. g[n] \in Int /\ \A i \in 0 .. m : f[i] \in Int
    BY <2>2, <2>3 DEF Prefixes
  <2>6. ASSUME NEW i \in 1 .. m, i - 1 \in T PROVE i \in T
    <3>1. CASE i <= n
      <4>1. i \in 1 .. n /\ b[i] = c[i] /\ f[i - 1] = g[i - 1] /\ b[i] \in {LO, HI}
        BY <2>1, <2>6, <3>1
      <4>2. f[i] = g[i]
        BY <2>2, <2>3, <4>1 DEF Prefixes
      <4> QED BY <3>1, <4>2
    <3>2. CASE n < i
      <4> DEFINE j == i - 1
                 u == f[j]
                 w == f[i]
                 z == g[n]
      <4>1. j \in Nat /\ n <= j /\ j \in 0 .. m
        BY <3>2
      <4>2. u \in Int /\ w \in Int /\ z \in Int
        BY <2>5, <4>1
      <4>3. Congruent(u, z, p)
        <5>1. CASE j = n
          <6>1. u = z
            BY <2>6, <5>1
          <6> HIDE DEF u, z, p
          <6> QED BY <1>1, <4>2, <6>1, CongruentResidue
        <5>2. CASE j # n
          BY <2>6, <4>1, <5>2
        <5> QED BY <5>1, <5>2
      <4>4. b[i] \in {LO, HI} /\ (w = u \/ w = u + Below(j))
        BY <2>2 DEF Prefixes
      <4> HIDE DEF j, u, w, z
      <4>5. PICK d \in Nat \ {0} : Below(j) = d * p
        BY <4>1, BelowDivides
      <4>6. PICK k \in Int : u = z + k * p
        BY <4>3 DEF Congruent
      <4> HIDE DEF p
      <4>7. (w = u => w = z + k * p) /\ (w = u + Below(j) => w = z + (k + d) * p) /\ k + d \in Int
        BY <1>1, <4>2, <4>5, <4>6
      <4>8. Congruent(w, z, p)
        BY <4>4, <4>7 DEF Congruent
      <4> QED BY <3>2, <4>8 DEF w, z
    <3> QED BY <3>1, <3>2
  <2>7. m \in T
    <3>1. \A i \in 1 .. m : i - 1 \in T => i \in T
      BY <2>6
    <3>2. \A i \in 0 .. m : i \in T
      <4> HIDE DEF T
      <4> QED BY <2>4, <3>1, InductUpTo
    <3> HIDE DEF T
    <3> QED BY <3>2
  <2>8. Congruent(f[m], g[n], p)
    BY <1>3, <2>7
  <2> QED BY <2>1, <2>2, <2>3, <2>8 DEF Prefixes, c
<1> QED BY <1>2, <1>3

\* The carries into and out of a bit, and the bit.
AddStep(l, r, n, i) ==
  LET carry == Carries(l, r, n)
  IN  /\ carry[i] \in {0, 1} /\ carry[i + 1] \in {0, 1}
      /\ SumBit(l, r, carry, i) \in {0, 1}
      /\ At(l, i) + At(r, i) + carry[i] = 2 * carry[i + 1] + SumBit(l, r, carry, i)

\* A carry is a bit.
LEMMA AddSteps ==
  ASSUME NEW n \in Nat, NEW m \in Nat, NEW k \in Nat,
         NEW l \in [1 .. m -> {LO, HI}], NEW r \in [1 .. k -> {LO, HI}]
  PROVE  Carries(l, r, n)[1] = 0 /\ \A i \in 1 .. n : AddStep(l, r, n, i)
<1> DEFINE carry == Carries(l, r, n)
<1>1. \A i \in 1 .. n : At(l, i) \in {0, 1} /\ At(r, i) \in {0, 1}
  BY DEF At
<1>2. /\ carry \in [1 .. n + 1 -> Nat] /\ carry[1] = 0
      /\ \A i \in 1 .. n : carry[i + 1] = (At(l, i) + At(r, i) + carry[i]) \div 2
  <2>1. \A i \in 1 .. n : At(l, i) \in Nat /\ At(r, i) \in Nat
    BY <1>1
  <2> HIDE DEF carry
  <2> QED BY <2>1, CarriesSteps DEF carry
<1> HIDE DEF carry
<1> DEFINE T == {i \in 0 .. n : carry[i + 1] \in {0, 1}}
<1>3. 0 \in T
  BY <1>2
<1>4. ASSUME NEW i \in 1 .. n, i - 1 \in T PROVE i \in T
  <2> DEFINE a == At(l, i)
             b == At(r, i)
  <2>1. a \in {0, 1} /\ b \in {0, 1} /\ carry[i + 1] = (a + b + carry[i]) \div 2
    BY <1>1, <1>2
  <2>2. carry[i] \in {0, 1}
    BY <1>4
  <2> HIDE DEF a, b
  <2>3. carry[i + 1] \in {0, 1}
    BY <2>1, <2>2
  <2> QED BY <2>3
<1>5. \A i \in 0 .. n : carry[i + 1] \in {0, 1}
  <2>1. \A i \in 1 .. n : i - 1 \in T => i \in T
    BY <1>4
  <2>2. \A i \in 0 .. n : i \in T
    <3> HIDE DEF T
    <3> QED BY <1>3, <2>1, InductUpTo
  <2> QED BY <2>2
<1>6. ASSUME NEW i \in 1 .. n PROVE AddStep(l, r, n, i)
  <2> DEFINE a == At(l, i)
             b == At(r, i)
             s == SumBit(l, r, carry, i)
  <2>1. carry[i] \in {0, 1} /\ carry[i + 1] \in {0, 1}
    <3>1. i - 1 \in 0 .. n /\ i \in 0 .. n /\ (i - 1) + 1 = i
      OBVIOUS
    <3> QED BY <1>5, <3>1
  <2>2. a \in {0, 1} /\ b \in {0, 1} /\ carry[i + 1] = (a + b + carry[i]) \div 2
    BY <1>1, <1>2
  <2>3. s = (a + b + carry[i]) % 2
    BY DEF SumBit
  <2> HIDE DEF a, b, s
  <2>4. s \in {0, 1} /\ a + b + carry[i] = 2 * carry[i + 1] + s
    <3> DEFINE x == a + b + carry[i]
    <3>1. x \in Int
      BY <2>1, <2>2
    <3>2. carry[i + 1] = x \div 2 /\ s = x % 2
      BY <2>2, <2>3
    <3> HIDE DEF x
    <3>3. s \in {0, 1} /\ x = (x \div 2) * 2 + s
      BY <3>1, <3>2
    <3>4. s \in {0, 1} /\ x = 2 * carry[i + 1] + s
      BY <2>1, <3>2, <3>3
    <3> QED BY <3>4 DEF x
  <2> QED BY <2>1, <2>4 DEF AddStep, a, b, s, carry
<1> QED BY <1>2, <1>6 DEF carry

\* Where the sum stops and copies, the bits copied are those of the sum.
LEMMA AddedBits ==
  ASSUME NEW n \in Nat, NEW m \in 1 .. n, NEW k \in 1 .. n, NEW old \in [1 .. n -> Logic],
         NEW l \in [1 .. m -> {LO, HI}], NEW r \in [1 .. k -> {LO, HI}],
         m = k \/ m = n \/ k = n
  PROVE  AddBits(old, l, r) = [i \in 1 .. n |-> SumBit(l, r, Carries(l, r, n), i)]
<1> DEFINE carry == Carries(l, r, n)
           end == AddHalt(l, r, n)
           clear == end > Len(r) /\ Len(l) <= Len(r)
           long == IF Len(l) > Len(r) THEN l ELSE r
           bit(i) == IF i < end THEN SumBit(l, r, carry, i)
                     ELSE IF clear THEN LO
                     ELSE IF i <= Len(long) THEN long[i]
                     ELSE old[i]
<1>1. Len(l) = m /\ Len(r) = k /\ Len(old) = n /\ m \in Nat /\ k \in Nat
  OBVIOUS
<1>2. \A i \in 1 .. n : Known(At(l, i)) /\ Known(At(r, i))
  BY <1>1 DEF Known, At
<1>3. /\ end \in 1 .. n + 1
      /\ end <= n => carry[end] = 0 /\ (end > m \/ end > k)
  BY <1>1, AddHaltType
<1>4. ~AddMeetsUnknown(l, r, n)
  <2>1. \A i \in 1 .. end - 1 : i \in 1 .. n
    BY <1>3
  <2>2. end <= k => Known(r[end])
    BY <1>3 DEF Known
  <2> HIDE DEF end
  <2> QED BY <1>1, <1>2, <2>1, <2>2, Zenon DEF AddMeetsUnknown, end
<1>5. AddBits(old, l, r) = [i \in 1 .. n |-> bit(i)]
  BY <1>1, <1>4, Zenon DEF AddBits
<1>6. carry[1] = 0 /\ \A i \in 1 .. n : AddStep(l, r, n, i)
  BY <1>1, AddSteps
<1> HIDE DEF carry, end
<1>7. \A i \in 1 .. n : end <= i => carry[i] = 0
  <2> DEFINE U == {i \in 0 .. n : i >= 1 /\ end <= i => carry[i] = 0}
  <2>1. 0 \in U
    OBVIOUS
  <2>2. ASSUME NEW i \in 1 .. n, i - 1 \in U PROVE i \in U
    <3> SUFFICES ASSUME end <= i PROVE carry[i] = 0
      OBVIOUS
    <3>1. CASE end = i
      BY <1>3, <3>1
    <3>2. CASE end # i
      <4> DEFINE j == i - 1
      <4>1. j \in 1 .. n /\ end <= j /\ j + 1 = i
        BY <1>3, <3>2
      <4>2. carry[j] = 0
        BY <2>2, <4>1
      <4>3. end <= n /\ (end > m \/ end > k)
        BY <1>3
      <4>4. At(l, j) = 0 \/ At(r, j) = 0
        BY <1>1, <1>3, <4>1, <4>3 DEF At
      <4> HIDE DEF j
      <4>5. AddStep(l, r, n, j)
        BY <1>6, <4>1
      <4> DEFINE a == At(l, j)
                 b == At(r, j)
                 s == SumBit(l, r, carry, j)
      <4>6. a \in {0, 1} /\ b \in {0, 1}
        BY <1>2, <4>1 DEF Known
      <4>7. carry[j + 1] \in {0, 1} /\ s \in {0, 1} /\ a + b + carry[j] = 2 * carry[j + 1] + s
        BY <4>5 DEF AddStep, carry
      <4> HIDE DEF a, b, s
      <4>8. carry[j + 1] = 0
        BY <4>2, <4>4, <4>6, <4>7 DEF a, b
      <4> QED BY <4>1, <4>8
    <3> QED BY <3>1, <3>2
  <2>3. \A i \in 1 .. n : i - 1 \in U => i \in U
    BY <2>2
  <2>4. \A i \in 0 .. n : i \in U
    <3> HIDE DEF U
    <3> QED BY <2>1, <2>3, InductUpTo
  <2> QED BY <2>4
<1>8. ASSUME NEW i \in 1 .. n PROVE bit(i) = SumBit(l, r, carry, i)
  <2> SUFFICES ASSUME end <= i PROVE bit(i) = SumBit(l, r, carry, i)
    BY <1>3
  <2> DEFINE a == At(l, i)
             b == At(r, i)
  <2>1. end <= n /\ (end > m \/ end > k) /\ carry[i] = 0
    BY <1>3, <1>7
  <2>2. a \in {0, 1} /\ b \in {0, 1}
    BY <1>2 DEF Known
  <2>3. (a = 0 \/ b = 0) /\ SumBit(l, r, carry, i) = a + b
    <3>1. a = 0 \/ b = 0
      BY <1>1, <1>3, <2>1 DEF At
    <3>2. SumBit(l, r, carry, i) = (a + b + carry[i]) % 2
      BY DEF SumBit
    <3> HIDE DEF a, b
    <3> QED BY <2>1, <2>2, <3>1, <3>2
  <2>4. bit(i) = IF clear THEN LO ELSE IF i <= Len(long) THEN long[i] ELSE old[i]
    BY <1>3
  <2>5. CASE m > k
    <3>1. m = n /\ ~clear /\ long = l
      BY <1>1, <2>5
    <3>2. bit(i) = l[i] /\ a = l[i] /\ b = 0
      BY <1>1, <1>3, <2>1, <2>4, <2>5, <3>1 DEF At
    <3> QED BY <2>2, <2>3, <3>2
  <2>6. CASE m <= k /\ end > k
    <3>1. bit(i) = LO /\ a = 0 /\ b = 0
      BY <1>1, <1>3, <2>4, <2>6 DEF At
    <3> QED BY <2>3, <3>1
  <2>7. CASE m <= k /\ end <= k
    <3>1. k = n /\ ~clear /\ long = r /\ end > m
      BY <1>1, <1>3, <2>1, <2>7
    <3>2. bit(i) = r[i] /\ b = r[i] /\ a = 0
      BY <1>1, <1>3, <2>4, <3>1 DEF At
    <3> QED BY <2>2, <2>3, <3>2
  <2> QED BY <1>1, <1>3, <2>5, <2>6, <2>7
<1> HIDE DEF bit
<1>9. [i \in 1 .. n |-> bit(i)] = [i \in 1 .. n |-> SumBit(l, r, carry, i)]
  BY <1>8, Zenon
<1> QED BY <1>5, <1>9, Zenon DEF carry

\* The bits of a sum stand for the sum.
LEMMA AddedNumber ==
  ASSUME NEW n \in Nat, NEW m \in 1 .. n, NEW k \in 1 .. n, NEW old \in [1 .. n -> Logic],
         NEW l \in [1 .. m -> {LO, HI}], NEW r \in [1 .. k -> {LO, HI}],
         m = k \/ m = n \/ k = n
  PROVE  /\ AddBits(old, l, r) \in [1 .. n -> {LO, HI}]
         /\ Congruent(Unsigned(AddBits(old, l, r)), Unsigned(l) + Unsigned(r), Below(n))
<1> DEFINE carry == Carries(l, r, n)
           res == AddBits(old, l, r)
           x == Padded(l, n)
           y == Padded(r, n)
<1>1. carry[1] = 0 /\ \A i \in 1 .. n : AddStep(l, r, n, i)
  <2>1. m \in Nat /\ k \in Nat
    OBVIOUS
  <2> HIDE DEF carry
  <2> QED BY <2>1, AddSteps DEF carry
<1>2. res = [i \in 1 .. n |-> SumBit(l, r, carry, i)]
  BY AddedBits
<1>3. ASSUME NEW i \in 1 .. n
      PROVE  /\ carry[i] \in {0, 1} /\ carry[i + 1] \in {0, 1}
             /\ res[i] \in {0, 1} /\ x[i] + y[i] + carry[i] = 2 * carry[i + 1] + res[i]
  <2>1. x[i] = At(l, i) /\ y[i] = At(r, i)
    BY DEF Padded
  <2>2. AddStep(l, r, n, i)
    BY <1>1
  <2>3. res[i] = SumBit(l, r, carry, i)
    <3> HIDE DEF res, carry
    <3> QED BY <1>2
  <2> HIDE DEF res, x, y
  <2> QED BY <2>1, <2>2, <2>3 DEF AddStep
<1>4. x \in [1 .. n -> {LO, HI}] /\ Unsigned(x) = Unsigned(l)
      /\ y \in [1 .. n -> {LO, HI}] /\ Unsigned(y) = Unsigned(r)
  <2>1. m \in 0 .. n /\ k \in 0 .. n
    OBVIOUS
  <2> QED BY <2>1, PaddedNumber
<1> HIDE DEF carry, res, x, y
<1>5. res \in [1 .. n -> {LO, HI}]
  <2>1. \A i \in 1 .. n : SumBit(l, r, carry, i) \in {LO, HI}
    BY <1>2, <1>3
  <2> QED BY <1>2, <2>1
<1>6. PICK f : Prefixes(f, n, res)
  BY <1>5, PrefixesOf
<1>7. PICK g : Prefixes(g, n, x)
  BY <1>4, PrefixesOf
<1>8. PICK h : Prefixes(h, n, y)
  BY <1>4, PrefixesOf
<1> DEFINE T == {i \in 0 .. n : f[i] + carry[i + 1] * Below(i) = g[i] + h[i]}
<1>9. \A i \in 0 .. n : /\ f[i] \in Nat /\ g[i] \in Nat /\ h[i] \in Nat
                        /\ Below(i) \in Nat \ {0}
  <2> SUFFICES ASSUME NEW i \in 0 .. n
               PROVE  /\ f[i] \in Nat /\ g[i] \in Nat /\ h[i] \in Nat
                      /\ Below(i) \in Nat \ {0}
    OBVIOUS
  <2>1. Below(i) \in Nat \ {0}
    <3>1. i \in Nat
      OBVIOUS
    <3> QED BY <3>1, BelowProperties
  <2> QED BY <1>6, <1>7, <1>8, <2>1 DEF Prefixes
<1>10. 0 \in T
  <2>1. f[0] = 0 /\ g[0] = 0 /\ h[0] = 0 /\ Below(0) = 1
    BY <1>6, <1>7, <1>8, BelowProperties DEF Prefixes
  <2> QED BY <1>1, <2>1
<1>11. ASSUME NEW i \in 1 .. n, i - 1 \in T PROVE i \in T
  <2> DEFINE j == i - 1
             p == Below(j)
             a == x[i]
             b == y[i]
             s == res[i]
             c == carry[i]
             d == carry[i + 1]
             u == f[j]
             v == g[j]
             w == h[j]
  <2>1. j \in Nat /\ j \in 0 .. n /\ j + 1 = i
    OBVIOUS
  <2>2. p \in Nat \ {0} /\ u \in Nat /\ v \in Nat /\ w \in Nat
    BY <1>9, <2>1
  <2>3. Below(i) = 2 * p
    <3> HIDE DEF j
    <3>1. Below(j + 1) = 2 * Below(j)
      BY <2>1, BelowProperties
    <3> QED BY <2>1, <3>1
  <2>4. a \in {0, 1} /\ b \in {0, 1} /\ s \in {0, 1} /\ c \in {0, 1} /\ d \in {0, 1}
        /\ a + b + c = 2 * d + s
    BY <1>3, <1>4
  <2>5. u + c * p = v + w
    BY <1>11, <2>1
  <2>6. (s = 0 => f[i] = u) /\ (s = 1 => f[i] = u + p)
    BY <1>6 DEF Prefixes
  <2>7. (a = 0 => g[i] = v) /\ (a = 1 => g[i] = v + p)
    BY <1>7 DEF Prefixes
  <2>8. (b = 0 => h[i] = w) /\ (b = 1 => h[i] = w + p)
    BY <1>8 DEF Prefixes
  <2> HIDE DEF j, p, a, b, s, c, d, u, v, w
  <2>9. f[i] = u + s * p /\ g[i] = v + a * p /\ h[i] = w + b * p
    <3>1. f[i] = u + s * p
      BY <2>2, <2>4, <2>6
    <3>2. g[i] = v + a * p
      BY <2>2, <2>4, <2>7
    <3>3. h[i] = w + b * p
      BY <2>2, <2>4, <2>8
    <3> QED BY <3>1, <3>2, <3>3
  <2>10. (u + s * p) + d * (2 * p) = (v + a * p) + (w + b * p)
    BY <2>2, <2>4, <2>5
  <2>11. f[i] + d * Below(i) = g[i] + h[i]
    BY <2>3, <2>9, <2>10
  <2> QED BY <2>11 DEF d
<1>12. n \in T
  <2>1. \A i \in 1 .. n : i - 1 \in T => i \in T
    BY <1>11
  <2>2. \A i \in 0 .. n : i \in T
    <3> HIDE DEF T
    <3> QED BY <1>10, <2>1, InductUpTo
  <2> HIDE DEF T
  <2> QED BY <2>2
<1>13. Congruent(f[n], g[n] + h[n], Below(n))
  <2> DEFINE u == f[n]
             v == g[n]
             w == h[n]
             c == carry[n + 1]
             p == Below(n)
  <2>1. u \in Int /\ v \in Int /\ w \in Int /\ p \in Int /\ u + c * p = v + w
    BY <1>9, <1>12
  <2>2. c \in Int
    BY <1>3
  <2> HIDE DEF u, v, w, c, p
  <2>3. u = (v + w) + (-c) * p /\ -c \in Int
    BY <2>1, <2>2
  <2>4. Congruent(u, v + w, p)
    BY <2>3 DEF Congruent
  <2> QED BY <2>4 DEF u, v, w, p
<1>14. f[n] = Unsigned(res) /\ g[n] = Unsigned(l) /\ h[n] = Unsigned(r)
  BY <1>4, <1>6, <1>7, <1>8 DEF Prefixes
<1> QED BY <1>5, <1>13, <1>14 DEF res

\* A vector with its top bit set stands for half of its numbers at least.
LEMMA TopNumber ==
  ASSUME NEW m \in Nat \ {0}, NEW b \in [1 .. m -> {LO, HI}], b[m] = HI
  PROVE  Unsigned(b) \in Nat \ {0} /\ 2 * Unsigned(b) >= Below(m)
<1> DEFINE j == m - 1
<1>1. j \in Nat /\ j + 1 = m /\ m \in 1 .. m
  OBVIOUS
<1>2. PICK f : Prefixes(f, m, b)
  BY PrefixesOf
<1>3. f[m] = f[j] + Below(j) /\ f[j] \in Nat /\ Unsigned(b) = f[m]
  BY <1>1, <1>2 DEF Prefixes
<1> HIDE DEF j
<1>4. Below(j + 1) = 2 * Below(j) /\ Below(j) \in Nat \ {0}
  BY <1>1, BelowProperties
<1> DEFINE p == Below(j)
           x == f[j]
<1>5. Unsigned(b) = x + p /\ Below(m) = 2 * p /\ x \in Nat /\ p \in Nat \ {0}
  BY <1>1, <1>3, <1>4
<1> HIDE DEF p, x
<1> QED BY <1>5

\* Powers of two multiply.
LEMMA BelowProduct ==
  ASSUME NEW j \in Nat, NEW k \in Nat
  PROVE  Below(j + k) = Below(j) * Below(k)
<1> DEFINE T == {i \in 0 .. k : Below(j + i) = Below(j) * Below(i)}
<1>1. 0 \in T
  <2>1. Below(j) \in Nat /\ Below(0) = 1 /\ j + 0 = j
    BY BelowProperties
  <2>2. Below(j + 0) = Below(j) * Below(0)
    BY <2>1
  <2> QED BY <2>2
<1>2. ASSUME NEW i \in 1 .. k, i - 1 \in T PROVE i \in T
  <2> DEFINE h == i - 1
             g == j + h
             p == Below(j)
             q == Below(h)
  <2>1. h \in Nat /\ g \in Nat /\ h + 1 = i /\ g + 1 = j + i
    OBVIOUS
  <2>2. Below(g) = p * q
    BY <1>2
  <2> HIDE DEF g, h
  <2>3. Below(g + 1) = 2 * Below(g) /\ Below(h + 1) = 2 * q
    BY <2>1, BelowProperties
  <2>4. p \in Nat /\ q \in Nat
    BY <2>1, BelowProperties
  <2> HIDE DEF p, q
  <2>5. Below(j + i) = p * Below(i)
    <3>1. Below(j + i) = 2 * (p * q) /\ Below(i) = 2 * q
      BY <2>1, <2>2, <2>3
    <3>2. 2 * (p * q) = p * (2 * q)
      BY <2>4
    <3> QED BY <3>1, <3>2
  <2> QED BY <2>5 DEF p
<1>3. k \in T
  <2>1. \A i \in 1 .. k : i - 1 \in T => i \in T
    BY <1>2
  <2>2. \A i \in 0 .. k : i \in T
    <3> HIDE DEF T
    <3> QED BY <1>1, <2>1, InductUpTo
  <2> HIDE DEF T
  <2> QED BY <2>2
<1> QED BY <1>3

\* Numbers that differ by a multiple have the same remainder.
LEMMA SameRemainder ==
  ASSUME NEW p \in Nat \ {0}, NEW x \in Int, NEW y \in Int, Congruent(x, y, p)
  PROVE  x % p = y % p
<1> DEFINE r == x % p
<1>1. r \in 0 .. p - 1 /\ r \in Int /\ p \in Int
  BY Divided
<1>2. Congruent(r, x, p)
  BY CongruentResidue
<1> HIDE DEF r
<1>3. Congruent(r, y, p)
  BY <1>1, <1>2, CongruentTransitive
<1>4. y % p = r
  BY <1>1, <1>3, ResidueOf
<1> QED BY <1>4 DEF r
=============================================================================
