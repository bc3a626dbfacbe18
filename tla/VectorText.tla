------------------------------ MODULE VectorText ------------------------------
(***************************************************************************)
(* Bit vectors as text and back (common/bvector.cc): the constants of a    *)
(* design, the words of a memory file and what the display tasks show.  A  *)
(* text is a sequence of digits, the most significant first; an underscore *)
(* of the source is no digit, a place left blank by the display none.      *)
(***************************************************************************)
EXTENDS LogicVector

CONSTANT UnsizedBits   \* the least width of a constant without a size

ASSUME VectorTextAssumption == UnsizedBits \in 1 .. DecimalBits

XDigit == 16
ZDigit == 17
Digits == 0 .. ZDigit

\* Bits that a digit stands for.
PerDigit(base) == CASE base = 2 -> 1 [] base = 8 -> 3 [] base = 16 -> 4

DigitBits(d, k) ==
  CASE d = XDigit -> Filled(k, DC)
    [] d = ZDigit -> Filled(k, Z)
    [] OTHER      -> Bits(d, k)

\* What stands to the left of the first digit.
LeftPad(d) == IF d = XDigit THEN DC ELSE IF d = ZDigit THEN Z ELSE LO

\* assign_from_bin, assign_from_oct, assign_from_hex
FromDigits(text, base, width) ==
  LET k == PerDigit(base)
      digit(i) == text[Len(text) - ((i - 1) \div k)]
  IN  [i \in 1 .. width |->
         IF i <= k * Len(text) THEN DigitBits(digit(i), k)[((i - 1) % k) + 1]
         ELSE LeftPad(text[1])]

\* assign_from_dec; a constant without base that is wider than UnsizedBits is
\* cut to them, and its sign extended.
FromInteger(x, width, unsized) ==
  LET cut == x % Below(UnsizedBits)
      y   == IF ~unsized THEN x
             ELSE IF cut >= Below(UnsizedBits - 1)
                  THEN cut + Below(DecimalBits) - Below(UnsizedBits) ELSE cut
  IN  [i \in 1 .. width |-> IF i > DecimalBits THEN LO
                            ELSE (Wrap(y) \div Below(i - 1)) % 2]

\* The width of a constant that gives none.
WidthOfDigits(n, base) == LET w == n * PerDigit(base)
                          IN  IF w < UnsizedBits THEN UnsizedBits ELSE w
WidthOfInteger(x) ==
  CHOOSE w \in UnsizedBits .. DecimalBits :
    /\ x < Below(w)
    /\ w = UnsizedBits \/ x >= Below(w - 1)

\* Fault model: a digit of too few bits is dropped.
DigitOfWhole(b, i, k) ==
  IF i + k - 1 > Len(b) THEN 0
  ELSE IF AllKnown(SubSeq(b, i, i + k - 1)) THEN Unsigned(SubSeq(b, i, i + k - 1))
  ELSE IF k = 1 /\ b[i] = Z THEN ZDigit ELSE XDigit

\* The k bits from bit i up, fewer at the end of the vector, as a digit.  An
\* unknown bit makes the digit x; only a binary digit is shown as z.
DigitOf(b, i, k) ==
  LET part == SubSeq(b, i, IF i + k - 1 > Len(b) THEN Len(b) ELSE i + k - 1)
  IN  IF AllKnown(part) THEN Unsigned(part)
      ELSE IF k = 1 /\ part[1] = Z THEN ZDigit ELSE XDigit

\* to_string with all digits, and without leading zeros.
AllDigits(b, base) ==
  LET k == PerDigit(base)
      n == (Len(b) + k - 1) \div k
  IN  [j \in 1 .. n |-> DigitOf(b, (n - j) * k + 1, k)]

SomeDigits(b, base) ==
  LET all  == AllDigits(b, base)
      used == {j \in DOMAIN all : all[j] # 0}
  IN  IF used = {} THEN <<0>> ELSE SubSeq(all, First(used), Len(all))

(***************************************************************************)
(* binary_2_decimal: sign and value, or one letter.  Bits beyond the       *)
(* machine's integers are not looked at; x and z win over the ones seen    *)
(* with them, as X and Z.                                                  *)
(***************************************************************************)
Decimal(v) ==
  LET abs == IF Negative(v)
             THEN AddBits(v.bits, UnaryInv(Width(v), v.bits), <<HI>>) ELSE v.bits
      b   == SubSeq(abs, 1, IF Len(abs) > DecimalBits THEN DecimalBits ELSE Len(abs))
      has(a) == \E i \in DOMAIN b : b[i] = a
  IN  IF AllKnown(b) THEN [neg |-> Negative(v), letter |-> "", val |-> Unsigned(b)]
      ELSE [neg |-> FALSE, val |-> 0,
            letter |-> IF has(DC) THEN (IF has(HI) \/ has(Z) THEN "X" ELSE "x")
                       ELSE IF has(HI) THEN "Z" ELSE "z"]

=============================================================================
