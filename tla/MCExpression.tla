----------------------------- MODULE MCExpression -----------------------------
(***************************************************************************)
(* Machine integers of four bits, so that vectors of six take the long    *)
(* algorithms; every vector of up to three bits that is known, and some    *)
(* with unknown bits.                                                      *)
(***************************************************************************)
EXTENDS Expression

AllBits(n) == [1 .. n -> {LO, HI}]

MCValues ==
  [w \in {1, 2, 3, 6} |->
     CASE w = 1 -> {<<LO>>, <<HI>>, <<DC>>, <<Z>>}
       [] w = 2 -> AllBits(2) \cup {<<DC, HI>>, <<LO, DC>>}
       [] w = 3 -> AllBits(3) \cup {<<LO, DC, HI>>}
       [] w = 6 -> {b \in AllBits(6) : b[1] = b[4] /\ b[1] = b[3] /\ b[2] = b[6]}
                     \cup {<<HI, LO, LO, LO, DC, DC>>, <<LO, LO, LO, LO, LO, HI>>}]

Signs == {<<"unsigned", "unsigned">>, <<"signed", "signed">>, <<"unset", "signed">>}
MixedSigns == {<<"signed", "unsigned">>, <<"unsigned", "signed">>}
Operand(sgn, w) == [sgn |-> sgn, width |-> w]
Shape(op, ops, need) == [op |-> op, ops |-> ops, need |-> need, constant |-> FALSE]

Both(ops, widths, signs, needs) ==
  {Shape(op, <<Operand(s[1], w[1]), Operand(s[2], w[2])>>, need) :
     op \in ops, w \in widths, s \in signs, need \in needs}

Binary ==
  Both(Sums \cup {"*"}, {<<2, 2>>, <<3, 3>>, <<1, 2>>, <<3, 2>>}, Signs, {0, 5})
    \cup Both(Masks, {<<2, 2>>, <<1, 2>>, <<3, 2>>}, {<<"unset", "signed">>}, {0, 5})
    \cup Both(Relations, {<<2, 2>>, <<3, 2>>, <<2, 3>>}, Signs, {0})
    \cup Both({"<", "=="}, {<<2, 2>>, <<3, 2>>, <<2, 3>>}, MixedSigns, {0})
    \cup Both({"*", "/", "%"}, {<<6, 3>>, <<3, 6>>},
               {<<"unsigned", "unsigned">>, <<"signed", "signed">>}, {0})
    \cup Both({"%"}, {<<6, 6>>}, {<<"signed", "signed">>}, {0})

Shifting ==
  {Shape(op, <<Operand("unset", 3), Operand(s, 3)>>, need) :
     op \in Shifts, s \in {"unsigned", "signed"}, need \in {0, 5}}

Unary ==
  {[Shape(op, <<Operand(s, w)>>, need) EXCEPT !.constant = (w = 3)] :
     op \in Reductions \cup {"!", "~", "u+", "u-"}, s \in {"unsigned", "signed"},
     w \in {1, 3}, need \in {0, 5}}

Others ==
  {Shape("?:", <<Operand(s, 2), Operand("unset", 2), Operand("unset", 1)>>, need) :
     s \in {"unsigned", "signed"}, need \in {0, 3}}
  \cup {Shape("concat", <<Operand("unset", 2), Operand("unset", 1)>>, times) : times \in 1 .. 2}

MCShapes == Binary \cup Shifting \cup Unary \cup Others

=============================================================================
