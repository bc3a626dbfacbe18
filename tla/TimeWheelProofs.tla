-------------------------- MODULE TimeWheelProofs ---------------------------
(***************************************************************************)
(* Theorems about the time wheel, for every set of statements and bounds.  *)
(***************************************************************************)
EXTENDS TimeWheel, TLAPS, SequenceTheorems, WellFoundedInduction

(***************************************************************************)
(* A nonempty set of naturals has a least element.                         *)
(***************************************************************************)
Less == {ss \in Nat \X Nat : ss[1] < ss[2]}

\* The order of the naturals is well-founded (a form the provers can use).
LEMMA LessWellFounded == IsWellFoundedOn(Less, Nat)
<1>1. OpToRel(<, Nat) = Less
  BY Zenon DEF OpToRel, Less
<1> QED BY <1>1, NatLessThanWellFounded

\* A nonempty set of naturals has a least element.
LEMMA LeastElement ==
  ASSUME NEW T, T \subseteq Nat, T # {}
  PROVE  \E x \in T : \A y \in T : x <= y
<1>1. PICK x \in T : \A y \in T : ~(<<y, x>> \in Less)
  BY LessWellFounded, WFMin
<1>2. ASSUME NEW y \in T PROVE x <= y
  <2>1. <<y, x>> \notin Less BY <1>1
  <2>2. ~(y < x) BY <2>1 DEF Less
  <2> QED BY <2>2
<1> QED BY <1>2
-----------------------------------------------------------------------------
\* What InsertAt returns: one element more, the later ones moved up by one.
LEMMA InsertAtProperties ==
  ASSUME NEW S, NEW seq \in Seq(S), NEW i \in 1..(Len(seq) + 1), NEW elt \in S
  PROVE  /\ InsertAt(seq, i, elt) \in Seq(S)
         /\ Len(InsertAt(seq, i, elt)) = Len(seq) + 1
         /\ \A j \in 1..(Len(seq) + 1) :
              InsertAt(seq, i, elt)[j] =
                IF j < i THEN seq[j] ELSE IF j = i THEN elt ELSE seq[j - 1]
<1> DEFINE a == SubSeq(seq, 1, i - 1)
           b == Append(a, elt)
           c == SubSeq(seq, i, Len(seq))
<1>1. /\ a \in Seq(S) /\ Len(a) = i - 1
      /\ \A j \in 1..(i - 1) : a[j] = seq[j]
  BY SubSeqProperties
<1>2. /\ c \in Seq(S) /\ Len(c) = Len(seq) - i + 1
      /\ \A j \in 1..(Len(seq) - i + 1) : c[j] = seq[i + j - 1]
  BY SubSeqProperties
<1>3. InsertAt(seq, i, elt) = b \o c
  <2>1. a \o <<elt>> = b
    BY <1>1, AppendIsConcat
  <2> QED BY <2>1 DEF InsertAt
<1>4. /\ b \in Seq(S) /\ Len(b) = i
      /\ \A j \in 1..i : b[j] = IF j < i THEN seq[j] ELSE elt
  <2> HIDE DEF a
  <2> QED BY <1>1, AppendProperties
<1> HIDE DEF a, b, c
<1>5. /\ b \o c \in Seq(S)
      /\ Len(b \o c) = Len(seq) + 1
      /\ \A j \in 1..(Len(seq) + 1) :
           (b \o c)[j] = IF j <= i THEN b[j] ELSE c[j - i]
  <2>1. Len(b) + Len(c) = Len(seq) + 1
    BY <1>2, <1>4, LenProperties
  <2>2. /\ b \o c \in Seq(S)
        /\ Len(b \o c) = Len(b) + Len(c)
        /\ \A j \in 1..(Len(b) + Len(c)) :
             (b \o c)[j] = IF j <= Len(b) THEN b[j] ELSE c[j - Len(b)]
    BY <1>2, <1>4, ConcatProperties
  <2> QED BY <2>1, <2>2, <1>4
<1>6. ASSUME NEW j \in 1..(Len(seq) + 1)
      PROVE  (b \o c)[j] = IF j < i THEN seq[j]
                           ELSE IF j = i THEN elt ELSE seq[j - 1]
  <2>1. CASE j <= i BY <2>1, <1>4, <1>5
  <2>2. CASE j > i
    <3>1. c[j - i] = seq[i + (j - i) - 1] BY <1>2, <2>2
    <3> QED BY <3>1, <1>5, <2>2
  <2>3. j <= i \/ j > i
    <3>1. Len(seq) \in Nat BY LenProperties
    <3> QED BY <3>1
  <2> QED BY <2>1, <2>2, <2>3
<1> QED BY <1>3, <1>5, <1>6

\* The scan of add_event ends at the first node at which it may end.
LEMMA ScanEndFirst ==
  ASSUME NEW ns \in Seq(NodeType), ns # << >>, NEW t
  PROVE  /\ ScanEnd(ns, t) \in DOMAIN ns
         /\ Ends(ns, t, ScanEnd(ns, t))
         /\ \A j \in 1..(ScanEnd(ns, t) - 1) : ~Ends(ns, t, j)
<1> DEFINE T == {i \in DOMAIN ns : Ends(ns, t, i)}
<1>1. Len(ns) \in T
  BY DEF Ends
<1>2. T \subseteq Nat
  OBVIOUS
<1>3. PICK i \in T : \A j \in T : i <= j
  <2> HIDE DEF T
  <2> QED BY <1>1, <1>2, LeastElement
<1>4. \A j \in 1..(i - 1) : ~Ends(ns, t, j)
  BY <1>3
<1> QED BY <1>3, <1>4 DEF ScanEnd
-----------------------------------------------------------------------------
\* Time units are naturals.
LEMMA TimesNat == Times \subseteq Nat
BY TimeWheelAssumption DEF Times

\* The types of a node's fields.
LEMMA NodeFields ==
  ASSUME NEW ns \in Seq(NodeType), NEW j \in 1..Len(ns)
  PROVE  /\ ns[j] \in NodeType
         /\ ns[j].time \in Times /\ ns[j].time \in Nat
         /\ ns[j].event \in Seq(Stmts)
<1>1. ns[j] \in NodeType
  BY ElementOfSeq
<1>2. ns[j].time \in Times /\ ns[j].event \in Seq(Stmts)
  BY <1>1 DEF NodeType
<1> QED BY <1>1, <1>2, TimesNat

\* Of nodes in order, the statements listed for a time unit are those of its
\* node, if it has one.
LEMMA ListedAtNode ==
  ASSUME NEW ns \in Seq(NodeType), InOrder(ns)
  PROVE  /\ \A i \in DOMAIN ns : ListedAt(ns, ns[i].time) = ns[i].event
         /\ \A t : (\A i \in DOMAIN ns : ns[i].time # t) => ListedAt(ns, t) = << >>
<1>1. ASSUME NEW i \in DOMAIN ns
      PROVE  ListedAt(ns, ns[i].time) = ns[i].event
  <2>1. {j \in DOMAIN ns : ns[j].time = ns[i].time} = {i}
    <3>1. ASSUME NEW j \in DOMAIN ns, ns[j].time = ns[i].time, j # i
          PROVE  FALSE
      <4>1. ns[j] \in NodeType /\ ns[i] \in NodeType
        BY ElementOfSeq
      <4>2. i < j \/ j < i
        BY <3>1
      <4>3. ns[i].time < ns[j].time \/ ns[j].time < ns[i].time
        BY <4>2 DEF InOrder
      <4> QED BY <4>1, <4>3, <3>1 DEF NodeType, Times
    <3> QED BY <3>1
  <2> QED BY <2>1 DEF ListedAt
<1>2. ASSUME NEW t, \A i \in DOMAIN ns : ns[i].time # t
      PROVE  ListedAt(ns, t) = << >>
  BY <1>2 DEF ListedAt
<1> QED BY <1>1, <1>2

\* Where the scan of add_event ends for a time not before the first node: at
\* the node of that time, or at the last node before it.
LEMMA ScanEndPlace ==
  ASSUME NEW ns \in Seq(NodeType), ns # << >>, InOrder(ns),
         NEW t \in Times, ns[1].time <= t
  PROVE  LET i == ScanEnd(ns, t)
         IN  /\ i \in DOMAIN ns
             /\ ns[i].time <= t
             /\ \A j \in DOMAIN ns : j < i => ns[j].time < t
             /\ \A j \in DOMAIN ns : j > i => ns[j].time > t
<1> DEFINE i == ScanEnd(ns, t)
<1>1. /\ i \in 1..Len(ns)
      /\ Ends(ns, t, i)
      /\ \A j \in 1..(i - 1) : ~Ends(ns, t, j)
  BY ScanEndFirst
<1> HIDE DEF i
<1>2. \A j \in 1..Len(ns) : ns[j].time \in Nat
  BY NodeFields
<1>3. t \in Nat /\ Len(ns) \in Nat
  BY LenProperties, TimesNat
<1>4. ns[i].time <= t
  <2>1. CASE i = 1 BY <2>1
  <2>2. CASE i > 1
    <3>1. ~Ends(ns, t, i - 1) BY <1>1, <2>2
    <3> QED BY <3>1, <1>1, <1>2, <1>3, <2>2 DEF Ends
  <2> QED BY <1>1, <2>1, <2>2
<1>5. \A j \in 1..Len(ns) : j < i => ns[j].time < t
  <2> SUFFICES ASSUME NEW j \in 1..Len(ns), j < i PROVE ns[j].time < t
    OBVIOUS
  <2>1. ~Ends(ns, t, j) BY <1>1
  <2> QED BY <2>1, <1>2, <1>3 DEF Ends
<1>6. \A j \in 1..Len(ns) : j > i => ns[j].time > t
  <2> SUFFICES ASSUME NEW j \in 1..Len(ns), j > i PROVE ns[j].time > t
    OBVIOUS
  <2>1. i + 1 \in 1..Len(ns) BY <1>1, <1>3
  <2>2. ns[i].time < ns[i + 1].time
    BY <1>1, <2>1 DEF InOrder
  <2>3. t < ns[i + 1].time
    BY <1>1, <1>2, <1>3, <1>4, <2>1, <2>2 DEF Ends
  <2>4. ns[i + 1].time <= ns[j].time
    BY <1>1, <1>2, <2>1 DEF InOrder
  <2> QED BY <2>1, <2>3, <2>4, <1>2, <1>3
<1> QED BY <1>1, <1>4, <1>5, <1>6 DEF i

\* What add_event does to nodes in order, for a time not before the first:
\* it keeps them in order, touches the first node only if the time is that
\* node's, leaves no node without statements that was not so before, and puts
\* the statement last in the list of its time and nowhere else.
LEMMA ScheduledProperties ==
  ASSUME NEW ns \in Seq(NodeType), ns # << >>, InOrder(ns),
         NEW t \in Times, ns[1].time <= t, NEW s \in Stmts
  PROVE  /\ Scheduled(ns, t, s) \in Seq(NodeType)
         /\ Scheduled(ns, t, s) # << >> /\ InOrder(Scheduled(ns, t, s))
         /\ Scheduled(ns, t, s)[1] =
              IF t = ns[1].time THEN [ns[1] EXCEPT !.event = Append(@, s)] ELSE ns[1]
         /\ \A k \in DOMAIN Scheduled(ns, t, s) : k > 1 =>
              \/ Scheduled(ns, t, s)[k].event # << >>
              \/ \E j \in DOMAIN ns : j > 1 /\ Scheduled(ns, t, s)[k] = ns[j]
         /\ \A u : ListedAt(Scheduled(ns, t, s), u) =
              IF u = t THEN Append(ListedAt(ns, t), s) ELSE ListedAt(ns, u)
<1> DEFINE i == ScanEnd(ns, t)
           r == Scheduled(ns, t, s)
<1>1. /\ i \in 1..Len(ns)
      /\ ns[i].time <= t
      /\ \A j \in 1..Len(ns) : j < i => ns[j].time < t
      /\ \A j \in 1..Len(ns) : j > i => ns[j].time > t
  BY ScanEndPlace
<1>2. r = CASE t = ns[i].time -> [ns EXCEPT ![i].event = Append(@, s)]
            [] t > ns[i].time -> InsertAt(ns, i + 1, [time |-> t, event |-> <<s>>])
            [] OTHER -> ns
  BY DEF Scheduled
<1> HIDE DEF i, r
<1>3. /\ \A j \in 1..Len(ns) : ns[j] \in NodeType /\ ns[j].time \in Nat
      /\ t \in Nat /\ Len(ns) \in Nat /\ Len(ns) > 0
  <2>1. \A j \in 1..Len(ns) : ns[j] \in NodeType /\ ns[j].time \in Nat
    BY NodeFields
  <2>2. t \in Nat /\ Len(ns) \in Nat
    BY TimesNat, LenProperties
  <2>3. Len(ns) # 0
    BY EmptySeq
  <2> QED BY <2>1, <2>2, <2>3
<1>4. CASE t = ns[i].time
  <2>1. r = [ns EXCEPT ![i].event = Append(@, s)]
    <3>1. ~(t > ns[i].time) BY <1>1, <1>3, <1>4
    <3> QED BY <1>2, <1>4, <3>1
  <2>2. [ns[i] EXCEPT !.event = Append(@, s)] \in NodeType
    <3>1. ns[i].time \in Times /\ ns[i].event \in Seq(Stmts)
      BY <1>1, <1>3 DEF NodeType
    <3>2. Append(ns[i].event, s) \in Seq(Stmts)
      BY <3>1, AppendProperties
    <3>3. ns[i] \in NodeType
      BY <1>1, <1>3
    <3> QED BY <3>1, <3>2, <3>3 DEF NodeType
  <2>3. /\ r \in Seq(NodeType) /\ Len(r) = Len(ns)
        /\ \A j \in 1..Len(ns) :
             r[j] = IF j = i THEN [ns[i] EXCEPT !.event = Append(@, s)] ELSE ns[j]
    BY <2>1, <2>2, <1>1, ExceptSeq
  <2>4. \A j \in 1..Len(ns) : r[j].time = ns[j].time
    BY <2>3, <1>3 DEF NodeType
  <2>5. InOrder(r)
    BY <2>3, <2>4 DEF InOrder
  <2>6. /\ r[i].event = Append(ns[i].event, s)
        /\ r[i].event # << >>
    BY <2>3, <1>1, <1>3, AppendProperties DEF NodeType
  <2>7. ASSUME NEW u
        PROVE  ListedAt(r, u) = IF u = t THEN Append(ListedAt(ns, t), s)
                                ELSE ListedAt(ns, u)
    <3>1. CASE u = t
      BY <3>1, <1>1, <1>4, <2>3, <2>4, <2>5, <2>6, ListedAtNode
    <3>2. CASE u # t /\ \E j \in 1..Len(ns) : ns[j].time = u
      <4>1. PICK j \in 1..Len(ns) : ns[j].time = u
        BY <3>2
      <4>2. r[j] = ns[j] /\ j \in 1..Len(r)
        BY <4>1, <3>2, <1>4, <2>3
      <4>3. ListedAt(r, r[j].time) = r[j].event
        BY <4>2, <2>3, <2>5, ListedAtNode
      <4>4. ListedAt(ns, ns[j].time) = ns[j].event
        BY <4>1, ListedAtNode
      <4> QED BY <4>1, <4>2, <4>3, <4>4, <3>2
    <3>3. CASE u # t /\ \A j \in 1..Len(ns) : ns[j].time # u
      <4>1. ListedAt(ns, u) = << >> BY <3>3, ListedAtNode
      <4>2. \A j \in DOMAIN r : r[j].time # u BY <3>3, <2>3, <2>4
      <4>3. ListedAt(r, u) = << >> BY <4>2, <2>3, <2>5, ListedAtNode
      <4> QED BY <4>1, <4>3, <3>3
    <3> QED BY <3>1, <3>2, <3>3
  <2>8. r[1] = IF t = ns[1].time
               THEN [ns[1] EXCEPT !.event = Append(@, s)] ELSE ns[1]
    <3>1. CASE i = 1
      <4>1. r[1] = [ns[i] EXCEPT !.event = Append(@, s)]
        <5>1. 1 \in 1..Len(ns) BY <1>3
        <5> QED BY <5>1, <3>1, <2>3
      <4> QED BY <4>1, <3>1, <1>4
    <3>2. CASE i # 1
      <4>1. 1 \in 1..Len(ns) /\ 1 < i BY <3>2, <1>1, <1>3
      <4>2. ns[1].time < t BY <4>1, <1>1
      <4> QED BY <4>1, <4>2, <1>3, <2>3
    <3> QED BY <3>1, <3>2
  <2>9. \A k \in DOMAIN r : k > 1 =>
          \/ r[k].event # << >>
          \/ \E j \in DOMAIN ns : j > 1 /\ r[k] = ns[j]
    BY <2>3, <2>6
  <2>10. r # << >>
    BY <2>3, <1>3
  <2> QED BY <2>3, <2>5, <2>7, <2>8, <2>9, <2>10 DEF r
<1>5. CASE t > ns[i].time
  <2> DEFINE n == [time |-> t, event |-> <<s>>]
  <2>1. r = InsertAt(ns, i + 1, n)
    BY <1>1, <1>2, <1>3, <1>5
  <2>2. n \in NodeType
    BY DEF NodeType
  <2>3. i + 1 \in 1..(Len(ns) + 1)
    BY <1>1, <1>3
  <2>4. /\ r \in Seq(NodeType) /\ Len(r) = Len(ns) + 1
        /\ \A j \in 1..(Len(ns) + 1) :
             r[j] = IF j < i + 1 THEN ns[j]
                    ELSE IF j = i + 1 THEN n ELSE ns[j - 1]
    <3> DEFINE m == i + 1
    <3> HIDE DEF n, m
    <3>1. m \in 1..(Len(ns) + 1)
      BY <2>3 DEF m
    <3>2. /\ InsertAt(ns, m, n) \in Seq(NodeType)
          /\ Len(InsertAt(ns, m, n)) = Len(ns) + 1
          /\ \A j \in 1..(Len(ns) + 1) :
               InsertAt(ns, m, n)[j] =
                 IF j < m THEN ns[j] ELSE IF j = m THEN n ELSE ns[j - 1]
      <4>1. \A S : \A q \in Seq(S) : \A k \in 1..(Len(q) + 1), e \in S :
              /\ InsertAt(q, k, e) \in Seq(S)
              /\ Len(InsertAt(q, k, e)) = Len(q) + 1
              /\ \A j \in 1..(Len(q) + 1) :
                   InsertAt(q, k, e)[j] =
                     IF j < k THEN q[j] ELSE IF j = k THEN e ELSE q[j - 1]
        BY InsertAtProperties, Zenon
      <4> QED BY <4>1, <3>1, <2>2, SMTT(30)
    <3> QED BY <2>1, <3>2 DEF m
  <2>5. /\ \A j \in 1..i : r[j] = ns[j]
        /\ r[i + 1].time = t /\ r[i + 1].event = <<s>>
        /\ \A j \in (i + 2)..(Len(ns) + 1) : r[j] = ns[j - 1] /\ j - 1 > i /\ j - 1 \in 1..Len(ns)
    BY <2>4, <2>3, <1>1, <1>3
  <2>6. \A j \in 1..(Len(ns) + 1) : j \in 1..i \/ j = i + 1 \/ j \in (i + 2)..(Len(ns) + 1)
    BY <1>1, <1>3
  <2>7. \A j \in 1..i : ns[j].time < t
    BY <1>1, <1>3, <1>5
  <2>8. InOrder(r)
    <3> SUFFICES ASSUME NEW j \in 1..(Len(ns) + 1), NEW k \in 1..(Len(ns) + 1), j < k
                 PROVE  r[j].time < r[k].time
      BY <2>4 DEF InOrder
    <3>1. CASE k \in 1..i
      BY <3>1, <2>5, <1>1, <1>3 DEF InOrder
    <3>2. CASE k = i + 1
      BY <3>2, <2>5, <2>7, <1>1, <1>3
    <3>3. CASE k \in (i + 2)..(Len(ns) + 1)
      <4>1. r[k] = ns[k - 1] /\ k - 1 \in 1..Len(ns) /\ k - 1 > i
        BY <3>3, <2>5, Zenon
      <4>5. ns[k - 1].time > t
        BY <4>1, <1>1
      <4>2. CASE j \in 1..i
        <5>1. r[j].time < t BY <4>2, <2>5, <2>7
        <5>2. ns[j] = r[j] /\ ns[j].time \in Nat BY <4>2, <2>5, <1>1, <1>3
        <5> QED BY <5>1, <5>2, <4>1, <4>5, <1>3
      <4>3. CASE j = i + 1
        BY <4>1, <4>5, <4>3, <2>5
      <4>4. CASE j \in (i + 2)..(Len(ns) + 1)
        <5>1. r[j] = ns[j - 1] /\ j - 1 \in 1..Len(ns) /\ j - 1 < k - 1
          BY <4>4, <2>5, <1>1, <1>3, <4>1
        <5> QED BY <5>1, <4>1, <4>5 DEF InOrder
      <4> QED BY <4>2, <4>3, <4>4, <2>6
    <3> QED BY <3>1, <3>2, <3>3, <2>6
  <2>9. ASSUME NEW u
        PROVE  ListedAt(r, u) = IF u = t THEN Append(ListedAt(ns, t), s)
                                ELSE ListedAt(ns, u)
    <3>1. CASE u = t
      <4>1. \A j \in 1..Len(ns) : ns[j].time # t
        BY <1>1, <1>3, <2>7
      <4>2. ListedAt(ns, t) = << >>
        BY <4>1, ListedAtNode
      <4>3. ListedAt(r, t) = <<s>>
        <5>1. i + 1 \in DOMAIN r BY <2>3, <2>4
        <5> QED BY <5>1, <2>4, <2>5, <2>8, ListedAtNode
      <4>4. Append(<< >>, s) = <<s>>
        OBVIOUS
      <4> QED BY <4>2, <4>3, <4>4, <3>1
    <3>2. CASE u # t /\ \E j \in 1..Len(ns) : ns[j].time = u
      <4>1. PICK j \in 1..Len(ns) : ns[j].time = u
        BY <3>2
      <4>2. PICK k \in 1..(Len(ns) + 1) : r[k] = ns[j]
        <5>1. CASE j <= i
          <6>1. j \in 1..i /\ j \in 1..(Len(ns) + 1)
            BY <5>1, <1>1, <1>3
          <6> QED BY <6>1, <2>5
        <5>2. CASE j > i
          <6>1. j + 1 \in (i + 2)..(Len(ns) + 1) /\ j + 1 \in 1..(Len(ns) + 1)
                /\ (j + 1) - 1 = j
            BY <5>2, <1>1, <1>3
          <6> QED BY <6>1, <2>5
        <5> QED BY <5>1, <5>2, <1>1, <1>3
      <4>3. ListedAt(r, r[k].time) = r[k].event
        BY <4>2, <2>4, <2>8, ListedAtNode
      <4>4. ListedAt(ns, ns[j].time) = ns[j].event
        BY <4>1, ListedAtNode
      <4> QED BY <4>1, <4>2, <4>3, <4>4, <3>2
    <3>3. CASE u # t /\ \A j \in 1..Len(ns) : ns[j].time # u
      <4>1. ListedAt(ns, u) = << >> BY <3>3, ListedAtNode
      <4>2. ASSUME NEW j \in 1..(Len(ns) + 1) PROVE r[j].time # u
        <5>1. CASE j \in 1..i
          <6>1. j \in 1..Len(ns) BY <5>1, <1>1, <1>3
          <6> QED BY <6>1, <5>1, <3>3, <2>5
        <5>2. CASE j = i + 1 BY <5>2, <3>3, <2>5
        <5>3. CASE j \in (i + 2)..(Len(ns) + 1) BY <5>3, <3>3, <2>5
        <5> QED BY <5>1, <5>2, <5>3, <2>6
      <4>3. ListedAt(r, u) = << >> BY <4>2, <2>4, <2>8, ListedAtNode
      <4> QED BY <4>1, <4>3, <3>3
    <3> QED BY <3>1, <3>2, <3>3
  <2>10. r[1] = ns[1] /\ t # ns[1].time
    BY <2>5, <2>7, <1>1, <1>3
  <2>11. \A k \in DOMAIN r : k > 1 =>
           \/ r[k].event # << >>
           \/ \E j \in DOMAIN ns : j > 1 /\ r[k] = ns[j]
    <3> SUFFICES ASSUME NEW k \in 1..(Len(ns) + 1), k > 1
                 PROVE  \/ r[k].event # << >>
                        \/ \E j \in 1..Len(ns) : j > 1 /\ r[k] = ns[j]
      BY <2>4
    <3>1. CASE k \in 1..i BY <3>1, <2>5, <1>1, <1>3
    <3>2. CASE k = i + 1 BY <3>2, <2>5
    <3>3. CASE k \in (i + 2)..(Len(ns) + 1) BY <3>3, <2>5, <1>1, <1>3
    <3> QED BY <3>1, <3>2, <3>3, <2>6
  <2>12. r # << >>
    BY <2>4, <1>3
  <2> QED BY <2>4, <2>8, <2>9, <2>10, <2>11, <2>12 DEF r
<1> QED BY <1>1, <1>3, <1>4, <1>5

\* What add_event does to the first node.
LEMMA FirstScheduled ==
  ASSUME NEW ns \in Seq(NodeType), ns # << >>, InOrder(ns),
         NEW t \in Times, ns[1].time <= t, NEW s \in Stmts
  PROVE  /\ Scheduled(ns, t, s) # << >>
         /\ Scheduled(ns, t, s)[1] =
              IF t = ns[1].time THEN [ns[1] EXCEPT !.event = Append(@, s)] ELSE ns[1]
BY ScheduledProperties, ZenonT(60)

\* The last of these facts on its own.
LEMMA ScheduledListed ==
  ASSUME NEW ns \in Seq(NodeType), ns # << >>, InOrder(ns),
         NEW t \in Times, ns[1].time <= t, NEW s \in Stmts, NEW u
  PROVE  ListedAt(Scheduled(ns, t, s), u) =
           IF u = t THEN Append(ListedAt(ns, t), s) ELSE ListedAt(ns, u)
<1>1. \A v : ListedAt(Scheduled(ns, t, s), v) =
        IF v = t THEN Append(ListedAt(ns, t), s) ELSE ListedAt(ns, v)
  BY ScheduledProperties, ZenonT(60)
<1> QED BY <1>1, Zenon
-----------------------------------------------------------------------------
(***************************************************************************)
(* The inductive invariant.                                                *)
(***************************************************************************)
\* The wheel the constructor makes satisfies the invariant.
LEMMA InitInv == Init => WheelInv
<1> SUFFICES ASSUME Init PROVE WheelInv
  OBVIOUS
<1> DEFINE n == [time |-> 0, event |-> << >>]
<1>1. 0 \in Times
  BY TimeWheelAssumption DEF Times
<1>2. n \in NodeType
  BY <1>1 DEF NodeType
<1>3. node = <<n>> /\ Len(node) = 1 /\ node[1] = n
  BY DEF Init
<1>4. WheelTypeOK
  <2>1. node \in Seq(NodeType)
    <3> HIDE DEF n
    <3> QED BY <1>2, <1>3
  <2> QED BY <1>1, <2>1 DEF Init, WheelTypeOK
<1>5. \A i, j \in DOMAIN node : ~(i < j)
  BY <1>3
<1>6. ClockInStep /\ NoIdleNode
  BY <1>3 DEF Init, ClockInStep, NoIdleNode, Elaborating
<1> QED BY <1>4, <1>5, <1>6 DEF WheelInv, Sorted, InOrder

\* What add_event finds when it is called: a first node whose time is not
\* after the time it is called with.
LEMMA AddEventApplies ==
  ASSUME WheelInv, NEW t \in Times,
         (Elaborating /\ t = 0) \/ (handling /\ t >= latest)
  PROVE  /\ node \in Seq(NodeType) /\ node # << >> /\ InOrder(node)
         /\ node[1].time <= t
<1>1. node \in Seq(NodeType) /\ InOrder(node) /\ latest \in Nat /\ t \in Nat
  BY TimesNat DEF WheelInv, WheelTypeOK, Sorted
<1>2. CASE Elaborating /\ t = 0
  BY <1>1, <1>2 DEF Elaborating
<1>3. CASE handling /\ t >= latest
  BY <1>1, <1>3 DEF WheelInv, ClockInStep
<1> QED BY <1>1, <1>2, <1>3

\* add_event, called as the setup and the handler call it, keeps the
\* invariant.
LEMMA AddEventInv ==
  ASSUME WheelInv, NEW t \in Times, NEW s \in Stmts, AddEvent(t, s)
  PROVE  WheelInv'
<1>1. (Elaborating /\ t = 0) \/ (handling /\ t >= latest)
  BY DEF AddEvent
<1>2. /\ node \in Seq(NodeType) /\ node # << >> /\ InOrder(node)
      /\ node[1].time <= t
  BY <1>1, AddEventApplies
<1>3. node' = Scheduled(node, t, s) /\ latest' = latest /\ handling' = handling
  BY DEF AddEvent
<1>4. /\ node' \in Seq(NodeType) /\ node' # << >> /\ InOrder(node')
      /\ node'[1] = IF t = node[1].time
                    THEN [node[1] EXCEPT !.event = Append(@, s)] ELSE node[1]
      /\ \A k \in DOMAIN node' : k > 1 =>
           \/ node'[k].event # << >>
           \/ \E j \in DOMAIN node : j > 1 /\ node'[k] = node[j]
  BY <1>2, <1>3, ScheduledProperties, SMTT(30)
<1>5. 1 \in 1..Len(node) /\ node[1] \in NodeType
  <2>1. Len(node) \in Nat /\ Len(node) # 0 BY <1>2, LenProperties, EmptySeq
  <2> QED BY <2>1, <1>2, NodeFields
<1>6. node'[1].time = node[1].time
  BY <1>4, <1>5 DEF NodeType
<1>7. WheelTypeOK' /\ Sorted'
  BY <1>3, <1>4 DEF WheelInv, WheelTypeOK, Sorted
<1>8. ClockInStep'
  <2>1. handling => node'[1].time = latest
    BY <1>6 DEF WheelInv, ClockInStep
  <2>2. handling' \/ Elaborating'
    BY <1>1, <1>3, <1>4, <1>6 DEF Elaborating
  <2>3. Elaborating' => latest' = 0
    BY <1>1, <1>3 DEF Elaborating, WheelInv, ClockInStep
  <2> QED BY <1>3, <1>4, <2>1, <2>2, <2>3 DEF ClockInStep
<1>9. NoIdleNode'
  <2> SUFFICES ASSUME NEW k \in DOMAIN node', node'[k].event = << >>
               PROVE  k = 1 /\ (handling \/ node'[1].time = 0)
    BY <1>3 DEF NoIdleNode
  <2>1. k = 1
    <3>1. ~(k > 1) BY <1>4 DEF WheelInv, NoIdleNode
    <3> QED BY <3>1, <1>4, LenProperties
  <2>2. handling \/ node[1].time = 0
    BY <1>1 DEF Elaborating
  <2> QED BY <2>1, <2>2, <1>6
<1> QED BY <1>7, <1>8, <1>9 DEF WheelInv

\* Taking the first node keeps the invariant: the clock moves to its time.
LEMMA BeginInv == WheelInv /\ Begin => WheelInv'
<1> SUFFICES ASSUME WheelInv, Begin PROVE WheelInv'
  OBVIOUS
<1>1. node' = node /\ node # << >> /\ handling' = TRUE /\ ~handling
  BY DEF Begin
<1>2. node \in Seq(NodeType) /\ latest \in Times /\ latest \in Nat
  BY TimesNat DEF WheelInv, WheelTypeOK
<1>3. 1 \in DOMAIN node /\ node[1].time \in Times /\ node[1].time \in Nat
  <2>1. Len(node) \in Nat /\ Len(node) # 0 BY <1>1, <1>2, LenProperties, EmptySeq
  <2> QED BY <2>1, <1>2, NodeFields
<1>4. latest' = node[1].time \/ (latest' = latest /\ node[1].time <= latest)
  BY <1>2, <1>3 DEF Begin
<1>5. latest' = node[1].time
  BY <1>1, <1>2, <1>3, <1>4 DEF WheelInv, ClockInStep, Elaborating
<1>6. \A i \in DOMAIN node : node[i].event = << >> => i = 1
  BY DEF WheelInv, NoIdleNode
<1>7. ClockInStep'
  BY <1>1, <1>5 DEF ClockInStep, Elaborating
<1>8. WheelTypeOK' /\ Sorted'
  BY <1>1, <1>2, <1>3, <1>5 DEF WheelInv, WheelTypeOK, Sorted
<1> QED BY <1>1, <1>6, <1>7, <1>8 DEF WheelInv, NoIdleNode

\* The node list after the handler has removed the first statement.
LEMMA Popped ==
  ASSUME WheelInv, handling, node[1].event # << >>
  PROVE  LET ns == [node EXCEPT ![1].event = Tail(@)]
         IN  /\ ns \in Seq(NodeType) /\ ns # << >> /\ InOrder(ns)
             /\ Len(ns) = Len(node)
             /\ ns[1].time = latest /\ latest \in Times
             /\ ns[1].event = Tail(node[1].event)
             /\ \A j \in 1..Len(node) : ns[j].time = node[j].time /\ (j > 1 => ns[j] = node[j])
             /\ Head(node[1].event) \in Stmts
<1> DEFINE ns == [node EXCEPT ![1].event = Tail(@)]
           n == [node[1] EXCEPT !.event = Tail(@)]
<1>1. node \in Seq(NodeType) /\ node # << >> /\ node[1].time = latest /\ InOrder(node)
      /\ latest \in Times
  BY DEF WheelInv, WheelTypeOK, ClockInStep, Sorted
<1>2. Len(node) \in Nat /\ 1 \in 1..Len(node)
  <2>1. Len(node) \in Nat /\ Len(node) # 0 BY <1>1, LenProperties, EmptySeq
  <2> QED BY <2>1
<1>3. node[1] \in NodeType /\ node[1].event \in Seq(Stmts)
  BY <1>1, <1>2, NodeFields
<1>4. Tail(node[1].event) \in Seq(Stmts) /\ Head(node[1].event) \in Stmts
  BY <1>3, HeadTailProperties
<1>5. n \in NodeType /\ n.time = node[1].time /\ n.event = Tail(node[1].event)
  BY <1>3, <1>4 DEF NodeType
<1>6. ns = [node EXCEPT ![1] = n]
  OBVIOUS
<1> HIDE DEF n, ns
<1>7. /\ ns \in Seq(NodeType) /\ Len(ns) = Len(node)
      /\ \A j \in 1..Len(node) : ns[j] = IF j = 1 THEN n ELSE node[j]
  BY <1>1, <1>2, <1>5, <1>6, ExceptSeq
<1>8. \A j \in 1..Len(node) : ns[j].time = node[j].time
  BY <1>5, <1>7
<1>9. InOrder(ns)
  BY <1>1, <1>7, <1>8 DEF InOrder
<1>10. ns # << >>
  BY <1>2, <1>7
<1> QED BY <1>1, <1>2, <1>4, <1>5, <1>7, <1>8, <1>9, <1>10 DEF ns

\* Removing the statement just triggered keeps the invariant.
LEMMA FireInv == WheelInv /\ Fire => WheelInv'
<1> SUFFICES ASSUME WheelInv, Fire PROVE WheelInv'
  OBVIOUS
<1>1. /\ node' \in Seq(NodeType) /\ node' # << >> /\ InOrder(node')
      /\ Len(node') = Len(node) /\ node'[1].time = latest
      /\ \A j \in 1..Len(node) : j > 1 => node'[j] = node[j]
      /\ latest' = latest /\ handling' = handling /\ handling
  BY Popped DEF Fire
<1>2. WheelTypeOK' /\ Sorted' /\ ClockInStep'
  BY <1>1 DEF WheelInv, WheelTypeOK, Sorted, ClockInStep, Elaborating
<1>3. NoIdleNode'
  <2> SUFFICES ASSUME NEW i \in 1..Len(node), node'[i].event = << >>
               PROVE  i = 1
    BY <1>1 DEF NoIdleNode
  <2>1. i > 1 => node[i].event = << >>
    BY <1>1
  <2> QED BY <2>1, LenProperties DEF WheelInv, NoIdleNode
<1> QED BY <1>2, <1>3 DEF WheelInv

\* Scheduling it again for the current time keeps the invariant: it goes to
\* the node being handled.
LEMMA FireAgainInv == WheelInv /\ FireAgain => WheelInv'
<1> SUFFICES ASSUME WheelInv, FireAgain PROVE WheelInv'
  OBVIOUS
<1> DEFINE ns == [node EXCEPT ![1].event = Tail(@)]
           s == Head(node[1].event)
<1>1. /\ node' = Scheduled(ns, latest, s)
      /\ latest' = latest /\ handling' = handling /\ handling
      /\ node[1].event # << >>
  BY DEF FireAgain
<1>2. /\ ns \in Seq(NodeType) /\ ns # << >> /\ InOrder(ns)
      /\ ns[1].time = latest /\ latest \in Times /\ s \in Stmts
      /\ Len(ns) = Len(node)
      /\ \A j \in 1..Len(node) : j > 1 => ns[j] = node[j]
  BY <1>1, Popped
<1>3. ns[1] \in NodeType /\ ns[1].time <= latest
  <2>1. Len(ns) \in Nat /\ Len(ns) # 0 BY <1>2, LenProperties, EmptySeq
  <2>2. latest \in Nat BY <1>2, TimesNat
  <2> QED BY <2>1, <2>2, <1>2, NodeFields
<1> HIDE DEF ns, s
<1>4. /\ node' \in Seq(NodeType) /\ node' # << >> /\ InOrder(node')
      /\ node'[1] = IF latest = ns[1].time
                    THEN [ns[1] EXCEPT !.event = Append(@, s)] ELSE ns[1]
      /\ \A k \in DOMAIN node' : k > 1 =>
           \/ node'[k].event # << >>
           \/ \E j \in DOMAIN ns : j > 1 /\ node'[k] = ns[j]
  <2>1. node' = Scheduled(ns, latest, s) BY <1>1
  <2>2. LET r == Scheduled(ns, latest, s)
        IN  /\ r \in Seq(NodeType) /\ r # << >> /\ InOrder(r)
            /\ r[1] = IF latest = ns[1].time
                      THEN [ns[1] EXCEPT !.event = Append(@, s)] ELSE ns[1]
            /\ \A k \in DOMAIN r : k > 1 =>
                 \/ r[k].event # << >>
                 \/ \E j \in DOMAIN ns : j > 1 /\ r[k] = ns[j]
    BY <1>2, <1>3, ScheduledProperties, SMTT(30)
  <2> QED BY <2>1, <2>2
<1>5. node'[1].time = latest
  BY <1>2, <1>3, <1>4 DEF NodeType
<1>6. WheelTypeOK' /\ Sorted' /\ ClockInStep'
  BY <1>1, <1>4, <1>5 DEF WheelInv, WheelTypeOK, Sorted, ClockInStep, Elaborating
<1>7. NoIdleNode'
  <2> SUFFICES ASSUME NEW k \in DOMAIN node', node'[k].event = << >>
               PROVE  k = 1
    BY <1>1 DEF NoIdleNode
  <2>1. ~(k > 1)
    <3> SUFFICES ASSUME k > 1 PROVE FALSE
      OBVIOUS
    <3>1. PICK j \in DOMAIN ns : j > 1 /\ node'[k] = ns[j]
      BY <1>4
    <3>2. j \in DOMAIN node /\ node[j].event = << >>
      BY <3>1, <1>2 DEF WheelInv, WheelTypeOK
    <3> QED BY <3>1, <3>2, <1>2 DEF WheelInv, NoIdleNode
  <2> QED BY <2>1, <1>4, LenProperties
<1> QED BY <1>6, <1>7 DEF WheelInv

\* What is left once the node is removed is due later and lists something.
LEMMA EndLater ==
  ASSUME WheelInv, End
  PROVE  /\ node' \in Seq(NodeType) /\ InOrder(node')
         /\ \A i \in DOMAIN node' : node'[i].time > latest /\ node'[i].time # 0 /\ node'[i].event # << >>
<1>1. /\ node \in Seq(NodeType) /\ node # << >> /\ node[1].time = latest
      /\ node' = Tail(node) /\ latest \in Times
  BY DEF End, WheelInv, WheelTypeOK, ClockInStep
<1>2. /\ node' \in Seq(NodeType) /\ Len(node') = Len(node) - 1
      /\ \A i \in 1..Len(node') : node'[i] = node[i + 1]
      /\ Len(node) \in Nat /\ Len(node') \in Nat
  BY <1>1, HeadTailProperties, LenProperties
<1>3. \A i \in 1..Len(node') : i + 1 \in 1..Len(node) /\ i \in Nat
  BY <1>2
<1>4. InOrder(node')
  <2> SUFFICES ASSUME NEW i \in 1..Len(node'), NEW j \in 1..Len(node'), i < j
               PROVE  node'[i].time < node'[j].time
    BY <1>2 DEF InOrder
  <2>1. i + 1 \in 1..Len(node) /\ j + 1 \in 1..Len(node) /\ i + 1 < j + 1
    BY <1>3
  <2>2. node[i + 1].time < node[j + 1].time
    BY <2>1 DEF WheelInv, Sorted, InOrder
  <2> QED BY <2>2, <1>2
<1>5. ASSUME NEW i \in 1..Len(node') PROVE node'[i].time > latest /\ node'[i].time # 0
  <2>1. 1 \in 1..Len(node) /\ 1 < i + 1 /\ i + 1 \in 1..Len(node) BY <1>2, <1>3
  <2>2. node[1].time < node[i + 1].time BY <2>1 DEF WheelInv, Sorted, InOrder
  <2>3. node[i + 1].time \in Nat /\ latest \in Nat BY <2>1, <1>1, NodeFields, TimesNat
  <2> QED BY <1>1, <1>2, <2>2, <2>3
<1>6. ASSUME NEW i \in 1..Len(node'), node[i + 1].event = << >> PROVE FALSE
  <2>1. i + 1 = 1 BY <1>3, <1>6 DEF WheelInv, NoIdleNode
  <2> QED BY <2>1, <1>3
<1> QED BY <1>2, <1>4, <1>5, <1>6

\* Removing the node once its list is empty keeps the invariant.
LEMMA EndInv == WheelInv /\ End => WheelInv'
<1> SUFFICES ASSUME WheelInv, End PROVE WheelInv'
  OBVIOUS
<1>1. /\ node' \in Seq(NodeType) /\ InOrder(node')
      /\ \A i \in DOMAIN node' : node'[i].time > latest /\ node'[i].time # 0 /\ node'[i].event # << >>
  BY EndLater
<1>2. ~handling' /\ handling' \in BOOLEAN /\ latest' = latest /\ latest \in Times
  BY DEF End, WheelInv, WheelTypeOK
<1>3. ClockInStep'
  <2>1. node' # << >> => 1 \in DOMAIN node' BY <1>1, EmptySeq, LenProperties
  <2>2. ~Elaborating' BY <1>1, <2>1 DEF Elaborating
  <2> QED BY <1>1, <1>2, <2>2 DEF ClockInStep
<1> QED BY <1>1, <1>2, <1>3 DEF WheelInv, WheelTypeOK, Sorted, NoIdleNode

\* Every step of the wheel keeps it.
LEMMA NextWheelInv == WheelInv /\ [Next]_wheelVars => WheelInv'
<1> SUFFICES ASSUME WheelInv, [Next]_wheelVars PROVE WheelInv'
  OBVIOUS
<1>1. ASSUME NEW t \in Times, NEW s \in Stmts, AddEvent(t, s) PROVE WheelInv'
  BY <1>1, AddEventInv
<1>2. CASE Begin BY <1>2, BeginInv
<1>3. CASE Fire BY <1>3, FireInv
<1>4. CASE FireAgain BY <1>4, FireAgainInv
<1>5. CASE End BY <1>5, EndInv
<1>6. CASE UNCHANGED wheelVars
  BY <1>6 DEF wheelVars, WheelInv, WheelTypeOK, Sorted, ClockInStep, NoIdleNode, Elaborating
<1> QED BY <1>1, <1>2, <1>3, <1>4, <1>5, <1>6 DEF Next

\* The nodes stay typed and in order, the clock in step with them, and no node
\* is left without a statement: for every set of statements and every bound.
THEOREM WheelInvariant == Spec => []WheelInv
BY InitInv, NextWheelInv, PTL DEF Spec
-----------------------------------------------------------------------------
(***************************************************************************)
(* The refinement: the wheel implements the agenda.                        *)
(***************************************************************************)
AgendaOf(ns) == [t \in Times |-> ListedAt(ns, t)]

\* The first node lists what is due at the present time.
LEMMA ListedNow ==
  ASSUME WheelInv, handling
  PROVE  /\ latest \in Times
         /\ ListedAt(node, latest) = node[1].event
         /\ node[1].event \in Seq(Stmts)
<1>1. /\ node \in Seq(NodeType) /\ node # << >> /\ InOrder(node)
      /\ node[1].time = latest /\ latest \in Times
  BY DEF WheelInv, WheelTypeOK, Sorted, ClockInStep
<1>2. 1 \in DOMAIN node
  BY <1>1, EmptySeq, LenProperties
<1> QED BY <1>1, <1>2, ListedAtNode, NodeFields

\* Removing the first statement of the first node removes the one that has
\* been due longest.
LEMMA ListedAfterPop ==
  ASSUME WheelInv, handling, node[1].event # << >>
  PROVE  LET ns == [node EXCEPT ![1].event = Tail(@)]
         IN  \A u : ListedAt(ns, u) = IF u = latest THEN Tail(ListedAt(node, latest))
                                      ELSE ListedAt(node, u)
<1> DEFINE ns == [node EXCEPT ![1].event = Tail(@)]
<1>1. /\ ns \in Seq(NodeType) /\ ns # << >> /\ InOrder(ns)
      /\ Len(ns) = Len(node)
      /\ ns[1].time = latest
      /\ ns[1].event = Tail(node[1].event)
      /\ \A j \in 1..Len(node) : ns[j].time = node[j].time /\ (j > 1 => ns[j] = node[j])
  BY Popped
<1> HIDE DEF ns
<1>2. node \in Seq(NodeType) /\ InOrder(node) /\ DOMAIN ns = 1..Len(node) /\ DOMAIN node = 1..Len(node)
  BY <1>1 DEF WheelInv, WheelTypeOK, Sorted
<1>3. 1 \in DOMAIN ns
  BY <1>1, EmptySeq, LenProperties
<1>4. ASSUME NEW u
      PROVE  ListedAt(ns, u) = IF u = latest THEN Tail(ListedAt(node, latest))
                               ELSE ListedAt(node, u)
  <2>1. CASE u = latest
    <3>1. ListedAt(ns, ns[1].time) = ns[1].event
      BY <1>1, <1>3, ListedAtNode
    <3> QED BY <3>1, <2>1, <1>1, ListedNow
  <2>2. CASE u # latest /\ \E j \in 1..Len(node) : node[j].time = u
    <3>1. PICK j \in 1..Len(node) : node[j].time = u
      BY <2>2
    <3>2. j > 1
      BY <3>1, <2>2, <1>1
    <3>3. ListedAt(ns, ns[j].time) = ns[j].event
      BY <1>1, <1>2, <3>1, ListedAtNode
    <3>4. ListedAt(node, node[j].time) = node[j].event
      BY <1>2, <3>1, ListedAtNode
    <3> QED BY <3>1, <3>2, <3>3, <3>4, <2>2, <1>1
  <2>3. CASE u # latest /\ \A j \in 1..Len(node) : node[j].time # u
    <3>1. ListedAt(node, u) = << >> BY <2>3, <1>2, ListedAtNode
    <3>2. \A j \in DOMAIN ns : ns[j].time # u BY <2>3, <1>1, <1>2
    <3>3. ListedAt(ns, u) = << >> BY <3>2, <1>1, ListedAtNode
    <3> QED BY <3>1, <3>3, <2>3
  <2> QED BY <2>1, <2>2, <2>3
<1> QED BY <1>4 DEF ns

\* The new wheel is an empty agenda at time 0.
LEMMA InitAgenda == Init => Abstract!Init
<1> SUFFICES ASSUME Init PROVE Abstract!Init
  OBVIOUS
<1>1. ASSUME NEW t \in Times PROVE ListedAt(node, t) = << >>
  <2>1. node \in Seq(NodeType) /\ InOrder(node)
    BY InitInv DEF WheelInv, WheelTypeOK, Sorted
  <2>2. \A i \in DOMAIN node : node[i].event = << >>
    BY DEF Init
  <2>3. CASE \E i \in DOMAIN node : node[i].time = t
    BY <2>1, <2>2, <2>3, ListedAtNode
  <2>4. CASE \A i \in DOMAIN node : node[i].time # t
    BY <2>1, <2>4, ListedAtNode
  <2> QED BY <2>3, <2>4
<1> QED BY <1>1 DEF Init, Abstract!Init, Abstract!Times, Times

\* add_event puts the statement last on the agenda of its time.
LEMMA AddEventPuts ==
  ASSUME WheelInv, NEW t \in Times, NEW s \in Stmts, AddEvent(t, s)
  PROVE  Abstract!Put(t, s)
<1>1. (Elaborating /\ t = 0) \/ (handling /\ t >= latest)
  BY DEF AddEvent
<1>2. /\ node \in Seq(NodeType) /\ node # << >> /\ InOrder(node)
      /\ node[1].time <= t
  BY <1>1, AddEventApplies
<1>3. node' = Scheduled(node, t, s) /\ latest' = latest
  BY DEF AddEvent
<1>4. \A u : ListedAt(node', u) = IF u = t THEN Append(ListedAt(node, t), s)
                                  ELSE ListedAt(node, u)
  <2>1. \A u : ListedAt(Scheduled(node, t, s), u) =
                 IF u = t THEN Append(ListedAt(node, t), s) ELSE ListedAt(node, u)
    BY <1>2, ScheduledListed, Zenon
  <2> QED BY <1>3, <2>1, Zenon
<1>5. t >= latest
  BY <1>1, TimesNat DEF WheelInv, ClockInStep
<1>6. AgendaOf(node)' = [AgendaOf(node) EXCEPT ![t] = Append(@, s)]
  BY <1>4 DEF AgendaOf
<1> QED BY <1>3, <1>5, <1>6 DEF Abstract!Put, AgendaOf

\* Taking the first node advances the agenda to the next time unit with
\* something due, or, for the node of time 0, changes nothing.
LEMMA BeginAdvances ==
  ASSUME WheelInv, Begin
  PROVE  (\E t \in Times : Abstract!Advance(t)) \/ UNCHANGED Abstract!agendaVars
<1>1. node' = node /\ node # << >> /\ ~handling
  BY DEF Begin
<1>2. /\ node \in Seq(NodeType) /\ InOrder(node) /\ latest \in Nat
  BY TimesNat DEF WheelInv, WheelTypeOK, Sorted
<1>3. /\ 1 \in DOMAIN node
      /\ \A i \in DOMAIN node : node[i].time \in Times /\ node[i].time \in Nat
  BY <1>1, <1>2, NodeFields, EmptySeq, LenProperties
<1>4. CASE node[1].time = 0
  <2>1. latest = 0 /\ latest' = 0
    BY <1>1, <1>4 DEF Begin, WheelInv, ClockInStep, Elaborating
  <2> QED BY <2>1, <1>1 DEF Abstract!agendaVars
<1>5. CASE node[1].time # 0
  <2> DEFINE t == node[1].time
  <2>1. t > latest /\ latest' = t
    BY <1>1, <1>2, <1>3, <1>5 DEF Begin, WheelInv, ClockInStep, Elaborating
  <2>2. ListedAt(node, t) # << >>
    <3>1. ListedAt(node, t) = node[1].event
      BY <1>2, <1>3, ListedAtNode
    <3>2. node[1].event # << >>
      BY <1>1, <1>3, <1>5 DEF WheelInv, NoIdleNode
    <3> QED BY <3>1, <3>2
  <2>3. ASSUME NEW u \in Times, u < t PROVE ListedAt(node, u) = << >>
    <3>1. \A i \in DOMAIN node : node[i].time >= t
      <4> SUFFICES ASSUME NEW i \in 1..Len(node), i # 1 PROVE node[i].time >= t
        BY <1>3
      <4>1. 1 < i /\ 1 \in 1..Len(node) BY <1>3
      <4>2. t < node[i].time BY <4>1, <1>2 DEF InOrder
      <4> QED BY <4>2, <1>3
    <3>2. \A i \in DOMAIN node : node[i].time # u
      BY <3>1, <2>3, <1>3, TimesNat
    <3> QED BY <3>2, <1>2, ListedAtNode
  <2>4. t \in Times /\ t \in Abstract!Times
    BY <1>3 DEF Times, Abstract!Times
  <2>5. AgendaOf(node)' = AgendaOf(node)
    BY <1>1 DEF AgendaOf
  <2>6. Abstract!Advance(t)
    <3> HIDE DEF t
    <3> QED BY <2>1, <2>2, <2>3, <2>4, <2>5 DEF Abstract!Advance, AgendaOf, Abstract!Times, Times
  <2> QED BY <2>4, <2>6
<1> QED BY <1>4, <1>5

\* Removing the first statement does what has been due longest.
LEMMA FireDoes ==
  ASSUME WheelInv, Fire
  PROVE  Abstract!Do
<1>1. handling /\ node[1].event # << >> /\ latest' = latest
      /\ node' = [node EXCEPT ![1].event = Tail(@)]
  BY DEF Fire
<1>2. \A u : ListedAt(node', u) = IF u = latest THEN Tail(ListedAt(node, latest))
                                  ELSE ListedAt(node, u)
  BY <1>1, ListedAfterPop
<1>3. latest \in Times /\ ListedAt(node, latest) # << >>
  BY <1>1, ListedNow
<1>4. AgendaOf(node)' = [AgendaOf(node) EXCEPT ![latest] = Tail(@)]
  BY <1>1, <1>2, <1>3 DEF AgendaOf
<1> QED BY <1>1, <1>3, <1>4 DEF Abstract!Do, AgendaOf

\* Scheduling it again for the current time puts it behind the others due.
LEMMA FireAgainDoesAgain ==
  ASSUME WheelInv, FireAgain
  PROVE  Abstract!DoAgain
<1> DEFINE ns == [node EXCEPT ![1].event = Tail(@)]
           s == Head(node[1].event)
<1>1. handling /\ node[1].event # << >> /\ latest' = latest
      /\ node' = Scheduled(ns, latest, s)
  BY DEF FireAgain
<1>2. \A u : ListedAt(ns, u) = IF u = latest THEN Tail(ListedAt(node, latest))
                               ELSE ListedAt(node, u)
  BY <1>1, ListedAfterPop
<1>3. latest \in Times /\ ListedAt(node, latest) # << >> /\ s = Head(ListedAt(node, latest))
  BY <1>1, ListedNow
<1>4. /\ ns \in Seq(NodeType) /\ ns # << >> /\ InOrder(ns)
      /\ ns[1].time = latest /\ s \in Stmts
  BY <1>1, Popped
<1>5. ns[1].time <= latest
  BY <1>3, <1>4, TimesNat
<1> HIDE DEF ns, s
<1>6. \A u : ListedAt(Scheduled(ns, latest, s), u) =
              IF u = latest THEN Append(ListedAt(ns, latest), s) ELSE ListedAt(ns, u)
  BY <1>3, <1>4, <1>5, ScheduledListed, Zenon
<1>7. \A u : ListedAt(node', u) =
               IF u = latest
               THEN Append(Tail(ListedAt(node, latest)), Head(ListedAt(node, latest)))
               ELSE ListedAt(node, u)
  BY <1>1, <1>2, <1>3, <1>6
<1>8. AgendaOf(node)' = [AgendaOf(node) EXCEPT ![latest] = Append(Tail(@), Head(@))]
  BY <1>1, <1>7, <1>3 DEF AgendaOf
<1> QED BY <1>1, <1>3, <1>8 DEF Abstract!DoAgain, AgendaOf

\* The node that is removed had nothing left to list.
LEMMA EndListed ==
  ASSUME WheelInv, End
  PROVE  \A u : ListedAt(node', u) = ListedAt(node, u)
<1>1. handling /\ node[1].event = << >> /\ node' = Tail(node) /\ latest' = latest
  BY DEF End
<1>2. /\ node \in Seq(NodeType) /\ node # << >> /\ InOrder(node)
      /\ node[1].time = latest /\ latest \in Times
  BY <1>1 DEF WheelInv, WheelTypeOK, Sorted, ClockInStep
<1>3. /\ node' \in Seq(NodeType) /\ InOrder(node')
      /\ DOMAIN node' = 1..(Len(node) - 1) /\ DOMAIN node = 1..Len(node)
      /\ Len(node) \in Nat
      /\ \A i \in 1..(Len(node) - 1) : node'[i] = node[i + 1]
  <2>1. InOrder(node') BY EndInv DEF WheelInv, Sorted
  <2>2. Len(node') = Len(node) - 1 /\ node' \in Seq(NodeType) BY <1>1, <1>2, HeadTailProperties
  <2> QED BY <1>1, <1>2, <2>1, <2>2, HeadTailProperties, LenProperties
<1>4. ASSUME NEW u PROVE ListedAt(node', u) = ListedAt(node, u)
  <2>1. CASE \E i \in 1..(Len(node) - 1) : node'[i].time = u
    <3>1. PICK i \in 1..(Len(node) - 1) : node'[i].time = u
      BY <2>1
    <3>2. i + 1 \in DOMAIN node /\ node'[i] = node[i + 1]
      BY <1>3
    <3>3. ListedAt(node', node'[i].time) = node'[i].event
      BY <1>3, ListedAtNode
    <3>4. ListedAt(node, node[i + 1].time) = node[i + 1].event
      BY <1>2, <3>2, ListedAtNode
    <3> QED BY <3>1, <3>2, <3>3, <3>4
  <2>2. CASE \A i \in 1..(Len(node) - 1) : node'[i].time # u
    <3>1. ListedAt(node', u) = << >>
      BY <1>3, <2>2, ListedAtNode
    <3>2. ListedAt(node, u) = << >>
      <4>1. CASE u = latest
        BY <4>1, <1>1, ListedNow
      <4>2. CASE u # latest
        <5>1. ASSUME NEW j \in 1..Len(node), node[j].time = u PROVE FALSE
          <6>1. j # 1 BY <5>1, <4>2, <1>2
          <6>2. j - 1 \in 1..(Len(node) - 1) /\ (j - 1) + 1 = j BY <6>1, <1>3
          <6> QED BY <6>2, <5>1, <2>2, <1>3
        <5> QED BY <5>1, <1>2, <1>3, ListedAtNode
      <4> QED BY <4>1, <4>2
    <3> QED BY <3>1, <3>2
  <2> QED BY <2>1, <2>2
<1> QED BY <1>4

\* Removing it changes nothing of the agenda.
LEMMA EndStutters ==
  ASSUME WheelInv, End
  PROVE  UNCHANGED Abstract!agendaVars
<1>1. latest' = latest
  BY DEF End
<1>2. AgendaOf(node)' = AgendaOf(node)
  BY EndListed DEF AgendaOf
<1> QED BY <1>1, <1>2 DEF Abstract!agendaVars, AgendaOf

\* The wheel implements the agenda: for every set of statements and every
\* bound, nothing scheduled is dropped, triggered at another time than its own,
\* or overtaken by a statement scheduled later for the same time.
THEOREM WheelImplementsAgenda == Spec => ImplementsAgenda
<1>1. WheelInv /\ [Next]_wheelVars => [Abstract!Next]_(Abstract!agendaVars)
  <2> SUFFICES ASSUME WheelInv, [Next]_wheelVars
               PROVE  Abstract!Next \/ UNCHANGED Abstract!agendaVars
    OBVIOUS
  <2>1. ASSUME NEW t \in Times, NEW s \in Stmts, AddEvent(t, s) PROVE Abstract!Next
    BY <2>1, AddEventPuts DEF Abstract!Next, Abstract!Times, Times
  <2>2. CASE Begin BY <2>2, BeginAdvances DEF Abstract!Next, Abstract!Times, Times
  <2>3. CASE Fire BY <2>3, FireDoes DEF Abstract!Next
  <2>4. CASE FireAgain BY <2>4, FireAgainDoesAgain DEF Abstract!Next
  <2>5. CASE End BY <2>5, EndStutters
  <2>6. CASE UNCHANGED wheelVars
    BY <2>6 DEF wheelVars, Abstract!agendaVars
  <2> QED BY <2>1, <2>2, <2>3, <2>4, <2>5, <2>6 DEF Next
<1> QED BY InitAgenda, WheelInvariant, <1>1, PTL DEF Spec, ImplementsAgenda, Abstract!Spec
=============================================================================
