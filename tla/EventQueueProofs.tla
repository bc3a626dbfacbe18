-------------------------- MODULE EventQueueProofs --------------------------
(***************************************************************************)
(* Theorems about the event queue, for every set of events and containers. *)
(***************************************************************************)
EXTENDS EventQueue, TLAPS, SequenceTheorems

\* Each rank names a list, and the strobe list has none.
LEMMA RankedStrata ==
  /\ \A r \in DOMAIN Ranked : Ranked[r] \in Strata /\ Ranked[r] # "strobe"
  /\ "strobe" \in Strata
BY DEF Ranked, Looped, Strata

\* The inductive invariant holds at first: all lists are empty.
LEMMA InitInv == Init => QueueInv
<1> SUFFICES ASSUME Init PROVE QueueInv
  OBVIOUS
<1>1. \A k \in Strata : queue[k] = << >> /\ DOMAIN queue[k] = {}
  BY DEF Init
<1>2. temp = << >> /\ DOMAIN temp = {}
  BY DEF Init
<1>3. QueueTypeOK
  BY DEF Init, QueueTypeOK
<1>4. InOwnStratum /\ OncePerContainer
  BY <1>1 DEF InOwnStratum, OncePerContainer
<1>5. QueuedIffListed
  BY <1>1 DEF Init, QueuedIffListed
<1>6. BatchOncePerContainer
  BY <1>2 DEF BatchOncePerContainer
<1> QED BY <1>3, <1>4, <1>5, <1>6 DEF QueueInv

\* Queuing an event whose container is not queued keeps the invariant: the
\* flag it sets is that of the one new place.
LEMMA AddEventInv ==
  ASSUME QueueInv, NEW e \in Events, AddEvent(e)
  PROVE  QueueInv'
<1> DEFINE s == StratumOf[e]
           c == ContainerOf[e]
<1>1. s \in Strata /\ c \in Containers
  BY EventQueueAssumption
<1>2. /\ queue \in [Strata -> Seq(Events)]
      /\ queued \in [Containers -> BOOLEAN]
      /\ ~queued[c]
      /\ queue' = [queue EXCEPT ![s] = Append(@, e)]
      /\ queued' = [queued EXCEPT ![c] = TRUE]
      /\ temp' = temp /\ stage' = stage
  BY DEF AddEvent, QueueInv, QueueTypeOK
<1>3. \A k \in Strata : queue[k] \in Seq(Events) /\ Len(queue[k]) \in Nat
                        /\ DOMAIN queue[k] = 1..Len(queue[k])
  BY <1>2, LenProperties
<1> DEFINE n == Len(queue[s]) + 1
<1>4. /\ queue'[s] \in Seq(Events) /\ Len(queue'[s]) = n
      /\ \A i \in 1..Len(queue[s]) : queue'[s][i] = queue[s][i]
      /\ queue'[s][n] = e
  <2>1. queue'[s] = Append(queue[s], e)
    BY <1>1, <1>2
  <2> QED BY <2>1, <1>1, <1>3, AppendProperties
<1>5. \A k \in Strata : k # s => queue'[k] = queue[k]
  BY <1>1, <1>2
<1> HIDE DEF s, c
<1>6. QueueTypeOK'
  <2>1. queue' \in [Strata -> Seq(Events)]
    <3>1. DOMAIN queue' = Strata /\ queue' = [k \in Strata |-> queue'[k]]
      BY <1>2
    <3>2. \A k \in Strata : queue'[k] \in Seq(Events)
      BY <1>3, <1>4, <1>5
    <3> QED BY <3>1, <3>2
  <2>2. queued' \in [Containers -> BOOLEAN]
    BY <1>1, <1>2
  <2> QED BY <1>2, <2>1, <2>2 DEF QueueInv, QueueTypeOK
\* A place of the lists afterwards was one before, or is the new last place
\* of list s.
<1>7. \A k \in Strata : \A i \in DOMAIN queue'[k] :
        \/ i \in DOMAIN queue[k] /\ queue'[k][i] = queue[k][i]
        \/ k = s /\ i = n /\ queue'[k][i] = e
  <2> SUFFICES ASSUME NEW k \in Strata, NEW i \in DOMAIN queue'[k]
               PROVE  \/ i \in DOMAIN queue[k] /\ queue'[k][i] = queue[k][i]
                      \/ k = s /\ i = n /\ queue'[k][i] = e
    OBVIOUS
  <2>1. CASE k = s
    <3>1. DOMAIN queue'[s] = 1..n BY <1>4, LenProperties
    <3>2. i \in 1..Len(queue[s]) \/ i = n BY <3>1, <2>1, <1>1, <1>3
    <3> QED BY <3>2, <2>1, <1>1, <1>3, <1>4
  <2>2. CASE k # s BY <2>2, <1>5
  <2> QED BY <2>1, <2>2
\* No list has an event of c.
<1>8. \A k \in Strata : \A i \in DOMAIN queue[k] : ContainerOf[queue[k][i]] # c
  BY <1>1, <1>2 DEF QueueInv, QueuedIffListed
<1>9. InOwnStratum'
  BY <1>7 DEF InOwnStratum, QueueInv, s
<1>10. OncePerContainer'
  <2> SUFFICES ASSUME NEW k \in Strata, NEW l \in Strata,
                      NEW i \in DOMAIN queue'[k], NEW j \in DOMAIN queue'[l],
                      ContainerOf[queue'[k][i]] = ContainerOf[queue'[l][j]]
               PROVE  k = l /\ i = j
    BY DEF OncePerContainer
  <2>1. CASE i \in DOMAIN queue[k] /\ queue'[k][i] = queue[k][i]
             /\ j \in DOMAIN queue[l] /\ queue'[l][j] = queue[l][j]
    BY <2>1 DEF QueueInv, OncePerContainer
  <2>2. CASE i \in DOMAIN queue[k] /\ queue'[k][i] = queue[k][i]
             /\ l = s /\ j = n /\ queue'[l][j] = e
    BY <2>2, <1>8 DEF c
  <2>3. CASE k = s /\ i = n /\ queue'[k][i] = e
             /\ j \in DOMAIN queue[l] /\ queue'[l][j] = queue[l][j]
    BY <2>3, <1>8 DEF c
  <2>4. CASE k = s /\ i = n /\ l = s /\ j = n
    BY <2>4
  <2> QED BY <2>1, <2>2, <2>3, <2>4, <1>7
<1>11. QueuedIffListed'
  <2> SUFFICES ASSUME NEW d \in Containers
               PROVE  queued'[d] <=> \E k \in Strata : \E i \in DOMAIN queue'[k] :
                                       ContainerOf[queue'[k][i]] = d
    BY DEF QueuedIffListed
  <2>1. \A k \in Strata : \A i \in DOMAIN queue[k] :
          i \in DOMAIN queue'[k] /\ queue'[k][i] = queue[k][i]
    <3> SUFFICES ASSUME NEW k \in Strata, NEW i \in DOMAIN queue[k]
                 PROVE  i \in DOMAIN queue'[k] /\ queue'[k][i] = queue[k][i]
      OBVIOUS
    <3>1. CASE k = s
      <4>1. DOMAIN queue'[s] = 1..n BY <1>4, LenProperties
      <4> QED BY <4>1, <3>1, <1>3, <1>4
    <3>2. CASE k # s BY <3>2, <1>5
    <3> QED BY <3>1, <3>2
  <2>2. n \in DOMAIN queue'[s]
    <3>1. DOMAIN queue'[s] = 1..n BY <1>4, LenProperties
    <3> QED BY <3>1, <1>1, <1>3
  <2>3. CASE d = c
    <3>1. queued'[d] BY <2>3, <1>1, <1>2
    <3>2. ContainerOf[queue'[s][n]] = d BY <2>3, <1>4 DEF c
    <3> QED BY <3>1, <3>2, <2>2, <1>1
  <2>4. CASE d # c
    <3>1. queued'[d] <=> queued[d] BY <2>4, <1>1, <1>2
    <3>2. queued[d] <=> \E k \in Strata : \E i \in DOMAIN queue[k] :
                          ContainerOf[queue[k][i]] = d
      BY DEF QueueInv, QueuedIffListed
    <3>3. ASSUME NEW k \in Strata, NEW i \in DOMAIN queue'[k],
                 ContainerOf[queue'[k][i]] = d
          PROVE  i \in DOMAIN queue[k] /\ ContainerOf[queue[k][i]] = d
      BY <3>3, <2>4, <1>7 DEF c
    <3> QED BY <3>1, <3>2, <3>3, <2>1
  <2> QED BY <2>3, <2>4
<1>12. BatchOncePerContainer'
  BY <1>2 DEF QueueInv, BatchOncePerContainer
<1> QED BY <1>6, <1>9, <1>10, <1>11, <1>12 DEF QueueInv

\* Moving a whole list into the empty batch keeps the invariant.
LEMMA MoveEventsInv ==
  ASSUME QueueInv, NEW k \in Strata, MoveEvents(k),
         stage' \in {"idle", "loop", "strobe"}
  PROVE  QueueInv'
<1>1. /\ queue \in [Strata -> Seq(Events)]
      /\ temp' = queue[k]
      /\ queue' = [queue EXCEPT ![k] = << >>]
      /\ queued' = [c \in Containers |->
                      /\ queued[c]
                      /\ \A i \in DOMAIN queue[k] : ContainerOf[queue[k][i]] # c]
  BY DEF MoveEvents, QueueInv, QueueTypeOK
<1>2. /\ queue'[k] = << >> /\ DOMAIN queue'[k] = {}
      /\ \A l \in Strata : l # k => queue'[l] = queue[l]
  BY <1>1
<1>3. QueueTypeOK'
  <2>1. queue' \in [Strata -> Seq(Events)] BY <1>1
  <2>2. queued' \in [Containers -> BOOLEAN] BY <1>1
  <2>3. temp' \in Seq(Events) BY <1>1
  <2> QED BY <2>1, <2>2, <2>3 DEF QueueTypeOK
<1>4. \A l \in Strata : \A i \in DOMAIN queue'[l] :
        l # k /\ i \in DOMAIN queue[l] /\ queue'[l][i] = queue[l][i]
  BY <1>2
<1>5. InOwnStratum' /\ OncePerContainer'
  BY <1>4 DEF QueueInv, InOwnStratum, OncePerContainer
<1>6. BatchOncePerContainer'
  BY <1>1 DEF QueueInv, OncePerContainer, BatchOncePerContainer
<1>7. QueuedIffListed'
  <2> SUFFICES ASSUME NEW c \in Containers
               PROVE  queued'[c] <=> \E l \in Strata : \E i \in DOMAIN queue'[l] :
                                       ContainerOf[queue'[l][i]] = c
    BY DEF QueuedIffListed
  <2>1. queued[c] <=> \E l \in Strata : \E i \in DOMAIN queue[l] :
                        ContainerOf[queue[l][i]] = c
    BY DEF QueueInv, QueuedIffListed
  <2>2. ASSUME queued'[c]
        PROVE  \E l \in Strata : \E i \in DOMAIN queue'[l] : ContainerOf[queue'[l][i]] = c
    <3>1. PICK l \in Strata : \E i \in DOMAIN queue[l] : ContainerOf[queue[l][i]] = c
      BY <2>1, <2>2, <1>1
    <3>2. l # k BY <3>1, <2>2, <1>1
    <3> QED BY <3>1, <3>2, <1>2
  <2>3. ASSUME NEW l \in Strata, NEW i \in DOMAIN queue'[l], ContainerOf[queue'[l][i]] = c
        PROVE  queued'[c]
    <3>1. l # k /\ i \in DOMAIN queue[l] /\ ContainerOf[queue[l][i]] = c
      BY <2>3, <1>4
    <3>2. queued[c] BY <2>1, <3>1
    <3>3. \A j \in DOMAIN queue[k] : ContainerOf[queue[k][j]] # c
      BY <3>1 DEF QueueInv, OncePerContainer
    <3> QED BY <3>2, <3>3, <1>1
  <2> QED BY <2>2, <2>3
<1> QED BY <1>3, <1>5, <1>6, <1>7 DEF QueueInv

\* Removing the event just handled from the batch keeps the invariant.
LEMMA HandleInv == QueueInv /\ Handle => QueueInv'
<1> SUFFICES ASSUME QueueInv, Handle PROVE QueueInv'
  OBVIOUS
<1>1. /\ temp \in Seq(Events) /\ temp # << >> /\ temp' = Tail(temp)
      /\ queue' = queue /\ queued' = queued /\ stage' = stage
  BY DEF Handle, QueueInv, QueueTypeOK
<1>2. /\ temp' \in Seq(Events) /\ Len(temp') = Len(temp) - 1
      /\ \A i \in 1..Len(temp') : temp'[i] = temp[i + 1]
      /\ Len(temp) \in Nat /\ DOMAIN temp' = 1..Len(temp')
      /\ DOMAIN temp = 1..Len(temp)
  BY <1>1, HeadTailProperties, LenProperties
<1>3. BatchOncePerContainer'
  <2> SUFFICES ASSUME NEW i \in 1..Len(temp'), NEW j \in 1..Len(temp'),
                      ContainerOf[temp'[i]] = ContainerOf[temp'[j]]
               PROVE  i = j
    BY <1>2 DEF BatchOncePerContainer
  <2>1. i + 1 \in DOMAIN temp /\ j + 1 \in DOMAIN temp BY <1>2
  <2>2. i + 1 = j + 1
    BY <2>1, <1>2 DEF QueueInv, BatchOncePerContainer
  <2> QED BY <2>2
<1> QED BY <1>1, <1>2, <1>3
        DEF QueueInv, QueueTypeOK, InOwnStratum, OncePerContainer, QueuedIffListed

\* Every step of the queue keeps it.
LEMMA NextQueueInv == QueueInv /\ [Next]_queueVars => QueueInv'
<1> SUFFICES ASSUME QueueInv, [Next]_queueVars PROVE QueueInv'
  OBVIOUS
<1>1. ASSUME NEW e \in Events, AddEvent(e) PROVE QueueInv'
  BY <1>1, AddEventInv
<1>2. CASE Enter
  BY <1>2 DEF Enter, QueueInv, QueueTypeOK, InOwnStratum, OncePerContainer,
              QueuedIffListed, BatchOncePerContainer
<1>3. ASSUME NEW r \in DOMAIN Ranked, Activate(r) PROVE QueueInv'
  <2>1. Ranked[r] \in Strata /\ MoveEvents(Ranked[r]) /\ stage' = "loop"
    BY <1>3, RankedStrata DEF Activate
  <2> QED BY <2>1, MoveEventsInv
<1>4. CASE ActivateStrobe
  BY <1>4, RankedStrata, MoveEventsInv DEF ActivateStrobe
<1>5. CASE Handle BY <1>5, HandleInv
<1>6. CASE Leave
  BY <1>6 DEF Leave, QueueInv, QueueTypeOK, InOwnStratum, OncePerContainer,
              QueuedIffListed, BatchOncePerContainer
<1>7. CASE UNCHANGED queueVars
  BY <1>7 DEF queueVars, QueueInv, QueueTypeOK, InOwnStratum, OncePerContainer,
              QueuedIffListed, BatchOncePerContainer
<1> QED BY <1>1, <1>2, <1>3, <1>4, <1>5, <1>6, <1>7 DEF Next

\* The flag of every container tells exactly whether one of its events is in a
\* list, no container is listed or due twice, and every list holds events of
\* its own stratum: for every set of events and containers.
THEOREM QueueInvariant == Spec => []QueueInv
BY InitInv, NextQueueInv, PTL DEF Spec
-----------------------------------------------------------------------------
(***************************************************************************)
(* The refinement: the queue implements the stratified queue.              *)
(***************************************************************************)
Waiting == {e \in Events : \E k \in Strata : In(e, k)}
Due == {temp[i] : i \in DOMAIN temp}

\* The abstract rank of a list's name is the place at which trigger looks at it.
LEMMA RanksAgree ==
  /\ \A r \in DOMAIN Ranked : Abstract!Ranks[Ranked[r]] = r
  /\ Abstract!Ranks["strobe"] = 5
  /\ DOMAIN Ranked = 1..4
  /\ \A k \in Strata : k = "strobe" \/ \E r \in DOMAIN Ranked : k = Ranked[r]
<1>1. DOMAIN Ranked = 1..4
  BY DEF Ranked
<1>2. \A r \in 1..4 : r = 1 \/ r = 2 \/ r = 3 \/ r = 4
  OBVIOUS
<1>3. \A r \in 1..4 : Abstract!Ranks[Ranked[r]] = r
  BY <1>2 DEF Ranked, Abstract!Ranks
<1>4. Abstract!Ranks["strobe"] = 5
  BY DEF Abstract!Ranks
<1>5. \A k \in Strata : k = "strobe" \/ \E r \in DOMAIN Ranked : k = Ranked[r]
  BY DEF Strata, Looped
<1> QED BY <1>1, <1>3, <1>4, <1>5

\* In the lists, being in a list means being of its stratum.
LEMMA WaitingStratum ==
  ASSUME QueueInv
  PROVE  /\ \A k \in Strata : \A i \in DOMAIN queue[k] :
              queue[k][i] \in Waiting /\ StratumOf[queue[k][i]] = k
         /\ \A e \in Waiting : StratumOf[e] \in Strata /\ In(e, StratumOf[e])
<1>1. \A k \in Strata : \A i \in DOMAIN queue[k] :
        queue[k][i] \in Events /\ StratumOf[queue[k][i]] = k
  <2> SUFFICES ASSUME NEW k \in Strata, NEW i \in DOMAIN queue[k]
               PROVE  queue[k][i] \in Events /\ StratumOf[queue[k][i]] = k
    OBVIOUS
  <2>1. queue[k] \in Seq(Events) BY DEF QueueInv, QueueTypeOK
  <2> QED BY <2>1, ElementOfSeq, LenProperties DEF QueueInv, InOwnStratum
<1> QED BY <1>1 DEF Waiting, In

\* Queuing an event makes it wait in its stratum, and no other of its
\* container waits.
LEMMA AddEventWaits ==
  ASSUME QueueInv, NEW e \in Events, AddEvent(e)
  PROVE  Abstract!Wait(e)
<1> DEFINE s == StratumOf[e]
<1>1. /\ s \in Strata /\ ContainerOf[e] \in Containers
      /\ queue \in [Strata -> Seq(Events)]
      /\ ~queued[ContainerOf[e]]
      /\ queue' = [queue EXCEPT ![s] = Append(@, e)]
      /\ temp' = temp /\ stage' = stage
      /\ stage = "idle" \/ temp # << >>
  BY EventQueueAssumption DEF AddEvent, QueueInv, QueueTypeOK
<1>2. \A f \in Waiting : ContainerOf[f] # ContainerOf[e]
  BY <1>1 DEF Waiting, In, QueueInv, QueuedIffListed
<1>3. queue[s] \in Seq(Events) /\ queue'[s] = Append(queue[s], e)
  BY <1>1
<1> HIDE DEF s
<1>4. \A f : In(f, s)' <=> (In(f, s) \/ f = e)
  <2>1. /\ DOMAIN queue[s] = 1..Len(queue[s]) /\ Len(queue[s]) \in Nat
        /\ DOMAIN queue'[s] = 1..(Len(queue[s]) + 1)
        /\ \A i \in 1..Len(queue[s]) : queue'[s][i] = queue[s][i]
        /\ queue'[s][Len(queue[s]) + 1] = e
    BY <1>3, AppendProperties, LenProperties
  <2>2. \A i \in 1..(Len(queue[s]) + 1) : i \in 1..Len(queue[s]) \/ i = Len(queue[s]) + 1
    BY <2>1
  <2> QED BY <2>1, <2>2 DEF In
<1>5. \A f : \A k \in Strata : k # s => (In(f, k)' <=> In(f, k))
  BY <1>1 DEF In
<1>6. Waiting' = Waiting \cup {e}
  BY <1>1, <1>4, <1>5 DEF Waiting
<1>7. ~(stage # "idle") \/ Due # {}
  <2>1. temp # << >> => 1 \in DOMAIN temp
    <3>1. temp \in Seq(Events) BY DEF QueueInv, QueueTypeOK
    <3> QED BY <3>1, EmptySeq, LenProperties
  <2> QED BY <2>1, <1>1 DEF Due
<1> QED BY <1>1, <1>2, <1>6, <1>7 DEF Abstract!Wait, Waiting, Due

\* Moving the first list with an event into the empty batch is a turn.
LEMMA MoveEventsTurns ==
  ASSUME QueueInv, NEW k \in Strata, MoveEvents(k), temp = << >>, stage = "loop",
         queue[k] # << >>,
         \A l \in Strata : queue[l] # << >> => Abstract!Ranks[k] <= Abstract!Ranks[l],
         stage' = IF k = "strobe" THEN "strobe" ELSE "loop"
  PROVE  Abstract!Turn
<1>1. /\ queue \in [Strata -> Seq(Events)] /\ queue[k] \in Seq(Events)
      /\ temp' = queue[k]
      /\ queue' = [queue EXCEPT ![k] = << >>]
  BY DEF MoveEvents, QueueInv, QueueTypeOK
<1>2. 1 \in DOMAIN queue[k]
  BY <1>1, EmptySeq, LenProperties
<1>3. \A e : In(e, k) <=> e \in Due'
  BY <1>1 DEF In, Due
<1>4. \A e \in Waiting : StratumOf[e] \in Strata /\ In(e, StratumOf[e])
  BY WaitingStratum
<1>5. \A e : In(e, k) => e \in Waiting /\ StratumOf[e] = k
  BY WaitingStratum DEF In
<1>6. \A l \in Strata : Abstract!Ranks[l] \in Nat
  BY RanksAgree
<1>7. \A l \in Strata : Abstract!Ranks[l] = Abstract!Ranks[k] => l = k
  BY RanksAgree
<1>8. \A e \in Waiting : queue[StratumOf[e]] # << >>
  BY <1>4 DEF In
<1>9. Due' = {e \in Waiting : \A f \in Waiting : Abstract!Rank(e) <= Abstract!Rank(f)}
  <2>1. ASSUME NEW e, In(e, k)
        PROVE  e \in Waiting /\ \A f \in Waiting : Abstract!Rank(e) <= Abstract!Rank(f)
    BY <2>1, <1>4, <1>5, <1>8 DEF Abstract!Rank
  <2>2. ASSUME NEW e \in Waiting, \A f \in Waiting : Abstract!Rank(e) <= Abstract!Rank(f)
        PROVE  In(e, k)
    <3>1. queue[k][1] \in Waiting /\ StratumOf[queue[k][1]] = k
      BY <1>2, WaitingStratum
    <3>2. Abstract!Ranks[StratumOf[e]] <= Abstract!Ranks[k]
      BY <2>2, <3>1 DEF Abstract!Rank
    <3>3. Abstract!Ranks[k] <= Abstract!Ranks[StratumOf[e]]
      BY <1>4, <1>8
    <3>4. StratumOf[e] = k BY <3>2, <3>3, <1>4, <1>6, <1>7
    <3> QED BY <3>4, <1>4
  <2> QED BY <1>3, <2>1, <2>2
<1>10. Waiting' = Waiting \ Due'
  <2>1. \A e : \A l \in Strata : In(e, l)' <=> l # k /\ In(e, l)
    BY <1>1 DEF In
  <2>2. ASSUME NEW e \in Events
        PROVE  e \in Waiting' <=> e \in Waiting /\ ~In(e, k)
    <3>1. ASSUME NEW l \in Strata, l # k, In(e, l) PROVE e \in Waiting /\ ~In(e, k)
      BY <3>1, <1>5, WaitingStratum DEF In
    <3>2. ASSUME e \in Waiting, ~In(e, k) PROVE \E l \in Strata : l # k /\ In(e, l)
      BY <3>2, <1>4
    <3> QED BY <3>1, <3>2, <2>1 DEF Waiting
  <2>3. Waiting \subseteq Events /\ Waiting' \subseteq Events
    BY DEF Waiting
  <2> QED BY <2>2, <2>3, <1>3
<1>11. (stage' = "strobe") <=> \A e \in Due' : StratumOf[e] = "strobe"
  <2>1. queue[k][1] \in Due' /\ StratumOf[queue[k][1]] = k
    BY <1>1, <1>2, WaitingStratum DEF Due
  <2>2. \A e \in Due' : StratumOf[e] = k
    BY <1>3, <1>5
  <2> QED BY <2>1, <2>2
<1>12. Due = {} /\ Waiting # {}
  BY <1>2, WaitingStratum DEF Due
<1>13. (stage # "idle") /\ ~(stage = "strobe") /\ (stage # "idle")' = (stage # "idle")
  OBVIOUS
<1> QED BY <1>9, <1>10, <1>11, <1>12, <1>13 DEF Abstract!Turn, Waiting, Due

\* Handling the first event of a batch does one of the events that are due.
LEMMA HandleDoes ==
  ASSUME QueueInv, Handle
  PROVE  \E e \in Events : Abstract!Do(e)
<1>1. /\ temp \in Seq(Events) /\ temp # << >> /\ temp' = Tail(temp)
      /\ queue' = queue /\ stage' = stage
  BY DEF Handle, QueueInv, QueueTypeOK
<1>2. /\ \A i \in 1..(Len(temp) - 1) : temp'[i] = temp[i + 1]
      /\ Len(temp) \in Nat /\ Len(temp) # 0 /\ DOMAIN temp' = 1..(Len(temp) - 1)
      /\ DOMAIN temp = 1..Len(temp)
  BY <1>1, HeadTailProperties, LenProperties, EmptySeq
<1> DEFINE e == temp[1]
<1>3. 1 \in DOMAIN temp /\ e \in Events
  BY <1>1, <1>2, ElementOfSeq
<1>4. Due' = Due \ {e}
  <2>1. ASSUME NEW i \in DOMAIN temp, i # 1 PROVE temp[i] \in Due' /\ temp[i] # e
    <3>1. i - 1 \in 1..(Len(temp) - 1) /\ (i - 1) + 1 = i BY <2>1, <1>2
    <3>2. temp'[i - 1] = temp[i] BY <3>1, <1>2
    <3> QED BY <3>1, <3>2, <2>1, <1>2, <1>3 DEF Due, QueueInv, BatchOncePerContainer
  <2>2. ASSUME NEW i \in DOMAIN temp'
        PROVE  i + 1 \in DOMAIN temp /\ i + 1 # 1 /\ temp'[i] = temp[i + 1]
    BY <1>2
  <2> QED BY <2>1, <2>2 DEF Due
<1>5. e \in Due /\ Waiting' = Waiting
  BY <1>1, <1>3 DEF Due, Waiting, In
<1> QED BY <1>1, <1>3, <1>4, <1>5 DEF Abstract!Do, Waiting, Due

\* The lists, flags and batch of the event queue implement the stratified
\* queue: no event is lost or handled twice for one queueing, and none becomes
\* due while one of an earlier stratum waits, for every set of events.
THEOREM QueueImplementsStrata == Spec => ImplementsStrata
<1>1. Init => Abstract!Init
  BY DEF Init, Abstract!Init, In
<1>2. QueueInv /\ [Next]_queueVars => [Abstract!Next]_(Abstract!strataVars)
  <2> SUFFICES ASSUME QueueInv, [Next]_queueVars
               PROVE  Abstract!Next \/ UNCHANGED Abstract!strataVars
    OBVIOUS
  <2>1. ASSUME NEW e \in Events, AddEvent(e) PROVE Abstract!Next
    BY <2>1, AddEventWaits DEF Abstract!Next
  <2>2. CASE Enter
    <3>1. Waiting' = Waiting /\ Due' = Due BY <2>2 DEF Enter, Waiting, Due, In
    <3> QED BY <2>2, <3>1 DEF Enter, Abstract!Next, Abstract!Open, Waiting, Due
  <2>3. ASSUME NEW r \in DOMAIN Ranked, Activate(r) PROVE Abstract!Next
    <3> DEFINE k == Ranked[r]
    <3>1. k \in Strata /\ k # "strobe" /\ r \in 1..4
      BY RankedStrata, RanksAgree
    <3>2. \A l \in Strata : queue[l] # << >> => Abstract!Ranks[k] <= Abstract!Ranks[l]
      <4> SUFFICES ASSUME NEW l \in Strata, queue[l] # << >>
                   PROVE  Abstract!Ranks[k] <= Abstract!Ranks[l]
        OBVIOUS
      <4>1. CASE l = "strobe" BY <4>1, <3>1, RanksAgree
      <4>2. CASE \E q \in DOMAIN Ranked : l = Ranked[q]
        <5>1. PICK q \in 1..4 : l = Ranked[q] BY <4>2, RanksAgree
        <5>2. ~(q \in 1..(r - 1)) BY <5>1, <2>3 DEF Activate
        <5> QED BY <5>1, <5>2, <3>1, RanksAgree
      <4> QED BY <4>1, <4>2, RanksAgree
    <3>3. /\ MoveEvents(k) /\ temp = << >> /\ stage = "loop" /\ queue[k] # << >>
          /\ stage' = "loop"
      BY <2>3 DEF Activate
    <3> HIDE DEF k
    <3>4. Abstract!Turn BY <3>1, <3>2, <3>3, MoveEventsTurns
    <3> QED BY <3>4 DEF Abstract!Next
  <2>4. CASE ActivateStrobe
    <3>1. \A l \in Strata : queue[l] # << >> => l = "strobe"
      BY <2>4, RanksAgree DEF ActivateStrobe, LoopDone
    <3>2. \A l \in Strata : queue[l] # << >> => Abstract!Ranks["strobe"] <= Abstract!Ranks[l]
      BY <3>1, RanksAgree
    <3>3. "strobe" \in Strata BY RankedStrata
    <3>4. Abstract!Turn
      BY <2>4, <3>2, <3>3, MoveEventsTurns DEF ActivateStrobe, LoopDone
    <3> QED BY <3>4 DEF Abstract!Next
  <2>5. CASE Handle BY <2>5, HandleDoes DEF Abstract!Next
  <2>6. CASE Leave
    <3>1. Waiting' = Waiting /\ Due' = Due /\ Due = {}
      BY <2>6 DEF Leave, LoopDone, Waiting, Due, In
    <3>2. Waiting = {} \/ stage = "strobe"
      BY <2>6, RanksAgree DEF Leave, LoopDone, Waiting, In
    <3>3. stage # "idle" /\ stage' = "idle"
      BY <2>6 DEF Leave, LoopDone
    <3> QED BY <3>1, <3>2, <3>3 DEF Abstract!Next, Abstract!Close, Waiting, Due
  <2>7. CASE UNCHANGED queueVars
    BY <2>7 DEF queueVars, Abstract!strataVars, In
  <2> QED BY <2>1, <2>2, <2>3, <2>4, <2>5, <2>6, <2>7 DEF Next
<1> QED BY <1>1, <1>2, QueueInvariant, PTL DEF Spec, ImplementsStrata, Abstract!Spec
=============================================================================
