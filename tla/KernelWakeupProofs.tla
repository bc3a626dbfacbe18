--------------------------- MODULE KernelWakeupProofs ---------------------------
(***************************************************************************)
(* Theorems about when the kernel triggers what: each process once for     *)
(* each time it suspends itself, at the time its delay is over, and no     *)
(* time unit is left while an event waits for it.                          *)
(***************************************************************************)
EXTENDS SimKernelProofs, FiniteSetTheorems

(***************************************************************************)
(* The wheel as an agenda.                                                 *)
(***************************************************************************)
Listed(t) == W!ListedAt(node, t)
Popped == [node EXCEPT ![1].event = Tail(@)]

\* The lists of the wheel are those of TimeWheelProofs.
LEMMA SameWheel ==
  /\ W!WheelInv <=> WP!WheelInv
  /\ \A ns, t : W!ListedAt(ns, t) = WP!ListedAt(ns, t)
  /\ \A ns, t, o : W!Scheduled(ns, t, o) = WP!Scheduled(ns, t, o)
  /\ W!Times = WP!Times
<1>1. W!WheelInv <=> WP!WheelInv
  BY DEF W!WheelInv, WP!WheelInv, W!WheelTypeOK, WP!WheelTypeOK, W!Sorted, WP!Sorted, W!InOrder,
         WP!InOrder, W!ClockInStep, WP!ClockInStep, W!NoIdleNode, WP!NoIdleNode, W!NodeType,
         WP!NodeType, W!Times, WP!Times, W!Elaborating, WP!Elaborating
<1>2. ASSUME NEW ns, NEW t PROVE W!ListedAt(ns, t) = WP!ListedAt(ns, t)
  BY DEF W!ListedAt, WP!ListedAt
<1>3. ASSUME NEW ns, NEW t, NEW o PROVE W!Scheduled(ns, t, o) = WP!Scheduled(ns, t, o)
  BY DEF W!Scheduled, WP!Scheduled, W!ScanEnd, WP!ScanEnd, W!Ends, WP!Ends, W!InsertAt, WP!InsertAt
<1>4. W!Times = WP!Times
  BY DEF W!Times, WP!Times
<1> QED BY <1>1, <1>2, <1>3, <1>4

\* What is handled is what is listed for the present time unit.
LEMMA ListedPresent ==
  ASSUME KernelInv, handling
  PROVE  Listed(latest) = node[1].event /\ node[1].event \in Seq(Objs)
<1>1. WP!WheelInv
  BY SameWheel DEF KernelInv
<1>2. WP!ListedAt(node, latest) = node[1].event /\ node[1].event \in Seq(Objs)
  BY <1>1, WP!ListedNow, KernelConstants
<1> QED BY <1>2, SameWheel DEF Listed

\* add_event puts a statement last in the list of its time.
LEMMA ListedScheduled ==
  ASSUME KernelInv, NEW t \in W!Times, NEW o \in Objs,
         (W!Elaborating /\ t = 0) \/ (handling /\ t >= latest)
  PROVE  \A u : W!ListedAt(W!Scheduled(node, t, o), u) =
                  IF u = t THEN Append(Listed(t), o) ELSE Listed(u)
<1>1. WP!WheelInv /\ t \in WP!Times
  BY SameWheel DEF KernelInv
<1>2. /\ node \in Seq(WP!NodeType) /\ node # << >> /\ WP!InOrder(node) /\ node[1].time <= t
  BY <1>1, WP!AddEventApplies, KernelConstants DEF W!Elaborating, WP!Elaborating
<1>3. \A u : WP!ListedAt(WP!Scheduled(node, t, o), u) =
               IF u = t THEN Append(WP!ListedAt(node, t), o) ELSE WP!ListedAt(node, u)
  BY <1>1, <1>2, WP!ScheduledListed, KernelConstants
<1> QED BY <1>3, SameWheel DEF Listed

\* The handler takes the first of the present time unit, and may put it last.
LEMMA ListedPopped ==
  ASSUME KernelInv, handling, node[1].event # << >>
  PROVE  /\ \A u : W!ListedAt(Popped, u) = IF u = latest THEN Tail(Listed(latest)) ELSE Listed(u)
         /\ \A o \in Objs : \A u : W!ListedAt(W!Scheduled(Popped, latest, o), u) =
              IF u = latest THEN Append(Tail(Listed(latest)), o) ELSE Listed(u)
<1>1. WP!WheelInv
  BY SameWheel DEF KernelInv
<1>2. \A u : WP!ListedAt(Popped, u) =
               IF u = latest THEN Tail(WP!ListedAt(node, latest)) ELSE WP!ListedAt(node, u)
  BY <1>1, WP!ListedAfterPop, KernelConstants DEF Popped
<1>3. /\ Popped \in Seq(WP!NodeType) /\ Popped # << >> /\ WP!InOrder(Popped)
      /\ Popped[1].time = latest /\ latest \in WP!Times /\ latest \in Nat
  BY <1>1, WP!Popped, KernelConstants, KernelFacts DEF Popped
<1>4. ASSUME NEW o \in Objs, NEW u
      PROVE  WP!ListedAt(WP!Scheduled(Popped, latest, o), u) =
               IF u = latest THEN Append(WP!ListedAt(Popped, latest), o) ELSE WP!ListedAt(Popped, u)
  <2>1. Popped[1].time <= latest
    BY <1>3
  <2> QED BY <1>3, <2>1, WP!ScheduledListed, KernelConstants
<1> QED BY <1>2, <1>4, SameWheel DEF Listed

\* A node the handler is done with lists nothing.
LEMMA ListedEnd ==
  ASSUME KernelInv, W!End
  PROVE  \A u : Listed(u)' = Listed(u)
<1>1. WP!WheelInv /\ WP!End
  BY SameWheel DEF KernelInv, W!End, WP!End
<1>2. \A u : WP!ListedAt(node', u) = WP!ListedAt(node, u)
  BY <1>1, WP!EndListed, KernelConstants
<1> QED BY <1>2, SameWheel DEF Listed
-----------------------------------------------------------------------------
(***************************************************************************)
(* No time unit is left while an event waits for it.                       *)
(***************************************************************************)
Empty == \A k \in Q!Strata : queue[k] = << >>

\* Nothing is scheduled but for the present time unit.
Lone == \A t \in W!Times : t # latest => Listed(t) = << >>

\* The inductive invariant.  Setup may queue events before there is a step to
\* handle them, and a design that schedules nothing never handles them; but
\* then no time unit follows.
DrainedInv ==
  /\ W!Elaborating => Lone
  /\ ~handling /\ ~W!Elaborating => (node = << >> \/ Empty)
  /\ handling /\ turn = "wheel" /\ cur = None /\ node[1].event = << >> => (Lone \/ Empty)
  /\ stage = "strobe" => Empty /\ \A i \in DOMAIN temp : temp[i].stratum = "strobe"

\* The queue is as empty as its five lists are.
LEMMA EmptyWhen ==
  ASSUME \A r \in DOMAIN Q!Ranked : queue[Q!Ranked[r]] = << >>, queue["strobe"] = << >>
  PROVE  Empty
BY DEF Empty, Q!Strata, Q!Looped

\* While the strobe events are handled, none but a $strobe runs.
LEMMA StrobesRun ==
  ASSUME KernelInv, DrainedInv, stage = "strobe"
  PROVE  cur = None \/ cur \in Strobes
<1>1. turn = "queue" /\ temp \in Seq(Events)
  BY KernelFacts DEF InControl, ControlTypeOK
<1>2. CASE temp # << >>
  <2>1. Head(temp) \in Events /\ Head(temp) = temp[1] /\ 1 \in DOMAIN temp
    BY <1>1, <1>2, HeadTailProperties, EmptySeq, LenProperties
  <2>2. Head(temp).stratum = "strobe"
    BY <2>1 DEF DrainedInv
  <2>3. Head(temp).obj \in Strobes
    BY <2>1, <2>2 DEF Events, WaitEvents, SenseEvents, OutputEvents, Ev
  <2> QED BY <1>1, <2>3, KernelFacts DEF InControl
<1> QED BY <1>1, <1>2, KernelFacts DEF InControl

\* What a statement does while it is triggered.
LEMMA StatementDrained ==
  ASSUME KernelInv, DrainedInv, cur # None, UNCHANGED <<handling, cur, stage>>,
         stage = "strobe" => UNCHANGED <<queue, temp>>
  PROVE  DrainedInv'
<1>1. handling
  BY KernelFacts DEF InControl
<1> QED BY <1>1 DEF DrainedInv, Empty, W!Elaborating

\* Before the first step only time 0 lists anything: setup schedules for no
\* other.
LEMMA SetupDrained ==
  ASSUME KernelInv, DrainedInv, NEW o \in Procs \cup Assigns, SetupProcess(o) \/ SetupAssign(o)
  PROVE  DrainedInv'
<1>1. /\ W!Elaborating /\ latest = 0 /\ stage = "idle" /\ ~handling
      /\ UNCHANGED <<latest, handling, stage>>
  <2>1. unset # {}
    BY DEF SetupProcess, SetupAssign
  <2>2. W!Elaborating /\ ~handling
    BY <2>1, KernelFacts DEF InControl, W!Elaborating
  <2>3. latest = 0 /\ stage = "idle"
    BY <2>2, KernelFacts DEF InControl, KernelInv, W!WheelInv, W!ClockInStep
  <2>4. UNCHANGED <<latest, handling, stage>>
    BY DEF SetupProcess, SetupAssign, Schedule, Register, Enqueue, wheelVars, queueVars
  <2> QED BY <2>2, <2>3, <2>4
<1>2. Lone'
  <2>1. CASE UNCHANGED wheelVars
    BY <1>1, <2>1 DEF DrainedInv, Lone, Listed, wheelVars
  <2>2. CASE Schedule(0, o) /\ o \in Objs
    <3>1. 0 \in W!Times
      BY KernelConstants DEF W!Times
    <3>2. \A u : W!ListedAt(node', u) = IF u = 0 THEN Append(Listed(0), o) ELSE Listed(u)
      BY <1>1, <2>2, <3>1, ListedScheduled DEF Schedule
    <3> QED BY <1>1, <3>2 DEF DrainedInv, Lone, Listed
  <2> QED BY <2>1, <2>2 DEF SetupProcess, SetupAssign, Objs, Procs
<1>3. W!Elaborating'
  BY <1>1, SetupAllowed, KernelFacts, NextKernelInv, FirstStays, KernelConstants
     DEF SetupProcess, SetupAssign, Schedule, W!Elaborating, KernelInv, wheelVars, Objs, Procs,
         W!Times
<1> QED BY <1>1, <1>2, <1>3 DEF DrainedInv

\* The clock is advanced by trigger_once alone, with the lists empty.
LEMMA StepBeginDrained ==
  ASSUME KernelInv, DrainedInv, StepBegin
  PROVE  DrainedInv' /\ (latest' # latest => Empty)
<1>1. /\ ~handling /\ node # << >> /\ handling' /\ turn' = "wheel" /\ UNCHANGED <<node, queue, stage>>
      /\ latest' = IF node[1].time > latest THEN node[1].time ELSE latest
      /\ stage = "idle"
  BY KernelFacts DEF StepBegin, W!Begin, queueVars, InControl
<1>2. CASE W!Elaborating
  <2>1. latest' = latest
    BY <1>1, <1>2 DEF W!Elaborating, KernelInv, W!WheelInv, W!ClockInStep
  <2>2. Lone'
    BY <1>1, <1>2, <2>1 DEF DrainedInv, Lone, Listed, W!ListedAt
  <2> QED BY <1>1, <2>1, <2>2 DEF DrainedInv, W!Elaborating
<1>3. CASE ~W!Elaborating
  BY <1>1, <1>3 DEF DrainedInv, Empty, W!Elaborating
<1> QED BY <1>2, <1>3

\* The node is removed: were there another one, and an event still queued,
\* the list handled would have led to the event queue.
LEMMA StepEndDrained ==
  ASSUME KernelInv, DrainedInv, StepEnd
  PROVE  DrainedInv'
<1>1. /\ handling /\ turn = "wheel" /\ cur = None /\ node[1].event = << >> /\ ~handling'
      /\ UNCHANGED <<queue, stage, latest>> /\ stage = "idle" /\ W!End
  BY KernelFacts DEF StepEnd, W!End, queueVars, InControl
<1>2. /\ node' \in Seq(WP!NodeType) /\ WP!InOrder(node')
      /\ \A i \in DOMAIN node' : node'[i].time > latest /\ node'[i].time # 0 /\ node'[i].event # << >>
  <2>1. WP!WheelInv /\ WP!End
    BY <1>1, SameWheel DEF KernelInv, W!End, WP!End
  <2> QED BY <2>1, WP!EndLater, KernelConstants
<1>3. node' # << >> => 1 \in DOMAIN node'
  BY <1>2, EmptySeq, LenProperties
<1>4. ~W!Elaborating'
  BY <1>2, <1>3 DEF W!Elaborating
<1>5. CASE Lone
  <2>1. SUFFICES ASSUME node' # << >> PROVE FALSE
    BY <1>1, <1>4 DEF DrainedInv
  <2>2. node'[1].time > latest /\ node'[1].event # << >>
    BY <1>2, <1>3, <2>1
  <2>3. /\ W!ListedAt(node', node'[1].time) = node'[1].event
        /\ node'[1].time \in W!Times /\ node'[1].time \in Nat
    <3>1. WP!ListedAt(node', node'[1].time) = node'[1].event
      BY <1>2, <1>3, <2>1, WP!ListedAtNode, KernelConstants
    <3>2. node'[1].time \in WP!Times /\ node'[1].time \in Nat
      BY <1>2, <1>3, <2>1, WP!NodeFields, KernelConstants, LenProperties
    <3> QED BY <3>1, <3>2, SameWheel
  <2>4. Listed(node'[1].time) = node'[1].event
    BY <1>1, <2>3, ListedEnd DEF Listed
  <2>5. node'[1].time # latest
    BY <2>2, <2>3, KernelFacts
  <2> QED BY <1>5, <2>2, <2>3, <2>4, <2>5 DEF Lone
<1>6. CASE Empty
  BY <1>1, <1>4, <1>6 DEF DrainedInv, Empty
<1> QED BY <1>1, <1>5, <1>6 DEF DrainedInv

\* The event queue: it is left when its lists are empty.
LEMMA QueueDrained ==
  ASSUME KernelInv, DrainedInv, QueueEnter \/ QueueActivate \/ QueueLeave
  PROVE  DrainedInv'
<1>1. UNCHANGED <<node, latest, handling, cur>>
  BY DEF QueueEnter, QueueActivate, QueueLeave, wheelVars
<1>2. handling
  BY KernelFacts, QueueAllowed
     DEF QueueEnter, QueueActivate, QueueLeave, InControl, Q!Activate, Q!ActivateStrobe, Q!LoopDone,
         Q!Leave, ControlTypeOK
<1>3. CASE QueueEnter
  BY <1>1, <1>2, <1>3 DEF QueueEnter, Q!Enter, DrainedInv, W!Elaborating
<1>4. CASE QueueActivate
  <2>1. CASE \E r \in DOMAIN Q!Ranked : Q!Activate(r)
    BY <1>1, <1>2, <1>4, <2>1, KernelFacts
       DEF QueueActivate, Q!Activate, DrainedInv, W!Elaborating, InControl
  <2>2. CASE Q!ActivateStrobe
    <3>1. /\ stage' = "strobe" /\ temp' = queue["strobe"] /\ turn' = turn /\ turn # "wheel"
          /\ queue' = [queue EXCEPT !["strobe"] = << >>]
          /\ \A r \in DOMAIN Q!Ranked : queue[Q!Ranked[r]] = << >>
      BY <1>4, <2>2, KernelFacts
         DEF QueueActivate, Q!ActivateStrobe, Q!MoveEvents, Q!LoopDone, InControl
    <3>2. \A i \in DOMAIN temp' : temp'[i].stratum = "strobe"
      <4>1. Q!InOwnStratum /\ Q!QueueTypeOK /\ "strobe" \in Q!Strata
        BY DEF KernelInv, Q!QueueInv, Q!Strata
      <4>2. ASSUME NEW i \in DOMAIN queue["strobe"]
            PROVE  queue["strobe"][i].stratum = "strobe"
        <5>1. queue["strobe"][i] \in Events
          BY <4>1, <4>2, ElementOfSeq, LenProperties DEF Q!QueueTypeOK
        <5> QED BY <4>1, <4>2, <5>1 DEF Q!InOwnStratum, StratumOf
      <4> QED BY <3>1, <4>2
    <3>3. Empty'
      <4>1. \A k \in Q!Strata : queue'[k] = IF k = "strobe" THEN << >> ELSE queue[k]
        BY <3>1 DEF KernelInv, Q!QueueInv, Q!QueueTypeOK
      <4> QED BY <3>1, <4>1 DEF Empty, Q!Strata, Q!Looped
    <3> QED BY <1>1, <1>2, <3>1, <3>2, <3>3 DEF DrainedInv, W!Elaborating
  <2> QED BY <1>4, <2>1, <2>2 DEF QueueActivate
<1>5. CASE QueueLeave
  <2>1. stage' = "idle" /\ queue' = queue
    BY <1>5 DEF QueueLeave, Q!Leave
  <2>2. Empty
    BY <1>5, EmptyWhen DEF QueueLeave, Q!Leave, Q!LoopDone, DrainedInv
  <2>3. Empty'
    BY <2>1, <2>2 DEF Empty
  <2> QED BY <1>1, <1>2, <2>1, <2>3 DEF DrainedInv, W!Elaborating
<1> QED BY <1>3, <1>4, <1>5

\* A statement is triggered or returns to the handler.
LEMMA HandlerDrained ==
  ASSUME KernelInv, DrainedInv,
         TriggerFromWheel \/ TriggerFromQueue \/ ReturnToWheel \/ ReturnToQueue
  PROVE  DrainedInv'
<1>1. CASE TriggerFromWheel \/ TriggerFromQueue
  <2>1. /\ UNCHANGED <<handling, node, queue, temp, stage>> /\ handling
        /\ cur' # None
    BY <1>1, KernelFacts, TriggerTakes DEF TriggerFromWheel, TriggerFromQueue, wheelVars, queueVars
  <2> QED BY <2>1 DEF DrainedInv, Empty, W!Elaborating
<1>2. CASE ReturnToWheel
  <2>1. /\ UNCHANGED <<handling, queue, temp, stage>> /\ handling
        /\ turn' = IF node'[1].event = << >> THEN "queue" ELSE "wheel"
    BY <1>2, KernelFacts DEF ReturnToWheel, queueVars, InControl
  <2> QED BY <2>1 DEF DrainedInv, Empty, W!Elaborating
<1>3. CASE ReturnToQueue
  <2>1. /\ handling' = handling /\ handling /\ turn = "queue" /\ turn' = turn
        /\ UNCHANGED <<queue, stage>> /\ temp # << >> /\ temp' = Tail(temp)
    BY <1>3, KernelFacts DEF ReturnToQueue, Schedule, wheelVars, InControl, Q!Handle
  <2>2. \A i \in DOMAIN temp' : \E j \in DOMAIN temp : temp'[i] = temp[j]
    BY <2>1, KernelFacts, HeadTailProperties, LenProperties
  <2> QED BY <2>1, <2>2 DEF DrainedInv, Empty, W!Elaborating
<1> QED BY <1>1, <1>2, <1>3

\* A statement that acts is no $strobe.
LEMMA EffectsDrained ==
  ASSUME KernelInv, DrainedInv, ~Api, Return \/ Effects
  PROVE  DrainedInv'
<1>1. UNCHANGED <<handling, cur, stage>>
  BY DEF Return, Effects, Delay, DelayZero, WaitFor, EndBlock, Complete, Assign, ApiSetNet, Enable,
         Nonblock, NonblockLater, EnterBlock, Finish, Suspend, Schedule, Notify, Register, Enqueue,
         wheelVars, queueVars
<1>2. cur # None /\ (UNCHANGED <<queue, temp>> \/ cur \in Procs \cup Updates \cup Assigns)
  BY SimKernelAssumption
     DEF Return, Effects, Delay, DelayZero, WaitFor, EndBlock, Complete, Assign, ApiSetNet, Enable,
         Nonblock, NonblockLater, EnterBlock, Finish, Running, Objs, queueVars
<1>3. cur \in Strobes => cur \notin Procs \cup Updates \cup Assigns
  BY SimKernelAssumption DEF Outputs
<1> QED BY <1>1, <1>2, <1>3, StrobesRun, StatementDrained

\* Every step keeps it, and none advances the clock while an event waits.
LEMMA NextDrained ==
  ASSUME KernelInv, DrainedInv, ~Api, [Next]_vars
  PROVE  DrainedInv' /\ (latest' # latest => Empty)
<1>1. CASE Setup
  BY <1>1, SetupDrained DEF Setup, SetupProcess, SetupAssign, Schedule, wheelVars
<1>2. CASE Handlers
  <2>1. CASE StepBegin
    BY <2>1, StepBeginDrained
  <2>2. CASE StepEnd
    BY <2>2, StepEndDrained DEF StepEnd, W!End
  <2>3. CASE TriggerFromWheel \/ TriggerFromQueue \/ ReturnToWheel \/ ReturnToQueue
    BY <2>3, HandlerDrained
       DEF TriggerFromWheel, TriggerFromQueue, ReturnToWheel, ReturnToQueue, Schedule, wheelVars
  <2>4. CASE QueueEnter \/ QueueActivate \/ QueueLeave
    BY <2>4, QueueDrained DEF QueueEnter, QueueActivate, QueueLeave, wheelVars
  <2> QED BY <1>2, <2>1, <2>2, <2>3, <2>4 DEF Handlers
<1>3. CASE Return \/ Effects
  <2>1. latest' = latest
    BY <1>3
       DEF Return, Effects, Delay, DelayZero, WaitFor, EndBlock, Complete, Assign, ApiSetNet,
           Enable,
           Nonblock, NonblockLater, EnterBlock, Finish, Schedule, wheelVars
  <2> QED BY <1>3, <2>1, EffectsDrained
<1>4. CASE UNCHANGED vars
  <2>1. UNCHANGED <<node, latest, handling, queue, temp, stage, turn, cur>>
    BY <1>4 DEF vars, wheelVars, queueVars
  <2> QED BY <2>1 DEF DrainedInv, Empty, Lone, Listed, W!Elaborating, W!ListedAt
<1> QED BY <1>1, <1>2, <1>3, <1>4 DEF Next

\* The wheel starts with the node of time 0, empty.
LEMMA InitDrained == Init => DrainedInv
<1> SUFFICES ASSUME Init PROVE DrainedInv
  OBVIOUS
<1>1. /\ node = <<[time |-> 0, event |-> << >>]>> /\ latest = 0 /\ ~handling /\ stage = "idle"
  BY DEF Init, W!Init, Q!Init
<1>2. Lone
  <2>1. \A i \in DOMAIN node : node[i].time = 0
    BY <1>1
  <2> QED BY <1>1, <2>1 DEF Lone, Listed, W!ListedAt
<1>3. node # << >> /\ node[1].time = 0
  BY <1>1
<1> QED BY <1>1, <1>2, <1>3 DEF DrainedInv, W!Elaborating

\* The clock is never advanced while an event waits in one of the five lists:
\* the time wheel handler comes to the end of its list only through the event
\* queue, and the event queue returns only when its lists are empty
\* (sim.cc, event.h, time_whl.h).  A C program that sets nets between the steps
\* queues events the clock may pass by: Api is excluded.
THEOREM TimeAdvancesWhenDrained == ~Api => (Spec => TimeAdvancesDrained)
<1> SUFFICES ASSUME ~Api PROVE Spec => TimeAdvancesDrained
  OBVIOUS
<1>1. KernelInv /\ DrainedInv /\ [Next]_vars => DrainedInv' /\ (latest' # latest => Empty)
  BY NextDrained
<1> QED BY InitKernelInv, NextKernelInv, InitDrained, <1>1, PTL DEF Spec, TimeAdvancesDrained, Empty
-----------------------------------------------------------------------------
(***************************************************************************)
(* Each process is woken once: where on the wheel it is.                   *)
(***************************************************************************)

\* x is not in the sequence s; it is in one place of s.
Absent(s, x) == \A j \in DOMAIN s : s[j] # x
Once(s, x) == \E j \in DOMAIN s : s[j] = x /\ \A k \in DOMAIN s : s[k] = x => k = j

\* A statement that becomes the last does not move the others.
LEMMA AppendOther ==
  ASSUME NEW S, NEW s \in Seq(S), NEW x \in S, NEW y \in S, x # y
  PROVE  /\ Absent(s, x) => Absent(Append(s, y), x)
         /\ Once(s, x) => Once(Append(s, y), x)
BY AppendProperties, LenProperties DEF Absent, Once

\* It is there once, if it was not there before.
LEMMA AppendIt ==
  ASSUME NEW S, NEW s \in Seq(S), NEW x \in S, Absent(s, x)
  PROVE  Once(Append(s, x), x)
BY AppendProperties, LenProperties DEF Absent, Once

\* Taking the first statement leaves the others where they are.
LEMMA TailOther ==
  ASSUME NEW S, NEW s \in Seq(S), s # << >>, NEW x \in S, Head(s) # x
  PROVE  /\ Absent(s, x) => Absent(Tail(s), x)
         /\ Once(s, x) => Once(Tail(s), x)
<1>1. /\ Tail(s) \in Seq(S) /\ Len(Tail(s)) = Len(s) - 1 /\ Len(s) \in Nat /\ Head(s) = s[1]
      /\ \A i \in 1..(Len(s) - 1) : Tail(s)[i] = s[i + 1]
      /\ DOMAIN s = 1..Len(s) /\ DOMAIN Tail(s) = 1..(Len(s) - 1)
  BY HeadTailProperties, LenProperties
<1>2. ASSUME Absent(s, x) PROVE Absent(Tail(s), x)
  BY <1>1, <1>2 DEF Absent
<1>3. ASSUME Once(s, x) PROVE Once(Tail(s), x)
  <2>1. PICK j \in 1..Len(s) : s[j] = x /\ \A k \in 1..Len(s) : s[k] = x => k = j
    BY <1>1, <1>3 DEF Once
  <2>2. j # 1
    BY <1>1, <2>1
  <2>3. j - 1 \in 1..(Len(s) - 1) /\ Tail(s)[j - 1] = x
    BY <1>1, <2>1, <2>2
  <2>4. \A k \in 1..(Len(s) - 1) : Tail(s)[k] = x => k = j - 1
    BY <1>1, <2>1
  <2> QED BY <1>1, <2>3, <2>4 DEF Once
<1> QED BY <1>2, <1>3

\* The first statement, if it was there once, is gone.
LEMMA TailIt ==
  ASSUME NEW S, NEW s \in Seq(S), s # << >>
  PROVE  ~Absent(s, Head(s)) /\ (Once(s, Head(s)) => Absent(Tail(s), Head(s)))
<1>1. /\ Len(Tail(s)) = Len(s) - 1 /\ Len(s) \in Nat \ {0} /\ Head(s) = s[1] /\ Tail(s) \in Seq(S)
      /\ \A i \in 1..(Len(s) - 1) : Tail(s)[i] = s[i + 1]
      /\ DOMAIN s = 1..Len(s) /\ DOMAIN Tail(s) = 1..(Len(s) - 1)
  BY HeadTailProperties, LenProperties, EmptySeq
<1>2. 1 \in DOMAIN s
  BY <1>1
<1>3. ASSUME Once(s, Head(s)), NEW i \in DOMAIN Tail(s) PROVE Tail(s)[i] # Head(s)
  <2>1. i + 1 \in DOMAIN s /\ Tail(s)[i] = s[i + 1] /\ i + 1 # 1
    BY <1>1, <1>3
  <2> QED BY <1>1, <1>2, <1>3, <2>1 DEF Once
<1> QED BY <1>1, <1>2, <1>3 DEF Absent

\* What is listed for t, without the statement that is being triggered.
Rest(t) == IF cur # None /\ turn = "wheel" /\ t = latest THEN Tail(Listed(t)) ELSE Listed(t)

\* The lists hold statements, and the one being triggered is at the head of
\* that of the present time unit.
LEMMA RestTyped ==
  ASSUME KernelInv, NEW t \in W!Times
  PROVE  /\ Listed(t) \in Seq(Objs) /\ Rest(t) \in Seq(Objs)
         /\ (cur # None /\ turn = "wheel" /\ t = latest) => Listed(t) # << >> /\ Head(Listed(t)) = cur
<1>1. Listed(t) \in Seq(Objs)
  <2>1. node \in Seq(WP!NodeType) /\ WP!InOrder(node)
    BY SameWheel DEF KernelInv, WP!WheelInv, WP!WheelTypeOK, WP!Sorted
  <2>2. CASE \E i \in 1..Len(node) : node[i].time = t
    <3>1. PICK i \in 1..Len(node) : node[i].time = t
      BY <2>2
    <3>2. WP!ListedAt(node, node[i].time) = node[i].event
      BY <2>1, WP!ListedAtNode, KernelConstants, LenProperties
    <3>3. node[i].event \in Seq(Objs)
      BY <2>1, WP!NodeFields, KernelConstants
    <3> QED BY <3>1, <3>2, <3>3, SameWheel DEF Listed
  <2>3. CASE ~\E i \in 1..Len(node) : node[i].time = t
    BY <2>1, <2>3, LenProperties, EmptySeq DEF Listed, W!ListedAt
  <2> QED BY <2>2, <2>3
<1>2. (cur # None /\ turn = "wheel" /\ t = latest) => Listed(t) # << >> /\ Head(Listed(t)) = cur
  BY ListedPresent, KernelFacts DEF InControl
<1> QED BY <1>1, <1>2, HeadTailProperties DEF Rest

\* What a step may do to the wheel, apart from the statement being triggered:
\* nothing, put a statement last in a list, or take the first of the present
\* time unit, to trigger it.
Same == \A t \in W!Times : Rest(t)' = Rest(t)
Puts(t, o) == \A u \in W!Times : Rest(u)' = IF u = t THEN Append(Rest(t), o) ELSE Rest(u)
Takes ==
  /\ latest \in W!Times /\ Rest(latest) # << >> /\ cur' = Head(Rest(latest))
  /\ \A u \in W!Times : Rest(u)' = IF u = latest THEN Tail(Rest(u)) ELSE Rest(u)

\* Process p is not on the wheel; it is there once, for time t.
OffWheel(p) == \A t \in W!Times : Absent(Rest(t), p)
OnWheelAt(p, t) == Once(Rest(t), p) /\ \A u \in W!Times \ {t} : Absent(Rest(u), p)

PlacesKept(p) ==
  /\ OffWheel(p) => OffWheel(p)'
  /\ \A t \in W!Times : OnWheelAt(p, t) => OnWheelAt(p, t)'

\* A wheel left alone keeps a process where it is.
LEMMA SameKept == ASSUME Same, NEW p PROVE PlacesKept(p)
BY DEF Same, PlacesKept, OffWheel, OnWheelAt

\* So does one on which another statement is put.
LEMMA PutOther ==
  ASSUME KernelInv, NEW t \in W!Times, NEW o \in Objs, NEW p \in Objs \ {o}, Puts(t, o)
  PROVE  PlacesKept(p)
<1>1. \A u \in W!Times : Absent(Rest(u), p) => Absent(Rest(u)', p)
  BY RestTyped, AppendOther DEF Puts
<1>2. \A u \in W!Times : Once(Rest(u), p) => Once(Rest(u)', p)
  BY RestTyped, AppendOther DEF Puts
<1> QED BY <1>1, <1>2 DEF PlacesKept, OffWheel, OnWheelAt

\* A process that is put on the wheel is there once, if it was not before.
LEMMA PutIt ==
  ASSUME KernelInv, NEW t \in W!Times, NEW p \in Objs, Puts(t, p), OffWheel(p)
  PROVE  OnWheelAt(p, t)'
<1>1. Once(Append(Rest(t), p), p)
  BY RestTyped, AppendIt DEF OffWheel
<1>2. Once(Rest(t)', p)
  BY <1>1 DEF Puts
<1> QED BY <1>2 DEF OnWheelAt, OffWheel, Puts

\* Another statement is triggered.
LEMMA TakeOther ==
  ASSUME KernelInv, Takes, NEW p \in Objs, p # cur'
  PROVE  PlacesKept(p)
<1>1. \A u \in W!Times : Absent(Rest(u), p) => Absent(Rest(u)', p)
  BY RestTyped, TailOther DEF Takes
<1>2. \A u \in W!Times : Once(Rest(u), p) => Once(Rest(u)', p)
  BY RestTyped, TailOther DEF Takes
<1> QED BY <1>1, <1>2 DEF PlacesKept, OffWheel, OnWheelAt

\* The process itself is: it was on the wheel, for the present time, and is
\* there no more.
LEMMA TakeIt ==
  ASSUME KernelInv, Takes, NEW p, p = cur'
  PROVE  /\ ~OffWheel(p)
         /\ \A t \in W!Times : OnWheelAt(p, t) => t = latest /\ OffWheel(p)'
<1>1. Rest(latest) \in Seq(Objs) /\ latest \in W!Times
  BY RestTyped DEF Takes
<1>2. ~Absent(Rest(latest), p) /\ (Once(Rest(latest), p) => Absent(Tail(Rest(latest)), p))
  BY <1>1, TailIt DEF Takes
<1>3. ASSUME NEW t \in W!Times, OnWheelAt(p, t) PROVE t = latest /\ OffWheel(p)'
  BY <1>1, <1>2, <1>3 DEF OnWheelAt, OffWheel, Takes
<1> QED BY <1>1, <1>2, <1>3 DEF OffWheel

\* The steps of the kernel on the wheel.
LEMMA RestSchedule ==
  ASSUME KernelInv, NEW t \in Nat, NEW o \in Objs, Schedule(t, o), UNCHANGED <<cur, turn>>,
         (unset # {} /\ t = 0) \/ (cur # None /\ t >= latest)
  PROVE  t \in W!Times /\ Puts(t, o)
<1>1. t \in W!Times
  BY KernelConstants DEF Schedule, HasRoom, W!Times
<1>2. (W!Elaborating /\ t = 0) \/ (handling /\ t >= latest)
  BY KernelFacts DEF InControl
<1>3. \A u : W!ListedAt(node', u) = IF u = t THEN Append(Listed(t), o) ELSE Listed(u)
  BY <1>1, <1>2, ListedScheduled DEF Schedule
<1>4. ASSUME NEW u \in W!Times PROVE Rest(u)' = IF u = t THEN Append(Rest(t), o) ELSE Rest(u)
  <2>1. Listed(u)' = IF u = t THEN Append(Listed(t), o) ELSE Listed(u)
    BY <1>3 DEF Listed
  <2>2. latest' = latest
    BY DEF Schedule
  <2>3. (cur # None /\ turn = "wheel" /\ u = latest) =>
          Listed(u) \in Seq(Objs) /\ Listed(u) # << >>
    BY RestTyped
  <2>4. (cur # None /\ turn = "wheel" /\ u = latest) =>
          Tail(Append(Listed(u), o)) = Append(Tail(Listed(u)), o)
    BY <2>3, HeadTailAppend
  <2> QED BY <2>1, <2>2, <2>4 DEF Rest
<1> QED BY <1>1, <1>4 DEF Puts

\* Nothing is scheduled, nothing triggered from the wheel.
LEMMA RestSame ==
  ASSUME \A u : Listed(u)' = Listed(u),
         UNCHANGED <<cur, turn, latest>> \/ (/\ cur = None \/ turn = "queue"
                                             /\ cur' = None \/ turn' = "queue")
  PROVE  Same
BY DEF Same, Rest

\* The wheel loses the statement triggered when it is triggered, not when the
\* list does: trigger first, remove later.
LEMMA RestTrigger ==
  ASSUME KernelInv
  PROVE  /\ TriggerFromWheel => Takes
         /\ TriggerFromQueue => Same
<1>1. ASSUME TriggerFromWheel PROVE Takes
  <2>1. /\ cur = None /\ cur' # None /\ handling /\ turn = "wheel" /\ turn' = "wheel"
        /\ node[1].event # << >> /\ cur' = Head(node[1].event) /\ UNCHANGED <<node, latest>>
    BY <1>1, TriggerTakes, KernelFacts DEF TriggerFromWheel, wheelVars
  <2>2. \A u : Listed(u)' = Listed(u)
    BY <2>1 DEF Listed
  <2>3. latest \in W!Times /\ Listed(latest) = node[1].event
    BY <2>1, ListedPresent, KernelFacts
  <2> QED BY <2>1, <2>2, <2>3 DEF Takes, Rest
<1>2. ASSUME TriggerFromQueue PROVE Same
  <2>1. cur = None /\ turn = "queue" /\ turn' = "queue" /\ UNCHANGED node
    BY <1>2, KernelFacts DEF TriggerFromQueue, Trigger, wheelVars, InControl, ControlTypeOK
  <2>2. \A u : Listed(u)' = Listed(u)
    BY <2>1 DEF Listed
  <2> QED BY <2>1, <2>2, RestSame
<1> QED BY <1>1, <1>2

\* A statement that returns is put last if it starts over.
LEMMA RestReturn ==
  ASSUME KernelInv, ReturnToWheel \/ ReturnToQueue
  PROVE  IF Reschedules(cur) THEN Puts(latest, cur) ELSE Same
<1>1. /\ cur # None /\ cur \in Objs /\ cur' = None /\ handling /\ latest' = latest
      /\ latest \in W!Times /\ latest \in Nat
  BY KernelFacts DEF ReturnToWheel, ReturnToQueue, InControl, Schedule, wheelVars
<1>2. CASE ReturnToWheel
  <2>1. turn = "wheel" /\ node[1].event # << >>
    BY <1>1, <1>2, KernelFacts DEF ReturnToWheel, InControl
  <2>2. node' = IF Reschedules(cur) THEN W!Scheduled(Popped, latest, cur) ELSE Popped
    BY <1>2 DEF ReturnToWheel, Popped
  <2>3. \A u : Listed(u)' = IF u = latest
                            THEN IF Reschedules(cur) THEN Append(Tail(Listed(u)), cur)
                                 ELSE Tail(Listed(u))
                            ELSE Listed(u)
    BY <1>1, <2>1, <2>2, ListedPopped DEF Listed
  <2> QED BY <1>1, <2>1, <2>3 DEF Rest, Same, Puts
<1>3. CASE ReturnToQueue
  <2>1. turn = "queue" /\ turn' = turn
    BY <1>3 DEF ReturnToQueue
  <2>2. CASE Reschedules(cur)
    <3>1. Schedule(latest, cur)
      BY <1>3, <2>2 DEF ReturnToQueue
    <3>2. \A u : W!ListedAt(node', u) = IF u = latest THEN Append(Listed(latest), cur) ELSE Listed(u)
      BY <1>1, <3>1, ListedScheduled DEF Schedule
    <3> QED BY <1>1, <2>1, <2>2, <3>2 DEF Listed, Rest, Puts
  <2>3. CASE ~Reschedules(cur)
    <3>1. \A u : Listed(u)' = Listed(u)
      BY <1>3, <2>3 DEF ReturnToQueue, Listed, wheelVars
    <3> QED BY <2>1, <2>3, <3>1, <1>1, RestSame
  <2> QED BY <2>2, <2>3
<1> QED BY <1>2, <1>3
-----------------------------------------------------------------------------
(***************************************************************************)
(* What else is going to wake it: an event in the queue or in the batch    *)
(* being handled, without the one whose statement is being triggered, and  *)
(* the event control it waits at.                                          *)
(***************************************************************************)
BatchRest == {temp[i] : i \in IF cur # None /\ turn = "queue" THEN 2 .. Len(temp) ELSE DOMAIN temp}
Due(p) == {e \in BatchRest : e.obj = p}

Silent(p) == Queued(p) = {} /\ Due(p) = {} /\ Waiting(p) = {}
OneSignal(p) ==
  \E e \in Events : \/ Queued(p) = {e} /\ Due(p) = {} /\ Waiting(p) = {}
                    \/ Queued(p) = {} /\ Due(p) = {e} /\ Waiting(p) = {}
                    \/ Queued(p) = {} /\ Due(p) = {} /\ Waiting(p) = {e}

SignalsKept(p) == (Silent(p) => Silent(p)') /\ (OneSignal(p) => OneSignal(p)')

\* Only the events of event controls and of $monitor and $strobe are armed.
ArmedKinds == armed \subseteq WaitEvents \cup SenseEvents \cup OutputEvents

\* The events of a process nothing forces: its event control and its zero
\* delay.
LEMMA EventsOfUnforced ==
  ASSUME NEW p \in Unforced
  PROVE  /\ p \in Objs /\ p \in Procs /\ p \notin Assigns \cup Updates \cup Outputs \cup Sensitive
         /\ p \in Initials <=> p \notin Timed
         /\ \A e \in SenseEvents \cup OutputEvents : e.obj # p
         /\ Ev(p, "active") \in Events => p \in Initials
         /\ \A o, k : Ev(o, k).obj = o /\ Ev(o, k).stratum = k
<1>1. /\ p \in Objs /\ p \in Procs /\ p \notin Assigns \cup Updates \cup Outputs \cup Sensitive
      /\ p \in Initials <=> p \notin Timed
  BY SimKernelAssumption DEF Unforced, Objs, Procs
<1>2. \A o, k : Ev(o, k).obj = o /\ Ev(o, k).stratum = k
  BY DEF Ev
<1>3. \A e \in SenseEvents \cup OutputEvents : e.obj # p
  BY <1>1, <1>2 DEF SenseEvents, OutputEvents, Outputs
<1>4. ASSUME Ev(p, "active") \in Events PROVE p \in Initials
  <2>1. Ev(p, "active").obj = p /\ Ev(p, "active").stratum = "active"
    BY <1>2
  <2>2. Ev(p, "active") \in WaitEvents
    BY <1>2, <1>3, <1>4, <2>1 DEF Events
  <2> QED BY <1>2, <2>1, <2>2 DEF WaitEvents
<1> QED BY <1>1, <1>2, <1>3, <1>4

\* The signals are the same if their parts are.
LEMMA SignalsSame ==
  ASSUME NEW p, Queued(p)' = Queued(p), Due(p)' = Due(p), Waiting(p)' = Waiting(p)
  PROVE  SignalsKept(p)
BY DEF SignalsKept, Silent, OneSignal

\* An event of another statement is queued, or armed.
LEMMA OtherQueued ==
  ASSUME KernelInv, NEW p, NEW e \in Events, e.obj # p, Enqueue(e) \/ UNCHANGED queueVars,
         UNCHANGED <<cur, turn>>, armed' \in {armed, armed \cup {e}, armed \ {e}}
  PROVE  SignalsKept(p)
<1>1. Queued(p)' = Queued(p)
  BY DEF Queued, Enqueue, queueVars, KernelInv, Q!QueueInv, Q!QueueTypeOK
<1>2. Due(p)' = Due(p)
  BY DEF Due, BatchRest, Enqueue, queueVars
<1>3. Waiting(p)' = Waiting(p)
  BY DEF Waiting
<1> QED BY <1>1, <1>2, <1>3, SignalsSame

\* An event of the process itself is queued, or armed.
LEMMA ItsQueued ==
  ASSUME KernelInv, NEW p, NEW e \in Events, e.obj = p, Enqueue(e), UNCHANGED <<armed, cur, turn>>,
         Silent(p)
  PROVE  OneSignal(p)'
<1>1. Queued(p)' = {e}
  BY DEF Silent, Queued, Enqueue, KernelInv, Q!QueueInv, Q!QueueTypeOK
<1>2. Due(p)' = {}
  BY DEF Silent, Due, BatchRest, Enqueue
<1>3. Waiting(p)' = {}
  BY DEF Silent, Waiting
<1> QED BY <1>1, <1>2, <1>3 DEF OneSignal

\* The process reaches an event control.
LEMMA ItsArmed ==
  ASSUME NEW p, NEW e \in WaitEvents, e.obj = p, armed' = armed \cup {e},
         UNCHANGED <<queueVars, cur, turn>>, Silent(p)
  PROVE  OneSignal(p)'
<1>1. Queued(p)' = {} /\ Due(p)' = {}
  BY DEF Silent, Queued, Due, BatchRest, queueVars
<1>2. Waiting(p)' = {e}
  BY DEF Silent, Waiting
<1> QED BY <1>1, <1>2 DEF OneSignal, Events

\* An event control is reached: the event is queued and deactivated.
LEMMA ItsNotified ==
  ASSUME KernelInv, ArmedKinds, NEW p \in Unforced, NEW e \in Events, e.obj = p, Notify(e),
         UNCHANGED <<cur, turn>>
  PROVE  SignalsKept(p)
<1>1. e \in WaitEvents /\ e \in Waiting(p) /\ Enqueue(e) /\ armed' = armed \ {e} /\ ~queued[e]
  BY EventsOfUnforced DEF ArmedKinds, Notify, Waiting, Enqueue
<1>2. ~Silent(p)
  BY <1>1 DEF Silent
<1>3. ASSUME OneSignal(p) PROVE OneSignal(p)'
  <2>1. Waiting(p) = {e} /\ Queued(p) = {} /\ Due(p) = {}
    BY <1>1, <1>3 DEF OneSignal
  <2>2. Queued(p)' = {e}
    BY <1>1, <2>1 DEF Queued, Enqueue, KernelInv, Q!QueueInv, Q!QueueTypeOK
  <2>3. Due(p)' = {}
    BY <1>1, <2>1 DEF Due, BatchRest, Enqueue
  <2>4. Waiting(p)' = {}
    BY <1>1, <2>1 DEF Waiting
  <2> QED BY <2>2, <2>3, <2>4 DEF OneSignal
<1> QED BY <1>2, <1>3 DEF SignalsKept

\* A list becomes the batch: what was queued in it is now due.
LEMMA SignalsMoved ==
  ASSUME KernelInv, NEW p, NEW k \in Q!Strata, Q!MoveEvents(k), temp = << >>,
         cur = None, cur' = None, armed' = armed
  PROVE  SignalsKept(p)
<1> DEFINE Moved == {queue[k][i] : i \in DOMAIN queue[k]}
<1>1. Moved \subseteq Events /\ \A e \in Moved : queued[e]
  <2>1. queue[k] \in Seq(Events)
    BY DEF KernelInv, Q!QueueInv, Q!QueueTypeOK
  <2>2. \A i \in DOMAIN queue[k] : queue[k][i] \in Events
    BY <2>1, ElementOfSeq, LenProperties
  <2>3. \A i \in DOMAIN queue[k] : queued[queue[k][i]]
    BY <2>2 DEF KernelInv, Q!QueueInv, Q!QueuedIffListed, ContainerOf
  <2> QED BY <2>2, <2>3
<1>2. Due(p) = {} /\ Due(p)' = {e \in Moved : e.obj = p}
  BY DEF Due, BatchRest, Q!MoveEvents
<1>3. \A e \in Events : queued'[e] <=> queued[e] /\ e \notin Moved
  <2>1. queued' = [c \in Events |-> queued[c] /\ \A i \in DOMAIN queue[k] : ContainerOf[queue[k][i]] # c]
    BY DEF Q!MoveEvents
  <2>2. \A i \in DOMAIN queue[k] : queue[k][i] \in Events /\ ContainerOf[queue[k][i]] = queue[k][i]
    BY <1>1 DEF ContainerOf
  <2> QED BY <2>1, <2>2
<1>4. Waiting(p)' = Waiting(p)
  BY DEF Waiting
<1>5. Queued(p)' = Queued(p) \ Moved
  BY <1>3 DEF Queued
<1>6. \A e \in Moved : e.obj = p => e \in Queued(p)
  BY <1>1 DEF Queued
<1> HIDE DEF Moved
<1>7. Silent(p) => Silent(p)'
  BY <1>2, <1>4, <1>5, <1>6 DEF Silent
<1>8. ASSUME OneSignal(p) PROVE OneSignal(p)'
  <2>1. PICK e \in Events : \/ Queued(p) = {e} /\ Waiting(p) = {}
                            \/ Queued(p) = {} /\ Waiting(p) = {e}
    BY <1>2, <1>8 DEF OneSignal
  <2>2. e \in Queued(p) => e.obj = p
    BY DEF Queued
  <2>3. CASE e \in Queued(p) /\ e \in Moved
    <3>1. Queued(p)' = {} /\ Due(p)' = {e} /\ Waiting(p)' = {}
      BY <1>2, <1>4, <1>5, <1>6, <2>1, <2>2, <2>3
    <3> QED BY <3>1 DEF OneSignal
  <2>4. CASE e \in Queued(p) /\ e \notin Moved
    <3>1. Queued(p)' = {e} /\ Due(p)' = {} /\ Waiting(p)' = {}
      BY <1>2, <1>4, <1>5, <1>6, <2>1, <2>2, <2>4
    <3> QED BY <3>1 DEF OneSignal
  <2>5. CASE e \notin Queued(p)
    <3>1. Queued(p)' = {} /\ Due(p)' = {} /\ Waiting(p)' = {e}
      BY <1>2, <1>4, <1>5, <1>6, <2>1, <2>5
    <3> QED BY <3>1 DEF OneSignal
  <2> QED BY <2>3, <2>4, <2>5
<1> QED BY <1>7, <1>8 DEF SignalsKept

\* The batch, from its first event on.
LEMMA BatchFirst ==
  ASSUME KernelInv, temp # << >>
  PROVE  /\ {temp[i] : i \in DOMAIN temp} = {Head(temp)} \cup {temp[i] : i \in 2 .. Len(temp)}
         /\ Head(temp) \notin {temp[i] : i \in 2 .. Len(temp)}
         /\ Head(temp) \in Events
<1>1. /\ temp \in Seq(Events) /\ DOMAIN temp = 1..Len(temp) /\ Len(temp) \in Nat \ {0}
      /\ Head(temp) = temp[1] /\ Head(temp) \in Events
  BY KernelFacts, LenProperties, EmptySeq, HeadTailProperties
<1>2. 1..Len(temp) = {1} \cup 2..Len(temp)
  BY <1>1
<1>3. ASSUME NEW i \in 2..Len(temp), temp[i] = temp[1] PROVE FALSE
  <2>1. i \in DOMAIN temp /\ 1 \in DOMAIN temp /\ i # 1
    BY <1>1
  <2>2. temp[1] \in Events /\ ContainerOf[temp[1]] = ContainerOf[temp[i]]
    BY <1>1, <1>3
  <2> QED BY <2>1, <2>2 DEF KernelInv, Q!QueueInv, Q!BatchOncePerContainer
<1> QED BY <1>1, <1>2, <1>3

\* The event at the head of the batch triggers its statement.
LEMMA SignalsTriggered ==
  ASSUME KernelInv, NEW p, TriggerFromQueue
  PROVE  /\ cur' # p => SignalsKept(p)
         /\ cur' = p => ~Silent(p) /\ (OneSignal(p) => Silent(p)')
<1>1. /\ cur = None /\ cur' # None /\ turn = "queue" /\ turn' = "queue" /\ temp # << >>
      /\ cur' = Head(temp).obj /\ UNCHANGED <<queueVars, armed>>
  BY TriggerTakes, KernelFacts DEF TriggerFromQueue, InControl, ControlTypeOK
<1>2. Queued(p)' = Queued(p) /\ Waiting(p)' = Waiting(p)
  BY <1>1 DEF Queued, Waiting, queueVars
<1>3. BatchRest = {Head(temp)} \cup BatchRest' /\ Head(temp) \notin BatchRest'
  <2>1. BatchRest = {temp[i] : i \in DOMAIN temp}
    BY <1>1 DEF BatchRest
  <2>2. BatchRest' = {temp[i] : i \in 2 .. Len(temp)}
    BY <1>1 DEF BatchRest, queueVars
  <2> QED BY <1>1, <2>1, <2>2, BatchFirst
<1>4. CASE cur' # p
  <2>1. Due(p)' = Due(p)
    BY <1>1, <1>3, <1>4 DEF Due
  <2> QED BY <1>2, <1>4, <2>1, SignalsSame
<1>5. CASE cur' = p
  <2>1. Head(temp) \in Due(p) /\ Head(temp) \notin Due(p)' /\ Due(p)' \subseteq Due(p)
    BY <1>1, <1>3, <1>5 DEF Due
  <2> QED BY <1>2, <1>5, <2>1 DEF Silent, OneSignal
<1> QED BY <1>4, <1>5

\* It leaves the batch when the statement has returned.
LEMMA SignalsReturned ==
  ASSUME KernelInv, NEW p, ReturnToWheel \/ ReturnToQueue
  PROVE  SignalsKept(p)
<1>1. Queued(p)' = Queued(p) /\ Waiting(p)' = Waiting(p)
  BY DEF Queued, Waiting, ReturnToWheel, ReturnToQueue, Q!Handle, queueVars
<1>2. BatchRest' = BatchRest
  <2>1. CASE ReturnToWheel
    <3>1. cur # None /\ cur' = None /\ turn = "wheel" /\ temp' = temp
      BY <2>1 DEF ReturnToWheel, queueVars
    <3> QED BY <3>1 DEF BatchRest
  <2>2. CASE ReturnToQueue
    <3>1. /\ cur # None /\ cur' = None /\ turn = "queue" /\ temp # << >> /\ temp' = Tail(temp)
          /\ temp \in Seq(Events)
      BY <2>2, KernelFacts DEF ReturnToQueue, Q!Handle
    <3>2. /\ Len(temp) \in Nat \ {0} /\ DOMAIN temp' = 1..(Len(temp) - 1)
          /\ \A i \in 1..(Len(temp) - 1) : temp'[i] = temp[i + 1]
      BY <3>1, HeadTailProperties, LenProperties, EmptySeq
    <3>3. \A i \in 1..(Len(temp) - 1) : i + 1 \in 2..Len(temp)
      BY <3>2
    <3>4. \A j \in 2..Len(temp) : j - 1 \in 1..(Len(temp) - 1) /\ temp'[j - 1] = temp[j]
      BY <3>2
    <3>5. BatchRest = {temp[i] : i \in 2..Len(temp)} /\ BatchRest' = {temp'[i] : i \in DOMAIN temp'}
      BY <3>1 DEF BatchRest
    <3>6. BatchRest' \subseteq BatchRest
      BY <3>2, <3>3, <3>5
    <3>7. BatchRest \subseteq BatchRest'
      BY <3>2, <3>4, <3>5
    <3> QED BY <3>6, <3>7
  <2> QED BY <2>1, <2>2
<1>3. Due(p)' = Due(p)
  BY <1>2 DEF Due
<1> QED BY <1>1, <1>3, SignalsSame

\* Nothing of the queue changes.
LEMMA SignalsStay ==
  ASSUME NEW p, UNCHANGED <<queue, queued, temp, armed>>,
         UNCHANGED <<cur, turn>> \/ (cur = None /\ cur' = None)
           \/ (turn = "wheel" /\ turn' = "wheel")
  PROVE  SignalsKept(p)
<1>1. Queued(p)' = Queued(p) /\ Waiting(p)' = Waiting(p)
  BY DEF Queued, Waiting
<1>2. Due(p)' = Due(p)
  BY DEF Due, BatchRest
<1> QED BY <1>1, <1>2, SignalsSame
-----------------------------------------------------------------------------
(***************************************************************************)
(* The invariant, step by step.                                            *)
(***************************************************************************)
\* Process p is not suspended: it is yet to be set up, over, or running.
Away(p) == p \in unset \/ sleep[p] = "over" \/ (cur = p /\ returned # "false")

\* It has no wake-up then, and one otherwise; while it is delayed, that is a
\* place on the wheel, for the time its delay is over.
OneWakeup(p) ==
  IF Away(p) THEN OffWheel(p) /\ Silent(p)
  ELSE \/ /\ Silent(p)
          /\ \E t \in W!Times : OnWheelAt(p, t) /\ (sleep[p] = "delay" => t = until[p])
       \/ OffWheel(p) /\ OneSignal(p) /\ sleep[p] # "delay"

\* How a process gets there: one that is running is not suspended, only an
\* initial construct is ever over, and it is when it has left its last block.
Course(p) ==
  /\ p \in unset => sleep[p] = "no"
  /\ sleep[p] = "over" => p \in Initials
  /\ cur = p /\ returned = "not" => sleep[p] = "no"
  /\ cur = p /\ returned = "true" => sleep[p] \in {"no", "over"}
  /\ cur = p /\ returned = "true" => (p \in Timed \/ (sleep[p] = "over" <=> depth[p] = 0))

\* The inductive invariant.
WakeInv == ArmedKinds /\ \A p \in Unforced : OneWakeup(p) /\ Course(p)

\* While p does nothing that concerns it, it keeps its wake-up.
LEMMA WakeupStays ==
  ASSUME NEW p, OneWakeup(p), PlacesKept(p), SignalsKept(p), Away(p)' <=> Away(p),
         sleep'[p] = sleep[p], until'[p] = until[p]
  PROVE  OneWakeup(p)'
BY DEF OneWakeup, PlacesKept, SignalsKept

\* Nor does it leave its course.
LEMMA Bystander ==
  ASSUME NEW p, OneWakeup(p), Course(p), PlacesKept(p), SignalsKept(p),
         p \in unset' <=> p \in unset, cur' = p <=> cur = p,
         sleep'[p] = sleep[p], until'[p] = until[p],
         cur = p => returned' = returned /\ (returned = "true" => depth'[p] = depth[p])
  PROVE  OneWakeup(p)' /\ Course(p)'
<1>1. Away(p)' <=> Away(p)
  BY DEF Away
<1>2. OneWakeup(p)'
  BY <1>1, WakeupStays
<1>3. Course(p)'
  BY DEF Course
<1> QED BY <1>2, <1>3

\* Setup puts a process on the wheel, for time 0, and queues no event of it.
LEMMA SetupWake ==
  ASSUME KernelInv, ArmedKinds, Constant \cap WaitEvents = {},
         NEW o \in Procs \cup Assigns, SetupProcess(o) \/ SetupAssign(o),
         NEW p \in Unforced, OneWakeup(p), Course(p)
  PROVE  OneWakeup(p)' /\ Course(p)'
<1>1. /\ cur = None /\ unset # {} /\ unset' = unset \ {o} /\ o \in Objs /\ o \in unset
      /\ UNCHANGED <<procVars, turn, cur, returned, latest>>
  <2>1. unset # {}
    BY DEF SetupProcess, SetupAssign
  <2> QED BY <2>1, KernelFacts
          DEF SetupProcess, SetupAssign, InControl, W!Elaborating, Schedule, wheelVars, Objs, Procs
<1>2. Schedule(0, o) => Puts(0, o) /\ 0 \in W!Times
  BY <1>1, RestSchedule
<1>3. UNCHANGED wheelVars => Same
  BY <1>1, RestSame DEF Listed, wheelVars
<1>4. p \in Objs /\ p \in Procs /\ None # p
  BY EventsOfUnforced, SimKernelAssumption
<1>5. CASE o # p
  <2>1. PlacesKept(p)
    <3>1. Schedule(0, o) => PlacesKept(p)
      BY <1>1, <1>2, <1>4, <1>5, PutOther
    <3>2. UNCHANGED wheelVars => PlacesKept(p)
      BY <1>3, SameKept
    <3> QED BY <3>1, <3>2 DEF SetupProcess, SetupAssign
  <2>2. SignalsKept(p)
    <3>1. Ev(o, "active").obj = o
      BY DEF Ev
    <3>2. CASE Ev(o, "active") \in Events
      <4>1. Enqueue(Ev(o, "active")) \/ UNCHANGED queueVars
        BY DEF SetupProcess, SetupAssign, Register
      <4>2. armed' \in {armed, armed \cup {Ev(o, "active")}}
        BY DEF SetupProcess, SetupAssign
      <4> QED BY <1>1, <1>5, <3>1, <3>2, <4>1, <4>2, OtherQueued
    <3>3. CASE Ev(o, "active") \notin Events
      <4>1. UNCHANGED queueVars /\ armed' = armed
        BY <3>3, SimKernelAssumption
           DEF SetupProcess, SetupAssign, Register, Events, SenseEvents
      <4> QED BY <1>1, <4>1, SignalsStay DEF queueVars
    <3> QED BY <3>2, <3>3
  <2> QED BY <1>1, <1>4, <1>5, <2>1, <2>2, Bystander DEF procVars
<1>6. CASE o = p
  <2>1. SetupProcess(p) /\ p \in Initials \cup Timed /\ p \notin Sensitive
    BY <1>6, EventsOfUnforced DEF SetupAssign, Unforced
  <2>2. Schedule(0, p) /\ UNCHANGED queueVars /\ armed' = armed
    <3>1. Ev(p, "active") \notin Constant
      BY EventsOfUnforced, SimKernelAssumption DEF WaitEvents
    <3> QED BY <2>1, <3>1 DEF SetupProcess, Register
  <2>3. OffWheel(p) /\ Silent(p) /\ sleep[p] = "no"
    BY <1>1, <1>6 DEF OneWakeup, Away, Course
  <2>4. OnWheelAt(p, 0)' /\ 0 \in W!Times
    BY <1>2, <1>4, <1>6, <2>2, <2>3, PutIt
  <2>5. Silent(p)'
    BY <1>1, <2>2, <2>3, SignalsStay DEF SignalsKept, queueVars
  <2>6. p \notin unset' /\ sleep'[p] = "no" /\ cur' # p
    BY <1>1, <1>4, <1>6, <2>3 DEF procVars
  <2> QED BY <2>4, <2>5, <2>6 DEF OneWakeup, Away, Course
<1> QED BY <1>5, <1>6

\* A process is triggered: its wake-up is gone.  Had it been delayed, it has
\* been taken from the wheel, at the time its delay is over.
LEMMA TriggerWake ==
  ASSUME KernelInv, TriggerFromWheel \/ TriggerFromQueue,
         NEW p \in Unforced, OneWakeup(p), Course(p)
  PROVE  /\ OneWakeup(p)' /\ Course(p)'
         /\ Resumes(p) => latest = until[p]
<1>1. /\ cur = None /\ cur' \in Objs /\ unset = {} /\ Trigger(cur')
      /\ UNCHANGED <<wheelVars, queueVars, armed, unset, turn>>
  BY TriggerTakes DEF TriggerFromWheel, TriggerFromQueue
<1>2. p \in Objs /\ p \in Procs /\ p \notin Assigns /\ None # p
  BY EventsOfUnforced, SimKernelAssumption
<1>3. CASE cur' # p
  <2>1. PlacesKept(p)
    BY <1>2, <1>3, RestTrigger, TakeOther, SameKept
  <2>2. SignalsKept(p)
    <3>1. CASE TriggerFromWheel
      <4>1. turn = "wheel" /\ turn' = "wheel"
        BY <3>1, <1>1 DEF TriggerFromWheel
      <4> QED BY <1>1, <4>1, SignalsStay DEF queueVars
    <3>2. CASE TriggerFromQueue
      BY <1>3, <3>2, SignalsTriggered
    <3> QED BY <3>1, <3>2
  <2>3. sleep'[p] = sleep[p] /\ until'[p] = until[p]
    BY <1>1, <1>2, <1>3, KernelFacts DEF Trigger, procVars, ControlTypeOK
  <2> QED BY <1>1, <1>2, <1>3, <2>1, <2>2, <2>3, Bystander DEF Resumes
<1>4. CASE cur' = p
  <2>1. sleep'[p] = "no" /\ returned' = "not" /\ sleep[p] \in {"no", "delay", "zero", "wait", "over"}
    BY <1>1, <1>2, <1>4, KernelFacts DEF Trigger, ControlTypeOK
  <2>2. Away(p)' /\ Course(p)'
    BY <1>1, <1>4, <2>1 DEF Away, Course
  <2>3. CASE TriggerFromWheel
    <3>1. Takes
      BY <2>3, RestTrigger
    <3>2. /\ ~OffWheel(p)
          /\ \A t \in W!Times : OnWheelAt(p, t) => t = latest /\ OffWheel(p)'
      BY <1>4, <3>1, TakeIt
    <3>3. /\ Silent(p)
          /\ \E t \in W!Times : OnWheelAt(p, t) /\ (sleep[p] = "delay" => t = until[p])
      BY <3>2 DEF OneWakeup
    <3>4. OffWheel(p)' /\ (sleep[p] = "delay" => latest = until[p])
      BY <3>2, <3>3
    <3>5. Silent(p)'
      <4>1. turn = "wheel" /\ turn' = "wheel"
        BY <2>3, <1>1 DEF TriggerFromWheel
      <4> QED BY <1>1, <3>3, <4>1, SignalsStay DEF SignalsKept, queueVars
    <3> QED BY <2>2, <3>4, <3>5 DEF OneWakeup, Resumes
  <2>4. CASE TriggerFromQueue
    <3>1. ~Silent(p) /\ (OneSignal(p) => Silent(p)')
      BY <1>4, <2>4, SignalsTriggered
    <3>2. OffWheel(p) /\ OneSignal(p) /\ sleep[p] # "delay"
      BY <3>1 DEF OneWakeup
    <3>3. OffWheel(p)'
      BY <2>4, <3>2, RestTrigger, SameKept DEF PlacesKept
    <3> QED BY <2>2, <3>1, <3>2, <3>3 DEF OneWakeup, Resumes
  <2> QED BY <2>3, <2>4
<1> QED BY <1>3, <1>4

\* A process returns.  If it has returned FALSE it has arranged for its
\* wake-up; if TRUE, it is over or put on the wheel again.
LEMMA ReturnWake ==
  ASSUME KernelInv, ReturnToWheel \/ ReturnToQueue,
         NEW p \in Unforced, OneWakeup(p), Course(p)
  PROVE  OneWakeup(p)' /\ Course(p)'
<1>1. /\ cur # None /\ cur \in Objs /\ cur' = None /\ returned # "not" /\ latest \in W!Times
      /\ UNCHANGED <<unset, depth, sleep, until>>
      /\ returned \in {"not", "false", "true"} /\ unset = {}
  BY KernelFacts DEF ReturnToWheel, ReturnToQueue, InControl, ControlTypeOK, W!Elaborating
<1>2. p \in Objs /\ p \in Procs /\ None # p /\ (p \in Initials <=> p \notin Timed)
  BY EventsOfUnforced, SimKernelAssumption
<1>3. SignalsKept(p)
  BY SignalsReturned
<1>4. Course(p)'
  BY <1>1, <1>2 DEF Course
<1>5. CASE cur # p
  <2>1. PlacesKept(p)
    BY <1>1, <1>2, <1>5, RestReturn, PutOther, SameKept
  <2> QED BY <1>1, <1>2, <1>3, <1>5, <2>1, Bystander
<1>6. CASE cur = p /\ returned = "false"
  <2>1. PlacesKept(p)
    BY <1>6, RestReturn, SameKept DEF Reschedules
  <2>2. Away(p)' <=> Away(p)
    BY <1>1, <1>2, <1>6 DEF Away
  <2> QED BY <1>1, <1>3, <1>4, <2>1, <2>2, WakeupStays
<1>7. CASE cur = p /\ returned = "true"
  <2>1. OffWheel(p) /\ Silent(p) /\ Silent(p)'
    BY <1>3, <1>7 DEF OneWakeup, Away, SignalsKept
  <2>2. depth[p] \in Nat
    BY <1>2, KernelFacts, SimKernelAssumption DEF ControlTypeOK
  <2>3. Reschedules(p) <=> sleep[p] # "over"
    BY <1>2, <1>7, <2>2 DEF Course, Reschedules
  <2>4. CASE sleep[p] = "over"
    <3>1. OffWheel(p)'
      BY <1>7, <2>1, <2>3, <2>4, RestReturn, SameKept DEF PlacesKept
    <3> QED BY <1>1, <1>4, <2>1, <2>4, <3>1 DEF OneWakeup, Away
  <2>5. CASE sleep[p] # "over"
    <3>1. PICK t \in W!Times : t = latest
      BY <1>1
    <3>2. Puts(t, p)
      BY <1>7, <2>3, <2>5, <3>1, RestReturn DEF Puts
    <3>3. OnWheelAt(p, t)'
      BY <1>2, <2>1, <3>2, PutIt
    <3>4. sleep'[p] # "delay"
      BY <1>1, <1>7 DEF Course
    <3>5. ~Away(p)'
      BY <1>1, <1>2, <2>5 DEF Away
    <3> QED BY <1>4, <2>1, <3>3, <3>4, <3>5 DEF OneWakeup
  <2> QED BY <2>4, <2>5
<1> QED BY <1>1, <1>5, <1>6, <1>7

\* The steps of the handlers between two statements.
LEMMA HandlerWake ==
  ASSUME KernelInv, StepBegin \/ StepEnd \/ QueueEnter \/ QueueActivate \/ QueueLeave,
         NEW p \in Unforced, OneWakeup(p), Course(p)
  PROVE  OneWakeup(p)' /\ Course(p)'
<1>1. cur = None /\ cur' = None /\ UNCHANGED <<procVars, armed, unset, returned>>
  <2>1. CASE StepBegin \/ StepEnd
    BY <2>1, KernelFacts DEF StepBegin, StepEnd, W!Begin, InControl
  <2>2. CASE QueueEnter \/ QueueActivate
    BY <2>2 DEF QueueEnter, QueueActivate
  <2>3. CASE QueueLeave
    BY <2>3, KernelFacts DEF QueueLeave, Q!Leave, Q!LoopDone, InControl, ControlTypeOK
  <2> QED BY <2>1, <2>2, <2>3
<1>2. \A u : Listed(u)' = Listed(u)
  <2>1. CASE StepEnd
    BY <2>1, ListedEnd DEF StepEnd
  <2>2. CASE ~StepEnd
    BY <2>2 DEF StepBegin, QueueEnter, QueueActivate, QueueLeave, W!Begin, Listed, wheelVars
  <2> QED BY <2>1, <2>2
<1>3. PlacesKept(p)
  BY <1>1, <1>2, RestSame, SameKept
<1>4. SignalsKept(p)
  <2>1. CASE UNCHANGED <<queue, queued, temp>>
    BY <1>1, <2>1, SignalsStay
  <2>2. CASE QueueActivate
    <3>1. PICK k \in Q!Strata : Q!MoveEvents(k) /\ temp = << >>
      BY <2>2 DEF QueueActivate, Q!Activate, Q!ActivateStrobe, Q!LoopDone, Q!Strata, Q!Looped
    <3> QED BY <1>1, <3>1, SignalsMoved
  <2> QED BY <2>1, <2>2
          DEF StepBegin, StepEnd, QueueEnter, QueueLeave, Q!Enter, Q!Leave, queueVars
<1>5. p # None
  BY EventsOfUnforced, SimKernelAssumption
<1> QED BY <1>1, <1>3, <1>4, <1>5, Bystander DEF procVars

\* A net changes.
LEMMA NotifyWake ==
  ASSUME KernelInv, ArmedKinds, NEW e \in Events, Assign(e) \/ ApiSetNet(e),
         NEW p \in Unforced, OneWakeup(p), Course(p)
  PROVE  OneWakeup(p)' /\ Course(p)'
<1>1. Notify(e) /\ UNCHANGED <<wheelVars, procVars, unset, turn, cur, returned>>
  BY DEF Assign, ApiSetNet
<1>2. PlacesKept(p)
  BY <1>1, RestSame, SameKept DEF Listed, wheelVars
<1>3. SignalsKept(p)
  <2>1. CASE e.obj = p
    BY <1>1, <2>1, ItsNotified
  <2>2. CASE e.obj # p
    BY <1>1, <2>2, OtherQueued DEF Notify
  <2> QED BY <2>1, <2>2
<1> QED BY <1>1, <1>2, <1>3, Bystander DEF procVars

\* What another statement does to the process, and the process to itself
\* without suspending itself: nothing.
LEMMA EffectWake ==
  ASSUME KernelInv, NEW p \in Unforced, OneWakeup(p), Course(p),
         \/ \E e \in Events : Enable(e)
         \/ \E u \in Updates : Nonblock(u) \/ \E d \in 1..MaxTime : NonblockLater(u, d)
         \/ \E q \in Procs : EnterBlock(q)
         \/ \E o \in Objs \ Procs : Complete(o)
         \/ Finish \/ UNCHANGED vars
  PROVE  OneWakeup(p)' /\ Course(p)'
<1>1. p \in Objs /\ p \in Procs /\ p \notin Assigns \cup Updates \cup Outputs
  BY EventsOfUnforced
<1>2. ASSUME UNCHANGED wheelVars, UNCHANGED <<cur, turn>> PROVE PlacesKept(p)
  BY <1>2, RestSame, SameKept DEF Listed, wheelVars
<1>3. CASE \E e \in Events : Enable(e)
  <2>1. PICK e \in Events : Enable(e)
    BY <1>3
  <2>2. e.obj # p
    BY <2>1, EventsOfUnforced DEF Enable
  <2>3. Enqueue(e) \/ UNCHANGED queueVars
    BY <2>1 DEF Enable, Register
  <2>4. SignalsKept(p)
    BY <2>1, <2>2, <2>3, OtherQueued DEF Enable
  <2> QED BY <1>2, <2>1, <2>4, Bystander DEF Enable, procVars
<1>4. ASSUME NEW u \in Updates, Nonblock(u) PROVE OneWakeup(p)' /\ Course(p)'
  <2>1. Ev(u, "nonblocking") \in Events /\ Ev(u, "nonblocking").obj # p
    BY <1>1 DEF Events, Ev
  <2>2. SignalsKept(p)
    BY <1>4, <2>1, OtherQueued DEF Nonblock
  <2> QED BY <1>2, <1>4, <2>2, Bystander DEF Nonblock, procVars
<1>5. ASSUME NEW u \in Updates, NEW d \in 1..MaxTime, NonblockLater(u, d)
      PROVE  OneWakeup(p)' /\ Course(p)'
  <2>1. /\ cur # None /\ Schedule(latest + d, u) /\ u \in Objs /\ u # p
        /\ UNCHANGED <<queueVars, procVars, armed, unset, turn, cur, returned>>
    BY <1>1, <1>5, SimKernelAssumption DEF NonblockLater, Running, Objs
  <2>2. latest + d \in Nat /\ latest + d >= latest
    BY KernelFacts, KernelConstants
  <2>3. latest + d \in W!Times /\ Puts(latest + d, u)
    BY <2>1, <2>2, RestSchedule
  <2>4. PlacesKept(p)
    BY <1>1, <2>1, <2>3, PutOther
  <2>5. SignalsKept(p)
    BY <2>1, SignalsStay DEF queueVars
  <2> QED BY <2>1, <2>4, <2>5, Bystander DEF procVars
<1>6. CASE \/ \E q \in Procs : EnterBlock(q)
           \/ \E o \in Objs \ Procs : Complete(o)
           \/ Finish \/ UNCHANGED vars
  <2>1. /\ UNCHANGED <<wheelVars, queueVars, armed, unset, turn, cur, until>>
        /\ sleep'[p] = sleep[p]
        /\ cur = p => returned' = returned /\ (returned = "true" => depth'[p] = depth[p])
    <3>1. ASSUME NEW q \in Procs, EnterBlock(q)
          PROVE  /\ UNCHANGED <<wheelVars, queueVars, armed, unset, turn, cur, until, sleep>>
                 /\ returned' = returned /\ returned = "not"
      BY <3>1 DEF EnterBlock, Running
    <3>2. ASSUME NEW o \in Objs \ Procs, Complete(o)
          PROVE  /\ UNCHANGED <<wheelVars, queueVars, armed, unset, turn, cur, until, depth>>
                 /\ cur # p /\ sleep'[p] = sleep[p]
      BY <1>1, <3>2, KernelFacts DEF Complete, Running, ControlTypeOK
    <3>3. ASSUME Finish \/ UNCHANGED vars
          PROVE  UNCHANGED <<wheelVars, queueVars, armed, unset, turn, cur, until, sleep, returned, depth>>
      BY <3>3 DEF Finish, vars, procVars
    <3> QED BY <1>6, <3>1, <3>2, <3>3
  <2>2. SignalsKept(p)
    BY <2>1, SignalsStay DEF queueVars
  <2> QED BY <1>2, <2>1, <2>2, Bystander
<1> QED BY <1>3, <1>4, <1>5, <1>6

\* The end of a block: the process goes on, or returns TRUE.
LEMMA EndBlockWake ==
  ASSUME KernelInv, NEW q \in Procs, EndBlock(q), NEW p \in Unforced, OneWakeup(p), Course(p)
  PROVE  OneWakeup(p)' /\ Course(p)'
<1>1. /\ cur = q /\ returned = "not" /\ UNCHANGED <<wheelVars, queueVars, armed, unset, turn, cur, until>>
      /\ depth' = [depth EXCEPT ![q] = @ - 1] /\ returned' \in {"not", "true"}
  BY DEF EndBlock, Running
<1>2. p \in Procs /\ (p \in Initials <=> p \notin Timed) /\ cur # None
  BY <1>1, EventsOfUnforced, SimKernelAssumption DEF Objs
<1>3. PlacesKept(p) /\ SignalsKept(p)
  BY <1>1, RestSame, SameKept, SignalsStay DEF Listed, wheelVars, queueVars
<1>4. /\ depth[q] \in Nat /\ depth[q] > 0 /\ depth'[q] = depth[q] - 1
      /\ sleep[p] \in {"no", "delay", "zero", "wait", "over"} /\ unset = {}
      /\ p \in DOMAIN sleep /\ p \in DOMAIN depth
  BY <1>1, <1>2, KernelFacts, SimKernelAssumption DEF InControl, ControlTypeOK, W!Elaborating
<1>5. CASE q # p
  <2>1. sleep'[p] = sleep[p] /\ depth'[p] = depth[p] /\ cur # p
    BY <1>1, <1>4, <1>5 DEF EndBlock
  <2> QED BY <1>1, <1>3, <2>1, Bystander
<1>6. CASE q = p
  <2>1. OffWheel(p)' /\ Silent(p)'
    BY <1>1, <1>3, <1>6 DEF OneWakeup, Away, PlacesKept, SignalsKept
  <2>2. Away(p)'
    BY <1>1, <1>6 DEF Away
  <2>3. sleep[p] = "no"
    BY <1>1, <1>6 DEF Course
  <2>4. sleep'[p] = IF p \in Initials /\ depth[p] = 1 THEN "over" ELSE "no"
    BY <1>4, <1>6, <2>3 DEF EndBlock
  <2>5. returned' = "not" => depth[p] # 1
    BY <1>6 DEF EndBlock
  <2>6. Course(p)'
    BY <1>1, <1>2, <1>4, <1>6, <2>4, <2>5 DEF Course
  <2> QED BY <2>1, <2>2, <2>6 DEF OneWakeup
<1> QED BY <1>5, <1>6

\* A process, or a continuous assignment, delays itself.
LEMMA DelayWake ==
  ASSUME KernelInv, NEW o \in Procs \cup Assigns, NEW d \in 1..MaxTime, Delay(o, d),
         NEW p \in Unforced, OneWakeup(p), Course(p)
  PROVE  OneWakeup(p)' /\ Course(p)'
<1>1. /\ cur = o /\ returned = "not" /\ cur # None /\ o \in Objs /\ Schedule(latest + d, o)
      /\ UNCHANGED <<queueVars, armed, unset, turn, cur, depth>>
      /\ sleep' = [sleep EXCEPT ![o] = "delay"] /\ until' = [until EXCEPT ![o] = latest + d]
      /\ returned' = "false"
  BY SimKernelAssumption DEF Delay, Running, Suspend, Objs
<1>2. latest + d \in Nat /\ latest + d >= latest
  BY KernelFacts, KernelConstants
<1>3. latest + d \in W!Times /\ Puts(latest + d, o)
  BY <1>1, <1>2, RestSchedule
<1>4. SignalsKept(p)
  BY <1>1, SignalsStay DEF queueVars
<1>5. p \in Objs /\ p \in Procs /\ p \in DOMAIN sleep /\ p \in DOMAIN until /\ unset = {}
  BY <1>1, EventsOfUnforced, KernelFacts DEF ControlTypeOK, InControl, W!Elaborating
<1>6. CASE o # p
  <2>1. PlacesKept(p)
    BY <1>1, <1>3, <1>5, <1>6, PutOther
  <2> QED BY <1>1, <1>4, <1>5, <1>6, <2>1, Bystander
<1>7. CASE o = p
  <2>1. OffWheel(p) /\ Silent(p) /\ Silent(p)'
    BY <1>1, <1>4, <1>7 DEF OneWakeup, Away, SignalsKept
  <2>2. PICK t \in W!Times : t = latest + d
    BY <1>3
  <2>3. Puts(t, p)
    BY <1>3, <1>7, <2>2 DEF Puts
  <2>4. OnWheelAt(p, t)'
    BY <1>5, <2>1, <2>3, PutIt
  <2>5. sleep'[p] = "delay" /\ until'[p] = t
    BY <1>1, <1>5, <1>7, <2>2
  <2>6. ~Away(p)' /\ Course(p)'
    BY <1>1, <1>5, <2>5 DEF Away, Course
  <2> QED BY <2>1, <2>4, <2>5, <2>6 DEF OneWakeup
<1> QED BY <1>6, <1>7

\* A process waits for the end of the active events, or for an event.
LEMMA WaitWake ==
  ASSUME KernelInv, NEW q \in Procs, DelayZero(q) \/ WaitFor(q),
         NEW p \in Unforced, OneWakeup(p), Course(p)
  PROVE  OneWakeup(p)' /\ Course(p)'
<1>1. /\ cur = q /\ returned = "not" /\ UNCHANGED <<wheelVars, unset, turn, cur, depth>>
      /\ returned' = "false"
      /\ \E why \in {"zero", "wait"} : sleep' = [sleep EXCEPT ![q] = why]
      /\ until' = [until EXCEPT ![q] = 0]
  BY DEF DelayZero, WaitFor, Running, Suspend
<1>2. p \in Objs /\ p \in Procs /\ p \in DOMAIN sleep /\ p \in DOMAIN until /\ unset = {}
  BY <1>1, EventsOfUnforced, SimKernelAssumption, KernelFacts
     DEF ControlTypeOK, InControl, W!Elaborating, Objs
<1>3. PlacesKept(p)
  BY <1>1, RestSame, SameKept DEF Listed, wheelVars
<1>4. Ev(q, "inactive") \in Events /\ Ev(q, "inactive").obj = q /\ Ev(q, "active").obj = q
  BY DEF Events, Ev
<1>5. q \in Initials => Ev(q, "active") \in WaitEvents /\ Ev(q, "active") \in Events
  BY DEF Events, WaitEvents
<1>6. CASE q # p
  <2>1. SignalsKept(p)
    <3>1. CASE DelayZero(q)
      <4>1. armed' = armed /\ (Enqueue(Ev(q, "inactive")) \/ UNCHANGED queueVars)
        BY <3>1 DEF DelayZero
      <4> QED BY <1>1, <1>4, <1>6, <4>1, OtherQueued
    <3>2. CASE WaitFor(q)
      <4>1. armed' = armed \cup {Ev(q, "active")} /\ UNCHANGED queueVars /\ q \in Initials
        BY <3>2 DEF WaitFor
      <4> QED BY <1>1, <1>4, <1>5, <1>6, <4>1, OtherQueued
    <3> QED BY <3>1, <3>2
  <2>2. sleep'[p] = sleep[p] /\ until'[p] = until[p]
    BY <1>1, <1>2, <1>6
  <2> QED BY <1>1, <1>2, <1>3, <1>6, <2>1, <2>2, Bystander
<1>7. CASE q = p
  <2>1. OffWheel(p)' /\ Silent(p)
    BY <1>1, <1>3, <1>7 DEF OneWakeup, Away, PlacesKept
  <2>2. OneSignal(p)'
    <3>1. CASE DelayZero(q)
      <4>1. ~queued[Ev(p, "inactive")]
        BY <1>4, <1>7, <2>1 DEF Silent, Queued
      <4>2. Enqueue(Ev(p, "inactive")) /\ armed' = armed
        BY <1>7, <3>1, <4>1 DEF DelayZero
      <4> QED BY <1>1, <1>4, <1>7, <2>1, <4>2, ItsQueued
    <3>2. CASE WaitFor(q)
      BY <1>1, <1>4, <1>5, <1>7, <2>1, <3>2, ItsArmed DEF WaitFor
    <3> QED BY <3>1, <3>2
  <2>3. sleep'[p] \in {"zero", "wait"}
    BY <1>1, <1>2, <1>7
  <2>4. ~Away(p)' /\ Course(p)'
    BY <1>1, <1>2, <2>3 DEF Away, Course
  <2> QED BY <2>1, <2>2, <2>3, <2>4 DEF OneWakeup
<1> QED BY <1>6, <1>7

\* Every step keeps the invariant, and triggers a delayed process only when its
\* delay is over.
LEMMA NextWake ==
  ASSUME KernelInv, WakeInv, Constant \cap WaitEvents = {}, [Next]_vars
  PROVE  WakeInv' /\ \A p \in Unforced : Resumes(p) => latest = until[p]
<1>1. ASSUME NEW p \in Unforced
      PROVE  OneWakeup(p)' /\ Course(p)' /\ (Resumes(p) => latest = until[p])
  <2>1. ArmedKinds /\ OneWakeup(p) /\ Course(p)
    BY DEF WakeInv
  <2>2. CASE TriggerFromWheel \/ TriggerFromQueue
    BY <2>1, <2>2, TriggerWake
  <2>3. CASE Next /\ ~(TriggerFromWheel \/ TriggerFromQueue)
    <3>1. cur' \in {cur, None}
      BY <2>3
         DEF Next, Setup, SetupProcess, SetupAssign, Handlers, StepBegin, StepEnd, ReturnToWheel,
             ReturnToQueue, QueueEnter, QueueActivate, QueueLeave, Return, Delay, DelayZero, WaitFor,
             Suspend, EndBlock, Complete, Effects, Assign, ApiSetNet, Enable, Nonblock, NonblockLater,
             EnterBlock, Finish
    <3>2. ~Resumes(p)
      BY <3>1, EventsOfUnforced, SimKernelAssumption DEF Resumes
    <3>3. CASE Setup
      BY <2>1, <3>2, <3>3, SetupWake DEF Setup
    <3>4. CASE Handlers
      BY <2>1, <2>3, <3>2, <3>4, HandlerWake, ReturnWake DEF Handlers
    <3>5. CASE Return
      BY <2>1, <3>2, <3>5, DelayWake, WaitWake, EndBlockWake, EffectWake DEF Return
    <3>6. CASE Effects
      BY <2>1, <3>2, <3>6, NotifyWake, EffectWake DEF Effects
    <3> QED BY <2>3, <3>3, <3>4, <3>5, <3>6 DEF Next
  <2>4. CASE UNCHANGED vars
    BY <2>1, <2>4, EffectWake DEF vars, Resumes
  <2> QED BY <2>2, <2>3, <2>4
<1>2. ArmedKinds'
  <2>1. \/ armed' \subseteq armed
        \/ \E e \in WaitEvents \cup SenseEvents \cup OutputEvents : armed' = armed \cup {e}
    BY DEF Next, Setup, SetupProcess, SetupAssign, Handlers, StepBegin, StepEnd, TriggerFromWheel,
           TriggerFromQueue, ReturnToWheel, ReturnToQueue, QueueEnter, QueueActivate, QueueLeave,
           Return, Delay, DelayZero, WaitFor, EndBlock, Complete, Effects, Assign, ApiSetNet,
           Notify, Enable, Nonblock, NonblockLater, EnterBlock, Finish, vars, WaitEvents, SenseEvents
  <2> QED BY <2>1 DEF WakeInv, ArmedKinds
<1> QED BY <1>1, <1>2 DEF WakeInv

\* Nothing is scheduled or queued before setup.
LEMMA InitWake == Init => WakeInv
<1> SUFFICES ASSUME Init PROVE WakeInv
  OBVIOUS
<1>1. /\ node = <<[time |-> 0, event |-> << >>]>> /\ armed = {} /\ cur = None /\ temp = << >>
      /\ queued = [e \in Events |-> FALSE] /\ unset = Procs \cup Assigns
      /\ sleep = [o \in Procs \cup Assigns |-> "no"]
  BY DEF Init, W!Init, Q!Init
<1>2. \A t : Rest(t) = << >>
  <2>1. \A i \in DOMAIN node : i = 1
    BY <1>1
  <2>2. \A t : Listed(t) = << >>
    BY <1>1, <2>1 DEF Listed, W!ListedAt
  <2> QED BY <1>1, <2>2 DEF Rest
<1>3. ASSUME NEW p \in Unforced PROVE OneWakeup(p) /\ Course(p)
  <2>1. p \in Procs /\ p # None
    BY EventsOfUnforced, SimKernelAssumption
  <2>2. OffWheel(p)
    BY <1>2 DEF OffWheel, Absent
  <2>3. Silent(p)
    BY <1>1 DEF Silent, Queued, Due, BatchRest, Waiting
  <2> QED BY <1>1, <2>1, <2>2, <2>3 DEF OneWakeup, Away, Course
<1> QED BY <1>1, <1>3 DEF WakeInv, ArmedKinds
-----------------------------------------------------------------------------
(***************************************************************************)
(* From the invariant to the number of wake-ups.                           *)
(***************************************************************************)

\* Where the triggered statement is another, it makes no difference.
LEMMA RestListed ==
  ASSUME KernelInv, NEW p, p # cur, NEW t \in W!Times
  PROVE  /\ Absent(Rest(t), p) => Absent(Listed(t), p)
         /\ Once(Rest(t), p) => Once(Listed(t), p)
<1> DEFINE s == Listed(t)
<1>1. CASE ~(cur # None /\ turn = "wheel" /\ t = latest)
  BY <1>1 DEF Rest
<1>2. CASE cur # None /\ turn = "wheel" /\ t = latest
  <2>1. s \in Seq(Objs) /\ s # << >> /\ Head(s) = cur /\ Rest(t) = Tail(s)
    BY <1>2, RestTyped DEF Rest
  <2>2. /\ Len(s) \in Nat \ {0} /\ s[1] # p /\ DOMAIN s = 1..Len(s)
        /\ DOMAIN Tail(s) = 1..(Len(s) - 1)
        /\ \A i \in 1..(Len(s) - 1) : Tail(s)[i] = s[i + 1]
    BY <2>1, HeadTailProperties, LenProperties, EmptySeq
  <2> HIDE DEF s
  <2>3. \A j \in DOMAIN s : s[j] = p => j - 1 \in DOMAIN Tail(s) /\ Tail(s)[j - 1] = p
    BY <2>2
  <2>4. ASSUME Absent(Tail(s), p) PROVE Absent(s, p)
    BY <2>3, <2>4 DEF Absent
  <2>5. ASSUME Once(Tail(s), p) PROVE Once(s, p)
    <3>1. PICK j \in DOMAIN Tail(s) : Tail(s)[j] = p /\ \A k \in DOMAIN Tail(s) : Tail(s)[k] = p => k = j
      BY <2>5 DEF Once
    <3>2. j + 1 \in DOMAIN s /\ s[j + 1] = p
      BY <2>2, <3>1
    <3>3. \A k \in DOMAIN s : s[k] = p => k = j + 1
      <4> SUFFICES ASSUME NEW k \in DOMAIN s, s[k] = p PROVE k = j + 1
        OBVIOUS
      <4>1. k - 1 = j
        BY <2>3, <3>1
      <4> QED BY <2>2, <3>1, <4>1
    <3> QED BY <3>2, <3>3 DEF Once
  <2> QED BY <2>1, <2>4, <2>5 DEF s
<1> QED BY <1>1, <1>2

\* The places on the wheel, counted.
LEMMA PlacesCounted ==
  ASSUME KernelInv, NEW p, p # cur
  PROVE  /\ OffWheel(p) => Cardinality(OnWheel(p)) = 0
         /\ \A t \in W!Times : OnWheelAt(p, t) => Cardinality(OnWheel(p)) = 1
<1>1. node \in Seq(WP!NodeType) /\ WP!InOrder(node)
  BY SameWheel DEF KernelInv, WP!WheelInv, WP!WheelTypeOK, WP!Sorted
<1>2. \A i \in DOMAIN node : node[i].time \in W!Times /\ Listed(node[i].time) = node[i].event
  <2> SUFFICES ASSUME NEW i \in DOMAIN node
               PROVE  node[i].time \in W!Times /\ Listed(node[i].time) = node[i].event
    OBVIOUS
  <2>1. i \in 1..Len(node)
    BY <1>1, LenProperties
  <2>2. node[i].time \in WP!Times
    BY <1>1, <2>1, WP!NodeFields, KernelConstants
  <2>3. WP!ListedAt(node, node[i].time) = node[i].event
    BY <1>1, WP!ListedAtNode, KernelConstants
  <2> QED BY <2>2, <2>3, SameWheel DEF Listed
<1>3. \A i, k : <<i, k>> \in OnWheel(p) <=>
                  i \in DOMAIN node /\ k \in DOMAIN node[i].event /\ node[i].event[k] = p
  BY DEF OnWheel
<1>4. \A x \in OnWheel(p) : \E i, k : x = <<i, k>>
  BY DEF OnWheel
<1>5. ASSUME OffWheel(p) PROVE Cardinality(OnWheel(p)) = 0
  <2>1. \A i \in DOMAIN node : Absent(node[i].event, p)
    BY <1>2, <1>5, RestListed DEF OffWheel
  <2>2. OnWheel(p) = {}
    BY <1>3, <1>4, <2>1 DEF Absent
  <2> QED BY <2>2, FS_EmptySet
<1>6. ASSUME NEW t \in W!Times, OnWheelAt(p, t) PROVE Cardinality(OnWheel(p)) = 1
  <2>1. Once(Listed(t), p) /\ \A u \in W!Times \ {t} : Absent(Listed(u), p)
    BY <1>6, RestListed DEF OnWheelAt
  <2>2. PICK k \in DOMAIN Listed(t) :
          Listed(t)[k] = p /\ \A l \in DOMAIN Listed(t) : Listed(t)[l] = p => l = k
    BY <2>1 DEF Once
  <2>3. PICK i \in DOMAIN node : node[i].time = t
    <3>1. SUFFICES ASSUME ~\E i \in DOMAIN node : node[i].time = t PROVE FALSE
      OBVIOUS
    <3>2. Listed(t) = << >>
      BY <3>1 DEF Listed, W!ListedAt
    <3> QED BY <2>2, <3>2
  <2>4. <<i, k>> \in OnWheel(p)
    BY <1>2, <1>3, <2>2, <2>3
  <2>5. ASSUME NEW j, NEW l, <<j, l>> \in OnWheel(p) PROVE j = i /\ l = k
    <3>1. j \in DOMAIN node /\ l \in DOMAIN node[j].event /\ node[j].event[l] = p
      BY <1>3, <2>5
    <3>2. node[j].time = t
      BY <1>2, <2>1, <3>1 DEF Absent
    <3>3. j = i
      BY <1>1, <2>3, <3>1, <3>2, WP!NodeFields, KernelConstants, LenProperties DEF WP!InOrder
    <3> QED BY <1>2, <2>2, <2>3, <3>1, <3>3
  <2>6. OnWheel(p) = {<<i, k>>}
    BY <1>4, <2>4, <2>5
  <2> QED BY <2>6, FS_Singleton
<1> QED BY <1>5, <1>6

\* The places in the batch, counted.
LEMMA BatchCounted ==
  ASSUME KernelInv, NEW p, p # cur
  PROVE  /\ Due(p) = {} => Cardinality(InBatch(p)) = 0
         /\ \A e : Due(p) = {e} => Cardinality(InBatch(p)) = 1
<1>1. \A i \in InBatch(p) : i \in DOMAIN temp /\ temp[i].obj = p /\ temp[i] \in Due(p)
  <2> SUFFICES ASSUME NEW i \in DOMAIN temp, temp[i].obj = p PROVE temp[i] \in Due(p)
    BY DEF InBatch
  <2>1. temp \in Seq(Events) /\ temp # << >> /\ Head(temp) = temp[1] /\ i \in 1..Len(temp)
    BY KernelFacts, LenProperties, EmptySeq
  <2>2. cur # None /\ turn = "queue" => i # 1
    BY <2>1, KernelFacts DEF InControl
  <2> QED BY <2>1, <2>2, LenProperties DEF Due, BatchRest
<1>2. \A e \in Due(p) : \E i \in InBatch(p) : temp[i] = e
  BY KernelFacts, LenProperties DEF Due, BatchRest, InBatch
<1>3. ASSUME Due(p) = {} PROVE Cardinality(InBatch(p)) = 0
  <2>1. InBatch(p) = {}
    BY <1>1, <1>3
  <2> QED BY <2>1, FS_EmptySet
<1>4. ASSUME NEW e, Due(p) = {e} PROVE Cardinality(InBatch(p)) = 1
  <2>1. PICK i \in InBatch(p) : temp[i] = e
    BY <1>2, <1>4
  <2>2. ASSUME NEW j \in InBatch(p) PROVE j = i
    <3>1. temp[j] = temp[i] /\ i \in DOMAIN temp /\ j \in DOMAIN temp
      BY <1>1, <1>4, <2>1, <2>2
    <3> QED BY <3>1 DEF KernelInv, Q!QueueInv, Q!BatchOncePerContainer
  <2>3. InBatch(p) = {i}
    BY <2>2
  <2> QED BY <2>3, FS_Singleton
<1> QED BY <1>3, <1>4

\* What the invariant says of the places of a process, as numbers.
LEMMA WakeupsCounted == KernelInv /\ WakeInv => WokenOnce
<1> SUFFICES ASSUME KernelInv, WakeInv, NEW p \in Unforced, cur # p, p \notin unset
             PROVE  Wakeups(p) = IF sleep[p] = "over" THEN 0 ELSE 1
  BY DEF WokenOnce
<1>1. OneWakeup(p) /\ (Away(p) <=> sleep[p] = "over")
  BY DEF WakeInv, Away
<1>2. Silent(p) => /\ Cardinality(Queued(p)) = 0 /\ Cardinality(InBatch(p)) = 0
                   /\ Cardinality(Waiting(p)) = 0
  BY BatchCounted, FS_EmptySet DEF Silent
<1>3. OneSignal(p) =>
        Cardinality(Queued(p)) + Cardinality(InBatch(p)) + Cardinality(Waiting(p)) = 1
        /\ Cardinality(Queued(p)) \in Nat /\ Cardinality(InBatch(p)) \in Nat
        /\ Cardinality(Waiting(p)) \in Nat
  <2> SUFFICES ASSUME OneSignal(p)
               PROVE  \/ /\ Cardinality(Queued(p)) = 1 /\ Cardinality(InBatch(p)) = 0
                         /\ Cardinality(Waiting(p)) = 0
                      \/ /\ Cardinality(Queued(p)) = 0 /\ Cardinality(InBatch(p)) = 1
                         /\ Cardinality(Waiting(p)) = 0
                      \/ /\ Cardinality(Queued(p)) = 0 /\ Cardinality(InBatch(p)) = 0
                         /\ Cardinality(Waiting(p)) = 1
    OBVIOUS
  <2>1. PICK e : \/ Queued(p) = {e} /\ Due(p) = {} /\ Waiting(p) = {}
                 \/ Queued(p) = {} /\ Due(p) = {e} /\ Waiting(p) = {}
                 \/ Queued(p) = {} /\ Due(p) = {} /\ Waiting(p) = {e}
    BY DEF OneSignal
  <2>2. Cardinality({}) = 0 /\ Cardinality({e}) = 1
    BY FS_EmptySet, FS_Singleton
  <2>3. /\ Due(p) = {} => Cardinality(InBatch(p)) = 0
        /\ Due(p) = {e} => Cardinality(InBatch(p)) = 1
    BY BatchCounted
  <2> QED BY <2>1, <2>2, <2>3
<1>4. CASE sleep[p] = "over"
  BY <1>1, <1>2, <1>4, PlacesCounted DEF OneWakeup, Wakeups
<1>5. CASE sleep[p] # "over"
  <2>1. CASE Silent(p) /\ \E t \in W!Times : OnWheelAt(p, t)
    BY <1>2, <1>5, <2>1, PlacesCounted DEF Wakeups
  <2>2. CASE OffWheel(p) /\ OneSignal(p)
    BY <1>3, <1>5, <2>2, PlacesCounted DEF Wakeups
  <2> QED BY <1>1, <1>5, <2>1, <2>2 DEF OneWakeup
<1> QED BY <1>4, <1>5

\* Each process is woken exactly once for each time it suspends itself: it is
\* in one place of the wheel, or one event of it is queued, due or awaited, and
\* nothing triggers it when it is over (sim.cc, strigger.cc).  An event control
\* whose expression has a constant operand is excluded: its event is queued when
\* it is registered, before the process waits for it.
THEOREM ProcessWokenOnce == Constant \cap WaitEvents = {} => (Spec => []WokenOnce)
<1> SUFFICES ASSUME Constant \cap WaitEvents = {} PROVE Spec => []WokenOnce
  OBVIOUS
<1>1. KernelInv /\ WakeInv /\ [Next]_vars => WakeInv'
  BY NextWake
<1> QED BY InitKernelInv, NextKernelInv, InitWake, <1>1, WakeupsCounted, PTL DEF Spec

\* A process that has delayed itself goes on at the time its delay is over: the
\* only wake-up it has is its place on the wheel, at that time.
THEOREM DelaysKept == Constant \cap WaitEvents = {} => (Spec => DelayKept)
<1> SUFFICES ASSUME Constant \cap WaitEvents = {} PROVE Spec => DelayKept
  OBVIOUS
<1>1. KernelInv /\ WakeInv /\ [Next]_vars =>
        WakeInv' /\ \A p \in Unforced : Resumes(p) => latest = until[p]
  BY NextWake
<1> QED BY InitKernelInv, NextKernelInv, InitWake, <1>1, PTL DEF Spec, DelayKept
=============================================================================
