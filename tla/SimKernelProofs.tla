---------------------------- MODULE SimKernelProofs ----------------------------
(***************************************************************************)
(* Theorems about the kernel, for every set of constructs and every bound: *)
(* it uses the time wheel and the event queue as they must be used, and    *)
(* control is where the handlers take it to be.                            *)
(***************************************************************************)
EXTENDS SimKernel, TLAPS, SequenceTheorems

WP == INSTANCE TimeWheelProofs WITH Stmts <- Objs
QP == INSTANCE EventQueueProofs WITH Containers <- Events

\* The constants are as the wheel and the queue want them.
LEMMA KernelConstants ==
  /\ MaxTime \in Nat /\ MaxListed \in Nat
  /\ ContainerOf \in [Events -> Events] /\ StratumOf \in [Events -> Q!Strata]
<1>1. \A e \in Events : e.stratum \in {"active", "inactive", "nonblocking", "monitor", "strobe"}
  BY DEF Events, WaitEvents, SenseEvents, OutputEvents, Ev
<1>2. Q!Strata = {"active", "inactive", "nonblocking", "monitor", "strobe"}
  <2>1. DOMAIN Q!Ranked = 1..4
    BY DEF Q!Ranked
  <2>2. 1..4 = {1, 2, 3, 4}
    OBVIOUS
  <2> QED BY <2>1, <2>2 DEF Q!Strata, Q!Looped, Q!Ranked
<1> QED BY <1>1, <1>2, SimKernelAssumption DEF ContainerOf, StratumOf

\* The wheel of the kernel keeps its invariant, whatever add_event is called
\* for (NextWheelInv of TimeWheelProofs).
LEMMA WheelKept == W!WheelInv /\ [W!Next]_(W!wheelVars) => W!WheelInv'
<1>1. WP!WheelInv /\ [WP!Next]_(WP!wheelVars) => WP!WheelInv'
  BY WP!NextWheelInv, KernelConstants
<1>2. (W!WheelInv <=> WP!WheelInv) /\ (W!WheelInv' <=> WP!WheelInv')
  BY DEF W!WheelInv, WP!WheelInv, W!WheelTypeOK, WP!WheelTypeOK, W!Sorted, WP!Sorted, W!InOrder,
         WP!InOrder, W!ClockInStep, WP!ClockInStep, W!NoIdleNode, WP!NoIdleNode, W!NodeType,
         WP!NodeType, W!Times, WP!Times, W!Elaborating, WP!Elaborating
<1>3. W!Next <=> WP!Next
  BY DEF W!Next, WP!Next, W!AddEvent, WP!AddEvent, W!Begin, WP!Begin, W!Fire, WP!Fire,
         W!FireAgain, WP!FireAgain, W!End, WP!End, W!Scheduled, WP!Scheduled, W!ScanEnd,
         WP!ScanEnd, W!Ends, WP!Ends, W!ListedAt, WP!ListedAt, W!Times, WP!Times, W!Elaborating,
         WP!Elaborating
<1>4. W!wheelVars = WP!wheelVars /\ W!wheelVars' = WP!wheelVars'
  BY DEF W!wheelVars, WP!wheelVars
<1> QED BY <1>1, <1>2, <1>3, <1>4

\* The queue keeps its own (NextQueueInv of EventQueueProofs).
LEMMA QueueKept == Q!QueueInv /\ [Q!Next]_(Q!queueVars) => Q!QueueInv'
<1>1. QP!QueueInv /\ [QP!Next]_(QP!queueVars) => QP!QueueInv'
  BY QP!NextQueueInv, KernelConstants
     DEF Q!Strata, Q!Looped, Q!Ranked, QP!Strata, QP!Looped, QP!Ranked
<1>2. (Q!QueueInv <=> QP!QueueInv) /\ (Q!QueueInv' <=> QP!QueueInv')
  BY DEF Q!QueueInv, QP!QueueInv, Q!QueueTypeOK, QP!QueueTypeOK, Q!InOwnStratum, QP!InOwnStratum,
         Q!OncePerContainer, QP!OncePerContainer, Q!QueuedIffListed, QP!QueuedIffListed,
         Q!BatchOncePerContainer, QP!BatchOncePerContainer, Q!Strata, QP!Strata, Q!Looped,
         QP!Looped, Q!Ranked, QP!Ranked
<1>3. Q!Next <=> QP!Next
  BY DEF Q!Next, QP!Next, Q!AddEvent, QP!AddEvent, Q!Enter, QP!Enter, Q!Activate, QP!Activate,
         Q!MoveEvents, QP!MoveEvents, Q!LoopDone, QP!LoopDone, Q!ActivateStrobe,
         QP!ActivateStrobe, Q!Handle, QP!Handle, Q!Leave, QP!Leave, Q!Ranked, QP!Ranked
<1>4. Q!queueVars = QP!queueVars /\ Q!queueVars' = QP!queueVars'
  BY DEF Q!queueVars, QP!queueVars
<1> QED BY <1>1, <1>2, <1>3, <1>4

\* What add_event does to the first node: it stays the first, and the
\* statement at its head stays there.
LEMMA FirstStays ==
  ASSUME W!WheelInv, NEW t \in W!Times, NEW o \in Objs,
         (W!Elaborating /\ t = 0) \/ (handling /\ t >= latest)
  PROVE  LET ns == W!Scheduled(node, t, o)
         IN  /\ ns # << >> /\ ns[1].time = node[1].time
             /\ node[1].event # << >> =>
                  ns[1].event # << >> /\ Head(ns[1].event) = Head(node[1].event)
<1>1. WP!WheelInv
  BY DEF W!WheelInv, WP!WheelInv, W!WheelTypeOK, WP!WheelTypeOK, W!Sorted, WP!Sorted, W!InOrder,
         WP!InOrder, W!ClockInStep, WP!ClockInStep, W!NoIdleNode, WP!NoIdleNode, W!NodeType,
         WP!NodeType, W!Times, WP!Times, W!Elaborating, WP!Elaborating
<1>2. /\ node \in Seq(WP!NodeType) /\ node # << >> /\ WP!InOrder(node) /\ node[1].time <= t
  BY <1>1, WP!AddEventApplies, KernelConstants DEF W!Elaborating, WP!Elaborating, W!Times, WP!Times
<1>3. W!Scheduled(node, t, o) = WP!Scheduled(node, t, o)
  BY DEF W!Scheduled, WP!Scheduled, W!ScanEnd, WP!ScanEnd, W!Ends, WP!Ends, W!InsertAt, WP!InsertAt
<1>4. /\ WP!Scheduled(node, t, o) # << >>
      /\ WP!Scheduled(node, t, o)[1] =
           IF t = node[1].time THEN [node[1] EXCEPT !.event = Append(@, o)] ELSE node[1]
  <2>1. t \in WP!Times
    BY DEF W!Times, WP!Times
  <2> QED BY <1>2, <2>1, WP!FirstScheduled, KernelConstants
<1>5. node[1].event \in Seq(Objs) /\ node[1] \in WP!NodeType
  BY <1>2, WP!NodeFields, KernelConstants, EmptySeq, LenProperties
<1>6. node[1].event # << >> => Append(node[1].event, o) # << >>
        /\ Head(Append(node[1].event, o)) = Head(node[1].event)
  BY <1>5, AppendProperties
<1> QED BY <1>3, <1>4, <1>5, <1>6 DEF WP!NodeType
-----------------------------------------------------------------------------
(***************************************************************************)
(* Every step of the kernel is one the wheel and the queue allow, and      *)
(* leaves control where it may be.                                         *)
(***************************************************************************)

\* The variables of the kernel itself.
ControlTypeOK ==
  /\ armed \subseteq Events
  /\ unset \subseteq Procs \cup Assigns
  /\ turn \in {"wheel", "queue"}
  /\ cur \in Objs \cup {None}
  /\ returned \in {"not", "false", "true"}
  /\ depth \in [Procs -> 0..MaxDepth] /\ entered \in 0..MaxDepth
  /\ sleep \in [Procs \cup Assigns -> {"no", "delay", "zero", "wait", "over"}]
  /\ until \in [Procs \cup Assigns -> W!Times]
  /\ finished \in BOOLEAN

Allowed ==
  /\ [W!Next]_(W!wheelVars) /\ [Q!Next]_(Q!queueVars)
  /\ ControlTypeOK' /\ InControl'

\* The first node stays, and what is at the head of its list.
FirstKept ==
  /\ node' # << >> /\ node'[1].time = node[1].time
  /\ node[1].event # << >> =>
       node'[1].event # << >> /\ Head(node'[1].event) = Head(node[1].event)

\* What the invariant says of wheel and queue, as far as control goes.
LEMMA KernelFacts ==
  ASSUME KernelInv
  PROVE  /\ ControlTypeOK /\ InControl
         /\ handling => node # << >> /\ node[1].time = latest
         /\ latest \in W!Times /\ latest \in Nat /\ handling \in BOOLEAN
         /\ temp \in Seq(Events) /\ node \in Seq(W!NodeType)
         /\ stage \in {"idle", "loop", "strobe"}
         /\ None \notin Objs /\ (cur # None => cur \in Objs)
BY KernelConstants, SimKernelAssumption
   DEF KernelInv, KernelTypeOK, ControlTypeOK, W!WheelInv, W!WheelTypeOK, W!ClockInStep, W!Times,
       Q!QueueTypeOK

\* Whoever calls add_event of the queue may.
LEMMA EnqueueAllowed ==
  ASSUME KernelInv, NEW e \in Events, Enqueue(e), cur # None \/ unset # {} \/ ~handling
  PROVE  Q!Next /\ UNCHANGED <<temp, stage>>
<1>1. stage = "idle" \/ temp # << >>
  BY KernelFacts DEF InControl, W!Elaborating, ControlTypeOK
<1>2. Q!AddEvent(e)
  BY <1>1 DEF Enqueue, Q!AddEvent, StratumOf, ContainerOf
<1> QED BY <1>2 DEF Q!Next, Enqueue

\* Registering an event queues it at most.
LEMMA RegisterAllowed ==
  ASSUME KernelInv, NEW e, Register(e), cur # None \/ unset # {}
  PROVE  [Q!Next]_(Q!queueVars) /\ UNCHANGED <<temp, stage>>
<1>1. CASE e \in Constant /\ ~queued[e]
  BY <1>1, EnqueueAllowed, SimKernelAssumption DEF Register
<1>2. CASE ~(e \in Constant /\ ~queued[e])
  BY <1>2 DEF Register, queueVars, Q!queueVars
<1> QED BY <1>1, <1>2

\* Whoever calls add_event of the wheel may, and the first node stays.
LEMMA ScheduleAllowed ==
  ASSUME KernelInv, NEW t \in Nat, NEW o \in Objs, Schedule(t, o),
         (unset # {} /\ t = 0) \/ (cur # None /\ t >= latest)
  PROVE  W!Next /\ FirstKept /\ UNCHANGED <<latest, handling>>
<1>1. t \in W!Times
  BY KernelConstants DEF Schedule, HasRoom, W!Times
<1>2. (W!Elaborating /\ t = 0) \/ (handling /\ t >= latest)
  BY KernelFacts DEF InControl
<1>3. W!AddEvent(t, o)
  BY <1>2 DEF Schedule, HasRoom, W!AddEvent
<1>4. FirstKept
  BY <1>1, <1>2, FirstStays DEF FirstKept, Schedule, KernelInv
<1> QED BY <1>1, <1>3, <1>4 DEF W!Next, Schedule

\* Setup and the statements leave control where it is.
LEMMA ControlStays ==
  ASSUME KernelInv, UNCHANGED <<latest, handling, turn, cur, temp, stage>>,
         unset' \subseteq unset, UNCHANGED node \/ FirstKept,
         cur = None => UNCHANGED returned,
         cur \in Procs /\ returned' = "not" => depth'[cur] > 0 /\ entered' <= depth'[cur]
  PROVE  InControl'
<1>1. InControl /\ (handling => node # << >> /\ node[1].time = latest)
  BY KernelFacts
<1>2. W!Elaborating => W!Elaborating'
  BY DEF W!Elaborating, FirstKept
<1> QED BY <1>1, <1>2 DEF InControl, FirstKept

\* Setup schedules for time 0 and queues, before the first step.
LEMMA SetupAllowed ==
  ASSUME KernelInv, NEW o \in Procs \cup Assigns, SetupProcess(o) \/ SetupAssign(o)
  PROVE  Allowed
<1> USE DEF Allowed
<1>1. unset # {} /\ unset' \subseteq unset /\ cur = None
      /\ UNCHANGED <<latest, handling, turn, cur, returned, depth, entered, sleep, until, finished>>
  <2>1. unset # {}
    BY DEF SetupProcess, SetupAssign
  <2> QED BY <2>1, KernelFacts
         DEF SetupProcess, SetupAssign, InControl, W!Elaborating, Schedule, wheelVars, procVars
<1>2. [W!Next]_(W!wheelVars) /\ (UNCHANGED node \/ FirstKept)
  <2>1. CASE UNCHANGED wheelVars
    BY <2>1 DEF wheelVars, W!wheelVars
  <2>2. CASE Schedule(0, o) /\ o \in Objs
    BY <2>2, <1>1, ScheduleAllowed
  <2> QED BY <2>1, <2>2 DEF SetupProcess, SetupAssign, Objs, Procs
<1>3. [Q!Next]_(Q!queueVars) /\ UNCHANGED <<temp, stage>>
  <2>1. CASE SetupProcess(o)
    BY <1>1, <2>1, RegisterAllowed DEF SetupProcess
  <2>2. CASE SetupAssign(o)
    <3>1. Ev(o, "active") \in Events
      BY <2>2 DEF SetupAssign, Events, SenseEvents
    <3> QED BY <1>1, <2>2, <3>1, EnqueueAllowed DEF SetupAssign
  <2> QED BY <2>1, <2>2
<1>4. ControlTypeOK'
  <2>1. armed' \subseteq Events
    BY KernelFacts DEF SetupProcess, SetupAssign, ControlTypeOK, Events, SenseEvents
  <2> QED BY <1>1, <2>1, KernelFacts DEF ControlTypeOK
<1>5. InControl'
  BY <1>1, <1>2, <1>3, KernelFacts, ControlStays DEF Objs
<1> QED BY <1>2, <1>3, <1>4, <1>5

\* trigger_once hands the first node to the handler.
LEMMA StepBeginAllowed == KernelInv /\ StepBegin => Allowed
<1> SUFFICES ASSUME KernelInv, StepBegin PROVE Allowed
  OBVIOUS
<1>1. W!Next /\ UNCHANGED Q!queueVars
  BY DEF StepBegin, W!Next, queueVars, Q!queueVars
<1>2. ControlTypeOK'
  BY KernelFacts DEF StepBegin, ControlTypeOK, procVars
<1>3. InControl'
  BY KernelFacts DEF StepBegin, W!Begin, InControl, queueVars, procVars, Objs
<1> QED BY <1>1, <1>2, <1>3 DEF Allowed

\* The handler returns when the list it was handed is empty.
LEMMA StepEndAllowed == KernelInv /\ StepEnd => Allowed
<1> SUFFICES ASSUME KernelInv, StepEnd PROVE Allowed
  OBVIOUS
<1>1. W!Next /\ UNCHANGED Q!queueVars
  BY DEF StepEnd, W!Next, queueVars, Q!queueVars
<1>2. ControlTypeOK'
  BY KernelFacts DEF StepEnd, ControlTypeOK, procVars
<1>3. InControl'
  BY KernelFacts DEF StepEnd, W!End, InControl, queueVars, procVars, W!Elaborating
<1> QED BY <1>1, <1>2, <1>3 DEF Allowed

\* A statement is triggered: it is the one at the head.
LEMMA TriggerTakes ==
  ASSUME KernelInv, TriggerFromWheel \/ TriggerFromQueue
  PROVE  /\ cur = None /\ cur' \in Objs /\ handling /\ unset = {} /\ Trigger(cur')
         /\ \/ turn = "wheel" /\ node[1].event # << >> /\ cur' = Head(node[1].event)
            \/ turn = "queue" /\ temp # << >> /\ cur' = Head(temp).obj
<1>1. CASE TriggerFromWheel
  <2>1. handling /\ turn = "wheel" /\ node[1].event # << >> /\ cur' = Head(node[1].event)
    BY <1>1 DEF TriggerFromWheel, Trigger
  <2>2. node[1] \in W!NodeType
    BY <2>1, KernelFacts, EmptySeq, LenProperties, ElementOfSeq
  <2>3. node[1].event \in Seq(Objs)
    BY <2>2 DEF W!NodeType
  <2>4. cur' \in Objs
    BY <2>1, <2>3, HeadTailProperties
  <2> QED BY <1>1, <2>1, <2>4, KernelFacts DEF TriggerFromWheel, Trigger, InControl, W!Elaborating
<1>2. CASE TriggerFromQueue
  <2>1. temp # << >> /\ cur' = Head(temp).obj
    BY <1>2 DEF TriggerFromQueue, Trigger
  <2>2. Head(temp) \in Events
    BY <2>1, KernelFacts, HeadTailProperties
  <2>3. cur' \in Objs
    BY <2>1, <2>2 DEF Events, WaitEvents, SenseEvents, OutputEvents, Ev, Objs, Procs, Outputs
  <2> QED BY <1>2, <2>1, <2>3, KernelFacts
          DEF TriggerFromQueue, Trigger, InControl, W!Elaborating, ControlTypeOK
<1> QED BY <1>1, <1>2

\* It is triggered in a block, if it is a process.
LEMMA TriggerAllowed ==
  ASSUME KernelInv, TriggerFromWheel \/ TriggerFromQueue
  PROVE  Allowed
<1>1. UNCHANGED <<wheelVars, queueVars, armed, unset, turn, finished>>
  BY DEF TriggerFromWheel, TriggerFromQueue
<1> DEFINE x == cur'
<1>2. /\ x \in Objs /\ Trigger(x) /\ handling /\ cur = None /\ unset = {}
      /\ \/ turn = "wheel" /\ node[1].event # << >> /\ x = Head(node[1].event)
         \/ turn = "queue" /\ temp # << >> /\ x = Head(temp).obj
  BY TriggerTakes
<1>3. ControlTypeOK'
  <2>1. 0 \in W!Times /\ 1 \in 0..MaxDepth /\ 0 \in 0..MaxDepth
    BY SimKernelAssumption DEF W!Times
  <2> QED BY <1>1, <1>2, <2>1, KernelFacts DEF Trigger, ControlTypeOK, procVars
<1>4. InControl'
  <2>1. x \in Procs => depth'[x] > 0 /\ entered' <= depth'[x]
    BY <1>2, KernelFacts DEF Trigger, ControlTypeOK
  <2> QED BY <1>1, <1>2, <2>1, KernelFacts
         DEF InControl, Trigger, wheelVars, queueVars, W!Elaborating
<1> QED BY <1>1, <1>3, <1>4 DEF Allowed, wheelVars, queueVars, W!wheelVars, Q!queueVars

\* The statement at the head of the list leaves it, perhaps to be last in it.
LEMMA ReturnToWheelAllowed == KernelInv /\ ReturnToWheel => Allowed
<1> SUFFICES ASSUME KernelInv, ReturnToWheel PROVE Allowed
  OBVIOUS
<1>1. /\ cur # None /\ turn = "wheel" /\ handling /\ node[1].event # << >>
      /\ cur = Head(node[1].event) /\ cur' = None /\ returned' = "not" /\ entered' = 0
      /\ UNCHANGED <<latest, handling, queueVars, armed, unset, depth, sleep, until, finished>>
  BY KernelFacts DEF ReturnToWheel, InControl
<1>2. W!Next
  BY <1>1 DEF ReturnToWheel, W!Next, W!Fire, W!FireAgain
<1>3. ControlTypeOK'
  <2>1. turn' \in {"wheel", "queue"}
    BY DEF ReturnToWheel
  <2> QED BY <1>1, <2>1, KernelFacts, KernelConstants, SimKernelAssumption DEF ControlTypeOK
<1>4. InControl'
  <2>1. stage = "idle" /\ temp = << >> /\ unset = {}
    BY <1>1, KernelFacts DEF InControl, W!Elaborating
  <2> QED BY <1>1, <2>1, KernelFacts DEF InControl, queueVars, Objs
<1> QED BY <1>1, <1>2, <1>3, <1>4 DEF Allowed, queueVars, Q!queueVars

\* The event at the head of the batch leaves it.
LEMMA ReturnToQueueAllowed == KernelInv /\ ReturnToQueue => Allowed
<1> SUFFICES ASSUME KernelInv, ReturnToQueue PROVE Allowed
  OBVIOUS
<1>1. /\ cur # None /\ cur \in Objs /\ turn = "queue" /\ handling /\ unset = {}
      /\ cur' = None /\ returned' = "not" /\ entered' = 0
      /\ UNCHANGED <<latest, handling, armed, unset, turn, depth, sleep, until, finished>>
  BY KernelFacts DEF ReturnToQueue, InControl, Schedule, wheelVars, W!Elaborating
<1>2. [W!Next]_(W!wheelVars)
  <2>1. CASE Schedule(latest, cur)
    BY <1>1, <2>1, KernelFacts, ScheduleAllowed
  <2>2. CASE UNCHANGED wheelVars
    BY <2>2 DEF wheelVars, W!wheelVars
  <2> QED BY <2>1, <2>2 DEF ReturnToQueue
<1>3. Q!Next /\ stage' = stage
  BY DEF ReturnToQueue, Q!Next, Q!Handle
<1>4. ControlTypeOK'
  BY <1>1, KernelFacts, KernelConstants, SimKernelAssumption DEF ControlTypeOK
<1>5. InControl'
  <2>1. stage # "idle"
    BY <1>1, KernelFacts DEF InControl
  <2> QED BY <1>1, <1>3, <2>1, KernelFacts DEF InControl, Objs
<1> QED BY <1>2, <1>3, <1>4, <1>5 DEF Allowed

\* The event queue goes on to its next list, between two statements.
LEMMA QueueAllowed ==
  ASSUME KernelInv, QueueEnter \/ QueueActivate \/ QueueLeave
  PROVE  Allowed
<1>1. /\ UNCHANGED <<wheelVars, procVars, armed, unset, cur, returned, finished>>
      /\ Q!Next /\ turn' \in {"wheel", "queue"}
  BY KernelFacts DEF QueueEnter, QueueActivate, QueueLeave, Q!Next, ControlTypeOK
<1>2. ControlTypeOK'
  BY <1>1, KernelFacts DEF ControlTypeOK, procVars
<1>3. turn = "queue" /\ cur = None /\ unset = {} /\ handling
  <2>1. CASE QueueEnter
    BY <2>1, KernelFacts DEF QueueEnter, InControl, W!Elaborating
  <2>2. CASE QueueActivate \/ QueueLeave
    <3>1. stage # "idle" /\ (cur # None => temp = << >>)
      BY <2>2 DEF QueueActivate, QueueLeave, Q!Activate, Q!ActivateStrobe, Q!LoopDone, Q!Leave
    <3>2. temp = << >> => cur = None
      BY <2>2, <3>1, KernelFacts DEF InControl, ControlTypeOK
    <3> QED BY <2>2, <3>1, <3>2, KernelFacts DEF InControl, W!Elaborating, ControlTypeOK
  <2> QED BY <2>1, <2>2
<1>4. InControl'
  <2>1. CASE QueueEnter
    BY <1>1, <1>3, <2>1, KernelFacts
       DEF QueueEnter, Q!Enter, InControl, wheelVars, procVars, Objs
  <2>2. CASE QueueActivate
    BY <1>1, <1>3, <2>2, KernelFacts
       DEF QueueActivate, Q!Activate, Q!ActivateStrobe, Q!LoopDone, InControl, wheelVars,
           procVars, Objs
  <2>3. CASE QueueLeave
    BY <1>1, <1>3, <2>3, KernelFacts
       DEF QueueLeave, Q!Leave, Q!LoopDone, InControl, wheelVars, procVars, Objs
  <2> QED BY <2>1, <2>2, <2>3
<1> QED BY <1>1, <1>2, <1>4 DEF Allowed, wheelVars, W!wheelVars

\* What a statement does that neither schedules nor queues anything.
LEMMA QuietAllowed ==
  ASSUME KernelInv, UNCHANGED <<wheelVars, queueVars, unset, turn, cur>>,
         cur = None => UNCHANGED returned, ControlTypeOK',
         cur \in Procs /\ returned' = "not" => depth'[cur] > 0 /\ entered' <= depth'[cur]
  PROVE  Allowed
BY ControlStays DEF Allowed, wheelVars, queueVars, W!wheelVars, Q!queueVars

\* That queues an event.
LEMMA QueuesAllowed ==
  ASSUME KernelInv, NEW e \in Events, Enqueue(e), cur # None \/ ~handling,
         UNCHANGED <<wheelVars, unset, turn, cur, depth, entered>>,
         returned' = returned \/ (cur # None /\ returned' # "not"), ControlTypeOK'
  PROVE  Allowed
<1>1. Q!Next /\ UNCHANGED <<temp, stage>>
  BY EnqueueAllowed
<1>2. InControl'
  BY <1>1, ControlStays, KernelFacts DEF wheelVars, InControl
<1> QED BY <1>1, <1>2 DEF Allowed, wheelVars, W!wheelVars

\* That puts a statement on the wheel.
LEMMA SchedulesAllowed ==
  ASSUME KernelInv, NEW t \in Nat, NEW o \in Objs, Schedule(t, o), cur # None, t >= latest,
         UNCHANGED <<queueVars, unset, turn, cur, depth, entered>>,
         returned' = returned \/ returned' # "not", ControlTypeOK'
  PROVE  Allowed
<1>1. W!Next /\ FirstKept /\ UNCHANGED <<latest, handling>>
  BY ScheduleAllowed
<1>2. InControl'
  BY <1>1, ControlStays, KernelFacts DEF queueVars, InControl
<1> QED BY <1>1, <1>2 DEF Allowed, queueVars, Q!queueVars

\* An assignment of a statement, or of a C program between the steps.
LEMMA NotifyAllowed ==
  ASSUME KernelInv, NEW e \in Events, Assign(e) \/ ApiSetNet(e)
  PROVE  Allowed
<1>1. /\ Enqueue(e) /\ armed' \subseteq armed
      /\ cur # None \/ ~handling
      /\ UNCHANGED <<wheelVars, procVars, unset, turn, cur, returned, finished>>
  BY SimKernelAssumption DEF Assign, ApiSetNet, Notify, Running, Objs
<1>2. ControlTypeOK'
  BY <1>1, KernelFacts DEF ControlTypeOK, procVars
<1> QED BY <1>1, <1>2, QueuesAllowed DEF procVars

\* A nonblocking assignment, with or without a delay.
LEMMA NonblockAllowed ==
  ASSUME KernelInv, NEW u \in Updates,
         Nonblock(u) \/ \E d \in 1..MaxTime : NonblockLater(u, d)
  PROVE  Allowed
<1>1. /\ cur # None /\ u \in Objs
      /\ UNCHANGED <<procVars, armed, unset, turn, cur, returned, finished>>
  BY SimKernelAssumption DEF Nonblock, NonblockLater, Running, Objs
<1>2. ControlTypeOK'
  BY <1>1, KernelFacts DEF ControlTypeOK, procVars
<1>3. CASE Nonblock(u)
  <2>1. Ev(u, "nonblocking") \in Events
    BY DEF Events
  <2> QED BY <1>1, <1>2, <1>3, <2>1, QueuesAllowed DEF Nonblock, procVars
<1>4. ASSUME NEW d \in 1..MaxTime, NonblockLater(u, d) PROVE Allowed
  <2>1. latest + d \in Nat /\ latest + d >= latest
    BY KernelFacts, KernelConstants
  <2> QED BY <1>1, <1>2, <1>4, <2>1, SchedulesAllowed DEF NonblockLater, procVars
<1> QED BY <1>3, <1>4

\* An enable of $monitor or $strobe registers its event.
LEMMA EnableAllowed ==
  ASSUME KernelInv, NEW e \in Events, Enable(e)
  PROVE  Allowed
<1>1. /\ cur # None /\ armed' = armed \cup {e}
      /\ UNCHANGED <<wheelVars, procVars, unset, turn, cur, returned, finished>>
  BY SimKernelAssumption DEF Enable, Running, Objs
<1>2. ControlTypeOK'
  BY <1>1, KernelFacts DEF ControlTypeOK, procVars
<1>3. CASE Enqueue(e)
  BY <1>1, <1>2, <1>3, QueuesAllowed DEF procVars
<1>4. CASE UNCHANGED queueVars
  BY <1>1, <1>2, <1>4, KernelFacts, QuietAllowed DEF procVars, InControl
<1> QED BY <1>3, <1>4 DEF Enable, Register

\* A process enters a block or leaves one: it never leaves more than it is in.
LEMMA BlockAllowed ==
  ASSUME KernelInv, NEW p \in Procs, EnterBlock(p) \/ EndBlock(p)
  PROVE  Allowed
<1>1. /\ cur = p /\ returned = "not" /\ UNCHANGED <<wheelVars, queueVars, armed, unset, turn, cur>>
      /\ UNCHANGED <<until, finished>> /\ cur # None
  BY SimKernelAssumption DEF EnterBlock, EndBlock, Running, Objs
<1>2. /\ depth \in [Procs -> 0..MaxDepth] /\ depth[p] \in 1..MaxDepth
      /\ entered \in 0..depth[p] /\ entered \in Nat
  BY <1>1, KernelFacts, SimKernelAssumption DEF InControl, ControlTypeOK
<1>3. CASE EnterBlock(p)
  <2>1. /\ depth' \in [Procs -> 0..MaxDepth] /\ entered' \in 0..MaxDepth
        /\ depth'[p] > 0 /\ entered' <= depth'[p]
    BY <1>2, <1>3, SimKernelAssumption DEF EnterBlock
  <2>2. ControlTypeOK'
    BY <1>1, <1>3, <2>1, KernelFacts DEF EnterBlock, ControlTypeOK
  <2> QED BY <1>1, <2>1, <2>2, QuietAllowed
<1>4. CASE EndBlock(p)
  <2>1. /\ depth' \in [Procs -> 0..MaxDepth] /\ entered' \in 0..MaxDepth
        /\ returned' = "not" => depth'[p] > 0 /\ entered' <= depth'[p]
    BY <1>2, <1>4, SimKernelAssumption DEF EndBlock
  <2>2. sleep' \in [Procs \cup Assigns -> {"no", "delay", "zero", "wait", "over"}]
    BY <1>4, KernelFacts DEF EndBlock, ControlTypeOK
  <2>3. ControlTypeOK'
    BY <1>1, <1>4, <2>1, <2>2, KernelFacts DEF EndBlock, ControlTypeOK
  <2> QED BY <1>1, <2>1, <2>3, QuietAllowed
<1> QED BY <1>3, <1>4

\* A statement suspends itself.
LEMMA SuspendTyped ==
  ASSUME KernelInv, NEW o \in Procs \cup Assigns, NEW why \in {"delay", "zero", "wait"},
         NEW t \in W!Times, Suspend(o, why, t), armed' \subseteq Events
  PROVE  ControlTypeOK'
BY KernelFacts DEF Suspend, ControlTypeOK

\* A delay schedules for a time that is not over.
LEMMA DelayAllowed ==
  ASSUME KernelInv, NEW o \in Procs \cup Assigns, NEW d \in 1..MaxTime, Delay(o, d)
  PROVE  Allowed
<1>1. cur # None /\ Schedule(latest + d, o) /\ Suspend(o, "delay", latest + d)
      /\ UNCHANGED <<queueVars, armed>> /\ o \in Objs
  BY SimKernelAssumption DEF Delay, Running, Objs
<1>2. latest + d \in Nat /\ latest + d >= latest /\ latest + d \in W!Times
  BY <1>1, KernelFacts, KernelConstants DEF Schedule, HasRoom, W!Times
<1>3. ControlTypeOK'
  BY <1>1, <1>2, KernelFacts, SuspendTyped DEF ControlTypeOK
<1> QED BY <1>1, <1>2, <1>3, SchedulesAllowed DEF Suspend

\* A zero delay queues at most one event, an event control none.
LEMMA SuspendAllowed ==
  ASSUME KernelInv, NEW p \in Procs, DelayZero(p) \/ WaitFor(p)
  PROVE  Allowed
<1>1. /\ cur = p /\ p \in Objs /\ cur # None
      /\ UNCHANGED <<wheelVars, depth, entered, unset, turn, cur>> /\ returned' = "false"
  BY SimKernelAssumption DEF DelayZero, WaitFor, Running, Suspend, Objs
<1>2. ControlTypeOK'
  <2>1. 0 \in W!Times
    BY KernelConstants DEF W!Times
  <2>2. p \in Initials => Ev(p, "active") \in Events
    BY DEF Events, WaitEvents
  <2>3. armed' \subseteq Events
    BY <2>2, KernelFacts DEF DelayZero, WaitFor, ControlTypeOK
  <2> QED BY <2>1, <2>3, SuspendTyped DEF DelayZero, WaitFor
<1>3. CASE Enqueue(Ev(p, "inactive"))
  <2>1. Ev(p, "inactive") \in Events
    BY DEF Events
  <2> QED BY <1>1, <1>2, <1>3, <2>1, QueuesAllowed
<1>4. CASE UNCHANGED queueVars
  BY <1>1, <1>2, <1>4, QuietAllowed
<1> QED BY <1>3, <1>4 DEF DelayZero, WaitFor

\* A statement that is no process returns.
LEMMA CompleteAllowed ==
  ASSUME KernelInv, NEW o \in Objs \ Procs, Complete(o)
  PROVE  Allowed
<1>1. /\ cur = o /\ cur # None /\ returned' = "true"
      /\ UNCHANGED <<wheelVars, queueVars, armed, unset, turn, cur, depth, entered, until, finished>>
  BY SimKernelAssumption DEF Complete, Running
<1>2. ControlTypeOK'
  BY <1>1, KernelFacts DEF Complete, ControlTypeOK
<1> QED BY <1>1, <1>2, QuietAllowed

\* $finish leaves everything as it is.
LEMMA FinishAllowed ==
  ASSUME KernelInv, Finish \/ UNCHANGED vars
  PROVE  Allowed
<1>1. /\ UNCHANGED <<wheelVars, queueVars, procVars, armed, unset, turn, cur, returned>>
      /\ finished' \in BOOLEAN
  BY KernelFacts DEF Finish, vars, ControlTypeOK
<1>2. ControlTypeOK'
  BY <1>1, KernelFacts DEF ControlTypeOK, procVars
<1> QED BY <1>1, <1>2, QuietAllowed, KernelFacts DEF procVars, InControl

\* Every step is allowed: there is a case for each action.
LEMMA NextAllowed == KernelInv /\ [Next]_vars => Allowed
<1> SUFFICES ASSUME KernelInv, [Next]_vars PROVE Allowed
  OBVIOUS
<1>1. CASE Setup
  BY <1>1, SetupAllowed DEF Setup
<1>2. CASE Handlers
  BY <1>2, StepBeginAllowed, StepEndAllowed, TriggerAllowed, ReturnToWheelAllowed,
     ReturnToQueueAllowed, QueueAllowed DEF Handlers
<1>3. CASE Return
  BY <1>3, DelayAllowed, SuspendAllowed, BlockAllowed, CompleteAllowed DEF Return
<1>4. CASE Effects
  BY <1>4, NotifyAllowed, EnableAllowed, NonblockAllowed, BlockAllowed, FinishAllowed DEF Effects
<1>5. CASE UNCHANGED vars
  BY <1>5, FinishAllowed
<1> QED BY <1>1, <1>2, <1>3, <1>4, <1>5 DEF Next
-----------------------------------------------------------------------------
\* The wheel and the queue start empty, and control with setup.
LEMMA InitKernelInv == Init => KernelInv /\ W!Init /\ Q!Init
<1> SUFFICES ASSUME Init PROVE KernelInv
  BY DEF Init
<1>1. WP!WheelInv /\ QP!QueueInv
  BY WP!InitInv, QP!InitInv, KernelConstants
     DEF Init, W!Init, WP!Init, Q!Init, QP!Init, Q!Strata, Q!Looped, Q!Ranked, QP!Strata, QP!Looped,
         QP!Ranked
<1>2. W!WheelInv /\ Q!QueueInv
  BY <1>1
     DEF W!WheelInv, WP!WheelInv, W!WheelTypeOK, WP!WheelTypeOK, W!Sorted, WP!Sorted, W!InOrder,
         WP!InOrder, W!ClockInStep, WP!ClockInStep, W!NoIdleNode, WP!NoIdleNode, W!NodeType,
         WP!NodeType, W!Times, WP!Times, W!Elaborating, WP!Elaborating, Q!QueueInv, QP!QueueInv,
         Q!QueueTypeOK, QP!QueueTypeOK, Q!InOwnStratum, QP!InOwnStratum, Q!OncePerContainer,
         QP!OncePerContainer, Q!QueuedIffListed, QP!QueuedIffListed, Q!BatchOncePerContainer,
         QP!BatchOncePerContainer, Q!Strata, QP!Strata, Q!Looped, QP!Looped, Q!Ranked, QP!Ranked
<1>3. ControlTypeOK
  <2>1. 0 \in 0..MaxDepth /\ 0 \in W!Times
    BY KernelConstants, SimKernelAssumption DEF W!Times
  <2> QED BY <2>1 DEF Init, ControlTypeOK
<1>4. InControl
  BY SimKernelAssumption DEF Init, W!Init, Q!Init, InControl, W!Elaborating, Objs
<1> QED BY <1>2, <1>3, <1>4
        DEF KernelInv, KernelTypeOK, ControlTypeOK, W!WheelInv, Q!QueueInv

\* What the wheel and the queue allow keeps their invariants.
LEMMA NextKernelInv == KernelInv /\ [Next]_vars => KernelInv'
<1> SUFFICES ASSUME KernelInv, [Next]_vars PROVE KernelInv'
  OBVIOUS
<1>1. Allowed
  BY NextAllowed
<1>2. W!WheelInv' /\ Q!QueueInv'
  BY <1>1, WheelKept, QueueKept DEF Allowed, KernelInv
<1> QED BY <1>1, <1>2 DEF Allowed, KernelInv, KernelTypeOK, ControlTypeOK, W!WheelInv, Q!QueueInv

\* The wheel stays sorted and in step with the clock, the flags of the events
\* tell which are queued, and control stays where it may be, whatever the
\* statements of a design do (sim.cc, time_whl.h, event.h).
THEOREM KernelInvariant == Spec => []KernelInv
BY InitKernelInv, NextKernelInv, PTL DEF Spec

\* The kernel uses the time wheel as it must: nothing is scheduled for a time
\* that is over, and nothing is taken but the head of the first list.
THEOREM KernelUsesWheel == Spec => ImplementsWheel
<1>1. KernelInv /\ [Next]_vars => [W!Next]_(W!wheelVars)
  BY NextAllowed DEF Allowed
<1> QED BY InitKernelInv, NextKernelInv, <1>1, PTL DEF Spec, ImplementsWheel, W!Spec

\* The kernel uses the event queue as it must: nothing is added that is queued
\* already, and nothing but by setup or by a statement being triggered.
THEOREM KernelUsesQueue == Spec => ImplementsQueue
<1>1. KernelInv /\ [Next]_vars => [Q!Next]_(Q!queueVars)
  BY NextAllowed DEF Allowed
<1> QED BY InitKernelInv, NextKernelInv, <1>1, PTL DEF Spec, ImplementsQueue, Q!Spec
=============================================================================
