------------------------------ MODULE SimKernel -----------------------------
(***************************************************************************)
(* The simulation kernel: the time wheel handler, the event queue handler  *)
(* and the post-processing of src/src/sim.cc, driving a time wheel and an  *)
(* event queue.  The statements they trigger are those setup makes of a    *)
(* design, each of them free to do at every moment whatever its kind can   *)
(* do to the kernel, so a behaviour is a run of some design.               *)
(*                                                                         *)
(* A statement runs until it returns: FALSE when it has arranged to be     *)
(* triggered again, TRUE when it has reached the end of a sequential block *)
(* (of the one it was resumed in, or of all it has entered) or is done.    *)
(***************************************************************************)
EXTENDS Integers, FiniteSets, SequencesExt

CONSTANTS
  Initials,     \* initial constructs, each a sequential block
  Timed,        \* always constructs without an event control in front
  Sensitive,    \* always constructs with one, in front or (Timed) inside
  Assigns,      \* continuous assignments
  AssignDelay,  \* the delay of each, 0 for none
  Constant,     \* events whose expression has a constant among its operands
  Updates,      \* the updates of nonblocking assignments
  Monitors,     \* enables of $monitor
  Strobes,      \* enables of $strobe
  Api,          \* does a C program set nets between the steps?
  MaxTime,      \* bound: the last time unit
  MaxListed,    \* bound: statements a node lists when one delays itself
  MaxDepth      \* bound: blocks nested in one another

None == "none"

Procs == Initials \cup Timed \cup Sensitive
Outputs == Monitors \cup Strobes
Objs == Procs \cup Assigns \cup Updates \cup Outputs

\* An event is named by the statement it triggers and the list it goes to.
\* A process has an event control (if it can wait on one) and a zero delay.
Ev(o, k) == [obj |-> o, stratum |-> k]
WaitEvents == {Ev(p, "active") : p \in Initials}
SenseEvents == {Ev(o, "active") : o \in Sensitive \cup Assigns}
OutputEvents == {Ev(o, "monitor") : o \in Monitors} \cup {Ev(o, "strobe") : o \in Strobes}
Events == WaitEvents \cup SenseEvents \cup OutputEvents
          \cup {Ev(p, "inactive") : p \in Procs}
          \cup {Ev(u, "nonblocking") : u \in Updates}
ContainerOf == [e \in Events |-> e]
StratumOf == [e \in Events |-> e.stratum]

\* A statement is of one kind; only an always construct can be both timed and
\* sensitive.
ASSUME SimKernelAssumption ==
  /\ MaxTime \in Nat /\ MaxListed \in Nat /\ MaxDepth \in Nat \ {0}
  /\ Initials \cap (Timed \cup Sensitive) = {}
  /\ Procs \cap (Assigns \cup Updates \cup Outputs) = {}
  /\ Assigns \cap (Updates \cup Outputs) = {} /\ Updates \cap Outputs = {}
  /\ AssignDelay \in [Assigns -> Nat]
  /\ Constant \subseteq Events
  /\ Api \in BOOLEAN
  /\ None \notin Objs

VARIABLES
  node, latest, handling,        \* the time wheel
  queue, queued, temp, stage,    \* the event queue
  armed,     \* events check_monitor will queue: registered and is_active()
  unset,     \* what setup has still to set up
  turn,      \* what the time wheel handler does next: "wheel" or "queue"
  cur,       \* the statement being triggered
  returned,  \* what it did: not yet returned, or returned FALSE or TRUE
  depth,     \* _stk.size() of a process's block
  entered,   \* how many of those blocks the present trigger has entered
  sleep,     \* what a statement has suspended itself for, or that it is over
  until,     \* for a delay, when it is over
  finished   \* $finish was called

wheelVars == <<node, latest, handling>>
queueVars == <<queue, queued, temp, stage>>
procVars == <<depth, entered, sleep, until>>
vars == <<wheelVars, queueVars, procVars, armed, unset, turn, cur, returned, finished>>

W == INSTANCE TimeWheel WITH Stmts <- Objs
Q == INSTANCE EventQueue WITH Containers <- Events

KernelTypeOK ==
  /\ W!WheelTypeOK /\ Q!QueueTypeOK
  /\ armed \subseteq Events
  /\ unset \subseteq Procs \cup Assigns
  /\ turn \in {"wheel", "queue"}
  /\ cur \in Objs \cup {None}
  /\ returned \in {"not", "false", "true"}
  /\ depth \in [Procs -> 0..MaxDepth] /\ entered \in 0..MaxDepth
  /\ sleep \in [Procs \cup Assigns -> {"no", "delay", "zero", "wait", "over"}]
  /\ until \in [Procs \cup Assigns -> W!Times]
  /\ finished \in BOOLEAN

Init ==
  /\ W!Init /\ Q!Init
  /\ armed = {}
  /\ unset = Procs \cup Assigns
  /\ turn = "wheel" /\ cur = None /\ returned = "not"
  /\ depth = [p \in Procs |-> 0] /\ entered = 0
  /\ sleep = [o \in Procs \cup Assigns |-> "no"]
  /\ until = [o \in Procs \cup Assigns |-> 0]
  /\ finished = FALSE
-----------------------------------------------------------------------------
(***************************************************************************)
(* Setup: the module items, in the order the source has them.              *)
(***************************************************************************)

\* May one more statement be put on the wheel at t (bounds)?
HasRoom(t) == t <= MaxTime /\ Len(W!ListedAt(node, t)) < MaxListed

\* add_event of the two structures; every caller of the queue's looks at
\* is_queued() first.
Schedule(t, o) ==
  /\ HasRoom(t)
  /\ node' = W!Scheduled(node, t, o)
  /\ UNCHANGED <<latest, handling>>

\* Mutant: the caller does not look at is_queued().
EnqueueAgain(e) ==
  /\ queue' = [queue EXCEPT ![e.stratum] = Append(@, e)]
  /\ queued' = [queued EXCEPT ![e] = TRUE]
  /\ UNCHANGED <<temp, stage>>

Enqueue(e) ==
  /\ ~queued[e]
  /\ queue' = [queue EXCEPT ![e.stratum] = Append(@, e)]
  /\ queued' = [queued EXCEPT ![e] = TRUE]
  /\ UNCHANGED <<temp, stage>>

\* monitor_expr of a number: an event with a constant in its expression is
\* queued as soon as it is registered.
Register(e) ==
  IF e \in Constant /\ ~queued[e] THEN Enqueue(e) ELSE UNCHANGED queueVars

\* An initial construct, and an always construct without an event control in
\* front, is put on the time wheel at 0.  The event of each event control is
\* registered; that of an always construct is forced, so it is always active.
SetupProcess(p) ==
  /\ p \in unset \cap Procs
  /\ unset' = unset \ {p}
  /\ IF p \in Initials \cup Timed THEN Schedule(0, p) ELSE UNCHANGED wheelVars
  /\ armed' = IF p \in Sensitive THEN armed \cup {Ev(p, "active")} ELSE armed
  /\ Register(Ev(p, "active"))
  /\ UNCHANGED <<procVars, turn, cur, returned, finished>>

\* A continuous assignment is registered likewise and queued once.
SetupAssign(a) ==
  /\ a \in unset \cap Assigns
  /\ unset' = unset \ {a}
  /\ armed' = armed \cup {Ev(a, "active")}
  /\ Enqueue(Ev(a, "active"))
  /\ UNCHANGED <<wheelVars, procVars, turn, cur, returned, finished>>
-----------------------------------------------------------------------------
(***************************************************************************)
(* The handlers.                                                           *)
(***************************************************************************)

\* trigger_once takes the first node and calls the time wheel handler.
StepBegin ==
  /\ unset = {} /\ ~finished
  /\ W!Begin
  /\ turn' = "wheel"
  /\ UNCHANGED <<queueVars, procVars, armed, unset, cur, returned, finished>>

\* A statement is triggered.  A process that is not in its block enters it; a
\* suspended one goes on from where it suspended itself, whatever woke it.
Trigger(o) ==
  /\ cur = None /\ ~finished
  /\ cur' = o /\ returned' = "not"
  /\ IF o \in Procs
     THEN /\ depth' = [depth EXCEPT ![o] = IF @ = 0 THEN 1 ELSE @]
          /\ entered' = IF depth[o] = 0 THEN 1 ELSE 0
          /\ sleep' = [sleep EXCEPT ![o] = "no"]
          /\ until' = [until EXCEPT ![o] = 0]
     ELSE IF o \in Assigns /\ sleep[o] = "delay"
     THEN /\ sleep' = [sleep EXCEPT ![o] = "over"]
          /\ until' = [until EXCEPT ![o] = 0]
          /\ UNCHANGED <<depth, entered>>
     ELSE UNCHANGED procVars

TriggerFromWheel ==
  /\ handling /\ turn = "wheel" /\ node[1].event # << >>
  /\ Trigger(Head(node[1].event))
  /\ UNCHANGED <<wheelVars, queueVars, armed, unset, turn, finished>>

TriggerFromQueue ==
  /\ temp # << >>
  /\ Trigger(Head(temp).obj)
  /\ UNCHANGED <<wheelVars, queueVars, armed, unset, turn, finished>>

\* Mutant: an initial construct is put on the wheel whenever it has returned
\* TRUE, also when it is over.
ReschedulesOver(o) ==
  /\ returned = "true"
  /\ o \in Timed \cup Initials

\* trigger_postproc: is the statement put on the wheel again, now?  An always
\* construct that starts over is, and so is an initial construct that has
\* returned TRUE from a nested block.
Reschedules(o) ==
  /\ returned = "true"
  /\ o \in Timed \/ (o \in Initials /\ depth[o] > 0)

\* Mutant: the last statement leaves the list.
ReturnToWheelLast ==
  /\ cur # None /\ returned # "not" /\ turn = "wheel"
  /\ LET rest == [node EXCEPT ![1].event = Front(@)]
     IN  node' = IF Reschedules(cur) THEN W!Scheduled(rest, latest, cur) ELSE rest
  /\ turn' = IF node'[1].event = << >> THEN "queue" ELSE "wheel"
  /\ cur' = None /\ returned' = "not" /\ entered' = 0
  /\ UNCHANGED <<latest, handling, queueVars, armed, unset, depth, sleep, until, finished>>

\* Mutant: a statement put on the wheel again stays in front.
ReturnToWheelInFront ==
  /\ cur # None /\ returned # "not" /\ turn = "wheel"
  /\ node' = IF Reschedules(cur) THEN node ELSE [node EXCEPT ![1].event = Tail(@)]
  /\ turn' = IF node'[1].event = << >> THEN "queue" ELSE "wheel"
  /\ cur' = None /\ returned' = "not" /\ entered' = 0
  /\ UNCHANGED <<latest, handling, queueVars, armed, unset, depth, sleep, until, finished>>

\* Back in the time wheel handler: the statement leaves the list, and only an
\* empty list leads to the event queue.
ReturnToWheel ==
  /\ cur # None /\ returned # "not" /\ turn = "wheel"
  /\ LET rest == [node EXCEPT ![1].event = Tail(@)]
     IN  node' = IF Reschedules(cur) THEN W!Scheduled(rest, latest, cur) ELSE rest
  /\ turn' = IF node'[1].event = << >> THEN "queue" ELSE "wheel"
  /\ cur' = None /\ returned' = "not" /\ entered' = 0
  /\ UNCHANGED <<latest, handling, queueVars, armed, unset, depth, sleep, until, finished>>

\* Back in the event queue handler.
ReturnToQueue ==
  /\ cur # None /\ returned # "not" /\ turn = "queue"
  /\ IF Reschedules(cur) THEN Schedule(latest, cur) ELSE UNCHANGED wheelVars
  /\ Q!Handle
  /\ cur' = None /\ returned' = "not" /\ entered' = 0
  /\ UNCHANGED <<armed, unset, turn, depth, sleep, until, finished>>

\* The event queue's own steps.
QueueEnter ==
  /\ handling /\ turn = "queue" /\ cur = None /\ ~finished
  /\ Q!Enter
  /\ UNCHANGED <<wheelVars, procVars, armed, unset, turn, cur, returned, finished>>

\* Mutant: the inactive list comes before the active one.
QueueActivateInactive ==
  /\ cur = None /\ ~finished
  /\ IF stage = "loop" /\ temp = << >> /\ queue["inactive"] # << >>
     THEN Q!MoveEvents("inactive") /\ UNCHANGED stage
     ELSE (\E r \in DOMAIN Q!Ranked : Q!Activate(r)) \/ Q!ActivateStrobe
  /\ UNCHANGED <<wheelVars, procVars, armed, unset, turn, cur, returned, finished>>

QueueActivate ==
  /\ cur = None /\ ~finished
  /\ (\E r \in DOMAIN Q!Ranked : Q!Activate(r)) \/ Q!ActivateStrobe
  /\ UNCHANGED <<wheelVars, procVars, armed, unset, turn, cur, returned, finished>>

\* trigger returns; the time wheel handler looks at its list once more.
QueueLeave ==
  /\ Q!Leave
  /\ turn' = "wheel"
  /\ UNCHANGED <<wheelVars, procVars, armed, unset, cur, returned, finished>>

\* Mutant: the handler returns without having called the event queue.
StepEndEarly ==
  /\ handling /\ cur = None /\ stage = "idle" /\ ~finished
  /\ W!End
  /\ UNCHANGED <<queueVars, procVars, armed, unset, turn, cur, returned, finished>>

\* The list of the node is empty: the handler returns, the node is removed.
StepEnd ==
  /\ handling /\ turn = "wheel" /\ cur = None /\ ~finished
  /\ W!End
  /\ UNCHANGED <<queueVars, procVars, armed, unset, turn, cur, returned, finished>>
-----------------------------------------------------------------------------
(***************************************************************************)
(* What a statement does while it is triggered.                            *)
(***************************************************************************)

\* The statement being triggered, if it has not returned.
Running(o) == cur = o /\ returned = "not" /\ ~finished

\* A delayed continuous assignment that has just been triggered by a change
\* only starts its delay.
MustDelay(a) == AssignDelay[a] > 0 /\ sleep[a] # "over"

\* Mutant: the event is not deactivated.
NotifyActive(e) ==
  /\ e \in armed
  /\ Enqueue(e)
  /\ UNCHANGED armed

\* check_monitor, for one event of a net that has changed: an active event
\* that is not queued is queued and deactivated; a forced one stays active.
Notify(e) ==
  /\ e \in armed
  /\ Enqueue(e)
  /\ armed' = IF e \in WaitEvents THEN armed \ {e} ELSE armed

\* A statement assigns to a net.
Assign(e) ==
  /\ \E o \in Procs \cup Updates \cup Assigns :
       Running(o) /\ (o \in Assigns => ~MustDelay(o))
  /\ Notify(e)
  /\ UNCHANGED <<wheelVars, procVars, unset, turn, cur, returned, finished>>

\* vbs_set_net: so does a C program, between the steps.
ApiSetNet(e) ==
  /\ Api /\ ~handling /\ unset = {} /\ ~finished
  /\ Notify(e)
  /\ UNCHANGED <<wheelVars, procVars, unset, turn, cur, returned, finished>>

\* A nonblocking assignment queues its update, unless that is queued already.
Nonblock(u) ==
  /\ \E p \in Procs : Running(p)
  /\ Enqueue(Ev(u, "nonblocking"))
  /\ UNCHANGED <<wheelVars, procVars, armed, unset, turn, cur, returned, finished>>

\* With a delay, "x <= #d e" puts it on the time wheel.
NonblockLater(u, d) ==
  /\ \E p \in Procs : Running(p)
  /\ Schedule(latest + d, u)
  /\ UNCHANGED <<queueVars, procVars, armed, unset, turn, cur, returned, finished>>

\* The first enable of $monitor or $strobe registers its event.
Enable(e) ==
  /\ \E p \in Procs : Running(p)
  /\ e \in OutputEvents \ armed
  /\ armed' = armed \cup {e}
  /\ Register(e)
  /\ UNCHANGED <<wheelVars, procVars, unset, turn, cur, returned, finished>>

\* A process enters a nested sequential block.
EnterBlock(p) ==
  /\ Running(p)
  /\ depth[p] < MaxDepth
  /\ depth' = [depth EXCEPT ![p] = @ + 1]
  /\ entered' = entered + 1
  /\ UNCHANGED <<wheelVars, queueVars, armed, unset, turn, cur, returned, sleep, until, finished>>

\* Mutant: the outermost block does not end the trigger it was entered in.
EndBlockOpen(p) ==
  /\ Running(p)
  /\ depth' = [depth EXCEPT ![p] = @ - 1]
  /\ entered' = IF entered > 0 THEN entered - 1 ELSE 0
  /\ returned' = IF entered = 0 THEN "true" ELSE "not"
  /\ UNCHANGED <<wheelVars, queueVars, armed, unset, turn, cur, sleep, until, finished>>

\* The end of the innermost block: the statement around it goes on if it was
\* entered in the present trigger; otherwise, or if it was the outermost
\* block, the process returns TRUE.
EndBlock(p) ==
  /\ Running(p)
  /\ depth' = [depth EXCEPT ![p] = @ - 1]
  /\ entered' = IF entered > 0 THEN entered - 1 ELSE 0
  /\ returned' = IF entered = 0 \/ depth[p] = 1 THEN "true" ELSE "not"
  /\ sleep' = IF p \in Initials /\ depth[p] = 1 THEN [sleep EXCEPT ![p] = "over"] ELSE sleep
  /\ UNCHANGED <<wheelVars, queueVars, armed, unset, turn, cur, until, finished>>

\* A statement suspends itself and returns FALSE.
Suspend(o, why, t) ==
  /\ sleep' = [sleep EXCEPT ![o] = why]
  /\ until' = [until EXCEPT ![o] = t]
  /\ returned' = "false"
  /\ UNCHANGED <<depth, entered, unset, turn, cur, finished>>

\* Mutant: the statement is scheduled one time unit early.
DelayShort(o, d) ==
  /\ Running(o)
  /\ \/ o \in Procs
     \/ o \in Assigns /\ MustDelay(o) /\ d = AssignDelay[o]
  /\ Schedule(latest + d - 1, o)
  /\ Suspend(o, "delay", latest + d)
  /\ UNCHANGED <<queueVars, armed>>

\* A delay: back on the time wheel.
Delay(o, d) ==
  /\ Running(o)
  /\ \/ o \in Procs
     \/ o \in Assigns /\ MustDelay(o) /\ d = AssignDelay[o]
  /\ Schedule(latest + d, o)
  /\ Suspend(o, "delay", latest + d)
  /\ UNCHANGED <<queueVars, armed>>

\* A delay of zero: to the inactive list, if not queued yet.
DelayZero(p) ==
  /\ Running(p)
  /\ IF queued[Ev(p, "inactive")] THEN UNCHANGED queueVars
     ELSE Enqueue(Ev(p, "inactive"))
  /\ Suspend(p, "zero", 0)
  /\ UNCHANGED <<wheelVars, armed>>

\* An event control; within an always construct it is passed over.
WaitFor(p) ==
  /\ Running(p) /\ p \in Initials
  /\ armed' = armed \cup {Ev(p, "active")}
  /\ Suspend(p, "wait", 0)
  /\ UNCHANGED <<wheelVars, queueVars>>

\* The other statements do what they do and return TRUE.
Complete(o) ==
  /\ Running(o) /\ o \notin Procs
  /\ o \in Assigns => ~MustDelay(o)
  /\ returned' = "true"
  /\ sleep' = IF o \in Assigns THEN [sleep EXCEPT ![o] = "no"] ELSE sleep
  /\ UNCHANGED <<wheelVars, queueVars, armed, unset, turn, cur, depth, entered, until, finished>>

\* $finish leaves everything as it is (longjmp).
Finish ==
  /\ \E p \in Procs : Running(p)
  /\ finished' = TRUE
  /\ UNCHANGED <<wheelVars, queueVars, procVars, armed, unset, turn, cur, returned>>
-----------------------------------------------------------------------------
Setup == \E o \in Procs \cup Assigns : SetupProcess(o) \/ SetupAssign(o)

Handlers ==
  \/ StepBegin \/ StepEnd
  \/ TriggerFromWheel \/ ReturnToWheel
  \/ TriggerFromQueue \/ ReturnToQueue
  \/ QueueEnter \/ QueueActivate \/ QueueLeave

\* A statement returns.
Return ==
  \/ \E o \in Procs \cup Assigns, d \in 1..MaxTime : Delay(o, d)
  \/ \E p \in Procs : DelayZero(p) \/ WaitFor(p) \/ EndBlock(p)
  \/ \E o \in Objs \ Procs : Complete(o)

Effects ==
  \/ \E e \in Events : Assign(e) \/ ApiSetNet(e) \/ Enable(e)
  \/ \E u \in Updates : Nonblock(u) \/ \E d \in 1..MaxTime : NonblockLater(u, d)
  \/ \E p \in Procs : EnterBlock(p)
  \/ Finish

Next == Setup \/ Handlers \/ Return \/ Effects

Spec == Init /\ [][Next]_vars

\* The handlers run on, and no statement runs for ever (a loop without delay
\* would): each returns.
FairSpec ==
  /\ Spec
  /\ WF_vars(Setup) /\ WF_vars(Handlers)
  /\ WF_vars(Return /\ returned' # "not")
-----------------------------------------------------------------------------
(***************************************************************************)
(* Properties.                                                             *)
(***************************************************************************)

\* Where control is: setup comes first, only the time wheel handler calls the
\* event queue, and a statement is triggered while it is at the head of the
\* list or batch being handled, in a block if it is a process.
InControl ==
  /\ unset # {} => W!Elaborating
  /\ ~handling => turn = "wheel" /\ cur = None
  /\ turn = "wheel" => stage = "idle"
  /\ stage = "idle" => temp = << >>
  /\ cur = None => returned = "not"
  /\ cur # None =>
       IF turn = "wheel" THEN node[1].event # << >> /\ cur = Head(node[1].event)
       ELSE temp # << >> /\ cur = Head(temp).obj
  /\ cur \in Procs /\ returned = "not" => depth[cur] > 0 /\ entered <= depth[cur]

\* The invariant of the kernel, inductive: that of the wheel and of the queue
\* hold, although their add_event is called from anywhere.
KernelInv == KernelTypeOK /\ W!WheelInv /\ Q!QueueInv /\ InControl

\* The processes no sensitivity list triggers behind their back.
Unforced == (Initials \cup Timed) \ Sensitive

\* How often a statement is going to be triggered: its places on the time
\* wheel, in the lists of the event queue and in the batch being handled, and
\* the event control it waits on.
OnWheel(o) ==
  UNION {{<<i, j>> : j \in {k \in DOMAIN node[i].event : node[i].event[k] = o}} :
           i \in DOMAIN node}
Queued(o) == {e \in Events : e.obj = o /\ queued[e]}
InBatch(o) == {i \in DOMAIN temp : temp[i].obj = o}
Waiting(o) == {e \in armed \cap WaitEvents : e.obj = o}

Wakeups(o) ==
  Cardinality(OnWheel(o)) + Cardinality(Queued(o))
    + Cardinality(InBatch(o)) + Cardinality(Waiting(o))

\* Such a process is triggered exactly once for
\* each time it suspends itself: while it is suspended there is one wake-up
\* for it, on the wheel, in the event queue or at its event control, and never
\* two; when it is over there is none.
WokenOnce ==
  \A p \in Unforced :
    cur # p /\ p \notin unset =>
      Wakeups(p) = IF sleep[p] = "over" THEN 0 ELSE 1

\* The kernel keeps to what the wheel relies on: add_event is called with no
\* time before the first node, the handler removes what it was handed.
ImplementsWheel == W!Spec

\* The kernel keeps to what the event queue relies on: no event is added that
\* is queued already, and none but by a statement being triggered.
ImplementsQueue == Q!Spec

\* Time does not advance while an event waits for the present time unit.
TimeAdvancesDrained ==
  [][latest' # latest => \A k \in Q!Strata : queue[k] = << >>]_vars

\* A process, once delayed, goes on at the time its delay is over and not
\* before.
Resumes(o) == cur' = o /\ cur # o /\ sleep[o] = "delay"
DelayKept == [][\A p \in Unforced : Resumes(p) => latest = until[p]]_vars

\* No statement of the present time unit overtakes the others for ever: one
\* the handler is about to reach on the wheel is triggered in the end, behind
\* those that keep putting themselves back.
WheelIsTriggered ==
  \A o \in Objs :
    (handling /\ turn = "wheel" /\ \E j \in DOMAIN node[1].event : node[1].event[j] = o)
      ~> (cur = o \/ finished)

\* A change a process or an assignment is sensitive to makes it run in the
\* end, behind whatever else is queued.
ChangeIsTriggered ==
  \A e \in WaitEvents \cup SenseEvents :
    (queued[e] /\ stage = "loop") ~> (cur = e.obj \/ finished)
=============================================================================
