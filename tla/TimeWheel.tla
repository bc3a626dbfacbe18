----------------------------- MODULE TimeWheel ------------------------------
(***************************************************************************)
(* The time wheel, src/src/common/time_whl.h: a list of nodes, one per     *)
(* time unit at which something is scheduled, each with the list of the    *)
(* statements to trigger then.  The kernel takes the first node            *)
(* (trigger_once), hands its list to the time wheel handler, which         *)
(* triggers and removes the statements one at a time and may schedule      *)
(* others meanwhile, and removes the node once the handler returns.        *)
(***************************************************************************)
EXTENDS Naturals, SequencesExt

CONSTANTS Stmts,      \* the statements that can be scheduled
          MaxTime,    \* bound: the last time unit anything is scheduled for
          MaxListed   \* bound: how many statements one node lists

ASSUME TimeWheelAssumption == MaxTime \in Nat /\ MaxListed \in Nat

VARIABLES node,       \* _node: the nodes, [time, event]
          latest,     \* _latest_time: what current_time() returns
          handling    \* the handler is working on the first node

wheelVars == <<node, latest, handling>>

Times == 0..MaxTime

NodeType == [time : Times, event : Seq(Stmts)]

WheelTypeOK ==
  /\ node \in Seq(NodeType)
  /\ latest \in Times
  /\ handling \in BOOLEAN
-----------------------------------------------------------------------------
\* Does the scan of add_event end at node i of ns?  Either time t belongs to
\* the node or lies before it, or t lies after it and either the node is the
\* last or t lies before the next.
Ends(ns, t, i) ==
  \/ t <= ns[i].time
  \/ i = Len(ns)
  \/ t < ns[i + 1].time

\* The node at which the scan, made from the front, ends.
ScanEnd(ns, t) ==
  CHOOSE i \in DOMAIN ns :
    Ends(ns, t, i) /\ \A j \in 1..(i - 1) : ~Ends(ns, t, j)

\* Mutant: the new node goes in front of the one at which the scan ended.
ScheduledInFront(ns, t, s) ==
  IF ns = << >> THEN ns
  ELSE LET i == ScanEnd(ns, t)
       IN  CASE t = ns[i].time -> [ns EXCEPT ![i].event = Append(@, s)]
             [] t > ns[i].time ->
                  InsertAt(ns, i, [time |-> t, event |-> <<s>>])
             [] OTHER -> ns

\* Mutant: the statement goes in front of those already listed.
ScheduledFirst(ns, t, s) ==
  IF ns = << >> THEN ns
  ELSE LET i == ScanEnd(ns, t)
       IN  CASE t = ns[i].time -> [ns EXCEPT ![i].event = <<s>> \o @]
             [] t > ns[i].time ->
                  InsertAt(ns, i + 1, [time |-> t, event |-> <<s>>])
             [] OTHER -> ns

\* The nodes after add_event(t, s).  A time before the first node is refused
\* ("Less than current time (Error)?") and a wheel without nodes takes
\* nothing: in both cases the statement is dropped.
Scheduled(ns, t, s) ==
  IF ns = << >> THEN ns
  ELSE LET i == ScanEnd(ns, t)
       IN  CASE t = ns[i].time -> [ns EXCEPT ![i].event = Append(@, s)]
             [] t > ns[i].time ->
                  InsertAt(ns, i + 1, [time |-> t, event |-> <<s>>])
             [] OTHER -> ns

\* The statements listed for time t.
ListedAt(ns, t) ==
  LET I == {i \in DOMAIN ns : ns[i].time = t}
  IN  IF I = {} THEN << >> ELSE ns[CHOOSE i \in I : TRUE].event
-----------------------------------------------------------------------------
\* The constructor makes the node of time 0, empty.
Init ==
  /\ node = <<[time |-> 0, event |-> << >>]>>
  /\ latest = 0
  /\ handling = FALSE

\* Has trigger_once not been called yet?  The first node is then time 0's.
Elaborating == ~handling /\ node # << >> /\ node[1].time = 0

\* add_event, as it is called: with time 0 while the design is set up (initial
\* and always constructs), and with the current time or a later one by the
\* statement the handler is triggering.
AddEvent(t, s) ==
  /\ \/ Elaborating /\ t = 0
     \/ handling /\ t >= latest
  /\ Len(ListedAt(node, t)) < MaxListed
  /\ node' = Scheduled(node, t, s)
  /\ UNCHANGED <<latest, handling>>

\* trigger_once until it calls the handler.
Begin ==
  /\ ~handling
  /\ node # << >>
  /\ latest' = IF node[1].time > latest THEN node[1].time ELSE latest
  /\ handling' = TRUE
  /\ UNCHANGED node

\* The handler has triggered the first statement of the node and removes it.
Fire ==
  /\ handling
  /\ node[1].event # << >>
  /\ node' = [node EXCEPT ![1].event = Tail(@)]
  /\ UNCHANGED <<latest, handling>>

\* The handler removes it and schedules it again for the current time.
FireAgain ==
  /\ handling
  /\ node[1].event # << >>
  /\ node' = Scheduled([node EXCEPT ![1].event = Tail(@)], latest, Head(node[1].event))
  /\ UNCHANGED <<latest, handling>>

\* The handler returns once the list is empty; trigger_once pops the node.
End ==
  /\ handling
  /\ node[1].event = << >>
  /\ node' = Tail(node)
  /\ handling' = FALSE
  /\ UNCHANGED latest

Next ==
  \/ \E t \in Times, s \in Stmts : AddEvent(t, s)
  \/ Begin
  \/ Fire
  \/ FireAgain
  \/ End

Spec == Init /\ [][Next]_wheelVars
-----------------------------------------------------------------------------
(***************************************************************************)
(* Properties.                                                             *)
(***************************************************************************)

InOrder(ns) == \A i, j \in DOMAIN ns : i < j => ns[i].time < ns[j].time

\* What the scan of add_event relies on and keeps: the nodes are in strictly
\* increasing order of time, so no time unit has two nodes.
Sorted == InOrder(node)

\* The clock agrees with the wheel: while the handler works on a node it shows
\* that node's time, and between nodes everything still listed is due later
\* (so a statement that schedules for the current time or later is never told
\* "Less than current time").
ClockInStep ==
  /\ handling => node # << >> /\ node[1].time = latest
  /\ Elaborating => latest = 0
  /\ (~handling /\ ~Elaborating) => \A i \in DOMAIN node : node[i].time > latest

\* Every node but the first was made for a statement and still lists it.
NoIdleNode ==
  \A i \in DOMAIN node :
    node[i].event = << >> => i = 1 /\ (handling \/ node[1].time = 0)

\* The inductive invariant.
WheelInv == WheelTypeOK /\ Sorted /\ ClockInStep /\ NoIdleNode

\* The wheel is an agenda: nothing scheduled is dropped, done early or late,
\* or overtakes a statement scheduled before it for the same time unit.
Abstract == INSTANCE Agenda WITH
  agenda <- [t \in Times |-> ListedAt(node, t)], now <- latest

ImplementsAgenda == Abstract!Spec
=============================================================================
