-------------------------- MODULE StratifiedQueue ---------------------------
(***************************************************************************)
(* What the event queue promises, without its lists and flags: the         *)
(* stratified event queue of IEEE Std 1364, which common/event.h says it   *)
(* interfaces to ("VBS's interface to the IEEE Std 1364-1995 description   *)
(* of the scheduling semantics").  An event waits in its stratum, at most  *)
(* one of those that share a container; when no event is due, all the      *)
(* events of the first stratum with one waiting become due at once.        *)
(***************************************************************************)
EXTENDS Naturals

CONSTANTS Events, Containers, ContainerOf, StratumOf

VARIABLES waiting,   \* the events that wait
          due,       \* the events that are due
          open,      \* the queue is being worked off
          last       \* the last stratum has been reached

strataVars == <<waiting, due, open, last>>

Ranks == [active |-> 1, inactive |-> 2, nonblocking |-> 3, monitor |-> 4, strobe |-> 5]

Rank(e) == Ranks[StratumOf[e]]

Init == waiting = {} /\ due = {} /\ ~open /\ ~last

\* A statement makes an event wait, unless one of its container does already.
Wait(e) ==
  /\ ~open \/ due # {}
  /\ \A f \in waiting : ContainerOf[f] # ContainerOf[e]
  /\ waiting' = waiting \cup {e}
  /\ UNCHANGED <<due, open, last>>

Open == ~open /\ open' = TRUE /\ UNCHANGED <<waiting, due, last>>

\* The first stratum with an event becomes due as a whole.
Turn ==
  /\ open /\ ~last /\ due = {} /\ waiting # {}
  /\ due' = {e \in waiting : \A f \in waiting : Rank(e) <= Rank(f)}
  /\ waiting' = waiting \ due'
  /\ last' = \A e \in due' : StratumOf[e] = "strobe"
  /\ UNCHANGED open

Do(e) ==
  /\ e \in due
  /\ due' = due \ {e}
  /\ UNCHANGED <<waiting, open, last>>

\* The work ends when nothing waits, or after the last stratum.
Close ==
  /\ open /\ due = {}
  /\ waiting = {} \/ last
  /\ open' = FALSE /\ last' = FALSE
  /\ UNCHANGED <<waiting, due>>

Next ==
  \/ \E e \in Events : Wait(e) \/ Do(e)
  \/ Open
  \/ Turn
  \/ Close

Spec == Init /\ [][Next]_strataVars
=============================================================================
