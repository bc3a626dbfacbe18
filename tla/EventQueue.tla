----------------------------- MODULE EventQueue -----------------------------
(***************************************************************************)
(* The event queue, src/src/common/event.h: five lists of events that wait *)
(* for the statements of the present time unit to be done, and the loop    *)
(* (trigger) that handles them list by list.  A batch is moved out of its  *)
(* list before it is handled, so the statements it triggers may queue more *)
(* events, the one being handled included.                                 *)
(*                                                                         *)
(* Events that must not trigger their statement twice (the events of       *)
(* "@(a or b)") share a container, and with it the flag that says whether  *)
(* one of them is queued.                                                  *)
(***************************************************************************)
EXTENDS Naturals, SequencesExt

CONSTANTS Events,        \* the events of a design
          Containers,    \* their containers (event_container)
          ContainerOf,   \* _cache: the container of an event
          StratumOf      \* type(): the list add_event puts the event into

\* The lists, in the order trigger looks at them.  The edge and change events
\* of sensitivity lists all go to _active.
Ranked == <<"active", "inactive", "nonblocking", "monitor">>
Looped == {Ranked[r] : r \in DOMAIN Ranked}
Strata == Looped \cup {"strobe"}

ASSUME EventQueueAssumption ==
  /\ ContainerOf \in [Events -> Containers]
  /\ StratumOf \in [Events -> Strata]

VARIABLES queue,    \* _active, _inactive, _nonblocking, _monitor, _strobe
          queued,   \* _queued of each container
          temp,     \* temp: the batch being handled, the present event first
          stage     \* where trigger is: not called, in its loop, after it

queueVars == <<queue, queued, temp, stage>>

QueueTypeOK ==
  /\ queue \in [Strata -> Seq(Events)]
  /\ queued \in [Containers -> BOOLEAN]
  /\ temp \in Seq(Events)
  /\ stage \in {"idle", "loop", "strobe"}
-----------------------------------------------------------------------------
Init ==
  /\ queue = [k \in Strata |-> << >>]
  /\ queued = [c \in Containers |-> FALSE]
  /\ temp = << >>
  /\ stage = "idle"

\* Mutant: the caller does not look at is_queued().
AddEventAgain(e) ==
  /\ stage = "idle" \/ temp # << >>
  /\ queue' = [queue EXCEPT ![StratumOf[e]] = Append(@, e)]
  /\ queued' = [queued EXCEPT ![ContainerOf[e]] = TRUE]
  /\ UNCHANGED <<temp, stage>>

\* add_event.  Every caller looks at is_queued() first.  The callers are the
\* setup, the statements of the time wheel and the handler of the present
\* event.
AddEvent(e) ==
  /\ stage = "idle" \/ temp # << >>
  /\ ~queued[ContainerOf[e]]
  /\ queue' = [queue EXCEPT ![StratumOf[e]] = Append(@, e)]
  /\ queued' = [queued EXCEPT ![ContainerOf[e]] = TRUE]
  /\ UNCHANGED <<temp, stage>>

\* trigger is called.
Enter ==
  /\ stage = "idle"
  /\ stage' = "loop"
  /\ UNCHANGED <<queue, queued, temp>>

\* Mutant: the flags stay set.
MoveEventsQueued(k) ==
  /\ temp' = queue[k]
  /\ queue' = [queue EXCEPT ![k] = << >>]
  /\ UNCHANGED queued

\* move_events(temp, queue[k]).
MoveEvents(k) ==
  /\ temp' = queue[k]
  /\ queue' = [queue EXCEPT ![k] = << >>]
  /\ queued' = [c \in Containers |->
                  /\ queued[c]
                  /\ \A i \in DOMAIN queue[k] : ContainerOf[queue[k][i]] # c]

\* Mutant: the lists are looked at in the opposite order.
ActivateLast(r) ==
  /\ stage = "loop" /\ temp = << >>
  /\ queue[Ranked[r]] # << >>
  /\ \A q \in DOMAIN Ranked : q > r => queue[Ranked[q]] = << >>
  /\ MoveEvents(Ranked[r])
  /\ UNCHANGED stage

\* The loop of trigger takes the first list that is not empty.
Activate(r) ==
  /\ stage = "loop" /\ temp = << >>
  /\ queue[Ranked[r]] # << >>
  /\ \A q \in 1..(r - 1) : queue[Ranked[q]] = << >>
  /\ MoveEvents(Ranked[r])
  /\ UNCHANGED stage

\* The loop has found nothing.
LoopDone ==
  /\ stage = "loop" /\ temp = << >>
  /\ \A r \in DOMAIN Ranked : queue[Ranked[r]] = << >>

\* After the loop the strobe events are taken, once.
ActivateStrobe ==
  /\ LoopDone
  /\ queue["strobe"] # << >>
  /\ MoveEvents("strobe")
  /\ stage' = "strobe"

\* The handler has returned from the present event; it leaves the batch.
Handle ==
  /\ temp # << >>
  /\ temp' = Tail(temp)
  /\ UNCHANGED <<queue, queued, stage>>

\* trigger returns.
Leave ==
  /\ \/ LoopDone /\ queue["strobe"] = << >>
     \/ stage = "strobe" /\ temp = << >>
  /\ stage' = "idle"
  /\ UNCHANGED <<queue, queued, temp>>

Next ==
  \/ \E e \in Events : AddEvent(e)
  \/ Enter
  \/ \E r \in DOMAIN Ranked : Activate(r)
  \/ ActivateStrobe
  \/ Handle
  \/ Leave

Spec == Init /\ [][Next]_queueVars

\* Once called, trigger goes on: every handler returns.
FairSpec == Spec /\ WF_queueVars(\/ \E r \in DOMAIN Ranked : Activate(r)
                                 \/ ActivateStrobe \/ Handle \/ Leave)
-----------------------------------------------------------------------------
(***************************************************************************)
(* Properties.                                                             *)
(***************************************************************************)

\* Event e is in list k.
In(e, k) == \E i \in DOMAIN queue[k] : queue[k][i] = e

\* A list holds the events of its stratum only.
InOwnStratum ==
  \A k \in Strata : \A i \in DOMAIN queue[k] : StratumOf[queue[k][i]] = k

\* No two places in the five lists are of one container.
OncePerContainer ==
  \A k, l \in Strata : \A i \in DOMAIN queue[k], j \in DOMAIN queue[l] :
    ContainerOf[queue[k][i]] = ContainerOf[queue[l][j]] => k = l /\ i = j

\* The flag of a container says exactly whether one of its events is in a
\* list: never left set, which would make every later change go unnoticed,
\* and never cleared while the event still waits, which would queue it twice.
QueuedIffListed ==
  \A c \in Containers :
    queued[c] <=> \E k \in Strata : \E i \in DOMAIN queue[k] : ContainerOf[queue[k][i]] = c

\* A batch triggers no container twice.
BatchOncePerContainer ==
  \A i, j \in DOMAIN temp : ContainerOf[temp[i]] = ContainerOf[temp[j]] => i = j

\* The inductive invariant.
QueueInv ==
  /\ QueueTypeOK
  /\ InOwnStratum
  /\ OncePerContainer
  /\ QueuedIffListed
  /\ BatchOncePerContainer

\* The five lists are the strata of an abstract scheduler.
Abstract == INSTANCE StratifiedQueue WITH
  waiting <- {e \in Events : \E k \in Strata : In(e, k)},
  due <- {temp[i] : i \in DOMAIN temp},
  open <- stage # "idle",
  last <- stage = "strobe"

ImplementsStrata == Abstract!Spec

\* A sensitivity event that is queued while trigger runs is handled, however
\* many others keep being queued.
ActiveIsHandled ==
  \A e \in Events :
    (In(e, "active") /\ stage = "loop") ~> (temp # << >> /\ temp[1] = e)
=============================================================================
