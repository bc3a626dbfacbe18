------------------------------- MODULE Agenda -------------------------------
(***************************************************************************)
(* What the kernel is promised by its time wheel, without the list of      *)
(* nodes: an agenda gives every time unit the statements due in it, in the *)
(* order they were put there, and the clock goes to the next time unit at  *)
(* which something is due once nothing is left for the present one         *)
(* (unsupported/doc/Impl_details, "Time Wheel").                           *)
(***************************************************************************)
EXTENDS Naturals, Sequences

CONSTANTS Stmts,     \* the statements that can be put on the agenda
          MaxTime    \* bound: the last time unit of the agenda

VARIABLES agenda,    \* agenda[t]: the statements due at t, first come first
          now        \* the present time unit

agendaVars == <<agenda, now>>

Times == 0..MaxTime

Init ==
  /\ agenda = [t \in Times |-> << >>]
  /\ now = 0

\* A statement is put last among those due at t; the past is closed.
Put(t, s) ==
  /\ t >= now
  /\ agenda' = [agenda EXCEPT ![t] = Append(@, s)]
  /\ UNCHANGED now

\* The statement that has been due longest is done.
Do ==
  /\ agenda[now] # << >>
  /\ agenda' = [agenda EXCEPT ![now] = Tail(@)]
  /\ UNCHANGED now

\* It is done and due once more in the same time unit, behind the others.
DoAgain ==
  /\ agenda[now] # << >>
  /\ agenda' = [agenda EXCEPT ![now] = Append(Tail(@), Head(@))]
  /\ UNCHANGED now

\* Time advances to the next time unit with something due, and only when
\* nothing is left for the present one.
Advance(t) ==
  /\ t > now
  /\ agenda[t] # << >>
  /\ \A u \in Times : now <= u /\ u < t => agenda[u] = << >>
  /\ now' = t
  /\ UNCHANGED agenda

Next ==
  \/ \E t \in Times, s \in Stmts : Put(t, s)
  \/ Do
  \/ DoAgain
  \/ \E t \in Times : Advance(t)

Spec == Init /\ [][Next]_agendaVars
=============================================================================
