---------------------------- MODULE MCEventQueue ----------------------------
(***************************************************************************)
(* The event queue with the events of small designs, for model checking.   *)
(***************************************************************************)
EXTENDS EventQueue

\* "@(a or b)" (two events, one container), another sensitivity event, and an
\* event of each other kind.
MCEvents == {"onA", "onB", "onC", "zero", "update", "shown", "strobed"}
MCContainers == {"orAB", "onC", "zero", "update", "shown", "strobed"}
MCContainerOf ==
  [e \in MCEvents |-> IF e \in {"onA", "onB"} THEN "orAB" ELSE e]
MCStratumOf ==
  [onA |-> "active", onB |-> "active", onC |-> "active", zero |-> "inactive",
   update |-> "nonblocking", shown |-> "monitor", strobed |-> "strobe"]
=============================================================================
