---------------------------- MODULE MCSimKernel -----------------------------
(***************************************************************************)
(* The simulation kernel with the constructs of small designs, for model   *)
(* checking.                                                               *)
(***************************************************************************)
EXTENDS SimKernel

CONSTANT MCDelay

MCNoEvent == {}
MCForced == {e \in SenseEvents : e.obj \in Procs} \cup OutputEvents

MCAssignDelay == [a \in Assigns |-> MCDelay]
=============================================================================
