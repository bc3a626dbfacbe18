---------------------------- MODULE MCTimeWheel -----------------------------
(***************************************************************************)
(* The time wheel with two statements, for model checking.                 *)
(***************************************************************************)
EXTENDS TimeWheel
=============================================================================
