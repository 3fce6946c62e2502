------------------------------- MODULE MCTimer -------------------------------
(* The timer with two CPU threads and the loader thread.                   *)
EXTENDS Timer
=============================================================================
