------------------------------- MODULE FramePool -------------------------------
(***************************************************************************)
(* What the frame list of a device promises to the processes: a request    *)
(* gets as many frames as it asks for, all of them free until then and its *)
(* owner's from then on, or it gets none, because there are too few.       *)
(* Nothing comes back to the pool, and what was left goes when a request   *)
(* fails.                                                                  *)
(***************************************************************************)
EXTENDS Naturals, FiniteSets

CONSTANTS
  Procs,      (* the processes                                               *)
  NumFrames,  (* frames of the device                                        *)
  Requests    (* how many frames a request may ask for                       *)

Frames == 0 .. NumFrames - 1

VARIABLES
  free,       (* the frames nobody has                                       *)
  owned       (* per process: the frames it has been given                   *)

PoolInit ==
  /\ free = Frames
  /\ owned = [p \in Procs |-> {}]

Grant(p, F) ==
  /\ F \subseteq free
  /\ Cardinality(F) \in Requests
  /\ free' = free \ F
  /\ owned' = [owned EXCEPT ![p] = @ \cup F]

Exhaust ==
  /\ \E n \in Requests : Cardinality(free) < n
  /\ free' = {}
  /\ UNCHANGED owned

PoolNext ==
  \/ \E p \in Procs : \E F \in SUBSET free : Grant(p, F)
  \/ Exhaust

PoolSpec == PoolInit /\ [][PoolNext]_<<free, owned>>
=============================================================================
