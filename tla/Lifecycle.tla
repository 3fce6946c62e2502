------------------------------ MODULE Lifecycle ------------------------------
(***************************************************************************)
(* What the scheduler, the CPUs and the loader promise together: the life  *)
(* of a process.  It is admitted once, is then ready or on one CPU, loses  *)
(* an instruction at a time while on a CPU, and finishes when none is      *)
(* left; a CPU runs one process at a time; and no process ever leaves this *)
(* cycle in another way.                                                   *)
(*                                                                         *)
(* Module OS refines it, as long as no ready queue overflows.              *)
(***************************************************************************)
EXTENDS Naturals

CONSTANTS
  Procs,   (* the processes of the configuration file *)
  CPUs     (* the CPU threads                         *)

VARIABLES
  place,   (* per process: "new", "ready", "finished" or the CPU it is on *)
  left     (* per process: the instructions it has yet to execute         *)

lifeVars == <<place, left>>

LifeInit ==
  /\ place = [p \in Procs |-> "new"]
  /\ left \in [Procs -> Nat]

Move(p, from, to) ==
  /\ place[p] = from
  /\ place' = [place EXCEPT ![p] = to]
  /\ UNCHANGED left

Admit(p) == Move(p, "new", "ready")

Dispatch(p, c) ==
  /\ \A q \in Procs : place[q] # c
  /\ Move(p, "ready", c)

Preempt(p, c) == Move(p, c, "ready")

Finish(p, c) ==
  /\ left[p] = 0
  /\ Move(p, c, "finished")

Execute(p, c) ==
  /\ place[p] = c
  /\ left[p] > 0
  /\ left' = [left EXCEPT ![p] = @ - 1]
  /\ UNCHANGED place

LifeNext ==
  \E p \in Procs :
    \/ Admit(p)
    \/ \E c \in CPUs :
         Dispatch(p, c) \/ Preempt(p, c) \/ Finish(p, c) \/ Execute(p, c)

LifeSpec == LifeInit /\ [][LifeNext]_lifeVars
=============================================================================
