--------------------------------- MODULE Turns ---------------------------------
(***************************************************************************)
(* What the processes of OS get of the CPUs, slot by slot: OS with two     *)
(* history variables, which no action looks at.                            *)
(***************************************************************************)
EXTENDS OS

VARIABLES
  ran,   (* the processes that have executed an instruction in this slot     *)
  turn   (* per process: how many it has executed since it left its queue    *)

historyVars == <<ran, turn>>
turnsVars == <<vars, historyVars>>

Executes(p) == pc'[p] # pc[p]

History ==
  /\ ran' = IF TimerRound THEN {} ELSE ran \cup {p \in Procs : Executes(p)}
  /\ turn' = [p \in Procs |->
                IF Queued(p)' THEN 0 ELSE IF Executes(p) THEN turn[p] + 1 ELSE turn[p]]

TurnsInit ==
  /\ Init
  /\ ran = {}
  /\ turn = [p \in Procs |-> 0]

TurnsNext == Next /\ History

TurnsSpec == TurnsInit /\ [][TurnsNext]_turnsVars

FairTurnsSpec == TurnsSpec /\ Fairness

-----------------------------------------------------------------------------
(* Properties *)

(* A process executes at most one instruction in a slot, whichever CPUs    *)
(* hand it on meanwhile, and none before its start time: a CPU lets it go  *)
(* only before it has run it in this slot.                                 *)
OnePerSlot ==
  [][\A p \in Procs : Executes(p) => p \notin ran /\ time >= job[p].start]_turnsVars

(* A process that leaves its CPU has had its whole quantum there, or has   *)
(* executed all of its code, within one quantum: it never gets the rest of *)
(* the quantum of the one before it, nor more than one before the others   *)
(* have their turn (but for time_slot 0, when time_left never becomes 0).  *)
WholeQuantum ==
  [][\A p \in Procs : Held(p) /\ ~Held(p)' =>
       \/ turn[p] = TimeSlot
       \/ Finished(p) /\ (turn[p] <= TimeSlot \/ TimeSlot = 0)]_turnsVars
=============================================================================
