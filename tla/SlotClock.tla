------------------------------ MODULE SlotClock ------------------------------
(***************************************************************************)
(* What timer.c promises its clients: the simulated clock as a barrier.    *)
(* A device (a CPU thread or the loader thread) works in the current time  *)
(* slot until it calls next_slot() or detach_event(); the slot counter     *)
(* advances in one step, only when no device is working, and that step     *)
(* releases every waiting device into the new slot.                        *)
(*                                                                         *)
(* Module Timer is the implementation with its condition variables and     *)
(* refines this module; module OS is built on this abstraction.            *)
(***************************************************************************)
EXTENDS Naturals

CONSTANTS
  Devices,  (* the timer_id_t owners: one per CPU thread, one for the loader *)
  TimeCap   (* bound: the counter stays at TimeCap once it gets there.  The  *)
            (* code only compares current_time() with start times, so a cap  *)
            (* at or above the latest start time loses nothing               *)

ASSUME ClockAssumption == TimeCap \in Nat

VARIABLES
  time,     (* _time *)
  phase     (* per device: where it stands with respect to the current slot *)

clockVars == <<time, phase>>

Phases == {"working", "waiting", "finished"}

ClockTypeOK ==
  /\ time \in 0 .. TimeCap
  /\ phase \in [Devices -> Phases]

ClockInit ==
  /\ time = 0
  /\ phase = [d \in Devices |-> "working"]

(* next_slot(): the caller has done its job in this slot and sleeps until  *)
(* the next one.                                                           *)
NextSlot(d) ==
  /\ phase[d] = "working"
  /\ phase' = [phase EXCEPT ![d] = "waiting"]
  /\ UNCHANGED time

(* detach_event(): the caller leaves the barrier for good.                 *)
DetachEvent(d) ==
  /\ phase[d] = "working"
  /\ phase' = [phase EXCEPT ![d] = "finished"]
  /\ UNCHANGED time

AdvanceTime(t) == IF t < TimeCap THEN t + 1 ELSE t

(* One round of timer_routine().                                           *)
Tick ==
  /\ \A d \in Devices : phase[d] # "working"
  /\ time' = AdvanceTime(time)
  /\ phase' = [d \in Devices |->
                 IF phase[d] = "waiting" THEN "working" ELSE phase[d]]

ClockNext == Tick \/ \E d \in Devices : NextSlot(d) \/ DetachEvent(d)

ClockSpec == ClockInit /\ [][ClockNext]_clockVars

(* A slot in which every device has waited or left is followed by another, *)
(* as long as somebody waits for it.                                       *)
ClockFairness == WF_clockVars(Tick /\ \E d \in Devices : phase[d] = "waiting")

FairClockSpec == ClockSpec /\ ClockFairness
=============================================================================
