-------------------------------- MODULE Timer --------------------------------
(***************************************************************************)
(* timer.c, thread by thread: main() attaches the devices, starts the      *)
(* timer thread, creates the device threads, joins them and stops the      *)
(* timer.  Each action is one critical section of the code (between a      *)
(* pthread_mutex_lock and the matching unlock or pthread_cond_wait), or    *)
(* one step outside of any.  A thread inside pthread_cond_wait is in a     *)
(* state of its own, which it leaves when it is signalled, or spuriously,  *)
(* as POSIX allows.                                                        *)
(***************************************************************************)
EXTENDS Naturals, Sequences

CONSTANTS
  Devices,  (* threads that synchronise with the timer: CPUs and loader     *)
  TimeCap   (* bound: the slot counter saturates here (see SlotClock)       *)

ASSUME TimerAssumption == TimeCap \in Nat

VARIABLES
  dev_list,     (* the list of attached devices, last attached first        *)
  done, fsh,    (* the two flags of each timer_id_t                         *)
  time,         (* _time                                                    *)
  timer_stop,   (* set by stop_timer()                                      *)
  tpc,          (* where the timer thread is                                *)
  cur,          (* its position in dev_list (temp)                          *)
  fshCount,     (* its local fsh: finished devices seen in this round       *)
  eventCount,   (* its local event: devices seen in this round              *)
  pc,           (* per device: where its thread is                          *)
  mpc           (* where main() is                                          *)

timerVars == <<tpc, cur, fshCount, eventCount>>
vars == <<dev_list, done, fsh, time, timer_stop, timerVars, pc, mpc>>

TimerLocs == {"new", "head", "scan", "event_wait", "reset", "exited"}
DeviceLocs == {"new", "work", "check", "timer_wait", "exited"}
MainLocs == {"attach", "join", "stop", "exited"}

Attached == {dev_list[i] : i \in DOMAIN dev_list}

(* The variables have their types, and the two counters and the position   *)
(* of timer_routine() stay within the list it walks.                       *)
TypeOK ==
  /\ dev_list \in Seq(Devices)
  /\ done \in [Devices -> BOOLEAN]
  /\ fsh \in [Devices -> BOOLEAN]
  /\ time \in 0 .. TimeCap
  /\ timer_stop \in BOOLEAN
  /\ tpc \in TimerLocs
  /\ cur \in 1 .. Len(dev_list) + 1
  /\ eventCount \in 0 .. Len(dev_list)
  /\ fshCount \in 0 .. eventCount
  /\ pc \in [Devices -> DeviceLocs]
  /\ mpc \in MainLocs

Init ==
  /\ dev_list = << >>
  /\ done = [d \in Devices |-> FALSE]
  /\ fsh = [d \in Devices |-> FALSE]
  /\ time = 0
  /\ timer_stop = FALSE
  /\ tpc = "new"
  /\ cur = 1
  /\ fshCount = 0
  /\ eventCount = 0
  /\ pc = [d \in Devices |-> "new"]
  /\ mpc = "attach"

-----------------------------------------------------------------------------
(* main() *)

(* attach_event(): a new record in front of the list.  It is refused once  *)
(* the timer has started; main() attaches every device before that.        *)
AttachEvent(d) ==
  /\ mpc = "attach"
  /\ d \notin Attached
  /\ dev_list' = <<d>> \o dev_list
  /\ UNCHANGED <<done, fsh, time, timer_stop, timerVars, pc, mpc>>

(* start_timer(): pthread_create() of the timer thread.                    *)
StartTimer ==
  /\ mpc = "attach"
  /\ Attached = Devices
  /\ tpc' = "head"
  /\ mpc' = "join"
  /\ UNCHANGED <<dev_list, done, fsh, time, timer_stop, cur, fshCount,
                 eventCount, pc>>

(* pthread_create() of a CPU or of the loader, after start_timer().        *)
CreateThread(d) ==
  /\ mpc = "join"
  /\ pc[d] = "new"
  /\ pc' = [pc EXCEPT ![d] = "work"]
  /\ UNCHANGED <<dev_list, done, fsh, time, timer_stop, timerVars, mpc>>

(* stop_timer(), called when every thread has been joined.                 *)
StopTimer ==
  /\ mpc = "join"
  /\ \A d \in Devices : pc[d] = "exited"
  /\ timer_stop' = TRUE
  /\ mpc' = "stop"
  /\ UNCHANGED <<dev_list, done, fsh, time, timerVars, pc>>

(* ... and its second half: join the timer thread, then free the list.     *)
FreeDevices_NoJoin ==     \* mutation: the timer thread is not joined
  /\ mpc = "stop"
  /\ dev_list' = << >>
  /\ mpc' = "exited"
  /\ UNCHANGED <<done, fsh, time, timer_stop, timerVars, pc>>

FreeDevices ==
  /\ mpc = "stop"
  /\ tpc = "exited"
  /\ dev_list' = << >>
  /\ mpc' = "exited"
  /\ UNCHANGED <<done, fsh, time, timer_stop, timerVars, pc>>

-----------------------------------------------------------------------------
(* timer_routine() *)

(* pthread_cond_signal(&event_cond) by device d: the timer thread wakes up *)
(* if it sleeps on the condition of that very device.                      *)
SignalEvent_Omitted(d) == UNCHANGED tpc    \* mutation: no signal sent

SignalEvent(d) ==
  tpc' = IF tpc = "event_wait" /\ dev_list[cur] = d THEN "scan" ELSE tpc

(* pthread_cond_signal(&timer_cond) for device d.                          *)
SignalTimer_Omitted(d) == UNCHANGED pc     \* mutation: no signal sent

SignalTimer(d) ==
  pc' = IF pc[d] = "timer_wait" THEN [pc EXCEPT ![d] = "check"] ELSE pc

(* The condition timer_routine() sleeps on.                                *)
Busy_NoFsh(d) == ~done[d]     \* mutation: fsh left out of the condition

Busy(d) == ~done[d] /\ ~fsh[d]

(* fsh++ for a device that has detached.                                   *)
CountFsh_Always(d) == fshCount + 1     \* mutation: fsh++ not guarded

CountFsh(d) == IF fsh[d] THEN fshCount + 1 ELSE fshCount

(* The while condition of the loop.                                        *)
TimerHead ==
  /\ tpc = "head"
  /\ tpc' = IF timer_stop THEN "exited" ELSE "scan"
  /\ UNCHANGED <<dev_list, done, fsh, time, timer_stop, cur, fshCount,
                 eventCount, pc, mpc>>

(* One visit of the first for loop: sleep while the device is still busy,  *)
(* otherwise count it and go to the next one.                              *)
TimerScan ==
  /\ tpc = "scan"
  /\ cur <= Len(dev_list)
  /\ LET d == dev_list[cur] IN
       \/ /\ Busy(d)
          /\ tpc' = "event_wait"
          /\ UNCHANGED <<cur, fshCount, eventCount>>
       \/ /\ ~Busy(d)
          /\ fshCount' = CountFsh(d)
          /\ eventCount' = eventCount + 1
          /\ cur' = cur + 1
          /\ UNCHANGED tpc
  /\ UNCHANGED <<dev_list, done, fsh, time, timer_stop, pc, mpc>>

(* A spurious return from pthread_cond_wait(&event_cond).                  *)
TimerSpuriousWakeup_NoRecheck ==     \* mutation: if where the code has while
  /\ tpc = "event_wait"
  /\ tpc' = "scan"
  /\ eventCount' = eventCount + 1
  /\ cur' = cur + 1
  /\ UNCHANGED <<dev_list, done, fsh, time, timer_stop, fshCount, pc, mpc>>

TimerSpuriousWakeup ==
  /\ tpc = "event_wait"
  /\ tpc' = "scan"
  /\ UNCHANGED <<dev_list, done, fsh, time, timer_stop, cur, fshCount,
                 eventCount, pc, mpc>>

(* _time++ once every device has been seen.                                *)
TimerTick ==
  /\ tpc = "scan"
  /\ cur > Len(dev_list)
  /\ time' = IF time < TimeCap THEN time + 1 ELSE time
  /\ tpc' = "reset"
  /\ cur' = 1
  /\ UNCHANGED <<dev_list, done, fsh, timer_stop, fshCount, eventCount, pc,
                 mpc>>

(* One visit of the second for loop: let the device continue.              *)
TimerReset ==
  /\ tpc = "reset"
  /\ cur <= Len(dev_list)
  /\ LET d == dev_list[cur] IN
       /\ done' = [done EXCEPT ![d] = FALSE]
       /\ SignalTimer(d)
  /\ cur' = cur + 1
  /\ UNCHANGED <<dev_list, fsh, time, timer_stop, tpc, fshCount, eventCount,
                 mpc>>

(* The end of a round: leave if every device seen had finished.  The two   *)
(* counters are local to the loop body, so the next round begins at zero.  *)
TimerRoundEnd_KeepCounts ==     \* mutation: counters declared outside the loop
  /\ tpc = "reset"
  /\ cur > Len(dev_list)
  /\ tpc' = IF fshCount = eventCount THEN "exited" ELSE "head"
  /\ cur' = 1
  /\ UNCHANGED <<dev_list, done, fsh, time, timer_stop, fshCount, eventCount,
                 pc, mpc>>

TimerRoundEnd ==
  /\ tpc = "reset"
  /\ cur > Len(dev_list)
  /\ tpc' = IF fshCount = eventCount THEN "exited" ELSE "head"
  /\ cur' = 1
  /\ fshCount' = 0
  /\ eventCount' = 0
  /\ UNCHANGED <<dev_list, done, fsh, time, timer_stop, pc, mpc>>

-----------------------------------------------------------------------------
(* The device threads *)

(* next_slot(), first critical section: tell the timer.                    *)
NextSlotSignal(d) ==
  /\ pc[d] = "work"
  /\ done' = [done EXCEPT ![d] = TRUE]
  /\ SignalEvent(d)
  /\ pc' = [pc EXCEPT ![d] = "check"]
  /\ UNCHANGED <<dev_list, fsh, time, timer_stop, cur, fshCount, eventCount,
                 mpc>>

(* next_slot(), second critical section: sleep while done is still set.    *)
NextSlotCheck_NoWait(d) ==     \* mutation: next_slot() does not wait
  /\ pc[d] = "check"
  /\ pc' = [pc EXCEPT ![d] = "work"]
  /\ UNCHANGED <<dev_list, done, fsh, time, timer_stop, timerVars, mpc>>

NextSlotCheck(d) ==
  /\ pc[d] = "check"
  /\ pc' = [pc EXCEPT ![d] = IF done[d] THEN "timer_wait" ELSE "work"]
  /\ UNCHANGED <<dev_list, done, fsh, time, timer_stop, timerVars, mpc>>

(* A spurious return from pthread_cond_wait(&timer_cond).                  *)
DeviceSpuriousWakeup(d) ==
  /\ pc[d] = "timer_wait"
  /\ pc' = [pc EXCEPT ![d] = "check"]
  /\ UNCHANGED <<dev_list, done, fsh, time, timer_stop, timerVars, mpc>>

(* detach_event(), after which the thread exits.                           *)
Detach(d) ==
  /\ pc[d] = "work"
  /\ fsh' = [fsh EXCEPT ![d] = TRUE]
  /\ SignalEvent(d)
  /\ pc' = [pc EXCEPT ![d] = "exited"]
  /\ UNCHANGED <<dev_list, done, time, timer_stop, cur, fshCount, eventCount,
                 mpc>>

-----------------------------------------------------------------------------
MainStep == StartTimer \/ StopTimer \/ FreeDevices
              \/ \E d \in Devices : AttachEvent(d) \/ CreateThread(d)
TimerStep == TimerHead \/ TimerScan \/ TimerTick \/ TimerReset \/ TimerRoundEnd
DeviceStep(d) == NextSlotSignal(d) \/ NextSlotCheck(d) \/ Detach(d)

Terminated == mpc = "exited" /\ UNCHANGED vars

Next ==
  \/ MainStep
  \/ TimerStep
  \/ TimerSpuriousWakeup
  \/ \E d \in Devices : DeviceStep(d) \/ DeviceSpuriousWakeup(d)
  \/ Terminated

Spec == Init /\ [][Next]_vars

(* Every thread is scheduled again and again; a device that works in a     *)
(* slot gets to the end of its work.  Nothing is owed to spurious wakeups. *)
Fairness ==
  /\ WF_vars(MainStep)
  /\ WF_vars(TimerStep)
  /\ \A d \in Devices : WF_vars(DeviceStep(d))

FairSpec == Spec /\ Fairness

-----------------------------------------------------------------------------
(* Properties *)

(* The slot counter moves only when every device of the list has finished  *)
(* its work of the slot and is inside next_slot(), or has left: no device  *)
(* ever works across a change of _time, which loader and CPUs read with no *)
(* lock.                                                                   *)
SlotBarrier ==
  (tpc = "scan" /\ cur > Len(dev_list)) =>
     \A d \in Devices : done[d] \/ fsh[d]

(* No wakeup is lost: a thread asleep on a condition variable sleeps for a *)
(* reason that still holds.  Both flags are read under one mutex and done  *)
(* is cleared under another one, so no single lock ensures this.           *)
NoLostWakeup ==
  /\ tpc = "event_wait" => ~done[dev_list[cur]] /\ ~fsh[dev_list[cur]]
  /\ \A d \in Devices : pc[d] = "timer_wait" => done[d]

(* Not everybody waits for everybody: until main() has returned, a thread  *)
(* can go on that no spurious wakeup has to help.  The waits are main()'s  *)
(* joins, the timer's for a device and the devices' for the timer.         *)
MainGoesOn ==
  \/ mpc = "attach"
  \/ mpc = "join" /\ \E d \in Devices : pc[d] = "new"
  \/ mpc = "join" /\ \A d \in Devices : pc[d] = "exited"
  \/ mpc = "stop" /\ tpc = "exited"

SomeoneAwake ==
  \/ mpc = "exited" \/ MainGoesOn
  \/ tpc \in {"head", "scan", "reset"}
  \/ \E d \in Devices : pc[d] \in {"work", "check"}

(* The timer thread leaves only when every device has detached: neither    *)
(* the comparison of its two local counters nor timer_stop is early.       *)
NoEarlyExit == tpc = "exited" => \A d \in Devices : fsh[d]

(* The records freed by stop_timer() are not in use any more.              *)
NoUseAfterFree ==
  (tpc \notin {"new", "exited"}
     \/ \E d \in Devices : pc[d] \in {"work", "check", "timer_wait"})
  => Attached = Devices

(* next_slot() returns: the caller gets to work in the next slot.          *)
NextSlotReturns ==
  \A d \in Devices : pc[d] \in {"check", "timer_wait"} ~> pc[d] = "work"

(* When every device has detached, the timer thread ends, and so main().   *)
TimerEnds == (mpc # "attach" /\ \A d \in Devices : fsh[d]) ~> mpc = "exited"

-----------------------------------------------------------------------------
(* Refinement: the one-by-one release of the devices looks simultaneous    *)
(* once a device whose flag is still to be cleared counts as released.     *)
ToReset ==
  IF tpc = "reset" THEN {dev_list[i] : i \in cur .. Len(dev_list)} ELSE {}

PhaseOf(d) ==
  IF fsh[d] THEN "finished"
  ELSE IF done[d] /\ d \notin ToReset THEN "waiting"
  ELSE "working"

(* The timer implements the barrier of SlotClock: its safety part ...      *)
Clock == INSTANCE SlotClock WITH phase <- [d \in Devices |-> PhaseOf(d)]

ClockRefinedSafe == Clock!ClockSpec

(* ... and with the fairness of the threads, a next slot always follows.   *)
ClockRefined == Clock!FairClockSpec
=============================================================================
