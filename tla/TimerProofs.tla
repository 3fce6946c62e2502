----------------------------- MODULE TimerProofs -----------------------------
(***************************************************************************)
(* The safety of timer.c for every set of devices, proved from one         *)
(* inductive invariant, and that the timer implements the barrier of       *)
(* SlotClock.                                                              *)
(***************************************************************************)
EXTENDS Timer, SequenceTheorems, TLAPS

Seen(d) == done[d] \/ fsh[d]

(* No device has two records in the list.                                  *)
DistinctRecords ==
  \A i, j \in 1 .. Len(dev_list) : dev_list[i] = dev_list[j] => i = j

(* The phases of main(): what has been started and joined so far.          *)
MainPhase ==
  /\ tpc = "new" <=> mpc = "attach"
  /\ mpc = "attach" => \A d \in Devices : pc[d] = "new"
  /\ mpc \in {"join", "stop"} => Attached = Devices
  /\ mpc = "exited" => tpc = "exited"
  /\ timer_stop => \A d \in Devices : pc[d] = "exited"
  /\ mpc \in {"stop", "exited"} => timer_stop

(* The flags of a device agree with where its thread is.                   *)
Flags ==
  \A d \in Devices :
    /\ pc[d] \in {"new", "work", "exited"} => ~done[d]
    /\ pc[d] = "timer_wait" => done[d]
    /\ fsh[d] <=> pc[d] = "exited"

(* The first loop: the devices before cur have reported, and the counters  *)
(* say how many.                                                           *)
ScanLoop ==
  tpc \in {"scan", "event_wait"} =>
    /\ \A j \in 1 .. cur - 1 : Seen(dev_list[j])
    /\ eventCount = cur - 1
    /\ fshCount = eventCount => \A j \in 1 .. cur - 1 : fsh[dev_list[j]]

Asleep ==
  tpc = "event_wait" => cur <= Len(dev_list) /\ ~Seen(dev_list[cur])

(* The second loop: the devices from cur on have not been released yet.    *)
ResetLoop ==
  tpc = "reset" =>
    /\ \A j \in cur .. Len(dev_list) : Seen(dev_list[j])
    /\ eventCount = Len(dev_list)
    /\ fshCount = eventCount =>
         \A j \in 1 .. Len(dev_list) : fsh[dev_list[j]]

Between ==
  tpc \in {"new", "head", "exited"} =>
    cur = 1 /\ fshCount = 0 /\ eventCount = 0

IInv ==
  /\ TypeOK
  /\ DistinctRecords
  /\ MainPhase
  /\ Flags
  /\ ScanLoop
  /\ Asleep
  /\ ResetLoop
  /\ Between
  /\ NoEarlyExit
-----------------------------------------------------------------------------
(* The invariant holds when main() begins: no device, nobody running.     *)
LEMMA InitIInv == Init => IInv
<1> SUFFICES ASSUME Init PROVE IInv
  OBVIOUS
<1>1. dev_list \in Seq(Devices) /\ Len(dev_list) = 0
  BY EmptySeq DEF Init
<1>2. cur = 1 /\ eventCount = 0 /\ fshCount = 0 /\ time \in 0 .. TimeCap
  BY TimerAssumption DEF Init
<1>2a. /\ done \in [Devices -> BOOLEAN] /\ fsh \in [Devices -> BOOLEAN]
       /\ timer_stop \in BOOLEAN
  BY DEF Init
<1>2b. /\ tpc \in TimerLocs /\ pc \in [Devices -> DeviceLocs]
       /\ mpc \in MainLocs
  BY DEF Init, TimerLocs, DeviceLocs, MainLocs
<1>2c. TypeOK
  BY <1>1, <1>2, <1>2a, <1>2b DEF TypeOK
<1>3. DistinctRecords
  BY <1>1 DEF DistinctRecords
<1>4. MainPhase /\ Flags /\ NoEarlyExit
  BY DEF Init, MainPhase, Flags, NoEarlyExit
<1>5. ScanLoop /\ Asleep /\ ResetLoop /\ Between
  BY DEF Init, ScanLoop, Asleep, ResetLoop, Between
<1> QED
  BY <1>2c, <1>3, <1>4, <1>5 DEF IInv

(* Every step of main(), of the timer thread, of a device thread, and      *)
(* every spurious wakeup preserves it.                                     *)
LEMMA NextIInv == IInv /\ [Next]_vars => IInv'
<1> SUFFICES ASSUME IInv, [Next]_vars PROVE IInv'
  OBVIOUS
<1> USE DEF IInv
<1>p. /\ Len(dev_list) \in Nat
      /\ DOMAIN dev_list = 1 .. Len(dev_list)
      /\ \A i \in 1 .. Len(dev_list) : dev_list[i] \in Devices
      /\ Attached = {dev_list[i] : i \in 1 .. Len(dev_list)}
  BY LenProperties, ElementOfSeq DEF TypeOK, Attached
<1>1. ASSUME NEW d \in Devices, AttachEvent(d) PROVE IInv'
  <2> USE <1>1 DEF AttachEvent
  <2>1. /\ <<d>> \in Seq(Devices) /\ Len(<<d>>) = 1 /\ <<d>>[1] = d
        /\ dev_list \in Seq(Devices)
    BY DEF TypeOK
  <2>2. /\ dev_list' \in Seq(Devices)
        /\ Len(dev_list') = Len(dev_list) + 1
        /\ \A i \in 1 .. Len(dev_list) + 1 :
             dev_list'[i] = IF i <= 1 THEN d ELSE dev_list[i - 1]
    BY <2>1, <1>p, ConcatProperties
  <2>3. TypeOK'
    BY <2>2, <1>p DEF TypeOK, timerVars
  <2>4. DistinctRecords'
    <3>1. \A i \in 1 .. Len(dev_list) : dev_list[i] # d
      BY <1>p
    <3>2. SUFFICES ASSUME NEW i \in 1 .. Len(dev_list'),
                          NEW j \in 1 .. Len(dev_list'),
                          dev_list'[i] = dev_list'[j]
                   PROVE  i = j
      BY DEF DistinctRecords
    <3>3. CASE i = 1
      BY <2>2, <3>1, <3>2, <3>3, <1>p
    <3>4. CASE j = 1
      BY <2>2, <3>1, <3>2, <3>4, <1>p
    <3>5. CASE i > 1 /\ j > 1
      <4>1. dev_list[i - 1] = dev_list[j - 1]
        BY <2>2, <3>2, <3>5, <1>p
      <4> QED
        BY <2>2, <3>5, <4>1, <1>p DEF DistinctRecords
    <3> QED
      BY <2>2, <3>3, <3>4, <3>5, <1>p
  <2>5. tpc = "new" /\ tpc' = "new" /\ pc' = pc /\ mpc' = mpc
    BY DEF timerVars, MainPhase
  <2>6. MainPhase' /\ Flags' /\ NoEarlyExit'
    BY <2>5 DEF MainPhase, Flags, NoEarlyExit
  <2>7. ScanLoop' /\ Asleep' /\ ResetLoop' /\ Between'
    BY <2>5 DEF ScanLoop, Asleep, ResetLoop, Between, timerVars
  <2> QED
    BY <2>3, <2>4, <2>6, <2>7
<1>2. CASE StartTimer
  <2> USE <1>2 DEF StartTimer
  <2>1. TypeOK' /\ DistinctRecords'
    BY DEF TypeOK, DistinctRecords, TimerLocs, MainLocs
  <2>2. MainPhase' /\ Flags' /\ NoEarlyExit'
    BY DEF MainPhase, Flags, NoEarlyExit, Attached
  <2>3. ScanLoop' /\ Asleep' /\ ResetLoop' /\ Between'
    BY DEF ScanLoop, Asleep, ResetLoop, Between, MainPhase
  <2> QED
    BY <2>1, <2>2, <2>3
<1>3. ASSUME NEW d \in Devices, CreateThread(d) PROVE IInv'
  <2> USE <1>3 DEF CreateThread
  <2>1. TypeOK' /\ DistinctRecords'
    BY DEF TypeOK, DistinctRecords, timerVars, DeviceLocs
  <2>2. MainPhase' /\ Flags' /\ NoEarlyExit'
    BY DEF TypeOK, MainPhase, Flags, NoEarlyExit, Attached, timerVars
  <2>3. ScanLoop' /\ Asleep' /\ ResetLoop' /\ Between'
    BY DEF ScanLoop, Asleep, ResetLoop, Between, timerVars, Seen
  <2> QED
    BY <2>1, <2>2, <2>3
<1>4. CASE StopTimer
  <2> USE <1>4 DEF StopTimer
  <2>1. TypeOK' /\ DistinctRecords'
    BY DEF TypeOK, DistinctRecords, timerVars, MainLocs
  <2>2. MainPhase' /\ Flags' /\ NoEarlyExit'
    BY DEF MainPhase, Flags, NoEarlyExit, Attached, timerVars
  <2>3. ScanLoop' /\ Asleep' /\ ResetLoop' /\ Between'
    BY DEF ScanLoop, Asleep, ResetLoop, Between, timerVars, Seen
  <2> QED
    BY <2>1, <2>2, <2>3
<1>5. CASE FreeDevices
  <2> USE <1>5 DEF FreeDevices
  <2>1. dev_list' \in Seq(Devices) /\ Len(dev_list') = 0
    BY EmptySeq
  <2>2. tpc = "exited" /\ tpc' = "exited" /\ cur' = 1 /\ fshCount' = 0
          /\ eventCount' = 0
    BY DEF timerVars, Between
  <2>3. TypeOK' /\ DistinctRecords'
    BY <2>1, <2>2 DEF TypeOK, DistinctRecords, MainLocs
  <2>4. MainPhase' /\ Flags' /\ NoEarlyExit'
    BY <2>2 DEF MainPhase, Flags, NoEarlyExit
  <2>5. ScanLoop' /\ Asleep' /\ ResetLoop' /\ Between'
    BY <2>2 DEF ScanLoop, Asleep, ResetLoop, Between
  <2> QED
    BY <2>3, <2>4, <2>5
<1>6. CASE TimerHead
  <2> USE <1>6 DEF TimerHead
  <2>0. cur = 1 /\ fshCount = 0 /\ eventCount = 0
    BY DEF Between
  <2>1. TypeOK' /\ DistinctRecords'
    BY DEF TypeOK, DistinctRecords, TimerLocs
  <2>2. MainPhase' /\ Flags' /\ NoEarlyExit'
    BY DEF TypeOK, MainPhase, Flags, NoEarlyExit, Attached
  <2>3. ScanLoop' /\ Asleep' /\ ResetLoop' /\ Between'
    BY <2>0 DEF ScanLoop, Asleep, ResetLoop, Between
  <2> QED
    BY <2>1, <2>2, <2>3
<1>7. CASE TimerScan
  <2> DEFINE d == dev_list[cur]
  <2>0. /\ cur \in 1 .. Len(dev_list) /\ d \in Devices /\ tpc = "scan"
        /\ eventCount = cur - 1
    BY <1>7, <1>p DEF TimerScan, TypeOK, ScanLoop
  <2>1. UNCHANGED <<dev_list, done, fsh, time, timer_stop, pc, mpc>>
    BY <1>7 DEF TimerScan
  <2>2. CASE Busy(d)
    <3>1. UNCHANGED <<cur, fshCount, eventCount>> /\ tpc' = "event_wait"
      BY <1>7, <2>2 DEF TimerScan
    <3>2. TypeOK' /\ DistinctRecords'
      BY <2>1, <3>1 DEF TypeOK, DistinctRecords, TimerLocs
    <3>3. MainPhase' /\ Flags' /\ NoEarlyExit'
      BY <2>0, <2>1, <3>1 DEF MainPhase, Flags, NoEarlyExit, Attached
    <3>4. ScanLoop' /\ ResetLoop' /\ Between'
      BY <2>0, <2>1, <3>1 DEF ScanLoop, ResetLoop, Between, Seen
    <3>5. Asleep'
      BY <2>0, <2>1, <3>1, <2>2 DEF Asleep, Seen, Busy
    <3> QED
      BY <3>2, <3>3, <3>4, <3>5
  <2>3. CASE ~Busy(d)
    <3>1. /\ fshCount' = IF fsh[d] THEN fshCount + 1 ELSE fshCount
          /\ eventCount' = eventCount + 1
          /\ cur' = cur + 1
          /\ tpc' = "scan"
      BY <1>7, <2>3, <2>0 DEF TimerScan, CountFsh
    <3>2. Seen(d)
      BY <2>3 DEF Busy, Seen
    <3>3. TypeOK' /\ DistinctRecords'
      BY <2>0, <2>1, <3>1, <1>p DEF TypeOK, DistinctRecords, TimerLocs
    <3>4. MainPhase' /\ Flags' /\ NoEarlyExit'
      BY <2>0, <2>1, <3>1 DEF MainPhase, Flags, NoEarlyExit, Attached
    <3>5. ResetLoop' /\ Between' /\ Asleep'
      BY <3>1 DEF ResetLoop, Between, Asleep
    <3>6. \A j \in 1 .. cur' - 1 : Seen(dev_list[j])
      BY <2>0, <3>1, <3>2 DEF ScanLoop
    <3>7. fshCount' = eventCount' => fshCount = eventCount /\ fsh[d]
      BY <3>1 DEF TypeOK
    <3>8. fshCount' = eventCount' => \A j \in 1 .. cur' - 1 : fsh[dev_list[j]]
      BY <2>0, <3>1, <3>7 DEF ScanLoop
    <3>9. ScanLoop'
      BY <2>0, <2>1, <3>1, <3>6, <3>8 DEF ScanLoop, Seen
    <3> QED
      BY <3>3, <3>4, <3>5, <3>9
  <2> QED
    BY <2>2, <2>3
<1>8. CASE TimerTick
  <2> USE <1>8 DEF TimerTick
  <2>0. cur = Len(dev_list) + 1 /\ eventCount = Len(dev_list)
    BY <1>p DEF TypeOK, ScanLoop
  <2>1. TypeOK' /\ DistinctRecords'
    BY <1>p, TimerAssumption DEF TypeOK, DistinctRecords, TimerLocs
  <2>2. MainPhase' /\ Flags' /\ NoEarlyExit'
    BY DEF MainPhase, Flags, NoEarlyExit, Attached
  <2>3. ScanLoop' /\ Asleep' /\ ResetLoop' /\ Between'
    BY <2>0, <1>p DEF ScanLoop, Asleep, ResetLoop, Between, Seen
  <2> QED
    BY <2>1, <2>2, <2>3
<1>9. CASE TimerReset
  <2> DEFINE d == dev_list[cur]
  <2> USE <1>9 DEF TimerReset
  <2>0. cur \in 1 .. Len(dev_list) /\ d \in Devices
    BY <1>p DEF TypeOK
  <2>1. /\ done' = [done EXCEPT ![d] = FALSE]
        /\ pc' = IF pc[d] = "timer_wait" THEN [pc EXCEPT ![d] = "check"] ELSE pc
        /\ tpc' = tpc /\ tpc = "reset" /\ cur' = cur + 1
    BY DEF SignalTimer
  <2>2. TypeOK' /\ DistinctRecords'
    BY <2>0, <2>1, <1>p DEF TypeOK, DistinctRecords, DeviceLocs
  <2>3. Flags'
    BY <2>0, <2>1 DEF TypeOK, Flags
  <2>4. MainPhase' /\ NoEarlyExit'
    BY <2>0, <2>1 DEF TypeOK, MainPhase, NoEarlyExit, Attached
  <2>5. \A j \in cur + 1 .. Len(dev_list) : Seen(dev_list[j])'
    BY <2>0, <2>1, <1>p DEF ResetLoop, Seen, DistinctRecords, TypeOK
  <2>6. ScanLoop' /\ Asleep' /\ ResetLoop' /\ Between'
    BY <2>1, <2>5 DEF ScanLoop, Asleep, ResetLoop, Between
  <2> QED
    BY <2>2, <2>3, <2>4, <2>6
<1>10. CASE TimerRoundEnd
  <2> USE <1>10 DEF TimerRoundEnd
  <2>1. TypeOK' /\ DistinctRecords'
    BY <1>p DEF TypeOK, DistinctRecords, TimerLocs
  <2>2. Attached = Devices
    BY DEF MainPhase, TypeOK, MainLocs
  <2>3. NoEarlyExit'
    BY <2>2, <1>p DEF NoEarlyExit, ResetLoop
  <2>4. MainPhase' /\ Flags'
    BY DEF MainPhase, Flags, Attached
  <2>5. ScanLoop' /\ Asleep' /\ ResetLoop' /\ Between'
    BY DEF ScanLoop, Asleep, ResetLoop, Between
  <2> QED
    BY <2>1, <2>3, <2>4, <2>5
<1>11. CASE TimerSpuriousWakeup
  <2> USE <1>11 DEF TimerSpuriousWakeup
  <2>1. TypeOK' /\ DistinctRecords'
    BY DEF TypeOK, DistinctRecords, TimerLocs
  <2>2. MainPhase' /\ Flags' /\ NoEarlyExit'
    BY DEF MainPhase, Flags, NoEarlyExit, Attached
  <2>3. ScanLoop' /\ Asleep' /\ ResetLoop' /\ Between'
    BY DEF ScanLoop, Asleep, ResetLoop, Between, Seen
  <2> QED
    BY <2>1, <2>2, <2>3
<1>12. ASSUME NEW d \in Devices, NextSlotSignal(d) PROVE IInv'
  <2> USE <1>12 DEF NextSlotSignal
  <2>0. tpc' = IF tpc = "event_wait" /\ dev_list[cur] = d THEN "scan" ELSE tpc
    BY DEF SignalEvent
  <2>1. TypeOK' /\ DistinctRecords'
    BY <2>0 DEF TypeOK, DistinctRecords, TimerLocs, DeviceLocs
  <2>2. Flags' /\ NoEarlyExit'
    BY <2>0 DEF TypeOK, Flags, NoEarlyExit
  <2>3. MainPhase'
    BY <2>0 DEF TypeOK, MainPhase, Attached
  <2>4. \A e \in Devices : Seen(e) => Seen(e)'
    BY DEF Seen, TypeOK
  <2>5. Asleep'
    <3> SUFFICES ASSUME tpc' = "event_wait" PROVE Asleep'
      BY DEF Asleep
    <3>1. cur \in 1 .. Len(dev_list) /\ dev_list[cur] \in Devices
            /\ dev_list[cur] # d /\ ~Seen(dev_list[cur])
      BY <2>0, <1>p DEF Asleep, TypeOK
    <3> QED
      BY <3>1 DEF Asleep, Seen, TypeOK
  <2>6. ScanLoop' /\ ResetLoop'
    BY <2>0, <2>4, <1>p DEF ScanLoop, ResetLoop, TypeOK
  <2>7. Between'
    BY <2>0 DEF Between
  <2> QED
    BY <2>1, <2>2, <2>3, <2>5, <2>6, <2>7
<1>13. ASSUME NEW d \in Devices, NextSlotCheck(d) \/ DeviceSpuriousWakeup(d)
       PROVE  IInv'
  <2> USE <1>13 DEF NextSlotCheck, DeviceSpuriousWakeup
  <2>1. TypeOK' /\ DistinctRecords'
    BY DEF TypeOK, DistinctRecords, timerVars, DeviceLocs
  <2>2. MainPhase' /\ Flags' /\ NoEarlyExit'
    BY DEF TypeOK, MainPhase, Flags, NoEarlyExit, Attached, timerVars
  <2>3. ScanLoop' /\ Asleep' /\ ResetLoop' /\ Between'
    BY DEF ScanLoop, Asleep, ResetLoop, Between, timerVars, Seen
  <2> QED
    BY <2>1, <2>2, <2>3
<1>14. ASSUME NEW d \in Devices, Detach(d) PROVE IInv'
  <2> USE <1>14 DEF Detach
  <2>0. tpc' = IF tpc = "event_wait" /\ dev_list[cur] = d THEN "scan" ELSE tpc
    BY DEF SignalEvent
  <2>1. TypeOK' /\ DistinctRecords'
    BY <2>0 DEF TypeOK, DistinctRecords, TimerLocs, DeviceLocs
  <2>2. Flags' /\ NoEarlyExit'
    BY <2>0 DEF TypeOK, Flags, NoEarlyExit
  <2>3. MainPhase'
    BY <2>0 DEF TypeOK, MainPhase, Attached
  <2>4. \A e \in Devices : (Seen(e) => Seen(e)') /\ (fsh[e] => fsh'[e])
    BY DEF Seen, TypeOK
  <2>5. Asleep'
    <3> SUFFICES ASSUME tpc' = "event_wait" PROVE Asleep'
      BY DEF Asleep
    <3>1. cur \in 1 .. Len(dev_list) /\ dev_list[cur] \in Devices
            /\ dev_list[cur] # d /\ ~Seen(dev_list[cur])
      BY <2>0, <1>p DEF Asleep, TypeOK
    <3> QED
      BY <3>1 DEF Asleep, Seen, TypeOK
  <2>6. ScanLoop'
    <3> SUFFICES ASSUME tpc' \in {"scan", "event_wait"} PROVE ScanLoop'
      BY DEF ScanLoop
    <3>1. tpc \in {"scan", "event_wait"}
      BY <2>0
    <3>2. \A j \in 1 .. cur - 1 : dev_list[j] \in Devices
      BY <1>p DEF TypeOK
    <3>3. \A j \in 1 .. cur - 1 : Seen(dev_list[j])'
      BY <3>1, <3>2, <2>4 DEF ScanLoop
    <3>4. fshCount = eventCount => \A j \in 1 .. cur - 1 : fsh'[dev_list[j]]
      BY <3>1, <3>2, <2>4 DEF ScanLoop
    <3> QED
      BY <3>1, <3>3, <3>4 DEF ScanLoop
  <2>6a. ResetLoop'
    <3> SUFFICES ASSUME tpc' = "reset" PROVE ResetLoop'
      BY DEF ResetLoop
    <3>1. tpc = "reset"
      BY <2>0
    <3>2. \A j \in 1 .. Len(dev_list) : dev_list[j] \in Devices
      BY <1>p DEF TypeOK
    <3>3. \A j \in cur .. Len(dev_list) : Seen(dev_list[j])'
      BY <3>1, <3>2, <2>4 DEF ResetLoop, TypeOK
    <3>4. fshCount = eventCount => \A j \in 1 .. Len(dev_list) : fsh'[dev_list[j]]
      BY <3>1, <3>2, <2>4 DEF ResetLoop
    <3> QED
      BY <3>1, <3>3, <3>4 DEF ResetLoop
  <2>7. Between'
    BY <2>0 DEF Between
  <2> QED
    BY <2>1, <2>2, <2>3, <2>5, <2>6, <2>6a, <2>7
<1>15. CASE UNCHANGED vars
  BY <1>15 DEF vars, timerVars, TypeOK, DistinctRecords, MainPhase, Flags,
     ScanLoop, Asleep, ResetLoop, Between, NoEarlyExit, Attached, Seen
<1> QED
  BY <1>1, <1>2, <1>3, <1>4, <1>5, <1>6, <1>7, <1>8, <1>9, <1>10, <1>11,
     <1>12, <1>13, <1>14, <1>15
  DEF Next, MainStep, TimerStep, DeviceStep, Terminated

(* The invariant that all the theorems below come from.                    *)
THEOREM Invariance == Spec => []IInv
<1>1. Init => IInv
  BY InitIInv
<1>2. IInv /\ [Next]_vars => IInv'
  BY NextIInv
<1> QED
  BY <1>1, <1>2, PTL DEF Spec

-----------------------------------------------------------------------------
(* The list has one record per device while a device or the timer runs.    *)
LEMMA ListComplete ==
  IInv /\ tpc \notin {"new", "exited"} => Attached = Devices
  BY DEF IInv, MainPhase, TypeOK, MainLocs

(* Every variable of the timer keeps its type, and the counters and the    *)
(* position of timer_routine() stay within the list, for any devices.      *)
THEOREM TypeCorrect == Spec => []TypeOK
<1>1. IInv => TypeOK
  BY DEF IInv
<1> QED
  BY <1>1, Invariance, PTL

(* _time changes only when every device of the slot has reported: no       *)
(* device works across a tick.                                             *)
THEOREM Barrier == Spec => []SlotBarrier
<1>1. IInv => SlotBarrier
  <2> SUFFICES ASSUME IInv, tpc = "scan", cur > Len(dev_list), NEW d \in Devices
               PROVE  done[d] \/ fsh[d]
    BY DEF SlotBarrier
  <2>1. PICK i \in 1 .. Len(dev_list) : dev_list[i] = d
    BY ListComplete, LenProperties DEF IInv, TypeOK, Attached
  <2>2. Len(dev_list) \in Nat /\ i \in 1 .. cur - 1
    BY LenProperties DEF IInv, TypeOK
  <2> QED
    BY <2>1, <2>2 DEF IInv, ScanLoop, Seen
<1> QED
  BY <1>1, Invariance, PTL

(* A thread asleep on a condition variable has a reason to sleep, though   *)
(* done is set under one mutex and cleared under another.                  *)
THEOREM NoWakeupLost == Spec => []NoLostWakeup
<1>1. IInv => NoLostWakeup
  BY DEF IInv, NoLostWakeup, Asleep, Flags, Seen
<1> QED
  BY <1>1, Invariance, PTL

(* No deadlock, whatever the number of devices: if the timer sleeps, the   *)
(* device it sleeps on has neither reported nor left, so that its thread   *)
(* works or is still to be created; if the timer has ended, every device   *)
(* has left.                                                               *)
THEOREM NoDeadlock == Spec => []SomeoneAwake
<1>1. IInv => SomeoneAwake
  <2> SUFFICES ASSUME IInv, ~SomeoneAwake
               PROVE  FALSE
    OBVIOUS
  <2>1. /\ mpc \in {"join", "stop"}
        /\ tpc \in {"new", "event_wait", "exited"}
        /\ \A d \in Devices : pc[d] \notin {"work", "check"}
        /\ ~MainGoesOn
    BY DEF SomeoneAwake, MainGoesOn, IInv, TypeOK, MainLocs, TimerLocs
  <2>2. CASE tpc = "event_wait"
    <3> DEFINE d == dev_list[cur]
    <3>1. d \in Devices /\ ~done[d] /\ ~fsh[d]
      BY <2>2, ElementOfSeq DEF IInv, TypeOK, Asleep, Seen
    <3>2. pc[d] = "new"
      BY <2>1, <3>1 DEF IInv, TypeOK, DeviceLocs, Flags
    <3>3. mpc # "stop"
      BY <3>1, <3>2 DEF IInv, MainPhase
    <3> QED
      BY <2>1, <3>1, <3>2, <3>3 DEF MainGoesOn
  <2>3. CASE tpc = "exited"
    BY <2>1, <2>3 DEF IInv, NoEarlyExit, Flags, MainGoesOn
  <2>4. CASE tpc = "new"
    BY <2>1, <2>4 DEF IInv, MainPhase
  <2> QED
    BY <2>1, <2>2, <2>3, <2>4
<1> QED
  BY <1>1, Invariance, PTL

(* The timer thread outlives every device it serves.                       *)
THEOREM TimerLeavesLast == Spec => []NoEarlyExit
<1>1. IInv => NoEarlyExit
  BY DEF IInv
<1> QED
  BY <1>1, Invariance, PTL

(* stop_timer() frees the records when nobody can reach them any more.     *)
THEOREM RecordsOutliveUse == Spec => []NoUseAfterFree
<1>1. IInv => NoUseAfterFree
  <2> SUFFICES ASSUME IInv,
                      \/ tpc \notin {"new", "exited"}
                      \/ \E d \in Devices : pc[d] \in {"work", "check", "timer_wait"}
               PROVE  Attached = Devices
    BY DEF NoUseAfterFree
  <2>1. CASE tpc \notin {"new", "exited"}
    BY <2>1, ListComplete
  <2>2. CASE \E d \in Devices : pc[d] \in {"work", "check", "timer_wait"}
    BY <2>2 DEF IInv, MainPhase, TypeOK, MainLocs
  <2> QED
    BY <2>1, <2>2
<1> QED
  BY <1>1, Invariance, PTL

-----------------------------------------------------------------------------
(* Where the refinement mapping puts a device, in the two cases the proof  *)
(* distinguishes: the timer is releasing devices, or it is not.            *)
LEMMA PhaseWhenNotResetting ==
  ASSUME tpc # "reset", NEW d
  PROVE  PhaseOf(d) = IF fsh[d] THEN "finished"
                      ELSE IF done[d] THEN "waiting" ELSE "working"
  BY DEF PhaseOf, ToReset

(* A device that works is seen as working by its abstraction.              *)
LEMMA WorkingPhase ==
  ASSUME IInv, NEW d \in Devices, pc[d] = "work"
  PROVE  ~fsh[d] /\ ~done[d] /\ d \notin ToReset /\ PhaseOf(d) = "working"
<1>1. ~fsh[d] /\ ~done[d]
  BY DEF IInv, Flags
<1>2. d \notin ToReset
  BY <1>1 DEF IInv, ResetLoop, Seen, ToReset
<1> QED
  BY <1>1, <1>2 DEF PhaseOf

(* Steps that change neither a flag nor the set of devices still to be     *)
(* released leave the abstract clock alone.                                *)
LEMMA SamePhases ==
  ASSUME done' = done, fsh' = fsh, ToReset' = ToReset
  PROVE  [d \in Devices |-> PhaseOf(d)]' = [d \in Devices |-> PhaseOf(d)]
  BY DEF PhaseOf

(* The timer implements the barrier: each of its steps is a step of        *)
(* SlotClock, or leaves the slot counter and the phases as they are.       *)
THEOREM ImplementsClock == Spec => ClockRefinedSafe
<1> DEFINE ph == [d \in Devices |-> PhaseOf(d)]
<1>1. Init => Clock!ClockInit
  BY DEF Init, Clock!ClockInit, PhaseOf, ToReset
<1>2. IInv /\ IInv' /\ [Next]_vars => [Clock!ClockNext]_(Clock!clockVars)
  <2> SUFFICES ASSUME IInv, IInv', [Next]_vars
               PROVE  Clock!ClockNext \/ UNCHANGED <<time, ph>>
    BY DEF Clock!clockVars
  <2>p. /\ Len(dev_list) \in Nat
        /\ \A i \in 1 .. Len(dev_list) : dev_list[i] \in Devices
        /\ Attached = {dev_list[i] : i \in 1 .. Len(dev_list)}
    BY LenProperties, ElementOfSeq DEF IInv, TypeOK, Attached
  <2>1. ASSUME NEW d \in Devices, NextSlotSignal(d) PROVE Clock!NextSlot(d)
    <3>1. /\ done' = [done EXCEPT ![d] = TRUE] /\ fsh' = fsh /\ time' = time
          /\ dev_list' = dev_list /\ cur' = cur
          /\ tpc' = "reset" <=> tpc = "reset"
      BY <2>1 DEF NextSlotSignal, SignalEvent
    <3>2. ToReset' = ToReset
      BY <3>1 DEF ToReset
    <3>3. ~fsh[d] /\ ~done[d] /\ d \notin ToReset /\ PhaseOf(d) = "working"
      BY <2>1, WorkingPhase DEF NextSlotSignal
    <3>4. PhaseOf(d)' = "waiting"
      BY <3>1, <3>2, <3>3 DEF PhaseOf, IInv, TypeOK
    <3>5. \A e \in Devices : e # d => PhaseOf(e)' = PhaseOf(e)
      BY <3>1, <3>2 DEF PhaseOf, IInv, TypeOK
    <3>6. ph' = [ph EXCEPT ![d] = "waiting"]
      BY <3>4, <3>5
    <3> QED
      BY <3>1, <3>3, <3>6 DEF Clock!NextSlot
  <2>2. ASSUME NEW d \in Devices, Detach(d) PROVE Clock!DetachEvent(d)
    <3>1. /\ fsh' = [fsh EXCEPT ![d] = TRUE] /\ done' = done /\ time' = time
          /\ dev_list' = dev_list /\ cur' = cur
          /\ tpc' = "reset" <=> tpc = "reset"
      BY <2>2 DEF Detach, SignalEvent
    <3>2. ToReset' = ToReset
      BY <3>1 DEF ToReset
    <3>3. ~fsh[d] /\ PhaseOf(d) = "working"
      BY <2>2, WorkingPhase DEF Detach
    <3>4. PhaseOf(d)' = "finished"
      BY <3>1 DEF PhaseOf, IInv, TypeOK
    <3>5. \A e \in Devices : e # d => PhaseOf(e)' = PhaseOf(e)
      BY <3>1, <3>2 DEF PhaseOf, IInv, TypeOK
    <3>6. ph' = [ph EXCEPT ![d] = "finished"]
      BY <3>4, <3>5
    <3> QED
      BY <3>1, <3>3, <3>6 DEF Clock!DetachEvent
  <2>3. ASSUME TimerTick PROVE Clock!Tick
    <3>1. /\ tpc = "scan" /\ tpc' = "reset" /\ cur' = 1
          /\ dev_list' = dev_list /\ done' = done /\ fsh' = fsh
          /\ time' = IF time < TimeCap THEN time + 1 ELSE time
      BY <2>3 DEF TimerTick
    <3>2. Attached = Devices
      BY <3>1, ListComplete
    <3>3. \A d \in Devices : Seen(d)
      <4>1. cur = Len(dev_list) + 1
        BY <2>3, <2>p DEF TimerTick, IInv, TypeOK
      <4>2. \A j \in 1 .. Len(dev_list) : Seen(dev_list[j])
        BY <3>1, <4>1, <2>p DEF IInv, ScanLoop
      <4> QED
        BY <3>2, <4>2, <2>p
    <3>4. ToReset' = Devices
      BY <3>1, <3>2, <2>p DEF ToReset
    <3>5. \A d \in Devices :
            PhaseOf(d) = IF fsh[d] THEN "finished" ELSE "waiting"
      BY <3>1, <3>3, PhaseWhenNotResetting DEF Seen
    <3>6. \A d \in Devices :
            PhaseOf(d)' = IF fsh[d] THEN "finished" ELSE "working"
      BY <3>1, <3>4 DEF PhaseOf
    <3>7. ph' = [d \in Devices |->
                   IF ph[d] = "waiting" THEN "working" ELSE ph[d]]
      BY <3>5, <3>6
    <3> QED
      BY <3>1, <3>5, <3>7 DEF Clock!Tick, Clock!AdvanceTime
  <2>4. ASSUME TimerReset PROVE UNCHANGED <<time, ph>>
    <3> DEFINE d == dev_list[cur]
    <3>1. /\ tpc = "reset" /\ tpc' = "reset" /\ cur' = cur + 1
          /\ dev_list' = dev_list /\ fsh' = fsh /\ time' = time
          /\ done' = [done EXCEPT ![d] = FALSE]
      BY <2>4 DEF TimerReset
    <3>2. cur \in 1 .. Len(dev_list) /\ d \in Devices
      BY <2>4, <2>p DEF TimerReset, IInv, TypeOK
    <3>3. ToReset = ToReset' \cup {d} /\ d \notin ToReset'
      BY <3>1, <3>2, <2>p DEF ToReset, IInv, DistinctRecords
    <3>4. \A e \in Devices : PhaseOf(e)' = PhaseOf(e)
      BY <3>1, <3>2, <3>3 DEF PhaseOf, IInv, TypeOK
    <3> QED
      BY <3>1, <3>4
  <2>5. ASSUME TimerRoundEnd PROVE UNCHANGED <<time, ph>>
    <3>1. ToReset = {} /\ ToReset' = {}
      BY <2>5, <2>p DEF TimerRoundEnd, ToReset, IInv, TypeOK
    <3> QED
      BY <2>5, <3>1, SamePhases DEF TimerRoundEnd
  <2>6. ASSUME \/ \E d \in Devices : AttachEvent(d)
               \/ StartTimer \/ FreeDevices \/ TimerHead \/ TimerScan
               \/ TimerSpuriousWakeup
        PROVE  UNCHANGED <<time, ph>>
    <3>1. tpc # "reset" /\ tpc' # "reset"
      BY <2>6 DEF AttachEvent, StartTimer, FreeDevices, TimerHead, TimerScan,
         TimerSpuriousWakeup, timerVars, IInv, MainPhase
    <3>2. done' = done /\ fsh' = fsh /\ time' = time
      BY <2>6 DEF AttachEvent, StartTimer, FreeDevices, TimerHead, TimerScan,
         TimerSpuriousWakeup
    <3> QED
      BY <3>1, <3>2, SamePhases DEF ToReset
  <2>7. ASSUME \/ \E d \in Devices :
                    CreateThread(d) \/ NextSlotCheck(d) \/ DeviceSpuriousWakeup(d)
               \/ StopTimer
               \/ UNCHANGED vars
        PROVE  UNCHANGED <<time, ph>>
    <3>1. UNCHANGED <<done, fsh, time, dev_list, tpc, cur>>
      BY <2>7 DEF CreateThread, StopTimer, NextSlotCheck, DeviceSpuriousWakeup,
         vars, timerVars
    <3> QED
      BY <3>1, SamePhases DEF ToReset
  <2> QED
    BY <2>1, <2>2, <2>3, <2>4, <2>5, <2>6, <2>7
    DEF Next, MainStep, TimerStep, DeviceStep, Terminated, Clock!ClockNext
<1> QED
  BY <1>1, <1>2, Invariance, PTL DEF Spec, ClockRefinedSafe, Clock!ClockSpec
=============================================================================
