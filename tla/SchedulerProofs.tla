---------------------------- MODULE SchedulerProofs ----------------------------
(***************************************************************************)
(* What the ready queues and the CPUs do for the processes, for every      *)
(* number of them: nobody is overtaken in a queue, no CPU idles beside     *)
(* waiting work, and a process gets one instruction in a slot and one      *)
(* quantum in a turn.                                                      *)
(***************************************************************************)
EXTENDS OSProofs, Turns

-----------------------------------------------------------------------------
(* A queue changes at its ends only.                                       *)

LEMMA PutKeepsOrder ==
  ASSUME TypeOK, NEW r \in Procs, ~Queued(r), PutProc(r),
         NEW k \in Prios, NEW p \in Procs, NEW q \in Procs, Waits(k, p)
  PROVE  /\ Ahead(k, q, p)' => Ahead(k, q, p)
         /\ Ahead(k, p, q) => Ahead(k, p, q)'
<1> DEFINE l == job[r].prio
<1>t. ready \in [Prios -> Seq(Procs)] /\ l \in Prios
  BY JobTypes DEF TypeOK
<1>1. ready' = [ready EXCEPT ![l] = Enqueue(ready[l], r)]
  BY DEF PutProc
<1> HIDE DEF l
<1>2. CASE ready'[k] = ready[k]
  BY <1>2 DEF Ahead
<1>3. CASE k = l /\ Len(ready[l]) < MaxQueue
  <2>1. ready'[k] = Append(ready[k], r) /\ ready[k] \in Seq(Procs)
    BY <1>1, <1>3, <1>t DEF Enqueue
  <2>2. /\ DOMAIN ready[k] = 1 .. Len(ready[k]) /\ Len(ready[k]) \in Nat
        /\ DOMAIN ready'[k] = 1 .. Len(ready[k]) + 1
        /\ \A i \in 1 .. Len(ready[k]) : ready'[k][i] = ready[k][i]
        /\ ready'[k][Len(ready[k]) + 1] = r
    BY <2>1
  <2>3. ASSUME Ahead(k, q, p)' PROVE Ahead(k, q, p)
    <3>1. PICK i \in DOMAIN ready'[k], j \in DOMAIN ready'[k] :
            i < j /\ ready'[k][i] = q /\ ready'[k][j] = p
      BY <2>3 DEF Ahead
    <3>2. p # r
      BY DEF Waits, Queued
    <3>3. j \in 1 .. Len(ready[k]) /\ i \in 1 .. Len(ready[k])
      BY <2>2, <3>1, <3>2
    <3> QED
      BY <2>2, <3>1, <3>3 DEF Ahead
  <2>4. ASSUME Ahead(k, p, q) PROVE Ahead(k, p, q)'
    <3>1. PICK i \in DOMAIN ready[k], j \in DOMAIN ready[k] :
            i < j /\ ready[k][i] = p /\ ready[k][j] = q
      BY <2>4 DEF Ahead
    <3>2. /\ i \in DOMAIN ready'[k] /\ j \in DOMAIN ready'[k]
          /\ ready'[k][i] = p /\ ready'[k][j] = q
      BY <2>2, <3>1
    <3> QED
      BY <3>1, <3>2 DEF Ahead
  <2>5. QED
    BY <2>3, <2>4
<1>4. QED
  BY <1>1, <1>2, <1>3, <1>t DEF Enqueue

(* dequeue() takes the head, so that nobody leaves before it.              *)
LEMMA GetKeepsOrder ==
  ASSUME TypeOK, QueuedOnce, NEW c \in CPUs, GetProc(c),
         NEW k \in Prios, NEW p \in Procs, NEW q \in Procs, Waits(k, p)'
  PROVE  /\ Ahead(k, q, p)' => Ahead(k, q, p)
         /\ Ahead(k, p, q) => Ahead(k, p, q)'
<1>t. ready \in [Prios -> Seq(Procs)]
  BY DEF TypeOK
<1>1. CASE ready'[k] = ready[k]
  BY <1>1 DEF Ahead
<1>2. CASE ~Empty(ready[k]) /\ ready'[k] = Tail(ready[k])
  <2>1. /\ DOMAIN ready[k] = 1 .. Len(ready[k]) /\ Len(ready[k]) \in Nat \ {0}
        /\ DOMAIN ready'[k] = 1 .. Len(ready[k]) - 1
        /\ \A i \in 1 .. Len(ready[k]) - 1 : ready'[k][i] = ready[k][i + 1]
    BY <1>2, <1>t DEF Empty
  <2>2. ASSUME Ahead(k, q, p)' PROVE Ahead(k, q, p)
    <3>1. PICK i \in DOMAIN ready'[k], j \in DOMAIN ready'[k] :
            i < j /\ ready'[k][i] = q /\ ready'[k][j] = p
      BY <2>2 DEF Ahead
    <3>2. /\ i + 1 \in 1 .. Len(ready[k]) /\ j + 1 \in 1 .. Len(ready[k]) /\ i + 1 < j + 1
          /\ ready[k][i + 1] = q /\ ready[k][j + 1] = p
      BY <2>1, <3>1
    <3> QED
      BY <2>1, <3>2 DEF Ahead
  <2>3. ASSUME Ahead(k, p, q) PROVE Ahead(k, p, q)'
    <3>1. PICK i \in DOMAIN ready[k], j \in DOMAIN ready[k] :
            i < j /\ ready[k][i] = p /\ ready[k][j] = q
      BY <2>3 DEF Ahead
    <3>2. PICK m \in DOMAIN ready'[k] : ready'[k][m] = p
      BY DEF Waits
    <3>3. m + 1 \in DOMAIN ready[k] /\ ready[k][m + 1] = p
      BY <2>1, <3>2
    <3>4. i = m + 1
      BY <3>1, <3>3 DEF QueuedOnce
    <3>5. /\ i - 1 \in DOMAIN ready'[k] /\ j - 1 \in DOMAIN ready'[k] /\ i - 1 < j - 1
          /\ ready'[k][i - 1] = p /\ ready'[k][j - 1] = q
      BY <2>1, <3>1, <3>2, <3>4
    <3> QED
      BY <3>5 DEF Ahead
  <2>4. QED
    BY <2>2, <2>3
<1>3. QED
  BY <1>1, <1>2, <1>t DEF GetProc

LEMMA StepKeepsOrder ==
  ASSUME IInv, [Next]_vars, NEW k \in Prios, NEW p \in Procs, NEW q \in Procs,
         Waits(k, p), Waits(k, p)'
  PROVE  /\ Ahead(k, q, p)' => Ahead(k, q, p)
         /\ Ahead(k, p, q) => Ahead(k, p, q)'
<1> DEFINE Kept == /\ Ahead(k, q, p)' => Ahead(k, q, p)
                   /\ Ahead(k, p, q) => Ahead(k, p, q)'
<1>1. CASE UNCHANGED ready
  BY <1>1 DEF Ahead
<1>2. CASE LdAdd
  <2>1. PutProc(ldNext) /\ ldNext \in Procs /\ ~Queued(ldNext)
    BY <1>2, OSAssumption
       DEF LdAdd, LdAt, IInv, TypeOK, LoaderPlace, Places, NewNowhere, Procs
  <2>2. QED
    BY <2>1, PutKeepsOrder DEF IInv
<1>3. ASSUME NEW c \in CPUs, CpuPut(c) PROVE Kept
  <2>1. PutProc(proc[c]) /\ proc[c] \in Procs /\ ~Queued(proc[c])
    BY <1>3 DEF CpuPut, IInv, TypeOK, Places, Apart, Held
  <2>2. QED
    BY <2>1, PutKeepsOrder DEF IInv
<1>4. ASSUME NEW c \in CPUs, CpuIdle(c) \/ CpuFetch(c) PROVE Kept
  BY <1>4, GetKeepsOrder DEF CpuIdle, CpuFetch, IInv, Places
<1>5. ASSUME NEW c \in CPUs, CpuStep(c), ~CpuPut(c), ~CpuIdle(c), ~CpuFetch(c)
      PROVE  UNCHANGED ready
  BY <1>5 DEF CpuStep, CpuFinish, CpuStop, CpuSkip, CpuRun, CpuNextSlot
<1>6. ASSUME LdStep, ~LdAdd PROVE UNCHANGED ready
  BY <1>6 DEF LdStep, LdLoad, LdWait, LdNextSlot, LdDone, LdDetach
<1>7. CASE TimerRound \/ MainReturns \/ UNCHANGED vars
  BY <1>1, <1>7 DEF TimerRound, MainReturns, vars
<1>8. QED
  BY <1>1, <1>2, <1>3, <1>4, <1>5, <1>6, <1>7 DEF Next

(* enqueue() and dequeue() are a FIFO, whichever threads call them: while  *)
(* a process waits, no other one gets ahead of it, and none that is behind *)
(* it is taken.                                                            *)
THEOREM FirstComeFirstServed == Spec => NoOvertaking
<1>1. IInv /\ [Next]_vars =>
        [\A k \in Prios : \A p, q \in Procs :
           Waits(k, p) /\ Waits(k, p)' =>
             /\ Ahead(k, q, p)' => Ahead(k, q, p)
             /\ Ahead(k, p, q) => Ahead(k, p, q)']_vars
  BY StepKeepsOrder
<1>2. QED
  BY Invariance, <1>1, PTL DEF Spec, NoOvertaking

-----------------------------------------------------------------------------
(* Work conservation                                                       *)

(* A CPU that has found the queues empty in this slot, or has stopped.     *)
GaveUp(c) ==
  /\ proc[c] = NoProc
  /\ loc[c] \in {"recheck", "end", "stopped"} \/ phase[c] = "waiting"

(* What the queues can hold beside such a CPU: what the CPUs that have     *)
(* still to call get_proc() have put there before it, and what the loader  *)
(* has added in this slot.                                                 *)
Waiting == {p \in Procs : Queued(p)}
Fetching == {c \in CPUs : loc[c] = "fetch"}
LoaderAdded == ldLoc = "end" \/ (ldLoc = "load" /\ phase[Loader] = "waiting")
Added == IF LoaderAdded THEN 1 ELSE 0

Covered ==
  (\E c \in CPUs : GaveUp(c)) =>
    Cardinality(Waiting) <= Cardinality(Fetching) + Added

(* Between its last change to the queues and its next_slot() the loader    *)
(* works.                                                                  *)
LoaderBusy == ldLoc = "end" => phase[Loader] = "working"

WInv == IInv /\ Covered /\ LoaderBusy

LEMMA Finite ==
  /\ IsFiniteSet(Waiting) /\ Cardinality(Waiting) \in Nat
  /\ IsFiniteSet(Fetching) /\ Cardinality(Fetching) \in Nat
<1>1. IsFiniteSet(Procs)
  BY FS_Interval, OSAssumption DEF Procs
<1>2. IsFiniteSet(Waiting)
  BY <1>1, FS_Subset DEF Waiting
<1>3. IsFiniteSet(Fetching)
  BY OSAssumption, FS_Subset DEF Fetching
<1>4. QED
  BY <1>2, <1>3, FS_CardinalityType

LEMMA FiniteNext ==
  /\ IsFiniteSet(Waiting') /\ Cardinality(Waiting') \in Nat
  /\ IsFiniteSet(Fetching') /\ Cardinality(Fetching') \in Nat
<1>1. IsFiniteSet(Procs)
  BY FS_Interval, OSAssumption DEF Procs
<1>2. IsFiniteSet(Waiting')
  BY <1>1, FS_Subset DEF Waiting
<1>3. IsFiniteSet(Fetching')
  BY OSAssumption, FS_Subset DEF Fetching
<1>4. QED
  BY <1>2, <1>3, FS_CardinalityType

LEMMA InitCovered == Init => Covered /\ LoaderBusy
<1> SUFFICES ASSUME Init PROVE Covered /\ LoaderBusy
  OBVIOUS
<1>1. \A c \in CPUs : ~GaveUp(c)
  BY OSAssumption DEF Init, ClockInit, GaveUp
<1>2. QED
  BY <1>1 DEF Covered, LoaderBusy, Init

(* A CPU that calls get_proc() empties the queues of one process, or finds *)
(* them empty.                                                             *)
LEMMA GetCovered ==
  ASSUME WInv, NEW c \in CPUs, CpuIdle(c) \/ CpuFetch(c)
  PROVE  Covered'
<1>1. /\ GetProc(c) /\ UNCHANGED <<phase, ldLoc>> /\ loc[c] \in {"top", "fetch"}
      /\ phase[c] = "working"
      /\ \/ loc' = [loc EXCEPT ![c] = "end"] /\ proc'[c] = NoProc
         \/ loc' = [loc EXCEPT ![c] = "recheck"]
      /\ loc[c] = "top" => CpuIdle(c)
  BY DEF CpuIdle, CpuFetch, At, Goto, ldVars
<1>t. /\ loc \in [CPUs -> CpuLocs]
      /\ proc \in [CPUs -> Procs \cup {NoProc}] /\ NoProc \notin Procs
  BY OSAssumption DEF WInv, IInv, TypeOK
<1>2. \/ /\ proc' = [proc EXCEPT ![c] = NoProc]
         /\ \A q \in Procs : ~Queued(q) /\ ~Queued(q)'
      \/ \E p \in Procs :
           /\ proc' = [proc EXCEPT ![c] = p]
           /\ Queued(p) /\ ~Queued(p)'
           /\ \A q \in Procs : q # p => (Queued(q)' <=> Queued(q))
  BY <1>1, GetQueues DEF WInv, IInv, Places
<1>3. CASE \A q \in Procs : ~Queued(q)'
  <2>1. Waiting' = {}
    BY <1>3 DEF Waiting
  <2>2. Cardinality(Waiting') = 0
    BY <2>1, FS_EmptySet
  <2>3. QED
    BY <2>2, FiniteNext DEF Covered, Added
<1>4. ASSUME NEW p \in Procs, proc' = [proc EXCEPT ![c] = p],
             Queued(p), ~Queued(p)',
             \A q \in Procs : q # p => (Queued(q)' <=> Queued(q))
      PROVE  Covered'
  <2>1. Waiting' = Waiting \ {p} /\ p \in Waiting
    BY <1>4 DEF Waiting
  <2>2. Cardinality(Waiting') = Cardinality(Waiting) - 1
    BY <2>1, Finite, FS_RemoveElement
  <2>3. loc' = [loc EXCEPT ![c] = "recheck"]
    BY <1>1, <1>4, <1>t
  <2>4. Fetching' = Fetching \ {c}
    BY <2>3, <1>t DEF Fetching
  <2>5. Cardinality(Fetching') >= Cardinality(Fetching) - 1
    <3>1. CASE c \in Fetching
      <4>1. Cardinality(Fetching \ {c}) = Cardinality(Fetching) - 1
        BY <3>1, Finite, FS_RemoveElement
      <4>2. QED
        BY <2>4, <4>1, Finite
    <3>2. CASE c \notin Fetching
      <4>1. Fetching' = Fetching
        BY <2>4, <3>2
      <4>2. QED
        BY <4>1, Finite
    <3>3. QED
      BY <3>1, <3>2
  <2>6. \A d \in CPUs : GaveUp(d)' => GaveUp(d)
    BY <1>1, <1>4, <1>t, <2>3 DEF GaveUp
  <2>7. Added' = Added
    BY <1>1 DEF Added, LoaderAdded
  <2>8. QED
    BY <2>2, <2>5, <2>6, <2>7, Finite, FiniteNext DEF WInv, Covered, Added
<1>5. QED
  BY <1>2, <1>3, <1>4

(* A CPU that puts its process back, or frees it, is going to call         *)
(* get_proc() itself.                                                      *)
LEMMA LetGoCovered ==
  ASSUME WInv, NEW c \in CPUs, CpuPut(c) \/ CpuFinish(c)
  PROVE  Covered'
<1>1. /\ loc[c] = "top" /\ loc' = [loc EXCEPT ![c] = "fetch"]
      /\ proc[c] # NoProc /\ proc' = [proc EXCEPT ![c] = NoProc]
      /\ phase[c] = "working" /\ UNCHANGED <<phase, ldLoc>>
      /\ PutProc(proc[c]) \/ UNCHANGED ready
  BY DEF CpuPut, CpuFinish, At, Goto, ldVars
<1>t. /\ loc \in [CPUs -> CpuLocs]
      /\ proc \in [CPUs -> Procs \cup {NoProc}] /\ NoProc \notin Procs
  BY OSAssumption DEF WInv, IInv, TypeOK
<1>2. PICK p \in Procs : p = proc[c]
  BY <1>1, <1>t
<1>3. Fetching' = Fetching \cup {c} /\ c \notin Fetching
  BY <1>1, <1>t DEF Fetching
<1>4. Cardinality(Fetching') = Cardinality(Fetching) + 1
  BY <1>3, Finite, FS_AddElement
<1>5. ~Queued(p)
  BY <1>2 DEF WInv, IInv, Places, Apart, Held
<1>6. Waiting' \subseteq Waiting \cup {p}
  <2>1. CASE UNCHANGED ready
    BY <2>1 DEF Waiting, Queued
  <2>2. CASE PutProc(p)
    BY <1>5, <2>2, PutQueues DEF Waiting, WInv, IInv, Places
  <2>3. QED
    BY <1>1, <1>2, <2>1, <2>2
<1>7. Cardinality(Waiting') <= Cardinality(Waiting) + 1
  <2>1. /\ IsFiniteSet(Waiting \cup {p})
        /\ Cardinality(Waiting \cup {p}) = Cardinality(Waiting) + 1
    BY <1>5, Finite, FS_AddElement DEF Waiting
  <2>2. QED
    BY <1>6, <2>1, FS_Subset
<1>8. \A d \in CPUs : GaveUp(d)' => GaveUp(d)
  BY <1>1, <1>t DEF GaveUp
<1>9. Added' = Added
  BY <1>1 DEF Added, LoaderAdded
<1>10. QED
  BY <1>4, <1>7, <1>8, <1>9, Finite, FiniteNext DEF WInv, Covered, Added

(* What the loader adds is what it is counted for.                         *)
LEMMA AddCovered == ASSUME WInv, LdAdd PROVE Covered'
<1>1. /\ ldLoc = "wait" /\ ldLoc' = "end" /\ PutProc(ldNext)
      /\ UNCHANGED <<phase, loc, proc>>
  BY DEF LdAdd, LdAt, cpuVars
<1>2. PICK p \in Procs : p = ldNext
  BY <1>1, OSAssumption DEF WInv, IInv, TypeOK, LoaderPlace, Procs
<1>3. ~Queued(p)
  BY <1>2 DEF WInv, IInv, Places, NewNowhere, Procs
<1>4. Waiting' \subseteq Waiting \cup {p}
  BY <1>1, <1>2, <1>3, PutQueues DEF Waiting, WInv, IInv, Places
<1>5. Cardinality(Waiting') <= Cardinality(Waiting) + 1
  <2>1. /\ IsFiniteSet(Waiting \cup {p})
        /\ Cardinality(Waiting \cup {p}) = Cardinality(Waiting) + 1
    BY <1>3, Finite, FS_AddElement DEF Waiting
  <2>2. QED
    BY <1>4, <2>1, FS_Subset
<1>6. Added = 0 /\ Added' = 1
  BY <1>1 DEF Added, LoaderAdded
<1>7. Fetching' = Fetching
  BY <1>1 DEF Fetching
<1>8. \A d \in CPUs : GaveUp(d)' => GaveUp(d)
  BY <1>1 DEF GaveUp
<1>9. QED
  BY <1>5, <1>6, <1>7, <1>8, Finite, FiniteNext DEF WInv, Covered

(* A new slot begins with nobody having given up, but for CPUs that have   *)
(* stopped; and then the loader adds nothing any more.                     *)
LEMMA TimerCovered == ASSUME WInv, TimerRound PROVE Covered'
<1>1. /\ \A d \in Devices : phase[d] # "working"
      /\ phase' = [d \in Devices |->
                     IF phase[d] = "waiting" THEN "working" ELSE phase[d]]
      /\ UNCHANGED <<ready, loc, proc, ldLoc>>
  BY DEF TimerRound, Tick, cpuVars, ldVars
<1>2. /\ CPUs \subseteq Devices /\ Loader \in Devices
      /\ phase \in [Devices -> Phases]
      /\ loc \in [CPUs -> CpuLocs]
  BY OSAssumption DEF WInv, IInv, TypeOK, ClockTypeOK
<1>3. SUFFICES ASSUME NEW c \in CPUs, GaveUp(c)'
               PROVE  Cardinality(Waiting') <= Cardinality(Fetching') + Added'
  BY DEF Covered
<1>4. loc[c] = "stopped" /\ proc[c] = NoProc
  BY <1>1, <1>2, <1>3 DEF GaveUp, WInv, IInv, CpuPlace, Phases, CpuLocs
<1>5. ldLoc \in {"detach", "stopped"}
  BY <1>4 DEF WInv, IInv, CpuPlace, LoaderPlace
<1>6. Added = 0 /\ Added' = 0
  BY <1>1, <1>5 DEF Added, LoaderAdded
<1>7. Waiting' = Waiting /\ Fetching' = Fetching
  BY <1>1 DEF Waiting, Fetching, Queued
<1>8. GaveUp(c)
  BY <1>4 DEF GaveUp
<1>9. QED
  BY <1>6, <1>7, <1>8 DEF WInv, Covered

(* The other steps change neither side.                                    *)
LEMMA RestCovered ==
  ASSUME WInv, UNCHANGED ready, Fetching' = Fetching, Added' = Added,
         \A c \in CPUs : GaveUp(c)' => GaveUp(c)
  PROVE  Covered'
<1>1. Waiting' = Waiting
  BY DEF Waiting, Queued
<1>2. QED
  BY <1>1 DEF WInv, Covered

LEMMA CpuCovered ==
  ASSUME WInv, NEW c \in CPUs, CpuStop(c) \/ CpuSkip(c) \/ CpuRun(c) \/ CpuNextSlot(c)
  PROVE  Covered'
<1>1. /\ UNCHANGED <<ready, proc, ldLoc>> /\ phase[c] = "working"
      /\ phase' = phase \/ \E x \in Phases : phase' = [phase EXCEPT ![c] = x]
      /\ \/ /\ loc[c] = "recheck" /\ proc[c] = NoProc
            /\ \E x \in {"end", "stopped"} : loc' = [loc EXCEPT ![c] = x]
         \/ /\ loc[c] = "end" /\ loc' = [loc EXCEPT ![c] = "top"]
         \/ /\ loc[c] \in {"top", "recheck"} /\ proc[c] # NoProc
            /\ loc' = [loc EXCEPT ![c] = "end"]
  BY DEF CpuStop, CpuSkip, CpuRun, CpuNextSlot, At, Goto, ldVars, DetachEvent,
     NextSlot, Phases
<1>2. /\ loc \in [CPUs -> CpuLocs] /\ phase \in [Devices -> Phases]
      /\ c # Loader /\ c \in Devices /\ Loader \in Devices /\ CPUs \subseteq Devices
  BY OSAssumption DEF WInv, IInv, TypeOK, ClockTypeOK
<1>3. Fetching' = Fetching
  BY <1>1, <1>2 DEF Fetching
<1>4. phase'[Loader] = phase[Loader]
  BY <1>1, <1>2
<1>5. Added' = Added
  BY <1>1, <1>4 DEF Added, LoaderAdded
<1>6. \A d \in CPUs : GaveUp(d)' => GaveUp(d)
  <2> SUFFICES ASSUME NEW d \in CPUs, GaveUp(d)' PROVE GaveUp(d)
    OBVIOUS
  <2>1. CASE d = c
    BY <1>1, <2>1 DEF GaveUp
  <2>2. CASE d # c
    <3>1. loc'[d] = loc[d] /\ phase'[d] = phase[d]
      BY <1>1, <1>2, <2>2
    <3>2. QED
      BY <1>1, <3>1 DEF GaveUp
  <2>3. QED
    BY <2>1, <2>2
<1>7. QED
  BY <1>1, <1>3, <1>5, <1>6, RestCovered

LEMMA LoaderCovered ==
  ASSUME WInv, LdLoad \/ LdWait \/ LdNextSlot \/ LdDone \/ LdDetach
  PROVE  Covered'
<1>1. /\ UNCHANGED <<ready, loc, proc>> /\ phase[Loader] = "working"
      /\ \/ ldLoc = "load" /\ ldLoc' \in {"wait", "detach"} /\ phase' = phase
         \/ ldLoc = "wait" /\ ldLoc' = "wait" /\ NextSlot(Loader)
         \/ ldLoc = "end" /\ ldLoc' = "load" /\ NextSlot(Loader)
         \/ ldLoc = "detach" /\ ldLoc' = "stopped" /\ DetachEvent(Loader)
  BY DEF LdLoad, LdWait, LdNextSlot, LdDone, LdDetach, LdAt, cpuVars, ldVars
<1>2. /\ phase \in [Devices -> Phases] /\ Loader \in Devices
      /\ Loader \notin CPUs /\ CPUs \subseteq Devices
  BY OSAssumption DEF WInv, IInv, TypeOK, ClockTypeOK
<1>3. \A c \in CPUs : phase'[c] = phase[c]
  BY <1>1, <1>2 DEF NextSlot, DetachEvent
<1>4. Fetching' = Fetching /\ \A c \in CPUs : GaveUp(c)' => GaveUp(c)
  BY <1>1, <1>3 DEF Fetching, GaveUp
<1>5. Added' = Added
  <2>1. LoaderAdded' <=> LoaderAdded
    BY <1>1, <1>2 DEF LoaderAdded, NextSlot, DetachEvent
  <2>2. QED
    BY <2>1 DEF Added
<1>6. QED
  BY <1>1, <1>4, <1>5, RestCovered

LEMMA NextWInv == WInv /\ [Next]_vars => WInv'
<1> SUFFICES ASSUME WInv, [Next]_vars PROVE WInv'
  OBVIOUS
<1>1. IInv'
  BY NextIInv DEF WInv
<1>2. LoaderBusy'
  <2>t. Loader \in Devices /\ Loader \notin CPUs
    BY OSAssumption
  <2>1. CASE TimerRound
    BY <2>1, <2>t DEF TimerRound, Tick, ldVars, WInv, LoaderBusy, IInv, TypeOK, ClockTypeOK
  <2>2. CASE LdStep
    BY <2>2, <2>t DEF LdStep, LdLoad, LdWait, LdAdd, LdNextSlot, LdDone, LdDetach, LdAt,
       ldVars, LoaderBusy
  <2>3. ASSUME NEW c \in CPUs, CpuStep(c) PROVE LoaderBusy'
    <3>1. ldLoc' = ldLoc /\ \/ phase' = phase
                            \/ \E x \in Phases : phase' = [phase EXCEPT ![c] = x]
      BY <2>3 DEF CpuStep, CpuIdle, CpuFinish, CpuPut, CpuFetch, CpuStop, CpuSkip,
         CpuRun, CpuNextSlot, ldVars, NextSlot, DetachEvent, Phases
    <3>2. phase'[Loader] = phase[Loader]
      BY <3>1, <2>t DEF WInv, IInv, TypeOK, ClockTypeOK
    <3>3. QED
      BY <3>1, <3>2 DEF WInv, LoaderBusy
  <2>4. CASE UNCHANGED vars
    BY <2>4 DEF vars, ldVars, WInv, LoaderBusy
  <2>5. QED
    BY <2>1, <2>2, <2>3, <2>4 DEF Next, MainReturns
<1>3. Covered'
  <2>1. CASE TimerRound
    BY <2>1, TimerCovered
  <2>2. CASE LdStep
    BY <2>2, AddCovered, LoaderCovered DEF LdStep
  <2>3. ASSUME NEW c \in CPUs, CpuStep(c) PROVE Covered'
    BY <2>3, GetCovered, LetGoCovered, CpuCovered DEF CpuStep
  <2>4. CASE UNCHANGED vars
    <3>1. UNCHANGED <<ready, loc, proc, phase, ldLoc>>
      BY <2>4 DEF vars, cpuVars, ldVars
    <3>2. QED
      BY <3>1, RestCovered DEF Fetching, Added, LoaderAdded, GaveUp
  <2>5. QED
    BY <2>1, <2>2, <2>3, <2>4 DEF Next, MainReturns
<1>4. QED
  BY <1>1, <1>2, <1>3 DEF WInv

(* When a slot ends with a CPU that has nothing to run, one process is     *)
(* queued at most, and only if the loader has added one in that slot: each *)
(* get_proc() and put_proc() of the others leaves the queues no longer     *)
(* than they were.                                                         *)
THEOREM NoIdleBesideWork == Spec => []WorkConserving
<1>1. Init => WInv
  BY InitIInv, InitCovered DEF WInv
<1>2. WInv => WorkConserving
  <2> SUFFICES ASSUME WInv, \A d \in Devices : phase[d] # "working",
                      NEW c \in CPUs, proc[c] = NoProc,
                      NEW p \in Procs, NEW q \in Procs, Queued(p), Queued(q)
               PROVE  p = q /\ ldLoc = "load"
    BY DEF WorkConserving
  <2>1. /\ phase \in [Devices -> Phases] /\ loc \in [CPUs -> CpuLocs]
        /\ CPUs \subseteq Devices /\ Loader \in Devices
    BY OSAssumption DEF WInv, IInv, TypeOK, ClockTypeOK
  <2>2. \A d \in CPUs : loc[d] = "stopped" \/ (loc[d] = "top" /\ phase[d] = "waiting")
    BY <2>1 DEF WInv, IInv, CpuPlace, Phases
  <2>3. GaveUp(c)
    BY <2>2 DEF GaveUp
  <2>4. Fetching = {}
    BY <2>2 DEF Fetching
  <2>5. Cardinality(Waiting) <= Added
    BY <2>3, <2>4, FS_EmptySet, Finite DEF WInv, Covered, Added
  <2>6. p \in Waiting /\ q \in Waiting
    BY DEF Waiting
  <2>7. Cardinality(Waiting) = 1 /\ Added = 1
    <3>1. Cardinality(Waiting) # 0
      BY <2>6, Finite, FS_EmptySet
    <3>2. QED
      BY <2>5, <3>1, Finite DEF Added
  <2>8. p = q
    <3>1. PICK x : Waiting = {x}
      BY <2>7, Finite, FS_Singleton
    <3>2. QED
      BY <2>6, <3>1
  <2>9. ldLoc = "load"
    BY <2>1, <2>7 DEF Added, LoaderAdded, WInv, LoaderBusy
  <2>10. QED
    BY <2>8, <2>9
<1>3. QED
  BY <1>1, <1>2, NextWInv, PTL DEF Spec

-----------------------------------------------------------------------------
(* Turns.  A process that has executed an instruction in this slot stays   *)
(* with its CPU until the slot is over, so that no other CPU can give it a *)
(* second one; and what it has executed there and what is left of the      *)
(* quantum are the quantum.                                                *)

(* CPU c has had its turn in this slot.                                    *)
Served(c) == loc[c] = "end" \/ phase[c] = "waiting"

RanStay == \A p \in ran : \E c \in CPUs : proc[c] = p /\ Served(c)

QueuedFresh == \A p \in Procs : Queued(p) => turn[p] = 0

(* A process without code is dispatched, too, and executes nothing.        *)
Shared(c, p) ==
  IF loc[c] = "recheck" THEN turn[p] = 0 /\ time_left[c] = 0
  ELSE turn[p] + time_left[c] = TimeSlot \/ (Finished(p) /\ turn[p] = 0)

QuantumShared == \A c \in CPUs : \A p \in Procs : proc[c] = p => Shared(c, p)

(* What the loader has added has reached its start time.                   *)
Started == \A p \in Procs : p < ldNext => time >= job[p].start

TurnsTypeOK == ran \subseteq Procs /\ turn \in [Procs -> Nat]

TurnsInv ==
  /\ IInv
  /\ TurnsTypeOK
  /\ RanStay
  /\ QueuedFresh
  /\ QuantumShared
  /\ Started

LEMMA TurnTypes ==
  ASSUME IInv
  PROVE  /\ CPUs \subseteq Devices /\ Loader \in Devices \ CPUs
         /\ NoProc \notin Procs /\ TimeCap \in Nat /\ time \in Nat
         /\ TimeSlot \in Nat
         /\ phase \in [Devices -> Phases] /\ loc \in [CPUs -> CpuLocs]
         /\ proc \in [CPUs -> Procs \cup {NoProc}]
         /\ time_left \in [CPUs -> Int]
         /\ \A c \in CPUs : time_left[c] \in Quantum
         /\ pc \in [Procs -> Nat]
         /\ \A p \in Procs : job[p].start \in 0 .. TimeCap /\ job[p].size \in Nat
         /\ Procs \subseteq Nat /\ ldNext \in Nat
<1>1. /\ \A p \in Procs : job[p].start \in 0 .. TimeCap /\ job[p].size \in Nat
      /\ TimeCap \in Nat /\ NumProcs \in Nat
  <2>1. ASSUME NEW p \in Procs
        PROVE  job[p].start \in 0 .. TimeCap /\ job[p].size \in Nat
    <3>1. job[p] \in [start : 0 .. TimeCap, prio : Prios, size : Nat]
      BY OSAssumption DEF IInv, TypeOK
    <3> QED
      BY <3>1
  <2> QED
    BY <2>1, OSAssumption, ClockAssumption
<1>2. time \in Nat
  BY <1>1 DEF IInv, TypeOK, ClockTypeOK
<1>3. ldNext \in Nat /\ Procs \subseteq Nat
  BY <1>1 DEF IInv, TypeOK, Procs
<1>4. time_left \in [CPUs -> Int] /\ \A c \in CPUs : time_left[c] \in Quantum
  BY DEF IInv, TypeOK, Quantum
<1> QED
  BY <1>1, <1>2, <1>3, <1>4, OSAssumption DEF IInv, TypeOK, ClockTypeOK

LEMMA TurnsInitInv == TurnsInit => TurnsInv
<1> SUFFICES ASSUME TurnsInit PROVE TurnsInv
  OBVIOUS
<1>1. IInv
  BY InitIInv DEF TurnsInit
<1>2. QuantumShared
  BY <1>1, TurnTypes DEF TurnsInit, Init, QuantumShared
<1>3. Started
  BY OSAssumption DEF TurnsInit, Init, Started, Procs
<1> QED
  BY <1>1, <1>2, <1>3 DEF TurnsInit, TurnsInv, TurnsTypeOK, RanStay, QueuedFresh

(* A process CPU c executes an instruction of is the one it holds.         *)
LEMMA WhoExecutes ==
  ASSUME IInv, [Next]_vars, NEW p \in Procs, Executes(p)
  PROVE  \E c \in CPUs : CpuRun(c) /\ proc[c] = p /\ ~Finished(p) /\ pc'[p] = pc[p] + 1
<1>1. PICK c \in CPUs : CpuRun(c)
  <2>1. CASE TimerRound \/ LdStep \/ MainReturns \/ UNCHANGED vars
    BY <2>1 DEF Executes, TimerRound, LdStep, LdLoad, LdWait, LdAdd, LdNextSlot, LdDone,
       LdDetach, MainReturns, vars
  <2>2. ASSUME NEW c \in CPUs, CpuStep(c), ~CpuRun(c) PROVE FALSE
    BY <2>2 DEF Executes, CpuStep, CpuIdle, CpuFinish, CpuPut, CpuFetch, CpuStop, CpuSkip,
       CpuNextSlot
  <2> QED
    BY <2>1, <2>2 DEF Next
<1>2. /\ proc[c] \in Procs
      /\ pc' = IF Finished(proc[c]) THEN pc ELSE [pc EXCEPT ![proc[c]] = @ + 1]
  BY <1>1, TurnTypes DEF CpuRun
<1> QED
  BY <1>1, <1>2, TurnTypes DEF Executes

LEMMA TurnsTyped ==
  ASSUME TurnsInv, History
  PROVE  /\ TurnsTypeOK' /\ QueuedFresh'
         /\ \A p \in Procs : ~Queued(p)' =>
              turn'[p] = IF Executes(p) THEN turn[p] + 1 ELSE turn[p]
  BY DEF TurnsInv, TurnsTypeOK, QueuedFresh, History

LEMMA RanStep ==
  ASSUME TurnsInv, [Next]_vars, History
  PROVE  RanStay'
<1>1. CASE TimerRound
  BY <1>1 DEF History, RanStay
<1> SUFFICES ASSUME ~TimerRound, NEW p \in ran'
             PROVE  \E c \in CPUs : proc'[c] = p /\ Served(c)'
  BY <1>1 DEF RanStay
<1>t. p \in Procs /\ IInv
  BY TurnsTyped DEF TurnsTypeOK, TurnsInv
<1>2. ASSUME NEW c \in CPUs, CpuRun(c), proc[c] = p PROVE proc'[c] = p /\ Served(c)'
  BY <1>2, <1>t, TurnTypes DEF CpuRun, Goto, Served
<1>3. CASE Executes(p)
  BY <1>2, <1>3, <1>t, WhoExecutes
<1>4. CASE ~Executes(p)
  <2>1. p \in ran
    BY <1>4 DEF History
  <2>2. PICK d \in CPUs : proc[d] = p /\ Served(d)
    BY <2>1 DEF TurnsInv, RanStay
  <2>3. CASE LdStep \/ MainReturns \/ UNCHANGED vars
    <3>1. /\ UNCHANGED <<loc, proc>>
          /\ phase' = phase \/ \E x \in Phases : phase' = [phase EXCEPT ![Loader] = x]
      BY <2>3 DEF LdStep, LdLoad, LdWait, LdAdd, LdNextSlot, LdDone, LdDetach, ldVars, cpuVars,
         NextSlot, DetachEvent, Phases, MainReturns, vars
    <3> QED
      BY <2>2, <3>1, <1>t, TurnTypes DEF Served
  <2>4. ASSUME NEW c \in CPUs, CpuStep(c), c # d PROVE proc'[d] = p /\ Served(d)'
    <3>1. /\ \E x \in CpuLocs : loc' = [loc EXCEPT ![c] = x]
          /\ proc' = proc \/ \E x \in Procs \cup {NoProc} : proc' = [proc EXCEPT ![c] = x]
          /\ phase' = phase \/ \E x \in Phases : phase' = [phase EXCEPT ![c] = x]
      <4>1. ASSUME GetProc(c)
            PROVE  \E x \in Procs \cup {NoProc} : proc' = [proc EXCEPT ![c] = x]
        <5>1. ASSUME NEW k \in Prios, ~Empty(ready[k]) PROVE Head(ready[k]) \in Procs
          BY <5>1, <1>t DEF IInv, TypeOK, Empty
        <5> QED
          BY <4>1, <5>1 DEF GetProc
      <4> QED
        BY <2>4, <4>1 DEF CpuStep, CpuIdle, CpuFinish, CpuPut, CpuFetch, CpuStop, CpuSkip, CpuRun,
           CpuNextSlot, NextSlot, DetachEvent, Goto, CpuLocs, Phases
    <3> QED
      BY <2>2, <2>4, <3>1, <1>t, TurnTypes DEF Served
  <2>5. ASSUME CpuStep(d) PROVE proc'[d] = p /\ Served(d)'
    <3>1. CpuRun(d) \/ CpuNextSlot(d)
      BY <2>2, <2>5, <1>t, TurnTypes DEF CpuStep, CpuIdle, CpuFinish, CpuPut, CpuFetch, CpuStop,
         CpuSkip, At, Served, IInv, CpuPlace
    <3>2. CASE CpuNextSlot(d)
      BY <2>2, <3>2, <1>t, TurnTypes DEF CpuNextSlot, NextSlot, Served
    <3> QED
      BY <1>2, <2>2, <3>1, <3>2
  <2> QED
    BY <2>2, <2>3, <2>4, <2>5 DEF Next
<1> QED
  BY <1>3, <1>4

LEMMA StartedStep ==
  ASSUME TurnsInv, [Next]_vars
  PROVE  Started'
<1>1. job' = job
  BY DEF Next, TimerRound, LdStep, LdLoad, LdWait, LdAdd, LdNextSlot, LdDone, LdDetach,
     MainReturns, vars, CpuStep, CpuIdle, CpuFinish, CpuPut, CpuFetch, CpuStop, CpuSkip,
     CpuRun, CpuNextSlot
<1>2. CASE TimerRound
  <2>1. /\ time' = IF time < TimeCap THEN time + 1 ELSE time
        /\ ldNext' = ldNext
    BY <1>2, TurnTypes DEF TimerRound, Tick, AdvanceTime, ldVars, TurnsInv, IInv, TypeOK,
       ClockTypeOK
  <2> QED
    BY <1>1, <2>1, TurnTypes DEF TurnsInv, Started
<1>3. CASE LdAdd
  <2>1. time >= job[ldNext].start /\ ldNext' = ldNext + 1 /\ time' = time
    BY <1>3 DEF LdAdd
  <2> QED
    BY <1>1, <2>1, TurnTypes DEF TurnsInv, Started
<1>4. CASE ~TimerRound /\ ~LdAdd
  <2>1. time' = time /\ ldNext' = ldNext
    BY <1>4 DEF Next, LdStep, LdLoad, LdWait, LdNextSlot, LdDone, LdDetach, NextSlot,
       DetachEvent, ldVars, MainReturns, vars, CpuStep, CpuIdle, CpuFinish, CpuPut, CpuFetch,
       CpuStop, CpuSkip, CpuRun, CpuNextSlot
  <2> QED
    BY <1>1, <2>1 DEF TurnsInv, Started
<1> QED
  BY <1>2, <1>3, <1>4

(* What a CPU does with its quantum.                                       *)
LEMMA QuantumStep ==
  ASSUME TurnsInv, [Next]_vars, History, IInv'
  PROVE  QuantumShared'
<1> SUFFICES ASSUME NEW c \in CPUs, NEW p \in Procs, proc'[c] = p PROVE Shared(c, p)'
  BY DEF QuantumShared
<1>t. /\ job' = job
      /\ turn \in [Procs -> Nat] /\ IInv /\ ~Queued(p)'
      /\ turn'[p] = IF Executes(p) THEN turn[p] + 1 ELSE turn[p]
  <2>1. job' = job
    BY DEF Next, TimerRound, LdStep, LdLoad, LdWait, LdAdd, LdNextSlot, LdDone, LdDetach,
       MainReturns, vars, CpuStep, CpuIdle, CpuFinish, CpuPut, CpuFetch, CpuStop, CpuSkip,
       CpuRun, CpuNextSlot
  <2>2. ~Queued(p)'
    BY DEF IInv, Places, Apart, Held
  <2> QED
    BY <2>1, <2>2, TurnsTyped DEF TurnsInv, TurnsTypeOK
<1>o. ASSUME NEW d \in CPUs, CpuRun(d), d # c PROVE ~Executes(p)
  <2>1. proc[d] # p
    BY <1>o, <1>t, TurnTypes DEF CpuRun, IInv, Places, HeldOnce
  <2> QED
    BY <1>o, <2>1, <1>t, TurnTypes DEF CpuRun, Executes
<1>1. CASE /\ ~Executes(p) /\ proc[c] = p
           /\ loc'[c] = loc[c] \/ {loc[c], loc'[c]} \subseteq {"end", "top"}
           /\ time_left'[c] = time_left[c]
  BY <1>1, <1>t DEF TurnsInv, QuantumShared, Shared, Finished, Executes
<1>2. CASE TimerRound \/ LdStep \/ MainReturns \/ UNCHANGED vars
  <2>1. UNCHANGED <<loc, proc, time_left, pc>>
    BY <1>2 DEF TimerRound, LdStep, LdLoad, LdWait, LdAdd, LdNextSlot, LdDone, LdDetach,
       cpuVars, MainReturns, vars
  <2> QED
    BY <1>1, <2>1 DEF Executes
<1>3. ASSUME NEW d \in CPUs, CpuStep(d), d # c PROVE Shared(c, p)'
  <2>1. /\ \E x \in CpuLocs : loc' = [loc EXCEPT ![d] = x]
        /\ proc'[c] = proc[c]
        /\ time_left' = time_left \/ \E x \in Int : time_left' = [time_left EXCEPT ![d] = x]
    <3>1. GetProc(d) => proc'[c] = proc[c]
      BY <1>3, <1>t, TurnTypes DEF GetProc
    <3>2. ASSUME CpuRun(d)
          PROVE  \E x \in Int : time_left' = [time_left EXCEPT ![d] = x]
      <4> DEFINE x == (IF time_left[d] = 0 THEN TimeSlot ELSE time_left[d]) - 1
      <4>1. x \in Int
        BY <1>t, TurnTypes
      <4>2. time_left' = [time_left EXCEPT ![d] = x]
        BY <3>2 DEF CpuRun
      <4> QED
        BY <4>1, <4>2
    <3> QED
      BY <1>3, <3>1, <3>2, <1>t, TurnTypes DEF CpuStep, CpuIdle, CpuFinish, CpuPut, CpuFetch,
         CpuStop, CpuSkip, CpuRun, CpuNextSlot, Goto, CpuLocs
  <2>2. ~Executes(p)
    <3>1. CASE CpuRun(d)
      BY <3>1, <1>3, <1>o
    <3>2. CASE ~CpuRun(d)
      BY <1>3, <3>2 DEF Executes, CpuStep, CpuIdle, CpuFinish, CpuPut, CpuFetch,
         CpuStop, CpuSkip, CpuNextSlot
    <3> QED
      BY <3>1, <3>2
  <2> QED
    BY <1>1, <1>3, <2>1, <2>2, <1>t, TurnTypes
<1>4. CASE CpuIdle(c) \/ CpuFetch(c)
  <2>1. /\ GetProc(c) /\ time_left' = time_left /\ proc[c] = NoProc /\ pc' = pc
        /\ loc'[c] = "recheck"
    BY <1>4, <1>t, TurnTypes DEF CpuIdle, CpuFetch, Goto, IInv, CpuPlace, At
  <2>2. Queued(p)
    <3>1. PICK k \in Prios : ~Empty(ready[k]) /\ proc' = [proc EXCEPT ![c] = Head(ready[k])]
      BY <2>1, <1>t, TurnTypes DEF GetProc
    <3>2. ready[k] \in Seq(Procs) /\ ready[k] # << >>
      BY <3>1, <1>t DEF IInv, TypeOK, Empty
    <3>3. 1 \in DOMAIN ready[k] /\ ready[k][1] = p
      BY <3>1, <3>2, <1>t, TurnTypes
    <3> QED
      BY <3>3 DEF Queued
  <2>3. turn[p] = 0 /\ time_left[c] = 0
    BY <2>1, <2>2 DEF TurnsInv, QueuedFresh, IInv, FreshQuantum
  <2> QED
    BY <2>1, <2>3, <1>t DEF Shared, Executes
<1>5. CASE CpuFinish(c) \/ CpuPut(c)
  BY <1>5, <1>t, TurnTypes DEF CpuFinish, CpuPut
<1>6. CASE CpuStop(c) \/ CpuSkip(c)
  BY <1>6, <1>t, TurnTypes DEF CpuStop, CpuSkip
<1>7. CASE CpuNextSlot(c)
  BY <1>1, <1>7, <1>t, TurnTypes DEF CpuNextSlot, At, Goto, Executes
<1>8. CASE CpuRun(c)
  <2>1. /\ proc[c] = p /\ loc'[c] = "end" /\ loc[c] \in {"recheck", "top"}
        /\ time_left'[c] = (IF time_left[c] = 0 THEN TimeSlot ELSE time_left[c]) - 1
        /\ loc[c] = "top" => time_left[c] # 0 /\ ~Finished(p)
        /\ pc'[p] = IF Finished(p) THEN pc[p] ELSE pc[p] + 1
    BY <1>8, <1>t, TurnTypes DEF CpuRun, At, Goto
  <2>2. Shared(c, p) /\ turn[p] \in Nat
    BY <2>1, <1>t DEF TurnsInv, QuantumShared
  <2>3. Finished(p) => ~Executes(p)
    BY <2>1 DEF Executes
  <2>4. ~Finished(p) => Executes(p)
    BY <2>1, <1>t, TurnTypes DEF Executes
  <2>5. CASE Finished(p)
    <3>1. loc[c] = "recheck" /\ turn[p] = 0
      BY <2>1, <2>2, <2>5 DEF Shared
    <3>2. Finished(p)'
      BY <2>1, <2>5, <1>t DEF Finished
    <3> QED
      BY <2>1, <2>3, <2>5, <3>1, <3>2, <1>t DEF Shared
  <2>6. CASE ~Finished(p)
    BY <2>1, <2>2, <2>4, <2>6, <1>t, TurnTypes DEF Shared
  <2> QED
    BY <2>5, <2>6
<1> QED
  BY <1>2, <1>3, <1>4, <1>5, <1>6, <1>7, <1>8 DEF Next, CpuStep

LEMMA TurnsInvariance == TurnsSpec => []TurnsInv
<1>1. TurnsInv /\ [TurnsNext]_turnsVars => TurnsInv'
  <2> SUFFICES ASSUME TurnsInv, [TurnsNext]_turnsVars PROVE TurnsInv'
    OBVIOUS
  <2>1. CASE TurnsNext
    <3>1. [Next]_vars /\ History
      BY <2>1 DEF TurnsNext
    <3>2. IInv'
      BY <3>1, NextIInv DEF TurnsInv
    <3> QED
      BY <3>1, <3>2, TurnsTyped, RanStep, QuantumStep, StartedStep DEF TurnsInv
  <2>2. CASE UNCHANGED turnsVars
    <3>1. UNCHANGED vars /\ UNCHANGED <<ran, turn>>
      BY <2>2 DEF turnsVars, historyVars
    <3>2. IInv'
      BY <3>1, NextIInv DEF TurnsInv
    <3> QED
      BY <3>1, <3>2 DEF vars, cpuVars, ldVars, TurnsInv, TurnsTypeOK, RanStay, Served,
         QueuedFresh, Queued, QuantumShared, Shared, Finished, Started
  <2> QED
    BY <2>1, <2>2
<1> QED
  BY <1>1, TurnsInitInv, PTL DEF TurnsSpec

(* Whatever the CPUs do with it, a process executes at most one            *)
(* instruction in a slot, and none before its start time: one that has had *)
(* its turn is with a CPU that is done with this slot.                     *)
THEOREM OneTurnPerSlot == TurnsSpec => OnePerSlot
<1>1. TurnsInv /\ [TurnsNext]_turnsVars =>
        [\A p \in Procs : Executes(p) => p \notin ran /\ time >= job[p].start]_turnsVars
  <2> SUFFICES ASSUME TurnsInv, TurnsNext, NEW p \in Procs, Executes(p)
               PROVE  p \notin ran /\ time >= job[p].start
    OBVIOUS
  <2>1. PICK c \in CPUs : CpuRun(c) /\ proc[c] = p
    BY WhoExecutes DEF TurnsNext, TurnsInv
  <2>2. ~Served(c)
    BY <2>1 DEF CpuRun, At, Served
  <2>3. p \notin ran
    BY <2>1, <2>2, TurnTypes DEF TurnsInv, RanStay, IInv, Places, HeldOnce
  <2>4. p < ldNext
    BY <2>1, TurnTypes DEF Held, TurnsInv, IInv, Places, NewNowhere
  <2> QED
    BY <2>3, <2>4 DEF TurnsInv, Started
<1> QED
  BY <1>1, TurnsInvariance, PTL DEF TurnsSpec, OnePerSlot

(* A process leaves its CPU with its whole quantum, or with its end, and   *)
(* never has had more than that: what it has executed there and time_left  *)
(* are the quantum together.                                               *)
THEOREM QuantumKept == TurnsSpec => WholeQuantum
<1>1. TurnsInv /\ [TurnsNext]_turnsVars =>
        [\A p \in Procs : Held(p) /\ ~Held(p)' =>
           \/ turn[p] = TimeSlot
           \/ Finished(p) /\ (turn[p] <= TimeSlot \/ TimeSlot = 0)]_turnsVars
  <2> SUFFICES ASSUME TurnsInv, TurnsNext, NEW p \in Procs, Held(p), ~Held(p)'
               PROVE  \/ turn[p] = TimeSlot
                      \/ Finished(p) /\ (turn[p] <= TimeSlot \/ TimeSlot = 0)
    OBVIOUS
  <2>t. IInv /\ turn[p] \in Nat
    BY DEF TurnsInv, TurnsTypeOK
  <2>1. PICK c \in CPUs : proc[c] = p /\ proc'[c] # p
    BY DEF Held
  <2>2. CpuFinish(c) \/ CpuPut(c)
    <3>1. ASSUME NEW d \in CPUs, CpuStep(d) PROVE d = c
      <4>1. GetProc(d) => \E x \in Procs \cup {NoProc} \cup {proc'[d]} :
              proc' = [proc EXCEPT ![d] = x]
        BY <2>t, TurnTypes DEF GetProc
      <4> QED
        BY <2>1, <3>1, <4>1, <2>t, TurnTypes DEF CpuStep, CpuIdle, CpuFinish, CpuPut, CpuFetch,
           CpuStop, CpuSkip, CpuRun, CpuNextSlot
    <3>2. \E d \in CPUs : CpuStep(d)
      BY <2>1 DEF TurnsNext, Next, TimerRound, LdStep, LdLoad, LdWait, LdAdd, LdNextSlot, LdDone,
         LdDetach, MainReturns, vars, cpuVars
    <3> QED
      BY <2>1, <3>1, <3>2, <2>t, TurnTypes DEF CpuStep, CpuIdle, CpuFetch, CpuStop, CpuSkip, CpuRun,
         CpuNextSlot, IInv, CpuPlace, At
  <2>3. loc[c] = "top" /\ Shared(c, p) /\ time_left[c] \in Quantum /\ time_left[c] \in Int
    BY <2>1, <2>2, <2>t, TurnTypes DEF CpuFinish, CpuPut, At, TurnsInv, QuantumShared
  <2>4. CASE CpuPut(c)
    BY <2>1, <2>3, <2>4, <2>t, TurnTypes DEF CpuPut, Shared
  <2>5. CASE CpuFinish(c)
    <3>1. Finished(p)
      BY <2>1, <2>5 DEF CpuFinish
    <3>2. time_left[c] >= 0 \/ TimeSlot = 0
      BY <2>3 DEF Quantum
    <3> QED
      BY <2>3, <3>1, <3>2, <2>t, TurnTypes DEF Shared
  <2> QED
    BY <2>2, <2>4, <2>5
<1> QED
  BY <1>1, TurnsInvariance, PTL DEF TurnsSpec, WholeQuantum

=============================================================================
