------------------------------ MODULE OSProofs ------------------------------
(***************************************************************************)
(* The safety of the simulated kernel for every number of CPUs and of      *)
(* processes, every input, quantum and queue capacity, proved from one     *)
(* inductive invariant.  That no process is lost is proved under the       *)
(* assumption it needs: that a queue can hold all processes.               *)
(***************************************************************************)
EXTENDS OS, FiniteSetTheorems, FunctionTheorems, TLAPS

Capacity == NumProcs <= MaxQueue

(* The parts of OnePlace.                                                  *)
QueuedOnce ==
  \A k, l \in Prios : \A i \in DOMAIN ready[k], j \in DOMAIN ready[l] :
    ready[k][i] = ready[l][j] => k = l /\ i = j

HeldOnce == \A c, d \in CPUs : proc[c] = proc[d] /\ proc[c] # NoProc => c = d

Apart ==
  /\ \A p \in Procs : Queued(p) => ~Held(p)
  /\ \A p \in freed : ~Queued(p) /\ ~Held(p)

(* A process the loader has not added yet is nowhere.                      *)
NewNowhere ==
  \A p \in Procs : p >= ldNext => ~Queued(p) /\ ~Held(p) /\ p \notin freed

Places == QueuedOnce /\ HeldOnce /\ Apart /\ NewNowhere

(* A freed process has executed all of its code.                           *)
FreedFinished == \A p \in freed : Finished(p)

(* What the location of a CPU says about the process it holds, and that it *)
(* works in its slot unless it is at the top of its loop.                  *)
CpuPlace ==
  \A c \in CPUs :
    /\ loc[c] = "fetch" => proc[c] = NoProc
    /\ loc[c] = "stopped" => proc[c] = NoProc /\ done
    /\ loc[c] = "stopped" <=> phase[c] = "finished"
    /\ phase[c] = "waiting" => loc[c] = "top"

(* The same for the loader.                                                *)
LoaderPlace ==
  /\ ldLoc = "wait" => ldNext <= NumProcs
  /\ done <=> ldLoc \in {"detach", "stopped"}
  /\ done => ldNext = NumProcs + 1
  /\ ldLoc = "stopped" <=> phase[Loader] = "finished"

(* A CPU that holds no process has nothing left of a quantum.              *)
FreshQuantum == \A c \in CPUs : proc[c] = NoProc => time_left[c] = 0

(* A CPU that will look at the queues again before it can stop.            *)
Active(c) ==
  /\ loc[c] # "stopped"
  /\ loc[c] = "recheck" => proc[c] # NoProc

(* In a slot in which the loader can find its work done, or later, a       *)
(* queued process has a CPU that will look for it.  It is the slot the     *)
(* loader waits for between its last add_proc() and done that ensures it.  *)
SomeoneLooks ==
  /\ done \/ (ldLoc = "load" /\ phase[Loader] = "working")
  /\ \E p \in Procs : Queued(p)
  => \E c \in CPUs : Active(c)

IInv ==
  /\ TypeOK
  /\ Places
  /\ FreedFinished
  /\ CpuPlace
  /\ LoaderPlace
  /\ FreshQuantum
  /\ SomeoneLooks
  /\ Capacity => NoneLost

-----------------------------------------------------------------------------
(* Lemmas about the ready queues *)

(* The fields of a configuration line have their types.                    *)
LEMMA JobTypes ==
  ASSUME TypeOK, NEW p \in Procs
  PROVE  job[p].prio \in Prios /\ job[p].size \in Nat /\ job[p].start \in Nat
<1>1. job[p] \in [start : 0 .. TimeCap, prio : Prios, size : Nat]
  BY OSAssumption DEF TypeOK
<1> QED
  BY <1>1

(* A queue that lacks a process has room for it, if it can hold all.       *)
LEMMA RoomForOne ==
  ASSUME TypeOK, QueuedOnce, Capacity,
         NEW p \in Procs, ~Queued(p), NEW k \in Prios
  PROVE  Len(ready[k]) < MaxQueue
<1> DEFINE q == ready[k]
           Others == Procs \ {p}
<1>1. q \in Seq(Procs) /\ Len(q) \in Nat /\ DOMAIN q = 1 .. Len(q)
  BY DEF TypeOK
<1>2. \A i \in 1 .. Len(q) : q[i] \in Others
  BY <1>1 DEF Queued
<1>3. \A i, j \in 1 .. Len(q) : q[i] = q[j] => i = j
  BY <1>1 DEF QueuedOnce
<1>4. q \in Injection(1 .. Len(q), Others)
  BY <1>1, <1>2, <1>3 DEF Injection, IsInjective
<1>5. IsFiniteSet(Procs) /\ Cardinality(Procs) = NumProcs
  BY FS_Interval, OSAssumption DEF Procs
<1>6. IsFiniteSet(Others) /\ Cardinality(Others) = NumProcs - 1
  BY <1>5, FS_RemoveElement
<1>7. IsFiniteSet(1 .. Len(q)) /\ Cardinality(1 .. Len(q)) = Len(q)
  BY <1>1, FS_Interval
<1>8. Len(q) <= NumProcs - 1
  BY <1>4, <1>6, <1>7, FS_Injection
<1> QED
  BY <1>1, <1>8, OSAssumption DEF Capacity

(* put_proc() and add_proc() put the process at one place, and leave the   *)
(* others where they are; when there is room for all, it gets there.       *)
LEMMA PutQueues ==
  ASSUME TypeOK, QueuedOnce, NEW p \in Procs, ~Queued(p), PutProc(p)
  PROVE  /\ ready' \in [Prios -> Seq(Procs)]
         /\ \A k \in Prios : Len(ready'[k]) <= MaxQueue
         /\ QueuedOnce'
         /\ \A q \in Procs : Queued(q)' => Queued(q) \/ q = p
         /\ \A q \in Procs : Queued(q) => Queued(q)'
         /\ Capacity => Queued(p)'
<1> DEFINE k == job[p].prio
<1>k. k \in Prios
  BY JobTypes
<1>t. /\ ready \in [Prios -> Seq(Procs)]
      /\ \A l \in Prios : Len(ready[l]) <= MaxQueue
      /\ MaxQueue \in Nat
  BY OSAssumption DEF TypeOK
<1> HIDE DEF k
<1>1. ready' = [ready EXCEPT ![k] = Enqueue(ready[k], p)]
  BY DEF PutProc, k
<1>2. CASE Len(ready[k]) < MaxQueue
  <2>1. ready' = [ready EXCEPT ![k] = Append(ready[k], p)]
    BY <1>1, <1>2 DEF Enqueue
  <2>2. /\ Append(ready[k], p) \in Seq(Procs)
        /\ Len(Append(ready[k], p)) = Len(ready[k]) + 1
        /\ Len(ready[k]) \in Nat
    BY <1>t, <1>k
  <2>3. /\ ready' \in [Prios -> Seq(Procs)]
        /\ \A l \in Prios : Len(ready'[l]) <= MaxQueue
    BY <1>t, <1>k, <1>2, <2>1, <2>2
  <2>4. /\ DOMAIN ready'[k] = 1 .. Len(ready[k]) + 1
        /\ DOMAIN ready[k] = 1 .. Len(ready[k])
        /\ \A i \in 1 .. Len(ready[k]) : ready'[k][i] = ready[k][i]
        /\ ready'[k][Len(ready[k]) + 1] = p
    BY <1>t, <1>k, <2>1, <2>2
  <2>5. \A l \in Prios : l # k => ready'[l] = ready[l]
    BY <1>t, <2>1
  <2>6. Queued(p)'
    BY <1>k, <2>2, <2>4 DEF Queued
  <2>7. \A q \in Procs : Queued(q) => Queued(q)'
    BY <1>k, <2>2, <2>4, <2>5 DEF Queued
  <2>8. \A q \in Procs : Queued(q)' => Queued(q) \/ q = p
    BY <1>k, <2>2, <2>4, <2>5 DEF Queued
  <2>9. QueuedOnce'
    <3> SUFFICES ASSUME NEW a \in Prios, NEW b \in Prios,
                        NEW i \in DOMAIN ready'[a], NEW j \in DOMAIN ready'[b],
                        ready'[a][i] = ready'[b][j]
                 PROVE  a = b /\ i = j
      BY DEF QueuedOnce
    <3> DEFINE New(l, h) == l = k /\ h = Len(ready[k]) + 1
    <3>1. \A l \in Prios : \A h \in DOMAIN ready'[l] :
            \/ New(l, h) /\ ready'[l][h] = p
            \/ ~New(l, h) /\ h \in DOMAIN ready[l]
                 /\ ready'[l][h] = ready[l][h] /\ ready'[l][h] # p
      <4> SUFFICES ASSUME NEW l \in Prios, NEW h \in DOMAIN ready'[l], ~New(l, h)
                   PROVE  /\ h \in DOMAIN ready[l]
                          /\ ready'[l][h] = ready[l][h] /\ ready'[l][h] # p
        BY <2>4
      <4>1. CASE l = k
        <5>1. h \in 1 .. Len(ready[k])
          BY <4>1, <2>2, <2>4
        <5>2. ready'[l][h] = ready[l][h] /\ h \in DOMAIN ready[l]
          BY <4>1, <5>1, <2>4
        <5> QED
          BY <5>2 DEF Queued
      <4>2. CASE l # k
        BY <4>2, <2>5 DEF Queued
      <4> QED
        BY <4>1, <4>2
    <3>2. CASE New(a, i)
      BY <3>1, <3>2
    <3>3. CASE ~New(a, i)
      BY <3>1, <3>3 DEF QueuedOnce
    <3> QED
      BY <3>2, <3>3
  <2> QED
    BY <2>3, <2>6, <2>7, <2>8, <2>9
<1>3. CASE ~(Len(ready[k]) < MaxQueue)
  <2>1. ready' = ready
    BY <1>t, <1>1, <1>3 DEF Enqueue
  <2>2. ~Capacity
    BY <1>3, <1>k, RoomForOne
  <2> QED
    BY <1>t, <2>1, <2>2 DEF QueuedOnce, Queued
<1> QED
  BY <1>2, <1>3

(* get_proc() takes one process from its only place, or takes none because *)
(* there is none.                                                          *)
LEMMA GetQueues ==
  ASSUME TypeOK, QueuedOnce, NEW c \in CPUs, GetProc(c)
  PROVE  /\ ready' \in [Prios -> Seq(Procs)]
         /\ \A k \in Prios : Len(ready'[k]) <= MaxQueue
         /\ QueuedOnce'
         /\ \/ /\ proc' = [proc EXCEPT ![c] = NoProc]
               /\ \A q \in Procs : ~Queued(q) /\ ~Queued(q)'
            \/ \E p \in Procs :
                 /\ proc' = [proc EXCEPT ![c] = p]
                 /\ Queued(p) /\ ~Queued(p)'
                 /\ \A q \in Procs : q # p => (Queued(q)' <=> Queued(q))
<1>t. /\ ready \in [Prios -> Seq(Procs)]
      /\ \A l \in Prios : Len(ready[l]) <= MaxQueue
      /\ MaxQueue \in Nat
  BY OSAssumption DEF TypeOK
<1>1. CASE /\ \A k \in Prios : Empty(ready[k])
           /\ proc' = [proc EXCEPT ![c] = NoProc]
           /\ UNCHANGED ready
  BY <1>1, <1>t DEF Empty, Queued, QueuedOnce
<1>2. ASSUME NEW k \in Prios, ~Empty(ready[k]),
             proc' = [proc EXCEPT ![c] = Head(ready[k])],
             ready' = [ready EXCEPT ![k] = Tail(@)]
      PROVE  /\ ready' \in [Prios -> Seq(Procs)]
             /\ \A l \in Prios : Len(ready'[l]) <= MaxQueue
             /\ QueuedOnce'
             /\ \E p \in Procs :
                  /\ proc' = [proc EXCEPT ![c] = p]
                  /\ Queued(p) /\ ~Queued(p)'
                  /\ \A q \in Procs : q # p => (Queued(q)' <=> Queued(q))
  <2> DEFINE n == Len(ready[k])
  <2>p. PICK p \in Procs : p = Head(ready[k])
    BY <1>2, <1>t DEF Empty
  <2>1. /\ ready[k] \in Seq(Procs) /\ n \in Nat \ {0}
        /\ Tail(ready[k]) \in Seq(Procs) /\ Len(Tail(ready[k])) = n - 1
        /\ p \in Procs /\ p = ready[k][1]
        /\ DOMAIN ready[k] = 1 .. n
    BY <1>2, <1>t, <2>p DEF Empty
  <2>2. /\ ready'[k] = Tail(ready[k])
        /\ \A l \in Prios : l # k => ready'[l] = ready[l]
        /\ ready' \in [Prios -> Seq(Procs)]
    BY <1>2, <1>t, <2>1
  <2>3. /\ DOMAIN ready'[k] = 1 .. n - 1
        /\ \A i \in 1 .. n - 1 : ready'[k][i] = ready[k][i + 1]
    BY <2>1, <2>2
  <2>4. \A l \in Prios : Len(ready'[l]) <= MaxQueue
    <3>1. Len(ready'[k]) <= MaxQueue
      BY <1>t, <2>1, <2>2
    <3> QED
      BY <1>t, <3>1, <2>2
  <2> DEFINE Old(l, h) == IF l = k THEN h + 1 ELSE h
  <2>5. \A l \in Prios : \A h \in DOMAIN ready'[l] :
          /\ Old(l, h) \in DOMAIN ready[l]
          /\ ready'[l][h] = ready[l][Old(l, h)]
          /\ ready'[l][h] # p
    <3> SUFFICES ASSUME NEW l \in Prios, NEW h \in DOMAIN ready'[l]
                 PROVE  /\ Old(l, h) \in DOMAIN ready[l]
                        /\ ready'[l][h] = ready[l][Old(l, h)]
                        /\ ready'[l][h] # p
      OBVIOUS
    <3>1. CASE l = k
      <4>1. h \in 1 .. n - 1 /\ h + 1 \in 1 .. n /\ 1 \in 1 .. n /\ h + 1 # 1
        BY <3>1, <2>1, <2>3
      <4>2. ready[k][h + 1] # ready[k][1]
        BY <4>1, <2>1 DEF QueuedOnce
      <4> QED
        BY <3>1, <4>1, <4>2, <2>1, <2>3
    <3>2. CASE l # k
      <4>1. ready'[l] = ready[l] /\ 1 \in DOMAIN ready[k]
        BY <3>2, <2>1, <2>2
      <4> QED
        BY <3>2, <4>1, <2>1 DEF QueuedOnce
    <3> QED
      BY <3>1, <3>2
  <2>6. QueuedOnce'
    <3> SUFFICES ASSUME NEW a \in Prios, NEW b \in Prios,
                        NEW i \in DOMAIN ready'[a], NEW j \in DOMAIN ready'[b],
                        ready'[a][i] = ready'[b][j]
                 PROVE  a = b /\ i = j
      BY DEF QueuedOnce
    <3>1. a = b /\ Old(a, i) = Old(b, j)
      BY <2>5 DEF QueuedOnce
    <3>2. DOMAIN ready'[a] \subseteq Int
      BY <1>t, <2>2
    <3> QED
      BY <3>1, <3>2
  <2>7. Queued(p) /\ ~Queued(p)'
    BY <2>1, <2>5 DEF Queued
  <2>8. ASSUME NEW q \in Procs, q # p PROVE Queued(q)' <=> Queued(q)
    <3>1. Queued(q)' => Queued(q)
      BY <2>5 DEF Queued
    <3>2. Queued(q) => Queued(q)'
      <4> SUFFICES ASSUME NEW l \in Prios, NEW h \in DOMAIN ready[l],
                          ready[l][h] = q
                   PROVE  Queued(q)'
        BY DEF Queued
      <4>1. CASE l = k
        <5>1. h - 1 \in 1 .. n - 1 /\ (h - 1) + 1 = h
          <6>1. h \in 1 .. n /\ ready[k][h] = q
            BY <4>1, <2>1
          <6>2. h # 1
            BY <6>1, <2>1, <2>8
          <6> QED
            BY <6>1, <6>2, <2>1
        <5>2. ready'[k][h - 1] = q
          BY <5>1, <4>1, <2>3
        <5> QED
          BY <5>1, <5>2, <2>3 DEF Queued
      <4>2. CASE l # k
        BY <4>2, <2>2 DEF Queued
      <4> QED
        BY <4>1, <4>2
    <3> QED
      BY <3>1, <3>2
  <2>9. proc' = [proc EXCEPT ![c] = p] /\ p \in Procs
    BY <1>2, <2>p
  <2> QED
    BY <2>2, <2>4, <2>6, <2>7, <2>8, <2>9
<1> QED
  BY <1>1, <1>2 DEF GetProc

-----------------------------------------------------------------------------
(* Lemmas about the places of the processes *)

(* A CPU without a process that calls get_proc() leaves every process in   *)
(* one place, and loses none.                                              *)
LEMMA GetPlaces ==
  ASSUME TypeOK, Places, NEW c \in CPUs, proc[c] = NoProc, GetProc(c),
         UNCHANGED <<job, pc, freed, ldNext>>
  PROVE  /\ Places'
         /\ NoneLost => NoneLost'
         /\ proc' \in [CPUs -> Procs \cup {NoProc}]
         /\ \A d \in CPUs : d # c => proc'[d] = proc[d]
         /\ proc'[c] = NoProc => \A p \in Procs : ~Queued(p)'
<1>t. proc \in [CPUs -> Procs \cup {NoProc}] /\ NoProc \notin Procs
  BY OSAssumption DEF TypeOK
<1>q. /\ QueuedOnce'
      /\ \/ /\ proc' = [proc EXCEPT ![c] = NoProc]
            /\ \A q \in Procs : ~Queued(q) /\ ~Queued(q)'
         \/ \E p \in Procs :
              /\ proc' = [proc EXCEPT ![c] = p]
              /\ Queued(p) /\ ~Queued(p)'
              /\ \A q \in Procs : q # p => (Queued(q)' <=> Queued(q))
  BY GetQueues DEF Places
<1>1. CASE /\ proc' = [proc EXCEPT ![c] = NoProc]
           /\ \A q \in Procs : ~Queued(q) /\ ~Queued(q)'
  <2>1. proc' = proc
    BY <1>1, <1>t
  <2>2. \A q \in Procs : Held(q)' <=> Held(q)
    BY <2>1 DEF Held
  <2>3. HeldOnce' /\ Apart' /\ NewNowhere'
    BY <1>1, <2>1, <2>2 DEF Places, HeldOnce, Apart, NewNowhere, TypeOK
  <2>4. NoneLost => NoneLost'
    BY <1>1, <2>2 DEF NoneLost, Finished
  <2> QED
    BY <1>1, <1>q, <1>t, <2>1, <2>3, <2>4 DEF Places
<1>2. ASSUME NEW p \in Procs,
             proc' = [proc EXCEPT ![c] = p],
             Queued(p), ~Queued(p)',
             \A q \in Procs : q # p => (Queued(q)' <=> Queued(q))
      PROVE  /\ Places'
             /\ NoneLost => NoneLost'
             /\ proc' \in [CPUs -> Procs \cup {NoProc}]
             /\ \A d \in CPUs : d # c => proc'[d] = proc[d]
             /\ proc'[c] # NoProc
  <2>1. /\ proc' \in [CPUs -> Procs \cup {NoProc}]
        /\ \A d \in CPUs : d # c => proc'[d] = proc[d]
        /\ proc'[c] = p /\ p # NoProc
    BY <1>2, <1>t
  <2>2. \A q \in Procs : Held(q)' <=> Held(q) \/ q = p
    BY <1>t, <2>1 DEF Held
  <2>3. ~Held(p) /\ p \notin freed /\ p < ldNext
    BY <1>2 DEF Places, Apart, NewNowhere, TypeOK, Procs
  <2>4. HeldOnce'
    <3>1. \A d \in CPUs : proc[d] # p
      BY <2>3 DEF Held
    <3> QED
      BY <2>1, <3>1 DEF Places, HeldOnce
  <2>5. Apart'
    BY <1>2, <2>2, <2>3 DEF Places, Apart, TypeOK
  <2>6. NewNowhere'
    BY <1>2, <2>2, <2>3 DEF Places, NewNowhere, Procs, TypeOK
  <2>7. NoneLost => NoneLost'
    BY <1>2, <2>2 DEF NoneLost, Finished
  <2> QED
    BY <1>q, <2>1, <2>4, <2>5, <2>6, <2>7 DEF Places
<1> QED
  BY <1>q, <1>1, <1>2

(* A CPU that puts its process back does not lose it if there is room.     *)
LEMMA PutPlaces ==
  ASSUME TypeOK, Places, NEW c \in CPUs, NEW p \in Procs, proc[c] = p,
         PutProc(p), proc' = [proc EXCEPT ![c] = NoProc],
         UNCHANGED <<job, pc, freed, ldNext>>
  PROVE  /\ Places'
         /\ Capacity /\ NoneLost => NoneLost'
<1>t. proc \in [CPUs -> Procs \cup {NoProc}] /\ NoProc \notin Procs
  BY OSAssumption DEF TypeOK
<1>1. Held(p) /\ ~Queued(p) /\ p \notin freed /\ p < ldNext
  BY DEF Held, Places, Apart, NewNowhere, Procs, TypeOK
<1>2. /\ QueuedOnce'
      /\ \A q \in Procs : Queued(q)' => Queued(q) \/ q = p
      /\ \A q \in Procs : Queued(q) => Queued(q)'
      /\ Capacity => Queued(p)'
  BY <1>1, PutQueues DEF Places
<1>3. \A d \in CPUs : d # c => proc'[d] = proc[d] /\ proc[d] # p
  BY <1>t DEF Places, HeldOnce
<1>4. proc'[c] = NoProc
  BY <1>t
<1>5. \A q \in Procs : Held(q)' <=> Held(q) /\ q # p
  BY <1>t, <1>3, <1>4 DEF Held
<1>6. HeldOnce'
  BY <1>3, <1>4 DEF Places, HeldOnce
<1>7. Apart'
  BY <1>1, <1>2, <1>5 DEF Places, Apart, TypeOK
<1>8. NewNowhere'
  BY <1>1, <1>2, <1>5 DEF Places, NewNowhere, Procs, TypeOK
<1>9. Capacity /\ NoneLost => NoneLost'
  BY <1>2, <1>5 DEF NoneLost, Finished
<1> QED
  BY <1>2, <1>6, <1>7, <1>8, <1>9 DEF Places

-----------------------------------------------------------------------------
(* The invariant *)

(* It holds in the initial state: no process anywhere, all threads working. *)
LEMMA InitIInv == Init => IInv
<1> SUFFICES ASSUME Init PROVE IInv
  OBVIOUS
<1>a. /\ CPUs \subseteq Devices /\ Loader \in Devices /\ NumProcs \in Nat
      /\ MaxQueue \in Nat /\ TimeSlot \in Nat /\ TimeCap \in Nat
      /\ CPUs # {}
  BY OSAssumption, ClockAssumption
<1>1. \A k \in Prios : ready[k] = << >> /\ Len(ready[k]) = 0 /\ DOMAIN ready[k] = {}
  BY DEF Init
<1>2. \A p \in Procs : ~Queued(p) /\ ~Held(p)
  BY <1>1, OSAssumption DEF Init, Queued, Held
<1>3. ready \in [Prios -> Seq(Procs)]
  BY DEF Init
<1>4. \A p \in Procs : job[p].size \in Nat
  <2> SUFFICES ASSUME NEW p \in Procs PROVE job[p].size \in Nat
    OBVIOUS
  <2>1. job[p] \in [start : 0 .. TimeCap, prio : Prios, size : Nat]
    BY OSAssumption DEF Init
  <2> QED
    BY <2>1
<1>5. ClockTypeOK
  BY <1>a DEF Init, ClockInit, ClockTypeOK, Phases
<1>6. TypeOK
  <2>1. /\ job \in [Procs -> Jobs] /\ pc \in [Procs -> Nat]
        /\ \A p \in Procs : pc[p] <= job[p].size
    BY <1>4 DEF Init
  <2>2. loc \in [CPUs -> CpuLocs] /\ proc \in [CPUs -> Procs \cup {NoProc}]
    BY DEF Init, CpuLocs
  <2>3. time_left \in [CPUs -> Quantum]
    BY <1>a DEF Init, Quantum
  <2>4. \A k \in Prios : Len(ready[k]) <= MaxQueue
    BY <1>a, <1>1
  <2>5. /\ freed \subseteq Procs /\ ldLoc \in LdLocs /\ done \in BOOLEAN
        /\ ldNext \in 1 .. NumProcs + 1
    <3>1. freed = {} /\ ldLoc = "load" /\ done = FALSE /\ ldNext = 1
      BY DEF Init
    <3>2. freed \subseteq Procs
      BY <3>1
    <3>3. ldLoc \in LdLocs /\ done \in BOOLEAN
      BY <3>1 DEF LdLocs
    <3>4. ldNext \in 1 .. NumProcs + 1
      BY <1>a, <3>1
    <3> QED
      BY <3>2, <3>3, <3>4
  <2> QED
    BY <1>3, <1>5, <2>1, <2>2, <2>3, <2>4, <2>5 DEF TypeOK
<1>7. Places
  BY <1>1, <1>2 DEF Places, QueuedOnce, HeldOnce, Apart, NewNowhere, Init
<1>8. FreedFinished /\ FreshQuantum /\ SomeoneLooks /\ NoneLost
  BY <1>2 DEF FreedFinished, FreshQuantum, SomeoneLooks, NoneLost, Init, Procs
<1>9. CpuPlace /\ LoaderPlace
  BY <1>a DEF CpuPlace, LoaderPlace, Init, ClockInit
<1> QED
  BY <1>6, <1>7, <1>8, <1>9 DEF IInv

(* The steps that leave every process where it is keep the part of the     *)
(* invariant that is about places.                                         *)
LEMMA SamePlaces ==
  ASSUME TypeOK, Places, UNCHANGED <<ready, proc, freed, ldNext>>
  PROVE  /\ Places'
         /\ \A p \in Procs : (Queued(p)' <=> Queued(p)) /\ (Held(p)' <=> Held(p))
<1>1. \A p \in Procs : (Queued(p)' <=> Queued(p)) /\ (Held(p)' <=> Held(p))
  BY DEF Queued, Held
<1> QED
  BY <1>1 DEF Places, QueuedOnce, HeldOnce, Apart, NewNowhere, TypeOK

(* The steps of a CPU in which it calls get_proc() with empty hands.       *)
LEMMA GetSteps ==
  ASSUME IInv, NEW c \in CPUs, CpuIdle(c) \/ CpuFetch(c)
  PROVE  IInv'
<1>a. /\ CPUs \subseteq Devices /\ NoProc \notin Procs
  BY OSAssumption
<1>1. /\ proc[c] = NoProc /\ GetProc(c) /\ phase[c] = "working"
      /\ loc[c] \in {"top", "fetch"}
      /\ \/ loc' = [loc EXCEPT ![c] = "end"] /\ proc'[c] = NoProc
         \/ loc' = [loc EXCEPT ![c] = "recheck"]
      /\ UNCHANGED <<time, phase, job, pc, freed, time_left, ldVars>>
  BY DEF IInv, CpuPlace, CpuIdle, CpuFetch, At, Goto
<1>2. UNCHANGED <<time, phase, job, pc, freed, time_left, ldLoc, ldNext, done>>
  BY <1>1 DEF ldVars
<1>3. /\ Places'
      /\ NoneLost => NoneLost'
      /\ proc' \in [CPUs -> Procs \cup {NoProc}]
      /\ \A d \in CPUs : d # c => proc'[d] = proc[d]
      /\ proc'[c] = NoProc => \A p \in Procs : ~Queued(p)'
  BY <1>1, <1>2, GetPlaces DEF IInv
<1>4. /\ ready' \in [Prios -> Seq(Procs)]
      /\ \A k \in Prios : Len(ready'[k]) <= MaxQueue
  BY <1>1, GetQueues DEF IInv, Places
<1>5. \/ loc' = [loc EXCEPT ![c] = "end"] /\ proc'[c] = NoProc
      \/ loc' = [loc EXCEPT ![c] = "recheck"]
  BY <1>1
<1>6. /\ loc' \in [CPUs -> CpuLocs]
      /\ loc'[c] \in {"end", "recheck"}
      /\ loc'[c] = "end" => proc'[c] = NoProc
      /\ \A d \in CPUs : d # c => loc'[d] = loc[d]
  <2>1. loc \in [CPUs -> CpuLocs]
    BY DEF IInv, TypeOK
  <2> QED
    BY <1>5, <2>1 DEF CpuLocs
<1>7. TypeOK'
  BY <1>2, <1>3, <1>4, <1>6 DEF IInv, TypeOK, ClockTypeOK
<1>8. FreedFinished'
  BY <1>2 DEF IInv, FreedFinished, Finished
<1>9. CpuPlace'
  <2> SUFFICES ASSUME NEW d \in CPUs
               PROVE  /\ loc'[d] = "fetch" => proc'[d] = NoProc
                      /\ loc'[d] = "stopped" => proc'[d] = NoProc /\ done'
                      /\ loc'[d] = "stopped" <=> phase'[d] = "finished"
                      /\ phase'[d] = "waiting" => loc'[d] = "top"
    BY DEF CpuPlace
  <2>1. CASE d = c
    BY <2>1, <1>1, <1>2, <1>6
  <2>2. CASE d # c
    BY <2>2, <1>2, <1>3, <1>6 DEF IInv, CpuPlace
  <2> QED
    BY <2>1, <2>2
<1>10. LoaderPlace'
  BY <1>2 DEF IInv, LoaderPlace
<1>11. FreshQuantum'
  BY <1>1, <1>2, <1>3 DEF IInv, FreshQuantum
<1>12. SomeoneLooks'
  <2>1. CASE proc'[c] = NoProc
    BY <2>1, <1>3 DEF SomeoneLooks
  <2>2. CASE proc'[c] # NoProc
    <3>1. Active(c)'
      BY <2>2, <1>6 DEF Active
    <3> QED
      BY <3>1 DEF SomeoneLooks
  <2> QED
    BY <2>1, <2>2
<1> QED
  BY <1>3, <1>7, <1>8, <1>9, <1>10, <1>11, <1>12 DEF IInv

(* A finished process is freed, and its CPU will look for another one.     *)
LEMMA FinishStep ==
  ASSUME IInv, NEW c \in CPUs, CpuFinish(c)
  PROVE  IInv'
<1>a. NoProc \notin Procs /\ TimeSlot \in Nat
  BY OSAssumption
<1>1. /\ phase[c] = "working" /\ loc[c] = "top"
      /\ proc[c] # NoProc /\ Finished(proc[c])
      /\ freed' = freed \cup {proc[c]}
      /\ proc' = [proc EXCEPT ![c] = NoProc]
      /\ time_left' = [time_left EXCEPT ![c] = 0]
      /\ loc' = [loc EXCEPT ![c] = "fetch"]
      /\ UNCHANGED <<time, phase, job, ready, pc, ldLoc, ldNext, done>>
  BY DEF CpuFinish, At, Goto, ldVars
<1>t. /\ proc \in [CPUs -> Procs \cup {NoProc}]
      /\ loc \in [CPUs -> CpuLocs]
      /\ time_left \in [CPUs -> Quantum]
  BY DEF IInv, TypeOK
<1>2. PICK p \in Procs : p = proc[c]
  BY <1>1, <1>t
<1>3. /\ loc' \in [CPUs -> CpuLocs] /\ loc'[c] = "fetch"
      /\ \A d \in CPUs : d # c => loc'[d] = loc[d]
  BY <1>1, <1>t DEF CpuLocs
<1>4. /\ proc' \in [CPUs -> Procs \cup {NoProc}] /\ proc'[c] = NoProc
      /\ \A d \in CPUs : d # c => proc'[d] = proc[d] /\ proc[d] # p
  BY <1>1, <1>t, <1>2 DEF IInv, Places, HeldOnce
<1>5. /\ time_left' \in [CPUs -> Quantum] /\ time_left'[c] = 0
      /\ \A d \in CPUs : d # c => time_left'[d] = time_left[d]
  BY <1>1, <1>t, <1>a DEF Quantum
<1>6. \A q \in Procs : (Queued(q)' <=> Queued(q)) /\ (Held(q)' <=> Held(q) /\ q # p)
  <2>1. \A q \in Procs : Queued(q)' <=> Queued(q)
    BY <1>1 DEF Queued
  <2>2. \A q \in Procs : Held(q)' <=> Held(q) /\ q # p
    BY <1>a, <1>2, <1>4 DEF Held
  <2> QED
    BY <2>1, <2>2
<1>7. Held(p) /\ ~Queued(p) /\ p < ldNext /\ freed' = freed \cup {p} /\ Finished(p)
  BY <1>1, <1>2 DEF Held, IInv, Places, Apart, NewNowhere, TypeOK, Procs
<1>8. TypeOK'
  BY <1>1, <1>3, <1>4, <1>5, <1>7 DEF IInv, TypeOK, ClockTypeOK
<1>9. Places'
  <2>1. QueuedOnce'
    BY <1>1 DEF IInv, Places, QueuedOnce
  <2>2. HeldOnce'
    BY <1>4 DEF IInv, Places, HeldOnce
  <2>3. Apart'
    BY <1>6, <1>7 DEF IInv, Places, Apart, TypeOK
  <2>4. NewNowhere'
    BY <1>1, <1>6, <1>7 DEF IInv, Places, NewNowhere, TypeOK, Procs
  <2> QED
    BY <2>1, <2>2, <2>3, <2>4 DEF Places
<1>10. FreedFinished'
  BY <1>1, <1>7 DEF IInv, FreedFinished, Finished
<1>11. CpuPlace'
  BY <1>1, <1>3, <1>4 DEF IInv, CpuPlace
<1>12. LoaderPlace'
  BY <1>1 DEF IInv, LoaderPlace
<1>13. FreshQuantum'
  BY <1>4, <1>5 DEF IInv, FreshQuantum
<1>14. SomeoneLooks'
  BY <1>3 DEF SomeoneLooks, Active
<1>15. Capacity => NoneLost'
  BY <1>1, <1>6, <1>7 DEF IInv, NoneLost, Finished
<1> QED
  BY <1>8, <1>9, <1>10, <1>11, <1>12, <1>13, <1>14, <1>15 DEF IInv

(* The process whose quantum is used up goes back to its queue.            *)
LEMMA PutStep ==
  ASSUME IInv, NEW c \in CPUs, CpuPut(c)
  PROVE  IInv'
<1>a. NoProc \notin Procs
  BY OSAssumption
<1>1. /\ phase[c] = "working" /\ loc[c] = "top"
      /\ proc[c] # NoProc /\ time_left[c] = 0
      /\ PutProc(proc[c])
      /\ proc' = [proc EXCEPT ![c] = NoProc]
      /\ loc' = [loc EXCEPT ![c] = "fetch"]
      /\ UNCHANGED <<time, phase, job, pc, freed, time_left, ldLoc, ldNext, done>>
  BY DEF CpuPut, At, Goto, ldVars
<1>t. /\ proc \in [CPUs -> Procs \cup {NoProc}]
      /\ loc \in [CPUs -> CpuLocs]
  BY DEF IInv, TypeOK
<1>2. PICK p \in Procs : p = proc[c]
  BY <1>1, <1>t
<1>3. /\ loc' \in [CPUs -> CpuLocs] /\ loc'[c] = "fetch"
      /\ \A d \in CPUs : d # c => loc'[d] = loc[d]
  BY <1>1, <1>t DEF CpuLocs
<1>4. /\ proc' \in [CPUs -> Procs \cup {NoProc}] /\ proc'[c] = NoProc
      /\ \A d \in CPUs : d # c => proc'[d] = proc[d]
  BY <1>1, <1>t
<1>5. PutProc(p)
  BY <1>1, <1>2
<1>6. Places' /\ (Capacity => NoneLost')
  BY <1>1, <1>2, <1>5, PutPlaces DEF IInv
<1>7. ~Queued(p)
  BY <1>2 DEF IInv, Places, Apart, Held
<1>8. /\ ready' \in [Prios -> Seq(Procs)]
      /\ \A k \in Prios : Len(ready'[k]) <= MaxQueue
  BY <1>5, <1>7, PutQueues DEF IInv, Places
<1>9. TypeOK'
  BY <1>1, <1>3, <1>4, <1>8 DEF IInv, TypeOK, ClockTypeOK
<1>10. FreedFinished' /\ LoaderPlace'
  BY <1>1 DEF IInv, FreedFinished, Finished, LoaderPlace
<1>11. CpuPlace'
  BY <1>1, <1>3, <1>4 DEF IInv, CpuPlace
<1>12. FreshQuantum'
  BY <1>1, <1>4 DEF IInv, FreshQuantum
<1>13. SomeoneLooks'
  BY <1>3 DEF SomeoneLooks, Active
<1> QED
  BY <1>6, <1>9, <1>10, <1>11, <1>12, <1>13 DEF IInv

(* An instruction keeps the program counter within the code, and the       *)
(* quantum within its bounds.                                              *)
LEMMA RunStep ==
  ASSUME IInv, NEW c \in CPUs, CpuRun(c)
  PROVE  IInv'
<1>a. NoProc \notin Procs /\ TimeSlot \in Nat
  BY OSAssumption
<1>1. /\ phase[c] = "working" /\ proc[c] # NoProc
      /\ pc' = IF Finished(proc[c]) THEN pc ELSE [pc EXCEPT ![proc[c]] = @ + 1]
      /\ time_left' =
           [time_left EXCEPT ![c] = (IF @ = 0 THEN TimeSlot ELSE @) - 1]
      /\ loc' = [loc EXCEPT ![c] = "end"]
      /\ UNCHANGED <<time, phase, job, ready, freed, proc, ldLoc, ldNext, done>>
  BY DEF CpuRun, At, Goto, ldVars
<1>t. /\ proc \in [CPUs -> Procs \cup {NoProc}]
      /\ loc \in [CPUs -> CpuLocs]
      /\ time_left \in [CPUs -> Quantum]
      /\ pc \in [Procs -> Nat] /\ \A q \in Procs : pc[q] <= job[q].size
  BY DEF IInv, TypeOK
<1>2. PICK p \in Procs : p = proc[c]
  BY <1>1, <1>t
<1>3. /\ loc' \in [CPUs -> CpuLocs] /\ loc'[c] = "end"
      /\ \A d \in CPUs : d # c => loc'[d] = loc[d]
  BY <1>1, <1>t DEF CpuLocs
<1>4. /\ time_left' \in [CPUs -> Quantum]
      /\ \A d \in CPUs : d # c => time_left'[d] = time_left[d]
  <2>1. \A t \in Quantum : (IF t = 0 THEN TimeSlot ELSE t) - 1 \in Quantum
    BY <1>a DEF Quantum
  <2> QED
    BY <1>1, <1>t, <2>1
<1>5. /\ pc' \in [Procs -> Nat] /\ \A q \in Procs : pc'[q] <= job[q].size
      /\ \A q \in Procs : Finished(q) => pc'[q] = pc[q]
  <2>1. job[p].size \in Nat
    BY JobTypes DEF IInv
  <2>2. pc' = IF Finished(p) THEN pc ELSE [pc EXCEPT ![p] = @ + 1]
    BY <1>1, <1>2
  <2> QED
    BY <1>t, <2>1, <2>2 DEF Finished
<1>6. Places' /\ \A q \in Procs : (Queued(q)' <=> Queued(q)) /\ (Held(q)' <=> Held(q))
  BY <1>1, SamePlaces DEF IInv
<1>7. TypeOK'
  BY <1>1, <1>3, <1>4, <1>5 DEF IInv, TypeOK, ClockTypeOK
<1>8. FreedFinished'
  BY <1>1, <1>5 DEF IInv, FreedFinished, Finished, TypeOK
<1>9. CpuPlace'
  BY <1>1, <1>3 DEF IInv, CpuPlace
<1>10. LoaderPlace'
  BY <1>1 DEF IInv, LoaderPlace
<1>11. FreshQuantum'
  BY <1>1, <1>4 DEF IInv, FreshQuantum
<1>12. SomeoneLooks'
  BY <1>3 DEF SomeoneLooks, Active
<1>13. Capacity => NoneLost'
  BY <1>1, <1>5, <1>6 DEF IInv, NoneLost, Finished
<1> QED
  BY <1>6, <1>7, <1>8, <1>9, <1>10, <1>11, <1>12, <1>13 DEF IInv

(* A CPU without a process stops, when done is set, or ends its slot.      *)
LEMMA LeaveStep ==
  ASSUME IInv, NEW c \in CPUs, CpuStop(c) \/ CpuSkip(c) \/ CpuNextSlot(c)
  PROVE  IInv'
<1>a. c \in Devices /\ c # Loader /\ Loader \in Devices
  BY OSAssumption
<1>1. /\ UNCHANGED <<time, job, ready, pc, freed, proc, time_left, ldLoc,
                     ldNext, done>>
      /\ \/ /\ loc[c] = "recheck" /\ proc[c] = NoProc /\ done
            /\ phase' = [phase EXCEPT ![c] = "finished"]
            /\ loc' = [loc EXCEPT ![c] = "stopped"]
         \/ /\ loc[c] = "recheck" /\ proc[c] = NoProc
            /\ phase' = phase
            /\ loc' = [loc EXCEPT ![c] = "end"]
         \/ /\ phase' = [phase EXCEPT ![c] = "waiting"]
            /\ loc[c] = "end"
            /\ loc' = [loc EXCEPT ![c] = "top"]
      /\ phase[c] = "working"
  BY DEF CpuStop, CpuSkip, CpuNextSlot, At, Goto, ldVars, NextSlot, DetachEvent
<1>t. /\ loc \in [CPUs -> CpuLocs] /\ phase \in [Devices -> Phases]
      /\ time \in 0 .. TimeCap
  BY DEF IInv, TypeOK, ClockTypeOK
<1>2. /\ loc' \in [CPUs -> CpuLocs]
      /\ \A d \in CPUs : d # c => loc'[d] = loc[d]
  BY <1>1, <1>t DEF CpuLocs
<1>3. /\ phase' \in [Devices -> Phases]
      /\ \A d \in Devices : d # c => phase'[d] = phase[d]
  BY <1>1, <1>t, <1>a DEF Phases
<1>4. \/ /\ loc'[c] = "stopped" /\ phase'[c] = "finished" /\ done
         /\ proc[c] = NoProc /\ loc[c] = "recheck"
      \/ loc'[c] = "end" /\ phase'[c] = "working"
      \/ loc'[c] = "top" /\ phase'[c] = "waiting"
  BY <1>1, <1>t, <1>a DEF Phases, CpuLocs
<1>5. Places' /\ \A q \in Procs : (Queued(q)' <=> Queued(q)) /\ (Held(q)' <=> Held(q))
  BY <1>1, SamePlaces DEF IInv
<1>6. TypeOK'
  BY <1>1, <1>2, <1>3 DEF IInv, TypeOK, ClockTypeOK
<1>7. FreedFinished' /\ FreshQuantum'
  BY <1>1 DEF IInv, FreedFinished, Finished, FreshQuantum
<1>8. CpuPlace'
  <2> SUFFICES ASSUME NEW d \in CPUs
               PROVE  /\ loc'[d] = "fetch" => proc'[d] = NoProc
                      /\ loc'[d] = "stopped" => proc'[d] = NoProc /\ done'
                      /\ loc'[d] = "stopped" <=> phase'[d] = "finished"
                      /\ phase'[d] = "waiting" => loc'[d] = "top"
    BY DEF CpuPlace
  <2>1. CASE d = c
    BY <2>1, <1>1, <1>4
  <2>2. CASE d # c
    <3>1. d \in Devices
      BY OSAssumption
    <3> QED
      BY <2>2, <3>1, <1>1, <1>2, <1>3 DEF IInv, CpuPlace
  <2> QED
    BY <2>1, <2>2
<1>9. LoaderPlace'
  BY <1>1, <1>3, <1>a DEF IInv, LoaderPlace
<1>10. SomeoneLooks'
  <2>1. \A d \in CPUs : Active(d) => Active(d)'
    BY <1>1, <1>2, <1>4 DEF Active
  <2>2. phase'[Loader] = phase[Loader]
    BY <1>3, <1>a
  <2> QED
    BY <1>1, <1>5, <2>1, <2>2 DEF IInv, SomeoneLooks
<1>11. Capacity => NoneLost'
  BY <1>1, <1>5 DEF IInv, NoneLost, Finished
<1> QED
  BY <1>5, <1>6, <1>7, <1>8, <1>9, <1>10, <1>11 DEF IInv

(* add_proc() puts a process that was nowhere into its queue.              *)
LEMMA AddStep == ASSUME IInv, LdAdd PROVE IInv'
<1>a. /\ Loader \in Devices /\ NumProcs \in Nat /\ NoProc \notin Procs
  BY OSAssumption
<1>1. /\ phase[Loader] = "working" /\ ldLoc = "wait" /\ ldLoc' = "end"
      /\ ldNext' = ldNext + 1 /\ PutProc(ldNext)
      /\ UNCHANGED <<time, phase, job, pc, freed, loc, proc, time_left, done>>
  BY DEF LdAdd, LdAt, cpuVars
<1>t. ldNext \in 1 .. NumProcs + 1
  BY DEF IInv, TypeOK
<1>2. PICK p \in Procs : p = ldNext
  BY <1>1, <1>t, <1>a DEF IInv, LoaderPlace, Procs
<1>3. ~Queued(p) /\ ~Held(p) /\ p \notin freed
  BY <1>2, <1>t DEF IInv, Places, NewNowhere
<1>4. PutProc(p) /\ ldNext' = p + 1
  BY <1>1, <1>2
<1>5. /\ ready' \in [Prios -> Seq(Procs)]
      /\ \A k \in Prios : Len(ready'[k]) <= MaxQueue
      /\ QueuedOnce'
      /\ \A q \in Procs : Queued(q)' => Queued(q) \/ q = p
      /\ \A q \in Procs : Queued(q) => Queued(q)'
      /\ Capacity => Queued(p)'
  BY <1>3, <1>4, PutQueues DEF IInv, Places
<1>6. \A q \in Procs : Held(q)' <=> Held(q)
  BY <1>1 DEF Held
<1>7. ldNext' \in 1 .. NumProcs + 1
  BY <1>4, <1>a DEF Procs
<1>8. TypeOK'
  BY <1>1, <1>5, <1>7 DEF IInv, TypeOK, ClockTypeOK, LdLocs
<1>9. HeldOnce' /\ Apart'
  BY <1>1, <1>3, <1>5, <1>6 DEF IInv, Places, HeldOnce, Apart, TypeOK
<1>10. NewNowhere'
  BY <1>1, <1>2, <1>4, <1>5, <1>6 DEF IInv, Places, NewNowhere, Procs
<1>11. FreedFinished' /\ FreshQuantum' /\ CpuPlace'
  BY <1>1 DEF IInv, FreedFinished, Finished, FreshQuantum, CpuPlace
<1>12. LoaderPlace' /\ SomeoneLooks'
  BY <1>1 DEF IInv, LoaderPlace, SomeoneLooks
<1>13. Capacity => NoneLost'
  <2> SUFFICES ASSUME Capacity, NEW q \in Procs, q < ldNext'
               PROVE  Queued(q)' \/ Held(q)' \/ (q \in freed' /\ Finished(q)')
    BY DEF NoneLost
  <2>1. CASE q = p
    BY <2>1, <1>5
  <2>2. CASE q # p
    <3>1. q < ldNext
      BY <2>2, <1>2, <1>4 DEF Procs
    <3> QED
      BY <3>1, <1>1, <1>5, <1>6 DEF IInv, NoneLost, Finished
  <2> QED
    BY <2>1, <2>2
<1> QED
  BY <1>5, <1>8, <1>9, <1>10, <1>11, <1>12, <1>13 DEF IInv, Places

(* The other steps of the loader leave the processes where they are.       *)
LEMMA LoaderStep ==
  ASSUME IInv, LdLoad \/ LdWait \/ LdNextSlot \/ LdDone \/ LdDetach
  PROVE  IInv'
<1>a. /\ Loader \in Devices /\ Loader \notin CPUs /\ CPUs \subseteq Devices
      /\ NumProcs \in Nat
  BY OSAssumption
<1>t. /\ phase \in [Devices -> Phases] /\ ldLoc \in LdLocs
      /\ ldNext \in 1 .. NumProcs + 1 /\ done \in BOOLEAN
  BY DEF IInv, TypeOK, ClockTypeOK
<1>1. /\ UNCHANGED <<time, job, ready, pc, freed, loc, proc, time_left, ldNext>>
      /\ phase[Loader] = "working"
      /\ \/ /\ ldLoc = "load" /\ ldNext <= NumProcs
            /\ ldLoc' = "wait" /\ done' = done /\ phase' = phase
         \/ /\ ldLoc = "wait" /\ ldLoc' = "wait" /\ done' = done
            /\ phase' = [phase EXCEPT ![Loader] = "waiting"]
         \/ /\ ldLoc = "end" /\ ldLoc' = "load" /\ done' = done
            /\ phase' = [phase EXCEPT ![Loader] = "waiting"]
         \/ /\ ldLoc = "load" /\ ldNext > NumProcs
            /\ ldLoc' = "detach" /\ done' = TRUE /\ phase' = phase
         \/ /\ ldLoc = "detach" /\ ldLoc' = "stopped" /\ done' = done
            /\ phase' = [phase EXCEPT ![Loader] = "finished"]
  BY DEF LdLoad, LdWait, LdNextSlot, LdDone, LdDetach, LdAt, cpuVars, ldVars,
         NextSlot, DetachEvent
<1>2. /\ phase' \in [Devices -> Phases]
      /\ \A c \in CPUs : phase'[c] = phase[c]
  BY <1>1, <1>a, <1>t DEF Phases
<1>3. \/ /\ ldLoc = "load" /\ ldNext <= NumProcs
         /\ ldLoc' = "wait" /\ done' = done /\ phase'[Loader] = "working"
      \/ /\ ldLoc = "wait" /\ ldLoc' = "wait" /\ done' = done
         /\ phase'[Loader] = "waiting"
      \/ /\ ldLoc = "end" /\ ldLoc' = "load" /\ done' = done
         /\ phase'[Loader] = "waiting"
      \/ /\ ldLoc = "load" /\ ldNext > NumProcs
         /\ ldLoc' = "detach" /\ done' = TRUE /\ phase'[Loader] = "working"
      \/ /\ ldLoc = "detach" /\ ldLoc' = "stopped" /\ done' = done
         /\ phase'[Loader] = "finished"
  BY <1>1, <1>a, <1>t
<1>4. Places' /\ \A q \in Procs : (Queued(q)' <=> Queued(q)) /\ (Held(q)' <=> Held(q))
  BY <1>1, SamePlaces DEF IInv
<1>5. TypeOK'
  <2>1. ldLoc' \in LdLocs /\ done' \in BOOLEAN
    BY <1>3, <1>t DEF LdLocs
  <2> QED
    BY <1>1, <1>2, <2>1 DEF IInv, TypeOK, ClockTypeOK
<1>6. FreedFinished' /\ FreshQuantum'
  BY <1>1 DEF IInv, FreedFinished, Finished, FreshQuantum
<1>7. CpuPlace'
  BY <1>1, <1>2, <1>3 DEF IInv, CpuPlace
<1>8. LoaderPlace'
  BY <1>1, <1>3, <1>t, <1>a DEF IInv, LoaderPlace
<1>9. SomeoneLooks'
  <2>1. \A c \in CPUs : Active(c) => Active(c)'
    BY <1>1 DEF Active
  <2>2. \/ done \/ (ldLoc = "load" /\ phase[Loader] = "working")
        \/ ~(done \/ (ldLoc = "load" /\ phase[Loader] = "working"))'
    BY <1>1, <1>3
  <2> QED
    BY <1>4, <2>1, <2>2 DEF IInv, SomeoneLooks
<1>10. Capacity => NoneLost'
  BY <1>1, <1>4 DEF IInv, NoneLost, Finished
<1> QED
  BY <1>4, <1>5, <1>6, <1>7, <1>8, <1>9, <1>10 DEF IInv

(* A round of the timer releases the waiting threads into the new slot,    *)
(* the CPUs among them at the top of their loop.                           *)
LEMMA TimerStep == ASSUME IInv, TimerRound PROVE IInv'
<1>a. /\ Loader \in Devices /\ CPUs \subseteq Devices /\ CPUs # {}
      /\ TimeCap \in Nat
  BY OSAssumption, ClockAssumption
<1>t. /\ phase \in [Devices -> Phases] /\ time \in 0 .. TimeCap
      /\ done \in BOOLEAN
  BY DEF IInv, TypeOK, ClockTypeOK
<1>1. /\ \A d \in Devices : phase[d] # "working"
      /\ time' = AdvanceTime(time)
      /\ phase' = [d \in Devices |->
                     IF phase[d] = "waiting" THEN "working" ELSE phase[d]]
      /\ UNCHANGED <<job, ready, pc, freed, loc, proc, time_left, ldLoc,
                     ldNext, done>>
  BY DEF TimerRound, Tick, cpuVars, ldVars
<1>2. /\ phase' \in [Devices -> Phases]
      /\ \A d \in Devices : /\ phase'[d] # "waiting"
                            /\ phase'[d] = "finished" <=> phase[d] = "finished"
  BY <1>1, <1>t DEF Phases
<1>3. Places' /\ \A q \in Procs : (Queued(q)' <=> Queued(q)) /\ (Held(q)' <=> Held(q))
  BY <1>1, SamePlaces DEF IInv
<1>4. TypeOK'
  <2>1. time' \in 0 .. TimeCap
    BY <1>1, <1>t, <1>a DEF AdvanceTime
  <2> QED
    BY <1>1, <1>2, <2>1 DEF IInv, TypeOK, ClockTypeOK
<1>5. FreedFinished' /\ FreshQuantum'
  BY <1>1 DEF IInv, FreedFinished, Finished, FreshQuantum
<1>6. CpuPlace' /\ LoaderPlace'
  BY <1>1, <1>2, <1>a DEF IInv, CpuPlace, LoaderPlace
<1>7. SomeoneLooks'
  <2>1. \A c \in CPUs : Active(c)' <=> Active(c)
    BY <1>1 DEF Active
  <2>2. CASE done
    BY <2>1, <2>2, <1>1, <1>3 DEF IInv, SomeoneLooks
  <2>3. CASE ~done
    <3>1. \A c \in CPUs : loc[c] = "top"
      BY <2>3, <1>1, <1>a, <1>t DEF IInv, CpuPlace, Phases
    <3> QED
      BY <2>1, <3>1, <1>a DEF Active, SomeoneLooks
  <2> QED
    BY <2>2, <2>3
<1>8. Capacity => NoneLost'
  BY <1>1, <1>3 DEF IInv, NoneLost, Finished
<1> QED
  BY <1>3, <1>4, <1>5, <1>6, <1>7, <1>8 DEF IInv

(* Every step of the system keeps the invariant.                           *)
LEMMA NextIInv == IInv /\ [Next]_vars => IInv'
<1> SUFFICES ASSUME IInv, [Next]_vars PROVE IInv'
  OBVIOUS
<1>1. CASE TimerRound
  BY <1>1, TimerStep
<1>2. CASE LdStep
  BY <1>2, AddStep, LoaderStep DEF LdStep
<1>3. ASSUME NEW c \in CPUs, CpuStep(c) PROVE IInv'
  BY <1>3, GetSteps, FinishStep, PutStep, RunStep, LeaveStep DEF CpuStep
<1>4. CASE UNCHANGED vars
  <2>1. UNCHANGED <<time, phase, job, ready, pc, freed, loc, proc, time_left,
                    ldLoc, ldNext, done>>
    BY <1>4 DEF vars, cpuVars, ldVars
  <2>2. Places' /\ \A q \in Procs : (Queued(q)' <=> Queued(q)) /\ (Held(q)' <=> Held(q))
    BY <2>1, SamePlaces DEF IInv
  <2>3. TypeOK' /\ FreedFinished' /\ FreshQuantum'
    BY <2>1 DEF IInv, TypeOK, ClockTypeOK, FreedFinished, Finished, FreshQuantum
  <2>4. CpuPlace' /\ LoaderPlace'
    BY <2>1 DEF IInv, CpuPlace, LoaderPlace
  <2>5. SomeoneLooks' /\ (Capacity => NoneLost')
    BY <2>1, <2>2 DEF IInv, SomeoneLooks, Active, NoneLost, Finished
  <2> QED
    BY <2>2, <2>3, <2>4, <2>5 DEF IInv
<1> QED
  BY <1>1, <1>2, <1>3, <1>4 DEF Next, MainReturns

-----------------------------------------------------------------------------
(* Theorems *)

(* The conjunction above is an invariant of the kernel, whatever the       *)
(* number of CPUs and processes and however their threads interleave.      *)
THEOREM Invariance == Spec => []IInv
<1> QED
  BY InitIInv, NextIInv, PTL DEF Spec

(* No ready queue grows past its array, no quantum past time_slot, and no  *)
(* program counter past the code.                                          *)
THEOREM TypeCorrect == Spec => []TypeOK
<1>1. IInv => TypeOK
  BY DEF IInv
<1> QED
  BY <1>1, Invariance, PTL

(* Whatever the threads do between their calls of get_proc() and           *)
(* put_proc(), no process is queued twice, run by two CPUs, queued while   *)
(* it runs, or reached once it is freed.                                   *)
THEOREM Exclusive == Spec => []OnePlace
<1>1. IInv => OnePlace
  BY DEF IInv, Places, QueuedOnce, HeldOnce, Apart, OnePlace
<1> QED
  BY <1>1, Invariance, PTL

(* If a ready queue can hold every process, enqueue() never drops one: a   *)
(* process that was added is queued or held until it has executed its      *)
(* code.                                                                   *)
THEOREM NothingLost == ASSUME Capacity PROVE Spec => []NoneLost
<1>1. IInv => NoneLost
  BY DEF IInv
<1> QED
  BY <1>1, Invariance, PTL

(* Under the same assumption, reading done without a lock is harmless:     *)
(* when the last CPU has stopped, every process has run to its end.        *)
THEOREM NobodyStranded == ASSUME Capacity PROVE Spec => []NoneStranded
<1>1. IInv => NoneStranded
  <2> SUFFICES ASSUME IInv, \A c \in CPUs : loc[c] = "stopped"
               PROVE  freed = Procs
    BY DEF NoneStranded
  <2>1. done /\ ldNext = NumProcs + 1
    BY OSAssumption DEF IInv, CpuPlace, LoaderPlace
  <2>2. \A p \in Procs : ~Queued(p)
    BY <2>1 DEF IInv, SomeoneLooks, Active
  <2>3. \A p \in Procs : ~Held(p)
    BY OSAssumption DEF IInv, CpuPlace, Held
  <2>4. \A p \in Procs : p \in freed
    BY <2>1, <2>2, <2>3, OSAssumption DEF IInv, NoneLost, Procs
  <2> QED
    BY <2>4 DEF IInv, TypeOK
<1> QED
  BY <1>1, Invariance, PTL
=============================================================================
