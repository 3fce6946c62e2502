---------------------------------- MODULE OS ----------------------------------
(***************************************************************************)
(* The simulated kernel: the loader thread and the CPU threads of os.c,    *)
(* the multi-level ready queue of sched.c and queue.c they share, and the  *)
(* instruction step of cpu.c, synchronised by the slot barrier of          *)
(* SlotClock.  What an instruction does to memory is left to the memory    *)
(* modules: here it advances the program counter.                          *)
(*                                                                         *)
(* An action is what a thread does between two accesses to shared state:   *)
(* one critical section of queue_lock, one access to done, one call into   *)
(* the timer.                                                              *)
(***************************************************************************)
EXTENDS SlotClock, Integers, Sequences, FiniteSets

CONSTANTS
  CPUs,        (* the CPU threads (num_cpus of them)                         *)
  Loader,      (* the loader thread                                          *)
  NumProcs,    (* num_processes: how many lines the configuration file has   *)
  Jobs,        (* what such a line and its process file may say: records of  *)
               (* a start time, a priority and a code size                   *)
  MaxPrio,     (* MAX_PRIO: priorities are 0 .. MaxPrio - 1, 0 the highest   *)
  MaxQueue,    (* MAX_QUEUE_SIZE: the capacity of one ready queue            *)
  TimeSlot,    (* time_slot: the quantum, in slots                           *)
  NoProc       (* the NULL process pointer                                   *)

Procs == 1 .. NumProcs   \* pids: load() numbers the processes from 1
Prios == 0 .. MaxPrio - 1

ASSUME OSAssumption ==
  /\ Devices = CPUs \cup {Loader}
  /\ Loader \notin CPUs
  /\ CPUs # {} /\ IsFiniteSet(CPUs)
  /\ NumProcs \in Nat
  /\ MaxPrio \in Nat \ {0}
  /\ MaxQueue \in Nat
  /\ TimeSlot \in Nat
  /\ NoProc \notin Procs
  /\ Jobs \subseteq [start : 0 .. TimeCap, prio : Prios, size : Nat]
  /\ CPUs \cap {"new", "ready", "finished"} = {}

VARIABLES
  job,         (* per process: the input, fixed for a run                    *)
  ready,       (* mlq_ready_queue: per priority, the queued processes        *)
  pc,          (* per process: its program counter                           *)
  freed,       (* the processes whose PCB has been freed (they finished)     *)
  loc,         (* per CPU: where its thread is in cpu_routine()              *)
  proc,        (* per CPU: the process it holds, or NoProc                   *)
  time_left,   (* per CPU: what is left of the quantum                       *)
  ldLoc,       (* where the loader is in ld_routine()                        *)
  ldNext,      (* the process it loads next (i, counted from 1)              *)
  done         (* set by the loader when it has added every process          *)

cpuVars == <<loc, proc, time_left>>
ldVars == <<ldLoc, ldNext, done>>
vars == <<time, phase, job, ready, pc, freed, cpuVars, ldVars>>

CpuLocs == {"top", "fetch", "recheck", "end", "stopped"}
LdLocs == {"load", "wait", "end", "detach", "stopped"}

(* What time_left can be: with a time_slot of 0 it is counted down from 0, *)
(* and the process keeps its CPU to its end.                               *)
Quantum == {t \in Int : t <= TimeSlot /\ (t >= 0 \/ TimeSlot = 0)}

(* Every variable has its type; time_left never exceeds the quantum, and   *)
(* no program counter runs past the code.                                  *)
TypeOK ==
  /\ ClockTypeOK
  /\ job \in [Procs -> Jobs]
  /\ ready \in [Prios -> Seq(Procs)]
  /\ \A k \in Prios : Len(ready[k]) <= MaxQueue
  /\ pc \in [Procs -> Nat]
  /\ \A p \in Procs : pc[p] <= job[p].size
  /\ freed \subseteq Procs
  /\ loc \in [CPUs -> CpuLocs]
  /\ proc \in [CPUs -> Procs \cup {NoProc}]
  /\ time_left \in [CPUs -> Quantum]
  /\ ldLoc \in LdLocs
  /\ ldNext \in 1 .. NumProcs + 1
  /\ done \in BOOLEAN

Init ==
  /\ ClockInit
  /\ job \in [Procs -> Jobs]
  /\ ready = [k \in Prios |-> << >>]
  /\ pc = [p \in Procs |-> 0]
  /\ freed = {}
  /\ loc = [c \in CPUs |-> "top"]
  /\ proc = [c \in CPUs |-> NoProc]
  /\ time_left = [c \in CPUs |-> 0]
  /\ ldLoc = "load"
  /\ ldNext = 1
  /\ done = FALSE

-----------------------------------------------------------------------------
(* queue.c and sched.c.  Each of these runs under queue_lock.              *)

Empty(q) == q = << >>

(* enqueue(): at the back, or nowhere at all when the queue is full.       *)
Enqueue_OneLess(q, p) ==     \* mutation: one slot of the array not used
  IF Len(q) < MaxQueue - 1 THEN Append(q, p) ELSE q

Enqueue(q, p) == IF Len(q) < MaxQueue THEN Append(q, p) ELSE q

(* put_mlq_proc() and add_mlq_proc().                                      *)
PutProc(p) ==
  ready' = [ready EXCEPT ![job[p].prio] = Enqueue(@, p)]

(* get_mlq_proc(): the head of the first queue that is not empty, or NULL. *)
GetProc_KeepHead(c) ==     \* mutation: dequeue() does not shift the array
  \/ /\ \A k \in Prios : Empty(ready[k])
     /\ proc' = [proc EXCEPT ![c] = NoProc]
     /\ UNCHANGED ready
  \/ \E k \in Prios :
       /\ ~Empty(ready[k])
       /\ \A j \in Prios : j < k => Empty(ready[j])
       /\ proc' = [proc EXCEPT ![c] = Head(ready[k])]
       /\ UNCHANGED ready

GetProc_FromTail(c) ==     \* mutation: dequeue() takes the last entry
  \/ /\ \A k \in Prios : Empty(ready[k])
     /\ proc' = [proc EXCEPT ![c] = NoProc]
     /\ UNCHANGED ready
  \/ \E k \in Prios :
       /\ ~Empty(ready[k])
       /\ \A j \in Prios : j < k => Empty(ready[j])
       /\ proc' = [proc EXCEPT ![c] = ready[k][Len(ready[k])]]
       /\ ready' = [ready EXCEPT ![k] = SubSeq(@, 1, Len(@) - 1)]

GetProc_SkipLast(c) ==     \* mutation: the loop ends one priority too early
  LET Searched == 0 .. MaxPrio - 2 IN
  \/ /\ \A k \in Searched : Empty(ready[k])
     /\ proc' = [proc EXCEPT ![c] = NoProc]
     /\ UNCHANGED ready
  \/ \E k \in Searched :
       /\ ~Empty(ready[k])
       /\ \A j \in Searched : j < k => Empty(ready[j])
       /\ proc' = [proc EXCEPT ![c] = Head(ready[k])]
       /\ ready' = [ready EXCEPT ![k] = Tail(@)]

GetProc(c) ==
  \/ /\ \A k \in Prios : Empty(ready[k])
     /\ proc' = [proc EXCEPT ![c] = NoProc]
     /\ UNCHANGED ready
  \/ \E k \in Prios :
       /\ ~Empty(ready[k])
       /\ \A j \in Prios : j < k => Empty(ready[j])
       /\ proc' = [proc EXCEPT ![c] = Head(ready[k])]
       /\ ready' = [ready EXCEPT ![k] = Tail(@)]

-----------------------------------------------------------------------------
(* cpu_routine() *)

At(c, l) == phase[c] = "working" /\ loc[c] = l
Goto(c, l) == loc' = [loc EXCEPT ![c] = l]

Finished_OneEarly(p) == pc[p] + 1 >= job[p].size   \* mutation: off by one

Finished(p) == pc[p] = job[p].size

(* No process at the top of the loop: get one, or skip this slot.          *)
CpuIdle(c) ==
  /\ At(c, "top")
  /\ proc[c] = NoProc
  /\ GetProc(c)
  /\ Goto(c, IF proc'[c] = NoProc THEN "end" ELSE "recheck")
  /\ UNCHANGED <<time, phase, job, pc, freed, time_left, ldVars>>

(* The process has executed its last instruction: free its PCB.            *)
CpuFinish_KeepTime(c) ==     \* mutation: time_left not reset
  /\ At(c, "top")
  /\ proc[c] # NoProc
  /\ Finished(proc[c])
  /\ freed' = freed \cup {proc[c]}
  /\ proc' = [proc EXCEPT ![c] = NoProc]
  /\ Goto(c, "fetch")
  /\ UNCHANGED <<time, phase, job, ready, pc, time_left, ldVars>>

CpuFinish(c) ==
  /\ At(c, "top")
  /\ proc[c] # NoProc
  /\ Finished(proc[c])
  /\ freed' = freed \cup {proc[c]}
  /\ proc' = [proc EXCEPT ![c] = NoProc]
  /\ time_left' = [time_left EXCEPT ![c] = 0]
  /\ Goto(c, "fetch")
  /\ UNCHANGED <<time, phase, job, ready, pc, ldVars>>

(* The quantum is used up: put the process back into its queue.            *)
CpuPut(c) ==
  /\ At(c, "top")
  /\ proc[c] # NoProc
  /\ ~Finished(proc[c])
  /\ time_left[c] = 0
  /\ PutProc(proc[c])
  /\ proc' = [proc EXCEPT ![c] = NoProc]
  /\ Goto(c, "fetch")
  /\ UNCHANGED <<time, phase, job, pc, freed, time_left, ldVars>>

(* ... and, in either case, get another one.  Other threads may have run   *)
(* between the two calls.                                                  *)
CpuFetch(c) ==
  /\ At(c, "fetch")
  /\ GetProc(c)
  /\ Goto(c, "recheck")
  /\ UNCHANGED <<time, phase, job, pc, freed, time_left, ldVars>>

(* Nothing to run: leave if the loader is done, skip this slot otherwise.  *)
CpuStop_NoDone(c) ==     \* mutation: done not tested
  /\ At(c, "recheck")
  /\ proc[c] = NoProc
  /\ DetachEvent(c)
  /\ Goto(c, "stopped")
  /\ UNCHANGED <<job, ready, pc, freed, proc, time_left, ldVars>>

CpuStop(c) ==
  /\ At(c, "recheck")
  /\ proc[c] = NoProc
  /\ done
  /\ DetachEvent(c)
  /\ Goto(c, "stopped")
  /\ UNCHANGED <<job, ready, pc, freed, proc, time_left, ldVars>>

CpuSkip(c) ==
  /\ At(c, "recheck")
  /\ proc[c] = NoProc
  /\ ~done
  /\ Goto(c, "end")
  /\ UNCHANGED <<time, phase, job, ready, pc, freed, proc, time_left, ldVars>>

(* Dispatch the process if its quantum is to begin, then run() one of its  *)
(* instructions (none if its code is empty).                               *)
CpuRun_NoRefill(c) ==     \* mutation: time_left not set when dispatching
  /\ \/ At(c, "recheck")
     \/ At(c, "top") /\ proc[c] # NoProc /\ ~Finished(proc[c]) /\ time_left[c] # 0
  /\ proc[c] # NoProc
  /\ pc' = IF Finished(proc[c]) THEN pc ELSE [pc EXCEPT ![proc[c]] = @ + 1]
  /\ time_left' = [time_left EXCEPT ![c] = @ - 1]
  /\ Goto(c, "end")
  /\ UNCHANGED <<time, phase, job, ready, freed, proc, ldVars>>

CpuRun_SameSlot(c) ==     \* mutation: no next_slot() after run()
  /\ \/ At(c, "recheck")
     \/ At(c, "top") /\ proc[c] # NoProc /\ ~Finished(proc[c]) /\ time_left[c] # 0
  /\ proc[c] # NoProc
  /\ pc' = IF Finished(proc[c]) THEN pc ELSE [pc EXCEPT ![proc[c]] = @ + 1]
  /\ time_left' =
       [time_left EXCEPT ![c] = (IF @ = 0 THEN TimeSlot ELSE @) - 1]
  /\ Goto(c, "top")
  /\ UNCHANGED <<time, phase, job, ready, freed, proc, ldVars>>

CpuRun(c) ==
  /\ \/ At(c, "recheck")
     \/ At(c, "top") /\ proc[c] # NoProc /\ ~Finished(proc[c]) /\ time_left[c] # 0
  /\ proc[c] # NoProc
  /\ pc' = IF Finished(proc[c]) THEN pc ELSE [pc EXCEPT ![proc[c]] = @ + 1]
  /\ time_left' =
       [time_left EXCEPT ![c] = (IF @ = 0 THEN TimeSlot ELSE @) - 1]
  /\ Goto(c, "end")
  /\ UNCHANGED <<time, phase, job, ready, freed, proc, ldVars>>

(* next_slot() at the end of the loop body.                                *)
CpuNextSlot(c) ==
  /\ At(c, "end")
  /\ NextSlot(c)
  /\ Goto(c, "top")
  /\ UNCHANGED <<job, ready, pc, freed, proc, time_left, ldVars>>

-----------------------------------------------------------------------------
(* ld_routine() *)

LdAt(l) == phase[Loader] = "working" /\ ldLoc = l

(* load() the next process.                                                *)
LdLoad ==
  /\ LdAt("load")
  /\ ldNext <= NumProcs
  /\ ldLoc' = "wait"
  /\ UNCHANGED <<time, phase, job, ready, pc, freed, cpuVars, ldNext, done>>

(* Its start time is still to come.                                        *)
LdWait ==
  /\ LdAt("wait")
  /\ time < job[ldNext].start
  /\ NextSlot(Loader)
  /\ UNCHANGED <<job, ready, pc, freed, cpuVars, ldVars>>

(* add_proc().                                                             *)
LdAdd ==
  /\ LdAt("wait")
  /\ time >= job[ldNext].start
  /\ PutProc(ldNext)
  /\ ldNext' = ldNext + 1
  /\ ldLoc' = "end"
  /\ UNCHANGED <<time, phase, job, pc, freed, cpuVars, done>>

LdNextSlot ==
  /\ LdAt("end")
  /\ NextSlot(Loader)
  /\ ldLoc' = "load"
  /\ UNCHANGED <<job, ready, pc, freed, cpuVars, ldNext, done>>

(* Every process has been added: tell the CPUs, then leave the barrier.    *)
LdDone_Early ==     \* mutation: while (i < num_processes - 1)
  /\ LdAt("load")
  /\ ldNext >= NumProcs
  /\ done' = TRUE
  /\ ldLoc' = "detach"
  /\ UNCHANGED <<time, phase, job, ready, pc, freed, cpuVars, ldNext>>

LdDone ==
  /\ LdAt("load")
  /\ ldNext > NumProcs
  /\ done' = TRUE
  /\ ldLoc' = "detach"
  /\ UNCHANGED <<time, phase, job, ready, pc, freed, cpuVars, ldNext>>

LdDetach ==
  /\ LdAt("detach")
  /\ DetachEvent(Loader)
  /\ ldLoc' = "stopped"
  /\ UNCHANGED <<job, ready, pc, freed, cpuVars, ldNext, done>>

-----------------------------------------------------------------------------
CpuStep(c) ==
  \/ CpuIdle(c) \/ CpuFinish(c) \/ CpuPut(c) \/ CpuFetch(c)
  \/ CpuStop(c) \/ CpuSkip(c) \/ CpuRun(c) \/ CpuNextSlot(c)

LdStep == LdLoad \/ LdWait \/ LdAdd \/ LdNextSlot \/ LdDone \/ LdDetach

(* The timer goes on as long as a thread takes part in the barrier.        *)
TimerRound ==
  /\ \E d \in Devices : phase[d] = "waiting"
  /\ Tick
  /\ UNCHANGED <<job, ready, pc, freed, cpuVars, ldVars>>

(* Every thread has left: main() has joined them all.                      *)
AllStopped == \A d \in Devices : phase[d] = "finished"
MainReturns == AllStopped /\ UNCHANGED vars

Next == TimerRound \/ LdStep \/ (\E c \in CPUs : CpuStep(c)) \/ MainReturns

Spec == Init /\ [][Next]_vars

(* The threads run on a fair host scheduler, and queue_lock is held for a  *)
(* bounded time; the fairness of the timer is that of SlotClock.           *)
Fairness ==
  /\ WF_vars(TimerRound)
  /\ WF_vars(LdStep)
  /\ \A c \in CPUs : WF_vars(CpuStep(c))

FairSpec == Spec /\ Fairness

-----------------------------------------------------------------------------
(* Properties *)

Queued(p) == \E k \in Prios : \E i \in DOMAIN ready[k] : ready[k][i] = p
Held(p) == \E c \in CPUs : proc[c] = p

(* A process is in one place at most: at one position of one queue, or     *)
(* held by one CPU, or freed.  Otherwise two CPUs run one PCB, or a CPU    *)
(* runs a freed one.                                                       *)
OnePlace ==
  /\ \A k, l \in Prios : \A i \in DOMAIN ready[k], j \in DOMAIN ready[l] :
       ready[k][i] = ready[l][j] => k = l /\ i = j
  /\ \A c, d \in CPUs : proc[c] = proc[d] /\ proc[c] # NoProc => c = d
  /\ \A p \in Procs : Queued(p) => ~Held(p)
  /\ \A p \in freed : ~Queued(p) /\ ~Held(p)

(* No process gets lost between the queues and the CPUs: once added, it is *)
(* queued or held until it has executed all of its code.                   *)
NoneLost ==
  \A p \in Procs : p < ldNext =>
    \/ Queued(p)
    \/ Held(p)
    \/ p \in freed /\ Finished(p)

(* When the CPUs have stopped, there is nothing left to do: the unlocked   *)
(* done flag is never seen by a CPU that missed the last process.          *)
NoneStranded ==
  (\A c \in CPUs : loc[c] = "stopped") => freed = Procs

(* While a process waits in its queue, none gets ahead of it there, and    *)
(* none that is behind it leaves: whoever is dispatched from that queue    *)
(* meanwhile was ahead of it, and has its turn once.                       *)
Waits(k, p) == \E i \in DOMAIN ready[k] : ready[k][i] = p
Ahead(k, q, p) ==
  \E i, j \in DOMAIN ready[k] : i < j /\ ready[k][i] = q /\ ready[k][j] = p

NoOvertaking ==
  [][\A k \in Prios : \A p, q \in Procs :
       Waits(k, p) /\ Waits(k, p)' =>
         /\ Ahead(k, q, p)' => Ahead(k, q, p)
         /\ Ahead(k, p, q) => Ahead(k, p, q)']_vars

(* No CPU stays idle beside waiting work: when a slot ends with an idle    *)
(* CPU, one process is queued at most, and that only if the loader has     *)
(* added one in this slot.  It need not be that one: another CPU may have  *)
(* put a process behind it, and taken it.                                  *)
WorkConserving ==
  (/\ \A d \in Devices : phase[d] # "working"
   /\ \E c \in CPUs : proc[c] = NoProc) =>
     \A p, q \in Procs : Queued(p) /\ Queued(q) => p = q /\ ldLoc = "load"

(* Every process of the configuration runs to its end.                     *)
AllFinish == <>(freed = Procs)

(* The CPUs and the loader leave, so that main() returns.                  *)
Termination == <>AllStopped

-----------------------------------------------------------------------------
(* Refinement: the life of each process.                                   *)
PlaceOf(p) ==
  IF p \in freed THEN "finished"
  ELSE IF Held(p) THEN CHOOSE c \in CPUs : proc[c] = p
  ELSE IF Queued(p) THEN "ready"
  ELSE "new"

Life == INSTANCE Lifecycle WITH
          place <- [p \in Procs |-> PlaceOf(p)],
          left <- [p \in Procs |-> job[p].size - pc[p]]

LifecycleRefined == Life!LifeSpec
=============================================================================
