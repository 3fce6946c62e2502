---------------------------- MODULE LifecycleProofs ----------------------------
(***************************************************************************)
(* The kernel implements Lifecycle, for every number of CPUs and processes *)
(* and every input, as long as a ready queue can hold all processes: each  *)
(* step of a thread is one step in the life of one process, or none.       *)
(***************************************************************************)
EXTENDS OSProofs

place == [p \in Procs |-> PlaceOf(p)]
left == [p \in Procs |-> job[p].size - pc[p]]

(* Where a process is, read off the variables: the four cases of PlaceOf   *)
(* exclude each other, and the CPU that holds a process is the only one.   *)
PlaceFacts ==
  \A p \in Procs :
    /\ p \in freed => PlaceOf(p) = "finished"
    /\ \A c \in CPUs : proc[c] = p => PlaceOf(p) = c
    /\ Queued(p) => PlaceOf(p) = "ready"
    /\ p \notin freed /\ ~Held(p) /\ ~Queued(p) => PlaceOf(p) = "new"

LEMMA PlaceIs == IInv => PlaceFacts
<1> SUFFICES ASSUME IInv, NEW p \in Procs
             PROVE  /\ p \in freed => PlaceOf(p) = "finished"
                    /\ \A c \in CPUs : proc[c] = p => PlaceOf(p) = c
                    /\ Queued(p) => PlaceOf(p) = "ready"
                    /\ p \notin freed /\ ~Held(p) /\ ~Queued(p) => PlaceOf(p) = "new"
  BY DEF PlaceFacts
<1>1. p \in freed => PlaceOf(p) = "finished"
  BY DEF PlaceOf
<1>2. ASSUME NEW c \in CPUs, proc[c] = p PROVE PlaceOf(p) = c
  <2>1. Held(p) /\ p \notin freed
    BY <1>2 DEF Held, IInv, Places, Apart
  <2>2. \A d \in CPUs : proc[d] = p <=> d = c
    BY <1>2, OSAssumption DEF IInv, Places, HeldOnce
  <2>3. PlaceOf(p) = CHOOSE d \in CPUs : proc[d] = p
    BY <2>1 DEF PlaceOf
  <2>4. QED
    BY <2>2, <2>3
<1>3. Queued(p) => PlaceOf(p) = "ready"
  BY DEF PlaceOf, IInv, Places, Apart
<1>4. p \notin freed /\ ~Held(p) /\ ~Queued(p) => PlaceOf(p) = "new"
  BY DEF PlaceOf
<1>5. QED
  BY <1>1, <1>2, <1>3, <1>4

LEMMA PlaceIsNext == IInv' => PlaceFacts'
BY PlaceIs, PTL

(* A process that stays where it is.                                       *)
LEMMA Stays ==
  ASSUME PlaceFacts, PlaceFacts', NEW p \in Procs,
         p \in freed' <=> p \in freed,
         \A c \in CPUs : proc'[c] = p <=> proc[c] = p,
         Queued(p)' <=> Queued(p)
  PROVE  PlaceOf(p)' = PlaceOf(p)
<1>1. CASE p \in freed
  BY <1>1 DEF PlaceFacts
<1>2. ASSUME NEW c \in CPUs, proc[c] = p PROVE PlaceOf(p)' = PlaceOf(p)
  BY <1>2 DEF PlaceFacts
<1>3. CASE Queued(p)
  BY <1>3 DEF PlaceFacts
<1>4. CASE p \notin freed /\ ~Held(p) /\ ~Queued(p)
  <2>1. ~Held(p)'
    BY <1>4 DEF Held
  <2>2. QED
    BY <1>4, <2>1 DEF PlaceFacts
<1>5. QED
  BY <1>1, <1>2, <1>3, <1>4 DEF Held

(* When nobody moves and no program counter does, the abstract state       *)
(* stays.                                                                  *)
LEMMA Stutter ==
  ASSUME IInv, IInv', UNCHANGED <<job, ready, pc, freed, proc>>
  PROVE  UNCHANGED <<place, left>>
<1>1. \A p \in Procs : Queued(p)' <=> Queued(p)
  BY DEF Queued
<1>2. \A p \in Procs : PlaceOf(p)' = PlaceOf(p)
  BY <1>1, PlaceIs, PlaceIsNext, Stays
<1>3. QED
  BY <1>2 DEF place, left

(* One process moves, the others stay.                                     *)
LEMMA MoveOne ==
  ASSUME NEW p \in Procs, NEW from, NEW to,
         UNCHANGED <<job, pc>>,
         PlaceOf(p) = from, PlaceOf(p)' = to,
         \A q \in Procs : q # p => PlaceOf(q)' = PlaceOf(q)
  PROVE  Life!Move(p, from, to)
BY DEF Life!Move, place, left

LEMMA InitLife == Init => Life!LifeInit
<1> SUFFICES ASSUME Init PROVE Life!LifeInit
  OBVIOUS
<1>1. IInv
  BY InitIInv
<1>2. \A p \in Procs : p \notin freed /\ ~Held(p) /\ ~Queued(p)
  BY OSAssumption DEF Init, Held, Queued
<1>3. \A p \in Procs : PlaceOf(p) = "new"
  BY <1>1, <1>2, PlaceIs DEF PlaceFacts
<1>4. \A p \in Procs : job[p].size - pc[p] \in Nat
  BY <1>1, JobTypes DEF Init, IInv
<1>5. QED
  BY <1>3, <1>4 DEF Life!LifeInit

LEMMA AddIsAdmit ==
  ASSUME IInv, IInv', Capacity, LdAdd
  PROVE  Life!LifeNext
<1>1. /\ ldLoc = "wait" /\ PutProc(ldNext)
      /\ UNCHANGED <<job, pc, freed, proc>>
  BY DEF LdAdd, LdAt, cpuVars
<1>2. PICK p \in Procs : p = ldNext
  BY <1>1, OSAssumption DEF IInv, TypeOK, LoaderPlace, Procs
<1>3. ~Queued(p) /\ ~Held(p) /\ p \notin freed
  BY <1>2 DEF IInv, Places, NewNowhere, Procs
<1>4. /\ \A q \in Procs : Queued(q)' => Queued(q) \/ q = p
      /\ \A q \in Procs : Queued(q) => Queued(q)'
      /\ Queued(p)'
  BY <1>1, <1>2, <1>3, PutQueues DEF IInv, Places
<1>5. PlaceOf(p) = "new" /\ PlaceOf(p)' = "ready"
  BY <1>3, <1>4, PlaceIs, PlaceIsNext DEF PlaceFacts
<1>6. \A q \in Procs : q # p => PlaceOf(q)' = PlaceOf(q)
  BY <1>1, <1>4, PlaceIs, PlaceIsNext, Stays
<1>7. Life!Admit(p)
  BY <1>1, <1>5, <1>6, MoveOne DEF Life!Admit
<1>8. QED
  BY <1>7 DEF Life!LifeNext

LEMMA GetIsDispatch ==
  ASSUME IInv, IInv', NEW c \in CPUs, CpuIdle(c) \/ CpuFetch(c)
  PROVE  Life!LifeNext \/ UNCHANGED <<place, left>>
<1>1. GetProc(c) /\ UNCHANGED <<job, pc, freed>>
  BY DEF CpuIdle, CpuFetch
<1>2. proc[c] = NoProc /\ proc \in [CPUs -> Procs \cup {NoProc}] /\ NoProc \notin Procs
  BY OSAssumption DEF CpuIdle, CpuFetch, At, IInv, CpuPlace, TypeOK
<1>3. \/ /\ proc' = [proc EXCEPT ![c] = NoProc]
         /\ \A q \in Procs : ~Queued(q) /\ ~Queued(q)'
      \/ \E p \in Procs :
           /\ proc' = [proc EXCEPT ![c] = p]
           /\ Queued(p) /\ ~Queued(p)'
           /\ \A q \in Procs : q # p => (Queued(q)' <=> Queued(q))
  BY <1>1, GetQueues DEF IInv, Places
<1>4. CASE /\ proc' = [proc EXCEPT ![c] = NoProc]
           /\ \A q \in Procs : ~Queued(q) /\ ~Queued(q)'
  <2>1. proc' = proc
    BY <1>2, <1>4
  <2>2. \A q \in Procs : PlaceOf(q)' = PlaceOf(q)
    BY <1>1, <1>4, <2>1, PlaceIs, PlaceIsNext, Stays
  <2>3. QED
    BY <1>1, <2>2 DEF place, left
<1>5. ASSUME NEW p \in Procs, proc' = [proc EXCEPT ![c] = p],
             Queued(p), ~Queued(p)',
             \A q \in Procs : q # p => (Queued(q)' <=> Queued(q))
      PROVE  Life!LifeNext
  <2>1. PlaceOf(p) = "ready" /\ PlaceOf(p)' = c
    BY <1>2, <1>5, PlaceIs, PlaceIsNext DEF PlaceFacts
  <2>2. \A q \in Procs : q # p => \A d \in CPUs : proc'[d] = q <=> proc[d] = q
    BY <1>2, <1>5
  <2>3. \A q \in Procs : q # p => PlaceOf(q)' = PlaceOf(q)
    BY <1>1, <1>5, <2>2, PlaceIs, PlaceIsNext, Stays
  <2>4. \A q \in Procs : PlaceOf(q) # c
    <3> SUFFICES ASSUME NEW q \in Procs, PlaceOf(q) = c PROVE FALSE
      OBVIOUS
    <3>1. c \notin {"new", "ready", "finished"}
      BY OSAssumption
    <3>2. Held(q)
      BY <3>1, PlaceIs DEF PlaceFacts
    <3>3. PICK d \in CPUs : proc[d] = q
      BY <3>2 DEF Held
    <3>4. d = c
      BY <3>3, PlaceIs DEF PlaceFacts
    <3>5. QED
      BY <1>2, <3>3, <3>4
  <2>5. Life!Dispatch(p, c)
    BY <1>1, <2>1, <2>3, <2>4, MoveOne DEF Life!Dispatch, place
  <2>6. QED
    BY <2>5 DEF Life!LifeNext
<1>6. QED
  BY <1>3, <1>4, <1>5

LEMMA PutIsPreempt ==
  ASSUME IInv, IInv', Capacity, NEW c \in CPUs, CpuPut(c)
  PROVE  Life!LifeNext
<1>1. /\ proc[c] # NoProc /\ PutProc(proc[c])
      /\ proc' = [proc EXCEPT ![c] = NoProc]
      /\ UNCHANGED <<job, pc, freed>>
  BY DEF CpuPut
<1>2. proc \in [CPUs -> Procs \cup {NoProc}] /\ NoProc \notin Procs
  BY OSAssumption DEF IInv, TypeOK
<1>3. PICK p \in Procs : p = proc[c]
  BY <1>1, <1>2
<1>4. ~Queued(p)
  BY <1>3 DEF IInv, Places, Apart, Held
<1>5. /\ \A q \in Procs : Queued(q)' => Queued(q) \/ q = p
      /\ \A q \in Procs : Queued(q) => Queued(q)'
      /\ Queued(p)'
  BY <1>1, <1>3, <1>4, PutQueues DEF IInv, Places
<1>6. PlaceOf(p) = c /\ PlaceOf(p)' = "ready"
  BY <1>3, <1>5, PlaceIs, PlaceIsNext DEF PlaceFacts
<1>7. \A q \in Procs : q # p => \A d \in CPUs : proc'[d] = q <=> proc[d] = q
  BY <1>1, <1>2, <1>3
<1>8. \A q \in Procs : q # p => PlaceOf(q)' = PlaceOf(q)
  BY <1>1, <1>5, <1>7, PlaceIs, PlaceIsNext, Stays
<1>9. Life!Preempt(p, c)
  BY <1>1, <1>6, <1>8, MoveOne DEF Life!Preempt
<1>10. QED
  BY <1>9 DEF Life!LifeNext

LEMMA FinishIsFinish ==
  ASSUME IInv, IInv', NEW c \in CPUs, CpuFinish(c)
  PROVE  Life!LifeNext
<1>1. /\ proc[c] # NoProc /\ Finished(proc[c])
      /\ freed' = freed \cup {proc[c]}
      /\ proc' = [proc EXCEPT ![c] = NoProc]
      /\ UNCHANGED <<job, ready, pc>>
  BY DEF CpuFinish
<1>2. proc \in [CPUs -> Procs \cup {NoProc}] /\ NoProc \notin Procs
  BY OSAssumption DEF IInv, TypeOK
<1>3. PICK p \in Procs : p = proc[c]
  BY <1>1, <1>2
<1>4. PlaceOf(p) = c /\ PlaceOf(p)' = "finished"
  BY <1>1, <1>3, PlaceIs, PlaceIsNext DEF PlaceFacts
<1>5. \A q \in Procs : q # p => \A d \in CPUs : proc'[d] = q <=> proc[d] = q
  BY <1>1, <1>2, <1>3
<1>6. \A q \in Procs : Queued(q)' <=> Queued(q)
  BY <1>1 DEF Queued
<1>7. \A q \in Procs : q # p => PlaceOf(q)' = PlaceOf(q)
  BY <1>1, <1>3, <1>5, <1>6, PlaceIs, PlaceIsNext, Stays
<1>8. left[p] = 0
  BY <1>1, <1>3, JobTypes DEF left, Finished, IInv
<1>9. Life!Finish(p, c)
  BY <1>1, <1>4, <1>7, <1>8, MoveOne DEF Life!Finish, left
<1>10. QED
  BY <1>9 DEF Life!LifeNext

LEMMA RunIsExecute ==
  ASSUME IInv, IInv', NEW c \in CPUs, CpuRun(c)
  PROVE  Life!LifeNext \/ UNCHANGED <<place, left>>
<1>1. /\ proc[c] # NoProc
      /\ pc' = IF Finished(proc[c]) THEN pc ELSE [pc EXCEPT ![proc[c]] = @ + 1]
      /\ UNCHANGED <<job, ready, freed, proc>>
  BY DEF CpuRun
<1>2. proc \in [CPUs -> Procs \cup {NoProc}]
  BY DEF IInv, TypeOK
<1>3. PICK p \in Procs : p = proc[c]
  BY <1>1, <1>2
<1>4. \A q \in Procs : Queued(q)' <=> Queued(q)
  BY <1>1 DEF Queued
<1>5. \A q \in Procs : PlaceOf(q)' = PlaceOf(q)
  BY <1>1, <1>4, PlaceIs, PlaceIsNext, Stays
<1>6. CASE Finished(p)
  BY <1>1, <1>3, <1>5, <1>6 DEF place, left
<1>7. CASE ~Finished(p)
  <2>1. pc' = [pc EXCEPT ![p] = @ + 1]
    BY <1>1, <1>3, <1>7
  <2>2. /\ pc \in [Procs -> Nat] /\ job[p].size \in Nat
        /\ pc[p] <= job[p].size /\ pc[p] # job[p].size
    BY <1>7, JobTypes DEF IInv, TypeOK, Finished
  <2>3. left[p] > 0
    BY <2>2 DEF left
  <2>4. left' = [left EXCEPT ![p] = @ - 1]
    <3>1. job[p].size - (pc[p] + 1) = (job[p].size - pc[p]) - 1
      BY <2>2
    <3>2. /\ pc'[p] = pc[p] + 1
          /\ \A q \in Procs : q # p => pc'[q] = pc[q]
      BY <2>1, <2>2
    <3>3. \A q \in Procs : left'[q] = IF q = p THEN left[p] - 1 ELSE left[q]
      BY <1>1, <3>1, <3>2 DEF left
    <3>4. QED
      BY <3>3 DEF left
  <2>5. PlaceOf(p) = c
    BY <1>3, PlaceIs DEF PlaceFacts
  <2>6. Life!Execute(p, c)
    BY <1>5, <2>3, <2>4, <2>5 DEF Life!Execute, place, left
  <2>7. QED
    BY <2>6 DEF Life!LifeNext
<1>8. QED
  BY <1>6, <1>7

LEMMA StepLife ==
  ASSUME IInv, IInv', Capacity, [Next]_vars
  PROVE  [Life!LifeNext]_<<place, left>>
<1>1. CASE TimerRound \/ MainReturns \/ UNCHANGED vars
  BY <1>1, Stutter DEF TimerRound, MainReturns, vars, cpuVars, ldVars
<1>2. CASE LdStep
  <2>1. CASE LdAdd
    BY <2>1, AddIsAdmit
  <2>2. CASE LdLoad \/ LdWait \/ LdNextSlot \/ LdDone \/ LdDetach
    <3>1. UNCHANGED <<job, ready, pc, freed, proc>>
      BY <2>2 DEF LdLoad, LdWait, LdNextSlot, LdDone, LdDetach, cpuVars
    <3>2. QED
      BY <3>1, Stutter
  <2>3. QED
    BY <1>2, <2>1, <2>2 DEF LdStep
<1>3. ASSUME NEW c \in CPUs, CpuStep(c) PROVE [Life!LifeNext]_<<place, left>>
  <2>1. CASE CpuStop(c) \/ CpuSkip(c) \/ CpuNextSlot(c)
    <3>1. UNCHANGED <<job, ready, pc, freed, proc>>
      BY <2>1 DEF CpuStop, CpuSkip, CpuNextSlot
    <3>2. QED
      BY <3>1, Stutter
  <2>2. QED
    BY <1>3, <2>1, GetIsDispatch, PutIsPreempt, FinishIsFinish, RunIsExecute
       DEF CpuStep
<1>4. QED
  BY <1>1, <1>2, <1>3 DEF Next

(* If a ready queue can hold every process, the threads of the kernel,     *)
(* step by step, only do what the life of a process allows: it is admitted *)
(* once, is on one CPU at a time, executes each instruction once, and      *)
(* finishes with none left.                                                *)
THEOREM ImplementsLifecycle == ASSUME Capacity PROVE Spec => LifecycleRefined
<1>1. IInv /\ IInv' /\ [Next]_vars => [Life!LifeNext]_Life!lifeVars
  BY StepLife DEF Life!lifeVars, place, left
<1>2. QED
  BY InitLife, Invariance, <1>1, PTL DEF Spec, LifecycleRefined, Life!LifeSpec
=============================================================================
