----------------------------- MODULE MemPhyProofs -----------------------------
(***************************************************************************)
(* Proofs about MemPhy, for any number of processes and frames.            *)
(*                                                                         *)
(* mmvm_lock makes the read and the write of the RAM list one step: a call *)
(* that is between them holds the lock, so that the node it has read is    *)
(* still the head.  The SWAP list has no such protection, and the facts    *)
(* below say no more of it than that its nodes are those of the device.    *)
(*                                                                         *)
(* What does not depend on the lock is proved for programs that call       *)
(* SYSCALL 17 themselves too (UserSpec): they can share a frame, but no    *)
(* list is overrun, nobody is stuck, and every call gets nearer to its     *)
(* end.                                                                    *)
(***************************************************************************)
EXTENDS MemPhy, FiniteSetTheorems, TLAPS

InLock == {"get", "node", "return"}

-----------------------------------------------------------------------------
(* All programs *)

(* Whoever holds the lock is between Lock and Return; so is, without it, a *)
(* program in its own system call.                                         *)
HolderInside == \A p \in Procs : mmvm_lock = p => at[p] \in InLock

(* A node that has been read is one of its device, or the NULL at the end  *)
(* of the list.                                                            *)
NodeInside ==
  \A p \in Procs :
    /\ at[p] = "node" => fp[p] <= NumFrames /\ pgnum[p] > 0
    /\ at[p] = "swapnode" => fp[p] <= NumSwap

UInv == TypeOK /\ HolderInside /\ NodeInside

LEMMA InitUInv == Init => UInv
BY MemPhyAssumption
   DEF Init, UInv, TypeOK, Places, HolderInside, NodeInside

LEMMA StepUInv ==
  ASSUME UInv, NEW p \in Procs,
         Step(p) \/ \E n \in Requests : Memmap(p, n)
  PROVE  UInv'
<1> USE MemPhyAssumption
<1>t. TypeOK /\ HolderInside /\ NodeInside
  BY DEF UInv
<1>1. ASSUME NEW n \in Requests \cup {0}, Call(p, n) \/ Memmap(p, n) PROVE UInv'
  <2>1. /\ at[p] = "idle" /\ calls[p] < CodeSize
        /\ \E l \in {"lock", "get"} : at' = [at EXCEPT ![p] = l]
        /\ calls' = [calls EXCEPT ![p] = @ + 1]
        /\ pgnum' = [pgnum EXCEPT ![p] = n]
        /\ UNCHANGED <<ramHead, swpHead, mmvm_lock, fp, frm_lst, mapped, swapped>>
    BY <1>1 DEF Call, Memmap, Begin, At, Goto
  <2>2. TypeOK'
    BY <1>t, <2>1 DEF TypeOK, Places
  <2>3. HolderInside' /\ NodeInside'
    BY <1>t, <2>1 DEF HolderInside, NodeInside, TypeOK, InLock
  <2>4. QED
    BY <2>2, <2>3 DEF UInv
<1>2. CASE Lock(p)
  BY <1>t, <1>2 DEF UInv, TypeOK, Places, HolderInside, NodeInside, InLock,
     Lock, At, Goto, callVars
<1>3. CASE ReadHead(p)
  BY <1>t, <1>3 DEF UInv, TypeOK, Places, HolderInside, NodeInside, InLock,
     ReadHead, At, Goto
<1>4. CASE TakeFrame(p)
  <2>1. fp[p] \in Frames /\ pgnum[p] > 0
    BY <1>t, <1>4 DEF TypeOK, NodeInside, TakeFrame, At, Frames
  <2>2. TypeOK'
    BY <1>t, <1>4, <2>1 DEF TypeOK, Places, Frames, TakeFrame, Goto
  <2>3. HolderInside' /\ NodeInside'
    BY <1>t, <1>4 DEF HolderInside, NodeInside, TypeOK, InLock, TakeFrame, At, Goto
  <2>4. QED
    BY <2>2, <2>3 DEF UInv
<1>5. CASE NoFrame(p)
  BY <1>t, <1>5 DEF UInv, TypeOK, Places, HolderInside, NodeInside, InLock,
     NoFrame, At, Goto
<1>6. CASE MapFrames(p)
  <2>1. TypeOK'
    BY <1>t, <1>6 DEF TypeOK, Places, MapFrames, Goto
  <2>2. HolderInside' /\ NodeInside'
    BY <1>t, <1>6 DEF HolderInside, NodeInside, TypeOK, InLock, MapFrames, At, Goto
  <2>3. QED
    BY <2>1, <2>2 DEF UInv
<1>7. CASE Return(p)
  BY <1>t, <1>7 DEF UInv, TypeOK, Places, HolderInside, NodeInside, InLock,
     Return, At, Goto, callVars
<1>8. CASE Fault(p)
  BY <1>t, <1>8 DEF UInv, TypeOK, Places, HolderInside, NodeInside, InLock,
     Fault, Begin, At, Goto
<1>9. CASE TakeSwap(p) \/ NoSwap(p)
  <2>1. TypeOK'
    BY <1>t, <1>9 DEF TypeOK, Places, TakeSwap, NoSwap, Goto
  <2>2. HolderInside' /\ NodeInside'
    BY <1>t, <1>9 DEF HolderInside, NodeInside, TypeOK, InLock, TakeSwap, NoSwap, At, Goto
  <2>3. QED
    BY <2>1, <2>2 DEF UInv
<1>10. QED
  BY <1>1, <1>2, <1>3, <1>4, <1>5, <1>6, <1>7, <1>8, <1>9 DEF Step

LEMMA NextUInv == UInv /\ [UserNext]_vars => UInv'
<1> SUFFICES ASSUME UInv, [UserNext]_vars PROVE UInv'
  OBVIOUS
<1>1. ASSUME UNCHANGED vars PROVE UInv'
  BY <1>1 DEF vars, callVars, UInv, TypeOK, HolderInside, NodeInside
<1>2. QED
  BY <1>1, StepUInv DEF UserNext, Next, AllEnded

LEMMA UserInvariant == UserSpec => []UInv
BY InitUInv, NextUInv, PTL DEF UserSpec

(* A behaviour without SYSCALL 17 is one of UserSpec.                      *)
LEMMA UsersAreMore == Spec => UserSpec
<1>1. [Next]_vars => [UserNext]_vars
  BY DEF UserNext
<1>2. QED
  BY <1>1, PTL DEF Spec, UserSpec

(* The lists and what the processes have taken from them keep their types: *)
(* no request takes a frame beyond the end of its device, not even one     *)
(* that races with another.                                                *)
THEOREM TypeCorrect == UserSpec => []TypeOK
<1>1. UInv => TypeOK
  BY DEF UInv
<1>2. QED
  BY UserInvariant, <1>1, PTL

(* mmvm_lock cannot make everybody wait: whoever holds it is on the way to *)
(* Return and waits for nothing.                                           *)
THEOREM NobodyDeadlocks == UserSpec => []NobodyStuck
<1>1. ASSUME UInv
      PROVE  NobodyStuck
  <2>1. TypeOK /\ HolderInside /\ NodeInside
    BY <1>1 DEF UInv
  <2>2. ASSUME NEW p \in Procs, at[p] \in InLock
        PROVE  GoesOn(p)
    <3>1. at[p] = "node" => fp[p] <= NumFrames
      BY <2>1 DEF NodeInside
    <3>2. QED
      BY <2>2, <3>1 DEF InLock, GoesOn, At
  <2>3. SUFFICES ASSUME NEW p \in Procs
                 PROVE  \/ Ended(p)
                        \/ GoesOn(p)
                        \/ At(p, "lock") /\ mmvm_lock \in Procs /\ GoesOn(mmvm_lock)
    BY DEF NobodyStuck
  <2>4. CASE at[p] = "idle"
    BY <2>1, <2>4, MemPhyAssumption DEF TypeOK, Ended, GoesOn, At
  <2>5. CASE at[p] = "lock"
    <3>1. mmvm_lock \in Procs => at[mmvm_lock] \in InLock
      BY <2>1 DEF HolderInside
    <3>2. QED
      BY <2>1, <2>2, <2>5, <3>1 DEF TypeOK, GoesOn, At
  <2>6. CASE at[p] = "swapnode"
    BY <2>1, <2>6 DEF NodeInside, GoesOn, At
  <2>7. QED
    BY <2>1, <2>2, <2>4, <2>5, <2>6 DEF TypeOK, Places, InLock
<1>2. QED
  BY UserInvariant, <1>1, PTL

(* A step changes what its own process has to go and nothing of another.   *)
LEMMA StepAdvances ==
  ASSUME UInv, NEW p \in Procs,
         Step(p) \/ \E n \in Requests : Memmap(p, n)
  PROVE  /\ Nearer(p)
         /\ \A q \in Procs \ {p} : calls'[q] = calls[q] /\ ToGo(q)' = ToGo(q)
<1>1. /\ at \in [Procs -> Places] /\ pgnum \in [Procs -> Nat]
      /\ calls \in [Procs -> 0 .. CodeSize] /\ CodeSize \in Nat
      /\ at[p] = "node" => pgnum[p] > 0
  BY MemPhyAssumption DEF UInv, TypeOK, NodeInside
<1>2. /\ \E l \in Places : at' = [at EXCEPT ![p] = l]
      /\ UNCHANGED pgnum \/ \E n : pgnum' = [pgnum EXCEPT ![p] = n]
      /\ UNCHANGED calls \/ \E n : calls' = [calls EXCEPT ![p] = n]
  BY DEF Step, Call, Memmap, Begin, Lock, ReadHead, TakeFrame, NoFrame, MapFrames, Return,
     Fault, TakeSwap, NoSwap, Goto, Places, callVars
<1>3. ASSUME NEW q \in Procs \ {p}
      PROVE  calls'[q] = calls[q] /\ ToGo(q)' = ToGo(q)
  <2>1. at'[q] = at[q] /\ pgnum'[q] = pgnum[q] /\ calls'[q] = calls[q]
    BY <1>1, <1>2
  <2>2. QED
    BY <2>1 DEF ToGo, At
<1>4. CASE (\E n \in Requests \cup {0} : Call(p, n) \/ Memmap(p, n)) \/ Fault(p)
  <2>1. calls' = [calls EXCEPT ![p] = @ + 1]
    BY <1>4 DEF Call, Memmap, Fault, Begin
  <2>2. QED
    BY <1>1, <1>3, <2>1 DEF Nearer
<1>5. CASE Lock(p)
  BY <1>1, <1>3, <1>5 DEF Lock, Goto, At, callVars, Nearer, ToGo
<1>6. CASE ReadHead(p)
  BY <1>1, <1>3, <1>6 DEF ReadHead, Goto, At, Nearer, ToGo
<1>7. CASE TakeFrame(p)
  BY <1>1, <1>3, <1>7 DEF TakeFrame, Goto, At, Nearer, ToGo
<1>8. CASE NoFrame(p)
  BY <1>1, <1>3, <1>8 DEF NoFrame, Goto, At, Nearer, ToGo
<1>9. CASE MapFrames(p)
  BY <1>1, <1>3, <1>9 DEF MapFrames, Goto, At, Nearer, ToGo
<1>10. CASE Return(p)
  BY <1>1, <1>3, <1>10 DEF Return, Goto, At, callVars, Nearer, ToGo
<1>11. CASE TakeSwap(p) \/ NoSwap(p)
  BY <1>1, <1>3, <1>11 DEF TakeSwap, NoSwap, Goto, At, Nearer, ToGo
<1>12. QED
  BY <1>4, <1>5, <1>6, <1>7, <1>8, <1>9, <1>10, <1>11 DEF Step

(* The loop over MEMPHY_get_freefp() does not begin again, a call that     *)
(* waits for the lock is not sent back, and no process makes another one   *)
(* lose what it has achieved.                                              *)
THEOREM NoCallInCircles == UserSpec => CallsAdvance
<1> DEFINE Advance ==
      \E p \in Procs :
        /\ Nearer(p)
        /\ \A q \in Procs \ {p} : calls'[q] = calls[q] /\ ToGo(q)' = ToGo(q)
<1>1. UInv /\ [UserNext]_vars => [Advance]_vars
  BY StepAdvances DEF UserNext, Next, AllEnded
<1>2. QED
  BY UserInvariant, <1>1, PTL DEF UserSpec, CallsAdvance

-----------------------------------------------------------------------------
(* Programs without a SYSCALL 17 of their own *)

(* The calls of the library hold the lock from Lock to Return.             *)
LockInv == \A p \in Procs : at[p] \in InLock <=> mmvm_lock = p

(* What the lock is for, and what there is without it.                     *)
NodeInv ==
  \A p \in Procs :
    /\ at[p] = "node" => fp[p] = ramHead /\ pgnum[p] > 0
    /\ at[p] = "swapnode" => fp[p] <= NumSwap

(* The frames of a request and those still to get are what it asked for.   *)
Asked == Requests \cup {0}

CountInv ==
  \A p \in Procs :
    /\ at[p] \in {"get", "node"} => Cardinality(frm_lst[p]) + pgnum[p] \in Asked
    /\ at[p] \notin {"get", "node"} => frm_lst[p] = {}
    /\ at[p] = "lock" => pgnum[p] \in Asked

IInv == TypeOK /\ LockInv /\ NodeInv /\ CountInv /\ RamExclusive

(* A set of frames is finite, and so counted by a number.                  *)
LEMMA FramesFinite ==
  ASSUME NEW S \in SUBSET Frames
  PROVE  IsFiniteSet(S) /\ Cardinality(S) \in Nat
<1>1. IsFiniteSet(Frames)
  BY FS_Interval, MemPhyAssumption DEF Frames
<1>2. IsFiniteSet(S)
  BY <1>1, FS_Subset
<1>3. QED
  BY <1>2, FS_CardinalityType

LEMMA InitInv == Init => IInv
<1> SUFFICES ASSUME Init PROVE IInv
  OBVIOUS
<1>1. TypeOK
  BY MemPhyAssumption DEF Init, TypeOK, Places
<1>2. LockInv
  BY MemPhyAssumption DEF Init, LockInv, InLock
<1>3. NodeInv
  BY DEF Init, NodeInv
<1>4. CountInv
  BY DEF Init, CountInv
<1>5. RamExclusive
  BY DEF Init, RamExclusive, FramesOf
<1>6. QED
  BY <1>1, <1>2, <1>3, <1>4, <1>5 DEF IInv

LEMMA NextInv == IInv /\ [Next]_vars => IInv'
<1> SUFFICES ASSUME IInv, [Next]_vars PROVE IInv'
  OBVIOUS
<1> USE MemPhyAssumption
<1>t. TypeOK /\ LockInv /\ NodeInv /\ CountInv /\ RamExclusive
  BY DEF IInv
<1>1. ASSUME NEW p \in Procs, NEW n \in Requests \cup {0}, Call(p, n) PROVE IInv'
  <2> USE <1>t, <1>1 DEF Call, Begin, Goto, At
  <2>1. TypeOK'
    BY DEF TypeOK, Places
  <2>2. LockInv' /\ NodeInv'
    BY DEF LockInv, NodeInv, InLock, TypeOK
  <2>3. CountInv'
    BY DEF CountInv, TypeOK, Asked
  <2>4. RamExclusive'
    BY DEF RamExclusive, FramesOf
  <2>5. QED
    BY <2>1, <2>2, <2>3, <2>4 DEF IInv
<1>2. ASSUME NEW p \in Procs, Lock(p) PROVE IInv'
  <2> USE <1>t, <1>2 DEF Lock, Goto, At
  <2>1. TypeOK'
    BY DEF TypeOK, Places, callVars
  <2>2. LockInv' /\ NodeInv'
    BY DEF LockInv, NodeInv, InLock, TypeOK, callVars
  <2>3. CountInv'
    <3>1. frm_lst[p] = {} /\ pgnum[p] \in Asked /\ pgnum[p] \in Nat
      BY DEF CountInv, TypeOK
    <3>2. Cardinality(frm_lst[p]) + pgnum[p] \in Asked
      BY <3>1, FS_EmptySet
    <3>3. QED
      BY <3>1, <3>2 DEF CountInv, TypeOK, callVars
  <2>4. RamExclusive'
    BY DEF RamExclusive, FramesOf, callVars
  <2>5. QED
    BY <2>1, <2>2, <2>3, <2>4 DEF IInv
<1>3. ASSUME NEW p \in Procs, ReadHead(p) PROVE IInv'
  <2> USE <1>t, <1>3 DEF ReadHead, Goto, At
  <2>1. TypeOK'
    BY DEF TypeOK, Places
  <2>2. LockInv' /\ NodeInv'
    BY DEF LockInv, NodeInv, InLock, TypeOK
  <2>3. CountInv'
    BY DEF CountInv, TypeOK
  <2>4. RamExclusive'
    BY DEF RamExclusive, FramesOf
  <2>5. QED
    BY <2>1, <2>2, <2>3, <2>4 DEF IInv
<1>4. ASSUME NEW p \in Procs, TakeFrame(p) PROVE IInv'
  <2> USE <1>t, <1>4 DEF TakeFrame, Goto, At
  <2>1. fp[p] = ramHead /\ pgnum[p] > 0 /\ mmvm_lock = p /\ ramHead \in Frames
    BY DEF NodeInv, LockInv, InLock, TypeOK, Frames
  <2>2. TypeOK'
    BY <2>1 DEF TypeOK, Places, Frames
  <2>3. LockInv'
    BY DEF LockInv, InLock, TypeOK
  <2>4. NodeInv'
    BY <2>1 DEF NodeInv, LockInv, InLock, TypeOK
  <2>5. ramHead \notin frm_lst[p]
    BY DEF RamExclusive, FramesOf, TypeOK
  <2>6. CountInv'
    <3>1. Cardinality(frm_lst[p] \cup {ramHead}) = Cardinality(frm_lst[p]) + 1
      BY <2>5, FramesFinite, FS_AddElement DEF TypeOK
    <3>2. Cardinality(frm_lst[p]) \in Nat
      BY FramesFinite DEF TypeOK
    <3>3. frm_lst'[p] = frm_lst[p] \cup {ramHead} /\ pgnum'[p] = pgnum[p] - 1
      BY <2>1 DEF TypeOK
    <3>4. Cardinality(frm_lst'[p]) + pgnum'[p] = Cardinality(frm_lst[p]) + pgnum[p]
      BY <2>1, <3>1, <3>2, <3>3 DEF TypeOK
    <3>5. QED
      BY <3>4 DEF CountInv, TypeOK
  <2>7. RamExclusive'
    <3>1. \A q \in Procs : FramesOf(q)' = IF q = p THEN FramesOf(q) \cup {ramHead}
                                                  ELSE FramesOf(q)
      BY <2>1 DEF FramesOf, TypeOK
    <3>2. \A q \in Procs : \A f \in FramesOf(q) : f \in Nat /\ f < ramHead
      BY DEF RamExclusive, FramesOf, TypeOK, Frames
    <3>3. ramHead' = ramHead + 1 /\ ramHead \in Nat
      BY <2>1 DEF TypeOK
    <3>4. \A q \in Procs : \A f \in FramesOf(q)' : f < ramHead'
      BY <3>1, <3>2, <3>3
    <3>5. \A q \in Procs : ramHead \notin FramesOf(q)
      BY <3>2, <3>3
    <3>6. \A q, r \in Procs : q # r => FramesOf(q)' \cap FramesOf(r)' = {}
      BY <3>1, <3>5 DEF RamExclusive
    <3>7. QED
      BY <3>4, <3>6 DEF RamExclusive
  <2>8. QED
    BY <2>2, <2>3, <2>4, <2>6, <2>7 DEF IInv
<1>5. ASSUME NEW p \in Procs, NoFrame(p) PROVE IInv'
  <2> USE <1>t, <1>5 DEF NoFrame, Goto, At
  <2>1. TypeOK'
    BY DEF TypeOK, Places
  <2>2. LockInv' /\ NodeInv'
    BY DEF LockInv, NodeInv, InLock, TypeOK
  <2>3. CountInv'
    BY DEF CountInv, TypeOK
  <2>4. RamExclusive'
    BY DEF RamExclusive, FramesOf, TypeOK
  <2>5. QED
    BY <2>1, <2>2, <2>3, <2>4 DEF IInv
<1>6. ASSUME NEW p \in Procs, MapFrames(p) PROVE IInv'
  <2> USE <1>t, <1>6 DEF MapFrames, Goto, At
  <2>1. TypeOK'
    BY DEF TypeOK, Places
  <2>2. LockInv' /\ NodeInv'
    BY DEF LockInv, NodeInv, InLock, TypeOK
  <2>3. CountInv'
    BY DEF CountInv, TypeOK
  <2>4. \A q \in Procs : FramesOf(q)' = FramesOf(q)
    BY DEF FramesOf, TypeOK
  <2>5. RamExclusive'
    BY <2>4 DEF RamExclusive
  <2>6. QED
    BY <2>1, <2>2, <2>3, <2>5 DEF IInv
<1>7. ASSUME NEW p \in Procs, Return(p) PROVE IInv'
  <2> USE <1>t, <1>7 DEF Return, Goto, At
  <2>1. TypeOK'
    BY DEF TypeOK, Places, callVars
  <2>2. LockInv' /\ NodeInv'
    BY DEF LockInv, NodeInv, InLock, TypeOK, callVars
  <2>3. CountInv'
    BY DEF CountInv, TypeOK, callVars
  <2>4. RamExclusive'
    BY DEF RamExclusive, FramesOf, callVars
  <2>5. QED
    BY <2>1, <2>2, <2>3, <2>4 DEF IInv
<1>8. ASSUME NEW p \in Procs, Fault(p) PROVE IInv'
  <2> USE <1>t, <1>8 DEF Fault, Begin, Goto, At
  <2>1. TypeOK'
    BY DEF TypeOK, Places
  <2>2. LockInv' /\ NodeInv'
    BY DEF LockInv, NodeInv, InLock, TypeOK
  <2>3. CountInv'
    BY DEF CountInv, TypeOK
  <2>4. RamExclusive'
    BY DEF RamExclusive, FramesOf
  <2>5. QED
    BY <2>1, <2>2, <2>3, <2>4 DEF IInv
<1>9. ASSUME NEW p \in Procs, TakeSwap(p) \/ NoSwap(p) PROVE IInv'
  <2> USE <1>t, <1>9 DEF TakeSwap, NoSwap, Goto, At
  <2>1. TypeOK'
    BY DEF TypeOK, Places
  <2>2. LockInv' /\ NodeInv'
    BY DEF LockInv, NodeInv, InLock, TypeOK
  <2>3. CountInv'
    BY DEF CountInv, TypeOK
  <2>4. RamExclusive'
    BY DEF RamExclusive, FramesOf
  <2>5. QED
    BY <2>1, <2>2, <2>3, <2>4 DEF IInv
<1>10. ASSUME UNCHANGED vars PROVE IInv'
  BY <1>t, <1>10 DEF vars, callVars, IInv, TypeOK, LockInv, NodeInv, CountInv,
     RamExclusive, FramesOf
<1>11. QED
  BY <1>1, <1>2, <1>3, <1>4, <1>5, <1>6, <1>7, <1>8, <1>9, <1>10
     DEF Next, Step, AllEnded

LEMMA Invariant == Spec => []IInv
BY InitInv, NextInv, PTL DEF Spec

(* However the calls of the processes interleave, mmvm_lock keeps every    *)
(* RAM frame from being given to two of them.                              *)
THEOREM Exclusive == Spec => []RamExclusive
<1>1. IInv => RamExclusive
  BY DEF IInv
<1>2. QED
  BY Invariant, <1>1, PTL

-----------------------------------------------------------------------------
(* The refinement.  Until a call maps its frames they count as free; the   *)
(* step that maps them is the grant.                                       *)

(* FramePool counts as this module does.                                   *)
LEMMA SameCardinality == ASSUME NEW S PROVE Pool!Cardinality(S) = Cardinality(S)
BY DEF Pool!Cardinality, Cardinality

LEMMA InitPool == Init => Pool!PoolInit
<1> SUFFICES ASSUME Init PROVE Pool!PoolInit
  OBVIOUS
<1>1. PoolFree = Frames
  BY DEF Init, PoolFree, Frames
<1>2. QED
  BY <1>1 DEF Init, Pool!PoolInit, Pool!Frames, Frames

(* Taking a frame from the list only moves it from one free place to       *)
(* another.                                                                *)
LEMMA TakeKeepsPool ==
  ASSUME IInv, NEW p \in Procs, TakeFrame(p)
  PROVE  PoolFree' = PoolFree
<1> USE MemPhyAssumption
<1>1. fp[p] = ramHead /\ ramHead \in Frames /\ ramHead' = ramHead + 1
  BY DEF IInv, NodeInv, TypeOK, Frames, TakeFrame, At
<1>2. \A q \in Procs :
        frm_lst'[q] = IF q = p THEN frm_lst[q] \cup {ramHead} ELSE frm_lst[q]
  BY <1>1 DEF IInv, TypeOK, TakeFrame
<1>3. \A f \in Frames :
        f \in PoolFree' <=> f >= ramHead + 1 \/ \E q \in Procs : f \in frm_lst'[q]
  BY <1>1 DEF PoolFree
<1>4. \A f \in Frames : f >= ramHead <=> f >= ramHead + 1 \/ f = ramHead
  BY <1>1 DEF Frames
<1>5. \A f \in Frames : f \in PoolFree' <=> f \in PoolFree
  BY <1>2, <1>3, <1>4 DEF PoolFree
<1>6. PoolFree \subseteq Frames /\ PoolFree' \subseteq Frames
  BY DEF PoolFree
<1>7. QED
  BY <1>5, <1>6

(* A request fails when fewer frames are left than it asked for: those in  *)
(* the list, of which there are none, and those it has got.                *)
LEMMA FailIsExhaust ==
  ASSUME IInv, NEW p \in Procs, NoFrame(p)
  PROVE  Pool!Exhaust
<1> USE MemPhyAssumption
<1>1. /\ at[p] = "node" /\ fp[p] = NumFrames /\ ramHead' = ramHead
      /\ frm_lst' = [frm_lst EXCEPT ![p] = {}] /\ mapped' = mapped
  BY DEF NoFrame, At
<1>2. ramHead = NumFrames /\ pgnum[p] > 0 /\ mmvm_lock = p
  BY <1>1 DEF IInv, NodeInv, LockInv, InLock
<1>3. \A q \in Procs : q # p => frm_lst[q] = {}
  BY <1>2 DEF IInv, LockInv, InLock, CountInv
<1>4. PoolFree = frm_lst[p]
  BY <1>2, <1>3 DEF PoolFree, Frames, IInv, TypeOK
<1>5. PoolFree' = {}
  BY <1>1, <1>2, <1>3 DEF PoolFree, Frames, IInv, TypeOK
<1>6. /\ Cardinality(frm_lst[p]) \in Nat /\ pgnum[p] \in Nat
      /\ Cardinality(frm_lst[p]) + pgnum[p] \in Asked
  BY <1>1, FramesFinite DEF IInv, TypeOK, CountInv
<1>7. Cardinality(frm_lst[p]) + pgnum[p] \in Requests
  BY <1>2, <1>6 DEF Asked
<1>8. Cardinality(PoolFree) < Cardinality(frm_lst[p]) + pgnum[p]
  BY <1>2, <1>4, <1>6
<1>9. QED
  BY <1>1, <1>5, <1>7, <1>8, SameCardinality DEF Pool!Exhaust

(* Mapping the frames of a request grants them all; a call that needed     *)
(* none changes nothing.                                                   *)
LEMMA MapIsGrant ==
  ASSUME IInv, NEW p \in Procs, MapFrames(p)
  PROVE  Pool!PoolNext \/ UNCHANGED <<PoolFree, mapped>>
<1> USE MemPhyAssumption
<1>1. /\ at[p] = "get" /\ pgnum[p] = 0 /\ ramHead' = ramHead
      /\ frm_lst' = [frm_lst EXCEPT ![p] = {}]
      /\ mapped' = [mapped EXCEPT ![p] = @ \cup frm_lst[p]]
  BY DEF MapFrames, At
<1>2. mmvm_lock = p
  BY <1>1 DEF IInv, LockInv, InLock
<1>3. \A q \in Procs : q # p => frm_lst[q] = {}
  BY <1>2 DEF IInv, LockInv, InLock, CountInv
<1>4. Cardinality(frm_lst[p]) \in Asked
  BY <1>1, FramesFinite DEF IInv, CountInv, TypeOK
<1>5. frm_lst[p] \subseteq PoolFree
  BY DEF PoolFree, IInv, TypeOK
<1>6. \A f \in frm_lst[p] : f \in Nat /\ f < ramHead
  BY DEF IInv, RamExclusive, FramesOf, TypeOK, Frames
<1>7. PoolFree' = PoolFree \ frm_lst[p]
  <2>1. PoolFree' = {f \in Frames : f >= ramHead}
    BY <1>1, <1>3 DEF PoolFree, IInv, TypeOK
  <2>2. PoolFree = {f \in Frames : f >= ramHead} \cup frm_lst[p]
    BY <1>3 DEF PoolFree, IInv, TypeOK
  <2>3. \A f \in frm_lst[p] : ~(f >= ramHead)
    BY <1>6 DEF IInv, TypeOK
  <2>4. QED
    BY <2>1, <2>2, <2>3
<1>8. CASE frm_lst[p] = {}
  BY <1>1, <1>7, <1>8 DEF IInv, TypeOK
<1>9. CASE frm_lst[p] # {}
  <2>1. Cardinality(frm_lst[p]) # 0
    BY <1>9, FramesFinite, FS_EmptySet DEF IInv, TypeOK
  <2>2. Pool!Grant(p, frm_lst[p])
    BY <1>1, <1>4, <1>5, <1>7, <2>1, SameCardinality DEF Pool!Grant, Asked
  <2>3. QED
    BY <1>5, <2>2 DEF Pool!PoolNext
<1>10. QED
  BY <1>8, <1>9

LEMMA StepPool ==
  ASSUME IInv, [Next]_vars
  PROVE  [Pool!PoolNext]_<<PoolFree, mapped>>
<1>1. ASSUME UNCHANGED <<ramHead, frm_lst, mapped>>
      PROVE  UNCHANGED <<PoolFree, mapped>>
  BY <1>1 DEF PoolFree
<1>2. ASSUME NEW p \in Procs, Step(p) PROVE [Pool!PoolNext]_<<PoolFree, mapped>>
  <2>1. CASE TakeFrame(p)
    BY <2>1, TakeKeepsPool DEF TakeFrame
  <2>2. CASE NoFrame(p)
    BY <2>2, FailIsExhaust DEF Pool!PoolNext
  <2>3. CASE MapFrames(p)
    BY <2>3, MapIsGrant
  <2>4. ASSUME ~TakeFrame(p), ~NoFrame(p), ~MapFrames(p)
        PROVE  UNCHANGED <<ramHead, frm_lst, mapped>>
    BY <1>2, <2>4 DEF Step, Call, Lock, ReadHead, Return, Fault, TakeSwap, NoSwap,
       callVars
  <2>5. QED
    BY <1>1, <2>1, <2>2, <2>3, <2>4
<1>3. ASSUME UNCHANGED vars PROVE UNCHANGED <<ramHead, frm_lst, mapped>>
  BY <1>3 DEF vars, callVars
<1>4. QED
  BY <1>1, <1>2, <1>3 DEF Next, AllEnded

(* The calls of MEMPHY_get_freefp() one by one, as the lock orders them,   *)
(* amount to requests that are granted or refused as a whole: what Mm and  *)
(* every other reader of alloc_pages_range() takes for granted.            *)
THEOREM ImplementsPool == Spec => PoolRefined
<1>1. IInv /\ [Next]_vars => [Pool!PoolNext]_<<PoolFree, mapped>>
  BY StepPool
<1>2. QED
  BY InitPool, Invariant, <1>1, PTL DEF Spec, PoolRefined, Pool!PoolSpec
=============================================================================
