-------------------------------- MODULE MemPhy --------------------------------
(***************************************************************************)
(* The frame lists of the devices under concurrent calls:                  *)
(* MEMPHY_get_freefp() with its read and its write of free_fp_list, the    *)
(* loop of alloc_pages_range() around it, mmvm_lock around that with those *)
(* who wait for it, and the page faults, which take a SWAP frame without   *)
(* the lock.  Which pages get the frames, and what is in them, is in Mm.   *)
(*                                                                         *)
(* No frame ever comes back (MEMPHY_put_freefp() has no caller), so that   *)
(* the nodes stay linked in the order of their numbers: a list is the      *)
(* number of its first node, and the number of frames stands for NULL.     *)
(***************************************************************************)
EXTENDS Naturals, FiniteSets

CONSTANTS
  Procs,      (* the processes, each on a CPU of its own at the time         *)
  NumFrames,  (* frames of RAM                                               *)
  NumSwap,    (* frames of the active SWAP                                   *)
  Requests,   (* numbers of pages a call may have to get                     *)
  CodeSize,   (* bound: memory instructions per process                      *)
  Nobody      (* mmvm_lock is free                                           *)

Frames == 0 .. NumFrames - 1

(* MEMPHY_format() sets fp_next of the last node only if there are two.    *)
ASSUME MemPhyAssumption ==
  /\ NumFrames \in Nat \ {0, 1}
  /\ NumSwap \in Nat \ {0, 1}
  /\ Requests \subseteq Nat \ {0}
  /\ CodeSize \in Nat
  /\ Nobody \notin Procs

VARIABLES
  ramHead,    (* free_fp_list of RAM                                         *)
  swpHead,    (* free_fp_list of the active SWAP                             *)
  mmvm_lock,  (* the process that holds it                                   *)
  at,         (* per process: where its call is                              *)
  pgnum,      (* per process: how many frames its call has still to get      *)
  fp,         (* per process: the node it has read, 0 when it is done with it *)
  frm_lst,    (* per process: the frames its call has got                    *)
  mapped,     (* per process: the frames in its page table                   *)
  swapped,    (* per process: the SWAP frames its pages have gone to         *)
  calls       (* per process: how many calls it has made                     *)

callVars == <<pgnum, fp, frm_lst>>
vars == <<ramHead, swpHead, mmvm_lock, at, callVars, mapped, swapped, calls>>

Places == {"idle", "lock", "get", "node", "return", "swapnode"}

(* Every variable has its type: in particular a list ends where its device *)
(* ends, and a node is one of the device or NULL.                          *)
TypeOK ==
  /\ ramHead \in 0 .. NumFrames
  /\ swpHead \in 0 .. NumSwap
  /\ mmvm_lock \in Procs \cup {Nobody}
  /\ at \in [Procs -> Places]
  /\ pgnum \in [Procs -> Nat]
  /\ fp \in [Procs -> Nat]
  /\ frm_lst \in [Procs -> SUBSET Frames]
  /\ mapped \in [Procs -> SUBSET Frames]
  /\ swapped \in [Procs -> SUBSET (0 .. NumSwap)]
  /\ calls \in [Procs -> 0 .. CodeSize]

Init ==
  /\ ramHead = 0
  /\ swpHead = 0
  /\ mmvm_lock = Nobody
  /\ at = [p \in Procs |-> "idle"]
  /\ pgnum = [p \in Procs |-> 0]
  /\ fp = [p \in Procs |-> 0]
  /\ frm_lst = [p \in Procs |-> {}]
  /\ mapped = [p \in Procs |-> {}]
  /\ swapped = [p \in Procs |-> {}]
  /\ calls = [p \in Procs |-> 0]

At(p, l) == at[p] = l
Goto(p, l) == at' = [at EXCEPT ![p] = l]

Begin(p, l) ==
  /\ At(p, "idle")
  /\ calls[p] < CodeSize
  /\ calls' = [calls EXCEPT ![p] = @ + 1]
  /\ Goto(p, l)

-----------------------------------------------------------------------------
(* Allocations *)

(* __alloc() that will need n frames; with none, because a free region is  *)
(* large enough, or __free().                                              *)
Call(p, n) ==
  /\ Begin(p, "lock")
  /\ pgnum' = [pgnum EXCEPT ![p] = n]
  /\ UNCHANGED <<ramHead, swpHead, mmvm_lock, fp, frm_lst, mapped, swapped>>

(* pthread_mutex_lock(&mmvm_lock).                                         *)
Lock_NoWait(p) ==     \* mutation: a mutex for each process
  /\ At(p, "lock")
  /\ mmvm_lock' = p
  /\ Goto(p, "get")
  /\ UNCHANGED <<ramHead, swpHead, callVars, mapped, swapped, calls>>

Lock(p) ==
  /\ At(p, "lock")
  /\ mmvm_lock = Nobody
  /\ mmvm_lock' = p
  /\ Goto(p, "get")
  /\ UNCHANGED <<ramHead, swpHead, callVars, mapped, swapped, calls>>

(* SYSCALL 17 of the program itself: inc_vma_limit() without the lock.     *)
Memmap(p, n) ==
  /\ Begin(p, "get")
  /\ pgnum' = [pgnum EXCEPT ![p] = n]
  /\ UNCHANGED <<ramHead, swpHead, mmvm_lock, fp, frm_lst, mapped, swapped>>

(* alloc_pages_range() and MEMPHY_get_freefp(): read the head of the list, *)
ReadHead(p) ==
  /\ At(p, "get")
  /\ pgnum[p] > 0
  /\ fp' = [fp EXCEPT ![p] = ramHead]
  /\ Goto(p, "node")
  /\ UNCHANGED <<ramHead, swpHead, mmvm_lock, pgnum, frm_lst, mapped, swapped, calls>>

(* ... take the frame of that node and make the next one the head,         *)
TakeFrame_NoNull(p) ==     \* mutation: fp == NULL not tested
  /\ At(p, "node")
  /\ ramHead' = fp[p] + 1
  /\ frm_lst' = [frm_lst EXCEPT ![p] = @ \cup {fp[p]}]
  /\ pgnum' = [pgnum EXCEPT ![p] = @ - 1]
  /\ Goto(p, "get")
  /\ fp' = [fp EXCEPT ![p] = 0]
  /\ UNCHANGED <<swpHead, mmvm_lock, mapped, swapped, calls>>

TakeFrame(p) ==
  /\ At(p, "node")
  /\ fp[p] < NumFrames
  /\ ramHead' = fp[p] + 1
  /\ frm_lst' = [frm_lst EXCEPT ![p] = @ \cup {fp[p]}]
  /\ pgnum' = [pgnum EXCEPT ![p] = @ - 1]
  /\ Goto(p, "get")
  /\ fp' = [fp EXCEPT ![p] = 0]
  /\ UNCHANGED <<swpHead, mmvm_lock, mapped, swapped, calls>>

(* ... or find the list empty: the request fails, and the frames it has    *)
(* got are forgotten.                                                      *)
NoFrame_MapsRest(p) ==     \* mutation: vm_map_ram() ignores the -3000
  /\ At(p, "node")
  /\ fp[p] = NumFrames
  /\ pgnum' = [pgnum EXCEPT ![p] = 0]
  /\ Goto(p, "get")
  /\ fp' = [fp EXCEPT ![p] = 0]
  /\ UNCHANGED <<ramHead, swpHead, mmvm_lock, frm_lst, mapped, swapped, calls>>

NoFrame_Retry(p) ==     \* mutation: try again until there is one
  /\ At(p, "node")
  /\ fp[p] = NumFrames
  /\ Goto(p, "get")
  /\ fp' = [fp EXCEPT ![p] = 0]
  /\ UNCHANGED <<ramHead, swpHead, mmvm_lock, pgnum, frm_lst, mapped, swapped, calls>>

NoFrame_KeepLock(p) ==     \* mutation: this way out does not unlock
  /\ At(p, "node")
  /\ fp[p] = NumFrames
  /\ frm_lst' = [frm_lst EXCEPT ![p] = {}]
  /\ pgnum' = [pgnum EXCEPT ![p] = 0]
  /\ Goto(p, "idle")
  /\ fp' = [fp EXCEPT ![p] = 0]
  /\ UNCHANGED <<ramHead, swpHead, mmvm_lock, mapped, swapped, calls>>

NoFrame(p) ==
  /\ At(p, "node")
  /\ fp[p] = NumFrames
  /\ frm_lst' = [frm_lst EXCEPT ![p] = {}]
  /\ pgnum' = [pgnum EXCEPT ![p] = 0]
  /\ Goto(p, "return")
  /\ fp' = [fp EXCEPT ![p] = 0]
  /\ UNCHANGED <<ramHead, swpHead, mmvm_lock, mapped, swapped, calls>>

(* vmap_page_range(): the pages get the frames.                            *)
MapFrames(p) ==
  /\ At(p, "get")
  /\ pgnum[p] = 0
  /\ mapped' = [mapped EXCEPT ![p] = @ \cup frm_lst[p]]
  /\ frm_lst' = [frm_lst EXCEPT ![p] = {}]
  /\ Goto(p, "return")
  /\ UNCHANGED <<ramHead, swpHead, mmvm_lock, pgnum, fp, swapped, calls>>

(* Every way out of __alloc() and __free() releases the lock; a system     *)
(* call of the program has none to release.                                *)
Return(p) ==
  /\ At(p, "return")
  /\ Goto(p, "idle")
  /\ mmvm_lock' = IF mmvm_lock = p THEN Nobody ELSE mmvm_lock
  /\ UNCHANGED <<ramHead, swpHead, callVars, mapped, swapped, calls>>

-----------------------------------------------------------------------------
(* Page faults: pg_getpage() gets one SWAP frame for the victim, a page of *)
(* the same process (page 0, if none is mapped).                           *)
Fault(p) ==
  /\ Begin(p, "swapnode")
  /\ fp' = [fp EXCEPT ![p] = swpHead]
  /\ UNCHANGED <<ramHead, swpHead, mmvm_lock, pgnum, frm_lst, mapped, swapped>>

TakeSwap(p) ==
  /\ At(p, "swapnode")
  /\ fp[p] < NumSwap
  /\ swpHead' = fp[p] + 1
  /\ swapped' = [swapped EXCEPT ![p] = @ \cup {fp[p]}]
  /\ Goto(p, "idle")
  /\ fp' = [fp EXCEPT ![p] = 0]
  /\ UNCHANGED <<ramHead, mmvm_lock, pgnum, frm_lst, mapped, calls>>

(* SWAP is full: swpfpn has not been set.                                  *)
NoSwap(p) ==
  /\ At(p, "swapnode")
  /\ fp[p] = NumSwap
  /\ \E f \in 0 .. NumSwap : swapped' = [swapped EXCEPT ![p] = @ \cup {f}]
  /\ Goto(p, "idle")
  /\ fp' = [fp EXCEPT ![p] = 0]
  /\ UNCHANGED <<ramHead, swpHead, mmvm_lock, pgnum, frm_lst, mapped, calls>>

-----------------------------------------------------------------------------
Step(p) ==
  \/ \E n \in Requests \cup {0} : Call(p, n)
  \/ Lock(p) \/ ReadHead(p) \/ TakeFrame(p) \/ NoFrame(p) \/ MapFrames(p) \/ Return(p)
  \/ Fault(p) \/ TakeSwap(p) \/ NoSwap(p)

(* Every program has ended.                                                *)
AllEnded ==
  /\ \A p \in Procs : At(p, "idle") /\ calls[p] = CodeSize
  /\ UNCHANGED vars

Next == (\E p \in Procs : Step(p)) \/ AllEnded

(* The programs of the repository: no SYSCALL 17 of their own.             *)
Spec == Init /\ [][Next]_vars

(* The CPU threads run on a fair host scheduler.                           *)
FairSpec == Spec /\ \A p \in Procs : WF_vars(Step(p))

(* Programs that also call SYSCALL 17.                                     *)
UserNext == Next \/ \E p \in Procs, n \in Requests : Memmap(p, n)

UserSpec == Init /\ [][UserNext]_vars

-----------------------------------------------------------------------------
(* Properties *)

FramesOf(p) == mapped[p] \cup frm_lst[p]

(* However the calls interleave, no RAM frame gets to two processes, and   *)
(* none that a process has is still in the list.                           *)
RamExclusive ==
  \A p \in Procs :
    /\ \A q \in Procs : p # q => FramesOf(p) \cap FramesOf(q) = {}
    /\ \A f \in FramesOf(p) : f < ramHead


(* A call that has begun comes back: the lock is always released, and the  *)
(* loop ends, whether or not there are frames.                             *)
EveryCallReturns == \A p \in Procs : ~At(p, "idle") ~> At(p, "idle")

(* Nobody is stuck: a process has ended, or can go on, or waits for        *)
(* mmvm_lock, whose holder can go on.                                      *)
Ended(p) == At(p, "idle") /\ calls[p] = CodeSize

GoesOn(p) ==
  \/ At(p, "idle") /\ calls[p] < CodeSize
  \/ At(p, "lock") /\ mmvm_lock = Nobody
  \/ At(p, "node") /\ fp[p] <= NumFrames
  \/ At(p, "swapnode") /\ fp[p] <= NumSwap
  \/ at[p] \in {"get", "return"}

NobodyStuck ==
  \A p \in Procs :
    \/ Ended(p)
    \/ GoesOn(p)
    \/ At(p, "lock") /\ mmvm_lock \in Procs /\ GoesOn(mmvm_lock)

(* Nobody goes round in circles: each step brings the process that takes   *)
(* it nearer to its return, or to its end, and no other one further away.  *)
(* A frame still to get is two steps.                                      *)
ToGo(p) ==
  CASE At(p, "lock") -> 2 * pgnum[p] + 3
    [] At(p, "get")  -> 2 * pgnum[p] + 2
    [] At(p, "node") -> 2 * pgnum[p] + 1
    [] at[p] \in {"return", "swapnode"} -> 1
    [] OTHER -> 0

Nearer(p) ==
  \/ calls'[p] > calls[p]
  \/ calls'[p] = calls[p] /\ ToGo(p)' < ToGo(p)

CallsAdvance ==
  [][\E p \in Procs :
       /\ Nearer(p)
       /\ \A q \in Procs \ {p} : calls'[q] = calls[q] /\ ToGo(q)' = ToGo(q)]_vars

(* Refinement: a call gets all of its frames at once, or fails because     *)
(* there are too few.  What a call has got but not yet mapped still counts *)
(* as free.                                                                *)
PoolFree ==
  {f \in Frames : f >= ramHead \/ \E p \in Procs : f \in frm_lst[p]}

Pool == INSTANCE FramePool WITH free <- PoolFree, owned <- mapped

PoolRefined == Pool!PoolSpec
=============================================================================
