----------------------------- MODULE MmFrameProofs -----------------------------
(***************************************************************************)
(* The frames of the memory library, for programs that leave SYSCALL 17    *)
(* alone: frames are then taken under mmvm_lock only.  Between the two     *)
(* steps of MEMPHY_get_freefp() nobody moves the head that was read, so    *)
(* that a frame is granted once, and the page table is as long as RAM is   *)
(* large.                                                                  *)
(*                                                                         *)
(* The invariant has two parts: about calls, of which one at most holds    *)
(* the lock and with it frames, and about the frames themselves, which lie *)
(* before the head of the list once they are taken.  What it says of page  *)
(* tables ends with the first page fault; the rest does not.               *)
(***************************************************************************)
EXTENDS MmProofs

(* Whoever is in __alloc() has the lock, and nobody else has frames that   *)
(* are not mapped or a head that it has read.                              *)
LockHolder ==
  \A p \in Procs :
    /\ call[p].op = "alloc" <=> mmvm_lock = p
    /\ call[p].op # "memmap"
    /\ call[p].op # "alloc" => frm_lst[p] = << >>
    /\ call[p].op \in {"none", "access"} => node[p] = NoNode
    /\ call[p].op = "alloc" /\ node[p] # NoNode => node[p] = ramHead

TakenOnce ==
  \A p \in Procs :
    /\ \A i \in DOMAIN frm_lst[p] : frm_lst[p][i] < ramHead
    /\ \A i, j \in DOMAIN frm_lst[p] : frm_lst[p][i] = frm_lst[p][j] => i = j

(* The pages of a process, and those it is about to map, are at most as    *)
(* many as the frames that have been taken.                                *)
FewPages ==
  \A p \in Procs : \E n \in Nat :
    vm_end[p] = n * PageSz /\ n + Len(frm_lst[p]) <= ramHead

TakenInv == LockHolder /\ TakenOnce /\ FewPages

FramesThere ==
  \A p \in Procs, g \in Pages :
    /\ pgd[p][g].low \in 0 .. FpnRange - 1
    /\ pgd[p][g].present => pgd[p][g].low < ramHead

Alone ==
  \A p, q \in Procs : \A g, h \in Pages :
    pgd[p][g].present /\ pgd[q][h].present /\ pgd[p][g].low = pgd[q][h].low
      => p = q /\ g = h

NotTaken ==
  \A p, q \in Procs : \A g \in Pages : \A i \in DOMAIN frm_lst[q] :
    pgd[p][g].present => frm_lst[q][i] # pgd[p][g].low

MapInv == Unfaulted => FramesThere /\ Alone /\ NotTaken

IInv == Inv /\ TakenInv /\ MapInv

LEMMA FrameNumber ==
  ASSUME NEW x \in 0 .. FpnRange - 1
  PROVE  x % FpnRange = x
<1>1. FpnRange \in Nat \ {0}
  BY MmAssumption
<1>2. QED
  BY <1>1

(* The number that pte_set_fpn() puts in is the one that is read out.      *)
LEMMA SetFrame ==
  ASSUME NEW pte \in Pte, pte.low \in 0 .. FpnRange - 1, NEW f \in Frames
  PROVE  pte_set_fpn(pte, f) = [present |-> TRUE, swapped |-> FALSE, low |-> f]
<1>1. f \in 0 .. FpnRange - 1
  BY MmAssumption DEF Frames
<1>2. Fpn(pte) = pte.low /\ f % FpnRange = f
  BY <1>1, FrameNumber DEF Fpn
<1>3. pte.low - Fpn(pte) + (f % FpnRange) = f
  BY <1>1, <1>2
<1>4. QED
  BY <1>3 DEF pte_set_fpn

-----------------------------------------------------------------------------
(* The calls *)

(* What a step of p leaves to every other process.                         *)
Others(p) ==
  \A q \in Procs : q # p =>
    call'[q] = call[q] /\ node'[q] = node[q] /\ frm_lst'[q] = frm_lst[q]

LEMMA CallFunctions ==
  ASSUME Inv
  PROVE  /\ call = [q \in Procs |-> call[q]] /\ node = [q \in Procs |-> node[q]]
         /\ frm_lst \in [Procs -> Seq(Frames)]
         /\ ramHead \in 0 .. NumFrames /\ NumFrames \in Nat
         /\ vm_end \in [Procs -> Nat] /\ pgd \in [Procs -> [Pages -> Pte]]
BY MmAssumption DEF Inv, CallInv, RegionInv, PageInv

(* A step that changes neither the area nor the list of p.                 *)
LEMMA SameLists ==
  ASSUME Inv, TakenInv, LockHolder', UNCHANGED <<ramHead, vm_end, frm_lst>>
  PROVE  TakenInv'
BY DEF TakenInv, TakenOnce, FewPages

LEMMA EnterStep ==
  ASSUME IInv, NEW p \in Procs,
         \/ \E r \in Rgids, size \in Sizes : AllocCall(p, r, size)
         \/ \E r \in Rgids, off \in Offsets, w \in BOOLEAN, v \in Values :
              Fault(p, r, off, w, v)
  PROVE  TakenInv'
<1>1. LockHolder /\ call[p] = NoCall /\ UNCHANGED <<ramHead, frm_lst, vm_end>>
  BY DEF IInv, TakenInv, AllocCall, Fault, Running, regionVars, listVars
<1>2. call[p].op = "none" /\ frm_lst[p] = << >> /\ node[p] = NoNode /\ mmvm_lock # p
  BY <1>1 DEF LockHolder, NoCall
<1>3. CASE \E r \in Rgids, size \in Sizes : AllocCall(p, r, size)
  <2>r. PICK r \in Rgids, size \in Sizes : call' = [call EXCEPT ![p] = AllocOf(r, size)]
    BY <1>3 DEF AllocCall
  <2>1. call' = [call EXCEPT ![p] = AllocOf(r, size)] /\ AllocOf(r, size).op = "alloc"
    BY <2>r DEF AllocOf
  <2>2. mmvm_lock' = p /\ mmvm_lock = Nobody /\ node' = node
    BY <1>3 DEF AllocCall, listVars
  <2>3. call'[p].op = "alloc" /\ \A q \in Procs : q # p => call'[q] = call[q]
    BY <2>1, CallFunctions DEF IInv
  <2>4. \A q \in Procs : q # Nobody
    BY MmAssumption
  <2>5. LockHolder'
    BY <1>1, <1>2, <2>2, <2>3, <2>4 DEF LockHolder
  <2>6. QED
    BY <1>1, <2>5, SameLists DEF IInv
<1>4. CASE \E r \in Rgids, off \in Offsets, w \in BOOLEAN, v \in Values :
             Fault(p, r, off, w, v)
  <2>r. PICK a \in Addresses, w \in BOOLEAN, v \in Values :
               call' = [call EXCEPT ![p] = FaultOf(a, w, v)]
    BY <1>4 DEF Fault
  <2>1. call' = [call EXCEPT ![p] = FaultOf(a, w, v)] /\ FaultOf(a, w, v).op = "fault"
    BY <2>r DEF FaultOf
  <2>2. mmvm_lock' = mmvm_lock /\ node' = [node EXCEPT ![p] = swpHead]
    BY <1>4 DEF Fault
  <2>3. /\ call'[p].op = "fault"
        /\ \A q \in Procs : q # p => call'[q] = call[q] /\ node'[q] = node[q]
    BY <2>1, <2>2, CallFunctions DEF IInv
  <2>4. LockHolder'
    BY <1>1, <1>2, <2>2, <2>3 DEF LockHolder
  <2>5. QED
    BY <1>1, <2>4, SameLists DEF IInv
<1>5. QED
  BY <1>3, <1>4

LEMMA FaultTaken ==
  ASSUME IInv, NEW p \in Procs, TakeSwap(p) \/ NoSwap(p)
  PROVE  TakenInv'
<1>1. PICK off \in Nat : ReplacePage(p, off)
  BY FaultCall DEF IInv, Inv
<1>2. /\ call[p].op = "fault"
      /\ call' = [call EXCEPT ![p].op = "access"]
      /\ node' = [node EXCEPT ![p] = NoNode]
      /\ UNCHANGED <<mmvm_lock, ramHead, frm_lst, vm_end>>
  BY <1>1 DEF TakeSwap, NoSwap, ReplacePage, regionVars
<1>3. /\ call'[p].op = "access" /\ node'[p] = NoNode
      /\ \A q \in Procs : q # p => call'[q] = call[q] /\ node'[q] = node[q]
  <2>1. call[p] \in [op : {"fault", "access"}, addr : Addresses,
                     write : BOOLEAN, value : Values]
    BY <1>2, CallTypes DEF IInv, Inv
  <2>2. [call[p] EXCEPT !.op = "access"].op = "access"
    BY <2>1
  <2>3. QED
    BY <1>2, <2>2, CallFunctions DEF IInv
<1>4. LockHolder'
  BY <1>2, <1>3 DEF IInv, TakenInv, LockHolder
<1>5. QED
  BY <1>2, <1>4, SameLists DEF IInv

(* The head is read while the lock is held.                                *)
LEMMA ReadHeadTaken ==
  ASSUME IInv, NEW p \in Procs, ReadHead(p)
  PROVE  TakenInv'
<1>1. /\ node' = [node EXCEPT ![p] = ramHead]
      /\ UNCHANGED <<mmvm_lock, call, ramHead, frm_lst, vm_end>>
      /\ LockHolder
  BY DEF IInv, TakenInv, ReadHead, regionVars
<1>2. call[p].op = "alloc"
  BY <1>1 DEF ReadHead, Growing, LockHolder
<1>3. node'[p] = ramHead /\ \A q \in Procs : q # p => node'[q] = node[q]
  BY <1>1, CallFunctions DEF IInv
<1>4. LockHolder'
  BY <1>1, <1>2, <1>3 DEF LockHolder
<1>5. QED
  BY <1>1, <1>4, SameLists DEF IInv

(* ... and it is still the head when the frame is unlinked.                *)
LEMMA TakeFrameTaken ==
  ASSUME IInv, NEW p \in Procs, TakeFrame(p)
  PROVE  /\ TakenInv'
         /\ frm_lst' = [frm_lst EXCEPT ![p] = Append(@, ramHead)]
         /\ ramHead' = ramHead + 1
<1>1. /\ node[p] \in Frames
      /\ ramHead' = node[p] + 1
      /\ frm_lst' = [frm_lst EXCEPT ![p] = Append(@, node[p])]
      /\ node' = [node EXCEPT ![p] = NoNode]
      /\ UNCHANGED <<mmvm_lock, call, vm_end>>
      /\ LockHolder
  BY DEF IInv, TakenInv, TakeFrame, regionVars
<1>2. call[p].op = "alloc" /\ mmvm_lock = p
  BY <1>1 DEF TakeFrame, Growing, LockHolder
<1>3. node[p] = ramHead /\ ramHead \in Nat
  BY <1>1, <1>2, MmAssumption DEF LockHolder, NoNode, Frames
<1>4. /\ node'[p] = NoNode /\ frm_lst'[p] = Append(frm_lst[p], ramHead)
      /\ \A q \in Procs : q # p => node'[q] = node[q] /\ frm_lst'[q] = frm_lst[q]
      /\ frm_lst[p] \in Seq(Frames)
  BY <1>1, <1>3, CallFunctions DEF IInv
<1>5. \A q \in Procs : q # p => call[q].op # "alloc"
  BY <1>1, <1>2 DEF LockHolder
<1>6. LockHolder'
  BY <1>1, <1>2, <1>4, <1>5 DEF LockHolder
<1>7. /\ Len(frm_lst'[p]) = Len(frm_lst[p]) + 1
      /\ DOMAIN frm_lst'[p] = 1 .. Len(frm_lst[p]) + 1
      /\ DOMAIN frm_lst[p] = 1 .. Len(frm_lst[p]) /\ Len(frm_lst[p]) \in Nat
      /\ \A i \in 1 .. Len(frm_lst[p]) : frm_lst'[p][i] = frm_lst[p][i]
      /\ frm_lst'[p][Len(frm_lst[p]) + 1] = ramHead
  BY <1>4
<1>8. TakenOnce'
  <2>1. ASSUME NEW q \in Procs
        PROVE  /\ \A i \in DOMAIN frm_lst'[q] : frm_lst'[q][i] < ramHead'
               /\ \A i, j \in DOMAIN frm_lst'[q] : frm_lst'[q][i] = frm_lst'[q][j] => i = j
    <3>1. /\ \A i \in DOMAIN frm_lst[q] : frm_lst[q][i] < ramHead /\ frm_lst[q][i] \in Nat
          /\ \A i, j \in DOMAIN frm_lst[q] : frm_lst[q][i] = frm_lst[q][j] => i = j
      <4>1. frm_lst[q] \in Seq(Frames)
        BY CallFunctions DEF IInv
      <4>2. \A i \in DOMAIN frm_lst[q] : frm_lst[q][i] \in Nat
        <5>1. \A i \in DOMAIN frm_lst[q] : frm_lst[q][i] \in Frames
          BY <4>1
        <5>2. Frames \subseteq Nat
          BY DEF Frames
        <5>3. QED
          BY <5>1, <5>2
      <4>3. QED
        BY <4>2 DEF IInv, TakenInv, TakenOnce
    <3>2. CASE q # p
      BY <1>1, <1>3, <1>4, <3>1, <3>2
    <3>3. CASE q = p
      BY <1>1, <1>3, <1>7, <3>1, <3>3
    <3>4. QED
      BY <3>2, <3>3
  <2>2. QED
    BY <2>1 DEF TakenOnce
<1>9. FewPages'
  <2>1. ASSUME NEW q \in Procs
        PROVE  \E n \in Nat : vm_end'[q] = n * PageSz /\ n + Len(frm_lst'[q]) <= ramHead'
    <3>1. PICK n \in Nat : vm_end[q] = n * PageSz /\ n + Len(frm_lst[q]) <= ramHead
      BY DEF IInv, TakenInv, FewPages
    <3>2. Len(frm_lst[q]) \in Nat
      BY CallFunctions DEF IInv
    <3>3. Len(frm_lst'[q]) <= Len(frm_lst[q]) + 1 /\ Len(frm_lst'[q]) \in Nat
      BY <1>4, <1>7, <3>2
    <3>4. n + Len(frm_lst[q]) <= ramHead
      BY <3>1
    <3>5. n + Len(frm_lst'[q]) <= ramHead'
      BY <1>1, <1>3, <3>2, <3>3, <3>4
    <3>6. QED
      BY <1>1, <3>1, <3>5
  <2>2. QED
    BY <2>1 DEF FewPages
<1>10. QED
  BY <1>1, <1>3, <1>6, <1>8, <1>9 DEF TakenInv

(* The end of a call gives up the lock, if it had it, and the list.        *)
LEMMA ReturnLock ==
  ASSUME IInv, NEW p \in Procs, Return(p)
  PROVE  /\ (UNCHANGED ramHead => LockHolder')
         /\ frm_lst'[p] = << >>
         /\ \A q \in Procs : q # p => frm_lst'[q] = frm_lst[q]
<1>1. /\ call' = [call EXCEPT ![p] = NoCall]
      /\ node' = [node EXCEPT ![p] = NoNode]
      /\ frm_lst' = [frm_lst EXCEPT ![p] = << >>]
      /\ mmvm_lock' = IF mmvm_lock = p THEN Nobody ELSE mmvm_lock
      /\ LockHolder
  BY DEF IInv, TakenInv, Return
<1>2. /\ call'[p].op = "none" /\ node'[p] = NoNode /\ frm_lst'[p] = << >>
      /\ \A q \in Procs : q # p =>
           call'[q] = call[q] /\ node'[q] = node[q] /\ frm_lst'[q] = frm_lst[q]
  BY <1>1, CallFunctions DEF IInv, NoCall
<1>3. \A q \in Procs : q # Nobody
  BY MmAssumption
<1>4. \A q \in Procs : q # p => (mmvm_lock' = q <=> mmvm_lock = q)
  BY <1>1, <1>3
<1>5. mmvm_lock' # p
  BY <1>1, <1>3
<1>6. UNCHANGED ramHead => LockHolder'
  BY <1>1, <1>2, <1>4, <1>5 DEF LockHolder
<1>7. QED
  BY <1>2, <1>6

LEMMA ReturnTaken ==
  ASSUME IInv, NEW p \in Procs, Return(p), UNCHANGED <<ramHead, vm_end>>
  PROVE  TakenInv'
<1>1. /\ frm_lst'[p] = << >> /\ LockHolder'
      /\ \A q \in Procs : q # p => frm_lst'[q] = frm_lst[q]
  BY ReturnLock
<1>2. DOMAIN << >> = {} /\ Len(<< >>) = 0
  OBVIOUS
<1>3. TakenOnce'
  BY <1>1, <1>2 DEF IInv, TakenInv, TakenOnce
<1>4. FewPages'
  <2>1. ASSUME NEW q \in Procs
        PROVE  \E n \in Nat : vm_end'[q] = n * PageSz /\ n + Len(frm_lst'[q]) <= ramHead'
    <3>1. PICK n \in Nat : vm_end[q] = n * PageSz /\ n + Len(frm_lst[q]) <= ramHead
      BY DEF IInv, TakenInv, FewPages
    <3>2. Len(frm_lst[q]) \in Nat /\ ramHead \in Nat
      BY CallFunctions DEF IInv
    <3>3. n + Len(frm_lst[q]) <= ramHead
      BY <3>1
    <3>4. Len(frm_lst'[q]) <= Len(frm_lst[q]) /\ Len(frm_lst'[q]) \in Nat
      BY <1>1, <1>2, <3>2
    <3>5. n + Len(frm_lst'[q]) <= ramHead
      BY <3>2, <3>3, <3>4
    <3>6. QED
      BY <3>1, <3>5
  <2>2. QED
    BY <2>1 DEF FewPages
<1>5. QED
  BY <1>1, <1>3, <1>4 DEF TakenInv

(* What it has mapped instead is as many pages.                            *)
LEMMA GrowTaken ==
  ASSUME IInv, NEW p \in Procs, Grows(p)
  PROVE  TakenInv'
<1>1. /\ Return(p) /\ UNCHANGED ramHead
      /\ Len(frm_lst[p]) = PagesFor(call[p].size)
      /\ inc_vma_limit(p, AreaAtBrk(p, call[p].size))
      /\ call[p].size \in Sizes
  BY GrowingSize DEF Grows, GotAll, IInv
<1>2. /\ frm_lst'[p] = << >> /\ LockHolder'
      /\ \A q \in Procs : q # p => frm_lst'[q] = frm_lst[q]
  BY <1>1, ReturnLock
<1>3. DOMAIN << >> = {} /\ Len(<< >>) = 0
  OBVIOUS
<1>4. TakenOnce'
  BY <1>1, <1>2, <1>3 DEF IInv, TakenInv, TakenOnce
<1>m. PICK k \in Nat, n \in Nat : n = PagesFor(call[p].size) /\ Maps(p, k, n)
  BY <1>1, MapPages DEF IInv
<1>5. /\ n = PagesFor(call[p].size)
      /\ vm_end[p] = k * PageSz /\ vm_end'[p] = (k + n) * PageSz
      /\ \A q \in Procs : q # p => vm_end'[q] = vm_end[q]
  BY <1>m DEF Maps
<1>6. FewPages'
  <2>1. ASSUME NEW q \in Procs, q # p
        PROVE  \E m \in Nat : vm_end'[q] = m * PageSz /\ m + Len(frm_lst'[q]) <= ramHead'
    BY <1>1, <1>2, <1>5, <2>1 DEF IInv, TakenInv, FewPages
  <2>2. \E m \in Nat : vm_end'[p] = m * PageSz /\ m + Len(frm_lst'[p]) <= ramHead'
    <3>1. PICK m \in Nat : vm_end[p] = m * PageSz /\ m + Len(frm_lst[p]) <= ramHead
      BY DEF IInv, TakenInv, FewPages
    <3>2. m = k
      BY <1>5, <3>1, PageArithmetic
    <3>3. m + Len(frm_lst[p]) <= ramHead /\ ramHead \in Nat /\ Len(frm_lst[p]) = n
      BY <1>1, <1>5, <3>1, CallFunctions DEF IInv
    <3>4. k + n \in Nat /\ (k + n) + Len(frm_lst'[p]) <= ramHead'
      BY <1>1, <1>2, <1>3, <3>2, <3>3
    <3>5. QED
      BY <1>5, <3>4
  <2>3. QED
    BY <2>1, <2>2 DEF FewPages
<1>7. QED
  BY <1>2, <1>4, <1>6 DEF TakenInv

-----------------------------------------------------------------------------
(* The page tables *)

(* The pages that process p maps get the frames of its list, and so has a  *)
(* frame whoever has it not.                                               *)
LEMMA GrowEntries ==
  ASSUME IInv, NEW p \in Procs, Grows(p), Unfaulted
  PROVE  \E k, n \in Nat :
           /\ DOMAIN frm_lst[p] = 1 .. n
           /\ k + n <= MaxPgn
           /\ vm_end[p] = k * PageSz
           /\ \A q \in Procs, g \in Pages :
                IF q = p /\ g \in k .. k + n - 1
                THEN /\ k + n - g \in DOMAIN frm_lst[p]
                     /\ frm_lst[p][k + n - g] \in Frames
                     /\ pgd'[q][g] = [present |-> TRUE, swapped |-> FALSE,
                                      low |-> frm_lst[p][k + n - g]]
                ELSE pgd'[q][g] = pgd[q][g]
<1>1. /\ Len(frm_lst[p]) = PagesFor(call[p].size)
      /\ inc_vma_limit(p, AreaAtBrk(p, call[p].size))
      /\ call[p].size \in Sizes
  BY GrowingSize DEF Grows, GotAll, IInv
<1>m. PICK k \in Nat, n \in Nat : n = PagesFor(call[p].size) /\ Maps(p, k, n)
  BY <1>1, MapPages DEF IInv
<1>2. /\ n = PagesFor(call[p].size) /\ k + n <= MaxPgn /\ vm_end[p] = k * PageSz
      /\ \A q \in Procs, g \in Pages :
           pgd'[q][g] = IF q = p /\ g \in k .. k + n - 1
                        THEN pte_set_fpn(pgd[p][g], frm_lst[p][k + n - g])
                        ELSE pgd[q][g]
      /\ \A g \in k .. k + n - 1 : frm_lst[p][k + n - g] \in Frames
  BY <1>m DEF Maps
<1>3. DOMAIN frm_lst[p] = 1 .. n
  BY <1>1, <1>2, CallFunctions DEF IInv
<1>4. ASSUME NEW g \in Pages, g \in k .. k + n - 1
      PROVE  /\ k + n - g \in 1 .. n /\ frm_lst[p][k + n - g] \in Frames
             /\ pgd'[p][g] = [present |-> TRUE, swapped |-> FALSE,
                              low |-> frm_lst[p][k + n - g]]
  <2>1. frm_lst[p][k + n - g] \in Frames
    BY <1>2, <1>4
  <2>2. pgd[p][g] \in Pte /\ pgd[p][g].low \in 0 .. FpnRange - 1
    BY CallFunctions DEF IInv, MapInv, FramesThere
  <2>3. k + n - g \in 1 .. n
    BY <1>4
  <2>4. pgd'[p][g] = pte_set_fpn(pgd[p][g], frm_lst[p][k + n - g])
    BY <1>2, <1>4
  <2>5. QED
    BY <2>1, <2>2, <2>3, <2>4, SetFrame
<1>5. ASSUME NEW q \in Procs, NEW g \in Pages
      PROVE  IF q = p /\ g \in k .. k + n - 1
             THEN /\ k + n - g \in DOMAIN frm_lst[p]
                  /\ frm_lst[p][k + n - g] \in Frames
                  /\ pgd'[q][g] = [present |-> TRUE, swapped |-> FALSE,
                                   low |-> frm_lst[p][k + n - g]]
             ELSE pgd'[q][g] = pgd[q][g]
  <2>1. CASE q = p /\ g \in k .. k + n - 1
    BY <1>3, <1>4, <2>1
  <2>2. CASE ~(q = p /\ g \in k .. k + n - 1)
    BY <1>2, <2>2
  <2>3. QED
    BY <2>1, <2>2
<1>6. /\ DOMAIN frm_lst[p] = 1 .. n /\ k + n <= MaxPgn /\ vm_end[p] = k * PageSz
  BY <1>2, <1>3
<1>7. QED
  BY <1>5, <1>6, Zenon

LEMMA GrowMap ==
  ASSUME IInv, NEW p \in Procs, Grows(p), Unfaulted
  PROVE  MapInv'
<1>1. PICK k \in Nat, n \in Nat :
           /\ DOMAIN frm_lst[p] = 1 .. n
           /\ \A q \in Procs, g \in Pages :
                IF q = p /\ g \in k .. k + n - 1
                THEN /\ k + n - g \in DOMAIN frm_lst[p]
                     /\ frm_lst[p][k + n - g] \in Frames
                     /\ pgd'[q][g] = [present |-> TRUE, swapped |-> FALSE,
                                      low |-> frm_lst[p][k + n - g]]
                ELSE pgd'[q][g] = pgd[q][g]
  BY GrowEntries
<1> DEFINE New(q, g) == q = p /\ g \in k .. k + n - 1
           nth(g) == frm_lst[p][k + n - g]
<1>2. UNCHANGED ramHead /\ Return(p)
  BY DEF Grows
<1>3. FramesThere /\ Alone /\ NotTaken /\ TakenOnce /\ LockHolder
  BY DEF IInv, MapInv, TakenInv
<1>4. /\ frm_lst'[p] = << >>
      /\ \A q \in Procs : q # p => frm_lst'[q] = frm_lst[q]
  BY <1>2, ReturnLock
<1>5. ASSUME NEW q \in Procs
      PROVE  DOMAIN frm_lst'[q] = {}
  <2>1. CASE q = p
    BY <1>4, <2>1
  <2>2. CASE q # p
    <3>1. call[p].op = "alloc"
      BY <1>3 DEF Grows, Growing, LockHolder
    <3>2. mmvm_lock = p /\ mmvm_lock # q
      BY <1>3, <2>2, <3>1 DEF LockHolder
    <3>3. frm_lst[q] = << >>
      BY <1>3, <3>2 DEF LockHolder
    <3>4. QED
      BY <1>4, <2>2, <3>3
  <2>3. QED
    BY <2>1, <2>2
<1>6. ASSUME NEW q \in Procs, NEW g \in Pages, New(q, g)
      PROVE  /\ pgd'[q][g].present /\ pgd'[q][g].low = nth(g)
             /\ nth(g) < ramHead /\ nth(g) \in 0 .. FpnRange - 1
             /\ k + n - g \in DOMAIN frm_lst[p]
  <2>1. /\ pgd'[q][g] = [present |-> TRUE, swapped |-> FALSE, low |-> nth(g)]
        /\ k + n - g \in DOMAIN frm_lst[p] /\ nth(g) \in Frames
    BY <1>1, <1>6
  <2>2. nth(g) < ramHead
    BY <1>3, <2>1 DEF TakenOnce
  <2>3. nth(g) \in 0 .. FpnRange - 1
    BY <2>1, MmAssumption DEF Frames
  <2>4. QED
    BY <2>1, <2>2, <2>3
<1>7. ASSUME NEW q \in Procs, NEW g \in Pages, ~New(q, g)
      PROVE  pgd'[q][g] = pgd[q][g]
  BY <1>1, <1>7
<1>8. FramesThere'
  BY <1>2, <1>3, <1>6, <1>7 DEF FramesThere
<1>9. Alone'
  <2>1. SUFFICES ASSUME NEW q \in Procs, NEW s \in Procs, NEW g \in Pages, NEW h \in Pages,
                        pgd'[q][g].present, pgd'[s][h].present,
                        pgd'[q][g].low = pgd'[s][h].low
                 PROVE  q = s /\ g = h
    BY DEF Alone
  <2>2. CASE New(q, g) /\ New(s, h)
    <3>1. frm_lst[p][k + n - g] = frm_lst[p][k + n - h]
      BY <1>6, <2>1, <2>2
    <3>2. k + n - g = k + n - h
      BY <1>3, <1>6, <2>2, <3>1 DEF TakenOnce
    <3>3. g = h
      BY <3>2 DEF Pages
    <3>4. QED
      BY <2>2, <3>3
  <2>3. CASE New(q, g) /\ ~New(s, h)
    <3>1. pgd[s][h].present /\ nth(g) = pgd[s][h].low
      BY <1>6, <1>7, <2>1, <2>3
    <3>2. QED
      BY <1>3, <1>6, <2>3, <3>1 DEF NotTaken
  <2>4. CASE ~New(q, g) /\ New(s, h)
    <3>1. pgd[q][g].present /\ nth(h) = pgd[q][g].low
      BY <1>6, <1>7, <2>1, <2>4
    <3>2. QED
      BY <1>3, <1>6, <2>4, <3>1 DEF NotTaken
  <2>5. CASE ~New(q, g) /\ ~New(s, h)
    BY <1>3, <1>7, <2>1, <2>5 DEF Alone
  <2>6. QED
    BY <2>2, <2>3, <2>4, <2>5
<1>10. NotTaken'
  BY <1>5 DEF NotTaken
<1>11. QED
  BY <1>8, <1>9, <1>10 DEF MapInv

(* A frame that is taken from the list is mapped nowhere.                  *)
LEMMA TakeFrameMap ==
  ASSUME IInv, NEW p \in Procs, TakeFrame(p)
  PROVE  MapInv'
<1>1. /\ frm_lst' = [frm_lst EXCEPT ![p] = Append(@, ramHead)]
      /\ ramHead' = ramHead + 1
  BY TakeFrameTaken
<1>2. UNCHANGED <<pgd, swpHead>>
  BY DEF TakeFrame, pageVars
<1>3. SUFFICES ASSUME Unfaulted
               PROVE  FramesThere' /\ Alone' /\ NotTaken'
  BY <1>2 DEF MapInv, Unfaulted
<1>4. FramesThere /\ Alone /\ NotTaken
  BY <1>3 DEF IInv, MapInv
<1>5. ramHead \in Nat /\ \A q \in Procs, g \in Pages : pgd[q][g].low \in Nat
  BY <1>4, CallFunctions DEF IInv, Pte
<1>6. FramesThere'
  BY <1>1, <1>2, <1>4, <1>5 DEF FramesThere
<1>7. Alone'
  BY <1>2, <1>4 DEF Alone
<1>8. NotTaken'
  <2>1. SUFFICES ASSUME NEW q \in Procs, NEW s \in Procs, NEW g \in Pages,
                        NEW i \in DOMAIN frm_lst'[s], pgd[q][g].present
                 PROVE  frm_lst'[s][i] # pgd[q][g].low
    BY <1>2 DEF NotTaken
  <2>2. /\ frm_lst'[s] = IF s = p THEN Append(frm_lst[p], ramHead) ELSE frm_lst[s]
        /\ frm_lst[s] \in Seq(Frames)
    BY <1>1, CallFunctions DEF IInv
  <2>3. frm_lst'[s][i] = ramHead \/ (i \in DOMAIN frm_lst[s] /\ frm_lst'[s][i] = frm_lst[s][i])
    BY <2>2
  <2>4. pgd[q][g].low < ramHead
    BY <1>4, <2>1 DEF FramesThere
  <2>5. QED
    BY <1>4, <1>5, <2>1, <2>3, <2>4 DEF NotTaken
<1>9. QED
  BY <1>6, <1>7, <1>8

(* Any other step keeps the page tables and gives up frames at most.       *)
LEMMA MapKept ==
  ASSUME MapInv, UNCHANGED <<pgd, ramHead, swpHead>>,
         \A q \in Procs : frm_lst'[q] = frm_lst[q] \/ frm_lst'[q] = << >>
  PROVE  MapInv'
<1>1. SUFFICES ASSUME Unfaulted
               PROVE  FramesThere' /\ Alone' /\ NotTaken'
  BY DEF MapInv, Unfaulted
<1>2. FramesThere /\ Alone /\ NotTaken
  BY <1>1 DEF MapInv
<1>3. FramesThere' /\ Alone'
  BY <1>2 DEF FramesThere, Alone
<1>4. NotTaken'
  <2>1. DOMAIN << >> = {}
    OBVIOUS
  <2>2. QED
    BY <1>2, <2>1 DEF NotTaken
<1>5. QED
  BY <1>3, <1>4

-----------------------------------------------------------------------------
(* The invariant *)

LEMMA IInvInit ==
  ASSUME Init
  PROVE  IInv
<1>1. DOMAIN << >> = {} /\ Len(<< >>) = 0
  OBVIOUS
<1>2. LockHolder
  BY MmAssumption DEF Init, LockHolder, NoCall
<1>3. TakenOnce
  BY <1>1 DEF Init, TakenOnce
<1>4. FewPages
  <2>1. 0 = 0 * PageSz /\ 0 + 0 <= 0
    BY MmAssumption
  <2>2. QED
    BY <1>1, <2>1 DEF Init, FewPages
<1>5. MapInv
  BY <1>1, MmAssumption DEF Init, MapInv, FramesThere, Alone, NotTaken, EmptyPte
<1>6. QED
  BY <1>2, <1>3, <1>4, <1>5, InvInit DEF IInv, TakenInv

LEMMA IInvStep ==
  ASSUME IInv, NEW p \in Procs, Instruction(p)
  PROVE  TakenInv' /\ MapInv'
<1>t. TakenInv /\ MapInv /\ Inv
  BY DEF IInv
<1>1. CASE \/ \E r \in Rgids, size \in Sizes : AllocFromFree(p, r, size)
           \/ \E r \in Rgids : Free(p, r) \/ KillAll(p, r)
           \/ \E r \in Rgids, off \in Offsets :
                Read(p, r, off) \/ Hang(p, r, off) \/ \E v \in Values : Write(p, r, off, v)
           \/ NoEffect(p)
  <2>1. UNCHANGED <<vm_end, pgd, mmvm_lock, call, node, frm_lst, ramHead, swpHead>>
    BY <1>1 DEF AllocFromFree, Free, KillAll, Read, Hang, Write, NoEffect,
                regionVars, pageVars, callVars, listVars
  <2>2. LockHolder'
    BY <1>t, <2>1 DEF TakenInv, LockHolder
  <2>3. QED
    BY <1>t, <2>1, <2>2, SameLists, MapKept
<1>2. CASE \/ \E r \in Rgids, size \in Sizes : AllocCall(p, r, size)
           \/ \E r \in Rgids, off \in Offsets, w \in BOOLEAN, v \in Values :
                Fault(p, r, off, w, v)
  <2>1. UNCHANGED <<pgd, frm_lst, ramHead, swpHead>>
    BY <1>2 DEF AllocCall, Fault, pageVars, listVars
  <2>2. QED
    BY <1>2, <1>t, <2>1, EnterStep, MapKept
<1>3. CASE ReadHead(p)
  <2>1. UNCHANGED <<pgd, frm_lst, ramHead, swpHead>>
    BY <1>3 DEF ReadHead, pageVars
  <2>2. QED
    BY <1>3, <1>t, <2>1, ReadHeadTaken, MapKept
<1>4. CASE TakeFrame(p)
  BY <1>4, TakeFrameTaken, TakeFrameMap
<1>5. CASE AllocGrow(p)
  <2>1. Grows(p) /\ UNCHANGED swpHead
    BY <1>5 DEF AllocGrow, Grows, Growing
  <2>2. TakenInv'
    BY <2>1, GrowTaken
  <2>3. CASE Unfaulted
    BY <2>1, <2>2, <2>3, GrowMap
  <2>4. CASE ~Unfaulted
    BY <2>1, <2>2, <2>4 DEF MapInv, Unfaulted
  <2>5. QED
    BY <2>3, <2>4
<1>6. CASE AllocFail(p) \/ Access(p)
  <2>1. Return(p) /\ UNCHANGED <<vm_end, pgd, ramHead, swpHead>>
    BY <1>6 DEF AllocFail, Access, regionVars, pageVars
  <2>2. \A q \in Procs : frm_lst'[q] = frm_lst[q] \/ frm_lst'[q] = << >>
    BY <2>1, ReturnLock
  <2>3. QED
    BY <1>t, <2>1, <2>2, ReturnTaken, MapKept
<1>7. CASE TakeSwap(p) \/ NoSwap(p)
  BY <1>7, <1>t, FaultTaken, FaultCall DEF MapInv, Inv
<1>8. ASSUME NEW r \in Rgids, NEW off \in Offsets, Fault(p, r, off, FALSE, 0)
      PROVE  \E s \in Rgids, o \in Offsets, w \in BOOLEAN, v \in Values :
               Fault(p, s, o, w, v)
  BY <1>8, MmAssumption
<1>9. QED
  BY <1>1, <1>2, <1>3, <1>4, <1>5, <1>6, <1>7, <1>8 DEF Instruction

LEMMA IInvNext ==
  ASSUME IInv, [Next]_vars
  PROVE  IInv'
<1>1. Inv'
  BY InvNext DEF IInv, UserNext
<1>2. CASE UNCHANGED vars
  <2>1. UNCHANGED <<vm_end, pgd, mmvm_lock, call, node, frm_lst, ramHead, swpHead>>
    BY <1>2 DEF vars, regionVars, pageVars, callVars, listVars
  <2>2. LockHolder'
    BY <2>1 DEF IInv, TakenInv, LockHolder
  <2>3. QED
    BY <1>1, <2>1, <2>2, SameLists, MapKept DEF IInv
<1>3. CASE \E p \in Procs : Instruction(p)
  BY <1>1, <1>3, IInvStep DEF IInv
<1>4. QED
  BY <1>2, <1>3 DEF Next

LEMMA Invariant == Spec => []IInv
<1>1. Init => IInv
  BY IInvInit
<1>2. IInv /\ [Next]_vars => IInv'
  BY IInvNext
<1>3. QED
  BY <1>1, <1>2, PTL DEF Spec

-----------------------------------------------------------------------------
(* The properties *)

(* Until somebody's first page fault, a frame that is mapped is mapped by  *)
(* one page of one process, and is in no list of alloc_pages_range(): the  *)
(* steps of MEMPHY_get_freefp() are taken under mmvm_lock.                 *)
THEOREM FramesPrivate == Spec => []FramesExclusive
<1>1. ASSUME IInv
      PROVE  FramesExclusive
  <2>1. SUFFICES ASSUME Unfaulted
                 PROVE  /\ \A m, n \in Mapped : FrameOf(m) = FrameOf(n) => m = n
                        /\ \A m \in Mapped : FrameOf(m) < ramHead
                        /\ \A m \in Mapped, p \in Procs : \A i \in DOMAIN frm_lst[p] :
                             frm_lst[p][i] # FrameOf(m)
    BY DEF FramesExclusive
  <2>2. FramesThere /\ Alone /\ NotTaken
    BY <1>1, <2>1 DEF IInv, MapInv
  <2>3. ASSUME NEW m \in Mapped
        PROVE  /\ m[1] \in Procs /\ m[2] \in Pages /\ m = <<m[1], m[2]>>
               /\ pgd[m[1]][m[2]].present
               /\ FrameOf(m) = pgd[m[1]][m[2]].low
    <3>1. /\ m[1] \in Procs /\ m[2] \in Pages /\ m = <<m[1], m[2]>>
          /\ pgd[m[1]][m[2]].present
      BY DEF Mapped
    <3>2. pgd[m[1]][m[2]].low \in 0 .. FpnRange - 1
      BY <2>2, <3>1 DEF FramesThere
    <3>3. QED
      BY <3>1, <3>2, FrameNumber DEF FrameOf, Fpn
  <2>4. ASSUME NEW m \in Mapped, NEW n \in Mapped, FrameOf(m) = FrameOf(n)
        PROVE  m = n
    <3>1. m[1] = n[1] /\ m[2] = n[2]
      BY <2>2, <2>3, <2>4 DEF Alone
    <3>2. QED
      BY <2>3, <3>1
  <2>5. \A m \in Mapped : FrameOf(m) < ramHead
    BY <2>2, <2>3 DEF FramesThere
  <2>6. \A m \in Mapped, p \in Procs : \A i \in DOMAIN frm_lst[p] :
          frm_lst[p][i] # FrameOf(m)
    BY <2>2, <2>3 DEF NotTaken
  <2>7. QED
    BY <2>4, <2>5, <2>6
<1>2. QED
  BY <1>1, Invariant, PTL

(* vmap_page_range() stays inside the page table, although nothing in the  *)
(* code compares them, before and after page faults: a process never has   *)
(* more pages in its area than RAM has frames.                             *)
THEOREM TableIsLongEnough == Spec => []TableSuffices
<1>1. ASSUME IInv
      PROVE  TableSuffices
  <2>1. SUFFICES ASSUME NEW p \in Procs, Growing(p), GotAll(p)
                 PROVE  InTable(AreaAtBrk(p, call[p].size))
    BY DEF TableSuffices
  <2>2. PICK n \in Nat : vm_end[p] = n * PageSz /\ n + Len(frm_lst[p]) <= ramHead
    BY <1>1 DEF IInv, TakenInv, FewPages
  <2> DEFINE m == PagesFor(call[p].size)
  <2>3. m \in Nat /\ Len(frm_lst[p]) = m
    BY <1>1, <2>1, GrowingSize, PagesEnough DEF IInv, GotAll
  <2>4. ramHead \in 0 .. NumFrames /\ NumFrames \in Nat /\ MaxPgn \in Nat /\ NumFrames <= MaxPgn
    BY <1>1, CallFunctions, MmAssumption DEF IInv
  <2>5. n + m <= MaxPgn
    <3>1. n + Len(frm_lst[p]) <= ramHead
      BY <2>2
    <3>2. QED
      BY <2>3, <2>4, <3>1
  <2>6. AreaAtBrk(p, call[p].size).end = n * PageSz + m * PageSz
    BY <2>2 DEF AreaAtBrk, Region
  <2> HIDE DEF m
  <2>7. n * PageSz + m * PageSz <= MaxPgn * PageSz
    <3>1. n + m \in Nat
      BY <2>3
    <3>2. ~(MaxPgn * PageSz < (n + m) * PageSz)
      BY <2>4, <2>5, <3>1, PageOrder
    <3>3. (n + m) * PageSz = n * PageSz + m * PageSz
      BY <2>3, PageOrder
    <3>4. MaxPgn * PageSz \in Nat /\ (n + m) * PageSz \in Nat
      BY <2>4, <3>1, PageArithmetic
    <3>5. QED
      BY <3>2, <3>3, <3>4
  <2>8. QED
    BY <2>6, <2>7 DEF InTable
<1>2. QED
  BY <1>1, Invariant, PTL
=============================================================================
