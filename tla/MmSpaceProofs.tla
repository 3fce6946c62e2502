----------------------------- MODULE MmSpaceProofs -----------------------------
(***************************************************************************)
(* The memory library implements AddressSpace for programs that leave      *)
(* SYSCALL 17 alone, whatever addresses they name: until the first page    *)
(* fault what a process reads changes only by a write, and the variables   *)
(* of a process share no cell, before and after.                           *)
(*                                                                         *)
(* To the invariant of MmFrameProofs this adds that the frames still in    *)
(* free_fp_list, and those in the list of a request, hold the zeros of     *)
(* init_memphy(), so that a page that is mapped reads as it did before.    *)
(***************************************************************************)
EXTENDS MmFrameProofs

Zero(f) == \A j \in 0 .. PageSz - 1 : ram[f][j] = 0

Zeros ==
  /\ \A f \in Frames : f >= ramHead => Zero(f)
  /\ \A p \in Procs : \A i \in DOMAIN frm_lst[p] : Zero(frm_lst[p][i])

(* An access that follows a page fault.                                    *)
LateAccess == \A p \in Procs : call[p].op = "access" => ~Unfaulted

ZInv == IInv /\ AreaMapped /\ LateAccess /\ (Unfaulted => Zeros)

-----------------------------------------------------------------------------
(* What there is in a step *)

(* It takes a frame, maps some, writes a byte, comes after a page fault,   *)
(* or leaves pages and bytes as they are.                                  *)
Idle ==
  /\ UNCHANGED <<pgd, ram, ramHead, swpHead>>
  /\ \A q \in Procs : frm_lst'[q] = frm_lst[q] \/ frm_lst'[q] = << >>
  /\ \A q \in Procs : call'[q] = call[q] \/ call'[q].op # "access"

LEMMA ReturnCall ==
  ASSUME IInv, NEW p \in Procs, Return(p)
  PROVE  \A q \in Procs : call'[q] = call[q] \/ call'[q].op # "access"
BY CallFunctions DEF IInv, Return, NoCall

LEMMA CallsKept ==
  ASSUME IInv, NEW p \in Procs,
         \/ \E r \in Rgids, size \in Sizes : AllocCall(p, r, size)
         \/ \E r \in Rgids, off \in Offsets, w \in BOOLEAN, v \in Values :
              Fault(p, r, off, w, v)
  PROVE  \A q \in Procs : call'[q] = call[q] \/ call'[q].op # "access"
<1>1. ASSUME NEW c, call' = [call EXCEPT ![p] = c], c.op # "access"
      PROVE  \A q \in Procs : call'[q] = call[q] \/ call'[q].op # "access"
  BY <1>1, CallFunctions DEF IInv
<1>2. ASSUME NEW r \in Rgids, NEW size \in Sizes, AllocCall(p, r, size)
      PROVE  \A q \in Procs : call'[q] = call[q] \/ call'[q].op # "access"
  <2>1. call' = [call EXCEPT ![p] = AllocOf(r, size)] /\ AllocOf(r, size).op # "access"
    BY <1>2 DEF AllocCall, AllocOf
  <2>2. QED
    BY <1>1, <2>1
<1>3. ASSUME NEW r \in Rgids, NEW off \in Offsets, NEW w \in BOOLEAN, NEW v \in Values,
             Fault(p, r, off, w, v)
      PROVE  \A q \in Procs : call'[q] = call[q] \/ call'[q].op # "access"
  <2>1. PICK a \in Addresses : call' = [call EXCEPT ![p] = FaultOf(a, w, v)]
    BY <1>3 DEF Fault
  <2>2. FaultOf(a, w, v).op # "access"
    BY DEF FaultOf
  <2>3. QED
    BY <1>1, <2>1, <2>2
<1>4. QED
  BY <1>2, <1>3

LEMMA MemoryKinds ==
  ASSUME IInv, [Next]_vars
  PROVE  \/ Idle
         \/ \E p \in Procs : TakeFrame(p)
         \/ \E p \in Procs : AllocGrow(p) /\ Grows(p)
         \/ \E p \in Procs, r \in Rgids, off \in Offsets, v \in Values :
              Write(p, r, off, v)
         \/ \E p \in Procs : Access(p)
         \/ \E p \in Procs : TakeSwap(p) \/ NoSwap(p)
<1>1. ASSUME UNCHANGED vars
      PROVE  Idle
  BY <1>1 DEF Idle, vars, regionVars, pageVars, callVars, listVars
<1>2. ASSUME NEW p \in Procs, UNCHANGED <<pgd, ram, ramHead, swpHead, frm_lst>>,
             \A q \in Procs : call'[q] = call[q] \/ call'[q].op # "access"
      PROVE  Idle
  BY <1>2 DEF Idle
<1>3. ASSUME NEW p \in Procs,
             \/ \E r \in Rgids, size \in Sizes : AllocFromFree(p, r, size)
             \/ \E r \in Rgids : Free(p, r) \/ KillAll(p, r)
             \/ \E r \in Rgids, off \in Offsets : Read(p, r, off) \/ Hang(p, r, off)
             \/ ReadHead(p) \/ NoEffect(p)
      PROVE  Idle
  <2>1. UNCHANGED <<pgd, ram, ramHead, swpHead, frm_lst, call>>
    BY <1>3 DEF AllocFromFree, Free, KillAll, Read, Hang, ReadHead, NoEffect,
                pageVars, callVars, listVars
  <2>2. QED
    BY <1>2, <2>1
<1>4. ASSUME NEW p \in Procs,
             \/ \E r \in Rgids, size \in Sizes : AllocCall(p, r, size)
             \/ \E r \in Rgids, off \in Offsets, w \in BOOLEAN, v \in Values :
                  Fault(p, r, off, w, v)
      PROVE  Idle
  <2>1. UNCHANGED <<pgd, ram, ramHead, swpHead, frm_lst>>
    BY <1>4 DEF AllocCall, Fault, pageVars, listVars
  <2>2. QED
    BY <1>2, <1>4, <2>1, CallsKept
<1>5. ASSUME NEW p \in Procs, AllocFail(p)
      PROVE  Idle
  <2>1. UNCHANGED <<pgd, ram, ramHead, swpHead>> /\ Return(p)
    BY <1>5 DEF AllocFail, pageVars
  <2>2. QED
    BY <2>1, ReturnLock, ReturnCall DEF Idle
<1>6. ASSUME NEW p \in Procs, AllocGrow(p)
      PROVE  Grows(p)
  BY <1>6 DEF AllocGrow, Grows, Growing
<1>7. ASSUME NEW p \in Procs, NEW r \in Rgids, NEW off \in Offsets,
             Fault(p, r, off, FALSE, 0)
      PROVE  \E w \in BOOLEAN, v \in Values : Fault(p, r, off, w, v)
  BY <1>7, MmAssumption
<1>8. CASE Next
  <2>1. PICK p \in Procs : Instruction(p)
    BY <1>8 DEF Next
  <2>2. \/ \/ \E r \in Rgids, size \in Sizes : AllocFromFree(p, r, size)
           \/ \E r \in Rgids : Free(p, r) \/ KillAll(p, r)
           \/ \E r \in Rgids, off \in Offsets : Read(p, r, off) \/ Hang(p, r, off)
           \/ ReadHead(p) \/ NoEffect(p)
        \/ \/ \E r \in Rgids, size \in Sizes : AllocCall(p, r, size)
           \/ \E r \in Rgids, off \in Offsets, w \in BOOLEAN, v \in Values :
                Fault(p, r, off, w, v)
        \/ AllocFail(p) \/ AllocGrow(p) \/ TakeFrame(p) \/ Access(p)
        \/ TakeSwap(p) \/ NoSwap(p)
        \/ \E r \in Rgids, off \in Offsets, v \in Values : Write(p, r, off, v)
    BY <1>7, <2>1, Zenon DEF Instruction
  <2>3. QED
    BY <1>3, <1>4, <1>5, <1>6, <2>2, Zenon
<1>9. QED
  BY <1>1, <1>8

-----------------------------------------------------------------------------
(* Contents *)

(* What a process reads, without the detour by the bits of the entry.      *)
ContentsAre ==
  \A p \in Procs, a \in Addresses :
    Content(p, a) = IF pgd[p][PageOf(a)].present
                    THEN ram[pgd[p][PageOf(a)].low][OffsetOf(a)] ELSE 0

LEMMA PresentFrames ==
  ASSUME IInv, Unfaulted, NEW p \in Procs, NEW g \in Pages
  PROVE  /\ Fpn(pgd[p][g]) = pgd[p][g].low
         /\ pgd[p][g].present => pgd[p][g].low \in Frames /\ pgd[p][g].low < ramHead
<1>1. /\ pgd[p][g].low \in 0 .. FpnRange - 1
      /\ pgd[p][g].present => pgd[p][g].low < ramHead
  BY DEF IInv, MapInv, FramesThere
<1>2. ramHead \in 0 .. NumFrames /\ NumFrames \in Nat
  BY CallFunctions DEF IInv
<1>3. QED
  BY <1>1, <1>2, FrameNumber DEF Fpn, Frames

LEMMA Contents == IInv /\ Unfaulted => ContentsAre
<1> SUFFICES ASSUME IInv, Unfaulted, NEW p \in Procs, NEW a \in Addresses
             PROVE  Content(p, a) = IF pgd[p][PageOf(a)].present
                                    THEN ram[pgd[p][PageOf(a)].low][OffsetOf(a)] ELSE 0
  BY DEF ContentsAre
<1>1. PageOf(a) \in Pages
  BY AddressesHavePages
<1>2. /\ Fpn(pgd[p][PageOf(a)]) = pgd[p][PageOf(a)].low
      /\ pgd[p][PageOf(a)].present => pgd[p][PageOf(a)].low \in Frames
  BY <1>1, PresentFrames
<1>3. QED
  BY <1>2 DEF Content

LEMMA ContentsNext == IInv' /\ Unfaulted' => ContentsAre'
BY Contents, PTL

(* An address is its page and its offset.                                  *)
LEMMA AddressParts ==
  ASSUME NEW a \in Addresses, NEW b \in Addresses,
         PageOf(a) = PageOf(b), OffsetOf(a) = OffsetOf(b)
  PROVE  a = b
<1>1. PageSz \in Nat \ {0} /\ a \in Nat /\ b \in Nat
  BY MmAssumption, AddressesHavePages
<1>2. ASSUME NEW x \in Nat, NEW q \in Nat, NEW r \in Nat,
             x \div PageSz = q, x % PageSz = r
      PROVE  x = PageSz * q + r
  BY <1>1, <1>2, SMTT(30)
<1>3. /\ PageOf(a) \in Nat /\ OffsetOf(a) \in Nat
      /\ a \div PageSz = PageOf(a) /\ a % PageSz = OffsetOf(a)
      /\ b \div PageSz = PageOf(b) /\ b % PageSz = OffsetOf(b)
  BY <1>1, PageOfAddress DEF PageOf, OffsetOf
<1>4. a = PageSz * PageOf(a) + OffsetOf(a) /\ b = PageSz * PageOf(b) + OffsetOf(b)
  BY <1>1, <1>2, <1>3
<1>5. QED
  BY <1>4

ContentKept == \A p \in Procs, a \in Addresses : Content(p, a)' = Content(p, a)

OwnedKept == \A p \in Procs, r \in Rgids : OwnedCells(p, r)' = OwnedCells(p, r)

LEMMA KeepContent ==
  ASSUME UNCHANGED <<pgd, ram>>
  PROVE  ContentKept
BY DEF ContentKept, Content

LEMMA KeepOwned ==
  ASSUME UNCHANGED symrg
  PROVE  OwnedKept
BY DEF OwnedKept, OwnedCells

(* The pages that a request maps read as zeros before and after it.        *)
LEMMA GrowContent ==
  ASSUME ZInv, IInv', Unfaulted, NEW p \in Procs, Grows(p)
  PROVE  ContentKept /\ Zeros'
<1>1. PICK k \in Nat, n \in Nat :
           /\ DOMAIN frm_lst[p] = 1 .. n
           /\ k + n <= MaxPgn
           /\ vm_end[p] = k * PageSz
           /\ \A q \in Procs, g \in Pages :
                IF q = p /\ g \in k .. k + n - 1
                THEN /\ k + n - g \in DOMAIN frm_lst[p]
                     /\ frm_lst[p][k + n - g] \in Frames
                     /\ pgd'[q][g] = [present |-> TRUE, swapped |-> FALSE,
                                      low |-> frm_lst[p][k + n - g]]
                ELSE pgd'[q][g] = pgd[q][g]
  BY GrowEntries DEF ZInv
<1>2. UNCHANGED <<ram, ramHead, swpHead>> /\ Return(p)
  BY DEF Grows
<1>3. ASSUME NEW g \in Pages, g \in k .. k + n - 1
      PROVE  ~pgd[p][g].present
  <2>1. g \in Nat /\ ~(g < k)
    BY <1>3 DEF Pages
  <2>2. ~(g * PageSz < k * PageSz)
    BY <2>1, PageOrder
  <2>3. QED
    BY <1>1, <2>2 DEF ZInv, AreaMapped
<1>4. ContentsAre /\ ContentsAre'
  BY <1>2, Contents, ContentsNext DEF ZInv, Unfaulted
<1>5. ASSUME NEW q \in Procs, NEW a \in Addresses
      PROVE  Content(q, a)' = Content(q, a)
  <2> DEFINE g == PageOf(a)
  <2>1. g \in Pages /\ OffsetOf(a) \in 0 .. PageSz - 1
    BY AddressesHavePages, PageOfAddress
  <2>2. CASE q = p /\ g \in k .. k + n - 1
    <3> DEFINE f == frm_lst[p][k + n - g]
    <3>1. /\ k + n - g \in DOMAIN frm_lst[p]
          /\ pgd'[p][g] = [present |-> TRUE, swapped |-> FALSE, low |-> f]
      BY <1>1, <2>1, <2>2
    <3>2. ram[f][OffsetOf(a)] = 0
      BY <2>1, <3>1 DEF ZInv, Zeros, Zero
    <3>3. Content(q, a) = 0
      BY <1>3, <1>4, <2>1, <2>2 DEF ContentsAre
    <3>4. pgd'[p][g].present /\ pgd'[p][g].low = f
      BY <3>1
    <3>5. Content(q, a)' = ram'[f][OffsetOf(a)]
      BY <1>4, <2>2, <3>4 DEF ContentsAre
    <3>6. QED
      BY <1>2, <3>2, <3>3, <3>5
  <2>3. CASE ~(q = p /\ g \in k .. k + n - 1)
    <3>1. pgd'[q][g] = pgd[q][g]
      BY <1>1, <2>1, <2>3
    <3>2. QED
      BY <1>2, <1>4, <3>1 DEF ContentsAre
  <2>4. QED
    BY <2>2, <2>3
<1>6. Zeros'
  <2>1. \A q \in Procs : frm_lst'[q] = frm_lst[q] \/ frm_lst'[q] = << >>
    BY <1>2, ReturnLock DEF ZInv
  <2>2. DOMAIN << >> = {}
    OBVIOUS
  <2>3. QED
    BY <1>2, <2>1, <2>2 DEF ZInv, Zeros, Zero
<1>7. QED
  BY <1>5, <1>6 DEF ContentKept

(* A byte that is written belongs to one page, and to no free frame.       *)
LEMMA WriteContent ==
  ASSUME ZInv, Unfaulted, IInv', NEW p \in Procs, NEW r \in Rgids,
         NEW off \in Offsets, NEW v \in Values, Write(p, r, off, v)
  PROVE  /\ \E a \in Addresses :
              /\ Names(p, r, off, a)
              /\ Content(p, a)' = v
              /\ \A q \in Procs, b \in Addresses :
                   q # p \/ b # a => Content(q, b)' = Content(q, b)
         /\ Zeros'
<1>1. PICK a \in Addresses : Names(p, r, off, a) /\ Present(p, a) /\ Store(p, a, v)
  BY DEF Write
<1>2. UNCHANGED <<pgd, ramHead, swpHead, frm_lst>>
  BY DEF Write, pageVars, callVars, listVars
<1> DEFINE f == pgd[p][PageOf(a)].low
<1>3. PageOf(a) \in Pages /\ OffsetOf(a) \in 0 .. PageSz - 1
  BY AddressesHavePages, PageOfAddress
<1>4. ram \in [Frames -> [0 .. PageSz - 1 -> Values]]
  BY DEF ZInv, IInv, Inv, RunInv
<1>5. /\ pgd[p][PageOf(a)].present /\ f \in Frames /\ f < ramHead
      /\ Fpn(pgd[p][PageOf(a)]) = f
  BY <1>1, <1>3, PresentFrames DEF ZInv, Present
<1>6. ContentsAre /\ ContentsAre'
  BY <1>2, Contents, ContentsNext DEF ZInv, Unfaulted
<1>7. ram' = [ram EXCEPT ![f][OffsetOf(a)] = v]
  BY <1>1, <1>5 DEF Store
<1>8. /\ ram'[f][OffsetOf(a)] = v
      /\ \A i \in 0 .. PageSz - 1 : i # OffsetOf(a) => ram'[f][i] = ram[f][i]
      /\ \A g \in Frames : g # f => ram'[g] = ram[g]
  BY <1>3, <1>4, <1>5, <1>7
<1> HIDE DEF f
<1>9. Content(p, a)' = v
  BY <1>2, <1>5, <1>6, <1>8 DEF ContentsAre, f
<1>10. ASSUME NEW q \in Procs, NEW b \in Addresses, q # p \/ b # a
       PROVE  Content(q, b)' = Content(q, b)
  <2>1. PageOf(b) \in Pages /\ OffsetOf(b) \in 0 .. PageSz - 1
    BY AddressesHavePages, PageOfAddress
  <2>2. CASE ~pgd[q][PageOf(b)].present
    BY <1>2, <1>6, <2>2 DEF ContentsAre
  <2>3. CASE pgd[q][PageOf(b)].present /\ pgd[q][PageOf(b)].low # f
    <3>1. pgd[q][PageOf(b)].low \in Frames
      BY <2>1, <2>3, PresentFrames DEF ZInv
    <3>2. QED
      BY <1>2, <1>6, <1>8, <2>3, <3>1 DEF ContentsAre
  <2>4. CASE pgd[q][PageOf(b)].present /\ pgd[q][PageOf(b)].low = f
    <3>1. q = p /\ PageOf(b) = PageOf(a)
      BY <1>3, <1>5, <2>1, <2>4 DEF ZInv, IInv, MapInv, Alone, f
    <3>2. OffsetOf(b) # OffsetOf(a)
      BY <1>10, <3>1, AddressParts
    <3>3. QED
      BY <1>2, <1>6, <1>8, <2>1, <2>4, <3>2 DEF ContentsAre
  <2>5. QED
    BY <2>2, <2>3, <2>4
<1>11. Zeros'
  <2>1. ASSUME NEW g \in Frames, g # f, Zero(g)
        PROVE  Zero(g)'
    BY <1>8, <2>1 DEF Zero
  <2>2. Zeros
    BY DEF ZInv
  <2>3. \A g \in Frames : g >= ramHead => g # f
    <3>1. ramHead \in Int
      BY CallFunctions DEF ZInv, IInv
    <3>2. QED
      BY <1>5, <3>1 DEF Frames
  <2>4. ASSUME NEW q \in Procs, NEW i \in DOMAIN frm_lst[q]
        PROVE  frm_lst[q][i] # f /\ frm_lst[q][i] \in Frames
    <3>1. frm_lst[q][i] # f
      BY <1>3, <1>5 DEF ZInv, IInv, MapInv, NotTaken, f
    <3>2. frm_lst[q] \in Seq(Frames)
      BY CallFunctions DEF ZInv, IInv
    <3>3. QED
      BY <3>1, <3>2
  <2>5. QED
    BY <1>2, <2>1, <2>2, <2>3, <2>4 DEF Zeros
<1>12. QED
  BY <1>1, <1>9, <1>10, <1>11

(* A frame that is taken is still zero.                                    *)
LEMMA TakeFrameZeros ==
  ASSUME IInv, Zeros, NEW p \in Procs, TakeFrame(p)
  PROVE  ContentKept /\ Zeros'
<1>1. /\ frm_lst' = [frm_lst EXCEPT ![p] = Append(@, ramHead)]
      /\ ramHead' = ramHead + 1 /\ UNCHANGED <<pgd, ram>>
  BY TakeFrameTaken DEF TakeFrame, pageVars
<1>2. ramHead \in Frames
  <2>1. node[p] \in Frames /\ ramHead' = node[p] + 1
    BY DEF TakeFrame
  <2>2. ramHead \in Int
    BY CallFunctions DEF IInv
  <2>3. QED
    BY <1>1, <2>1, <2>2 DEF Frames
<1>3. Zero(ramHead)
  BY <1>2 DEF Zeros, Frames
<1>4. \A f \in Frames : f >= ramHead' => Zero(f)'
  BY <1>1, <1>2 DEF Zeros, Zero, Frames
<1>5. ASSUME NEW q \in Procs, NEW i \in DOMAIN frm_lst'[q]
      PROVE  Zero(frm_lst'[q][i])
  <2>1. /\ frm_lst'[q] = IF q = p THEN Append(frm_lst[p], ramHead) ELSE frm_lst[q]
        /\ frm_lst[q] \in Seq(Frames)
    BY <1>1, CallFunctions DEF IInv
  <2>2. frm_lst'[q][i] = ramHead \/ (i \in DOMAIN frm_lst[q] /\ frm_lst'[q][i] = frm_lst[q][i])
    BY <2>1
  <2>3. QED
    BY <1>3, <2>2 DEF Zeros
<1>6. Zeros'
  BY <1>1, <1>4, <1>5 DEF Zeros, Zero
<1>7. QED
  BY <1>1, <1>6, KeepContent

-----------------------------------------------------------------------------
(* The invariant *)

LEMMA ZInvInit ==
  ASSUME Init
  PROVE  ZInv
<1>1. DOMAIN << >> = {}
  OBVIOUS
<1>2. Zeros
  BY <1>1 DEF Init, Zeros, Zero
<1>3. LateAccess
  BY DEF Init, LateAccess, NoCall
<1>4. QED
  BY <1>2, <1>3, IInvInit, AreaInit DEF ZInv

LEMMA ZInvNext ==
  ASSUME ZInv, [Next]_vars
  PROVE  ZInv'
<1>1. IInv /\ IInv' /\ Inv /\ Inv'
  BY IInvNext DEF ZInv, IInv
<1>2. AreaMapped'
  BY <1>1, AreaNext DEF ZInv, UserNext
<1>3. CASE Idle
  <2>1. LateAccess'
    BY <1>3 DEF Idle, ZInv, LateAccess, Unfaulted
  <2>2. DOMAIN << >> = {}
    OBVIOUS
  <2>3. Unfaulted' => Zeros'
    BY <1>3, <2>2 DEF Idle, ZInv, Zeros, Zero, Unfaulted
  <2>4. QED
    BY <1>1, <1>2, <2>1, <2>3 DEF ZInv
<1>4. CASE \E p \in Procs : TakeFrame(p)
  <2>1. UNCHANGED <<call, swpHead>>
    BY <1>4 DEF TakeFrame
  <2>2. LateAccess'
    BY <2>1 DEF ZInv, LateAccess, Unfaulted
  <2>3. Unfaulted' => Zeros'
    BY <1>1, <1>4, <2>1, TakeFrameZeros DEF ZInv, Unfaulted
  <2>4. QED
    BY <1>1, <1>2, <2>2, <2>3 DEF ZInv
<1>5. ASSUME NEW p \in Procs, Grows(p)
      PROVE  ZInv'
  <2>1. UNCHANGED swpHead /\ \A q \in Procs : call'[q] = call[q] \/ call'[q].op # "access"
    BY <1>1, <1>5, ReturnCall DEF Grows
  <2>2. LateAccess'
    BY <2>1 DEF ZInv, LateAccess, Unfaulted
  <2>3. Unfaulted' => Zeros'
    BY <1>1, <1>5, <2>1, GrowContent DEF Unfaulted
  <2>4. QED
    BY <1>1, <1>2, <2>2, <2>3 DEF ZInv
<1>6. CASE \E p \in Procs, r \in Rgids, off \in Offsets, v \in Values : Write(p, r, off, v)
  <2>1. UNCHANGED <<call, swpHead>>
    BY <1>6 DEF Write, callVars, listVars
  <2>2. LateAccess'
    BY <2>1 DEF ZInv, LateAccess, Unfaulted
  <2>3. Unfaulted' => Zeros'
    BY <1>1, <1>6, <2>1, WriteContent DEF Unfaulted
  <2>4. QED
    BY <1>1, <1>2, <2>2, <2>3 DEF ZInv
<1>7. ASSUME NEW p \in Procs, Access(p)
      PROVE  ZInv'
  <2>1. UNCHANGED swpHead /\ \A q \in Procs : call'[q] = call[q] \/ call'[q].op # "access"
    BY <1>1, <1>7, ReturnCall DEF Access
  <2>2. LateAccess' /\ ~Unfaulted'
    BY <1>7, <2>1 DEF ZInv, LateAccess, Unfaulted, Access
  <2>3. QED
    BY <1>1, <1>2, <2>2 DEF ZInv
<1>8. CASE \E p \in Procs : TakeSwap(p) \/ NoSwap(p)
  <2>1. ~Unfaulted'
    BY <1>1, <1>8, FaultCall DEF Inv
  <2>2. QED
    BY <1>1, <1>2, <2>1 DEF ZInv, LateAccess
<1>9. QED
  BY <1>1, <1>3, <1>4, <1>5, <1>6, <1>7, <1>8, MemoryKinds

LEMMA ZInvariant == Spec => []ZInv
<1>1. Init => ZInv
  BY ZInvInit
<1>2. ZInv /\ [Next]_vars => ZInv'
  BY ZInvNext
<1>3. QED
  BY <1>1, <1>2, PTL DEF Spec

(* Without a page fault, only a write changes what somebody reads.         *)
LEMMA OthersKeep ==
  ASSUME ZInv, IInv', [Next]_vars, Unfaulted',
         ~\E p \in Procs, r \in Rgids, off \in Offsets, v \in Values :
            Write(p, r, off, v)
  PROVE  ContentKept
<1>1. IInv
  BY DEF ZInv
<1>2. CASE Idle
  BY <1>2, KeepContent DEF Idle
<1>3. CASE \E p \in Procs : TakeFrame(p)
  <2>1. Unfaulted
    BY <1>3 DEF TakeFrame, Unfaulted
  <2>2. QED
    BY <1>1, <1>3, <2>1, TakeFrameZeros DEF ZInv
<1>4. ASSUME NEW p \in Procs, Grows(p)
      PROVE  ContentKept
  <2>1. Unfaulted
    BY <1>4 DEF Grows, Unfaulted
  <2>2. QED
    BY <1>4, <2>1, GrowContent
<1>5. ASSUME NEW p \in Procs, Access(p)
      PROVE  FALSE
  BY <1>5 DEF Access, ZInv, LateAccess, Unfaulted
<1>6. ~\E p \in Procs : TakeSwap(p) \/ NoSwap(p)
  BY <1>1, FaultCall DEF IInv, Inv
<1>7. QED
  BY <1>1, <1>2, <1>3, <1>4, <1>5, <1>6, MemoryKinds

-----------------------------------------------------------------------------
(* Cells *)

CellsOf(sym) == UNION {Cells(x) : x \in Regions(sym)}

LEMMA RegionsListed ==
  ASSUME NEW n \in Nat, NEW sym \in SymIn(n), NEW x \in Regions(sym)
  PROVE  x \in RegionIn(n) /\ \E j \in DOMAIN OwnList(sym) : OwnList(sym)[j] = x
<1>1. sym.first \in RegionIn(n) /\ sym.more \in Seq(RegionIn(n))
  BY DEF SymIn
<1>2. CASE x = sym.first
  BY <1>1, <1>2, OwnListType
<1>3. ASSUME NEW i \in DOMAIN sym.more, x = sym.more[i]
      PROVE  x \in RegionIn(n) /\ \E j \in DOMAIN OwnList(sym) : OwnList(sym)[j] = x
  <2>1. i \in 1 .. Len(sym.more) /\ Len(sym.more) \in Nat /\ sym.more[i] \in RegionIn(n)
    BY <1>1
  <2>2. i + 1 \in DOMAIN OwnList(sym) /\ OwnList(sym)[i + 1] = x
    BY <1>3, <2>1, OwnListType
  <2>3. QED
    BY <1>3, <2>1, <2>2
<1>4. QED
  BY <1>2, <1>3 DEF Regions

LEMMA RegionCells ==
  ASSUME NEW n \in Nat, NEW x \in RegionIn(n)
  PROVE  Cells(x) \subseteq 0 .. n - 1
BY DEF Cells, RegionIn

(* A new region is all that its variable has, or comes to what it had.     *)
LEMMA TrackCells ==
  ASSUME NEW n \in Nat, NEW sym \in SymIn(n), NEW rg
  PROVE  \E kept \in {{}, CellsOf(sym)} : CellsOf(Track(sym, rg)) = kept \cup Cells(rg)
<1>1. /\ sym.more \in Seq(RegionIn(n))
      /\ sym = [first |-> sym.first, more |-> sym.more]
  BY DEF SymIn
<1>2. CASE sym.first.start = 0
  <2>1. Regions(Track(sym, rg)) = {rg}
    BY <1>2 DEF Track, Regions
  <2>2. QED
    BY <2>1 DEF CellsOf
<1>3. CASE sym.first.start # 0
  <2>1. Track(sym, rg) = [first |-> sym.first, more |-> <<rg>> \o sym.more]
    BY <1>1, <1>3 DEF Track
  <2> DEFINE m == <<rg>> \o sym.more
  <2>2. /\ DOMAIN m = 1 .. Len(sym.more) + 1 /\ Len(sym.more) \in Nat
        /\ DOMAIN sym.more = 1 .. Len(sym.more)
        /\ m[1] = rg /\ \A i \in 1 .. Len(sym.more) : m[i + 1] = sym.more[i]
    BY <1>1
  <2> DEFINE A == {m[i] : i \in DOMAIN m}
             B == {sym.more[i] : i \in DOMAIN sym.more}
  <2>3. A = {rg} \cup B
    <3>1. ASSUME NEW i \in DOMAIN m
          PROVE  m[i] = rg \/ m[i] \in B
      <4>1. CASE i = 1
        BY <2>2, <4>1
      <4>2. CASE i # 1
        <5>1. i - 1 \in 1 .. Len(sym.more) /\ (i - 1) + 1 = i
          BY <2>2, <4>2
        <5>2. i - 1 \in DOMAIN sym.more /\ m[i] = sym.more[i - 1]
          BY <2>2, <5>1
        <5>3. QED
          BY <5>2
      <4>3. QED
        BY <4>1, <4>2
    <3>2. ASSUME NEW j \in DOMAIN sym.more
          PROVE  sym.more[j] \in A
      <4>1. j + 1 \in DOMAIN m /\ m[j + 1] = sym.more[j]
        BY <2>2
      <4>2. QED
        BY <4>1
    <3>3. rg \in A
      <4>1. 1 \in DOMAIN m /\ m[1] = rg
        BY <2>2
      <4>2. QED
        BY <4>1
    <3>4. (\A x \in A : x = rg \/ x \in B) /\ (\A x \in B : x \in A)
      BY <3>1, <3>2
    <3> HIDE DEF A, B
    <3>5. QED
      BY <3>3, <3>4
  <2>4. Regions(Track(sym, rg)) = Regions(sym) \cup {rg}
    <3>1. Regions(Track(sym, rg)) = {sym.first} \cup A
      BY <2>1 DEF Regions
    <3>2. Regions(sym) = {sym.first} \cup B
      BY DEF Regions
    <3> HIDE DEF A, B
    <3>3. QED
      BY <2>3, <3>1, <3>2
  <2>5. QED
    BY <2>4 DEF CellsOf
<1>4. QED
  BY <1>2, <1>3

(* A request that gives a variable a region apart from all others.         *)
LEMMA SpaceGrant ==
  ASSUME IInv, NEW p \in Procs, NEW r \in Rgids, NEW rg,
         Cells(rg) # {}, Cells(rg) \subseteq Addresses,
         \A s \in Rgids : Cells(rg) \cap OwnedCells(p, s) = {},
         symrg' = [symrg EXCEPT ![p][r] = Track(@, rg)]
  PROVE  Space!Grant(p, r)
<1> DEFINE O == [q \in Procs |-> [s \in Rgids |-> OwnedCells(q, s)]]
<1>1. symrg \in [Procs -> [Rgids -> [first : [start : Nat, end : Nat],
                                     more : Seq([start : Nat, end : Nat])]]]
  BY DEF IInv, Inv, RegionInv
<1>2. /\ symrg'[p][r] = Track(symrg[p][r], rg)
      /\ \A q \in Procs, s \in Rgids : q # p \/ s # r => symrg'[q][s] = symrg[q][s]
  BY <1>1
<1>3. PICK kept \in {{}, OwnedCells(p, r)} : OwnedCells(p, r)' = kept \cup Cells(rg)
  <2>1. symrg[p][r] \in SymIn(vm_end[p]) /\ vm_end[p] \in Nat
    BY RegionsOf DEF IInv, Inv
  <2>2. \E kept \in {{}, CellsOf(symrg[p][r])} :
          CellsOf(Track(symrg[p][r], rg)) = kept \cup Cells(rg)
    BY <2>1, TrackCells
  <2>3. QED
    BY <1>2, <2>2 DEF CellsOf, OwnedCells
<1>4. \A q \in Procs, s \in Rgids : q # p \/ s # r => OwnedCells(q, s)' = OwnedCells(q, s)
  BY <1>2 DEF OwnedCells
<1>5. O' = [O EXCEPT ![p][r] = kept \cup Cells(rg)]
  BY <1>3, <1>4
<1>6. Cells(rg) \in SUBSET (Addresses \ Space!Taken(p))
  BY DEF Space!Taken
<1>7. kept \in {{}, O[p][r]}
  BY <1>3
<1>8. QED
  BY <1>5, <1>6, <1>7 DEF Space!Grant

AreaInside ==
  \A p \in Procs : vm_end[p] \in Nat /\ 0 .. vm_end[p] - 1 \subseteq Addresses

LEMMA AreaAddressed == IInv => AreaInside
<1> SUFFICES ASSUME IInv, NEW p \in Procs
             PROVE  vm_end[p] \in Nat /\ 0 .. vm_end[p] - 1 \subseteq Addresses
  BY DEF AreaInside
<1>1. PICK n \in Nat : vm_end[p] = n * PageSz /\ n + Len(frm_lst[p]) <= ramHead
  BY DEF IInv, TakenInv, FewPages
<1>2. /\ Len(frm_lst[p]) \in Nat /\ ramHead \in 0 .. NumFrames
      /\ NumFrames \in Nat /\ MaxPgn \in Nat /\ NumFrames <= MaxPgn
  BY CallFunctions, MmAssumption DEF IInv
<1>3. MaxPgn - n \in Nat /\ n + (MaxPgn - n) = MaxPgn
  <2>1. n + Len(frm_lst[p]) <= ramHead
    BY <1>1
  <2>2. QED
    BY <1>2, <2>1
<1>4. /\ MaxPgn * PageSz = n * PageSz + (MaxPgn - n) * PageSz
      /\ n * PageSz \in Nat /\ (MaxPgn - n) * PageSz \in Nat
  BY <1>1, <1>3, PageOrder, PageArithmetic
<1>5. vm_end[p] \in Nat /\ MaxPgn * PageSz \in Nat /\ vm_end[p] <= MaxPgn * PageSz
  BY <1>1, <1>4
<1>6. QED
  BY <1>5 DEF Addresses

LEMMA AreaAddressedNext == IInv' => AreaInside'
BY AreaAddressed, PTL

(* Bytes of a free region belong to no variable.                           *)
LEMMA FreeCells ==
  ASSUME IInv, NEW p \in Procs, NEW i \in DOMAIN freerg[p], NEW s \in Rgids
  PROVE  Cells(freerg[p][i]) \cap OwnedCells(p, s) = {}
<1>1. /\ vm_end[p] \in Nat /\ freerg[p] \in Seq(RegionIn(vm_end[p]))
      /\ symrg[p] \in [Rgids -> SymIn(vm_end[p])]
      /\ Separate(freerg[p], symrg[p])
  BY RegionsOf DEF IInv, Inv
<1>2. ASSUME NEW x \in Regions(symrg[p][s])
      PROVE  Cells(freerg[p][i]) \cap Cells(x) = {}
  <2>1. symrg[p][s] \in SymIn(vm_end[p])
    BY <1>1
  <2>2. x \in RegionIn(vm_end[p])
    BY <1>1, <2>1, RegionsListed
  <2>3. PICK j \in DOMAIN OwnList(symrg[p][s]) : OwnList(symrg[p][s])[j] = x
    BY <1>1, <2>1, RegionsListed
  <2>4. Apart(freerg[p][i], x)
    BY <1>1, <2>3 DEF Separate, FreeOwnApart
  <2>5. freerg[p][i] \in RegionIn(vm_end[p])
    BY <1>1
  <2>6. QED
    BY <1>1, <2>2, <2>4, <2>5, ApartCells
<1>3. QED
  BY <1>2 DEF OwnedCells

(* Bytes behind the area belong to no variable.                            *)
LEMMA CellsBehind ==
  ASSUME IInv, NEW p \in Procs, NEW s \in Rgids, NEW c \in OwnedCells(p, s)
  PROVE  c \in Nat /\ c < vm_end[p]
<1>1. vm_end[p] \in Nat /\ symrg[p][s] \in SymIn(vm_end[p])
  BY RegionsOf DEF IInv, Inv
<1>2. PICK x \in Regions(symrg[p][s]) : c \in Cells(x)
  BY DEF OwnedCells
<1>3. x \in RegionIn(vm_end[p])
  BY <1>1, RegionsListed
<1>4. QED
  BY <1>1, <1>2, <1>3 DEF Cells, RegionIn

LEMMA AllocFromFreeGrants ==
  ASSUME IInv, NEW p \in Procs, NEW r \in Rgids, NEW size \in Sizes,
         AllocFromFree(p, r, size)
  PROVE  Space!Grant(p, r)
<1>1. PICK i \in DOMAIN freerg[p] :
        /\ IsFirstFit(freerg[p], i, size)
        /\ symrg' = [symrg EXCEPT ![p][r] =
             Track(@, Region(freerg[p][i].start, freerg[p][i].start + size))]
  BY DEF AllocFromFree
<1> DEFINE rg == Region(freerg[p][i].start, freerg[p][i].start + size)
<1>2. size \in Nat \ {0} /\ Fits(freerg[p][i], size)
  BY <1>1, PagesEnough DEF IsFirstFit
<1>3. vm_end[p] \in Nat /\ freerg[p][i] \in RegionIn(vm_end[p])
  <2>1. vm_end[p] \in Nat /\ freerg[p] \in Seq(RegionIn(vm_end[p]))
    BY RegionsOf DEF IInv, Inv
  <2>2. QED
    BY <2>1
<1>4. /\ freerg[p][i].start \in Nat /\ freerg[p][i].end \in Nat
      /\ freerg[p][i].end <= vm_end[p]
      /\ freerg[p][i].start + size <= freerg[p][i].end
  BY <1>2, <1>3 DEF RegionIn, Fits
<1>5. rg \in RegionIn(vm_end[p])
  BY <1>2, <1>3, <1>4 DEF Region, RegionIn
<1>6. Cells(rg) # {} /\ Cells(rg) \subseteq Cells(freerg[p][i])
  BY <1>2, <1>4 DEF Cells, Region
<1>7. Cells(rg) \subseteq Addresses
  <2>1. 0 .. vm_end[p] - 1 \subseteq Addresses
    BY AreaAddressed DEF AreaInside
  <2>2. QED
    BY <1>3, <1>5, <2>1, RegionCells
<1>8. \A s \in Rgids : Cells(rg) \cap OwnedCells(p, s) = {}
  BY <1>6, FreeCells
<1> HIDE DEF rg
<1>9. symrg' = [symrg EXCEPT ![p][r] = Track(@, rg)]
  BY <1>1 DEF rg
<1>10. QED
  BY <1>6, <1>7, <1>8, <1>9, SpaceGrant

LEMMA AllocGrowGrants ==
  ASSUME IInv, IInv', NEW p \in Procs, AllocGrow(p)
  PROVE  \E r \in Rgids : Space!Grant(p, r)
<1> DEFINE r == call[p].rgid
           size == call[p].size
           rg == Region(vm_end[p], vm_end[p] + size)
<1>c. r \in Rgids /\ size \in Sizes
  BY CallTypes DEF AllocGrow, IInv, Inv
<1>1. /\ size \in Nat \ {0} /\ size <= PagesFor(size) * PageSz
      /\ PagesFor(size) * PageSz \in Nat
  BY <1>c, PagesEnough, PageArithmetic
<1>2. vm_end \in [Procs -> Nat]
  BY DEF IInv, Inv, RegionInv
<1>3. symrg' = [symrg EXCEPT ![p][r] = Track(@, rg)]
  BY DEF AllocGrow, AreaAtBrk, Region
<1>4. vm_end'[p] = vm_end[p] + PagesFor(size) * PageSz
  BY <1>2 DEF AllocGrow, inc_vma_limit, AreaAtBrk, Region
<1> HIDE DEF size, r
<1>5. rg \in RegionIn(vm_end'[p])
  BY <1>1, <1>2, <1>4 DEF Region, RegionIn
<1>6. Cells(rg) # {}
  BY <1>1, <1>2 DEF Cells, Region
<1>7. Cells(rg) \subseteq Addresses
  <2>1. vm_end'[p] \in Nat /\ 0 .. vm_end'[p] - 1 \subseteq Addresses
    BY AreaAddressedNext DEF AreaInside
  <2>2. QED
    BY <1>5, <2>1, RegionCells
<1>8. ASSUME NEW s \in Rgids
      PROVE  Cells(rg) \cap OwnedCells(p, s) = {}
  <2>1. \A c \in Cells(rg) : c \in Int /\ c >= vm_end[p]
    BY <1>1, <1>2 DEF Cells, Region
  <2>2. \A c \in OwnedCells(p, s) : c \in Nat /\ c < vm_end[p]
    BY CellsBehind
  <2>3. QED
    BY <1>2, <2>1, <2>2
<1> HIDE DEF rg
<1>9. QED
  BY <1>c, <1>3, <1>6, <1>7, <1>8, SpaceGrant

LEMMA FreeReleases ==
  ASSUME IInv, NEW p \in Procs, NEW r \in Rgids, Free(p, r)
  PROVE  Space!Release(p, r)
<1> DEFINE O == [q \in Procs |-> [s \in Rgids |-> OwnedCells(q, s)]]
<1>1. symrg' = [symrg EXCEPT ![p][r] = [first |-> NoRegion, more |-> << >>]]
  BY DEF Free
<1>2. /\ symrg'[p][r] = [first |-> NoRegion, more |-> << >>]
      /\ \A q \in Procs, s \in Rgids : q # p \/ s # r => symrg'[q][s] = symrg[q][s]
  BY <1>1 DEF IInv, Inv, RegionInv
<1>3. OwnedCells(p, r)' = {}
  <2>1. Regions(symrg'[p][r]) = {NoRegion}
    BY <1>2 DEF Regions
  <2>2. Cells(NoRegion) = {}
    BY DEF Cells, NoRegion, Region
  <2>3. QED
    BY <2>1, <2>2 DEF OwnedCells
<1>4. \A q \in Procs, s \in Rgids : q # p \/ s # r => OwnedCells(q, s)' = OwnedCells(q, s)
  BY <1>2 DEF OwnedCells
<1>5. O' = [O EXCEPT ![p][r] = {}]
  BY <1>3, <1>4
<1>6. QED
  BY <1>5 DEF Space!Release

-----------------------------------------------------------------------------
(* Every step *)

(* Cells are granted and released one variable at a time.                  *)
LEMMA OwnedSteps ==
  ASSUME IInv, IInv', [Next]_vars
  PROVE  Space!OwnedStep
<1>1. ASSUME UNCHANGED symrg
      PROVE  Space!OwnedStep
  <2>1. OwnedKept
    BY <1>1, KeepOwned
  <2>2. UNCHANGED [p \in Procs |-> [r \in Rgids |-> OwnedCells(p, r)]]
    BY <2>1 DEF OwnedKept
  <2>3. QED
    BY <2>2 DEF Space!OwnedStep
<1>2. ASSUME NEW p \in Procs, NEW r \in Rgids, Space!Grant(p, r) \/ Space!Release(p, r)
      PROVE  Space!OwnedStep
  BY <1>2 DEF Space!OwnedStep
<1>3. CASE UNCHANGED vars
  BY <1>1, <1>3 DEF vars, regionVars
<1>4. ASSUME NEW p \in Procs, Instruction(p)
      PROVE  Space!OwnedStep
  <2>1. CASE \E r \in Rgids, size \in Sizes : AllocFromFree(p, r, size)
    BY <1>2, <2>1, AllocFromFreeGrants
  <2>2. CASE AllocGrow(p)
    BY <1>2, <2>2, AllocGrowGrants
  <2>3. CASE \E r \in Rgids : Free(p, r)
    BY <1>2, <2>3, FreeReleases
  <2>4. CASE \/ \E r \in Rgids, size \in Sizes : AllocCall(p, r, size)
             \/ ReadHead(p) \/ TakeFrame(p) \/ AllocFail(p)
             \/ TakeSwap(p) \/ NoSwap(p) \/ Access(p)
    <3>1. UNCHANGED symrg
      BY <2>4 DEF AllocCall, ReadHead, TakeFrame, AllocFail, TakeSwap, NoSwap,
                  ReplacePage, Access, regionVars
    <3>2. QED
      BY <1>1, <3>1
  <2>5. CASE \/ \E r \in Rgids, off \in Offsets :
                  \/ Read(p, r, off) \/ Hang(p, r, off) \/ Fault(p, r, off, FALSE, 0)
                  \/ \E v \in Values : Write(p, r, off, v) \/ Fault(p, r, off, TRUE, v)
             \/ \E r \in Rgids : KillAll(p, r)
             \/ NoEffect(p)
    <3>1. UNCHANGED symrg
      BY <2>5 DEF Read, Hang, Fault, Write, KillAll, NoEffect, regionVars
    <3>2. QED
      BY <1>1, <3>1
  <2>6. QED
    BY <1>4, <2>1, <2>2, <2>3, <2>4, <2>5 DEF Instruction
<1>5. QED
  BY <1>3, <1>4 DEF Next

LEMMA SpaceStep ==
  ASSUME ZInv, ZInv', [Next]_vars
  PROVE  [Space!SpaceNext]_<<[p \in Procs |-> [r \in Rgids |-> OwnedCells(p, r)]],
                             [p \in Procs |-> [a \in Addresses |-> Content(p, a)]],
                             Unfaulted>>
<1> DEFINE O == [p \in Procs |-> [r \in Rgids |-> OwnedCells(p, r)]]
           C == [p \in Procs |-> [a \in Addresses |-> Content(p, a)]]
<1>1. IInv /\ IInv' /\ Space!OwnedStep
  BY OwnedSteps DEF ZInv
<1>2. CASE ~Unfaulted'
  BY <1>1, <1>2 DEF Space!SpaceNext
<1>3. CASE Unfaulted'
  <2>1. Unfaulted
    <3>1. ~\E p \in Procs : TakeSwap(p) \/ NoSwap(p)
      BY <1>1, <1>3, FaultCall DEF IInv, Inv
    <3>2. UNCHANGED swpHead
      BY <1>1, <3>1, MemoryKinds DEF Idle, TakeFrame, Grows, Write, Access, callVars, listVars
    <3>3. QED
      BY <1>3, <3>2 DEF Unfaulted
  <2>2. Unfaulted' = Unfaulted
    BY <1>3, <2>1
  <2>3. CASE \E p \in Procs, r \in Rgids, off \in Offsets, v \in Values : Write(p, r, off, v)
    <3>1. PICK p \in Procs, r \in Rgids, off \in Offsets, v \in Values : Write(p, r, off, v)
      BY <2>3
    <3>2. PICK a \in Addresses :
            /\ Content(p, a)' = v
            /\ \A q \in Procs, b \in Addresses :
                 q # p \/ b # a => Content(q, b)' = Content(q, b)
      BY <1>1, <2>1, <3>1, WriteContent
    <3>3. C' = [C EXCEPT ![p][a] = v]
      BY <3>2
    <3>4. UNCHANGED O
      <4>1. OwnedKept
        BY <3>1, KeepOwned DEF Write, regionVars
      <4>2. QED
        BY <4>1 DEF OwnedKept
    <3>5. Space!Store(p)
      <4> HIDE DEF C
      <4>1. \E b \in Addresses, w \in Values : C' = [C EXCEPT ![p][b] = w]
        BY <3>3
      <4>2. QED
        BY <4>1 DEF Space!Store, C
    <3>6. QED
      BY <2>2, <3>4, <3>5 DEF Space!SpaceNext
  <2>4. CASE ~\E p \in Procs, r \in Rgids, off \in Offsets, v \in Values : Write(p, r, off, v)
    <3>1. ContentKept
      BY <1>1, <1>3, <2>4, OthersKeep
    <3>2. UNCHANGED C
      BY <3>1 DEF ContentKept
    <3>3. QED
      BY <1>1, <2>2, <3>2 DEF Space!SpaceNext
  <2>5. QED
    BY <2>3, <2>4
<1>4. QED
  BY <1>2, <1>3

LEMMA SpaceInitial ==
  ASSUME Init
  PROVE  Space!SpaceInit
<1>1. ASSUME NEW p \in Procs, NEW r \in Rgids
      PROVE  OwnedCells(p, r) = {}
  <2>1. Regions(symrg[p][r]) = {NoRegion}
    BY DEF Init, Regions
  <2>2. Cells(NoRegion) = {}
    BY DEF Cells, NoRegion, Region
  <2>3. QED
    BY <2>1, <2>2 DEF OwnedCells
<1>2. ASSUME NEW p \in Procs, NEW a \in Addresses
      PROVE  Content(p, a) = 0
  BY AddressesHavePages DEF Init, Content, EmptyPte
<1>3. 0 \in Values
  BY MmAssumption
<1>4. Unfaulted = TRUE
  BY DEF Init, Unfaulted
<1>5. QED
  BY <1>1, <1>2, <1>3, <1>4 DEF Space!SpaceInit

-----------------------------------------------------------------------------
(* The properties *)

(* The library implements AddressSpace: liballoc() grants cells that no    *)
(* variable of the process has, and until a page fault a write changes one *)
(* cell of the process that writes, whatever the others allocate, write    *)
(* and free meanwhile, and also when RAM runs out.                         *)
THEOREM ImplementsSpace == Spec => SpaceRefined
<1>1. Init => Space!SpaceInit
  BY SpaceInitial
<1>2. ZInv /\ ZInv' /\ [Next]_vars =>
        [Space!SpaceNext]_<<[p \in Procs |-> [r \in Rgids |-> OwnedCells(p, r)]],
                            [p \in Procs |-> [a \in Addresses |-> Content(p, a)]],
                            Unfaulted>>
  BY SpaceStep
<1>3. QED
  BY <1>1, <1>2, ZInvariant, PTL DEF Spec, SpaceRefined, Space!SpaceSpec, Space!spaceVars

(* Until a page fault a byte of a page that is mapped changes by a write   *)
(* to its address, and by nothing that any other process does.             *)
THEOREM OnlyWritesChange == Spec => KeptUntilFault
<1>1. ASSUME ZInv, ZInv', [Next]_vars, Unfaulted', NEW p \in Procs, NEW a \in Addresses
      PROVE  ChangedByWrite(p, a)
  <2>1. SUFFICES ASSUME Content(p, a)' # Content(p, a)
                 PROVE  \E r \in Rgids, off \in Offsets, v \in Values :
                          Write(p, r, off, v) /\ a = symrg[p][r].first.start + off
    BY DEF ChangedByWrite
  <2>2. IInv /\ IInv'
    BY <1>1 DEF ZInv
  <2>3. PICK q \in Procs, r \in Rgids, off \in Offsets, v \in Values :
          Write(q, r, off, v)
    BY <1>1, <2>1, <2>2, OthersKeep DEF ContentKept
  <2>4. Unfaulted
    BY <1>1, <2>3 DEF Write, Unfaulted, callVars, listVars
  <2>5. PICK b \in Addresses :
          /\ Names(q, r, off, b)
          /\ \A s \in Procs, c \in Addresses :
               s # q \/ c # b => Content(s, c)' = Content(s, c)
    BY <1>1, <2>2, <2>3, <2>4, WriteContent
  <2>6. p = q /\ a = b
    BY <2>1, <2>5
  <2>7. QED
    BY <2>3, <2>5, <2>6 DEF Names
<1>2. ZInv /\ ZInv' /\ [Next]_vars =>
        [Unfaulted' => \A p \in Procs, a \in Addresses : ChangedByWrite(p, a)]_vars
  BY <1>1
<1>3. QED
  BY <1>2, ZInvariant, PTL DEF Spec, KeptUntilFault
=============================================================================
