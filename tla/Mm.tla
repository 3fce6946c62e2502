---------------------------------- MODULE Mm ----------------------------------
(***************************************************************************)
(* The paging memory library: libmem.c, mm.c, mm-vm.c, mm-memphy.c and the *)
(* memmap system call they go through.  Each process has one vm area, a    *)
(* symbol table of regions, a free-region list and a page table; all of    *)
(* them share the frames of one RAM and one active SWAP.                   *)
(*                                                                         *)
(* An instruction is one action where nothing of it can be seen by another *)
(* process before its end: it touches the tables of its own process, and a *)
(* byte of RAM.  The lists of free frames are shared.  MEMPHY_get_freefp() *)
(* reads the head of one and then writes it, and so the calls that take    *)
(* frames are made of steps: __alloc() under mmvm_lock, a page fault and   *)
(* SYSCALL 17 under no lock.                                               *)
(*                                                                         *)
(* Nothing ever puts a frame back, so that the nodes stay linked in the    *)
(* order of their numbers: a list is the number of its first node, and the *)
(* number of frames stands for NULL.                                       *)
(***************************************************************************)
EXTENDS Integers, SequencesExt

CONSTANTS
  Procs,      (* the processes                                               *)
  Rgids,      (* the entries of symrgtbl a program names                     *)
  PageSz,     (* PAGING_PAGESZ, in bytes                                     *)
  NumFrames,  (* frames of RAM                                               *)
  NumSwap,    (* frames of the active SWAP                                   *)
  MaxPgn,     (* PAGING_MAX_PGN: entries of a page table                     *)
  FpnRange,   (* the frame numbers a PTE can hold (13 bits, 8192)            *)
  SwpUnit,    (* the place of the swap offset in a PTE (bit 5, 32)           *)
  Values,     (* what a byte may contain                                     *)
  Sizes,      (* the sizes a program asks for                                *)
  Offsets,    (* the offsets it uses                                         *)
  CodeSize,   (* bound: instructions per process                             *)
  Nobody      (* mmvm_lock is free                                           *)

Pages == 0 .. MaxPgn - 1
Frames == 0 .. NumFrames - 1
Addresses == 0 .. MaxPgn * PageSz - 1

(* MEMPHY_format() sets fp_next of the last node only if there are two.    *)
ASSUME MmAssumption ==
  /\ PageSz \in Nat \ {0}
  /\ NumFrames \in Nat \ {0, 1} /\ NumSwap \in Nat \ {0, 1}
  /\ MaxPgn \in Nat /\ FpnRange \in Nat \ {0} /\ SwpUnit \in Nat \ {0}
  /\ Sizes \subseteq Nat \ {0}
  /\ Offsets \subseteq Nat
  /\ CodeSize \in [Procs -> Nat]
  /\ NumFrames <= FpnRange
  /\ NumFrames <= MaxPgn
  /\ 0 \in Values
  /\ Nobody \notin Procs

VARIABLES
  pc,        (* per process: how many instructions it has executed           *)
  vm_end,    (* per process: the end of its vm area                          *)
  sbrk,      (* per process: its program break                               *)
  freerg,    (* per process: vm_freerg_list                                  *)
  symrg,     (* per process and rgid: its entry of symrgtbl                  *)
  pgd,       (* per process: its page table                                  *)
  fifo,      (* per process: fifo_pgn, the newest page first                 *)
  cyclic,    (* per process: has fifo_pgn become a cycle?                    *)
  hung,      (* per process: is it walking that cycle?                       *)
  addr,      (* per process: what the last liballoc() returned, if the       *)
             (* region it was for is still there                             *)
  ram,       (* the bytes of each RAM frame                                  *)
  ramHead,   (* free_fp_list of RAM                                          *)
  swpHead,   (* free_fp_list of the active SWAP.  Its bytes are left out:    *)
             (* the code writes them and never reads them back               *)
  mmvm_lock, (* the process that holds it                                    *)
  call,      (* per process: the call it is in the middle of                 *)
  node,      (* per process: the list node it has read and not yet unlinked  *)
  frm_lst    (* per process: the frames its call has got                     *)

regionVars == <<vm_end, sbrk, freerg, symrg, addr>>
pageVars == <<pgd, fifo, cyclic>>
listVars == <<ramHead, swpHead, node, frm_lst>>
callVars == <<mmvm_lock, call, listVars>>
vars == <<pc, regionVars, pageVars, hung, ram, callVars>>

(* The calls that take more than one step: an allocation that lets the vm  *)
(* area grow, SYSCALL 17 doing so, and an access to a page that is not     *)
(* present, before and after the page fault.                               *)
NoCall == [op |-> "none"]
AllocOf(r, size) == [op |-> "alloc", rgid |-> r, size |-> size]
MemmapOf(size) == [op |-> "memmap", size |-> size]
FaultOf(a, w, v) == [op |-> "fault", addr |-> a, write |-> w, value |-> v]

Calls ==
  {NoCall}
    \cup [op : {"alloc"}, rgid : Rgids, size : Sizes]
    \cup [op : {"memmap"}, size : Sizes]
    \cup [op : {"fault", "access"}, addr : Addresses, write : BOOLEAN, value : Values]

NoNode == -1

Region(s, e) == [start |-> s, end |-> e]
NoRegion == Region(0, 0)
NoAddr == -1

(* A page table entry: the two flags the code looks at, and the low bits   *)
(* that a frame number and a swap offset share.                            *)
Pte == [present : BOOLEAN, swapped : BOOLEAN, low : Nat]
EmptyPte == [present |-> FALSE, swapped |-> FALSE, low |-> 0]

(* Every variable has its type: in particular, a list ends where its       *)
(* device ends, and what a process has got from one is a frame.            *)
TypeOK ==
  /\ pc \in [Procs -> Nat]
  /\ vm_end \in [Procs -> Nat]
  /\ sbrk \in [Procs -> Nat]
  /\ freerg \in [Procs -> Seq([start : Nat, end : Nat])]
  /\ symrg \in [Procs -> [Rgids -> [first : [start : Nat, end : Nat],
                                    more : Seq([start : Nat, end : Nat])]]]
  /\ pgd \in [Procs -> [Pages -> Pte]]
  /\ fifo \in [Procs -> Seq(Pages)]
  /\ cyclic \in [Procs -> BOOLEAN]
  /\ hung \in [Procs -> BOOLEAN]
  /\ addr \in [Procs -> Int]
  /\ ram \in [Frames -> [0 .. PageSz - 1 -> Values]]
  /\ ramHead \in 0 .. NumFrames
  /\ swpHead \in 0 .. NumSwap
  /\ mmvm_lock \in Procs \cup {Nobody}
  /\ call \in [Procs -> Calls]
  /\ node \in [Procs -> Int]
  /\ \A p \in Procs :
       node[p] \in {NoNode} \cup (0 .. IF call[p].op = "fault" THEN NumSwap ELSE NumFrames)
  /\ frm_lst \in [Procs -> Seq(Frames)]

(* init_memphy() of both devices: the RAM is zeroed; init_mm() of every    *)
(* process, whose free-region list begins with an empty region.            *)
Init ==
  /\ pc = [p \in Procs |-> 0]
  /\ vm_end = [p \in Procs |-> 0]
  /\ sbrk = [p \in Procs |-> 0]
  /\ freerg = [p \in Procs |-> <<NoRegion>>]
  /\ symrg = [p \in Procs |->
                [r \in Rgids |-> [first |-> NoRegion, more |-> << >>]]]
  /\ pgd = [p \in Procs |-> [g \in Pages |-> EmptyPte]]
  /\ fifo = [p \in Procs |-> << >>]
  /\ cyclic = [p \in Procs |-> FALSE]
  /\ hung = [p \in Procs |-> FALSE]
  /\ addr = [p \in Procs |-> NoAddr]
  /\ ram = [f \in Frames |-> [i \in 0 .. PageSz - 1 |-> 0]]
  /\ ramHead = 0
  /\ swpHead = 0
  /\ mmvm_lock = Nobody
  /\ call = [p \in Procs |-> NoCall]
  /\ node = [p \in Procs |-> NoNode]
  /\ frm_lst = [p \in Procs |-> << >>]

-----------------------------------------------------------------------------
(* mm.c: page table entries *)

Fpn(pte) == pte.low % FpnRange

pte_set_fpn(pte, f) ==
  [present |-> TRUE, swapped |-> FALSE,
   low |-> pte.low - Fpn(pte) + (f % FpnRange)]

pte_set_swap(pte, off) ==
  [present |-> TRUE, swapped |-> TRUE, low |-> off * SwpUnit]

(* The virtual pages of a region of n pages, with their frames: the list   *)
(* alloc_pages_range() builds is in reverse order.                         *)
vmap_page_range_SameFrame(p, pgn, frames) ==   \* mutation: fpit not advanced
  /\ pgd' = [pgd EXCEPT ![p] =
       [g \in Pages |->
          IF g \in pgn .. pgn + Len(frames) - 1
          THEN pte_set_fpn(@[g], Reverse(frames)[1])
          ELSE @[g]]]
  /\ fifo' = [fifo EXCEPT ![p] =
       [i \in 1 .. Len(frames) |-> pgn + Len(frames) - i] \o @]

vmap_page_range(p, pgn, frames) ==
  /\ pgd' = [pgd EXCEPT ![p] =
       [g \in Pages |->
          IF g \in pgn .. pgn + Len(frames) - 1
          THEN pte_set_fpn(@[g], Reverse(frames)[g - pgn + 1])
          ELSE @[g]]]
  /\ fifo' = [fifo EXCEPT ![p] =
       [i \in 1 .. Len(frames) |-> pgn + Len(frames) - i] \o @]

-----------------------------------------------------------------------------
(* libmem.c: regions *)

PagesFor(size) == (size + PageSz - 1) \div PageSz  \* PAGING_PAGE_ALIGNSZ

Fits(rg, size) == rg.end - rg.start >= size

(* get_free_vmrg_area() takes from the first region that is large enough.  *)
(* One that fits exactly is unlinked together with all that precede it.    *)
IsFirstFit(rgs, i, size) ==
  /\ i \in DOMAIN rgs
  /\ Fits(rgs[i], size)
  /\ \A j \in DOMAIN rgs : j < i => ~Fits(rgs[j], size)

NoFit(rgs, size) == \A i \in DOMAIN rgs : ~Fits(rgs[i], size)

TakeFrom_WrongEnd(rgs, i, size) ==   \* mutation: the rest is the wrong part
  IF rgs[i].end - rgs[i].start = size
  THEN SubSeq(rgs, i + 1, Len(rgs))
  ELSE [rgs EXCEPT ![i].end = @ - size]

TakeFrom(rgs, i, size) ==
  IF rgs[i].end - rgs[i].start = size
  THEN SubSeq(rgs, i + 1, Len(rgs))
  ELSE [rgs EXCEPT ![i].start = @ + size]

(* __alloc() records the region as the first one of the variable if that   *)
(* begins at 0, else as one more.                                          *)
Track(sym, rg) ==
  IF sym.first.start = 0
  THEN [first |-> rg, more |-> << >>]
  ELSE [sym EXCEPT !.more = <<rg>> \o @]

(* ... and moves the break if the region reaches it.  Then the address it  *)
(* returns is the old break.                                               *)
MoveBreak(p, size) ==
  /\ sbrk' = [sbrk EXCEPT ![p] = @ + size]
  /\ addr' = [addr EXCEPT ![p] = sbrk[p]]

KeepBreak(p, start) ==
  /\ addr' = [addr EXCEPT ![p] = start]
  /\ UNCHANGED sbrk

Running(p) == call[p] = NoCall /\ pc[p] < CodeSize[p] /\ ~hung[p]
Step(p) == pc' = [pc EXCEPT ![p] = @ + 1]

(* liballoc(), when a free region is large enough.                         *)
AllocFromFree(p, r, size) ==
  /\ Running(p) /\ Step(p)
  /\ mmvm_lock = Nobody
  /\ \E i \in DOMAIN freerg[p] :
       /\ IsFirstFit(freerg[p], i, size)
       /\ freerg' = [freerg EXCEPT ![p] = TakeFrom(@, i, size)]
       /\ LET rg == Region(freerg[p][i].start, freerg[p][i].start + size) IN
            /\ symrg' = [symrg EXCEPT ![p][r] = Track(@, rg)]
            /\ IF rg.end >= sbrk[p] THEN MoveBreak(p, size)
                                    ELSE KeepBreak(p, rg.start)
  /\ UNCHANGED <<vm_end, pageVars, hung, ram, callVars>>

(* ... or when none is, so that it asks for more.                          *)
AllocCall_NoLock(p, r, size) ==   \* mutation: mmvm_lock not taken
  /\ Running(p)
  /\ NoFit(freerg[p], size)
  /\ call' = [call EXCEPT ![p] = AllocOf(r, size)]
  /\ UNCHANGED <<pc, regionVars, pageVars, hung, ram, mmvm_lock, listVars>>

AllocCall(p, r, size) ==
  /\ Running(p)
  /\ mmvm_lock = Nobody
  /\ NoFit(freerg[p], size)
  /\ mmvm_lock' = p
  /\ call' = [call EXCEPT ![p] = AllocOf(r, size)]
  /\ UNCHANGED <<pc, regionVars, pageVars, hung, ram, listVars>>

-----------------------------------------------------------------------------
(* mm.c and mm-memphy.c: the frames of a call                              *)

Growing(p) == call[p].op \in {"alloc", "memmap"}

(* alloc_pages_range(), its loop around MEMPHY_get_freefp(): the head of   *)
(* the list is read,                                                       *)
ReadHead(p) ==
  /\ Growing(p)
  /\ node[p] = NoNode
  /\ Len(frm_lst[p]) < PagesFor(call[p].size)
  /\ node' = [node EXCEPT ![p] = ramHead]
  /\ UNCHANGED <<pc, regionVars, pageVars, hung, ram, mmvm_lock, call,
                 ramHead, swpHead, frm_lst>>

(* ... and, if it is not NULL, becomes the next one.                       *)
TakeFrame_NoNull(p) ==   \* mutation: fp == NULL not tested
  /\ Growing(p)
  /\ node[p] # NoNode
  /\ ramHead' = node[p] + 1
  /\ frm_lst' = [frm_lst EXCEPT ![p] = Append(@, node[p])]
  /\ node' = [node EXCEPT ![p] = NoNode]
  /\ UNCHANGED <<pc, regionVars, pageVars, hung, ram, mmvm_lock, call, swpHead>>

TakeFrame_KeepHead(p) ==   \* mutation: free_fp_list not moved on
  /\ Growing(p)
  /\ node[p] \in Frames
  /\ frm_lst' = [frm_lst EXCEPT ![p] = Append(@, node[p])]
  /\ node' = [node EXCEPT ![p] = NoNode]
  /\ UNCHANGED <<pc, regionVars, pageVars, hung, ram, mmvm_lock, call, ramHead, swpHead>>

TakeFrame(p) ==
  /\ Growing(p)
  /\ node[p] \in Frames
  /\ ramHead' = node[p] + 1
  /\ frm_lst' = [frm_lst EXCEPT ![p] = Append(@, node[p])]
  /\ node' = [node EXCEPT ![p] = NoNode]
  /\ UNCHANGED <<pc, regionVars, pageVars, hung, ram, mmvm_lock, call, swpHead>>

GotAll(p) == node[p] = NoNode /\ Len(frm_lst[p]) = PagesFor(call[p].size)
GotTooFew(p) == node[p] = NumFrames

(* get_vm_area_node_at_brk(): whole pages at the end of the vm area.       *)
AreaAtBrk(p, size) ==
  Region(vm_end[p], vm_end[p] + PagesFor(size) * PageSz)

(* The code does not compare the area with the page table.  A program that *)
(* gets beyond its end writes to memory of the simulator: the model has no *)
(* step for that.  TableSuffices says who is never stopped by this.        *)
InTable(area) == area.end <= MaxPgn * PageSz

(* The rest of inc_vma_limit(), when there were frames enough: the area is *)
(* mapped to them, and the vm area has its new end.                        *)
inc_vma_limit(p, area) ==
  /\ InTable(area)
  /\ vmap_page_range(p, area.start \div PageSz, frm_lst[p])
  /\ vm_end' = [vm_end EXCEPT ![p] = area.end]

(* The call is over, and the frames in its list are mapped or forgotten.   *)
Return(p) ==
  /\ Step(p)
  /\ call' = [call EXCEPT ![p] = NoCall]
  /\ node' = [node EXCEPT ![p] = NoNode]
  /\ frm_lst' = [frm_lst EXCEPT ![p] = << >>]
  /\ mmvm_lock' = IF mmvm_lock = p THEN Nobody ELSE mmvm_lock

(* liballoc(), with the new pages at the front of the free-region list,    *)
(* where the second get_free_vmrg_area() finds them.                       *)
AllocGrow(p) ==
  LET r == call[p].rgid
      size == call[p].size
      area == AreaAtBrk(p, size)
      rg == Region(area.start, area.start + size)
  IN
  /\ call[p].op = "alloc" /\ GotAll(p)
  /\ inc_vma_limit(p, area)
  /\ freerg' = [freerg EXCEPT ![p] = TakeFrom(<<area>> \o @, 1, size)]
  /\ symrg' = [symrg EXCEPT ![p][r] = Track(@, rg)]
  /\ IF rg.end > sbrk[p] THEN MoveBreak(p, size) ELSE KeepBreak(p, rg.start)
  /\ Return(p)
  /\ UNCHANGED <<cyclic, hung, ram, ramHead, swpHead>>

(* liballoc(), when RAM has run out: what the call has taken does not come *)
(* back, the vm area is as before, and liballoc() returns a variable it    *)
(* has not set.                                                            *)
AllocFail_KeepEnd(p) ==   \* mutation: vm_end not restored
  /\ call[p].op = "alloc" /\ GotTooFew(p)
  /\ addr' = [addr EXCEPT ![p] = NoAddr]
  /\ Return(p)
  /\ vm_end' = [vm_end EXCEPT ![p] = @ + PagesFor(call[p].size) * PageSz]
  /\ UNCHANGED <<sbrk, freerg, symrg, pageVars, hung, ram, ramHead, swpHead>>

AllocFail(p) ==
  /\ call[p].op = "alloc" /\ GotTooFew(p)
  /\ addr' = [addr EXCEPT ![p] = NoAddr]
  /\ Return(p)
  /\ UNCHANGED <<vm_end, sbrk, freerg, symrg, pageVars, hung, ram, ramHead, swpHead>>

-----------------------------------------------------------------------------
(* libfree(): the first region, if it is not empty, then every further one *)
(* goes to the front of the free-region list.                              *)
Free_KeepEntry(p, r) ==   \* mutation: the entry of symrgtbl not cleared
  LET sym == symrg[p][r]
      first == IF sym.first.start < sym.first.end THEN <<sym.first>> ELSE << >>
  IN
  /\ Running(p) /\ Step(p)
  /\ mmvm_lock = Nobody
  /\ freerg' = [freerg EXCEPT ![p] = Reverse(first \o sym.more) \o @]
  /\ addr' = [addr EXCEPT ![p] = NoAddr]
  /\ UNCHANGED <<vm_end, sbrk, symrg, pageVars, hung, ram, callVars>>

Free(p, r) ==
  LET sym == symrg[p][r]
      first == IF sym.first.start < sym.first.end THEN <<sym.first>> ELSE << >>
  IN
  /\ Running(p) /\ Step(p)
  /\ mmvm_lock = Nobody
  /\ freerg' = [freerg EXCEPT ![p] = Reverse(first \o sym.more) \o @]
  /\ symrg' = [symrg EXCEPT ![p][r] = [first |-> NoRegion, more |-> << >>]]
  /\ addr' = [addr EXCEPT ![p] = NoAddr]
  /\ UNCHANGED <<vm_end, sbrk, pageVars, hung, ram, callVars>>

-----------------------------------------------------------------------------
(* libmem.c: reads and writes *)

PageOf(a) == a \div PageSz
OffsetOf(a) == a % PageSz

(* The address an instruction names.  The code compares the offset with    *)
(* nothing, and an entry of symrgtbl that has no region begins at 0.       *)
Names(p, r, off, a) ==
  /\ a = symrg[p][r].first.start + off
  /\ a \in Addresses

Present(p, a) == pgd[p][PageOf(a)].present

(* MEMPHY_write() to a frame number beyond the RAM changes nothing that is *)
(* modelled.                                                               *)
Store(p, a, v) ==
  LET f == Fpn(pgd[p][PageOf(a)]) IN
  ram' = IF f \in Frames THEN [ram EXCEPT ![f][OffsetOf(a)] = v] ELSE ram

(* libread() and libwrite() of a page that is present, or marked so.  What *)
(* is read goes to a copy of the instruction, which is lost.               *)
Read(p, r, off) ==
  /\ Running(p) /\ Step(p)
  /\ \E a \in Addresses : Names(p, r, off, a) /\ Present(p, a)
  /\ UNCHANGED <<regionVars, pageVars, hung, ram, callVars>>

Write(p, r, off, v) ==
  /\ Running(p) /\ Step(p)
  /\ \E a \in Addresses : Names(p, r, off, a) /\ Present(p, a) /\ Store(p, a, v)
  /\ UNCHANGED <<regionVars, pageVars, hung, callVars>>

(* ... of a page that is not: pg_getpage() reads the head of the list of   *)
(* SWAP frames, without a lock,                                            *)
Fault(p, r, off, w, v) ==
  /\ Running(p)
  /\ \E a \in Addresses :
       /\ Names(p, r, off, a) /\ ~Present(p, a) /\ ~cyclic[p]
       /\ call' = [call EXCEPT ![p] = FaultOf(a, w, v)]
  /\ node' = [node EXCEPT ![p] = swpHead]
  /\ UNCHANGED <<pc, regionVars, pageVars, hung, ram, mmvm_lock, ramHead, swpHead, frm_lst>>

(* find_victim_page(): the oldest page of the FIFO, or page 0.             *)
Victim(p) == IF fifo[p] = << >> THEN 0 ELSE fifo[p][Len(fifo[p])]

(* ... the victim's frame goes to the page that was missing.  The victim's *)
(* list node is freed but stays linked; the node that malloc() returns for *)
(* the page is the same chunk, so that the list, if there was one, becomes *)
(* a cycle.                                                                *)
ReplacePage(p, off) ==
  LET v == Victim(p)
      g == PageOf(call[p].addr)
      f == Fpn(pgd[p][v])
      out == [pgd[p] EXCEPT ![v] = pte_set_swap(@, off)]
  IN
  /\ pgd' = [pgd EXCEPT ![p] = [out EXCEPT ![g] = pte_set_fpn(@, f)]]
  /\ cyclic' = [cyclic EXCEPT ![p] = fifo[p] # << >>]
  /\ fifo' = [fifo EXCEPT ![p] = <<g>> \o @]
  /\ call' = [call EXCEPT ![p].op = "access"]
  /\ node' = [node EXCEPT ![p] = NoNode]
  /\ UNCHANGED <<pc, regionVars, hung, ram, mmvm_lock, ramHead, frm_lst>>

(* ... and the victim goes to the SWAP frame that has been read.           *)
TakeSwap(p) ==
  /\ call[p].op = "fault"
  /\ node[p] < NumSwap
  /\ swpHead' = node[p] + 1
  /\ ReplacePage(p, node[p])

(* SWAP is full: pg_getpage() goes on with a frame number it has not set.  *)
NoSwap(p) ==
  /\ call[p].op = "fault"
  /\ node[p] = NumSwap
  /\ \E off \in 0 .. NumSwap : ReplacePage(p, off)
  /\ UNCHANGED swpHead

(* Now the page is there.                                                  *)
Access(p) ==
  /\ call[p].op = "access"
  /\ IF call[p].write THEN Store(p, call[p].addr, call[p].value) ELSE UNCHANGED ram
  /\ Return(p)
  /\ UNCHANGED <<regionVars, pageVars, hung, ramHead, swpHead>>

(* The walk of find_victim_page() along a cycle has no end.                *)
Hang(p, r, off) ==
  /\ Running(p)
  /\ \E a \in Addresses : Names(p, r, off, a) /\ ~Present(p, a) /\ cyclic[p]
  /\ hung' = [hung EXCEPT ![p] = TRUE]
  /\ UNCHANGED <<pc, regionVars, pageVars, ram, callVars>>

(* What process p would read at address a; an unmapped page reads as the   *)
(* zeros of a fresh frame.                                                 *)
Content(p, a) ==
  LET pte == pgd[p][PageOf(a)] IN
  IF pte.present /\ Fpn(pte) \in Frames THEN ram[Fpn(pte)][OffsetOf(a)] ELSE 0

-----------------------------------------------------------------------------
(* Instructions that call the system themselves, and those that do not     *)
(* touch the memory                                                        *)

(* SYSCALL 17, SYSMEM_INC_OP: inc_vma_limit() without mmvm_lock.           *)
MemmapCall(p, size) ==
  /\ Running(p)
  /\ call' = [call EXCEPT ![p] = MemmapOf(size)]
  /\ UNCHANGED <<pc, regionVars, pageVars, hung, ram, mmvm_lock, listVars>>

(* ... the vm area grows, and its new pages are free.  The break stays     *)
(* where it is.                                                            *)
MemmapGrow(p) ==
  LET area == AreaAtBrk(p, call[p].size) IN
  /\ call[p].op = "memmap" /\ GotAll(p)
  /\ inc_vma_limit(p, area)
  /\ freerg' = [freerg EXCEPT ![p] = <<area>> \o @]
  /\ Return(p)
  /\ UNCHANGED <<sbrk, symrg, addr, cyclic, hung, ram, ramHead, swpHead>>

(* ... or RAM has run out, as in an allocation.                            *)
MemmapFail(p) ==
  /\ call[p].op = "memmap" /\ GotTooFew(p)
  /\ Return(p)
  /\ UNCHANGED <<regionVars, pageVars, hung, ram, ramHead, swpHead>>

(* SYSCALL 17, SYSMEM_IO_WRITE: a byte of RAM, whoever has its frame.      *)
MemmapWrite(p, f, i, v) ==
  /\ Running(p) /\ Step(p)
  /\ ram' = [ram EXCEPT ![f][i] = v]
  /\ UNCHANGED <<regionVars, pageVars, hung, callVars>>

(* SYSCALL 101: a name is read up to its 0, which has to be there.  Nobody *)
(* is killed: nothing ever enters running_list.                            *)
KillAll(p, r) ==
  LET start == symrg[p][r].first.start IN
  /\ Running(p) /\ Step(p)
  /\ \E end \in start .. symrg[p][r].first.end - 1 :
       /\ \A a \in start .. end : pgd[p][PageOf(a)].present
       /\ Content(p, end) = 0
  /\ UNCHANGED <<regionVars, pageVars, hung, ram, callVars>>

(* CALC; the system calls without an effect: those the table does not      *)
(* have, listsyscall, and SYSCALL 17 for the other operations, of which    *)
(* SYSMEM_SWP_OP writes to SWAP and SYSMEM_IO_READ to the registers of the *)
(* call only.                                                              *)
NoEffect(p) ==
  /\ Running(p) /\ Step(p)
  /\ UNCHANGED <<regionVars, pageVars, hung, ram, callVars>>

-----------------------------------------------------------------------------
Instruction(p) ==
  \/ \E r \in Rgids, size \in Sizes : AllocFromFree(p, r, size) \/ AllocCall(p, r, size)
  \/ ReadHead(p) \/ TakeFrame(p) \/ AllocGrow(p) \/ AllocFail(p)
  \/ \E r \in Rgids : Free(p, r) \/ KillAll(p, r)
  \/ \E r \in Rgids, off \in Offsets :
       \/ Read(p, r, off) \/ Hang(p, r, off) \/ Fault(p, r, off, FALSE, 0)
       \/ \E v \in Values : Write(p, r, off, v) \/ Fault(p, r, off, TRUE, v)
  \/ TakeSwap(p) \/ NoSwap(p) \/ Access(p)
  \/ NoEffect(p)

(* What only programs do that call SYSCALL 17 themselves.  None of the     *)
(* repository does.                                                        *)
UserMemmap(p) ==
  \/ \E size \in Sizes : MemmapCall(p, size)
  \/ MemmapGrow(p) \/ MemmapFail(p)
  \/ \E f \in Frames, i \in 0 .. PageSz - 1, v \in Values : MemmapWrite(p, f, i, v)

Next == \E p \in Procs : Instruction(p)

Spec == Init /\ [][Next]_vars

UserNext == Next \/ \E p \in Procs : UserMemmap(p)

UserSpec == Init /\ [][UserNext]_vars

-----------------------------------------------------------------------------
(* Properties *)

(* The regions of a process: those of its variables and the free ones.     *)
Regions(sym) == {sym.first} \cup {sym.more[i] : i \in DOMAIN sym.more}
Cells(rg) == rg.start .. rg.end - 1
OwnedCells(p, r) == UNION {Cells(rg) : rg \in Regions(symrg[p][r])}

(* No byte belongs to two regions, be they of variables or free, and none  *)
(* lies beyond the vm area: neither splitting a free region nor unlinking  *)
(* one ever hands out a byte twice.                                        *)
Held(p) ==
  {<<"free", 0, i, freerg[p][i]>> : i \in DOMAIN freerg[p]}
    \cup {<<"first", r, 0, symrg[p][r].first>> : r \in Rgids}
    \cup UNION {{<<"more", r, i, symrg[p][r].more[i]>> :
                    i \in DOMAIN symrg[p][r].more} : r \in Rgids}

RegionsDisjoint ==
  \A p \in Procs :
    /\ \A h, k \in Held(p) : h # k => Cells(h[4]) \cap Cells(k[4]) = {}
    /\ \A h \in Held(p) : Cells(h[4]) \subseteq 0 .. vm_end[p] - 1

(* Nobody has had a page fault yet: the first one takes a SWAP frame.  It *)
(* also takes a frame from a page that stays present.                      *)
Unfaulted == swpHead = 0

(* The pages of the vm area are mapped, also after an allocation that ran  *)
(* out of frames, and those that have been swapped: an access to the area  *)
(* never faults.  Nothing but a fault maps any other page.                 *)
AreaMapped ==
  \A p \in Procs :
    /\ vm_end[p] % PageSz = 0
    /\ \A g \in Pages : g * PageSz < vm_end[p] => pgd[p][g].present
    /\ Unfaulted => \A g \in Pages : pgd[p][g].present => g * PageSz < vm_end[p]

(* Until the first fault, no frame is mapped by two pages, and none that   *)
(* is mapped is in the list or in the hands of a request.                  *)
Mapped == {m \in Procs \X Pages : pgd[m[1]][m[2]].present}
FrameOf(m) == Fpn(pgd[m[1]][m[2]])

FramesExclusive ==
  Unfaulted =>
    /\ \A m, n \in Mapped : FrameOf(m) = FrameOf(n) => m = n
    /\ \A m \in Mapped : FrameOf(m) < ramHead
    /\ \A m \in Mapped, p \in Procs : \A i \in DOMAIN frm_lst[p] :
         frm_lst[p][i] # FrameOf(m)

(* vmap_page_range() never writes beyond the page table, although nothing  *)
(* compares the area with it: RAM runs out before.                         *)
TableSuffices ==
  \A p \in Procs :
    Growing(p) /\ GotAll(p) => InTable(AreaAtBrk(p, call[p].size))

(* What the library promises: variables that share no cell, and cells that *)
(* only their process writes, up to the first page fault.                  *)
Space == INSTANCE AddressSpace WITH
           owned <- [p \in Procs |-> [r \in Rgids |-> OwnedCells(p, r)]],
           content <- [p \in Procs |-> [a \in Addresses |-> Content(p, a)]],
           intact <- Unfaulted

SpaceRefined == Space!SpaceSpec

(* liballoc() returns the address of the region it has allocated.          *)
AddrIsRegion ==
  \A p \in Procs : addr[p] # NoAddr =>
    \E r \in Rgids : \E rg \in Regions(symrg[p][r]) : rg.start = addr[p]

(* Every byte of the vm area belongs to a variable or is free: no region   *)
(* is forgotten.                                                           *)
NoRegionLeak ==
  \A p \in Procs : \A a \in 0 .. vm_end[p] - 1 : \E h \in Held(p) : a \in Cells(h[4])

(* Only a write changes what a process reads, and only at the address it   *)
(* names.                                                                  *)
ChangedByWrite(p, a) ==
  Present(p, a) /\ Content(p, a)' # Content(p, a) =>
    \E r \in Rgids, off \in Offsets, v \in Values :
      Write(p, r, off, v) /\ a = symrg[p][r].first.start + off


(* The same, up to the first page fault.                                   *)
KeptUntilFault ==
  [][Unfaulted' => \A p \in Procs, a \in Addresses : ChangedByWrite(p, a)]_vars

(* A page fault always finds its victim.                                   *)
NoHang == \A p \in Procs : ~hung[p]
=============================================================================
