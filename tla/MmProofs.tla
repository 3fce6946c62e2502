------------------------------- MODULE MmProofs -------------------------------
(***************************************************************************)
(* What holds of the memory library whatever programs do, calls of         *)
(* SYSCALL 17 included, for any processes, sizes, page size and numbers of *)
(* frames: every variable keeps its type, and the regions of a process     *)
(* never overlap.  Frames may well be granted twice: neither depends on    *)
(* it.                                                                     *)
(*                                                                         *)
(* The regions are kept inside the vm area by an argument about sequences; *)
(* the pages and the calls follow one another in the actions, and have     *)
(* their own parts of the invariant.                                       *)
(***************************************************************************)
EXTENDS Mm, SequenceTheorems, FiniteSetTheorems, TLAPS

RegionIn(n) == [start : Nat, end : 0 .. n]

SymIn(n) == [first : RegionIn(n), more : Seq(RegionIn(n))]

(* Every region ends inside the vm area.                                   *)
RegionsInside ==
  \A p \in Procs : /\ freerg[p] \in Seq(RegionIn(vm_end[p]))
                   /\ symrg[p] \in [Rgids -> SymIn(vm_end[p])]

(* No byte belongs to two of a free list F and the regions of S.           *)
Apart(a, b) ==
  a.start >= a.end \/ b.start >= b.end \/ a.end <= b.start \/ b.end <= a.start

OwnList(sym) == <<sym.first>> \o sym.more

FreeApart(F) == \A i, j \in DOMAIN F : i # j => Apart(F[i], F[j])

OwnApart(S) ==
  \A r, s \in Rgids : \A i \in DOMAIN OwnList(S[r]), j \in DOMAIN OwnList(S[s]) :
    r # s \/ i # j => Apart(OwnList(S[r])[i], OwnList(S[s])[j])

FreeOwnApart(F, S) ==
  \A i \in DOMAIN F, r \in Rgids : \A j \in DOMAIN OwnList(S[r]) :
    Apart(F[i], OwnList(S[r])[j])

Separate(F, S) == FreeApart(F) /\ OwnApart(S) /\ FreeOwnApart(F, S)

RegionsApart == \A p \in Procs : Separate(freerg[p], symrg[p])

(* The area is whole pages.                                                *)
AreaWhole == \A p \in Procs : \E n \in Nat : vm_end[p] = n * PageSz

RegionInv ==
  /\ vm_end \in [Procs -> Nat]
  /\ sbrk \in [Procs -> Nat]
  /\ freerg \in [Procs -> Seq([start : Nat, end : Nat])]
  /\ symrg \in [Procs -> [Rgids -> [first : [start : Nat, end : Nat],
                                    more : Seq([start : Nat, end : Nat])]]]
  /\ addr \in [Procs -> Int]
  /\ RegionsInside /\ RegionsApart /\ AreaWhole

PageInv ==
  /\ pgd \in [Procs -> [Pages -> Pte]]
  /\ fifo \in [Procs -> Seq(Pages)]
  /\ cyclic \in [Procs -> BOOLEAN]

(* A page fault has read the head of the list of SWAP frames.  If that was *)
(* not the first frame, the list has moved on for ever.                    *)
NodeIn(p) ==
  IF call[p].op = "fault" THEN node[p] \in 0 .. NumSwap /\ (node[p] # 0 => ~Unfaulted)
                          ELSE node[p] \in {NoNode} \cup 0 .. NumFrames

CallInv ==
  /\ ramHead \in 0 .. NumFrames
  /\ swpHead \in 0 .. NumSwap
  /\ mmvm_lock \in Procs \cup {Nobody}
  /\ call \in [Procs -> Calls]
  /\ node \in [Procs -> Int]
  /\ \A p \in Procs : NodeIn(p)
  /\ frm_lst \in [Procs -> Seq(Frames)]

RunInv ==
  /\ pc \in [Procs -> Nat]
  /\ hung \in [Procs -> BOOLEAN]
  /\ ram \in [Frames -> [0 .. PageSz - 1 -> Values]]

Inv == RegionInv /\ PageInv /\ CallInv /\ RunInv

-----------------------------------------------------------------------------
(* Arithmetic *)

LEMMA PageArithmetic ==
  ASSUME NEW n \in Nat
  PROVE  /\ (n * PageSz) \div PageSz = n
         /\ (n * PageSz) % PageSz = 0
         /\ n * PageSz \in Nat
<1>1. PageSz \in Nat \ {0}
  BY MmAssumption
<1>2. QED
  BY <1>1

LEMMA PageOrder ==
  ASSUME NEW m \in Nat, NEW n \in Nat
  PROVE  /\ m * PageSz < n * PageSz <=> m < n
         /\ (m + n) * PageSz = m * PageSz + n * PageSz
<1>1. PageSz \in Nat \ {0}
  BY MmAssumption
<1>2. QED
  BY <1>1

LEMMA PageOfAddress ==
  ASSUME NEW a \in Nat
  PROVE  PageOf(a) \in Nat /\ PageOf(a) * PageSz <= a /\ OffsetOf(a) \in 0 .. PageSz - 1
<1>1. PageSz \in Nat \ {0}
  BY MmAssumption
<1>2. QED
  BY <1>1 DEF PageOf, OffsetOf

LEMMA AddressesHavePages ==
  ASSUME NEW a \in Addresses
  PROVE  a \in Nat /\ PageOf(a) \in Pages
<1>1. PageSz \in Nat \ {0} /\ MaxPgn \in Nat
  BY MmAssumption
<1>2. MaxPgn * PageSz \in Nat
  BY <1>1
<1>3. a \in Nat /\ a < MaxPgn * PageSz
  BY <1>2 DEF Addresses
<1>4. PageOf(a) * PageSz < MaxPgn * PageSz
  <2>1. PageOf(a) * PageSz \in Nat /\ PageOf(a) * PageSz <= a
    BY <1>3, PageOfAddress, PageArithmetic
  <2>2. QED
    BY <1>2, <1>3, <2>1
<1>5. PageOf(a) < MaxPgn
  BY <1>1, <1>3, <1>4, PageOfAddress, PageOrder
<1>6. QED
  BY <1>1, <1>3, <1>5, PageOfAddress DEF Pages

(* The pages of an allocation hold it.                                     *)
LEMMA PagesEnough ==
  ASSUME NEW size \in Sizes
  PROVE  /\ size \in Nat \ {0}
         /\ PagesFor(size) \in Nat
         /\ size <= PagesFor(size) * PageSz
<1>1. PageSz \in Nat \ {0} /\ size \in Nat \ {0}
  BY MmAssumption
<1>2. ASSUME NEW a \in Nat, NEW q \in Nat, a \div PageSz = q
      PROVE  a < (q + 1) * PageSz
  BY <1>1, <1>2, SMTT(30)
<1>3. size + PageSz - 1 \in Nat /\ PagesFor(size) \in Nat
  BY <1>1 DEF PagesFor
<1>4. size + PageSz - 1 < (PagesFor(size) + 1) * PageSz
  BY <1>2, <1>3 DEF PagesFor
<1>5. (PagesFor(size) + 1) * PageSz = PagesFor(size) * PageSz + PageSz
  BY <1>1, <1>3
<1>6. PagesFor(size) * PageSz \in Nat
  BY <1>3, PageArithmetic
<1>7. QED
  BY <1>1, <1>3, <1>4, <1>5, <1>6

LEMMA PteTypes ==
  ASSUME NEW pte \in Pte, NEW f \in Nat, NEW off \in Nat
  PROVE  /\ pte_set_fpn(pte, f) \in Pte /\ pte_set_fpn(pte, f).present
         /\ Fpn(pte) \in Nat
         /\ pte_set_swap(pte, off) \in Pte /\ pte_set_swap(pte, off).present
<1>1. FpnRange \in Nat \ {0} /\ SwpUnit \in Nat \ {0} /\ pte.low \in Nat
  BY MmAssumption DEF Pte
<1>2. /\ pte.low % FpnRange \in Nat /\ pte.low % FpnRange <= pte.low
      /\ f % FpnRange \in Nat
  <2>1. ASSUME NEW x \in Nat
        PROVE  x % FpnRange \in Nat /\ x % FpnRange <= x
    <3>1. /\ x = FpnRange * (x \div FpnRange) + (x % FpnRange)
          /\ x % FpnRange \in Nat /\ x \div FpnRange \in Nat
      BY <1>1
    <3>2. FpnRange * (x \div FpnRange) \in Nat
      BY <1>1, <3>1
    <3>3. QED
      BY <3>1, <3>2
  <2>2. QED
    BY <1>1, <2>1
<1>3. pte.low - (pte.low % FpnRange) + (f % FpnRange) \in Nat
  BY <1>1, <1>2
<1>4. off * SwpUnit \in Nat
  BY <1>1
<1>5. QED
  BY <1>2, <1>3, <1>4 DEF pte_set_fpn, pte_set_swap, Pte, Fpn


-----------------------------------------------------------------------------
(* Regions *)

LEMMA OwnListType ==
  ASSUME NEW n \in Nat, NEW sym \in SymIn(n)
  PROVE  /\ OwnList(sym) \in Seq(RegionIn(n))
         /\ Len(sym.more) \in Nat
         /\ DOMAIN OwnList(sym) = 1 .. Len(sym.more) + 1
         /\ 1 \in DOMAIN OwnList(sym) /\ DOMAIN OwnList(sym) \subseteq Nat
         /\ OwnList(sym)[1] = sym.first
         /\ \A i \in 1 .. Len(sym.more) : OwnList(sym)[i + 1] = sym.more[i]
<1>1. sym.first \in RegionIn(n) /\ sym.more \in Seq(RegionIn(n))
  BY DEF SymIn
<1>2. QED
  BY <1>1 DEF OwnList

LEMMA SeqWiden ==
  ASSUME NEW U, NEW V, U \subseteq V
  PROVE  Seq(U) \subseteq Seq(V)
<1>1. ASSUME NEW s \in Seq(U)
      PROVE  s \in Seq(V)
  <2>1. Len(s) \in Nat /\ s = [i \in 1 .. Len(s) |-> s[i]]
    OBVIOUS
  <2>2. \A i \in 1 .. Len(s) : s[i] \in V
    OBVIOUS
  <2>3. QED
    BY <2>1, <2>2
<1>2. QED
  BY <1>1

LEMMA RegionsWiden ==
  ASSUME NEW n \in Nat, NEW m \in Nat, n <= m
  PROVE  /\ RegionIn(n) \subseteq RegionIn(m)
         /\ Seq(RegionIn(n)) \subseteq Seq(RegionIn(m))
         /\ SymIn(n) \subseteq SymIn(m)
<1>1. RegionIn(n) \subseteq RegionIn(m)
  BY DEF RegionIn
<1>2. Seq(RegionIn(n)) \subseteq Seq(RegionIn(m))
  BY <1>1, SeqWiden
<1>3. QED
  BY <1>1, <1>2 DEF SymIn

LEMMA ReverseType ==
  ASSUME NEW U, NEW s \in Seq(U)
  PROVE  /\ Reverse(s) \in Seq(U) /\ Len(Reverse(s)) = Len(s)
         /\ \A i \in 1 .. Len(s) : Reverse(s)[i] = s[Len(s) - i + 1]
<1>1. \A i \in 1 .. Len(s) : Len(s) - i + 1 \in 1 .. Len(s)
  OBVIOUS
<1>2. \A i \in 1 .. Len(s) : s[Len(s) - i + 1] \in U
  BY <1>1
<1>3. QED
  BY <1>2 DEF Reverse

(* What get_free_vmrg_area() leaves of the list F in G: what comes after   *)
(* the first up regions, of which the one that was at i has become rest.   *)
Rests(G, F, i, up, rest) ==
  \A j \in DOMAIN G :
    /\ j + up \in DOMAIN F
    /\ \/ j + up # i /\ G[j] = F[j + up]
       \/ j + up = i /\ G[j] = rest

LEMMA TakeFromList ==
  ASSUME NEW n \in Nat, NEW F \in Seq(RegionIn(n)), NEW i \in DOMAIN F,
         NEW size \in Nat, Fits(F[i], size)
  PROVE  /\ TakeFrom(F, i, size) \in Seq(RegionIn(n))
         /\ Region(F[i].start, F[i].start + size) \in RegionIn(n)
         /\ \E up \in {0, i} : Rests(TakeFrom(F, i, size), F, i, up,
                                    Region(F[i].start + size, F[i].end))
<1>a. F[i] \in RegionIn(n) /\ i \in Nat
  OBVIOUS
<1>1. /\ F[i] \in RegionIn(n) /\ i \in Nat
      /\ F[i].start \in Nat /\ F[i].end \in Nat /\ F[i].end <= n
  BY <1>a DEF RegionIn
<1>2. Region(F[i].start, F[i].start + size) \in RegionIn(n)
  BY <1>1 DEF Region, RegionIn, Fits
<1>3. CASE F[i].end - F[i].start = size
  <2>1. TakeFrom(F, i, size) = SubSeq(F, i + 1, Len(F))
    BY <1>3 DEF TakeFrom
  <2>2. SubSeq(F, i + 1, Len(F)) \in Seq(RegionIn(n))
    BY <1>1
  <2>3. /\ DOMAIN SubSeq(F, i + 1, Len(F)) = 1 .. Len(F) - i
        /\ \A j \in 1 .. Len(F) - i : SubSeq(F, i + 1, Len(F))[j] = F[j + i]
    BY <1>1
  <2>4. \A j \in 1 .. Len(F) - i : j + i \in DOMAIN F /\ j + i # i
    BY <1>1
  <2>5. Rests(TakeFrom(F, i, size), F, i, i, Region(F[i].start + size, F[i].end))
    BY <2>1, <2>3, <2>4 DEF Rests
  <2>6. QED
    BY <1>2, <2>1, <2>2, <2>5
<1>4. CASE F[i].end - F[i].start # size
  <2>1. TakeFrom(F, i, size) = [F EXCEPT ![i].start = @ + size]
    BY <1>4 DEF TakeFrom
  <2>2. [F[i] EXCEPT !.start = @ + size] = Region(F[i].start + size, F[i].end)
    BY <1>1 DEF Region, RegionIn
  <2>3. Region(F[i].start + size, F[i].end) \in RegionIn(n)
    BY <1>1 DEF Region, RegionIn
  <2>4. TakeFrom(F, i, size) = [F EXCEPT ![i] = Region(F[i].start + size, F[i].end)]
    BY <2>1, <2>2
  <2>5. TakeFrom(F, i, size) \in Seq(RegionIn(n))
    BY <2>3, <2>4
  <2>6. /\ DOMAIN TakeFrom(F, i, size) = DOMAIN F
        /\ TakeFrom(F, i, size)[i] = Region(F[i].start + size, F[i].end)
        /\ \A j \in DOMAIN F : j # i => TakeFrom(F, i, size)[j] = F[j]
    BY <2>4
  <2>7. \A j \in DOMAIN F : j + 0 = j
    OBVIOUS
  <2>8. Rests(TakeFrom(F, i, size), F, i, 0, Region(F[i].start + size, F[i].end))
    BY <2>6, <2>7 DEF Rests
  <2>9. QED
    BY <1>2, <2>5, <2>8
<1>5. QED
  BY <1>3, <1>4

LEMMA ApartWithin ==
  ASSUME NEW n \in Nat, NEW a \in RegionIn(n), NEW b \in RegionIn(n),
         NEW c \in RegionIn(n), c.start >= a.start, c.end <= a.end, Apart(a, b)
  PROVE  Apart(c, b) /\ Apart(b, c)
BY DEF Apart, RegionIn

LEMMA ApartSymmetric ==
  ASSUME NEW n \in Nat, NEW a \in RegionIn(n), NEW b \in RegionIn(n), Apart(a, b)
  PROVE  Apart(b, a)
BY DEF Apart, RegionIn

(* Where __alloc() puts the region: own, the list of its variable, gets it *)
(* at the place new, and becomes now.                                      *)
Tracked(now, own, rg, new) ==
  \A j \in DOMAIN now :
    \/ j = new /\ now[j] = rg
    \/ j # new /\ j = 1 /\ now[j] = own[1]
    \/ j > 2 /\ j - 1 \in DOMAIN own /\ now[j] = own[j - 1]

LEMMA TrackList ==
  ASSUME NEW n \in Nat, NEW sym \in SymIn(n), NEW rg \in RegionIn(n)
  PROVE  /\ Track(sym, rg) \in SymIn(n)
         /\ \E new \in {1, 2} :
              Tracked(OwnList(Track(sym, rg)), OwnList(sym), rg, new)
<1>1. /\ sym.first \in RegionIn(n) /\ sym.more \in Seq(RegionIn(n))
      /\ sym = [first |-> sym.first, more |-> sym.more]
  BY DEF SymIn
<1>2. CASE sym.first.start = 0
  <2>1. Track(sym, rg) = [first |-> rg, more |-> << >>]
    BY <1>2 DEF Track
  <2>2. [first |-> rg, more |-> << >>] \in SymIn(n)
    BY DEF SymIn
  <2>3. OwnList([first |-> rg, more |-> << >>]) = <<rg>>
    BY DEF OwnList
  <2>4. Tracked(<<rg>>, OwnList(sym), rg, 1)
    BY DEF Tracked
  <2>5. QED
    BY <2>1, <2>2, <2>3, <2>4
<1>3. CASE sym.first.start # 0
  <2>1. Track(sym, rg) = [first |-> sym.first, more |-> <<rg>> \o sym.more]
    BY <1>1, <1>3 DEF Track
  <2> DEFINE new == [first |-> sym.first, more |-> <<rg>> \o sym.more]
  <2>2. <<rg>> \o sym.more \in Seq(RegionIn(n)) /\ new \in SymIn(n)
    BY <1>1 DEF SymIn
  <2>3. /\ DOMAIN OwnList(new) = 1 .. Len(<<rg>> \o sym.more) + 1
        /\ OwnList(new)[1] = sym.first
        /\ \A i \in 1 .. Len(<<rg>> \o sym.more) :
             OwnList(new)[i + 1] = (<<rg>> \o sym.more)[i]
    BY <2>2, OwnListType
  <2>4. /\ Len(<<rg>> \o sym.more) = Len(sym.more) + 1 /\ Len(sym.more) \in Nat
        /\ (<<rg>> \o sym.more)[1] = rg
        /\ \A i \in 1 .. Len(sym.more) : (<<rg>> \o sym.more)[i + 1] = sym.more[i]
    BY <1>1
  <2>5. /\ DOMAIN OwnList(sym) = 1 .. Len(sym.more) + 1
        /\ OwnList(sym)[1] = sym.first
        /\ \A i \in 1 .. Len(sym.more) : OwnList(sym)[i + 1] = sym.more[i]
    BY OwnListType
  <2>6. ASSUME NEW j \in DOMAIN OwnList(new), j > 2
        PROVE  /\ j - 1 \in DOMAIN OwnList(sym)
               /\ OwnList(new)[j] = OwnList(sym)[j - 1]
    <3>j. j \in Nat /\ j <= Len(sym.more) + 2
      BY <2>3, <2>4
    <3>1. /\ j - 1 \in 1 .. Len(<<rg>> \o sym.more) /\ (j - 1) + 1 = j
          /\ j - 2 \in 1 .. Len(sym.more) /\ (j - 2) + 1 = j - 1
      BY <3>j, <2>4, <2>6
    <3>2. OwnList(new)[j] = (<<rg>> \o sym.more)[j - 1]
      BY <2>3, <3>1
    <3>3. (<<rg>> \o sym.more)[j - 1] = sym.more[j - 2]
      BY <2>4, <3>1
    <3>4. OwnList(sym)[j - 1] = sym.more[j - 2]
      BY <2>5, <3>1
    <3>5. j - 1 \in DOMAIN OwnList(sym)
      BY <2>4, <2>5, <3>1
    <3>6. QED
      BY <3>2, <3>3, <3>4, <3>5
  <2>7. OwnList(new)[2] = rg
    <3>1. 1 \in 1 .. Len(<<rg>> \o sym.more) /\ 1 + 1 = 2
      BY <2>4
    <3>2. QED
      BY <2>3, <2>4, <3>1
  <2>8. \A j \in DOMAIN OwnList(new) : j = 1 \/ j = 2 \/ j > 2
    BY <2>3, <2>4
  <2>9. Tracked(OwnList(new), OwnList(sym), rg, 2)
    BY <2>3, <2>5, <2>6, <2>7, <2>8 DEF Tracked
  <2>10. QED
    BY <2>1, <2>2, <2>9
<1>4. QED
  BY <1>2, <1>3

(* An allocation from a free region keeps all regions apart.               *)
LEMMA TakeSeparate ==
  ASSUME NEW n \in Nat, NEW F \in Seq(RegionIn(n)),
         NEW S \in [Rgids -> SymIn(n)], Separate(F, S),
         NEW i \in DOMAIN F, NEW r \in Rgids, NEW size \in Nat, Fits(F[i], size)
  PROVE  LET T == [S EXCEPT ![r] =
                     Track(@, Region(F[i].start, F[i].start + size))]
         IN  /\ T \in [Rgids -> SymIn(n)]
             /\ Separate(TakeFrom(F, i, size), T)
<1> DEFINE rg == Region(F[i].start, F[i].start + size)
           rest == Region(F[i].start + size, F[i].end)
           G == TakeFrom(F, i, size)
           T == [S EXCEPT ![r] = Track(@, rg)]
<1>1. G \in Seq(RegionIn(n)) /\ rg \in RegionIn(n)
  BY TakeFromList
<1>2. PICK up \in {0, i} : Rests(G, F, i, up, rest)
  BY TakeFromList
<1>3. /\ S[r] \in SymIn(n)
      /\ T[r] = Track(S[r], rg)
      /\ \A s \in Rgids : s # r => T[s] = S[s]
  OBVIOUS
<1>4. T \in [Rgids -> SymIn(n)]
  BY <1>1, <1>3, TrackList
<1>5. PICK new \in {1, 2} : Tracked(OwnList(T[r]), OwnList(S[r]), rg, new)
  BY <1>1, <1>3, TrackList
<1>6. /\ F[i] \in RegionIn(n) /\ i \in Nat /\ up \in Nat
      /\ DOMAIN G \subseteq Nat /\ DOMAIN F \subseteq Nat
  BY <1>1
<1>7. /\ F[i].start \in Nat /\ F[i].end \in Nat /\ F[i].end <= n
      /\ F[i].end - F[i].start >= size
  BY <1>6 DEF RegionIn, Fits
<1>8. /\ rest \in RegionIn(n)
      /\ rg.start = F[i].start /\ rg.end <= F[i].end
      /\ rest.start >= F[i].start /\ rest.end = F[i].end
      /\ Apart(rest, rg)
  <2>1. /\ rg.start = F[i].start /\ rg.end = F[i].start + size
        /\ rest.start = F[i].start + size /\ rest.end = F[i].end
    BY DEF Region
  <2>2. rest \in RegionIn(n)
    BY <1>7 DEF Region, RegionIn
  <2>3. rg.end <= F[i].end /\ rest.start >= F[i].start /\ rg.end = rest.start
    BY <1>7, <2>1
  <2>4. Apart(rest, rg)
    BY <1>7, <2>1, <2>3 DEF Apart
  <2>5. QED
    BY <2>1, <2>2, <2>3, <2>4
<1>9. ASSUME NEW s \in Rgids
      PROVE  /\ OwnList(S[s]) \in Seq(RegionIn(n))
             /\ 1 \in DOMAIN OwnList(S[s]) /\ DOMAIN OwnList(S[s]) \subseteq Nat
             /\ OwnList(T[s]) \in Seq(RegionIn(n))
             /\ DOMAIN OwnList(T[s]) \subseteq Nat
  <2>1. S[s] \in SymIn(n) /\ T[s] \in SymIn(n)
    BY <1>4
  <2>2. QED
    BY <2>1, OwnListType
<1> HIDE DEF rg, rest, G, T
<1>a. ASSUME NEW b \in RegionIn(n), Apart(F[i], b)
      PROVE  /\ Apart(rg, b) /\ Apart(b, rg)
             /\ Apart(rest, b) /\ Apart(b, rest)
  <2>1. rg.start >= F[i].start /\ rg.end <= F[i].end
    BY <1>7, <1>8
  <2>2. rest.start >= F[i].start /\ rest.end <= F[i].end
    BY <1>7, <1>8
  <2>3. Apart(rg, b) /\ Apart(b, rg)
    BY <1>1, <1>6, <1>a, <2>1, ApartWithin
  <2>4. Apart(rest, b) /\ Apart(b, rest)
    BY <1>6, <1>8, <1>a, <2>2, ApartWithin
  <2>5. QED
    BY <2>3, <2>4
(* A region of a variable is the new one, or an old one at another place.  *)
<1> DEFINE Old(s, j, k) == /\ k \in DOMAIN OwnList(S[s])
                           /\ OwnList(T[s])[j] = OwnList(S[s])[k]
           At(s, j) == IF s # r \/ j = 1 THEN j ELSE j - 1
<1>10. ASSUME NEW s \in Rgids, NEW j \in DOMAIN OwnList(T[s])
       PROVE  \/ s = r /\ j = new /\ OwnList(T[s])[j] = rg
              \/ ~(s = r /\ j = new) /\ Old(s, j, At(s, j))
  <2>1. CASE s # r
    BY <1>3, <2>1
  <2>2. CASE s = r
    BY <1>5, <1>9, <2>2 DEF Tracked
  <2>3. QED
    BY <2>1, <2>2
<1>11. ASSUME NEW s \in Rgids, NEW j \in DOMAIN OwnList(T[s]),
              NEW k \in DOMAIN OwnList(T[s]), j # k,
              ~(s = r /\ j = new), ~(s = r /\ k = new)
       PROVE  At(s, j) # At(s, k)
  <2>1. j \in Nat /\ k \in Nat
    BY <1>9
  <2>2. CASE s # r
    BY <1>11, <2>2
  <2>3. CASE s = r
    <3>1. (j = 1 \/ j > 2) /\ (k = 1 \/ k > 2)
      BY <1>5, <1>11, <2>1, <2>3 DEF Tracked
    <3>2. QED
      BY <1>11, <2>1, <3>1
  <2>4. QED
    BY <2>2, <2>3
<1> HIDE DEF At
<1>12. FreeApart(G)
  <2>1. SUFFICES ASSUME NEW j \in DOMAIN G, NEW k \in DOMAIN G, j # k
                 PROVE  Apart(G[j], G[k])
    BY DEF FreeApart
  <2>2. /\ j + up \in DOMAIN F /\ k + up \in DOMAIN F /\ j + up # k + up
        /\ Apart(F[j + up], F[k + up])
        /\ F[j + up] \in RegionIn(n) /\ F[k + up] \in RegionIn(n)
    BY <1>2, <1>6, <2>1 DEF Rests, Separate, FreeApart
  <2>3. \/ G[j] = F[j + up] /\ G[k] = F[k + up]
        \/ G[j] = rest /\ F[j + up] = F[i] /\ G[k] = F[k + up]
        \/ G[k] = rest /\ F[k + up] = F[i] /\ G[j] = F[j + up]
    BY <1>2, <2>2 DEF Rests
  <2>4. CASE G[j] = rest /\ F[j + up] = F[i] /\ G[k] = F[k + up]
    BY <1>a, <2>2, <2>4
  <2>5. CASE G[k] = rest /\ F[k + up] = F[i] /\ G[j] = F[j + up]
    <3>1. Apart(F[i], G[j])
      BY <2>2, <2>5, ApartSymmetric
    <3>2. QED
      BY <1>a, <2>2, <2>5, <3>1
  <2>6. QED
    BY <2>2, <2>3, <2>4, <2>5
<1>13. OwnApart(T)
  <2>1. SUFFICES ASSUME NEW s \in Rgids, NEW t \in Rgids,
                        NEW j \in DOMAIN OwnList(T[s]),
                        NEW k \in DOMAIN OwnList(T[t]), s # t \/ j # k
                 PROVE  Apart(OwnList(T[s])[j], OwnList(T[t])[k])
    BY DEF OwnApart
  <2>2. ASSUME NEW u \in Rgids, NEW h \in DOMAIN OwnList(S[u])
        PROVE  /\ Apart(rg, OwnList(S[u])[h])
               /\ Apart(OwnList(S[u])[h], rg)
    <3>1. Apart(F[i], OwnList(S[u])[h])
      BY DEF Separate, FreeOwnApart
    <3>2. OwnList(S[u])[h] \in RegionIn(n)
      BY <1>9
    <3>3. QED
      BY <1>a, <3>1, <3>2
  <2>3. CASE s = r /\ j = new
    <3>1. OwnList(T[s])[j] = rg /\ ~(t = r /\ k = new)
      BY <1>10, <2>1, <2>3
    <3>2. Old(t, k, At(t, k))
      BY <1>10, <3>1
    <3>3. QED
      BY <2>2, <3>1, <3>2
  <2>4. CASE t = r /\ k = new
    <3>1. OwnList(T[t])[k] = rg /\ ~(s = r /\ j = new)
      BY <1>10, <2>1, <2>4
    <3>2. Old(s, j, At(s, j))
      BY <1>10, <3>1
    <3>3. QED
      BY <2>2, <3>1, <3>2
  <2>5. CASE ~(s = r /\ j = new) /\ ~(t = r /\ k = new)
    <3>1. Old(s, j, At(s, j)) /\ Old(t, k, At(t, k))
      BY <1>10, <2>5
    <3>2. s # t \/ At(s, j) # At(t, k)
      BY <1>11, <2>1, <2>5
    <3>3. Apart(OwnList(S[s])[At(s, j)], OwnList(S[t])[At(t, k)])
      BY <3>1, <3>2 DEF Separate, OwnApart
    <3>4. QED
      BY <3>1, <3>3
  <2>6. QED
    BY <2>3, <2>4, <2>5
<1>14. FreeOwnApart(G, T)
  <2>1. SUFFICES ASSUME NEW j \in DOMAIN G, NEW s \in Rgids,
                        NEW k \in DOMAIN OwnList(T[s])
                 PROVE  Apart(G[j], OwnList(T[s])[k])
    BY DEF FreeOwnApart
  <2>2. /\ j + up \in DOMAIN F /\ F[j + up] \in RegionIn(n)
        /\ G[j] \in RegionIn(n)
    BY <1>1, <1>2 DEF Rests
  <2>3. CASE s = r /\ k = new
    <3>1. OwnList(T[s])[k] = rg
      BY <1>10, <2>3
    <3>2. CASE j + up = i
      BY <1>2, <1>8, <3>1, <3>2 DEF Rests
    <3>3. CASE j + up # i
      <4>1. G[j] = F[j + up] /\ Apart(F[i], F[j + up])
        BY <1>2, <2>2, <3>3 DEF Rests, Separate, FreeApart
      <4>2. Apart(F[j + up], rg)
        BY <1>a, <2>2, <4>1
      <4>3. QED
        BY <3>1, <4>1, <4>2
    <3>4. QED
      BY <3>2, <3>3
  <2>4. CASE ~(s = r /\ k = new)
    <3>1. Old(s, k, At(s, k))
      BY <1>10, <2>4
    <3>2. /\ Apart(F[j + up], OwnList(S[s])[At(s, k)])
          /\ OwnList(S[s])[At(s, k)] \in RegionIn(n)
      BY <1>9, <2>2, <3>1 DEF Separate, FreeOwnApart
    <3>3. G[j] = F[j + up] \/ (G[j] = rest /\ F[j + up] = F[i])
      BY <1>2 DEF Rests
    <3>4. Apart(G[j], OwnList(S[s])[At(s, k)])
      BY <1>a, <2>2, <3>2, <3>3
    <3>5. QED
      BY <3>1, <3>4
  <2>5. QED
    BY <2>3, <2>4
<1>15. Separate(G, T)
  BY <1>12, <1>13, <1>14 DEF Separate
<1>16. QED
  BY <1>4, <1>15 DEF rg, G, T

(* New pages at the end of the area are apart from all regions.            *)
LEMMA AddSeparate ==
  ASSUME NEW n \in Nat, NEW m \in Nat, n <= m, NEW F \in Seq(RegionIn(n)),
         NEW S \in [Rgids -> SymIn(n)], Separate(F, S)
  PROVE  /\ <<Region(n, m)>> \o F \in Seq(RegionIn(m))
         /\ S \in [Rgids -> SymIn(m)]
         /\ Separate(<<Region(n, m)>> \o F, S)
<1> DEFINE G == <<Region(n, m)>> \o F
<1>1. Region(n, m) \in RegionIn(m)
  BY DEF Region, RegionIn
<1>f. F \in Seq(RegionIn(m)) /\ S \in [Rgids -> SymIn(m)]
  BY RegionsWiden
<1>2. G \in Seq(RegionIn(m))
  BY <1>1, <1>f
<1>3. /\ DOMAIN G = 1 .. Len(F) + 1 /\ G[1] = Region(n, m) /\ Len(F) \in Nat
      /\ \A i \in 1 .. Len(F) : G[i + 1] = F[i]
  BY <1>1, <1>f
<1> HIDE DEF G
<1>4. \A j \in DOMAIN G : \/ j = 1 /\ G[j] = Region(n, m)
                          \/ j # 1 /\ j - 1 \in DOMAIN F /\ G[j] = F[j - 1]
  <2>1. ASSUME NEW j \in 1 .. Len(F) + 1, j # 1
        PROVE  j - 1 \in 1 .. Len(F) /\ (j - 1) + 1 = j
    BY <1>3, <2>1
  <2>2. \A j \in 1 .. Len(F) + 1 : j # 1 => G[j] = F[j - 1]
    BY <1>3, <2>1
  <2>3. QED
    BY <1>3, <2>1, <2>2
<1>5. ASSUME NEW a \in RegionIn(n)
      PROVE  Apart(Region(n, m), a) /\ Apart(a, Region(n, m))
  BY DEF Region, RegionIn, Apart
<1>6. \A i \in DOMAIN F : F[i] \in RegionIn(n)
  OBVIOUS
<1>7. FreeApart(G)
  <2>1. SUFFICES ASSUME NEW i \in DOMAIN G, NEW j \in DOMAIN G, i # j
                 PROVE  Apart(G[i], G[j])
    BY DEF FreeApart
  <2>2. CASE i = 1
    BY <1>4, <1>5, <1>6, <2>1, <2>2
  <2>3. CASE j = 1
    BY <1>4, <1>5, <1>6, <2>1, <2>3
  <2>4. CASE i # 1 /\ j # 1
    <3>1. i - 1 # j - 1
      BY <1>3, <2>1
    <3>2. QED
      BY <1>4, <2>4, <3>1 DEF Separate, FreeApart
  <2>5. QED
    BY <2>2, <2>3, <2>4
<1>8. FreeOwnApart(G, S)
  <2>1. SUFFICES ASSUME NEW i \in DOMAIN G, NEW r \in Rgids,
                        NEW j \in DOMAIN OwnList(S[r])
                 PROVE  Apart(G[i], OwnList(S[r])[j])
    BY DEF FreeOwnApart
  <2>2. OwnList(S[r])[j] \in RegionIn(n)
    BY OwnListType
  <2>3. CASE i = 1
    BY <1>4, <1>5, <2>2, <2>3
  <2>4. CASE i # 1
    BY <1>4, <2>4 DEF Separate, FreeOwnApart
  <2>5. QED
    BY <2>3, <2>4
<1>9. QED
  BY <1>2, <1>f, <1>7, <1>8 DEF G, Separate

(* What libfree() puts in front of the free list.                          *)
Freed(sym) ==
  Reverse((IF sym.first.start < sym.first.end THEN <<sym.first>> ELSE << >>)
            \o sym.more)

LEMMA FreedList ==
  ASSUME NEW n \in Nat, NEW sym \in SymIn(n)
  PROVE  /\ Freed(sym) \in Seq(RegionIn(n))
         /\ \E top \in Nat : \A j \in DOMAIN Freed(sym) :
              /\ top - j \in DOMAIN OwnList(sym)
              /\ Freed(sym)[j] = OwnList(sym)[top - j]
<1>1. sym.first \in RegionIn(n) /\ sym.more \in Seq(RegionIn(n))
  BY DEF SymIn
<1>2. /\ OwnList(sym) \in Seq(RegionIn(n)) /\ Len(sym.more) \in Nat
      /\ DOMAIN OwnList(sym) = 1 .. Len(sym.more) + 1
      /\ \A i \in 1 .. Len(sym.more) : OwnList(sym)[i + 1] = sym.more[i]
  BY OwnListType
<1>3. CASE sym.first.start < sym.first.end
  <2>1. Freed(sym) = Reverse(OwnList(sym))
    BY <1>3 DEF Freed, OwnList
  <2>2. Len(OwnList(sym)) = Len(sym.more) + 1
    BY <1>2
  <2>3. /\ Freed(sym) \in Seq(RegionIn(n))
        /\ DOMAIN Freed(sym) = 1 .. Len(sym.more) + 1
        /\ \A j \in 1 .. Len(sym.more) + 1 :
             Freed(sym)[j] = OwnList(sym)[Len(sym.more) + 1 - j + 1]
    <3>1. /\ Reverse(OwnList(sym)) \in Seq(RegionIn(n))
          /\ Len(Reverse(OwnList(sym))) = Len(OwnList(sym))
          /\ \A j \in 1 .. Len(OwnList(sym)) :
               Reverse(OwnList(sym))[j] = OwnList(sym)[Len(OwnList(sym)) - j + 1]
      BY <1>2, ReverseType
    <3>2. QED
      BY <2>1, <2>2, <3>1
  <2>4. \A j \in 1 .. Len(sym.more) + 1 :
          /\ (Len(sym.more) + 2) - j \in DOMAIN OwnList(sym)
          /\ (Len(sym.more) + 2) - j = Len(sym.more) + 1 - j + 1
    BY <1>2
  <2>5. Len(sym.more) + 2 \in Nat
    BY <1>2
  <2>6. QED
    BY <2>3, <2>4, <2>5
<1>4. CASE ~(sym.first.start < sym.first.end)
  <2>1. Freed(sym) = Reverse(sym.more)
    BY <1>1, <1>4 DEF Freed
  <2>2. /\ Freed(sym) \in Seq(RegionIn(n))
        /\ DOMAIN Freed(sym) = 1 .. Len(sym.more)
        /\ \A j \in 1 .. Len(sym.more) :
             Freed(sym)[j] = sym.more[Len(sym.more) - j + 1]
    BY <1>1, <2>1, ReverseType
  <2>3. \A j \in 1 .. Len(sym.more) :
          /\ (Len(sym.more) + 2) - j \in DOMAIN OwnList(sym)
          /\ Len(sym.more) - j + 1 \in 1 .. Len(sym.more)
          /\ (Len(sym.more) + 2) - j = (Len(sym.more) - j + 1) + 1
    BY <1>2
  <2>4. \A j \in 1 .. Len(sym.more) :
          OwnList(sym)[(Len(sym.more) + 2) - j] = sym.more[Len(sym.more) - j + 1]
    BY <1>2, <2>3
  <2>5. Len(sym.more) + 2 \in Nat
    BY <1>2
  <2>6. \A j \in DOMAIN Freed(sym) :
          /\ (Len(sym.more) + 2) - j \in DOMAIN OwnList(sym)
          /\ Freed(sym)[j] = OwnList(sym)[(Len(sym.more) + 2) - j]
    BY <2>2, <2>3, <2>4
  <2>7. QED
    BY <2>2, <2>5, <2>6
<1>5. QED
  BY <1>3, <1>4

(* Freeing a variable keeps all regions apart.                             *)
LEMMA FreeSeparate ==
  ASSUME NEW n \in Nat, NEW F \in Seq(RegionIn(n)),
         NEW S \in [Rgids -> SymIn(n)], Separate(F, S), NEW r \in Rgids
  PROVE  LET T == [S EXCEPT ![r] = [first |-> NoRegion, more |-> << >>]]
         IN  /\ Freed(S[r]) \o F \in Seq(RegionIn(n))
             /\ T \in [Rgids -> SymIn(n)]
             /\ Separate(Freed(S[r]) \o F, T)
<1> DEFINE none == [first |-> NoRegion, more |-> << >>]
           T == [S EXCEPT ![r] = none]
           D == Freed(S[r])
           G == D \o F
<1>1. S[r] \in SymIn(n)
  OBVIOUS
<1>2. D \in Seq(RegionIn(n))
  BY <1>1, FreedList
<1>3. PICK top \in Nat : \A j \in DOMAIN D :
        top - j \in DOMAIN OwnList(S[r]) /\ D[j] = OwnList(S[r])[top - j]
  BY <1>1, FreedList
<1>4. NoRegion \in RegionIn(n) /\ \A a \in RegionIn(n) :
        Apart(NoRegion, a) /\ Apart(a, NoRegion)
  BY DEF NoRegion, Region, RegionIn, Apart
<1>5. none \in SymIn(n) /\ OwnList(none) = <<NoRegion>>
  BY <1>4 DEF SymIn, OwnList
<1>6. /\ T \in [Rgids -> SymIn(n)] /\ T[r] = none
      /\ \A s \in Rgids : s # r => T[s] = S[s]
  BY <1>5
<1> HIDE DEF D
<1>7. /\ G \in Seq(RegionIn(n))
      /\ Len(D) \in Nat /\ Len(F) \in Nat
      /\ DOMAIN G = 1 .. Len(D) + Len(F)
      /\ \A i \in 1 .. Len(D) : G[i] = D[i]
      /\ \A i \in 1 .. Len(F) : G[Len(D) + i] = F[i]
  BY <1>2
<1> HIDE DEF G, T, none
<1>8. ASSUME NEW j \in DOMAIN G
      PROVE  \/ j \in DOMAIN D /\ G[j] = D[j]
             \/ /\ j \notin DOMAIN D /\ j - Len(D) \in DOMAIN F
                /\ G[j] = F[j - Len(D)]
  <2>1. CASE j <= Len(D)
    BY <1>2, <1>7, <2>1
  <2>2. CASE j > Len(D)
    <3>1. /\ j \notin 1 .. Len(D) /\ j - Len(D) \in 1 .. Len(F)
          /\ Len(D) + (j - Len(D)) = j
      BY <1>7, <2>2
    <3>2. QED
      BY <1>2, <1>7, <3>1
  <2>3. QED
    BY <1>7, <2>1, <2>2
<1>9. ASSUME NEW s \in Rgids, NEW k \in DOMAIN OwnList(T[s])
      PROVE  \/ s = r /\ k = 1 /\ OwnList(T[s])[k] = NoRegion
             \/ s # r /\ T[s] = S[s]
  BY <1>5, <1>6
<1>10. ASSUME NEW s \in Rgids
       PROVE  /\ DOMAIN OwnList(S[s]) \subseteq Nat
              /\ OwnList(T[s]) \in Seq(RegionIn(n))
  <2>1. S[s] \in SymIn(n) /\ T[s] \in SymIn(n)
    BY <1>6
  <2>2. QED
    BY <2>1, OwnListType
<1>11. FreeApart(G)
  <2>1. SUFFICES ASSUME NEW i \in DOMAIN G, NEW j \in DOMAIN G, i # j
                 PROVE  Apart(G[i], G[j])
    BY DEF FreeApart
  <2>2. i \in Nat /\ j \in Nat
    BY <1>7
  <2>3. CASE i \in DOMAIN D /\ j \in DOMAIN D
    <3>1. top - i # top - j
      BY <2>1, <2>2
    <3>2. G[i] = OwnList(S[r])[top - i] /\ G[j] = OwnList(S[r])[top - j]
      BY <1>3, <1>8, <2>3
    <3>3. QED
      BY <1>3, <2>3, <3>1, <3>2 DEF Separate, OwnApart
  <2>4. CASE i \in DOMAIN D /\ j \notin DOMAIN D
    <3>1. Apart(F[j - Len(D)], OwnList(S[r])[top - i])
      BY <1>3, <1>8, <2>4 DEF Separate, FreeOwnApart
    <3>2. Apart(G[j], G[i])
      BY <1>3, <1>8, <2>4, <3>1
    <3>3. QED
      BY <1>7, <3>2, ApartSymmetric
  <2>5. CASE i \notin DOMAIN D /\ j \in DOMAIN D
    <3>1. Apart(F[i - Len(D)], OwnList(S[r])[top - j])
      BY <1>3, <1>8, <2>5 DEF Separate, FreeOwnApart
    <3>2. QED
      BY <1>3, <1>8, <2>5, <3>1
  <2>6. CASE i \notin DOMAIN D /\ j \notin DOMAIN D
    <3>1. i - Len(D) # j - Len(D)
      BY <1>7, <2>1, <2>2
    <3>2. QED
      BY <1>8, <2>6, <3>1 DEF Separate, FreeApart
  <2>7. QED
    BY <2>3, <2>4, <2>5, <2>6
<1>12. OwnApart(T)
  <2>1. SUFFICES ASSUME NEW s \in Rgids, NEW t \in Rgids,
                        NEW i \in DOMAIN OwnList(T[s]),
                        NEW j \in DOMAIN OwnList(T[t]), s # t \/ i # j
                 PROVE  Apart(OwnList(T[s])[i], OwnList(T[t])[j])
    BY DEF OwnApart
  <2>i. /\ OwnList(T[s])[i] \in RegionIn(n)
        /\ OwnList(T[t])[j] \in RegionIn(n)
    BY <1>10
  <2>2. CASE s = r \/ t = r
    BY <1>4, <1>9, <2>i, <2>2
  <2>3. CASE s # r /\ t # r
    BY <1>9, <2>1, <2>3 DEF Separate, OwnApart
  <2>4. QED
    BY <2>2, <2>3
<1>13. FreeOwnApart(G, T)
  <2>1. SUFFICES ASSUME NEW i \in DOMAIN G, NEW s \in Rgids,
                        NEW j \in DOMAIN OwnList(T[s])
                 PROVE  Apart(G[i], OwnList(T[s])[j])
    BY DEF FreeOwnApart
  <2>i. G[i] \in RegionIn(n)
    BY <1>7
  <2>2. CASE s = r
    BY <1>4, <1>9, <2>i, <2>2
  <2>3. CASE s # r /\ i \in DOMAIN D
    <3>1. G[i] = OwnList(S[r])[top - i] /\ top - i \in DOMAIN OwnList(S[r])
      BY <1>3, <1>8, <2>3
    <3>2. QED
      BY <1>9, <2>3, <3>1 DEF Separate, OwnApart
  <2>4. CASE s # r /\ i \notin DOMAIN D
    BY <1>8, <1>9, <2>4 DEF Separate, FreeOwnApart
  <2>5. QED
    BY <2>2, <2>3, <2>4
<1>14. QED
  BY <1>6, <1>7, <1>11, <1>12, <1>13 DEF D, G, T, none, Separate

-----------------------------------------------------------------------------
(* Steps: the regions *)

LEMMA RegionTypes ==
  ASSUME NEW n \in Nat
  PROVE  /\ Seq(RegionIn(n)) \subseteq Seq([start : Nat, end : Nat])
         /\ SymIn(n) \subseteq [first : [start : Nat, end : Nat],
                                more : Seq([start : Nat, end : Nat])]
<1>1. RegionIn(n) \subseteq [start : Nat, end : Nat]
  BY DEF RegionIn
<1>2. Seq(RegionIn(n)) \subseteq Seq([start : Nat, end : Nat])
  BY <1>1, SeqWiden
<1>3. QED
  BY <1>1, <1>2 DEF SymIn

RegionsTyped ==
  /\ freerg \in [Procs -> Seq([start : Nat, end : Nat])]
  /\ symrg \in [Procs -> [Rgids -> [first : [start : Nat, end : Nat],
                                    more : Seq([start : Nat, end : Nat])]]]

(* The regions of p become rgs and syms, inside an area that ends at m.    *)
LEMMA RegionsStep ==
  ASSUME RegionInv, NEW p \in Procs, NEW m \in Nat,
         vm_end' = [vm_end EXCEPT ![p] = m],
         NEW rgs \in Seq(RegionIn(m)), NEW syms \in [Rgids -> SymIn(m)],
         Separate(rgs, syms),
         freerg' = [freerg EXCEPT ![p] = rgs],
         symrg' = [symrg EXCEPT ![p] = syms]
  PROVE  RegionsInside' /\ RegionsApart' /\ RegionsTyped'
<1>1. /\ freerg \in [Procs -> Seq([start : Nat, end : Nat])]
      /\ symrg \in [Procs -> [Rgids -> [first : [start : Nat, end : Nat],
                                        more : Seq([start : Nat, end : Nat])]]]
      /\ vm_end \in [Procs -> Nat]
  BY DEF RegionInv
<1>2. /\ vm_end'[p] = m /\ freerg'[p] = rgs /\ symrg'[p] = syms
      /\ \A q \in Procs : q # p =>
           vm_end'[q] = vm_end[q] /\ freerg'[q] = freerg[q] /\ symrg'[q] = symrg[q]
  BY <1>1
<1>3. RegionsInside'
  BY <1>2 DEF RegionInv, RegionsInside
<1>4. RegionsApart'
  BY <1>2 DEF RegionInv, RegionsApart
<1>5. rgs \in Seq([start : Nat, end : Nat])
  BY RegionTypes
<1>6. syms \in [Rgids -> [first : [start : Nat, end : Nat],
                          more : Seq([start : Nat, end : Nat])]]
  BY RegionTypes
<1>7. QED
  BY <1>1, <1>3, <1>4, <1>5, <1>6 DEF RegionsTyped

LEMMA RegionsKept ==
  ASSUME RegionInv, UNCHANGED <<vm_end, sbrk, freerg, symrg>>,
         UNCHANGED addr \/ \E p \in Procs : addr' = [addr EXCEPT ![p] = NoAddr]
  PROVE  RegionInv'
<1>1. addr' \in [Procs -> Int]
  BY DEF RegionInv, NoAddr
<1>2. QED
  BY <1>1 DEF RegionInv, RegionsInside, RegionsApart, AreaWhole

(* An action that leaves the area as it is.                                *)
LEMMA AreaKept ==
  ASSUME RegionInv, UNCHANGED vm_end, NEW p \in Procs
  PROVE  /\ vm_end[p] \in Nat
         /\ vm_end' = [vm_end EXCEPT ![p] = vm_end[p]]
         /\ AreaWhole'
BY DEF RegionInv, AreaWhole

LEMMA BreakType ==
  ASSUME RegionInv, NEW p \in Procs, NEW size \in Nat, NEW start \in Nat,
         MoveBreak(p, size) \/ KeepBreak(p, start)
  PROVE  sbrk' \in [Procs -> Nat] /\ addr' \in [Procs -> Int]
<1>1. sbrk \in [Procs -> Nat] /\ addr \in [Procs -> Int]
  BY DEF RegionInv
<1>2. CASE MoveBreak(p, size)
  BY <1>1, <1>2 DEF MoveBreak
<1>3. CASE KeepBreak(p, start)
  BY <1>1, <1>3 DEF KeepBreak
<1>4. QED
  BY <1>2, <1>3

LEMMA RegionsOf ==
  ASSUME RegionInv, NEW p \in Procs
  PROVE  /\ vm_end[p] \in Nat
         /\ freerg[p] \in Seq(RegionIn(vm_end[p]))
         /\ symrg[p] \in [Rgids -> SymIn(vm_end[p])]
         /\ Separate(freerg[p], symrg[p])
BY DEF RegionInv, RegionsInside, RegionsApart

LEMMA AllocFromFreeRegions ==
  ASSUME RegionInv, NEW p \in Procs, NEW r \in Rgids, NEW size \in Sizes,
         AllocFromFree(p, r, size)
  PROVE  RegionInv'
<1>1. size \in Nat
  BY PagesEnough
<1>2. PICK i \in DOMAIN freerg[p] :
        /\ IsFirstFit(freerg[p], i, size)
        /\ freerg' = [freerg EXCEPT ![p] = TakeFrom(@, i, size)]
        /\ LET rg == Region(freerg[p][i].start, freerg[p][i].start + size) IN
             /\ symrg' = [symrg EXCEPT ![p][r] = Track(@, rg)]
             /\ IF rg.end >= sbrk[p] THEN MoveBreak(p, size)
                                     ELSE KeepBreak(p, rg.start)
  BY DEF AllocFromFree
<1> DEFINE start == freerg[p][i].start
           rg == Region(start, start + size)
           syms == [symrg[p] EXCEPT ![r] = Track(@, rg)]
           rgs == TakeFrom(freerg[p], i, size)
<1>3. UNCHANGED vm_end
  BY DEF AllocFromFree
<1>4. Fits(freerg[p][i], size)
  BY <1>2 DEF IsFirstFit
<1>5. start \in Nat
  <2>1. freerg[p] \in Seq(RegionIn(vm_end[p]))
    BY RegionsOf
  <2>2. freerg[p][i] \in RegionIn(vm_end[p])
    BY <2>1
  <2>3. QED
    BY <2>2 DEF RegionIn
<1>6. /\ rgs \in Seq(RegionIn(vm_end[p]))
      /\ syms \in [Rgids -> SymIn(vm_end[p])]
      /\ Separate(rgs, syms)
  BY <1>1, <1>4, RegionsOf, TakeFromList, TakeSeparate
<1>7. /\ freerg' = [freerg EXCEPT ![p] = rgs]
      /\ symrg' = [symrg EXCEPT ![p] = syms]
  BY <1>2
<1> HIDE DEF rgs, syms
<1>8. RegionsInside' /\ RegionsApart' /\ RegionsTyped'
  BY <1>3, <1>6, <1>7, AreaKept, RegionsStep
<1>9. sbrk' \in [Procs -> Nat] /\ addr' \in [Procs -> Int]
  <2>1. MoveBreak(p, size) \/ KeepBreak(p, start)
    BY <1>2 DEF Region
  <2>2. QED
    BY <1>1, <1>5, <2>1, BreakType
<1>10. vm_end' \in [Procs -> Nat]
  BY <1>3 DEF RegionInv
<1>11. QED
  BY <1>3, <1>8, <1>9, <1>10, AreaKept DEF RegionInv, RegionsTyped

LEMMA FreeRegions ==
  ASSUME RegionInv, NEW p \in Procs, NEW r \in Rgids, Free(p, r)
  PROVE  RegionInv'
<1> DEFINE syms == [symrg[p] EXCEPT ![r] = [first |-> NoRegion, more |-> << >>]]
           rgs == Freed(symrg[p][r]) \o freerg[p]
<1>1. /\ freerg' = [freerg EXCEPT ![p] = rgs]
      /\ symrg' = [symrg EXCEPT ![p] = syms]
      /\ addr' = [addr EXCEPT ![p] = NoAddr]
      /\ UNCHANGED <<vm_end, sbrk>>
  BY DEF Free, Freed
<1>2. /\ rgs \in Seq(RegionIn(vm_end[p]))
      /\ syms \in [Rgids -> SymIn(vm_end[p])]
      /\ Separate(rgs, syms)
  BY RegionsOf, FreeSeparate
<1> HIDE DEF rgs, syms
<1>3. RegionsInside' /\ RegionsApart' /\ RegionsTyped'
  BY <1>1, <1>2, AreaKept, RegionsStep
<1>4. addr' \in [Procs -> Int]
  BY <1>1 DEF RegionInv, NoAddr
<1>5. sbrk' \in [Procs -> Nat] /\ vm_end' \in [Procs -> Nat]
  BY <1>1 DEF RegionInv
<1>6. QED
  BY <1>1, <1>3, <1>4, <1>5, AreaKept DEF RegionInv, RegionsTyped

(* The area of a call that makes it grow.                                  *)
LEMMA GrowRegions ==
  ASSUME RegionInv, NEW p \in Procs, NEW size \in Sizes
  PROVE  LET area == AreaAtBrk(p, size)
             F == <<area>> \o freerg[p]
         IN  /\ area = Region(vm_end[p], area.end)
             /\ area.end \in Nat /\ vm_end[p] <= area.end
             /\ area.start = vm_end[p]
             /\ area.end = vm_end[p] + PagesFor(size) * PageSz
             /\ F \in Seq(RegionIn(area.end)) /\ 1 \in DOMAIN F /\ F[1] = area
             /\ symrg[p] \in [Rgids -> SymIn(area.end)]
             /\ Separate(F, symrg[p])
             /\ Fits(area, size)
<1> DEFINE area == AreaAtBrk(p, size)
           F == <<area>> \o freerg[p]
<1>1. /\ PagesFor(size) * PageSz \in Nat
      /\ size \in Nat /\ size <= PagesFor(size) * PageSz
  BY PagesEnough, PageArithmetic
<1>2. vm_end[p] \in Nat
  BY RegionsOf
<1>3. /\ area = Region(vm_end[p], area.end)
      /\ area.end = vm_end[p] + PagesFor(size) * PageSz
      /\ area.start = vm_end[p]
  BY DEF AreaAtBrk, Region
<1>4. area.end \in Nat /\ vm_end[p] <= area.end
  BY <1>1, <1>2, <1>3
<1>5. Fits(area, size)
  BY <1>1, <1>2, <1>3 DEF Fits
<1> HIDE DEF area
<1>6. /\ <<Region(vm_end[p], area.end)>> \o freerg[p] \in Seq(RegionIn(area.end))
      /\ symrg[p] \in [Rgids -> SymIn(area.end)]
      /\ Separate(<<Region(vm_end[p], area.end)>> \o freerg[p], symrg[p])
  BY <1>2, <1>4, RegionsOf, AddSeparate
<1>7. 1 \in DOMAIN F /\ F[1] = area
  <2>1. freerg[p] \in Seq(RegionIn(vm_end[p]))
    BY RegionsOf
  <2>2. QED
    BY <2>1
<1>8. QED
  BY <1>3, <1>4, <1>5, <1>6, <1>7 DEF area

(* ... which is whole pages again.                                         *)
LEMMA GrowWhole ==
  ASSUME RegionInv, NEW p \in Procs, NEW size \in Sizes,
         vm_end' = [vm_end EXCEPT ![p] = AreaAtBrk(p, size).end]
  PROVE  vm_end' \in [Procs -> Nat] /\ AreaWhole'
<1>1. PICK k \in Nat : vm_end[p] = k * PageSz
  BY DEF RegionInv, AreaWhole
<1>2. PagesFor(size) \in Nat
  BY PagesEnough
<1>3. AreaAtBrk(p, size).end = (k + PagesFor(size)) * PageSz
  BY <1>1, <1>2, PageOrder DEF AreaAtBrk, Region
<1>4. k + PagesFor(size) \in Nat
  BY <1>1, <1>2
<1> HIDE DEF PagesFor, AreaAtBrk
<1>5. AreaAtBrk(p, size).end \in Nat
  BY <1>3, <1>4, PageArithmetic
<1>6. vm_end \in [Procs -> Nat]
  BY DEF RegionInv
<1>7. AreaWhole'
  <2>1. ASSUME NEW q \in Procs
        PROVE  \E n \in Nat : vm_end'[q] = n * PageSz
    <3>1. CASE q = p
      BY <1>3, <1>4, <1>6, <3>1
    <3>2. CASE q # p
      BY <1>6, <3>2 DEF RegionInv, AreaWhole
    <3>3. QED
      BY <3>1, <3>2
  <2>2. QED
    BY <2>1 DEF AreaWhole
<1>8. QED
  BY <1>5, <1>6, <1>7

LEMMA AllocGrowRegions ==
  ASSUME RegionInv, NEW p \in Procs, AllocGrow(p),
         call[p].rgid \in Rgids, call[p].size \in Sizes
  PROVE  RegionInv'
<1> DEFINE r == call[p].rgid
           size == call[p].size
           area == AreaAtBrk(p, size)
           F == <<area>> \o freerg[p]
           rg == Region(F[1].start, F[1].start + size)
           syms == [symrg[p] EXCEPT ![r] = Track(@, rg)]
           rgs == TakeFrom(F, 1, size)
<1>2. /\ area.end \in Nat /\ vm_end[p] <= area.end
      /\ area.start = vm_end[p]
      /\ F \in Seq(RegionIn(area.end)) /\ 1 \in DOMAIN F /\ F[1] = area
      /\ symrg[p] \in [Rgids -> SymIn(area.end)]
      /\ Separate(F, symrg[p]) /\ Fits(F[1], size)
  BY GrowRegions
<1>3. size \in Nat /\ vm_end[p] \in Nat
  BY PagesEnough, RegionsOf
<1>4. /\ freerg' = [freerg EXCEPT ![p] = rgs]
      /\ symrg' = [symrg EXCEPT ![p] = syms]
      /\ MoveBreak(p, size) \/ KeepBreak(p, vm_end[p])
  BY <1>2 DEF AllocGrow, Region
<1>5. vm_end' = [vm_end EXCEPT ![p] = area.end]
  BY DEF AllocGrow, inc_vma_limit
<1>6. vm_end' \in [Procs -> Nat] /\ AreaWhole'
  BY <1>5, GrowWhole
<1> HIDE DEF area, F, size, r
<1>7. /\ rgs \in Seq(RegionIn(area.end))
      /\ syms \in [Rgids -> SymIn(area.end)]
      /\ Separate(rgs, syms)
  BY <1>2, <1>3, TakeFromList, TakeSeparate DEF r
<1> HIDE DEF rgs, syms
<1>8. RegionsInside' /\ RegionsApart' /\ RegionsTyped'
  BY <1>2, <1>4, <1>5, <1>7, RegionsStep
<1>9. sbrk' \in [Procs -> Nat] /\ addr' \in [Procs -> Int]
  BY <1>3, <1>4, BreakType
<1>10. QED
  BY <1>6, <1>8, <1>9 DEF RegionInv, RegionsTyped

LEMMA MemmapGrowRegions ==
  ASSUME RegionInv, NEW p \in Procs, MemmapGrow(p), call[p].size \in Sizes
  PROVE  RegionInv'
<1> DEFINE area == AreaAtBrk(p, call[p].size)
           F == <<area>> \o freerg[p]
<1>1. /\ UNCHANGED <<sbrk, addr>>
      /\ freerg' = [freerg EXCEPT ![p] = F]
      /\ symrg' = [symrg EXCEPT ![p] = symrg[p]]
      /\ vm_end' = [vm_end EXCEPT ![p] = area.end]
  BY DEF MemmapGrow, inc_vma_limit, RegionInv
<1>2. /\ area.end \in Nat
      /\ F \in Seq(RegionIn(area.end))
      /\ symrg[p] \in [Rgids -> SymIn(area.end)]
      /\ Separate(F, symrg[p])
  BY GrowRegions
<1>3. vm_end' \in [Procs -> Nat] /\ AreaWhole'
  BY <1>1, GrowWhole
<1> HIDE DEF area, F
<1>4. RegionsInside' /\ RegionsApart' /\ RegionsTyped'
  BY <1>1, <1>2, RegionsStep
<1>5. QED
  BY <1>1, <1>3, <1>4 DEF RegionInv, RegionsTyped

LEMMA RegionPart ==
  ASSUME RegionInv, NEW p \in Procs,
         \/ \E r \in Rgids, size \in Sizes : AllocFromFree(p, r, size)
         \/ AllocGrow(p) /\ call[p].rgid \in Rgids /\ call[p].size \in Sizes
         \/ MemmapGrow(p) /\ call[p].size \in Sizes
         \/ \E r \in Rgids : Free(p, r)
         \/ AllocFail(p)
         \/ UNCHANGED regionVars
  PROVE  RegionInv'
<1>1. CASE AllocFail(p)
  <2>1. /\ UNCHANGED <<vm_end, sbrk, freerg, symrg>>
        /\ addr' = [addr EXCEPT ![p] = NoAddr]
    BY <1>1 DEF AllocFail
  <2>2. QED
    BY <2>1, RegionsKept
<1>2. CASE UNCHANGED regionVars
  BY <1>2, RegionsKept DEF regionVars
<1>3. QED
  BY <1>1, <1>2, AllocFromFreeRegions, AllocGrowRegions, MemmapGrowRegions, FreeRegions

-----------------------------------------------------------------------------
(* Steps: the calls *)

LEMMA CallTypes ==
  ASSUME CallInv, NEW p \in Procs
  PROVE  /\ call[p].op = "alloc" =>
              /\ call[p] = AllocOf(call[p].rgid, call[p].size)
              /\ call[p].rgid \in Rgids /\ call[p].size \in Sizes
         /\ call[p].op = "memmap" =>
              call[p] = MemmapOf(call[p].size) /\ call[p].size \in Sizes
         /\ call[p].op \in {"fault", "access"} =>
              /\ call[p] \in [op : {"fault", "access"}, addr : Addresses,
                              write : BOOLEAN, value : Values]
              /\ call[p].addr \in Addresses /\ call[p].value \in Values
         /\ call[p].op \in {"none", "alloc", "memmap", "fault", "access"}
         /\ call[p].op = "none" => call[p] = NoCall
<1>1. call[p] \in Calls
  BY DEF CallInv
<1>2. CASE call[p] = NoCall
  BY <1>2 DEF NoCall
<1>3. CASE call[p] \in [op : {"alloc"}, rgid : Rgids, size : Sizes]
  BY <1>3 DEF AllocOf
<1>4. CASE call[p] \in [op : {"memmap"}, size : Sizes]
  BY <1>4 DEF MemmapOf
<1>5. CASE call[p] \in [op : {"fault", "access"}, addr : Addresses,
                        write : BOOLEAN, value : Values]
  BY <1>5
<1>6. QED
  BY <1>1, <1>2, <1>3, <1>4, <1>5 DEF Calls

(* A process that is in no call enters one.                                *)
LEMMA EnterCall ==
  ASSUME CallInv, NEW p \in Procs, call[p] = NoCall, NEW c \in Calls,
         call' = [call EXCEPT ![p] = c],
         \/ c.op # "fault" /\ UNCHANGED node
         \/ c.op = "fault" /\ node' = [node EXCEPT ![p] = swpHead],
         mmvm_lock' \in Procs \cup {Nobody},
         UNCHANGED <<ramHead, swpHead, frm_lst>>
  PROVE  CallInv'
<1>1. /\ call \in [Procs -> Calls] /\ node \in [Procs -> Int]
      /\ swpHead \in 0 .. NumSwap /\ NumSwap \in Nat
  BY MmAssumption DEF CallInv
<1>2. call' \in [Procs -> Calls] /\ node' \in [Procs -> Int]
  BY <1>1
<1>3. ASSUME NEW q \in Procs
      PROVE  NodeIn(q)'
  <2>1. CASE q # p
    <3>1. call'[q] = call[q] /\ node'[q] = node[q] /\ NodeIn(q)
      BY <1>1, <2>1 DEF CallInv
    <3>2. QED
      BY <3>1 DEF NodeIn, Unfaulted
  <2>2. CASE q = p /\ c.op = "fault"
    <3>1. call'[q] = c /\ node'[q] = swpHead
      BY <1>1, <2>2
    <3>2. QED
      BY <1>1, <2>2, <3>1 DEF NodeIn, Unfaulted
  <2>3. CASE q = p /\ c.op # "fault"
    <3>1. call'[q] = c /\ node'[q] = node[q] /\ NodeIn(q) /\ call[q].op # "fault"
      BY <1>1, <2>3 DEF CallInv, NoCall
    <3>2. QED
      BY <2>3, <3>1 DEF NodeIn
  <2>4. QED
    BY <2>1, <2>2, <2>3
<1>4. QED
  BY <1>2, <1>3 DEF CallInv

(* ... and leaves it.                                                      *)
LEMMA LeaveCall ==
  ASSUME CallInv, NEW p \in Procs, Return(p), UNCHANGED <<ramHead, swpHead>>
  PROVE  CallInv'
<1>1. /\ call \in [Procs -> Calls] /\ node \in [Procs -> Int]
      /\ frm_lst \in [Procs -> Seq(Frames)]
  BY DEF CallInv
<1>2. /\ call' = [call EXCEPT ![p] = NoCall]
      /\ node' = [node EXCEPT ![p] = NoNode]
      /\ frm_lst' = [frm_lst EXCEPT ![p] = << >>]
      /\ mmvm_lock' \in {mmvm_lock, Nobody}
  BY DEF Return
<1>3. call' \in [Procs -> Calls] /\ node' \in [Procs -> Int]
  BY <1>1, <1>2 DEF Calls, NoNode
<1>4. frm_lst' \in [Procs -> Seq(Frames)]
  BY <1>1, <1>2
<1>5. ASSUME NEW q \in Procs
      PROVE  NodeIn(q)'
  <2>1. CASE q # p
    <3>1. call'[q] = call[q] /\ node'[q] = node[q] /\ NodeIn(q)
      BY <1>1, <1>2, <2>1 DEF CallInv
    <3>2. QED
      BY <3>1 DEF NodeIn, Unfaulted
  <2>2. CASE q = p
    <3>1. call'[q] = NoCall /\ node'[q] = NoNode
      BY <1>1, <1>2, <2>2
    <3>2. QED
      BY <3>1 DEF NodeIn, NoCall
  <2>3. QED
    BY <2>1, <2>2
<1>6. QED
  BY <1>2, <1>3, <1>4, <1>5 DEF CallInv

LEMMA FrameSteps ==
  ASSUME CallInv, NEW p \in Procs, ReadHead(p) \/ TakeFrame(p)
  PROVE  CallInv'
<1>1. /\ call \in [Procs -> Calls] /\ node \in [Procs -> Int]
      /\ frm_lst \in [Procs -> Seq(Frames)]
      /\ ramHead \in 0 .. NumFrames /\ NumFrames \in Nat
      /\ UNCHANGED <<mmvm_lock, call, swpHead>> /\ call[p].op # "fault"
  BY MmAssumption DEF CallInv, ReadHead, TakeFrame, Growing
<1>2. /\ node' = [node EXCEPT ![p] = ramHead] \/ node' = [node EXCEPT ![p] = NoNode]
      /\ ramHead' \in 0 .. NumFrames
      /\ frm_lst' \in [Procs -> Seq(Frames)]
  <2>1. CASE ReadHead(p)
    BY <1>1, <2>1 DEF ReadHead
  <2>2. CASE TakeFrame(p)
    <3>1. node[p] \in Frames /\ ramHead' = node[p] + 1
          /\ frm_lst' = [frm_lst EXCEPT ![p] = Append(@, node[p])]
          /\ node' = [node EXCEPT ![p] = NoNode]
      BY <2>2 DEF TakeFrame
    <3>2. node[p] + 1 \in 0 .. NumFrames
      BY <1>1, <3>1 DEF Frames
    <3>3. Append(frm_lst[p], node[p]) \in Seq(Frames)
      BY <1>1, <3>1
    <3>4. QED
      BY <1>1, <3>1, <3>2, <3>3
  <2>3. QED
    BY <2>1, <2>2
<1>3. node' \in [Procs -> Int]
  BY <1>1, <1>2 DEF NoNode
<1>4. ASSUME NEW q \in Procs
      PROVE  NodeIn(q)'
  <2>1. CASE q # p
    <3>1. call'[q] = call[q] /\ node'[q] = node[q] /\ NodeIn(q)
      BY <1>1, <1>2, <2>1 DEF CallInv
    <3>2. QED
      BY <1>1, <3>1 DEF NodeIn, Unfaulted
  <2>2. CASE q = p
    <3>1. call'[q] = call[q] /\ node'[q] \in {NoNode} \cup 0 .. NumFrames
      BY <1>1, <1>2, <2>2
    <3>2. QED
      BY <1>1, <2>2, <3>1 DEF NodeIn
  <2>3. QED
    BY <2>1, <2>2
<1>5. QED
  BY <1>1, <1>2, <1>3, <1>4 DEF CallInv

(* A page fault that takes a SWAP frame, or finds none.                    *)
LEMMA FaultCall ==
  ASSUME CallInv, NEW p \in Procs, TakeSwap(p) \/ NoSwap(p)
  PROVE  /\ CallInv' /\ ~Unfaulted'
         /\ call[p].op = "fault" /\ call[p].addr \in Addresses
         /\ \E off \in Nat : ReplacePage(p, off)
<1>1. call[p].op = "fault" /\ call[p].addr \in Addresses
  BY CallTypes DEF TakeSwap, NoSwap
<1>2. node[p] \in 0 .. NumSwap /\ NumSwap \in Nat
  BY <1>1, MmAssumption DEF CallInv, NodeIn
<1>3. PICK off \in Nat : ReplacePage(p, off)
  BY <1>2 DEF TakeSwap, NoSwap
<1>4. swpHead' \in 0 .. NumSwap /\ ~Unfaulted'
  <2>1. CASE TakeSwap(p)
    BY <1>2, <2>1 DEF TakeSwap, Unfaulted
  <2>2. CASE NoSwap(p)
    <3>1. node[p] = NumSwap /\ NumSwap # 0 /\ swpHead' = swpHead
      BY <2>2, MmAssumption DEF NoSwap
    <3>2. swpHead \in 0 .. NumSwap /\ ~Unfaulted
      BY <1>1, <3>1 DEF CallInv, NodeIn
    <3>3. QED
      BY <3>1, <3>2 DEF Unfaulted
  <2>3. QED
    BY <2>1, <2>2
<1>5. /\ call' = [call EXCEPT ![p].op = "access"]
      /\ node' = [node EXCEPT ![p] = NoNode]
      /\ UNCHANGED <<mmvm_lock, ramHead, frm_lst>>
  BY <1>3 DEF ReplacePage
<1>6. /\ call \in [Procs -> Calls] /\ node \in [Procs -> Int]
      /\ call[p] \in [op : {"fault", "access"}, addr : Addresses,
                      write : BOOLEAN, value : Values]
  BY <1>1, CallTypes DEF CallInv
<1> DEFINE c == [call[p] EXCEPT !.op = "access"]
<1>7. c \in [op : {"fault", "access"}, addr : Addresses, write : BOOLEAN, value : Values]
      /\ c.op = "access"
  BY <1>6
<1>8. call' = [call EXCEPT ![p] = c]
  BY <1>5
<1> HIDE DEF c
<1>9. call' \in [Procs -> Calls] /\ node' \in [Procs -> Int]
  BY <1>5, <1>6, <1>7, <1>8 DEF Calls, NoNode
<1>10. ASSUME NEW q \in Procs
       PROVE  NodeIn(q)'
  <2>1. CASE q # p
    <3>1. call'[q] = call[q] /\ node'[q] = node[q] /\ NodeIn(q)
      BY <1>5, <1>6, <1>8, <2>1 DEF CallInv
    <3>2. QED
      BY <1>4, <3>1 DEF NodeIn
  <2>2. CASE q = p
    <3>1. call'[q] = c /\ node'[q] = NoNode
      BY <1>5, <1>6, <1>8, <2>2
    <3>2. QED
      BY <1>7, <3>1 DEF NodeIn
  <2>3. QED
    BY <2>1, <2>2
<1>11. CallInv'
  BY <1>4, <1>5, <1>9, <1>10 DEF CallInv
<1>12. QED
  BY <1>1, <1>3, <1>4, <1>11

LEMMA CallPart ==
  ASSUME CallInv, NEW p \in Procs,
         \/ \E r \in Rgids, size \in Sizes : AllocCall(p, r, size)
         \/ \E size \in Sizes : MemmapCall(p, size)
         \/ \E r \in Rgids, off \in Offsets, w \in BOOLEAN, v \in Values :
              Fault(p, r, off, w, v)
         \/ ReadHead(p) \/ TakeFrame(p)
         \/ Return(p) /\ UNCHANGED <<ramHead, swpHead>>
         \/ TakeSwap(p) \/ NoSwap(p)
         \/ UNCHANGED callVars
  PROVE  CallInv'
<1>1. CASE \E r \in Rgids, size \in Sizes : AllocCall(p, r, size)
  <2>1. PICK r \in Rgids, size \in Sizes : AllocCall(p, r, size)
    BY <1>1
  <2>2. AllocOf(r, size) \in Calls /\ AllocOf(r, size).op = "alloc"
    BY DEF AllocOf, Calls
  <2>3. /\ call[p] = NoCall
        /\ call' = [call EXCEPT ![p] = AllocOf(r, size)]
        /\ mmvm_lock' = p
        /\ UNCHANGED <<ramHead, swpHead, node, frm_lst>>
    BY <2>1 DEF AllocCall, Running, listVars
  <2>4. QED
    BY <2>2, <2>3, EnterCall
<1>2. CASE \E size \in Sizes : MemmapCall(p, size)
  <2>1. PICK size \in Sizes : MemmapCall(p, size)
    BY <1>2
  <2>2. MemmapOf(size) \in Calls /\ MemmapOf(size).op = "memmap"
    BY DEF MemmapOf, Calls
  <2>3. /\ call[p] = NoCall
        /\ call' = [call EXCEPT ![p] = MemmapOf(size)]
        /\ UNCHANGED <<mmvm_lock, ramHead, swpHead, node, frm_lst>>
    BY <2>1 DEF MemmapCall, Running, listVars
  <2>4. QED
    BY <2>2, <2>3, EnterCall DEF CallInv
<1>3. CASE \E r \in Rgids, off \in Offsets, w \in BOOLEAN, v \in Values :
             Fault(p, r, off, w, v)
  <2>1. PICK r \in Rgids, off \in Offsets, w \in BOOLEAN, v \in Values :
               Fault(p, r, off, w, v)
    BY <1>3
  <2>2. PICK a \in Addresses : call' = [call EXCEPT ![p] = FaultOf(a, w, v)]
    BY <2>1 DEF Fault
  <2>3. FaultOf(a, w, v) \in Calls /\ FaultOf(a, w, v).op = "fault"
    BY DEF FaultOf, Calls
  <2>4. /\ call[p] = NoCall
        /\ node' = [node EXCEPT ![p] = swpHead]
        /\ UNCHANGED <<mmvm_lock, ramHead, swpHead, frm_lst>>
    BY <2>1 DEF Fault, Running
  <2>5. QED
    BY <2>2, <2>3, <2>4, EnterCall DEF CallInv
<1>4. CASE UNCHANGED callVars
  BY <1>4 DEF CallInv, NodeIn, Unfaulted, callVars, listVars
<1>5. QED
  BY <1>1, <1>2, <1>3, <1>4, FrameSteps, LeaveCall, FaultCall

-----------------------------------------------------------------------------
(* Steps: the pages *)

(* Process p maps n pages from page k on, the end of its area, to the      *)
(* frames of its list, the last one first.                                 *)
Maps(p, k, n) ==
  /\ vm_end[p] = k * PageSz /\ vm_end'[p] = (k + n) * PageSz
  /\ \A q \in Procs : q # p => vm_end'[q] = vm_end[q]
  /\ k + n <= MaxPgn
  /\ \A q \in Procs, g \in Pages :
       pgd'[q][g] = IF q = p /\ g \in k .. k + n - 1
                    THEN pte_set_fpn(pgd[p][g], frm_lst[p][k + n - g])
                    ELSE pgd[q][g]
  /\ \A g \in k .. k + n - 1 : frm_lst[p][k + n - g] \in Frames

LEMMA MapPages ==
  ASSUME Inv, NEW p \in Procs, NEW size \in Sizes,
         Len(frm_lst[p]) = PagesFor(size),
         inc_vma_limit(p, AreaAtBrk(p, size))
  PROVE  /\ \E k, n \in Nat : n = PagesFor(size) /\ Maps(p, k, n)
         /\ pgd' \in [Procs -> [Pages -> Pte]]
         /\ fifo' \in [Procs -> Seq(Pages)]
<1>1. PICK k \in Nat : vm_end[p] = k * PageSz
  BY DEF Inv, RegionInv, AreaWhole
<1>2. PICK n \in Nat : n = PagesFor(size)
  BY PagesEnough
<1> DEFINE frames == frm_lst[p]
           new == k .. k + n - 1
           area == AreaAtBrk(p, size)
<1>3. /\ frames \in Seq(Frames) /\ Len(frames) = n
      /\ pgd \in [Procs -> [Pages -> Pte]] /\ fifo \in [Procs -> Seq(Pages)]
      /\ vm_end \in [Procs -> Nat]
      /\ MaxPgn \in Nat /\ PageSz \in Nat \ {0}
  BY <1>2, MmAssumption DEF Inv, RegionInv, PageInv, CallInv
<1>4. /\ area.start = k * PageSz /\ area.end = (k + n) * PageSz
      /\ area.start \div PageSz = k
  BY <1>1, <1>2, PageOrder, PageArithmetic DEF AreaAtBrk, Region
<1>5. k + n <= MaxPgn
  <2>1. (k + n) * PageSz <= MaxPgn * PageSz
    BY <1>4 DEF inc_vma_limit, InTable
  <2>2. ~(MaxPgn * PageSz < (k + n) * PageSz)
    <3>1. k + n \in Nat
      OBVIOUS
    <3>2. (k + n) * PageSz \in Nat /\ MaxPgn * PageSz \in Nat
      BY <1>3, <3>1, PageArithmetic
    <3>3. QED
      BY <2>1, <3>2
  <2>3. ~(MaxPgn < k + n)
    <3>1. k + n \in Nat
      OBVIOUS
    <3>2. QED
      BY <1>3, <2>2, <3>1, PageOrder
  <2>4. QED
    BY <1>3, <2>3
<1>6. /\ vmap_page_range(p, k, frames)
      /\ vm_end' = [vm_end EXCEPT ![p] = (k + n) * PageSz]
  BY <1>4 DEF inc_vma_limit
<1> DEFINE row == [g \in Pages |->
                     IF g \in new THEN pte_set_fpn(pgd[p][g], Reverse(frames)[g - k + 1])
                                  ELSE pgd[p][g]]
<1>7. /\ pgd' = [pgd EXCEPT ![p] = row]
      /\ fifo' = [fifo EXCEPT ![p] = [i \in 1 .. n |-> k + n - i] \o @]
  BY <1>3, <1>6 DEF vmap_page_range
<1>8. ASSUME NEW g \in new
      PROVE  Reverse(frames)[g - k + 1] = frames[k + n - g] /\ frames[k + n - g] \in Frames
  <2>1. g - k + 1 \in 1 .. n /\ (n - (g - k + 1)) + 1 = k + n - g /\ k + n - g \in 1 .. n
    OBVIOUS
  <2>2. Reverse(frames)[g - k + 1] = frames[(n - (g - k + 1)) + 1]
    BY <1>3, <2>1 DEF Reverse
  <2>3. QED
    BY <1>3, <2>1, <2>2
<1>9. ASSUME NEW g \in Pages
      PROVE  /\ row[g] = IF g \in new THEN pte_set_fpn(pgd[p][g], frames[k + n - g])
                                      ELSE pgd[p][g]
             /\ row[g] \in Pte
  <2>1. pgd[p][g] \in Pte
    BY <1>3
  <2>2. CASE g \in new
    <3>1. frames[k + n - g] \in Nat
      BY <1>8, <2>2 DEF Frames
    <3>2. row[g] = pte_set_fpn(pgd[p][g], frames[k + n - g])
      BY <1>8, <2>2
    <3>3. QED
      BY <2>1, <2>2, <3>1, <3>2, PteTypes
  <2>3. CASE g \notin new
    BY <2>1, <2>3
  <2>4. QED
    BY <2>2, <2>3
<1>10. row \in [Pages -> Pte]
  BY <1>9
<1> HIDE DEF row
<1>11. /\ pgd' \in [Procs -> [Pages -> Pte]]
       /\ \A q \in Procs, g \in Pages :
                pgd'[q][g] = IF q = p /\ g \in k .. k + n - 1
                             THEN pte_set_fpn(pgd[p][g], frm_lst[p][k + n - g])
                             ELSE pgd[q][g]
  <2>1. pgd' \in [Procs -> [Pages -> Pte]] /\ pgd'[p] = row
        /\ \A q \in Procs : q # p => pgd'[q] = pgd[q]
    BY <1>3, <1>7, <1>10
  <2>2. QED
    BY <1>9, <2>1
<1>12. fifo' \in [Procs -> Seq(Pages)]
  <2>1. \A i \in 1 .. n : k + n - i \in Pages
    BY <1>3, <1>5 DEF Pages
  <2>2. [i \in 1 .. n |-> k + n - i] \in Seq(Pages)
    BY <2>1
  <2>3. fifo[p] \in Seq(Pages)
    BY <1>3
  <2>4. ASSUME NEW new1 \in Seq(Pages), NEW old \in Seq(Pages)
        PROVE  new1 \o old \in Seq(Pages)
    OBVIOUS
  <2>5. [i \in 1 .. n |-> k + n - i] \o fifo[p] \in Seq(Pages)
    BY <2>2, <2>3, <2>4
  <2>6. QED
    BY <1>3, <1>7, <2>5
<1>13. /\ vm_end'[p] = (k + n) * PageSz
       /\ \A q \in Procs : q # p => vm_end'[q] = vm_end[q]
  BY <1>3, <1>6
<1>14. Maps(p, k, n)
  BY <1>1, <1>5, <1>8, <1>11, <1>13 DEF Maps
<1>15. QED
  BY <1>2, <1>11, <1>12, <1>14

(* A page fault rewrites two entries, both of which are marked present.    *)
LEMMA FaultPages ==
  ASSUME PageInv, NEW p \in Procs, NEW off \in Nat, ReplacePage(p, off),
         call[p].addr \in Addresses
  PROVE  /\ PageInv'
         /\ \A q \in Procs, h \in Pages : pgd[q][h].present => pgd'[q][h].present
<1> DEFINE g == PageOf(call[p].addr)
<1>1. /\ pgd \in [Procs -> [Pages -> Pte]] /\ fifo \in [Procs -> Seq(Pages)]
      /\ cyclic \in [Procs -> BOOLEAN] /\ g \in Pages
  BY AddressesHavePages DEF PageInv
<1>2. Victim(p) \in Pages
  <2>1. CASE fifo[p] = << >>
    BY <2>1, MmAssumption DEF Victim, Pages
  <2>2. CASE fifo[p] # << >>
    <3>1. fifo[p] \in Seq(Pages) /\ Len(fifo[p]) \in DOMAIN fifo[p]
      BY <1>1, <2>2
    <3>2. QED
      BY <2>2, <3>1 DEF Victim
  <2>3. QED
    BY <2>1, <2>2
<1> DEFINE v == Victim(p)
           f == Fpn(pgd[p][v])
           out == [pgd[p] EXCEPT ![v] = pte_set_swap(@, off)]
           row == [out EXCEPT ![g] = pte_set_fpn(@, f)]
<1>3. /\ pgd' = [pgd EXCEPT ![p] = row]
      /\ cyclic' = [cyclic EXCEPT ![p] = fifo[p] # << >>]
      /\ fifo' = [fifo EXCEPT ![p] = <<g>> \o @]
  BY DEF ReplacePage
<1>4. /\ pgd[p] \in [Pages -> Pte] /\ f \in Nat
      /\ pte_set_swap(pgd[p][v], off) \in Pte
      /\ pte_set_swap(pgd[p][v], off).present
  <2>1. pgd[p] \in [Pages -> Pte] /\ pgd[p][v] \in Pte
    BY <1>1, <1>2
  <2>2. QED
    BY <2>1, PteTypes
<1> HIDE DEF f, v, g
<1>5. /\ out \in [Pages -> Pte]
      /\ \A h \in Pages : pgd[p][h].present => out[h].present
  BY <1>2, <1>4 DEF v
<1> HIDE DEF out
<1>6. pte_set_fpn(out[g], f) \in Pte /\ pte_set_fpn(out[g], f).present
  <2>1. out[g] \in Pte
    BY <1>1, <1>5
  <2>2. QED
    BY <1>4, <2>1, PteTypes
<1>7. /\ row \in [Pages -> Pte]
      /\ \A h \in Pages : pgd[p][h].present => row[h].present
  BY <1>5, <1>6
<1> HIDE DEF row
<1>8. /\ pgd' \in [Procs -> [Pages -> Pte]]
      /\ \A q \in Procs, h \in Pages : pgd[q][h].present => pgd'[q][h].present
  BY <1>1, <1>3, <1>7
<1>9. cyclic' \in [Procs -> BOOLEAN]
  BY <1>1, <1>3
<1>10. fifo' \in [Procs -> Seq(Pages)]
  <2>1. <<g>> \o fifo[p] \in Seq(Pages)
    BY <1>1
  <2>2. QED
    BY <1>1, <1>3, <2>1
<1>11. QED
  BY <1>8, <1>9, <1>10 DEF PageInv

LEMMA PagePart ==
  ASSUME Inv, NEW p \in Procs,
         \/ AllocGrow(p) \/ MemmapGrow(p)
         \/ TakeSwap(p) \/ NoSwap(p)
         \/ UNCHANGED pageVars
  PROVE  PageInv'
<1>1. CASE AllocGrow(p) \/ MemmapGrow(p)
  <2>1. /\ call[p].size \in Sizes
        /\ Len(frm_lst[p]) = PagesFor(call[p].size)
        /\ inc_vma_limit(p, AreaAtBrk(p, call[p].size))
        /\ UNCHANGED cyclic
    BY <1>1, CallTypes DEF Inv, AllocGrow, MemmapGrow, GotAll
  <2>2. QED
    BY <2>1, MapPages DEF Inv, PageInv
<1>2. CASE TakeSwap(p) \/ NoSwap(p)
  BY <1>2, FaultCall, FaultPages DEF Inv
<1>3. CASE UNCHANGED pageVars
  BY <1>3 DEF Inv, PageInv, pageVars
<1>4. QED
  BY <1>1, <1>2, <1>3

-----------------------------------------------------------------------------
(* Steps: the rest *)

(* A byte of RAM that is written, by whatever action.                      *)
LEMMA RamType ==
  ASSUME RunInv,
         \/ \E f \in Frames, v \in Values : \E i : ram' = [ram EXCEPT ![f][i] = v]
         \/ UNCHANGED ram
  PROVE  ram' \in [Frames -> [0 .. PageSz - 1 -> Values]]
<1>1. ram \in [Frames -> [0 .. PageSz - 1 -> Values]]
  BY DEF RunInv
<1>2. ASSUME NEW f \in Frames, NEW v \in Values, NEW i,
             ram' = [ram EXCEPT ![f][i] = v]
      PROVE  ram' \in [Frames -> [0 .. PageSz - 1 -> Values]]
  BY <1>1, <1>2
<1>3. QED
  BY <1>1, <1>2

LEMMA StoreRam ==
  ASSUME NEW p \in Procs, NEW a, NEW v \in Values, Store(p, a, v)
  PROVE  \/ \E f \in Frames, w \in Values : \E i : ram' = [ram EXCEPT ![f][i] = w]
         \/ UNCHANGED ram
BY DEF Store

LEMMA RunPart ==
  ASSUME RunInv, NEW p \in Procs,
         Step(p) \/ UNCHANGED pc,
         hung' = [hung EXCEPT ![p] = TRUE] \/ UNCHANGED hung,
         \/ \E f \in Frames, v \in Values : \E i : ram' = [ram EXCEPT ![f][i] = v]
         \/ UNCHANGED ram
  PROVE  RunInv'
<1>1. pc' \in [Procs -> Nat]
  BY DEF RunInv, Step
<1>2. hung' \in [Procs -> BOOLEAN]
  BY DEF RunInv
<1>3. QED
  BY <1>1, <1>2, RamType DEF RunInv

-----------------------------------------------------------------------------
(* Every step *)

LEMMA InstructionStep ==
  ASSUME Inv, NEW p \in Procs, Instruction(p)
  PROVE  Inv'
<1>1. CASE \E r \in Rgids, size \in Sizes : AllocFromFree(p, r, size)
  <2>1. UNCHANGED <<pageVars, hung, ram, callVars>> /\ Step(p)
    BY <1>1 DEF AllocFromFree
  <2>2. QED
    BY <1>1, <2>1, RegionPart, PagePart, CallPart, RunPart DEF Inv
<1>2. CASE \E r \in Rgids, size \in Sizes : AllocCall(p, r, size)
  <2>1. UNCHANGED <<pc, regionVars, pageVars, hung, ram>>
    BY <1>2 DEF AllocCall
  <2>2. QED
    BY <1>2, <2>1, RegionPart, PagePart, CallPart, RunPart DEF Inv
<1>3. CASE ReadHead(p) \/ TakeFrame(p)
  <2>1. UNCHANGED <<pc, regionVars, pageVars, hung, ram>>
    BY <1>3 DEF ReadHead, TakeFrame
  <2>2. QED
    BY <1>3, <2>1, RegionPart, PagePart, CallPart, RunPart DEF Inv
<1>4. CASE AllocGrow(p)
  <2>1. /\ Return(p) /\ UNCHANGED <<hung, ram, ramHead, swpHead>> /\ Step(p)
        /\ call[p].rgid \in Rgids /\ call[p].size \in Sizes
    BY <1>4, CallTypes DEF AllocGrow, Return, Inv
  <2>2. QED
    BY <1>4, <2>1, RegionPart, PagePart, CallPart, RunPart DEF Inv
<1>5. CASE AllocFail(p)
  <2>1. Return(p) /\ UNCHANGED <<pageVars, hung, ram, ramHead, swpHead>> /\ Step(p)
    BY <1>5 DEF AllocFail, Return
  <2>2. QED
    BY <1>5, <2>1, RegionPart, PagePart, CallPart, RunPart DEF Inv
<1>6. CASE \E r \in Rgids : Free(p, r)
  <2>1. UNCHANGED <<pageVars, hung, ram, callVars>> /\ Step(p)
    BY <1>6 DEF Free
  <2>2. QED
    BY <1>6, <2>1, RegionPart, PagePart, CallPart, RunPart DEF Inv
<1>7. CASE \/ \E r \in Rgids : KillAll(p, r)
           \/ \E r \in Rgids, off \in Offsets : Read(p, r, off)
           \/ NoEffect(p)
  <2>1. UNCHANGED <<regionVars, pageVars, hung, ram, callVars>> /\ Step(p)
    BY <1>7 DEF KillAll, Read, NoEffect
  <2>2. QED
    BY <2>1, RegionPart, PagePart, CallPart, RunPart DEF Inv
<1>8. CASE \E r \in Rgids, off \in Offsets, v \in Values : Write(p, r, off, v)
  <2>1. PICK r \in Rgids, off \in Offsets, v \in Values : Write(p, r, off, v)
    BY <1>8
  <2>2. /\ UNCHANGED <<regionVars, pageVars, hung, callVars>> /\ Step(p)
        /\ \E a \in Addresses : Store(p, a, v)
    BY <2>1 DEF Write
  <2>3. QED
    BY <2>2, StoreRam, RegionPart, PagePart, CallPart, RunPart DEF Inv
<1>9. CASE \E r \in Rgids, off \in Offsets, w \in BOOLEAN, v \in Values :
             Fault(p, r, off, w, v)
  <2>1. UNCHANGED <<pc, regionVars, pageVars, hung, ram>>
    BY <1>9 DEF Fault
  <2>2. QED
    BY <1>9, <2>1, RegionPart, PagePart, CallPart, RunPart DEF Inv
<1>10. CASE TakeSwap(p) \/ NoSwap(p)
  <2>1. UNCHANGED <<pc, regionVars, hung, ram>>
    BY <1>10 DEF TakeSwap, NoSwap, ReplacePage
  <2>2. QED
    BY <1>10, <2>1, RegionPart, PagePart, CallPart, RunPart DEF Inv
<1>11. CASE Access(p)
  <2>1. /\ Return(p) /\ UNCHANGED <<regionVars, pageVars, hung, ramHead, swpHead>>
        /\ Step(p) /\ call[p].value \in Values
        /\ Store(p, call[p].addr, call[p].value) \/ UNCHANGED ram
    BY <1>11, CallTypes DEF Access, Return, Inv
  <2>2. QED
    BY <2>1, StoreRam, RegionPart, PagePart, CallPart, RunPart DEF Inv
<1>12. CASE \E r \in Rgids, off \in Offsets : Hang(p, r, off)
  <2>1. /\ UNCHANGED <<pc, regionVars, pageVars, ram, callVars>>
        /\ hung' = [hung EXCEPT ![p] = TRUE]
    BY <1>12 DEF Hang
  <2>2. QED
    BY <2>1, RegionPart, PagePart, CallPart, RunPart DEF Inv
<1>13. ASSUME NEW r \in Rgids, NEW off \in Offsets, Fault(p, r, off, FALSE, 0)
       PROVE  \E s \in Rgids, o \in Offsets, w \in BOOLEAN, v \in Values :
                Fault(p, s, o, w, v)
  BY <1>13, MmAssumption
<1>14. QED
  BY <1>1, <1>2, <1>3, <1>4, <1>5, <1>6, <1>7, <1>8, <1>9, <1>10, <1>11, <1>12,
     <1>13 DEF Instruction

LEMMA UserStep ==
  ASSUME Inv, NEW p \in Procs, UserMemmap(p)
  PROVE  Inv'
<1>1. CASE \E size \in Sizes : MemmapCall(p, size)
  <2>1. UNCHANGED <<pc, regionVars, pageVars, hung, ram>>
    BY <1>1 DEF MemmapCall
  <2>2. QED
    BY <1>1, <2>1, RegionPart, PagePart, CallPart, RunPart DEF Inv
<1>2. CASE MemmapGrow(p)
  <2>1. /\ Return(p) /\ UNCHANGED <<hung, ram, ramHead, swpHead>> /\ Step(p)
        /\ call[p].size \in Sizes
    BY <1>2, CallTypes DEF MemmapGrow, Return, Inv
  <2>2. QED
    BY <1>2, <2>1, RegionPart, PagePart, CallPart, RunPart DEF Inv
<1>3. CASE MemmapFail(p)
  <2>1. Return(p) /\ UNCHANGED <<regionVars, pageVars, hung, ram, ramHead, swpHead>>
        /\ Step(p)
    BY <1>3 DEF MemmapFail, Return
  <2>2. QED
    BY <2>1, RegionPart, PagePart, CallPart, RunPart DEF Inv
<1>4. CASE \E f \in Frames, i \in 0 .. PageSz - 1, v \in Values : MemmapWrite(p, f, i, v)
  <2>1. /\ UNCHANGED <<regionVars, pageVars, hung, callVars>> /\ Step(p)
        /\ \E f \in Frames, v \in Values : \E i : ram' = [ram EXCEPT ![f][i] = v]
    BY <1>4 DEF MemmapWrite
  <2>2. QED
    BY <2>1, RegionPart, PagePart, CallPart, RunPart DEF Inv
<1>5. QED
  BY <1>1, <1>2, <1>3, <1>4 DEF UserMemmap

LEMMA InvInit ==
  ASSUME Init
  PROVE  Inv
<1>1. NoRegion \in RegionIn(0) /\ NoRegion \in [start : Nat, end : Nat]
  BY DEF NoRegion, Region, RegionIn
<1>2. [first |-> NoRegion, more |-> << >>] \in SymIn(0)
  BY <1>1 DEF SymIn
<1>3. RegionsInside
  <2>1. <<NoRegion>> \in Seq(RegionIn(0))
    BY <1>1
  <2>2. QED
    BY <1>2, <2>1 DEF Init, RegionsInside
<1>4. RegionsTyped
  <2>1. <<NoRegion>> \in Seq([start : Nat, end : Nat])
    BY <1>1
  <2>2. [first |-> NoRegion, more |-> << >>]
          \in [first : [start : Nat, end : Nat], more : Seq([start : Nat, end : Nat])]
    BY <1>1
  <2>3. QED
    BY <2>1, <2>2 DEF Init, RegionsTyped
<1>5. RegionsApart
  <2>1. SUFFICES ASSUME NEW p \in Procs
                 PROVE  Separate(freerg[p], symrg[p])
    BY DEF RegionsApart
  <2>2. freerg[p] = <<NoRegion>>
    BY DEF Init
  <2>3. \A r \in Rgids : OwnList(symrg[p][r]) = <<NoRegion>>
    <3>1. \A r \in Rgids : /\ symrg[p][r].first = NoRegion
                           /\ symrg[p][r].more = << >>
      BY DEF Init
    <3>2. <<NoRegion>> \o << >> = <<NoRegion>>
      OBVIOUS
    <3>3. QED
      BY <3>1, <3>2 DEF OwnList
  <2>4. Apart(NoRegion, NoRegion)
    BY DEF Apart, NoRegion, Region
  <2>5. QED
    BY <2>2, <2>3, <2>4 DEF Separate, FreeApart, OwnApart, FreeOwnApart
<1>6. AreaWhole
  <2>1. 0 = 0 * PageSz
    BY MmAssumption
  <2>2. QED
    BY <2>1 DEF Init, AreaWhole
<1>7. RegionInv
  BY <1>3, <1>4, <1>5, <1>6 DEF Init, RegionInv, RegionsTyped, NoAddr
<1>8. PageInv
  BY DEF Init, PageInv, EmptyPte, Pte
<1>9. CallInv
  BY MmAssumption DEF Init, CallInv, NodeIn, Calls, NoCall, NoNode
<1>10. RunInv
  BY MmAssumption DEF Init, RunInv
<1>11. QED
  BY <1>7, <1>8, <1>9, <1>10 DEF Inv

LEMMA InvNext ==
  ASSUME Inv, [UserNext]_vars
  PROVE  Inv'
<1>1. CASE UNCHANGED vars
  <2>1. UNCHANGED <<vm_end, sbrk, freerg, symrg, addr>>
    BY <1>1 DEF vars, regionVars
  <2>2. RegionInv'
    BY <2>1, RegionsKept DEF Inv
  <2>3. PageInv'
    BY <1>1 DEF Inv, PageInv, vars, pageVars
  <2>4. CallInv'
    BY <1>1 DEF Inv, CallInv, NodeIn, Unfaulted, vars, callVars, listVars
  <2>5. RunInv'
    BY <1>1 DEF Inv, RunInv, vars
  <2>6. QED
    BY <2>2, <2>3, <2>4, <2>5 DEF Inv
<1>2. CASE \E p \in Procs : Instruction(p)
  BY <1>2, InstructionStep
<1>3. CASE \E p \in Procs : UserMemmap(p)
  BY <1>3, UserStep
<1>4. QED
  BY <1>1, <1>2, <1>3 DEF UserNext, Next

LEMMA InvHolds == UserSpec => []Inv
<1>1. Init => Inv
  BY InvInit
<1>2. Inv /\ [UserNext]_vars => Inv'
  BY InvNext
<1>3. QED
  BY <1>1, <1>2, PTL DEF UserSpec

-----------------------------------------------------------------------------
(* The properties *)

(* Every variable keeps its type: in particular no page beyond the page    *)
(* table enters fifo_pgn, and no frame beyond the device a list of frames, *)
(* also where two processes take one from it at once.                      *)
THEOREM TypeCorrect == UserSpec => []TypeOK
<1>1. ASSUME Inv
      PROVE  TypeOK
  <2>1. \A p \in Procs :
          node[p] \in {NoNode} \cup (0 .. IF call[p].op = "fault" THEN NumSwap ELSE NumFrames)
    BY <1>1 DEF Inv, CallInv, NodeIn
  <2>2. QED
    BY <1>1, <2>1 DEF Inv, RegionInv, PageInv, CallInv, RunInv, TypeOK
<1>2. QED
  BY <1>1, InvHolds, PTL

LEMMA ApartCells ==
  ASSUME NEW n \in Nat, NEW a \in RegionIn(n), NEW b \in RegionIn(n), Apart(a, b)
  PROVE  Cells(a) \cap Cells(b) = {}
BY DEF Apart, Cells, RegionIn

(* No byte belongs to two regions, whatever the sequence of allocations,   *)
(* increases and frees: get_free_vmrg_area() never hands one out twice.    *)
THEOREM RegionsPrivate == UserSpec => []RegionsDisjoint
<1>1. ASSUME Inv, NEW p \in Procs
      PROVE  /\ \A h, k \in Held(p) : h # k => Cells(h[4]) \cap Cells(k[4]) = {}
             /\ \A h \in Held(p) : Cells(h[4]) \subseteq 0 .. vm_end[p] - 1
  <2> DEFINE F == freerg[p]
             S == symrg[p]
             n == vm_end[p]
  <2>1. /\ n \in Nat /\ F \in Seq(RegionIn(n)) /\ S \in [Rgids -> SymIn(n)]
        /\ Separate(F, S)
    BY <1>1, RegionsOf DEF Inv
  <2>2. ASSUME NEW r \in Rgids
        PROVE  /\ OwnList(S[r]) \in Seq(RegionIn(n))
               /\ DOMAIN S[r].more \subseteq Nat
               /\ 1 \in DOMAIN OwnList(S[r]) /\ OwnList(S[r])[1] = S[r].first
               /\ \A i \in DOMAIN S[r].more :
                    /\ i + 1 \in DOMAIN OwnList(S[r]) /\ i + 1 # 1
                    /\ OwnList(S[r])[i + 1] = S[r].more[i]
    <3>1. S[r] \in SymIn(n) /\ S[r].more \in Seq(RegionIn(n))
      BY <2>1 DEF SymIn
    <3>2. DOMAIN S[r].more = 1 .. Len(S[r].more)
      BY <3>1
    <3>3. QED
      BY <2>1, <3>1, <3>2, OwnListType
  <2> DEFINE Slot(r, j) == IF j = 1 THEN <<"first", r, 0, OwnList(S[r])[1]>>
                           ELSE <<"more", r, j - 1, OwnList(S[r])[j]>>
             IsFree(h, i) == i \in DOMAIN F /\ h = <<"free", 0, i, F[i]>>
             IsOwn(h, r, j) == /\ r \in Rgids /\ j \in DOMAIN OwnList(S[r])
                               /\ h = Slot(r, j)
  <2>3. ASSUME NEW h \in Held(p)
        PROVE  (\E i : IsFree(h, i)) \/ (\E r, j : IsOwn(h, r, j))
    <3>1. CASE \E i \in DOMAIN F : h = <<"free", 0, i, F[i]>>
      BY <3>1
    <3>2. CASE \E r \in Rgids : h = <<"first", r, 0, S[r].first>>
      <4>1. PICK r \in Rgids : h = <<"first", r, 0, S[r].first>>
        BY <3>2
      <4>2. IsOwn(h, r, 1)
        BY <2>2, <4>1
      <4>3. QED
        BY <4>2
    <3>3. CASE \E r \in Rgids : \E i \in DOMAIN S[r].more :
                 h = <<"more", r, i, S[r].more[i]>>
      <4>1. PICK r \in Rgids : \E i \in DOMAIN S[r].more :
                 h = <<"more", r, i, S[r].more[i]>>
        BY <3>3
      <4>2. PICK i \in DOMAIN S[r].more : h = <<"more", r, i, S[r].more[i]>>
        BY <4>1
      <4>3. /\ i \in Nat /\ i + 1 \in DOMAIN OwnList(S[r]) /\ i + 1 # 1
            /\ OwnList(S[r])[i + 1] = S[r].more[i] /\ (i + 1) - 1 = i
        BY <2>2, <4>2
      <4>4. IsOwn(h, r, i + 1)
        BY <4>2, <4>3
      <4>5. QED
        BY <4>4
    <3>4. QED
      BY <3>1, <3>2, <3>3 DEF Held
  <2>4. ASSUME NEW h, NEW i, IsFree(h, i)
        PROVE  h[4] = F[i] /\ F[i] \in RegionIn(n)
    BY <2>1, <2>4
  <2>5. ASSUME NEW h, NEW r, NEW j, IsOwn(h, r, j)
        PROVE  h[4] = OwnList(S[r])[j] /\ OwnList(S[r])[j] \in RegionIn(n)
    BY <2>2, <2>5
  <2> HIDE DEF Slot
  <2>6. ASSUME NEW h \in Held(p), NEW k \in Held(p), h # k
        PROVE  Apart(h[4], k[4]) \/ Apart(k[4], h[4])
    <3>1. ASSUME NEW i, NEW j, IsFree(h, i), IsFree(k, j)
          PROVE  Apart(h[4], k[4])
      BY <2>1, <2>4, <2>6, <3>1 DEF Separate, FreeApart
    <3>2. ASSUME NEW i, NEW r, NEW j, IsFree(h, i), IsOwn(k, r, j)
          PROVE  Apart(h[4], k[4])
      <4>1. i \in DOMAIN F /\ r \in Rgids /\ j \in DOMAIN OwnList(S[r])
        BY <3>2
      <4>2. Apart(F[i], OwnList(S[r])[j])
        BY <2>1, <4>1 DEF Separate, FreeOwnApart
      <4>3. QED
        BY <2>4, <2>5, <3>2, <4>2
    <3>3. ASSUME NEW i, NEW r, NEW j, IsFree(k, i), IsOwn(h, r, j)
          PROVE  Apart(k[4], h[4])
      <4>1. i \in DOMAIN F /\ r \in Rgids /\ j \in DOMAIN OwnList(S[r])
        BY <3>3
      <4>2. Apart(F[i], OwnList(S[r])[j])
        BY <2>1, <4>1 DEF Separate, FreeOwnApart
      <4>3. QED
        BY <2>4, <2>5, <3>3, <4>2
    <3>4. ASSUME NEW r, NEW j, NEW t, NEW i, IsOwn(h, r, j), IsOwn(k, t, i)
          PROVE  Apart(h[4], k[4])
      <4>1. r # t \/ i # j
        BY <2>6, <3>4
      <4>2. /\ r \in Rgids /\ j \in DOMAIN OwnList(S[r])
            /\ t \in Rgids /\ i \in DOMAIN OwnList(S[t])
        BY <3>4
      <4>3. Apart(OwnList(S[r])[j], OwnList(S[t])[i])
        BY <2>1, <4>1, <4>2 DEF Separate, OwnApart
      <4>4. QED
        BY <2>5, <3>4, <4>3
    <3>5. QED
      BY <2>3, <3>1, <3>2, <3>3, <3>4
  <2>7. ASSUME NEW h \in Held(p)
        PROVE  h[4] \in RegionIn(n)
    BY <2>3, <2>4, <2>5
  <2>8. ASSUME NEW h \in Held(p), NEW k \in Held(p), h # k
        PROVE  Cells(h[4]) \cap Cells(k[4]) = {}
    <3>1. h[4] \in RegionIn(n) /\ k[4] \in RegionIn(n)
      BY <2>7
    <3>2. Cells(h[4]) \cap Cells(k[4]) = {} \/ Cells(k[4]) \cap Cells(h[4]) = {}
      BY <2>1, <2>6, <2>8, <3>1, ApartCells
    <3>3. QED
      BY <3>2
  <2>9. ASSUME NEW h \in Held(p)
        PROVE  Cells(h[4]) \subseteq 0 .. n - 1
    <3>1. h[4] \in RegionIn(n)
      BY <2>7
    <3>2. ASSUME NEW a \in RegionIn(n)
          PROVE  Cells(a) \subseteq 0 .. n - 1
      BY <2>1 DEF RegionIn, Cells
    <3>3. QED
      BY <3>1, <3>2
  <2>10. QED
    BY <2>8, <2>9
<1>2. Inv => RegionsDisjoint
  BY <1>1 DEF RegionsDisjoint
<1>3. QED
  BY <1>2, InvHolds, PTL

-----------------------------------------------------------------------------
(* The pages of the area *)

(* An action that maps the pages of process p: an allocation, or SYSCALL   *)
(* 17, whose vm area grows.                                                *)
Grows(p) ==
  /\ Growing(p) /\ GotAll(p)
  /\ inc_vma_limit(p, AreaAtBrk(p, call[p].size))
  /\ Return(p)
  /\ UNCHANGED <<ram, ramHead, swpHead>>

LEMMA GrowingSize ==
  ASSUME Inv, NEW p \in Procs, Growing(p)
  PROVE  call[p].size \in Sizes
BY CallTypes DEF Inv, Growing

(* The others keep the area and the page tables, but for a page fault.     *)
LEMMA StepKinds ==
  ASSUME [UserNext]_vars
  PROVE  \/ UNCHANGED <<vm_end, pgd, swpHead>>
         \/ \E p \in Procs : Grows(p)
         \/ \E p \in Procs : TakeSwap(p) \/ NoSwap(p)
<1>1. CASE UNCHANGED vars
  BY <1>1 DEF vars, regionVars, pageVars, callVars, listVars
<1>2. ASSUME NEW p \in Procs, Instruction(p)
      PROVE  \/ UNCHANGED <<vm_end, pgd, swpHead>>
             \/ Grows(p) \/ TakeSwap(p) \/ NoSwap(p)
  <2>1. CASE AllocGrow(p)
    BY <2>1 DEF AllocGrow, Grows, Growing
  <2>2. CASE \/ \E r \in Rgids, size \in Sizes : AllocFromFree(p, r, size)
             \/ \E r \in Rgids : Free(p, r)
             \/ AllocFail(p)
    BY <2>2 DEF AllocFromFree, Free, AllocFail, pageVars, callVars, listVars
  <2>3. CASE \/ \E r \in Rgids, size \in Sizes : AllocCall(p, r, size)
             \/ ReadHead(p) \/ TakeFrame(p)
             \/ \E r \in Rgids, off \in Offsets :
                  \/ Fault(p, r, off, FALSE, 0)
                  \/ \E v \in Values : Fault(p, r, off, TRUE, v)
    BY <2>3 DEF AllocCall, ReadHead, TakeFrame, Fault, regionVars, pageVars, listVars
  <2>4. CASE \/ \E r \in Rgids : KillAll(p, r)
             \/ \E r \in Rgids, off \in Offsets :
                  Read(p, r, off) \/ Hang(p, r, off) \/ \E v \in Values : Write(p, r, off, v)
             \/ Access(p) \/ NoEffect(p)
    BY <2>4 DEF KillAll, Read, Hang, Write, Access, NoEffect, regionVars, pageVars,
                callVars, listVars
  <2>5. QED
    BY <1>2, <2>1, <2>2, <2>3, <2>4 DEF Instruction
<1>3. ASSUME NEW p \in Procs, UserMemmap(p)
      PROVE  UNCHANGED <<vm_end, pgd, swpHead>> \/ Grows(p)
  <2>1. CASE MemmapGrow(p)
    BY <2>1 DEF MemmapGrow, Grows, Growing
  <2>2. CASE \/ \E size \in Sizes : MemmapCall(p, size)
             \/ MemmapFail(p)
             \/ \E f \in Frames, i \in 0 .. PageSz - 1, v \in Values : MemmapWrite(p, f, i, v)
    BY <2>2 DEF MemmapCall, MemmapFail, MemmapWrite, regionVars, pageVars, callVars, listVars
  <2>3. QED
    BY <1>3, <2>1, <2>2 DEF UserMemmap
<1>4. QED
  BY <1>1, <1>2, <1>3 DEF UserNext, Next

LEMMA AreaNext ==
  ASSUME Inv, Inv', AreaMapped, [UserNext]_vars
  PROVE  AreaMapped'
<1>1. ASSUME NEW q \in Procs
      PROVE  vm_end'[q] % PageSz = 0
  <2>1. PICK n \in Nat : vm_end'[q] = n * PageSz
    BY DEF Inv, RegionInv, AreaWhole
  <2>2. QED
    BY <2>1, PageArithmetic
<1>2. CASE UNCHANGED <<vm_end, pgd, swpHead>>
  BY <1>2 DEF AreaMapped, Unfaulted
<1>3. ASSUME NEW p \in Procs, Grows(p)
      PROVE  AreaMapped'
  <2>m. PICK k \in Nat, n \in Nat : Maps(p, k, n)
    BY <1>3, GrowingSize, MapPages DEF Grows, GotAll
  <2>1. /\ vm_end[p] = k * PageSz /\ vm_end'[p] = (k + n) * PageSz
        /\ \A q \in Procs : q # p => vm_end'[q] = vm_end[q]
        /\ \A q \in Procs, g \in Pages :
             pgd'[q][g] = IF q = p /\ g \in k .. k + n - 1
                          THEN pte_set_fpn(pgd[p][g], frm_lst[p][k + n - g])
                          ELSE pgd[q][g]
    BY <2>m DEF Maps
  <2>2. ASSUME NEW q \in Procs, NEW g \in Pages
        PROVE  /\ g * PageSz < vm_end'[q] => pgd'[q][g].present
               /\ Unfaulted' => (pgd'[q][g].present => g * PageSz < vm_end'[q])
    <3>1. /\ g * PageSz < vm_end[q] => pgd[q][g].present
          /\ Unfaulted' => (pgd[q][g].present => g * PageSz < vm_end[q])
      BY <1>3 DEF AreaMapped, Unfaulted, Grows
    <3>2. CASE q # p
      BY <2>1, <3>1, <3>2
    <3>3. CASE q = p
      <4>1. g \in Nat
        BY DEF Pages
      <4>2. /\ g * PageSz < vm_end[p] <=> g < k
            /\ g * PageSz < vm_end'[p] <=> g < k + n
        <5>1. k + n \in Nat
          OBVIOUS
        <5>2. /\ g * PageSz < k * PageSz <=> g < k
              /\ g * PageSz < (k + n) * PageSz <=> g < k + n
          BY <4>1, <5>1, PageOrder
        <5>3. QED
          BY <2>1, <5>2
      <4>3. CASE g \in k .. k + n - 1
        <5>1. pgd'[p][g] = pte_set_fpn(pgd[p][g], frm_lst[p][k + n - g])
          BY <2>1, <4>3
        <5>2. pgd'[p][g].present
          BY <5>1 DEF pte_set_fpn
        <5>3. QED
          BY <3>3, <4>2, <4>3, <5>2
      <4>4. CASE g \notin k .. k + n - 1
        <5>1. pgd'[p][g] = pgd[p][g] /\ (g < k <=> g < k + n)
          BY <2>1, <4>1, <4>4
        <5>2. QED
          BY <3>1, <3>3, <4>2, <5>1
      <4>5. QED
        BY <4>3, <4>4
    <3>4. QED
      BY <3>2, <3>3
  <2>3. QED
    BY <1>1, <2>2 DEF AreaMapped
<1>4. ASSUME NEW p \in Procs, TakeSwap(p) \/ NoSwap(p)
      PROVE  AreaMapped'
  <2>1. /\ \A q \in Procs, h \in Pages : pgd[q][h].present => pgd'[q][h].present
        /\ ~Unfaulted'
    BY <1>4, FaultCall, FaultPages DEF Inv
  <2>2. UNCHANGED vm_end
    BY <1>4 DEF TakeSwap, NoSwap, ReplacePage, regionVars
  <2>3. QED
    BY <1>1, <2>1, <2>2 DEF AreaMapped
<1>5. QED
  BY <1>2, <1>3, <1>4, StepKinds

LEMMA AreaInit ==
  ASSUME Init
  PROVE  AreaMapped
<1>1. ASSUME NEW g \in Pages
      PROVE  g * PageSz \in Nat
  BY PageArithmetic DEF Pages
<1>2. \A p \in Procs, g \in Pages : ~pgd[p][g].present /\ ~(g * PageSz < vm_end[p])
  BY <1>1 DEF Init, EmptyPte
<1>3. \A p \in Procs : vm_end[p] % PageSz = 0
  BY MmAssumption DEF Init
<1>4. QED
  BY <1>2, <1>3 DEF AreaMapped

(* The whole vm area is mapped, whatever other processes do between the    *)
(* steps of the call that lets it grow, and however it fails: an           *)
(* instruction that keeps to its variables never gets into pg_getpage().   *)
THEOREM AreaIsMapped == UserSpec => []AreaMapped
<1>1. Init => AreaMapped
  BY AreaInit
<1>2. Inv /\ Inv' /\ AreaMapped /\ [UserNext]_vars => AreaMapped'
  BY AreaNext
<1>3. QED
  BY <1>1, <1>2, InvHolds, PTL DEF UserSpec
=============================================================================
