-------------------------------- MODULE VmProofs -------------------------------
(***************************************************************************)
(* Proofs about Vm, for all sets of CPUs, threads, address spaces and      *)
(* frames: pages and page maps are counted, no TLB has an entry that the   *)
(* page table does not have, and address spaces have memories of their     *)
(* own.                                                                    *)
(***************************************************************************)
EXTENDS Vm, FiniteSetTheorems, TLAPS

-------------------------------------------------------------------------------
(***************************************************************************)
(* The inductive invariant.                                                *)
(***************************************************************************)
Busy == {"insert", "stack", "flush", "shoot"}

\* What a thread has in its hands, by its place in the code.
LocalOK(r) ==
    /\ r.cpu # None <=> r.pc \in {"mask", "user", "shoot"}
    /\ r.pc \in {"none", "run"} => r.odec = NoDec
    /\ r.pc \in {"clear", "dec"} => r.odec # NoDec
    /\ r.new # None <=> r.pc = "insert"
    /\ r.pc = "stack" => r.child # None
    /\ r.child # None => r.pc \in {"stack", "flush", "shoot"}
    /\ r.failed => r.child # None /\ r.pc # "stack"
    /\ r.old => r.pc \in {"flush", "shoot"} /\ r.child = None

\* A thread lives in a process that lives, has the lock of its address space
\* while it changes the page table, and runs on a CPU that has its page map.
ThreadOK(t) ==
    /\ LocalOK(th[t])
    /\ th[t].pc # "none" => vm[Home[t]].alive
    /\ th[t].pc \in Busy => vm[Home[t]].lock = t
    /\ th[t].pc = "insert" => vm[Home[t]].mapped /\ pg[th[t].new].ref = 0
    /\ th[t].pc = "stack" => /\ Present(vm[th[t].child].pte)
                             /\ vm[Home[t]].pte = vm[th[t].child].pte
    /\ th[t].pc \in {"mask", "user"} => cpu[th[t].cpu].cr3 = Home[t]

SpaceOK(a) ==
    /\ vm[a].lock # None => Home[vm[a].lock] = a /\ th[vm[a].lock].pc \in Busy
    /\ ~vm[a].alive => ~vm[a].mapped
    /\ ~vm[a].mapped => vm[a].pte = NoPte

\* A child that is being made: nothing but the thread that makes it knows it.
ChildOK(t, b) ==
    /\ vm[b].alive /\ vm[b].lock = None
    /\ \A u \in Threads : Home[u] = b => th[u].pc = "none"
    /\ \A c \in CPUs : cpu[c].cr3 # b
    /\ \A u \in Threads : th[u].child = b => u = t

\* Two threads are neither on one CPU nor have taken the same new page.
Apart(t, u) ==
    /\ th[t].cpu = th[u].cpu => th[t].cpu = None
    /\ th[t].new = th[u].new => th[t].new = None

ThreadsInv  == \A t \in Threads : ThreadOK(t)
SpacesInv   == \A a \in Spaces : SpaceOK(a)
ChildrenInv == \A t \in Threads, b \in Spaces : th[t].child = b => ChildOK(t, b)
ApartInv    == \A t, u \in Threads : t # u => Apart(t, u)
CoreInv     == TypeOK /\ ThreadsInv /\ SpacesInv /\ ChildrenInv /\ ApartInv /\ RefsCounted

\* The masks, as long as no CPU loads a page map again too early: a CPU that has a
\* page map loaded is in its mask or about to be, and a thread that is to clear a
\* CPU in a mask finds that the CPU has moved on.
Masked(c)   == cpu[c].cr3 # None => \/ c \in vm[cpu[c].cr3].mask
                                    \/ \E t \in Threads : th[t].cpu = c /\ th[t].pc = "mask"
MovedOn(t)  == th[t].odec # NoDec => cpu[th[t].odec.cpu].cr3 # th[t].odec.pm
MaskInv     == /\ \A c \in CPUs : Masked(c)
               /\ \A t \in Threads : MovedOn(t)

\* Whatever loads come when: a CPU that is not in the mask yet has an empty TLB.
LoadInv     == \A t \in Threads : th[t].pc = "mask" => cpu[th[t].cpu].tlb = NoEntry

\* A TLB has what the page table has, unless its flush is still to come.
Current(e, p) == e.pg = p.pg /\ (e.w => "W" \in p.flags)
ToFlush(r, c) == r.pc \in {"stack", "flush"} \/ (r.pc = "shoot" /\ c \in r.stale)
TlbOK(c, a) ==
    cpu[c].cr3 = a /\ vm[a].alive /\ cpu[c].tlb # NoEntry =>
      \/ Current(cpu[c].tlb, vm[a].pte)
      \/ vm[a].lock # None /\ ToFlush(th[vm[a].lock], c)
TlbInv == \A c \in CPUs, a \in Spaces : TlbOK(c, a)

\* The same of the CPUs in the mask, which needs nothing of the loads.
MaskedOK(c, a) == c \in vm[a].mask => TlbOK(c, a)
MaskedInv      == \A c \in CPUs, a \in Spaces : MaskedOK(c, a)

\* A step puts a CPU into a mask only with an empty TLB.
Fresh == \A a \in Spaces, c \in CPUs : c \in vm'[a].mask => \/ c \in vm[a].mask
                                                             \/ cpu'[c].tlb = NoEntry

\* Contents.  FlagsOK: the entries there can be in each kind of region.
FlagsOK(p) ==
    /\ Present(p) => p.flags \in {{"W"}, {"COW"}, {"W", "WASCOW"}}
    /\ mtype = "shareanon" /\ Present(p) => p.flags = {"W"} /\ p.pg \in Frames
    /\ mtype = "sharefile" /\ Present(p) => p.pg = File
    /\ "W" \in p.flags /\ ~Shared => p.pg \in Frames
Owner(a, g) == \A b \in Spaces \ {a} : vm[b].pte.pg # g
EntryOK(a) ==
    /\ FlagsOK(vm[a].pte)
    /\ "W" \in vm[a].pte.flags /\ ~Shared => Owner(a, vm[a].pte.pg)
    /\ vm[a].alive /\ vm[a].mapped => pg[Source(vm[a].pte)].val = view[a]
    /\ vm[a].mapped /\ mtype = "shareanon" => Present(vm[a].pte)
\* What a TLB offers while no thread of the process replaces the page: the page
\* of the page table, and for writing one that nobody else has but a child that
\* is being made.
OfferOK(c, a) ==
    cpu[c].cr3 = a /\ vm[a].alive /\ ~Replacing(a) /\ cpu[c].tlb # NoEntry =>
      /\ cpu[c].tlb.pg = vm[a].pte.pg
      /\ cpu[c].tlb.w /\ ~Shared =>
           /\ cpu[c].tlb.pg \in Frames
           /\ \A b \in Spaces \ {a} : vm[b].pte.pg = cpu[c].tlb.pg =>
                                        \E t \in Threads : Home[t] = a /\ th[t].child = b
\* What a thread that copies a page can rely on.
CopyOK(t) ==
    /\ th[t].pc = "insert" =>
         /\ ~Shared /\ "W" \notin vm[Home[t]].pte.flags
         /\ pg[th[t].new].val = view[Home[t]]
    /\ th[t].pc = "stack" =>
         /\ mtype = "anon"
         /\ vm[Home[t]].pte.pg \in Frames
         /\ \A b \in Spaces \ {Home[t], th[t].child} : vm[b].pte.pg # vm[Home[t]].pte.pg
ZerosOK   == pg[Zero].val = 0 /\ (~Shared => pg[File].val = 0)
EntriesOK == \A a \in Spaces : EntryOK(a)
CommonOK  == mtype = "shareanon" => \A a, b \in Spaces : vm[a].mapped /\ vm[b].mapped =>
                                                         vm[a].pte.pg = vm[b].pte.pg
OffersOK  == \A c \in CPUs, a \in Spaces : OfferOK(c, a)
CopiesOK  == \A t \in Threads : CopyOK(t)
ContentsInv == ZerosOK /\ EntriesOK /\ CommonOK /\ OffersOK /\ CopiesOK

-------------------------------------------------------------------------------
(***************************************************************************)
(* Types.                                                                  *)
(***************************************************************************)
\* The fields of the records that the state is made of.
LEMMA ThType ==
    ASSUME NEW r \in ThRecs
    PROVE  /\ r.pc \in Places /\ r.cpu \in CPUs \cup {None}
           /\ r.op \in {"none", "rfault", "wfault"} /\ r.odec \in Odecs
           /\ r.new \in Frames \cup {None} /\ r.old \in BOOLEAN
           /\ r.child \in Spaces \cup {None} /\ r.failed \in BOOLEAN
           /\ r.stale \in SUBSET CPUs
           /\ Back(r) \in ThRecs
           /\ Back(r).pc = (IF r.odec = NoDec THEN "run" ELSE "clear")
           /\ Back(r).cpu = None /\ Back(r).new = None /\ ~Back(r).old
           /\ Back(r).child = None /\ ~Back(r).failed /\ Back(r).stale = {}
           /\ Back(r).odec = r.odec
BY DEF ThRecs, Places, Back

\* A thread that has just been made has nothing in its hands.
LEMMA FreshThread ==
    ASSUME NEW q \in Places
    PROVE  /\ Thread(q) \in ThRecs
           /\ Thread(q).pc = q /\ Thread(q).cpu = None /\ Thread(q).new = None
           /\ ~Thread(q).old /\ Thread(q).child = None /\ ~Thread(q).failed
           /\ Thread(q).stale = {} /\ Thread(q).odec = NoDec
BY DEF ThRecs, Places, Thread, Odecs

\* Fields of the record of an address space.
LEMMA AsType ==
    ASSUME NEW s \in AsRecs
    PROVE  /\ s.alive \in BOOLEAN /\ s.mapped \in BOOLEAN /\ s.pte \in Ptes
           /\ s.lock \in Threads \cup {None} /\ s.doomed \in BOOLEAN
           /\ s.ref \in Nat /\ s.mask \in SUBSET CPUs
BY DEF AsRecs

\* None is nothing.
LEMMA NoneApart == /\ None \notin Spaces /\ None \notin CPUs /\ None \notin Threads
                   /\ None \notin Pages /\ None \notin Frames
                   /\ Zero \notin Frames /\ File \notin Frames /\ Zero # File
                   /\ Frames \subseteq Pages /\ Zero \in Pages /\ File \in Pages
                   /\ \A t \in Threads : Home[t] \in Spaces
BY VmAssumption DEF Pages

\* Entries: present ones lead to a page.
LEMMA PteType ==
    ASSUME NEW p \in Ptes
    PROVE  /\ p.pg \in Pages \cup {None} /\ p.flags \in SUBSET Flags
           /\ Present(p) <=> p.pg # None
           /\ Present(p) <=> p.pg \in Pages
           /\ ~Present(p) => p = NoPte /\ p.pg = None /\ p.flags = {}
BY VmAssumption DEF Ptes, NoPte, Pte, Present, Pages, Flags

\* An entry that is made of a page and flags.
LEMMA MakePte ==
    ASSUME NEW g \in Pages, NEW f \in SUBSET Flags
    PROVE  /\ Pte(g, f) \in Ptes /\ Pte(g, f).pg = g /\ Pte(g, f).flags = f
           /\ Present(Pte(g, f)) /\ NoPte \in Ptes /\ NoPte.pg = None /\ NoPte.flags = {}
           /\ ~Present(NoPte)
BY VmAssumption DEF Ptes, Pte, NoPte, Present, Pages

\* The empty entry.
LEMMA NoPteFacts == NoPte \in Ptes /\ NoPte.pg = None /\ NoPte.flags = {} /\ ~Present(NoPte)
BY DEF Ptes, Pte, NoPte, Present

\* The entry of a page that was copied or claimed.
LEMMA WritableFacts ==
    ASSUME NEW g \in Pages
    PROVE  /\ Writable(g) \in Ptes /\ Writable(g).pg = g
           /\ Writable(g).flags = {"W", "WASCOW"} /\ Present(Writable(g))
BY MakePte DEF Writable, Flags

\* Fields of the record of a CPU.
LEMMA CpuType ==
    ASSUME NEW k \in CpuRecs
    PROVE  /\ k.cr3 \in Spaces \cup {None} /\ k.tlb \in Entries
           /\ k.tlb.pg \in Pages \cup {None} /\ k.tlb.w \in BOOLEAN
           /\ k.tlb # NoEntry <=> k.tlb.pg \in Pages
           /\ k.tlb # NoEntry <=> k.tlb.pg # None
           /\ k.tlb.w => k.tlb # NoEntry
<1>1. k.cr3 \in Spaces \cup {None} /\ k.tlb \in Entries
  BY DEF CpuRecs
<1>2. CASE k.tlb = NoEntry
  BY <1>1, <1>2, VmAssumption DEF NoEntry, Pages
<1>3. CASE k.tlb \in [pg : Pages, w : BOOLEAN]
  BY <1>1, <1>3, VmAssumption DEF NoEntry, Pages
<1> QED BY <1>1, <1>2, <1>3 DEF Entries

\* What a thread is still to take back.
LEMMA OdecType ==
    ASSUME NEW d \in Odecs
    PROVE  /\ d = NoDec <=> d.pm = None
           /\ d # NoDec => d.pm \in Spaces /\ d.cpu \in CPUs
           /\ d.pm \in Spaces \cup {None}
           /\ NoDec \in Odecs /\ NoDec.pm = None
BY VmAssumption DEF Odecs, NoDec

\* The types of what the variables have for each thread, space, CPU and page.
LEMMA StateTypes ==
    ASSUME TypeOK
    PROVE  /\ \A t \in Threads : th[t] \in ThRecs
           /\ \A a \in Spaces : vm[a] \in AsRecs
           /\ \A c \in CPUs : cpu[c] \in CpuRecs
           /\ \A g \in Pages : pg[g] \in PgRecs /\ pg[g].ref \in Nat /\ pg[g].val \in Nat
           /\ \A t \in Threads : Home[t] \in Spaces
BY VmAssumption DEF TypeOK, PgRecs

\* The same after a step.
LEMMA StateTypesNext ==
    ASSUME TypeOK'
    PROVE  /\ \A t \in Threads : th'[t] \in ThRecs
           /\ \A a \in Spaces : vm'[a] \in AsRecs
           /\ \A c \in CPUs : cpu'[c] \in CpuRecs
           /\ \A g \in Pages : pg'[g] \in PgRecs /\ pg'[g].ref \in Nat /\ pg'[g].val \in Nat
BY DEF TypeOK, PgRecs

-------------------------------------------------------------------------------
(***************************************************************************)
(* Counting.                                                               *)
(***************************************************************************)
\* When two subsets of a finite set differ in one element at most, so do their
\* cardinalities.
LEMMA CountMove ==
    ASSUME NEW S, IsFiniteSet(S), NEW A \in SUBSET S, NEW B \in SUBSET S, NEW x \in S,
           \A y \in S \ {x} : y \in A <=> y \in B
    PROVE  /\ Cardinality(A) \in Nat /\ Cardinality(B) \in Nat
           /\ Cardinality(B) = Cardinality(A) - (IF x \in A THEN 1 ELSE 0)
                                              + (IF x \in B THEN 1 ELSE 0)
<1>1. IsFiniteSet(A) /\ IsFiniteSet(B)
  BY FS_Subset
<1>2. Cardinality(A) \in Nat /\ Cardinality(B) \in Nat
  BY <1>1, FS_CardinalityType
<1>4. CASE x \in A <=> x \in B
  <2>1. A = B
    BY <1>4
  <2> QED BY <1>2, <1>4, <2>1
<1>5. CASE x \in A /\ x \notin B
  <2>1. B = A \ {x}
    BY <1>5
  <2>2. Cardinality(B) = Cardinality(A) - 1
    BY <1>1, <1>5, <2>1, FS_RemoveElement
  <2> QED BY <1>2, <1>5, <2>2
<1>6. CASE x \notin A /\ x \in B
  <2>1. B = A \cup {x}
    BY <1>6
  <2>2. Cardinality(B) = Cardinality(A) + 1
    BY <1>1, <1>6, <2>1, FS_AddElement
  <2> QED BY <1>2, <1>6, <2>2
<1> QED BY <1>4, <1>5, <1>6

\* Pages stay counted when the entry of one address space goes from a page to
\* another and the counts follow.
LEMMA PagesMove ==
    ASSUME CoreInv, NEW h \in Spaces,
           \A a \in Spaces \ {h} : vm'[a].pte.pg = vm[a].pte.pg,
           \A g \in Pages : pg'[g].ref = pg[g].ref - (IF vm[h].pte.pg = g THEN 1 ELSE 0)
                                         + (IF vm'[h].pte.pg = g THEN 1 ELSE 0)
    PROVE  /\ PagesCounted'
           /\ \A g \in Pages : pg'[g].ref \in Nat
<1> SUFFICES ASSUME NEW g \in Pages
             PROVE  /\ pg'[g].ref = Cardinality({a \in Spaces : vm'[a].pte.pg = g})
                                      + (IF g \in {Zero, File} THEN 1 ELSE 0)
                    /\ pg'[g].ref \in Nat
  BY DEF PagesCounted
<1> DEFINE H == {a \in Spaces : vm[a].pte.pg = g}
           H1 == {a \in Spaces : vm'[a].pte.pg = g}
<1> SUFFICES pg'[g].ref = Cardinality(H1) + (IF g \in {Zero, File} THEN 1 ELSE 0)
             /\ pg'[g].ref \in Nat
  OBVIOUS
<1>1. pg[g].ref = Cardinality(H) + (IF g \in {Zero, File} THEN 1 ELSE 0)
  BY DEF CoreInv, RefsCounted, PagesCounted
<1>2. /\ H \in SUBSET Spaces /\ H1 \in SUBSET Spaces
      /\ \A a \in Spaces \ {h} : a \in H <=> a \in H1
      /\ h \in H <=> vm[h].pte.pg = g
      /\ h \in H1 <=> vm'[h].pte.pg = g
  OBVIOUS
<1>3. IsFiniteSet(Spaces)
  BY VmAssumption
<1> HIDE DEF H, H1
<1>4. /\ Cardinality(H) \in Nat /\ Cardinality(H1) \in Nat
      /\ Cardinality(H1) = Cardinality(H) - (IF h \in H THEN 1 ELSE 0)
                                          + (IF h \in H1 THEN 1 ELSE 0)
  BY <1>2, <1>3, CountMove
<1>5. PICK z \in {0, 1} : z = (IF g \in {Zero, File} THEN 1 ELSE 0)
  OBVIOUS
<1>6. pg[g].ref = Cardinality(H) + z
  BY <1>1, <1>5
<1>7. pg'[g].ref = Cardinality(H1) + z
  <2>1. pg'[g].ref = pg[g].ref - (IF h \in H THEN 1 ELSE 0) + (IF h \in H1 THEN 1 ELSE 0)
    BY <1>2
  <2> QED BY <1>4, <1>5, <1>6, <2>1
<1> QED BY <1>4, <1>5, <1>7

\* Page maps stay counted when one CPU loads another and one thread notes another
\* to take back the count of.
LEMMA PmapsMove ==
    ASSUME CoreInv, NEW c \in CPUs, NEW t \in Threads,
           \A k \in CPUs \ {c} : cpu'[k].cr3 = cpu[k].cr3,
           \A u \in Threads \ {t} : th'[u].odec.pm = th[u].odec.pm,
           \A a \in Spaces : vm'[a].ref = vm[a].ref
                - (IF cpu[c].cr3 = a THEN 1 ELSE 0) + (IF cpu'[c].cr3 = a THEN 1 ELSE 0)
                - (IF th[t].odec.pm = a THEN 1 ELSE 0) + (IF th'[t].odec.pm = a THEN 1 ELSE 0)
                - (IF vm[a].alive THEN 1 ELSE 0) + (IF vm'[a].alive THEN 1 ELSE 0)
    PROVE  PmapsCounted' /\ \A a \in Spaces : vm'[a].ref \in Nat
<1> SUFFICES ASSUME NEW a \in Spaces
             PROVE  /\ vm'[a].ref = Cardinality({k \in CPUs : cpu'[k].cr3 = a})
                                    + Cardinality({u \in Threads : th'[u].odec.pm = a})
                                    + (IF vm'[a].alive THEN 1 ELSE 0)
                    /\ vm'[a].ref \in Nat
  BY DEF PmapsCounted
<1> DEFINE L == {k \in CPUs : cpu[k].cr3 = a}
           L1 == {k \in CPUs : cpu'[k].cr3 = a}
           D == {u \in Threads : th[u].odec.pm = a}
           D1 == {u \in Threads : th'[u].odec.pm = a}
<1> SUFFICES /\ vm'[a].ref = Cardinality(L1) + Cardinality(D1)
                               + (IF vm'[a].alive THEN 1 ELSE 0)
             /\ vm'[a].ref \in Nat
  OBVIOUS
<1>1. vm[a].ref = Cardinality(L) + Cardinality(D) + (IF vm[a].alive THEN 1 ELSE 0)
  BY DEF CoreInv, RefsCounted, PmapsCounted
<1>2. /\ L \in SUBSET CPUs /\ L1 \in SUBSET CPUs
      /\ \A k \in CPUs \ {c} : k \in L <=> k \in L1
      /\ c \in L <=> cpu[c].cr3 = a
      /\ c \in L1 <=> cpu'[c].cr3 = a
  OBVIOUS
<1>3. /\ D \in SUBSET Threads /\ D1 \in SUBSET Threads
      /\ \A u \in Threads \ {t} : u \in D <=> u \in D1
      /\ t \in D <=> th[t].odec.pm = a
      /\ t \in D1 <=> th'[t].odec.pm = a
  OBVIOUS
<1>4. IsFiniteSet(CPUs) /\ IsFiniteSet(Threads)
  BY VmAssumption
<1> HIDE DEF L, L1, D, D1
<1>5. /\ Cardinality(L) \in Nat /\ Cardinality(L1) \in Nat
      /\ Cardinality(L1) = Cardinality(L) - (IF c \in L THEN 1 ELSE 0)
                                          + (IF c \in L1 THEN 1 ELSE 0)
  BY <1>2, <1>4, CountMove
<1>6. /\ Cardinality(D) \in Nat /\ Cardinality(D1) \in Nat
      /\ Cardinality(D1) = Cardinality(D) - (IF t \in D THEN 1 ELSE 0)
                                          + (IF t \in D1 THEN 1 ELSE 0)
  BY <1>3, <1>4, CountMove
<1>7. vm'[a].ref = Cardinality(L1) + Cardinality(D1) + (IF vm'[a].alive THEN 1 ELSE 0)
  <2>1. PICK z \in {0, 1} : z = (IF vm[a].alive THEN 1 ELSE 0)
    OBVIOUS
  <2>2. PICK z1 \in {0, 1} : z1 = (IF vm'[a].alive THEN 1 ELSE 0)
    OBVIOUS
  <2>3. vm[a].ref = Cardinality(L) + Cardinality(D) + z
    BY <1>1, <2>1
  <2>4. vm'[a].ref = vm[a].ref
                - (IF c \in L THEN 1 ELSE 0) + (IF c \in L1 THEN 1 ELSE 0)
                - (IF t \in D THEN 1 ELSE 0) + (IF t \in D1 THEN 1 ELSE 0) - z + z1
    BY <1>2, <1>3, <2>1, <2>2
  <2>5. vm'[a].ref = Cardinality(L1) + Cardinality(D1) + z1
    <3>1. PICK i \in {0, 1}, j \in {0, 1} :
            i = (IF c \in L THEN 1 ELSE 0) /\ j = (IF c \in L1 THEN 1 ELSE 0)
      OBVIOUS
    <3>2. PICK k \in {0, 1}, l \in {0, 1} :
            k = (IF t \in D THEN 1 ELSE 0) /\ l = (IF t \in D1 THEN 1 ELSE 0)
      OBVIOUS
    <3>3. vm'[a].ref = vm[a].ref - i + j - k + l - z + z1
      BY <2>4, <3>1, <3>2
    <3>4. Cardinality(L1) = Cardinality(L) - i + j /\ Cardinality(D1) = Cardinality(D) - k + l
      BY <1>5, <1>6, <3>1, <3>2
    <3> QED BY <1>5, <1>6, <2>3, <3>3, <3>4
  <2> QED BY <2>2, <2>5
<1>8. (IF vm'[a].alive THEN 1 ELSE 0) \in Nat
  OBVIOUS
<1> QED BY <1>5, <1>6, <1>7, <1>8

\* A page map that a CPU has loaded or a thread has to release is counted, and a
\* page that an entry leads to is.
LEMMA CountedUsed ==
    ASSUME CoreInv
    PROVE  /\ \A a \in Spaces, c \in CPUs : cpu[c].cr3 = a => vm[a].ref > 0
           /\ \A a \in Spaces, g \in Pages : vm[a].pte.pg = g => pg[g].ref # 0
<1>1. ASSUME NEW a \in Spaces, NEW c \in CPUs, cpu[c].cr3 = a PROVE vm[a].ref > 0
  <2> DEFINE L == {k \in CPUs : cpu[k].cr3 = a}
             D == {u \in Threads : th[u].odec.pm = a}
  <2>1. vm[a].ref = Cardinality(L) + Cardinality(D) + (IF vm[a].alive THEN 1 ELSE 0)
    BY DEF CoreInv, RefsCounted, PmapsCounted
  <2>2. IsFiniteSet(L) /\ IsFiniteSet(D) /\ c \in L
    BY <1>1, FS_Subset, VmAssumption
  <2>3. Cardinality(L) \in Nat /\ Cardinality(D) \in Nat /\ Cardinality(L) # 0
    BY <2>2, FS_CardinalityType, FS_EmptySet
  <2> HIDE DEF L, D
  <2>4. CASE vm[a].alive
    BY <2>1, <2>3, <2>4
  <2>5. CASE ~vm[a].alive
    BY <2>1, <2>3, <2>5
  <2> QED BY <2>4, <2>5
<1>2. ASSUME NEW a \in Spaces, NEW g \in Pages, vm[a].pte.pg = g PROVE pg[g].ref # 0
  <2> DEFINE H == {b \in Spaces : vm[b].pte.pg = g}
  <2>1. pg[g].ref = Cardinality(H) + (IF g \in {Zero, File} THEN 1 ELSE 0)
    BY <1>2 DEF CoreInv, RefsCounted, PagesCounted
  <2>2. IsFiniteSet(H) /\ a \in H
    BY <1>2, FS_Subset, VmAssumption
  <2>3. Cardinality(H) \in Nat /\ Cardinality(H) # 0
    BY <2>2, FS_CardinalityType, FS_EmptySet
  <2> HIDE DEF H
  <2>4. CASE g \in {Zero, File}
    BY <2>1, <2>3, <2>4
  <2>5. CASE g \notin {Zero, File}
    BY <2>1, <2>3, <2>5
  <2> QED BY <2>4, <2>5
<1> QED BY <1>1, <1>2

-------------------------------------------------------------------------------
(***************************************************************************)
(* Steps that move threads and leave pages, entries and locks alone.       *)
(***************************************************************************)
SameSpaces == \A a \in Spaces : /\ vm'[a].alive = vm[a].alive /\ vm'[a].mapped = vm[a].mapped
                                /\ vm'[a].pte = vm[a].pte /\ vm'[a].lock = vm[a].lock
                                /\ vm'[a].ref = vm[a].ref
SameCr3    == \A c \in CPUs : cpu'[c].cr3 = cpu[c].cr3
SameRefs   == \A g \in Pages : pg'[g].ref = pg[g].ref

\* What a thread may do in such a step.
Mild(u) ==
    /\ LocalOK(th'[u])
    /\ th'[u].odec = th[u].odec
    /\ th'[u].child # None => th'[u].child = th[u].child
    /\ th'[u].new # None => th'[u].new = th[u].new
    /\ th'[u].pc \in Busy <=> th[u].pc \in Busy
    /\ th'[u].pc = "none" <=> th[u].pc = "none"
    /\ th'[u].pc = "stack" => th[u].pc = "stack"
    /\ th'[u].pc = "insert" => th[u].pc = "insert"
    /\ th'[u].pc \in {"mask", "user"} => cpu[th'[u].cpu].cr3 = Home[u]
OneCpu == \A t, u \in Threads : t # u /\ th'[t].cpu = th'[u].cpu => th'[t].cpu = None

\* Such a step keeps the invariant.
LEMMA QuietStep ==
    ASSUME CoreInv, TypeOK', SameSpaces, SameCr3, SameRefs, \A u \in Threads : Mild(u), OneCpu
    PROVE  CoreInv'
<1> USE StateTypes, StateTypesNext DEF CoreInv
<1>1. ThreadsInv'
  <2> SUFFICES ASSUME NEW t \in Threads PROVE ThreadOK(t)'
    BY DEF ThreadsInv
  <2>1. ThreadOK(t) /\ Mild(t) /\ Home[t] \in Spaces
    BY DEF ThreadsInv
  <2>2. th[t] \in ThRecs /\ th'[t] \in ThRecs
    OBVIOUS
  <2>3. LocalOK(th[t]) /\ LocalOK(th'[t])
    BY <2>1 DEF ThreadOK, Mild
  <2>4. th'[t].pc # "none" => vm'[Home[t]].alive
    BY <2>1 DEF ThreadOK, Mild, SameSpaces
  <2>5. th'[t].pc \in Busy => vm'[Home[t]].lock = t
    BY <2>1 DEF ThreadOK, Mild, SameSpaces
  <2>6. th'[t].pc = "insert" => vm'[Home[t]].mapped /\ pg'[th'[t].new].ref = 0
    <3> SUFFICES ASSUME th'[t].pc = "insert" 
                 PROVE  vm'[Home[t]].mapped /\ pg'[th'[t].new].ref = 0
      OBVIOUS
    <3>1. th'[t].new # None /\ th[t].pc = "insert" /\ th'[t].new = th[t].new
      BY <2>1, <2>3 DEF Mild, LocalOK
    <3>2. th[t].new \in Frames
      BY <2>2, <3>1, ThType
    <3> QED BY <2>1, <3>1, <3>2 DEF ThreadOK, SameSpaces, SameRefs, Pages
  <2>7. th'[t].pc = "stack" => /\ Present(vm'[th'[t].child].pte)
                               /\ vm'[Home[t]].pte = vm'[th'[t].child].pte
    <3> SUFFICES ASSUME th'[t].pc = "stack"
                 PROVE  /\ Present(vm'[th'[t].child].pte)
                        /\ vm'[Home[t]].pte = vm'[th'[t].child].pte
      OBVIOUS
    <3>1. th'[t].child # None /\ th[t].pc = "stack" /\ th'[t].child = th[t].child
      BY <2>1, <2>3 DEF Mild, LocalOK
    <3>2. th[t].child \in Spaces
      BY <2>2, <3>1, ThType
    <3> QED BY <2>1, <3>1, <3>2 DEF ThreadOK, SameSpaces, Present
  <2>8. th'[t].pc \in {"mask", "user"} => cpu'[th'[t].cpu].cr3 = Home[t]
    <3> SUFFICES ASSUME th'[t].pc \in {"mask", "user"} PROVE cpu'[th'[t].cpu].cr3 = Home[t]
      OBVIOUS
    <3>1. th'[t].cpu \in CPUs
      BY <2>2, <2>3, ThType DEF LocalOK
    <3> QED BY <2>1, <3>1 DEF Mild, SameCr3
  <2> QED BY <2>3, <2>4, <2>5, <2>6, <2>7, <2>8 DEF ThreadOK
<1>2. SpacesInv'
  <2> SUFFICES ASSUME NEW a \in Spaces PROVE SpaceOK(a)'
    BY DEF SpacesInv
  <2>1. SpaceOK(a) /\ vm[a].lock \in Threads \cup {None}
    BY AsType DEF SpacesInv
  <2>2. vm'[a].lock # None => Home[vm'[a].lock] = a /\ th'[vm'[a].lock].pc \in Busy
    BY <2>1 DEF SpaceOK, SameSpaces, Mild
  <2> QED BY <2>1, <2>2 DEF SpaceOK, SameSpaces
<1>3. ChildrenInv'
  <2> SUFFICES ASSUME NEW t \in Threads, NEW b \in Spaces, th'[t].child = b
               PROVE  ChildOK(t, b)'
    BY DEF ChildrenInv
  <2>1. th[t].child = b
    BY VmAssumption DEF Mild
  <2>2. ChildOK(t, b)
    BY <2>1 DEF ChildrenInv
  <2>3. \A u \in Threads : th'[u].child = b => u = t
    BY <2>2, VmAssumption DEF Mild, ChildOK
  <2> QED BY <2>2, <2>3 DEF ChildOK, SameSpaces, SameCr3, Mild
<1>4. ApartInv'
  <2> SUFFICES ASSUME NEW t \in Threads, NEW u \in Threads, t # u PROVE Apart(t, u)'
    BY DEF ApartInv
  <2>1. Apart(t, u) /\ Mild(t) /\ Mild(u)
    BY DEF ApartInv
  <2> QED BY <2>1 DEF Apart, Mild, OneCpu
<1>5. RefsCounted'
  <2>1. \A g \in Pages : {a \in Spaces : vm'[a].pte.pg = g} = {a \in Spaces : vm[a].pte.pg = g}
    BY DEF SameSpaces
  <2>2. PagesCounted'
    BY <2>1 DEF RefsCounted, PagesCounted, SameRefs
  <2>3. \A a \in Spaces : /\ {c \in CPUs : cpu'[c].cr3 = a} = {c \in CPUs : cpu[c].cr3 = a}
                          /\ {t \in Threads : th'[t].odec.pm = a} =
                                {t \in Threads : th[t].odec.pm = a}
    BY DEF SameCr3, Mild
  <2>4. PmapsCounted'
    BY <2>3 DEF RefsCounted, PmapsCounted, SameSpaces
  <2> QED BY <2>2, <2>4 DEF RefsCounted
<1> QED BY <1>1, <1>2, <1>3, <1>4, <1>5

\* A thread that does not take part is mild.
LEMMA Uninvolved ==
    ASSUME CoreInv, NEW u \in Threads, th'[u] = th[u]
    PROVE  Mild(u)
BY DEF CoreInv, ThreadsInv, ThreadOK, Mild

\* So a step of one thread that gets no CPU, or one that nobody is on, is quiet.
LEMMA MoveStep ==
    ASSUME CoreInv, SameSpaces, SameCr3, SameRefs,
           vm' \in [Spaces -> AsRecs], cpu' \in [CPUs -> CpuRecs], pg' \in [Pages -> PgRecs],
           mtype' = mtype, view' \in [Spaces -> Nat], writes' \in Nat, forks' = forks,
           panic' \in BOOLEAN,
           NEW t \in Threads, NEW r \in ThRecs, th' = [th EXCEPT ![t] = r], Mild(t),
           r.cpu \in {None, th[t].cpu} \/ OnCpu(r.cpu) = {}
    PROVE  CoreInv'
<1>1. /\ th' \in [Threads -> ThRecs] /\ th'[t] = r
      /\ \A u \in Threads \ {t} : th'[u] = th[u]
  BY DEF CoreInv, TypeOK
<1>2. TypeOK'
  BY <1>1 DEF CoreInv, TypeOK
<1>3. \A u \in Threads : Mild(u)
  BY <1>1, Uninvolved
<1>4. OneCpu
  <2> SUFFICES ASSUME NEW u \in Threads, NEW v \in Threads, u # v, th'[u].cpu = th'[v].cpu
               PROVE  th'[u].cpu = None
    BY DEF OneCpu
  <2>1. th[u].cpu = th[v].cpu => th[u].cpu = None
    BY DEF CoreInv, ApartInv, Apart
  <2>2. \A w \in Threads : w # t => \/ th'[w].cpu = th[w].cpu /\ th[w].cpu # r.cpu
                                    \/ r.cpu \in {None, th[t].cpu}
    BY <1>1 DEF OnCpu
  <2> QED BY <1>1, <2>1, <2>2 DEF CoreInv, ApartInv, Apart, OnCpu
<1> QED BY <1>2, <1>3, <1>4, QuietStep

\* A thread that has been in user mode or in a trap goes back to the loop.
LEMMA BackMild ==
    ASSUME CoreInv, NEW t \in Threads, th[t].pc \in {"user", "trap"}, Return(t)
    PROVE  Mild(t) /\ Back(th[t]) \in ThRecs /\ th' = [th EXCEPT ![t] = Back(th[t])]
           /\ Back(th[t]).cpu = None
<1>1. th[t] \in ThRecs /\ LocalOK(th[t])
  BY StateTypes DEF CoreInv, ThreadsInv, ThreadOK
<1>2. th' = [th EXCEPT ![t] = Back(th[t])] /\ th'[t] = Back(th[t])
  BY DEF Return, CoreInv, TypeOK
<1>3. LocalOK(Back(th[t]))
  BY <1>1, ThType DEF LocalOK
<1> QED BY <1>1, <1>2, <1>3, ThType DEF Mild, Busy

\* A process is doomed.
LEMMA DoomSame ==
    ASSUME CoreInv, NEW h \in Spaces, vm' = [vm EXCEPT ![h].doomed = TRUE]
    PROVE  SameSpaces /\ vm' \in [Spaces -> AsRecs]
<1>1. vm \in [Spaces -> AsRecs]
  BY DEF CoreInv, TypeOK
<1>2. vm[h] \in AsRecs /\ [vm[h] EXCEPT !.doomed = TRUE] \in AsRecs
  BY <1>1 DEF AsRecs
<1>3. vm' \in [Spaces -> AsRecs]
  BY <1>1, <1>2
<1> QED BY <1>1, <1>2, <1>3 DEF SameSpaces, AsRecs

\* A mask changes.
LEMMA MaskSame ==
    ASSUME CoreInv, NEW h \in Spaces, NEW m \in SUBSET CPUs,
           vm' = [vm EXCEPT ![h].mask = m]
    PROVE  SameSpaces /\ vm' \in [Spaces -> AsRecs] /\ vm'[h].mask = m
           /\ \A a \in Spaces \ {h} : vm'[a] = vm[a]
<1>1. vm \in [Spaces -> AsRecs]
  BY DEF CoreInv, TypeOK
<1>2. vm[h] \in AsRecs /\ [vm[h] EXCEPT !.mask = m] \in AsRecs
  BY <1>1 DEF AsRecs
<1>3. vm' \in [Spaces -> AsRecs]
  BY <1>1, <1>2
<1> QED BY <1>1, <1>2, <1>3 DEF SameSpaces, AsRecs

\* A TLB changes.
LEMMA TlbSame ==
    ASSUME CoreInv, NEW c \in CPUs, NEW e \in Entries, cpu' = [cpu EXCEPT ![c].tlb = e]
    PROVE  SameCr3 /\ cpu' \in [CPUs -> CpuRecs] /\ cpu'[c].tlb = e
           /\ \A k \in CPUs \ {c} : cpu'[k] = cpu[k]
<1>1. cpu \in [CPUs -> CpuRecs]
  BY DEF CoreInv, TypeOK
<1>2. cpu[c] \in CpuRecs /\ [cpu[c] EXCEPT !.tlb = e] \in CpuRecs
  BY <1>1 DEF CpuRecs
<1>3. cpu' \in [CPUs -> CpuRecs]
  BY <1>1, <1>2
<1> QED BY <1>1, <1>2, <1>3 DEF SameCr3, CpuRecs

\* What the CPU takes from a page table entry.
LEMMA EntryFacts ==
    ASSUME NEW p \in Ptes, Present(p)
    PROVE  /\ Entry(p) \in Entries /\ Entry(p).pg = p.pg
           /\ Entry(p).w <=> "W" \in p.flags
<1>1. p.pg \in Pages
  BY PteType
<1>2. CASE "W" \in p.flags
  <2>1. Entry(p) = [pg |-> p.pg, w |-> TRUE]
    BY <1>2 DEF Entry
  <2> QED BY <1>1, <1>2, <2>1 DEF Entries
<1>3. CASE "W" \notin p.flags
  <2>1. ("W" \in p.flags) = FALSE
    BY <1>3
  <2>2. Entry(p) = [pg |-> p.pg, w |-> FALSE]
    BY <2>1, Zenon DEF Entry
  <2> QED BY <1>1, <1>3, <2>2 DEF Entries
<1> QED BY <1>2, <1>3

\* A flush changes the TLB of one CPU and no page map.
LEMMA FlushSame ==
    ASSUME CoreInv, NEW c \in CPUs, cpu' = Flushed(c)
    PROVE  SameCr3 /\ cpu' \in [CPUs -> CpuRecs] /\ cpu'[c].tlb = NoEntry
           /\ \A k \in CPUs \ {c} : cpu'[k] = cpu[k]
<1>1. NoEntry \in Entries
  BY DEF Entries
<1> QED BY <1>1, TlbSame DEF Flushed

\* Nothing but a thread.
LEMMA NothingElse ==
    ASSUME CoreInv
    PROVE  /\ UNCHANGED vm => SameSpaces /\ vm' \in [Spaces -> AsRecs]
           /\ UNCHANGED cpu => SameCr3 /\ cpu' \in [CPUs -> CpuRecs]
           /\ UNCHANGED pg => SameRefs /\ pg' \in [Pages -> PgRecs]
           /\ UNCHANGED view => view' \in [Spaces -> Nat]
           /\ UNCHANGED writes => writes' \in Nat
           /\ UNCHANGED panic => panic' \in BOOLEAN
BY DEF CoreInv, TypeOK, SameSpaces, SameCr3, SameRefs

\* A thread of the user program is on a CPU.
LEMMA UserCpu ==
    ASSUME CoreInv, NEW t \in Threads, th[t].pc \in {"mask", "user", "shoot"}
    PROVE  th[t].cpu \in CPUs /\ th[t] \in ThRecs /\ LocalOK(th[t])
<1>1. th[t] \in ThRecs /\ LocalOK(th[t])
  BY StateTypes DEF CoreInv, ThreadsInv, ThreadOK
<1> QED BY <1>1, ThType DEF LocalOK

\* A return to the user program on a CPU that has the page map keeps the core invariant.
LEMMA UserrunSameCore ==
    ASSUME CoreInv, NEW t \in Threads, NEW c \in CPUs, UserrunSame(t, c)
    PROVE  CoreInv'
<1> DEFINE r == [th[t] EXCEPT !.pc = "user", !.cpu = c]
<1>1. th[t] \in ThRecs /\ LocalOK(th[t]) /\ th[t].pc = "run"
  BY StateTypes DEF CoreInv, ThreadsInv, ThreadOK, UserrunSame, At
<1>2. /\ r \in ThRecs /\ r.pc = "user" /\ r.cpu = c /\ r.odec = th[t].odec
      /\ r.new = th[t].new /\ r.child = th[t].child /\ r.failed = th[t].failed
      /\ r.old = th[t].old
  BY <1>1 DEF ThRecs, Places
<1>3. th' = [th EXCEPT ![t] = r]
  BY DEF UserrunSame, CoreInv, TypeOK
<1> HIDE DEF r
<1>4. th'[t] = r
  BY <1>3 DEF CoreInv, TypeOK
<1>5. LocalOK(r)
  BY <1>1, <1>2, VmAssumption DEF LocalOK
<1>6. Mild(t)
  BY <1>1, <1>2, <1>4, <1>5 DEF Mild, UserrunSame, Busy
<1> QED BY <1>2, <1>3, <1>6, MoveStep, NothingElse DEF UserrunSame, CoreInv, TypeOK

\* The entry of a CPU in the mask keeps the core invariant.
LEMMA UserrunMaskCore ==
    ASSUME CoreInv, NEW t \in Threads, UserrunMask(t)
    PROVE  CoreInv'
<1> DEFINE r == [th[t] EXCEPT !.pc = "user"]
<1>1. th[t] \in ThRecs /\ LocalOK(th[t]) /\ th[t].pc = "mask" /\ th[t].cpu \in CPUs
  BY UserCpu DEF UserrunMask, At
<1>2. /\ r \in ThRecs /\ r.pc = "user" /\ r.cpu = th[t].cpu /\ r.odec = th[t].odec
      /\ r.new = th[t].new /\ r.child = th[t].child /\ r.failed = th[t].failed
      /\ r.old = th[t].old
  BY <1>1 DEF ThRecs, Places
<1>3. th' = [th EXCEPT ![t] = r]
  BY DEF UserrunMask, Go, CoreInv, TypeOK
<1> HIDE DEF r
<1>4. th'[t] = r
  BY <1>3 DEF CoreInv, TypeOK
<1>5. LocalOK(r)
  BY <1>1, <1>2, VmAssumption DEF LocalOK
<1>6. Mild(t)
  BY <1>1, <1>2, <1>4, <1>5 DEF Mild, Busy, CoreInv, ThreadsInv, ThreadOK
<1>7. SameSpaces /\ vm' \in [Spaces -> AsRecs]
  <2> DEFINE m == vm[Home[t]].mask \cup {th[t].cpu}
  <2>1. Home[t] \in Spaces /\ m \in SUBSET CPUs
    BY <1>1, StateTypes, AsType DEF CoreInv
  <2>2. vm' = [vm EXCEPT ![Home[t]].mask = m]
    BY DEF UserrunMask
  <2> HIDE DEF m
  <2> QED BY <2>1, <2>2, MaskSame
<1> QED BY <1>2, <1>3, <1>6, <1>7, MoveStep, NothingElse DEF UserrunMask, CoreInv, TypeOK

\* The removal of a CPU from a mask keeps the core invariant.
LEMMA RunClearCore ==
    ASSUME CoreInv, NEW t \in Threads, RunClear(t)
    PROVE  CoreInv'
<1> DEFINE r == [th[t] EXCEPT !.pc = "dec"]
<1>1. th[t] \in ThRecs /\ LocalOK(th[t]) /\ th[t].pc = "clear"
  BY StateTypes DEF CoreInv, ThreadsInv, ThreadOK, RunClear, At
<1>2. /\ r \in ThRecs /\ r.pc = "dec" /\ r.cpu = th[t].cpu /\ r.odec = th[t].odec
      /\ r.new = th[t].new /\ r.child = th[t].child /\ r.failed = th[t].failed
      /\ r.old = th[t].old
  BY <1>1 DEF ThRecs, Places
<1>3. th' = [th EXCEPT ![t] = r]
  BY DEF RunClear, Go, CoreInv, TypeOK
<1> HIDE DEF r
<1>4. th'[t] = r
  BY <1>3 DEF CoreInv, TypeOK
<1>5. LocalOK(r)
  BY <1>1, <1>2, VmAssumption DEF LocalOK
<1>6. Mild(t)
  BY <1>1, <1>2, <1>4, <1>5 DEF Mild, Busy
<1>7. SameSpaces /\ vm' \in [Spaces -> AsRecs]
  <2> DEFINE h == th[t].odec.pm
             m == vm[h].mask \ {th[t].odec.cpu}
  <2>1. h \in Spaces
    BY <1>1, ThType, OdecType DEF LocalOK
  <2>2. m \in SUBSET CPUs
    BY <2>1, StateTypes, AsType DEF CoreInv
  <2>3. vm' = [vm EXCEPT ![h].mask = m]
    BY DEF RunClear
  <2> HIDE DEF h, m
  <2> QED BY <2>1, <2>2, <2>3, MaskSame
<1> QED BY <1>2, <1>3, <1>6, <1>7, MoveStep, NothingElse DEF RunClear, CoreInv, TypeOK

\* The steps of a thread that stays where it is.
LEMMA StayCore ==
    ASSUME CoreInv, NEW t \in Threads, UserFill(t) \/ UserWrite(t) \/ PgfaultPanic(t)
    PROVE  CoreInv'
<1>1. th[t] \in ThRecs /\ th' = [th EXCEPT ![t] = th[t]] /\ Mild(t)
  BY StateTypes, Uninvolved DEF CoreInv, TypeOK, UserFill, UserWrite, PgfaultPanic
<1>2. CASE UserFill(t)
  <2>1. th[t].cpu \in CPUs
    BY <1>2, UserCpu DEF UserFill, User, At
  <2>2. vm[Home[t]].pte \in Ptes
    BY StateTypes, AsType DEF CoreInv
  <2>3. Entry(vm[Home[t]].pte) \in Entries
    BY <1>2, <2>2, EntryFacts DEF UserFill, Space
  <2>4. SameCr3 /\ cpu' \in [CPUs -> CpuRecs]
    BY <1>2, <2>1, <2>3, TlbSame DEF UserFill, Space
  <2> QED BY <1>1, <1>2, <2>4, MoveStep, NothingElse DEF UserFill, CoreInv, TypeOK
<1>3. CASE UserWrite(t)
  <2>1. th[t].cpu \in CPUs
    BY <1>3, UserCpu DEF UserWrite, User, At
  <2>2. Tlb(t).pg \in Pages
    BY <1>3, <2>1, StateTypes, CpuType DEF CoreInv, UserWrite, Tlb
  <2>3. writes' \in Nat
    BY <1>3 DEF UserWrite, CoreInv, TypeOK
  <2>4. pg' = [pg EXCEPT ![Tlb(t).pg].val = writes']
    BY <1>3 DEF UserWrite
  <2>5. SameRefs /\ pg' \in [Pages -> PgRecs]
    BY <2>2, <2>3, <2>4 DEF CoreInv, TypeOK, PgRecs, SameRefs
  <2>6. view' \in [Spaces -> Nat]
    BY <1>3, <2>3 DEF UserWrite, CoreInv, TypeOK
  <2> QED BY <1>1, <1>3, <2>3, <2>5, <2>6, MoveStep, NothingElse DEF UserWrite, CoreInv, TypeOK
<1>4. CASE PgfaultPanic(t)
  BY <1>1, <1>4, MoveStep, NothingElse DEF PgfaultPanic, CoreInv, TypeOK
<1> QED BY <1>2, <1>3, <1>4

\* A fault keeps the core invariant.
LEMMA UserFaultCore ==
    ASSUME CoreInv, NEW t \in Threads, NEW w \in BOOLEAN, UserFault(t, w)
    PROVE  CoreInv'
<1> DEFINE o == IF w THEN "wfault" ELSE "rfault"
           r == [th[t] EXCEPT !.pc = "trap", !.cpu = None, !.op = o]
<1>1. th[t] \in ThRecs /\ LocalOK(th[t]) /\ th[t].pc = "user" /\ th[t].cpu \in CPUs
  BY UserCpu DEF UserFault, User, At
<1>2. /\ r \in ThRecs /\ r.pc = "trap" /\ r.cpu = None /\ r.odec = th[t].odec
      /\ r.new = th[t].new /\ r.child = th[t].child /\ r.failed = th[t].failed
      /\ r.old = th[t].old
  BY <1>1 DEF ThRecs, Places
<1>3. th' = [th EXCEPT ![t] = r]
  BY DEF UserFault, Leave, CoreInv, TypeOK
<1> HIDE DEF r
<1>4. th'[t] = r
  BY <1>3 DEF CoreInv, TypeOK
<1>5. LocalOK(r)
  BY <1>1, <1>2, VmAssumption DEF LocalOK
<1>6. Mild(t)
  BY <1>1, <1>2, <1>4, <1>5 DEF Mild, Busy
<1>7. SameCr3 /\ cpu' \in [CPUs -> CpuRecs]
  BY <1>1, FlushSame DEF UserFault
<1> QED BY <1>2, <1>3, <1>6, <1>7, MoveStep, NothingElse DEF UserFault, CoreInv, TypeOK

\* The steps after which a thread is back in the loop and has done nothing, or
\* has doomed its process.
LEMMA ReturnCore ==
    ASSUME CoreInv, NEW t \in Threads,
           UserTimer(t) \/ Sys_exit(t) \/ PgfaultKill(t) \/ PgfaultSame(t) \/ PgfaultNoMem(t)
    PROVE  CoreInv'
<1> DEFINE r == Back(th[t])
<1>1. th[t].pc \in {"user", "trap"} /\ Return(t)
  BY DEF UserTimer, Sys_exit, PgfaultKill, PgfaultSame, PgfaultNoMem, User, Fault, Private, At
<1>2. Mild(t) /\ r \in ThRecs /\ th' = [th EXCEPT ![t] = r] /\ r.cpu = None
  BY <1>1, BackMild
<1> HIDE DEF r
<1>3. Home[t] \in Spaces
  BY VmAssumption
<1>4. CASE UserTimer(t)
  <2>1. th[t].cpu \in CPUs
    BY <1>4, UserCpu DEF UserTimer, User, At
  <2>2. SameCr3 /\ cpu' \in [CPUs -> CpuRecs]
    BY <1>4, <2>1, FlushSame DEF UserTimer
  <2> QED BY <1>2, <1>4, <2>2, MoveStep, NothingElse DEF UserTimer, CoreInv, TypeOK
<1>5. CASE PgfaultSame(t)
  BY <1>2, <1>5, MoveStep, NothingElse DEF PgfaultSame, CoreInv, TypeOK
<1>6. CASE Sys_exit(t) \/ PgfaultKill(t) \/ PgfaultNoMem(t)
  <2>1. SameSpaces /\ vm' \in [Spaces -> AsRecs]
    BY <1>3, <1>6, DoomSame DEF Sys_exit, PgfaultKill, PgfaultNoMem
  <2> QED BY <1>2, <1>6, <2>1, MoveStep, NothingElse
          DEF Sys_exit, PgfaultKill, PgfaultNoMem, CoreInv, TypeOK
<1> QED BY <1>4, <1>5, <1>6

\* The start of a shootdown keeps the core invariant.
LEMMA ShootdownCore ==
    ASSUME CoreInv, NEW t \in Threads, NEW c \in CPUs, tlb_shootdown(t, c)
    PROVE  CoreInv'
<1> DEFINE m == Space(t).mask
           r == [th[t] EXCEPT !.pc = "shoot", !.cpu = c, !.stale = m]
<1>1. th[t] \in ThRecs /\ LocalOK(th[t]) /\ th[t].pc = "flush" /\ m \in SUBSET CPUs
  BY StateTypes, AsType DEF CoreInv, ThreadsInv, ThreadOK, tlb_shootdown, At, Space
<1> HIDE DEF m
<1>2. /\ r \in ThRecs /\ r.pc = "shoot" /\ r.cpu = c /\ r.odec = th[t].odec
      /\ r.new = th[t].new /\ r.child = th[t].child /\ r.failed = th[t].failed
      /\ r.old = th[t].old
  BY <1>1 DEF ThRecs, Places
<1>3. th' = [th EXCEPT ![t] = r]
  BY DEF tlb_shootdown, CoreInv, TypeOK, m
<1> HIDE DEF r
<1>4. th'[t] = r
  BY <1>3 DEF CoreInv, TypeOK
<1>5. LocalOK(r)
  BY <1>1, <1>2, VmAssumption DEF LocalOK
<1>6. Mild(t)
  BY <1>1, <1>2, <1>4, <1>5 DEF Mild, Busy
<1> QED BY <1>2, <1>3, <1>6, MoveStep, NothingElse DEF tlb_shootdown, CoreInv, TypeOK

\* The interrupt of a shootdown keeps the core invariant.
LEMMA TlbInterruptCore ==
    ASSUME CoreInv, NEW c \in CPUs, TlbInterrupt(c)
    PROVE  CoreInv'
<1>1. \A u \in Threads :
        \/ th[u].pc = "shoot" /\ th'[u] = [th[u] EXCEPT !.stale = @ \ {c}]
        \/ th[u].pc = "user" /\ th[u].cpu = c /\ th'[u] = Back(th[u])
        \/ th'[u] = th[u]
  BY DEF TlbInterrupt
<1>2. ASSUME NEW u \in Threads
      PROVE  Mild(u) /\ th'[u] \in ThRecs /\ th'[u].cpu \in {None, th[u].cpu}
  <2>1. th[u] \in ThRecs /\ LocalOK(th[u])
    BY StateTypes DEF CoreInv, ThreadsInv, ThreadOK
  <2>2. CASE th[u].pc = "shoot" /\ th'[u] = [th[u] EXCEPT !.stale = @ \ {c}]
    <3> DEFINE r == [th[u] EXCEPT !.stale = @ \ {c}]
    <3>1. /\ r \in ThRecs /\ r.pc = "shoot" /\ r.cpu = th[u].cpu /\ r.odec = th[u].odec
          /\ r.new = th[u].new /\ r.child = th[u].child /\ r.failed = th[u].failed
          /\ r.old = th[u].old
      BY <2>1, <2>2 DEF ThRecs
    <3>2. th'[u] = r
      BY <2>2
    <3> HIDE DEF r
    <3>3. LocalOK(r)
      BY <2>1, <2>2, <3>1 DEF LocalOK
    <3> QED BY <2>2, <3>1, <3>2, <3>3 DEF Mild, Busy
  <2>3. CASE th[u].pc = "user" /\ th[u].cpu = c /\ th'[u] = Back(th[u])
    <3>1. LocalOK(Back(th[u]))
      BY <2>1, <2>3, ThType DEF LocalOK
    <3> QED BY <2>1, <2>3, <3>1, ThType DEF Mild, Busy
  <2>4. CASE th'[u] = th[u]
    BY <2>1, <2>4, Uninvolved
  <2> QED BY <1>1, <2>2, <2>3, <2>4
<1>3. th' \in [Threads -> ThRecs]
  <2>1. DOMAIN th' = Threads /\ th' = [u \in Threads |-> th'[u]]
    BY DEF TlbInterrupt
  <2> QED BY <1>2, <2>1
<1>4. SameCr3 /\ cpu' \in [CPUs -> CpuRecs]
  BY FlushSame, NothingElse DEF TlbInterrupt
<1>5. SameSpaces /\ SameRefs
  BY NothingElse DEF TlbInterrupt
<1>6. TypeOK'
  BY <1>3, <1>4 DEF TlbInterrupt, CoreInv, TypeOK
<1>7. OneCpu
  BY <1>2 DEF OneCpu, CoreInv, ApartInv, Apart
<1> QED BY <1>2, <1>4, <1>5, <1>6, <1>7, QuietStep

-------------------------------------------------------------------------------
(***************************************************************************)
(* Steps of a thread that change the entry or the lock of its own address  *)
(* space.                                                                  *)
(***************************************************************************)
PgInts == [Pages -> [ref : Int, val : Nat]]

\* What the operations on counts do.
LEMMA RefupFacts ==
    ASSUME NEW f \in PgInts, NEW g \in Pages
    PROVE  /\ Refup(f, g) \in PgInts
           /\ \A x \in Pages : /\ Refup(f, g)[x].ref = f[x].ref + (IF g = x THEN 1 ELSE 0)
                               /\ Refup(f, g)[x].val = f[x].val
BY DEF Refup, PgInts

\* One entry less.
LEMMA RefdownFacts ==
    ASSUME NEW f \in PgInts, NEW g \in Pages
    PROVE  /\ Refdown(f, g) \in PgInts
           /\ \A x \in Pages : /\ Refdown(f, g)[x].ref = f[x].ref - (IF g = x THEN 1 ELSE 0)
                               /\ Refdown(f, g)[x].val = f[x].val
BY DEF Refdown, PgInts

\* An entry is taken out.
LEMMA UnmapFacts ==
    ASSUME NEW f \in PgInts, NEW p \in Ptes
    PROVE  /\ Unmap(f, p) \in PgInts
           /\ \A x \in Pages : /\ Unmap(f, p)[x].ref = f[x].ref - (IF p.pg = x THEN 1 ELSE 0)
                               /\ Unmap(f, p)[x].val = f[x].val
<1>1. CASE Present(p)
  BY <1>1, PteType, RefdownFacts DEF Unmap
<1>2. CASE ~Present(p)
  <2>1. Unmap(f, p) = f /\ p.pg = None
    BY <1>2, PteType DEF Unmap
  <2>2. \A x \in Pages : p.pg # x /\ f[x].ref \in Int
    BY <2>1, VmAssumption DEF Pages, PgInts
  <2> QED BY <2>1, <2>2
<1> QED BY <1>1, <1>2

\* Counts are integers.
LEMMA PgIsInts ==
    ASSUME TypeOK
    PROVE  pg \in PgInts
BY DEF TypeOK, PgRecs, PgInts

\* Counts that are natural numbers are counts.
LEMMA PgBack ==
    ASSUME pg' \in PgInts, \A g \in Pages : pg'[g].ref \in Nat
    PROVE  pg' \in [Pages -> PgRecs]
BY DEF PgInts, PgRecs

\* A step of a thread on its own address space keeps the invariant if it has the
\* lock at the places where it should, and the counts follow the entry.
LEMMA HomeStep ==
    ASSUME CoreInv, NEW t \in Threads, NEW r \in ThRecs, NEW s \in AsRecs,
           th' = [th EXCEPT ![t] = r], vm' = [vm EXCEPT ![Home[t]] = s],
           UNCHANGED <<cpu, mtype, view, writes, forks, panic>>, pg' \in PgInts,
           LocalOK(r), r.pc \notin {"none", "stack", "mask", "user"}, r.cpu = None,
           r.odec = th[t].odec, r.child = None, th[t].pc # "none",
           vm[Home[t]].lock \in {None, t},
           s.alive, s.ref = vm[Home[t]].ref, s.lock = (IF r.pc \in Busy THEN t ELSE None),
           s.mapped \/ s.pte = NoPte, r.pc = "insert" => s.mapped,
           \A g \in Pages :
              pg'[g].ref = pg[g].ref - (IF vm[Home[t]].pte.pg = g THEN 1 ELSE 0)
                                     + (IF s.pte.pg = g THEN 1 ELSE 0),
           \A u \in Threads \ {t} : th[u].new # None => s.pte.pg # th[u].new /\ r.new # th[u].new,
           r.new # None => pg'[r.new].ref = 0
    PROVE  CoreInv'
<1> DEFINE h == Home[t]
<1>1. /\ h \in Spaces /\ h # None
      /\ th[t] \in ThRecs /\ ThreadOK(t) /\ vm[h].alive
  BY StateTypes, VmAssumption DEF CoreInv, ThreadsInv, ThreadOK
<1>0. \A u \in Threads : Home[u] = h /\ u # t => vm[h].lock # u
  BY NoneApart
<1>2. /\ th' \in [Threads -> ThRecs] /\ th'[t] = r
      /\ \A u \in Threads \ {t} : th'[u] = th[u]
  BY DEF CoreInv, TypeOK
<1>3. /\ vm' \in [Spaces -> AsRecs] /\ vm'[h] = s
      /\ \A a \in Spaces \ {h} : vm'[a] = vm[a]
  BY <1>1 DEF CoreInv, TypeOK
<1>4. \A a \in Spaces \ {h} : vm'[a].pte.pg = vm[a].pte.pg
  BY <1>3
<1>5. \A g \in Pages : pg'[g].ref = pg[g].ref - (IF vm[h].pte.pg = g THEN 1 ELSE 0)
                                             + (IF vm'[h].pte.pg = g THEN 1 ELSE 0)
  BY <1>3
<1>6. PagesCounted' /\ \A g \in Pages : pg'[g].ref \in Nat
  BY <1>1, <1>4, <1>5, PagesMove
<1>7. TypeOK'
  BY <1>2, <1>3, <1>6, PgBack DEF CoreInv, TypeOK
<1>8. PmapsCounted'
  <2>1. \A a \in Spaces : vm'[a].ref = vm[a].ref /\ vm'[a].alive = vm[a].alive
    BY <1>1, <1>3, AsType, StateTypes DEF CoreInv
  <2>2. \A a \in Spaces : /\ {c \in CPUs : cpu'[c].cr3 = a} = {c \in CPUs : cpu[c].cr3 = a}
                          /\ {u \in Threads : th'[u].odec.pm = a} =
                                {u \in Threads : th[u].odec.pm = a}
    BY <1>2
  <2>3. ASSUME NEW a \in Spaces
        PROVE  vm'[a].ref = Cardinality({c \in CPUs : cpu'[c].cr3 = a})
                    + Cardinality({u \in Threads : th'[u].odec.pm = a})
                    + (IF vm'[a].alive THEN 1 ELSE 0)
    BY <2>1, <2>2 DEF CoreInv, RefsCounted, PmapsCounted
  <2> QED BY <2>3 DEF PmapsCounted
<1> HIDE DEF h
<1>9. ThreadsInv'
  <2> SUFFICES ASSUME NEW u \in Threads PROVE ThreadOK(u)'
    BY DEF ThreadsInv
  <2>1. CASE u = t
    <3>1. Home[u] = h
      BY <2>1 DEF h
    <3>2. r.pc = "insert" => r.new # None
      BY DEF LocalOK
    <3>3. th'[u] = r /\ vm'[Home[u]] = s
      BY <1>2, <1>3, <2>1, <3>1
    <3> QED BY <2>1, <3>2, <3>3 DEF ThreadOK
  <2>2. CASE u # t
    <3>1. ThreadOK(u) /\ th'[u] = th[u] /\ th[u] \in ThRecs /\ Home[u] \in Spaces
      BY <1>2, <2>2, StateTypes DEF CoreInv, ThreadsInv
    <3>2. th[u].pc # "none" => vm'[Home[u]].alive
      BY <1>3, <3>1 DEF ThreadOK
    <3>3. th[u].pc \in Busy => vm'[Home[u]].lock = u
      <4> SUFFICES ASSUME th[u].pc \in Busy PROVE vm'[Home[u]].lock = u
        OBVIOUS
      <4>1. vm[Home[u]].lock = u
        BY <3>1 DEF ThreadOK
      <4>2. Home[u] # h
        BY <1>0, <2>2, <4>1
      <4> QED BY <1>3, <3>1, <4>1, <4>2
    <3>4. th[u].pc = "insert" => vm'[Home[u]].mapped /\ pg'[th[u].new].ref = 0
      <4> SUFFICES ASSUME th[u].pc = "insert"
                   PROVE  vm'[Home[u]].mapped /\ pg'[th[u].new].ref = 0
        OBVIOUS
      <4>1. vm[Home[u]].lock = u /\ vm[Home[u]].mapped /\ pg[th[u].new].ref = 0
        BY <3>1 DEF ThreadOK, Busy
      <4>2. Home[u] # h
        BY <1>0, <2>2, <4>1
      <4>3. th[u].new \in Pages /\ th[u].new # None
        BY <3>1, ThType DEF ThreadOK, LocalOK, Pages
      <4>4. vm[h].pte.pg # th[u].new /\ s.pte.pg # th[u].new
        BY <1>1, <2>2, <4>1, <4>3, CountedUsed
      <4>5. pg'[th[u].new].ref = 0 - 0 + 0
        BY <4>1, <4>3, <4>4 DEF h
      <4>6. pg'[th[u].new].ref = 0
        BY <4>5
      <4> QED BY <1>3, <3>1, <4>1, <4>2, <4>6
    <3>5. th[u].pc = "stack" => /\ Present(vm'[th[u].child].pte)
                                /\ vm'[Home[u]].pte = vm'[th[u].child].pte
      <4> SUFFICES ASSUME th[u].pc = "stack"
                   PROVE  /\ Present(vm'[th[u].child].pte)
                          /\ vm'[Home[u]].pte = vm'[th[u].child].pte
        OBVIOUS
      <4>1. th[u].child \in Spaces
        BY <3>1, ThType DEF ThreadOK, LocalOK
      <4>2. ChildOK(u, th[u].child)
        BY <4>1 DEF CoreInv, ChildrenInv
      <4>3. th[u].child # h
        BY <4>2 DEF ChildOK, h
      <4>4. Home[u] # h
        BY <1>0, <2>2, <3>1 DEF ThreadOK, Busy
      <4> QED BY <1>3, <3>1, <4>1, <4>3, <4>4 DEF ThreadOK
    <3> QED BY <3>1, <3>2, <3>3, <3>4, <3>5 DEF ThreadOK
  <2> QED BY <2>1, <2>2
<1>10. SpacesInv'
  <2> SUFFICES ASSUME NEW a \in Spaces PROVE SpaceOK(a)'
    BY DEF SpacesInv
  <2>1. CASE a = h
    <3>1. s.lock # None => s.lock = t /\ r.pc \in Busy
      OBVIOUS
    <3> QED BY <1>2, <1>3, <2>1, <3>1 DEF SpaceOK, h
  <2>2. CASE a # h
    <3>1. SpaceOK(a) /\ vm'[a] = vm[a] /\ vm[a].lock \in Threads \cup {None}
      BY <1>3, <2>2, StateTypes, AsType DEF CoreInv, SpacesInv
    <3>2. vm[a].lock # None => vm[a].lock # t
      BY <2>2, <3>1 DEF SpaceOK, h
    <3> QED BY <1>2, <3>1, <3>2 DEF SpaceOK
  <2> QED BY <2>1, <2>2
<1>11. ChildrenInv'
  <2> SUFFICES ASSUME NEW u \in Threads, NEW b \in Spaces, th'[u].child = b
               PROVE  ChildOK(u, b)'
    BY DEF ChildrenInv
  <2>1. u # t /\ th'[u] = th[u]
    BY <1>2, VmAssumption
  <2>2. ChildOK(u, b)
    BY <2>1 DEF CoreInv, ChildrenInv
  <2>3. b # h
    BY <2>2 DEF ChildOK, h
  <2>4. vm'[b] = vm[b]
    BY <1>3, <2>3
  <2>5. \A v \in Threads : Home[v] = b => th'[v].pc = "none"
    BY <1>2, <2>2, <2>3 DEF ChildOK, h
  <2>6. \A v \in Threads : th'[v].child = b => v = u
    BY <1>2, <2>2, VmAssumption DEF ChildOK
  <2> QED BY <2>2, <2>4, <2>5, <2>6 DEF ChildOK
<1>12. ApartInv'
  <2> SUFFICES ASSUME NEW u \in Threads, NEW v \in Threads, u # v PROVE Apart(u, v)'
    BY DEF ApartInv
  <2>1. Apart(u, v)
    BY DEF CoreInv, ApartInv
  <2>2. CASE u # t /\ v # t
    BY <1>2, <2>1, <2>2 DEF Apart
  <2>3. CASE u = t
    BY <1>2, <2>3 DEF Apart
  <2>4. CASE v = t
    BY <1>2, <2>4 DEF Apart
  <2> QED BY <2>2, <2>3, <2>4
<1> QED BY <1>6, <1>7, <1>8, <1>9, <1>10, <1>11, <1>12 DEF CoreInv, RefsCounted

\* A new page of a thread is none that an entry leads to.
LEMMA NewUnused ==
    ASSUME CoreInv, NEW u \in Threads, th[u].new # None
    PROVE  /\ th[u].new \in Frames /\ th[u].new \in Pages /\ pg[th[u].new].ref = 0
           /\ th[u].pc = "insert"
           /\ \A a \in Spaces : vm[a].pte.pg # th[u].new
<1>1. th[u] \in ThRecs /\ ThreadOK(u)
  BY StateTypes DEF CoreInv, ThreadsInv
<1>2. th[u].new \in Frames /\ th[u].pc = "insert"
  BY <1>1, ThType DEF ThreadOK, LocalOK
<1>3. pg[th[u].new].ref = 0
  BY <1>1, <1>2 DEF ThreadOK
<1> QED BY <1>2, <1>3, CountedUsed DEF Pages

\* The faults that fill an empty entry with a page that everybody may have.
LEMMA PgfaultFillCore ==
    ASSUME CoreInv, NEW t \in Threads, PgfaultShared(t) \/ PgfaultRead(t)
    PROVE  CoreInv'
<1>1. PICK g \in {Zero, File}, f \in SUBSET Flags :
        /\ vm' = [vm EXCEPT ![Home[t]].pte = Pte(g, f)] /\ pg' = Refup(pg, g) /\ Return(t)
        /\ At(t, "trap") /\ Space(t).lock = None /\ Space(t).mapped /\ ~Present(Space(t).pte)
        /\ UNCHANGED <<cpu, mtype, view, writes, forks, panic>>
  <2>1. {"W"} \in SUBSET Flags /\ {"COW"} \in SUBSET Flags
    BY DEF Flags
  <2>2. CASE PgfaultShared(t)
    BY <2>1, <2>2 DEF PgfaultShared, SetPte, Fault, CanLock
  <2>3. CASE PgfaultRead(t)
    BY <2>1, <2>3 DEF PgfaultRead, SetPte, Private, Fault, CanLock
  <2> QED BY <2>2, <2>3
<1> DEFINE h == Home[t]
           p == Pte(g, f)
           r == Back(th[t])
           s == [vm[h] EXCEPT !.pte = p]
<1>2. /\ h \in Spaces /\ vm[h] \in AsRecs /\ th[t] \in ThRecs /\ LocalOK(th[t])
      /\ vm[h].alive
  BY <1>1, StateTypes DEF CoreInv, ThreadsInv, ThreadOK, At
<1>3. p \in Ptes /\ p.pg = g /\ g \in Pages /\ g \notin Frames /\ g # None
  BY MakePte, VmAssumption DEF Pages
<1>4. vm[h].pte.pg = None
  BY <1>1, <1>2, AsType, PteType DEF Space
<1> HIDE DEF p
<1>5. /\ s \in AsRecs /\ s.alive = vm[h].alive /\ s.mapped = vm[h].mapped /\ s.pte = p
      /\ s.lock = vm[h].lock /\ s.ref = vm[h].ref
  BY <1>2, <1>3 DEF AsRecs
<1>6. vm' = [vm EXCEPT ![h] = s]
  BY <1>1 DEF p
<1>7. r \in ThRecs /\ LocalOK(r) /\ th' = [th EXCEPT ![t] = r] /\ r.pc \in {"run", "clear"}
      /\ r.cpu = None /\ r.child = None /\ r.odec = th[t].odec /\ r.new = None
  BY <1>1, <1>2, ThType DEF LocalOK, Return, At
<1>8. /\ pg' \in PgInts
      /\ \A x \in Pages : pg'[x].ref = pg[x].ref + (IF g = x THEN 1 ELSE 0)
  BY <1>1, <1>3, PgIsInts, RefupFacts DEF CoreInv
<1> HIDE DEF r, s
<1>9. \A x \in Pages : pg'[x].ref = pg[x].ref - (IF vm[Home[t]].pte.pg = x THEN 1 ELSE 0)
                                              + (IF s.pte.pg = x THEN 1 ELSE 0)
  <2> SUFFICES ASSUME NEW x \in Pages
               PROVE  pg'[x].ref = pg[x].ref - (IF vm[h].pte.pg = x THEN 1 ELSE 0)
                                              + (IF s.pte.pg = x THEN 1 ELSE 0)
    OBVIOUS
  <2>1. vm[h].pte.pg # x /\ s.pte.pg = g /\ pg[x].ref \in Nat
    BY <1>3, <1>4, <1>5, StateTypes, VmAssumption DEF Pages, CoreInv
  <2> QED BY <1>8, <2>1
<1>10. \A u \in Threads \ {t} : th[u].new # None => s.pte.pg # th[u].new /\ r.new # th[u].new
  BY <1>3, <1>5, <1>7, NewUnused
<1>11. /\ th[t].pc # "none" /\ vm[Home[t]].lock \in {None, t} /\ s.mapped /\ s.alive
       /\ s.lock = (IF r.pc \in Busy THEN t ELSE None)
       /\ r.pc \notin {"none", "stack", "mask", "user"} /\ s.ref = vm[Home[t]].ref
  BY <1>1, <1>2, <1>5, <1>7 DEF At, Space, Busy
<1>12. UNCHANGED <<cpu, mtype, view, writes, forks, panic>>
  BY <1>1
<1> QED BY <1>5, <1>6, <1>7, <1>8, <1>9, <1>10, <1>11, <1>12, HomeStep

\* A count that does not change, with an entry that stays where it is.
LEMMA SameCount ==
    ASSUME NEW x, NEW g, NEW n \in Nat
    PROVE  n = n - (IF g = x THEN 1 ELSE 0) + (IF g = x THEN 1 ELSE 0)
OBVIOUS

\* A fault that claims the page keeps the core invariant.
LEMMA PgfaultClaimCore ==
    ASSUME CoreInv, NEW t \in Threads, PgfaultClaim(t)
    PROVE  CoreInv'
<1> DEFINE h == Home[t]
           p == Writable(vm[h].pte.pg)
           r == [th[t] EXCEPT !.pc = "flush"]
           s == [vm[h] EXCEPT !.pte = p, !.lock = t]
<1>1. /\ h \in Spaces /\ vm[h] \in AsRecs /\ th[t] \in ThRecs /\ LocalOK(th[t])
      /\ vm[h].alive /\ th[t].pc = "trap" /\ vm[h].lock = None /\ vm[h].mapped
  BY StateTypes
     DEF CoreInv, ThreadsInv, ThreadOK, At, PgfaultClaim, Private, Fault, CanLock, Space
<1>2. vm[h].pte.pg \in Pages
  BY <1>1, AsType, PteType DEF PgfaultClaim, Space
<1>3. p \in Ptes /\ p.pg = vm[h].pte.pg
  BY <1>2, WritableFacts
<1> HIDE DEF p
<1>4. /\ s \in AsRecs /\ s.alive = vm[h].alive /\ s.mapped = vm[h].mapped /\ s.pte = p
      /\ s.lock = t /\ s.ref = vm[h].ref
  BY <1>1, <1>3 DEF AsRecs
<1>5. vm' = [vm EXCEPT ![h] = s]
  BY DEF PgfaultClaim, p, CoreInv, TypeOK
<1>6. /\ r \in ThRecs /\ r.pc = "flush" /\ r.cpu = th[t].cpu /\ r.odec = th[t].odec
      /\ r.new = th[t].new /\ r.child = th[t].child /\ r.failed = th[t].failed
      /\ r.old = th[t].old
  BY <1>1 DEF ThRecs, Places
<1>7. th' = [th EXCEPT ![t] = r]
  BY DEF PgfaultClaim, Go, CoreInv, TypeOK
<1> HIDE DEF r, s
<1>8. LocalOK(r) /\ r.cpu = None /\ r.child = None /\ r.new = None
  BY <1>1, <1>6 DEF LocalOK
<1>9. pg' \in PgInts /\ pg' = pg
  BY PgIsInts DEF PgfaultClaim, CoreInv
<1>10. \A x \in Pages : pg'[x].ref = pg[x].ref - (IF vm[Home[t]].pte.pg = x THEN 1 ELSE 0)
                                              + (IF s.pte.pg = x THEN 1 ELSE 0)
  <2>1. \A x \in Pages : pg'[x].ref = pg[x].ref /\ pg[x].ref \in Nat
    BY <1>9, StateTypes DEF CoreInv
  <2>2. s.pte.pg = vm[Home[t]].pte.pg
    BY <1>3, <1>4
  <2> QED BY <2>1, <2>2, SameCount
<1>11. \A u \in Threads \ {t} : th[u].new # None => s.pte.pg # th[u].new /\ r.new # th[u].new
  BY <1>1, <1>3, <1>4, <1>8, NewUnused
<1>12. /\ th[t].pc # "none" /\ vm[Home[t]].lock \in {None, t} /\ s.mapped /\ s.alive
       /\ s.lock = (IF r.pc \in Busy THEN t ELSE None)
       /\ r.pc \notin {"none", "stack", "mask", "user"} /\ s.ref = vm[Home[t]].ref
  BY <1>1, <1>4, <1>6 DEF Busy
<1>13. UNCHANGED <<cpu, mtype, view, writes, forks, panic>>
  BY DEF PgfaultClaim
<1> QED BY <1>4, <1>5, <1>6, <1>7, <1>8, <1>9, <1>10, <1>11, <1>12, <1>13, HomeStep

\* A fault that begins to copy the page keeps the core invariant.
LEMMA PgfaultCopyCore ==
    ASSUME CoreInv, NEW t \in Threads, PgfaultCopy(t)
    PROVE  CoreInv'
<1> DEFINE h == Home[t]
<1>1. /\ h \in Spaces /\ vm[h] \in AsRecs /\ th[t] \in ThRecs /\ LocalOK(th[t])
      /\ vm[h].alive /\ th[t].pc = "trap" /\ vm[h].lock = None /\ vm[h].mapped
  BY StateTypes
     DEF CoreInv, ThreadsInv, ThreadOK, At, PgfaultCopy, Private, Fault, CanLock, Space
<1>2. PICK g \in FreePages :
        /\ pg' = [pg EXCEPT ![g].val = pg[Source(vm[h].pte)].val]
        /\ th' = [th EXCEPT ![t].pc = "insert", ![t].new = g]
  BY DEF PgfaultCopy, Space
<1> DEFINE r == [th[t] EXCEPT !.pc = "insert", !.new = g]
           s == [vm[h] EXCEPT !.lock = t]
<1>3. g \in Frames /\ pg[g].ref = 0 /\ \A u \in Threads : th[u].new # g
  BY DEF FreePages
<1>4. /\ s \in AsRecs /\ s.alive = vm[h].alive /\ s.mapped = vm[h].mapped
      /\ s.pte = vm[h].pte /\ s.lock = t /\ s.ref = vm[h].ref
  BY <1>1 DEF AsRecs
<1>5. vm' = [vm EXCEPT ![h] = s]
  BY DEF PgfaultCopy, CoreInv, TypeOK
<1>6. /\ r \in ThRecs /\ r.pc = "insert" /\ r.cpu = th[t].cpu /\ r.odec = th[t].odec
      /\ r.new = g /\ r.child = th[t].child /\ r.failed = th[t].failed
      /\ r.old = th[t].old
  BY <1>1, <1>3 DEF ThRecs, Places
<1>7. th' = [th EXCEPT ![t] = r]
  BY <1>2 DEF CoreInv, TypeOK
<1> HIDE DEF r, s
<1>8. LocalOK(r) /\ r.cpu = None /\ r.child = None /\ r.new # None
  BY <1>1, <1>3, <1>6, NoneApart DEF LocalOK
<1>9. pg' \in PgInts /\ \A x \in Pages : pg'[x].ref = pg[x].ref
  <2>1. Source(vm[h].pte) \in Pages
    BY <1>1, AsType, PteType, NoneApart DEF Source
  <2>2. pg[Source(vm[h].pte)].val \in Nat
    BY <2>1, StateTypes DEF CoreInv
  <2>3. PICK v \in Nat : v = pg[Source(vm[h].pte)].val
    BY <2>2
  <2>4. pg' = [pg EXCEPT ![g].val = v] /\ g \in Pages
    BY <1>2, <1>3, <2>3, NoneApart
  <2> QED BY <2>4 DEF CoreInv, TypeOK, PgRecs, PgInts
<1>10. \A x \in Pages : pg'[x].ref = pg[x].ref - (IF vm[Home[t]].pte.pg = x THEN 1 ELSE 0)
                                              + (IF s.pte.pg = x THEN 1 ELSE 0)
  <2>1. \A x \in Pages : pg'[x].ref = pg[x].ref /\ pg[x].ref \in Nat
    BY <1>9, StateTypes DEF CoreInv
  <2>2. s.pte.pg = vm[Home[t]].pte.pg
    BY <1>4
  <2> QED BY <2>1, <2>2, SameCount
<1>11. \A u \in Threads \ {t} : th[u].new # None => s.pte.pg # th[u].new /\ r.new # th[u].new
  BY <1>1, <1>3, <1>4, <1>6, NewUnused
<1>12. /\ th[t].pc # "none" /\ vm[Home[t]].lock \in {None, t} /\ s.mapped /\ s.alive
       /\ s.lock = (IF r.pc \in Busy THEN t ELSE None)
       /\ r.pc \notin {"none", "stack", "mask", "user"} /\ s.ref = vm[Home[t]].ref
  BY <1>1, <1>4, <1>6 DEF Busy
<1>13. UNCHANGED <<cpu, mtype, view, writes, forks, panic>>
  BY DEF PgfaultCopy
<1>14. pg'[r.new].ref = 0
  BY <1>3, <1>6, <1>9, NoneApart
<1>15. s \in AsRecs /\ r \in ThRecs /\ r.odec = th[t].odec
  BY <1>4, <1>6
<1> HIDE DEF h
<1> QED BY <1>5, <1>7, <1>8, <1>9, <1>10, <1>11, <1>12, <1>13, <1>14, <1>15, HomeStep DEF h

\* The insertion of the copy keeps the core invariant.
LEMMA Page_insertCore ==
    ASSUME CoreInv, NEW t \in Threads, Page_insert(t)
    PROVE  CoreInv'
<1> DEFINE h == Home[t]
           g == th[t].new
           p == vm[h].pte
           s == [vm[h] EXCEPT !.pte = Writable(g), !.lock = IF Present(p) THEN t ELSE None]
           r == IF Present(p) THEN [th[t] EXCEPT !.pc = "flush", !.new = None, !.old = TRUE]
                ELSE Back(th[t])
<1>1. /\ h \in Spaces /\ vm[h] \in AsRecs /\ th[t] \in ThRecs /\ LocalOK(th[t])
      /\ vm[h].alive /\ th[t].pc = "insert" /\ vm[h].lock = t /\ vm[h].mapped
  BY StateTypes DEF CoreInv, ThreadsInv, ThreadOK, At, Page_insert, Busy
<1>2. g \in Frames /\ g \in Pages /\ g # None
  BY <1>1, ThType, NoneApart DEF LocalOK
<1>3. p \in Ptes /\ p.pg # g /\ Writable(g) \in Ptes /\ Writable(g).pg = g
  BY <1>1, <1>2, AsType, WritableFacts, NewUnused
<1>4. pg' = Unmap(Refup(pg, g), p)
  BY DEF Page_insert, Space
<1>5. vm' = [vm EXCEPT ![h] = s]
  BY DEF Page_insert, Space, CoreInv, TypeOK
<1>6. th' = [th EXCEPT ![t] = r]
  BY DEF Page_insert, Space, CoreInv, TypeOK
<1>7. /\ s \in AsRecs /\ s.alive = vm[h].alive /\ s.mapped = vm[h].mapped
      /\ s.pte = Writable(g) /\ s.lock = (IF Present(p) THEN t ELSE None)
      /\ s.ref = vm[h].ref
  BY <1>1, <1>3 DEF AsRecs
<1>8. /\ r \in ThRecs /\ r.pc \in {"flush", "run", "clear"} /\ LocalOK(r)
      /\ Present(p) <=> r.pc = "flush"
      /\ r.cpu = None /\ r.odec = th[t].odec /\ r.new = None /\ r.child = None
  <2>1. CASE Present(p)
    <3> DEFINE q == [th[t] EXCEPT !.pc = "flush", !.new = None, !.old = TRUE]
    <3>1. /\ q \in ThRecs /\ q.pc = "flush" /\ q.cpu = th[t].cpu /\ q.odec = th[t].odec
          /\ q.new = None /\ q.child = th[t].child /\ q.failed = th[t].failed /\ q.old
      BY <1>1 DEF ThRecs, Places
    <3>2. r = q
      BY <2>1
    <3> HIDE DEF q, r
    <3>3. LocalOK(q)
      BY <1>1, <3>1 DEF LocalOK
    <3>4. th[t].cpu = None /\ th[t].child = None
      BY <1>1 DEF LocalOK
    <3> QED BY <2>1, <3>1, <3>2, <3>3, <3>4
  <2>2. CASE ~Present(p)
    <3>1. r = Back(th[t])
      BY <2>2
    <3> HIDE DEF r
    <3>2. LocalOK(Back(th[t]))
      BY <1>1, ThType DEF LocalOK
    <3> QED BY <1>1, <2>2, <3>1, <3>2, ThType
  <2> QED BY <2>1, <2>2
<1> HIDE DEF p, g, r, s
<1>9. /\ pg' \in PgInts
      /\ \A x \in Pages : pg'[x].ref = pg[x].ref - (IF vm[Home[t]].pte.pg = x THEN 1 ELSE 0)
                                              + (IF s.pte.pg = x THEN 1 ELSE 0)
  <2>1. /\ Refup(pg, g) \in PgInts
        /\ \A x \in Pages : Refup(pg, g)[x].ref = pg[x].ref + (IF g = x THEN 1 ELSE 0)
    BY <1>2, PgIsInts, RefupFacts DEF CoreInv
  <2>2. /\ pg' \in PgInts
        /\ \A x \in Pages : pg'[x].ref = Refup(pg, g)[x].ref - (IF p.pg = x THEN 1 ELSE 0)
    BY <1>3, <1>4, <2>1, UnmapFacts
  <2>3. vm[Home[t]].pte = p
    BY DEF p
  <2> QED BY <1>3, <1>7, <2>1, <2>2, <2>3, StateTypes DEF CoreInv
<1>10. \A u \in Threads \ {t} : th[u].new # None => s.pte.pg # th[u].new /\ r.new # th[u].new
  BY <1>2, <1>3, <1>7, <1>8 DEF g, CoreInv, ApartInv, Apart
<1>11. /\ th[t].pc # "none" /\ vm[Home[t]].lock \in {None, t} /\ s.mapped /\ s.alive
       /\ s.lock = (IF r.pc \in Busy THEN t ELSE None)
       /\ r.pc \notin {"none", "stack", "mask", "user"} /\ s.ref = vm[Home[t]].ref
  BY <1>1, <1>7, <1>8 DEF Busy
<1>12. UNCHANGED <<cpu, mtype, view, writes, forks, panic>>
  BY DEF Page_insert
<1> QED BY <1>5, <1>6, <1>7, <1>8, <1>9, <1>10, <1>11, <1>12, HomeStep

\* Munmap keeps the core invariant.
LEMMA MunmapCore ==
    ASSUME CoreInv, NEW t \in Threads, Munmap(t)
    PROVE  CoreInv'
<1> DEFINE h == Home[t]
           p == vm[h].pte
           s == [vm[h] EXCEPT !.mapped = FALSE, !.pte = NoPte, !.lock = t]
           r == [th[t] EXCEPT !.pc = "flush", !.cpu = None, !.old = TRUE]
<1>1. /\ h \in Spaces /\ vm[h] \in AsRecs /\ th[t] \in ThRecs /\ LocalOK(th[t])
      /\ vm[h].alive /\ th[t].pc = "user" /\ vm[h].lock = None
  BY StateTypes
     DEF CoreInv, ThreadsInv, ThreadOK, At, Munmap, Syscall, User, CanLock, Space
<1>2. CASE ~vm[h].mapped
  <2>1. Return(t) /\ UNCHANGED <<pg, vm>>
    BY <1>2 DEF Munmap, Space
  <2>2. Mild(t) /\ Back(th[t]) \in ThRecs /\ th' = [th EXCEPT ![t] = Back(th[t])]
        /\ Back(th[t]).cpu = None
    BY <1>1, <2>1, BackMild
  <2> QED BY <2>1, <2>2, MoveStep, NothingElse DEF Munmap, CoreInv, TypeOK
<1>3. CASE vm[h].mapped
  <2>1. vm' = [vm EXCEPT ![h] = s]
    BY <1>3 DEF Munmap, Space, CoreInv, TypeOK
  <2>2. th' = [th EXCEPT ![t] = r]
    BY <1>3 DEF Munmap, Space, CoreInv, TypeOK
  <2>3. pg' = Unmap(pg, p) /\ p \in Ptes
    BY <1>1, <1>3, AsType DEF Munmap, Space
  <2>4. /\ s \in AsRecs /\ s.alive = vm[h].alive /\ ~s.mapped
        /\ s.pte = NoPte /\ s.lock = t /\ s.ref = vm[h].ref
    BY <1>1, NoPteFacts DEF AsRecs
  <2>5. /\ r \in ThRecs /\ r.pc = "flush" /\ r.cpu = None /\ r.odec = th[t].odec
        /\ r.new = th[t].new /\ r.child = th[t].child /\ r.failed = th[t].failed /\ r.old
    BY <1>1 DEF ThRecs, Places
  <2> HIDE DEF s, r
  <2>6. LocalOK(r) /\ r.new = None /\ r.child = None
    BY <1>1, <2>5 DEF LocalOK
  <2>7. /\ pg' \in PgInts
        /\ \A x \in Pages : pg'[x].ref = pg[x].ref - (IF p.pg = x THEN 1 ELSE 0)
    BY <2>3, PgIsInts, UnmapFacts DEF CoreInv
  <2>8. \A x \in Pages : pg'[x].ref = pg[x].ref - (IF vm[Home[t]].pte.pg = x THEN 1 ELSE 0)
                                              + (IF s.pte.pg = x THEN 1 ELSE 0)
    <3>1. \A x \in Pages : s.pte.pg # x /\ pg[x].ref \in Nat
      BY <2>4, NoPteFacts, NoneApart, StateTypes DEF CoreInv
    <3>2. p.pg = vm[Home[t]].pte.pg
      OBVIOUS
    <3> HIDE DEF p
    <3> SUFFICES ASSUME NEW x \in Pages
                 PROVE  pg'[x].ref = pg[x].ref - (IF p.pg = x THEN 1 ELSE 0)
                                              + (IF s.pte.pg = x THEN 1 ELSE 0)
      BY <3>2
    <3>3. (IF s.pte.pg = x THEN 1 ELSE 0) = 0
      BY <3>1
    <3>4. pg[x].ref \in Nat /\ (IF p.pg = x THEN 1 ELSE 0) \in Nat
      BY <3>1
    <3> QED BY <2>7, <3>3, <3>4
  <2>9. \A u \in Threads \ {t} : th[u].new # None => s.pte.pg # th[u].new /\ r.new # th[u].new
    BY <2>4, <2>6, NoPteFacts
  <2>10. /\ th[t].pc # "none" /\ vm[Home[t]].lock \in {None, t} /\ s.alive
         /\ s.lock = (IF r.pc \in Busy THEN t ELSE None)
         /\ r.pc \notin {"none", "stack", "mask", "user"} /\ s.ref = vm[Home[t]].ref
    BY <1>1, <2>4, <2>5 DEF Busy
  <2>11. UNCHANGED <<cpu, mtype, view, writes, forks, panic>>
    BY DEF Munmap
  <2> QED BY <2>1, <2>2, <2>4, <2>5, <2>6, <2>7, <2>8, <2>9, <2>10, <2>11, HomeStep
<1> QED BY <1>2, <1>3

-------------------------------------------------------------------------------
(***************************************************************************)
(* Loading and counting of page maps.                                      *)
(***************************************************************************)
\* A process begins or ends, and no CPU and no thread counts otherwise.
LEMMA PmapsAlive ==
    ASSUME CoreInv,
           \A k \in CPUs : cpu'[k].cr3 = cpu[k].cr3,
           \A u \in Threads : th'[u].odec.pm = th[u].odec.pm,
           \A a \in Spaces : vm'[a].ref = vm[a].ref
                - (IF vm[a].alive THEN 1 ELSE 0) + (IF vm'[a].alive THEN 1 ELSE 0)
    PROVE  PmapsCounted' /\ \A a \in Spaces : vm'[a].ref \in Nat
<1> SUFFICES ASSUME NEW a \in Spaces
             PROVE  /\ vm'[a].ref = Cardinality({k \in CPUs : cpu'[k].cr3 = a})
                                    + Cardinality({u \in Threads : th'[u].odec.pm = a})
                                    + (IF vm'[a].alive THEN 1 ELSE 0)
                    /\ vm'[a].ref \in Nat
  BY DEF PmapsCounted
<1> DEFINE L == {k \in CPUs : cpu[k].cr3 = a}
           D == {u \in Threads : th[u].odec.pm = a}
<1>1. /\ {k \in CPUs : cpu'[k].cr3 = a} = L
      /\ {u \in Threads : th'[u].odec.pm = a} = D
  OBVIOUS
<1>2. vm[a].ref = Cardinality(L) + Cardinality(D) + (IF vm[a].alive THEN 1 ELSE 0)
  BY DEF CoreInv, RefsCounted, PmapsCounted
<1>3. IsFiniteSet(L) /\ IsFiniteSet(D)
  BY FS_Subset, VmAssumption
<1>4. Cardinality(L) \in Nat /\ Cardinality(D) \in Nat
  BY <1>3, FS_CardinalityType
<1> HIDE DEF L, D
<1>5. PICK z \in {0, 1} : z = (IF vm[a].alive THEN 1 ELSE 0)
  OBVIOUS
<1>6. PICK z1 \in {0, 1} : z1 = (IF vm'[a].alive THEN 1 ELSE 0)
  OBVIOUS
<1>7. vm[a].ref = Cardinality(L) + Cardinality(D) + z /\ vm'[a].ref = vm[a].ref - z + z1
  BY <1>2, <1>5, <1>6
<1>8. vm'[a].ref = Cardinality(L) + Cardinality(D) + z1 /\ vm'[a].ref \in Nat
  BY <1>4, <1>7
<1> QED BY <1>1, <1>6, <1>8

\* The load of a page map keeps the core invariant.
LEMMA UserrunLoadCore ==
    ASSUME CoreInv, NEW t \in Threads, NEW c \in CPUs, UserrunLoad(t, c)
    PROVE  CoreInv'
<1> DEFINE h == Home[t]
           d == Odec(t, c)
           r == [th[t] EXCEPT !.pc = "mask", !.cpu = c, !.odec = d]
           n == vm[h].ref + 1
           s == [vm[h] EXCEPT !.ref = n]
           k == [cr3 |-> h, tlb |-> NoEntry]
<1>1. /\ h \in Spaces /\ vm[h] \in AsRecs /\ th[t] \in ThRecs /\ LocalOK(th[t])
      /\ th[t].pc = "run" /\ vm[h].alive /\ h # None /\ c # None
  BY StateTypes, NoneApart DEF CoreInv, ThreadsInv, ThreadOK, UserrunLoad, At
<1>2. /\ d \in Odecs /\ d.pm = cpu[c].cr3 /\ cpu[c].cr3 # h
      /\ cpu[c].cr3 \in Spaces \cup {None}
  BY StateTypes, CpuType DEF Odec, Odecs, NoDec, UserrunLoad, CoreInv
<1>0. n \in Nat
  BY <1>1, AsType
<1> HIDE DEF d, n
<1>3. /\ r \in ThRecs /\ r.pc = "mask" /\ r.cpu = c /\ r.odec = d
      /\ r.new = th[t].new /\ r.child = th[t].child /\ r.failed = th[t].failed
      /\ r.old = th[t].old
  BY <1>1, <1>2 DEF ThRecs, Places
<1>4. /\ s \in AsRecs /\ s.ref = n /\ s.alive = vm[h].alive
      /\ s.mapped = vm[h].mapped /\ s.pte = vm[h].pte /\ s.lock = vm[h].lock
  BY <1>0, <1>1 DEF AsRecs
<1>5. k \in CpuRecs /\ k.cr3 = h
  BY <1>1 DEF CpuRecs, Entries
<1>6. /\ th' = [th EXCEPT ![t] = r] /\ vm' = [vm EXCEPT ![h] = s]
      /\ cpu' = [cpu EXCEPT ![c] = k]
      /\ UNCHANGED <<pg, mtype, view, writes, forks, panic>>
  BY DEF UserrunLoad, d, n, CoreInv, TypeOK
<1> HIDE DEF r, s, k
<1>7. /\ th' \in [Threads -> ThRecs] /\ th'[t] = r
      /\ \A u \in Threads \ {t} : th'[u] = th[u]
      /\ vm' \in [Spaces -> AsRecs] /\ vm'[h] = s
      /\ \A a \in Spaces \ {h} : vm'[a] = vm[a]
      /\ cpu' \in [CPUs -> CpuRecs] /\ cpu'[c] = k
      /\ \A j \in CPUs \ {c} : cpu'[j] = cpu[j]
  BY <1>1, <1>3, <1>4, <1>5, <1>6 DEF CoreInv, TypeOK
<1>8. TypeOK'
  BY <1>6, <1>7 DEF CoreInv, TypeOK
<1>9. LocalOK(r)
  BY <1>1, <1>3 DEF LocalOK
<1>10. \A a \in Spaces : /\ vm'[a].alive = vm[a].alive /\ vm'[a].mapped = vm[a].mapped
                         /\ vm'[a].pte = vm[a].pte /\ vm'[a].lock = vm[a].lock
  BY <1>4, <1>7
<1>11. \A u \in Threads \ {t} : th[u].cpu # c
  BY DEF UserrunLoad, OnCpu
<1> HIDE DEF h
<1>12. ThreadsInv'
  <2> SUFFICES ASSUME NEW u \in Threads PROVE ThreadOK(u)'
    BY DEF ThreadsInv
  <2>1. CASE u = t
    BY <1>1, <1>3, <1>5, <1>7, <1>9, <1>10, <2>1 DEF ThreadOK, h, Busy
  <2>2. CASE u # t
    <3>1. ThreadOK(u) /\ th'[u] = th[u] /\ th[u] \in ThRecs /\ Home[u] \in Spaces
      BY <1>7, <2>2, StateTypes DEF CoreInv, ThreadsInv
    <3>2. th[u].pc \in {"mask", "user"} => cpu'[th[u].cpu].cr3 = Home[u]
      BY <1>7, <1>11, <2>2, <3>1, ThType, UserCpu DEF ThreadOK
    <3>3. th[u].pc = "stack" => th[u].child \in Spaces
      BY <3>1, ThType DEF ThreadOK, LocalOK
    <3>4. pg' = pg
      BY <1>6
    <3> QED BY <1>10, <3>1, <3>2, <3>3, <3>4 DEF ThreadOK
  <2> QED BY <2>1, <2>2
<1>13. SpacesInv'
  <2> SUFFICES ASSUME NEW a \in Spaces PROVE SpaceOK(a)'
    BY DEF SpacesInv
  <2>1. SpaceOK(a)
    BY DEF CoreInv, SpacesInv
  <2>2. vm[a].lock \in Threads \cup {None}
    BY StateTypes, AsType DEF CoreInv
  <2>3. vm[a].lock # t
    BY <1>1, <2>1, <2>2, NoneApart DEF SpaceOK, Busy
  <2> QED BY <1>7, <1>10, <2>1, <2>2, <2>3 DEF SpaceOK
<1>14. ChildrenInv'
  <2> SUFFICES ASSUME NEW u \in Threads, NEW b \in Spaces, th'[u].child = b
               PROVE  ChildOK(u, b)'
    BY DEF ChildrenInv
  <2>1. \A v \in Threads : th'[v].child = th[v].child
    BY <1>3, <1>7
  <2>2. ChildOK(u, b)
    BY <2>1 DEF CoreInv, ChildrenInv
  <2>3. b # h
    BY <1>1, <2>2 DEF ChildOK, h
  <2>4. \A j \in CPUs : cpu'[j].cr3 # b
    BY <1>5, <1>7, <2>2, <2>3 DEF ChildOK
  <2>5. \A v \in Threads : Home[v] = b => th'[v].pc = "none"
    BY <1>7, <2>2, <2>3 DEF ChildOK, h
  <2> QED BY <1>10, <2>1, <2>2, <2>4, <2>5 DEF ChildOK
<1>15. ApartInv'
  <2> SUFFICES ASSUME NEW u \in Threads, NEW v \in Threads, u # v PROVE Apart(u, v)'
    BY DEF ApartInv
  <2>1. Apart(u, v)
    BY DEF CoreInv, ApartInv
  <2>2. CASE u # t /\ v # t
    BY <1>7, <2>1, <2>2 DEF Apart
  <2>3. CASE u = t
    BY <1>3, <1>7, <1>11, <2>1, <2>3 DEF Apart
  <2>4. CASE v = t
    BY <1>3, <1>7, <1>11, <2>1, <2>4 DEF Apart
  <2> QED BY <2>2, <2>3, <2>4
<1>16. PmapsCounted'
  <2>1. \A a \in Spaces : vm'[a].ref = vm[a].ref
                - (IF cpu[c].cr3 = a THEN 1 ELSE 0) + (IF cpu'[c].cr3 = a THEN 1 ELSE 0)
                - (IF th[t].odec.pm = a THEN 1 ELSE 0) + (IF th'[t].odec.pm = a THEN 1 ELSE 0)
                - (IF vm[a].alive THEN 1 ELSE 0) + (IF vm'[a].alive THEN 1 ELSE 0)
    <3> SUFFICES ASSUME NEW a \in Spaces
                 PROVE  vm'[a].ref = vm[a].ref
                - (IF cpu[c].cr3 = a THEN 1 ELSE 0) + (IF cpu'[c].cr3 = a THEN 1 ELSE 0)
                - (IF th[t].odec.pm = a THEN 1 ELSE 0) + (IF th'[t].odec.pm = a THEN 1 ELSE 0)
                - (IF vm[a].alive THEN 1 ELSE 0) + (IF vm'[a].alive THEN 1 ELSE 0)
      OBVIOUS
    <3>1. th[t].odec = NoDec /\ th[t].odec.pm # a
      BY <1>1, NoneApart DEF LocalOK, NoDec
    <3>2. th'[t].odec.pm = cpu[c].cr3 /\ cpu'[c].cr3 = h
      BY <1>2, <1>3, <1>5, <1>7
    <3>3. vm[a].ref \in Nat
      BY StateTypes, AsType DEF CoreInv
    <3>4. vm'[a].ref = vm[a].ref + (IF h = a THEN 1 ELSE 0)
      <4>1. CASE h = a
        BY <1>4, <1>7, <4>1 DEF n
      <4>2. CASE h # a
        BY <1>7, <3>3, <4>2
      <4> QED BY <4>1, <4>2
    <3>5. PICK z \in {0, 1} : z = (IF vm[a].alive THEN 1 ELSE 0)
      OBVIOUS
    <3>6. (IF vm'[a].alive THEN 1 ELSE 0) = z
      BY <1>10, <3>5
    <3>7. vm'[a].ref = vm[a].ref
                - (IF cpu[c].cr3 = a THEN 1 ELSE 0) + (IF h = a THEN 1 ELSE 0)
                - 0 + (IF cpu[c].cr3 = a THEN 1 ELSE 0) - z + z
      <4>1. PICK y \in {0, 1} : y = (IF cpu[c].cr3 = a THEN 1 ELSE 0)
        OBVIOUS
      <4>2. PICK x \in {0, 1} : x = (IF h = a THEN 1 ELSE 0)
        OBVIOUS
      <4>3. vm[a].ref + x = vm[a].ref - y + x - 0 + y - z + z
        BY <3>3
      <4> QED BY <3>4, <4>1, <4>2, <4>3
    <3>8. (IF th[t].odec.pm = a THEN 1 ELSE 0) = 0
      BY <3>1
    <3> QED BY <3>2, <3>5, <3>6, <3>7, <3>8
  <2> QED BY <1>7, <2>1, PmapsMove
<1>17. PagesCounted'
  <2>1. \A g \in Pages : {a \in Spaces : vm'[a].pte.pg = g} = {a \in Spaces : vm[a].pte.pg = g}
    BY <1>10
  <2> QED BY <1>6, <2>1 DEF CoreInv, RefsCounted, PagesCounted
<1> QED BY <1>8, <1>12, <1>13, <1>14, <1>15, <1>16, <1>17 DEF CoreInv, RefsCounted

\* Giving back the count of a page map keeps the core invariant.
LEMMA RunDecCore ==
    ASSUME CoreInv, NEW t \in Threads, RunDec(t)
    PROVE  CoreInv'
<1> DEFINE d == th[t].odec
           h == d.pm
           r == [th[t] EXCEPT !.pc = "run", !.odec = NoDec]
<1>1. /\ th[t] \in ThRecs /\ LocalOK(th[t]) /\ th[t].pc = "dec" /\ ThreadOK(t)
  BY StateTypes DEF CoreInv, ThreadsInv, ThreadOK, RunDec, At
<1>2. h \in Spaces /\ d.cpu \in CPUs /\ vm[h] \in AsRecs
  BY <1>1, ThType, OdecType, StateTypes DEF LocalOK, CoreInv
<1>3. /\ r \in ThRecs /\ r.pc = "run" /\ r.cpu = th[t].cpu /\ r.odec = NoDec
      /\ r.new = th[t].new /\ r.child = th[t].child /\ r.failed = th[t].failed
      /\ r.old = th[t].old
  BY <1>1 DEF ThRecs, Places, Odecs
<1>4. /\ th' = [th EXCEPT ![t] = r] /\ vm' = [vm EXCEPT ![h].ref = @ - 1]
      /\ UNCHANGED <<pg, cpu, mtype, view, writes, forks, panic>>
  BY DEF RunDec, CoreInv, TypeOK
<1>5. /\ vm' = [vm EXCEPT ![h] = [vm[h] EXCEPT !.ref = @ - 1]]
      /\ \A a \in Spaces : /\ vm'[a].alive = vm[a].alive /\ vm'[a].mapped = vm[a].mapped
                           /\ vm'[a].pte = vm[a].pte /\ vm'[a].lock = vm[a].lock
                           /\ vm'[a].ref = vm[a].ref - (IF h = a THEN 1 ELSE 0)
  <2>1. vm' = [vm EXCEPT ![h] = [vm[h] EXCEPT !.ref = @ - 1]]
    BY <1>2, <1>4 DEF CoreInv, TypeOK
  <2>2. ASSUME NEW a \in Spaces
        PROVE  /\ vm'[a].alive = vm[a].alive /\ vm'[a].mapped = vm[a].mapped
               /\ vm'[a].pte = vm[a].pte /\ vm'[a].lock = vm[a].lock
               /\ vm'[a].ref = vm[a].ref - (IF h = a THEN 1 ELSE 0)
    <3>1. vm[a] \in AsRecs /\ vm[a].ref \in Nat
      BY StateTypes, AsType DEF CoreInv
    <3>2. CASE a = h
      BY <1>2, <2>1, <3>1, <3>2 DEF AsRecs, CoreInv, TypeOK
    <3>3. CASE a # h
      <4>1. vm'[a] = vm[a]
        BY <2>1, <3>3 DEF CoreInv, TypeOK
      <4>2. vm[a].ref = vm[a].ref - 0
        BY <3>1
      <4> QED BY <3>3, <4>1, <4>2
    <3> QED BY <3>2, <3>3
  <2> QED BY <2>1, <2>2
<1>15. \A a \in Spaces : /\ vm'[a].alive = vm[a].alive /\ vm'[a].mapped = vm[a].mapped
                         /\ vm'[a].pte = vm[a].pte /\ vm'[a].lock = vm[a].lock
  BY <1>5
<1> HIDE DEF r
<1>6. /\ th' \in [Threads -> ThRecs] /\ th'[t] = r
      /\ \A u \in Threads \ {t} : th'[u] = th[u]
  BY <1>3, <1>4 DEF CoreInv, TypeOK
<1>7. PmapsCounted' /\ \A a \in Spaces : vm'[a].ref \in Nat
  <2>1. \A a \in Spaces : vm'[a].ref = vm[a].ref
                - (IF cpu[d.cpu].cr3 = a THEN 1 ELSE 0) + (IF cpu'[d.cpu].cr3 = a THEN 1 ELSE 0)
                - (IF th[t].odec.pm = a THEN 1 ELSE 0) + (IF th'[t].odec.pm = a THEN 1 ELSE 0)
                - (IF vm[a].alive THEN 1 ELSE 0) + (IF vm'[a].alive THEN 1 ELSE 0)
    <3> SUFFICES ASSUME NEW a \in Spaces
                 PROVE  vm'[a].ref = vm[a].ref
                - (IF cpu[d.cpu].cr3 = a THEN 1 ELSE 0) + (IF cpu'[d.cpu].cr3 = a THEN 1 ELSE 0)
                - (IF th[t].odec.pm = a THEN 1 ELSE 0) + (IF th'[t].odec.pm = a THEN 1 ELSE 0)
                - (IF vm[a].alive THEN 1 ELSE 0) + (IF vm'[a].alive THEN 1 ELSE 0)
      OBVIOUS
    <3>1. (IF th'[t].odec.pm = a THEN 1 ELSE 0) = 0
      BY <1>3, <1>6, NoneApart DEF NoDec
    <3>2. vm[a].ref \in Nat
      BY StateTypes, AsType DEF CoreInv
    <3>3. PICK z \in {0, 1} : z = (IF vm[a].alive THEN 1 ELSE 0)
      OBVIOUS
    <3>4. (IF vm'[a].alive THEN 1 ELSE 0) = z
      BY <1>5, <3>3
    <3>5. PICK y \in {0, 1} : y = (IF cpu[d.cpu].cr3 = a THEN 1 ELSE 0)
      OBVIOUS
    <3>6. (IF cpu'[d.cpu].cr3 = a THEN 1 ELSE 0) = y
      BY <1>4, <3>5
    <3>7. vm'[a].ref = vm[a].ref - y + y - (IF th[t].odec.pm = a THEN 1 ELSE 0) + 0 - z + z
      <4>1. PICK x \in {0, 1} : x = (IF h = a THEN 1 ELSE 0)
        OBVIOUS
      <4>2. vm[a].ref - x = vm[a].ref - y + y - x + 0 - z + z
        BY <3>2
      <4>3. vm'[a].ref = vm[a].ref - x
        BY <1>5, <4>1
      <4> QED BY <4>1, <4>2, <4>3
    <3> QED BY <3>1, <3>3, <3>4, <3>5, <3>6, <3>7
  <2>2. \A u \in Threads \ {t} : th'[u].odec.pm = th[u].odec.pm
    BY <1>6
  <2>3. \A j \in CPUs \ {d.cpu} : cpu'[j].cr3 = cpu[j].cr3
    BY <1>4
  <2> HIDE DEF d
  <2> QED BY <1>2, <2>1, <2>2, <2>3, PmapsMove
<1>8. TypeOK'
  <2>1. [vm[h] EXCEPT !.ref = @ - 1] \in AsRecs
    <3>1. vm[h].ref - 1 \in Nat
      BY <1>2, <1>5, <1>7
    <3> QED BY <1>2, <3>1 DEF AsRecs
  <2>2. vm' \in [Spaces -> AsRecs]
    BY <1>5, <2>1 DEF CoreInv, TypeOK
  <2> QED BY <1>4, <1>6, <2>2 DEF CoreInv, TypeOK
<1>9. LocalOK(r)
  BY <1>1, <1>3 DEF LocalOK
<1>10. ThreadsInv'
  <2> SUFFICES ASSUME NEW u \in Threads PROVE ThreadOK(u)'
    BY DEF ThreadsInv
  <2>1. ThreadOK(u) /\ th[u] \in ThRecs /\ Home[u] \in Spaces
    BY StateTypes DEF CoreInv, ThreadsInv
  <2>2. CASE u = t
    BY <1>1, <1>3, <1>15, <1>6, <1>9, <2>1, <2>2 DEF ThreadOK, Busy
  <2>3. CASE u # t
    <3>1. th[u].pc = "stack" => th[u].child \in Spaces
      BY <2>1, ThType DEF ThreadOK, LocalOK
    <3>2. pg' = pg /\ cpu' = cpu /\ th'[u] = th[u]
      BY <1>4, <1>6, <2>3
    <3> QED BY <1>15, <2>1, <3>1, <3>2 DEF ThreadOK
  <2> QED BY <2>2, <2>3
<1>11. SpacesInv'
  <2> SUFFICES ASSUME NEW a \in Spaces PROVE SpaceOK(a)'
    BY DEF SpacesInv
  <2>1. SpaceOK(a)
    BY DEF CoreInv, SpacesInv
  <2>2. vm[a].lock \in Threads \cup {None}
    BY StateTypes, AsType DEF CoreInv
  <2>3. vm[a].lock # t
    BY <1>1, <2>1, <2>2, NoneApart DEF SpaceOK, Busy
  <2>4. (vm[a].lock # None => Home[vm[a].lock] = a /\ th[vm[a].lock].pc \in Busy)'
    BY <1>15, <1>6, <2>1, <2>2, <2>3 DEF SpaceOK
  <2>5. (~vm[a].alive => ~vm[a].mapped)' /\ (~vm[a].mapped => vm[a].pte = NoPte)'
    BY <1>15, <2>1 DEF SpaceOK
  <2> QED BY <2>4, <2>5 DEF SpaceOK
<1>12. ChildrenInv'
  <2> SUFFICES ASSUME NEW u \in Threads, NEW b \in Spaces, th'[u].child = b
               PROVE  ChildOK(u, b)'
    BY DEF ChildrenInv
  <2>1. \A v \in Threads : th'[v].child = th[v].child
    BY <1>3, <1>6
  <2>2. ChildOK(u, b)
    BY <2>1 DEF CoreInv, ChildrenInv
  <2>3. \A v \in Threads : Home[v] = b => th'[v].pc = "none"
    BY <1>1, <1>6, <2>2 DEF ChildOK
  <2>4. cpu' = cpu
    BY <1>4
  <2> QED BY <1>5, <2>1, <2>2, <2>3, <2>4 DEF ChildOK
<1>13. ApartInv'
  <2>1. \A u \in Threads : th'[u].cpu = th[u].cpu /\ th'[u].new = th[u].new
    BY <1>3, <1>6
  <2> QED BY <2>1 DEF CoreInv, ApartInv, Apart
<1>14. PagesCounted'
  <2>1. \A g \in Pages : {a \in Spaces : vm'[a].pte.pg = g} = {a \in Spaces : vm[a].pte.pg = g}
    BY <1>5
  <2> QED BY <1>4, <2>1 DEF CoreInv, RefsCounted, PagesCounted
<1> QED BY <1>7, <1>8, <1>10, <1>11, <1>12, <1>13, <1>14 DEF CoreInv, RefsCounted

-------------------------------------------------------------------------------
(***************************************************************************)
(* Processes that begin and end.                                           *)
(***************************************************************************)
\* What is left of an address space.
LEMMA GoneFacts ==
    ASSUME NEW n \in Nat, NEW m \in SUBSET CPUs
    PROVE  LET s == [NoSpace EXCEPT !.ref = n, !.mask = m]
           IN  /\ s \in AsRecs /\ ~s.alive /\ ~s.mapped /\ s.pte = NoPte /\ s.lock = None
               /\ s.ref = n /\ s.mask = m /\ ~s.doomed
BY NoPteFacts DEF AsRecs, NoSpace

\* Counting of the page map of a process that lives.
LEMMA AliveCounted ==
    ASSUME CoreInv, NEW a \in Spaces, vm[a].alive
    PROVE  vm[a].ref - 1 \in Nat /\ vm[a].ref \in Nat
<1> DEFINE L == {k \in CPUs : cpu[k].cr3 = a}
           D == {u \in Threads : th[u].odec.pm = a}
<1>1. vm[a].ref = Cardinality(L) + Cardinality(D) + (IF vm[a].alive THEN 1 ELSE 0)
  BY DEF CoreInv, RefsCounted, PmapsCounted
<1>2. IsFiniteSet(L) /\ IsFiniteSet(D)
  BY FS_Subset, VmAssumption
<1>3. Cardinality(L) \in Nat /\ Cardinality(D) \in Nat
  BY <1>2, FS_CardinalityType
<1> HIDE DEF L, D
<1> QED BY <1>1, <1>3

\* The end of a process keeps the core invariant.
LEMMA RunDieCore ==
    ASSUME CoreInv, NEW t \in Threads, RunDie(t)
    PROVE  CoreInv'
<1> DEFINE h == Home[t]
           last == \A u \in Threads \ {t} : Home[u] = h => th[u].pc = "none"
           r == Thread("none")
<1>1. /\ h \in Spaces /\ vm[h] \in AsRecs /\ th[t] \in ThRecs /\ LocalOK(th[t])
      /\ th[t].pc = "run" /\ vm[h].alive
  BY StateTypes DEF CoreInv, ThreadsInv, ThreadOK, RunDie, At
<1>2. /\ r \in ThRecs /\ r.pc = "none" /\ r.cpu = None /\ r.new = None /\ ~r.old
      /\ r.child = None /\ ~r.failed /\ r.odec = NoDec
  BY FreshThread DEF Places
<1>3. /\ th' = [th EXCEPT ![t] = r]
      /\ vm' = IF last THEN Terminate(vm, h) ELSE vm
      /\ pg' = IF last THEN Unmap(pg, vm[h].pte) ELSE pg
      /\ UNCHANGED <<cpu, mtype, view, writes, forks, panic>>
  BY DEF RunDie, Space
<1> HIDE DEF r
<1>4. /\ th' \in [Threads -> ThRecs] /\ th'[t] = r
      /\ \A u \in Threads \ {t} : th'[u] = th[u]
  BY <1>2, <1>3 DEF CoreInv, TypeOK
<1>5. /\ \A u \in Threads : th'[u].child # None => th'[u] = th[u]
      /\ \A u \in Threads : th'[u].odec = th[u].odec
      /\ \A u \in Threads : th'[u].pc # "none" => th'[u] = th[u] /\ th[u].pc # "none"
      /\ \A u \in Threads : th[u].pc = "none" => th'[u].pc = "none"
  BY <1>1, <1>2, <1>4 DEF LocalOK
<1>6. ApartInv'
  <2> SUFFICES ASSUME NEW u \in Threads, NEW v \in Threads, u # v PROVE Apart(u, v)'
    BY DEF ApartInv
  <2>1. Apart(u, v)
    BY DEF CoreInv, ApartInv
  <2> QED BY <1>2, <1>4, <2>1 DEF Apart
<1>7. CASE ~last
  <2>1. vm' = vm /\ pg' = pg
    BY <1>3, <1>7
  <2> HIDE DEF last, h
  <2>2. TypeOK'
    BY <1>3, <1>4, <2>1 DEF CoreInv, TypeOK
  <2>3. LocalOK(r)
    BY <1>2 DEF LocalOK
  <2>4. ThreadsInv'
    BY <1>2, <1>3, <1>4, <2>1, <2>3 DEF CoreInv, ThreadsInv, ThreadOK, Busy
  <2>5. SpacesInv'
    <3> SUFFICES ASSUME NEW a \in Spaces PROVE SpaceOK(a)'
      BY DEF SpacesInv
    <3>1. SpaceOK(a) /\ vm[a].lock \in Threads \cup {None}
      BY StateTypes, AsType DEF CoreInv, SpacesInv
    <3>2. vm[a].lock # t
      BY <1>1, <3>1, NoneApart DEF SpaceOK, Busy
    <3> QED BY <1>4, <2>1, <3>1, <3>2 DEF SpaceOK
  <2>6. ChildrenInv'
    <3> SUFFICES ASSUME NEW u \in Threads, NEW b \in Spaces, th'[u].child = b
                 PROVE  ChildOK(u, b)'
      BY DEF ChildrenInv
    <3>1. th[u].child = b /\ ChildOK(u, b)
      BY <1>5, NoneApart DEF CoreInv, ChildrenInv
    <3>2. \A v \in Threads : th'[v].child = b => v = u
      BY <1>5, <3>1, NoneApart DEF ChildOK
    <3> QED BY <1>3, <1>5, <2>1, <3>1, <3>2 DEF ChildOK
  <2>7. \A k \in CPUs : cpu'[k].cr3 = cpu[k].cr3
    BY <1>3
  <2>8. \A a \in Spaces : {u \in Threads : th'[u].odec.pm = a} = {u \in Threads : th[u].odec.pm = a}
    BY <1>5
  <2>9. RefsCounted'
    BY <1>3, <2>1, <2>8 DEF CoreInv, RefsCounted, PagesCounted, PmapsCounted
  <2> QED BY <1>6, <2>2, <2>4, <2>5, <2>6, <2>9 DEF CoreInv
<1>8. CASE last
  <2> DEFINE n == vm[h].ref - 1
             s == [NoSpace EXCEPT !.ref = n, !.mask = vm[h].mask]
  <2>1. vm' = [vm EXCEPT ![h] = s] /\ pg' = Unmap(pg, vm[h].pte)
    BY <1>3, <1>8 DEF Terminate
  <2>2. n \in Nat /\ vm[h].mask \in SUBSET CPUs
    BY <1>1, AliveCounted, AsType
  <2>3. /\ s \in AsRecs /\ ~s.alive /\ ~s.mapped /\ s.pte = NoPte /\ s.lock = None
        /\ s.ref = vm[h].ref - 1
    <3> HIDE DEF n
    <3>1. /\ s \in AsRecs /\ ~s.alive /\ ~s.mapped /\ s.pte = NoPte /\ s.lock = None
          /\ s.ref = n
      BY <2>2, GoneFacts
    <3> QED BY <3>1 DEF n
  <2> HIDE DEF s, n
  <2>4. /\ vm' \in [Spaces -> AsRecs] /\ vm'[h] = s
        /\ \A a \in Spaces \ {h} : vm'[a] = vm[a]
    BY <1>1, <2>1, <2>3 DEF CoreInv, TypeOK
  <2>5. /\ pg' \in PgInts
        /\ \A x \in Pages : pg'[x].ref = pg[x].ref - (IF vm[h].pte.pg = x THEN 1 ELSE 0)
    BY <1>1, <2>1, PgIsInts, UnmapFacts, AsType DEF CoreInv
  <2>6. PagesCounted' /\ \A g \in Pages : pg'[g].ref \in Nat
    <3>1. \A x \in Pages : pg'[x].ref = pg[x].ref - (IF vm[h].pte.pg = x THEN 1 ELSE 0)
                                                  + (IF vm'[h].pte.pg = x THEN 1 ELSE 0)
      <4> SUFFICES ASSUME NEW x \in Pages
                   PROVE  pg'[x].ref = pg[x].ref - (IF vm[h].pte.pg = x THEN 1 ELSE 0)
                                                  + (IF vm'[h].pte.pg = x THEN 1 ELSE 0)
        OBVIOUS
      <4>1. vm'[h].pte.pg # x /\ pg[x].ref \in Nat
        BY <2>3, <2>4, NoPteFacts, NoneApart, StateTypes DEF CoreInv
      <4> QED BY <2>5, <4>1
    <3> QED BY <1>1, <2>4, <3>1, PagesMove
  <2>7. PmapsCounted'
    <3>1. \A a \in Spaces : vm'[a].ref = vm[a].ref
                - (IF vm[a].alive THEN 1 ELSE 0) + (IF vm'[a].alive THEN 1 ELSE 0)
      <4> SUFFICES ASSUME NEW a \in Spaces
                   PROVE  vm'[a].ref = vm[a].ref
                - (IF vm[a].alive THEN 1 ELSE 0) + (IF vm'[a].alive THEN 1 ELSE 0)
        OBVIOUS
      <4>1. vm[a].ref \in Nat
        BY StateTypes, AsType DEF CoreInv
      <4>2. CASE a = h
        BY <1>1, <2>3, <2>4, <4>1, <4>2
      <4>3. CASE a # h
        BY <2>4, <4>1, <4>3
      <4> QED BY <4>2, <4>3
    <3> QED BY <1>3, <1>5, <3>1, PmapsAlive
  <2>8. TypeOK'
    BY <1>3, <1>4, <2>4, <2>5, <2>6, PgBack DEF CoreInv, TypeOK
  <2>9. \A u \in Threads : Home[u] = h => th'[u].pc = "none"
    BY <1>2, <1>4, <1>8
  <2> HIDE DEF last, h
  <2>10. ThreadsInv'
    <3> SUFFICES ASSUME NEW u \in Threads PROVE ThreadOK(u)'
      BY DEF ThreadsInv
    <3>1. CASE th'[u].pc = "none"
      <4>1. LocalOK(th'[u])
        BY <1>2, <1>4 DEF LocalOK, CoreInv, ThreadsInv, ThreadOK
      <4> QED BY <3>1, <4>1 DEF ThreadOK, Busy
    <3>2. CASE th'[u].pc # "none"
      <4>1. th'[u] = th[u] /\ Home[u] # h /\ ThreadOK(u) /\ Home[u] \in Spaces
            /\ th[u] \in ThRecs /\ vm'[Home[u]] = vm[Home[u]]
        BY <1>5, <2>4, <2>9, <3>2, StateTypes DEF CoreInv, ThreadsInv
      <4>2. th[u].pc = "insert" => pg'[th[u].new].ref = 0
        <5> SUFFICES ASSUME th[u].pc = "insert" PROVE pg'[th[u].new].ref = 0
          OBVIOUS
        <5>1. th[u].new # None
          BY <4>1 DEF ThreadOK, LocalOK
        <5>2. th[u].new \in Pages /\ pg[th[u].new].ref = 0 /\ vm[h].pte.pg # th[u].new
          BY <1>1, <5>1, NewUnused
        <5> QED BY <2>5, <5>2
      <4>3. th[u].pc = "stack" => vm'[th[u].child] = vm[th[u].child]
        <5> SUFFICES ASSUME th[u].pc = "stack" PROVE vm'[th[u].child] = vm[th[u].child]
          OBVIOUS
        <5>1. th[u].child \in Spaces
          BY <4>1, ThType DEF ThreadOK, LocalOK
        <5>2. th[u].child # h
          BY <1>1, <5>1 DEF CoreInv, ChildrenInv, ChildOK, h
        <5> QED BY <2>4, <5>1, <5>2
      <4> QED BY <1>3, <4>1, <4>2, <4>3 DEF ThreadOK
    <3> QED BY <3>1, <3>2
  <2>11. SpacesInv'
    <3> SUFFICES ASSUME NEW a \in Spaces PROVE SpaceOK(a)'
      BY DEF SpacesInv
    <3>1. SpaceOK(a) /\ vm[a].lock \in Threads \cup {None}
      BY StateTypes, AsType DEF CoreInv, SpacesInv
    <3>2. vm[a].lock # t
      BY <1>1, <3>1, NoneApart DEF SpaceOK, Busy
    <3>3. CASE a = h
      BY <2>3, <2>4, <3>3 DEF SpaceOK
    <3>4. CASE a # h
      BY <1>4, <2>4, <3>1, <3>2, <3>4 DEF SpaceOK
    <3> QED BY <3>3, <3>4
  <2>12. ChildrenInv'
    <3> SUFFICES ASSUME NEW u \in Threads, NEW b \in Spaces, th'[u].child = b
                 PROVE  ChildOK(u, b)'
      BY DEF ChildrenInv
    <3>1. th[u].child = b /\ ChildOK(u, b)
      BY <1>5, NoneApart DEF CoreInv, ChildrenInv
    <3>2. \A v \in Threads : th'[v].child = b => v = u
      BY <1>5, <3>1, NoneApart DEF ChildOK
    <3>3. b # h
      BY <1>1, <3>1 DEF ChildOK, h
    <3> QED BY <1>3, <1>5, <2>4, <3>1, <3>2, <3>3 DEF ChildOK
  <2> QED BY <1>6, <2>6, <2>7, <2>8, <2>10, <2>11, <2>12 DEF CoreInv, RefsCounted
<1> QED BY <1>7, <1>8

\* What fork makes of an entry.
LEMMA CowFacts ==
    ASSUME NEW p \in Ptes
    PROVE  /\ Cow(p) \in Ptes /\ Cow(p).pg = p.pg
           /\ Present(Cow(p)) <=> Present(p)
           /\ ~Present(p) => Cow(p) = NoPte
           /\ mtype = "shareanon" => Cow(p) = p
           /\ mtype # "shareanon" => "W" \notin Cow(p).flags
           /\ mtype # "shareanon" /\ "W" \in p.flags =>
                Cow(p).flags = (p.flags \ {"W", "WASCOW"}) \cup {"COW"}
           /\ "W" \notin p.flags => Cow(p) = p
<1>1. p.pg \in Pages \cup {None} /\ p.flags \in SUBSET Flags
  BY PteType
<1>2. CASE "W" \in p.flags /\ mtype # "shareanon"
  <2> DEFINE f == (p.flags \ {"W", "WASCOW"}) \cup {"COW"}
  <2>1. Cow(p) = Pte(p.pg, f)
    BY <1>2 DEF Cow
  <2>2. p.pg \in Pages /\ f \in SUBSET Flags /\ Present(p) /\ "W" \notin f
    BY <1>1, <1>2, PteType DEF Flags
  <2>3. f = (p.flags \ {"W", "WASCOW"}) \cup {"COW"}
    OBVIOUS
  <2> HIDE DEF f
  <2>4. Cow(p) \in Ptes /\ Cow(p).pg = p.pg /\ Cow(p).flags = f /\ Present(Cow(p))
    BY <2>1, <2>2, MakePte
  <2> QED BY <1>2, <2>2, <2>3, <2>4
<1>3. CASE ~("W" \in p.flags /\ mtype # "shareanon")
  <2>1. Cow(p) = p
    BY <1>3 DEF Cow
  <2> QED BY <1>3, <2>1, PteType
<1> QED BY <1>2, <1>3

\* The child adds one entry for the page, if there is one.
LEMMA ForkedFacts ==
    ASSUME TypeOK, NEW p \in Ptes
    PROVE  /\ Forked(p) \in PgInts
           /\ \A x \in Pages : /\ Forked(p)[x].ref = pg[x].ref + (IF p.pg = x THEN 1 ELSE 0)
                               /\ Forked(p)[x].val = pg[x].val
<1>1. pg \in PgInts
  BY PgIsInts
<1>2. CASE Present(p)
  BY <1>1, <1>2, PteType, RefupFacts DEF Forked
<1>3. CASE ~Present(p)
  <2>1. Forked(p) = pg /\ p.pg = None
    BY <1>3, PteType DEF Forked
  <2>2. \A x \in Pages : p.pg # x /\ pg[x].ref \in Int
    BY <1>1, <2>1, NoneApart DEF PgInts
  <2> QED BY <1>1, <2>1, <2>2
<1> QED BY <1>2, <1>3

\* Fork keeps the core invariant.
LEMMA PteforkCore ==
    ASSUME CoreInv, NEW t \in Threads, NEW b \in Spaces, NEW stack \in BOOLEAN,
           Ptefork(t, b, stack)
    PROVE  CoreInv'
<1> DEFINE h == Home[t]
           p == Cow(vm[h].pte)
           q == IF stack THEN "stack" ELSE "flush"
           r == [th[t] EXCEPT !.pc = q, !.cpu = None, !.child = b]
           s == [vm[h] EXCEPT !.pte = p, !.lock = t]
           n == [NoSpace EXCEPT !.alive = TRUE, !.ref = 1, !.pte = p,
                                !.mapped = vm[h].mapped, !.mask = vm[b].mask]
<1>1. /\ h \in Spaces /\ vm[h] \in AsRecs /\ th[t] \in ThRecs /\ LocalOK(th[t])
      /\ vm[h].alive /\ th[t].pc = "user" /\ vm[h].lock = None
  BY StateTypes
     DEF CoreInv, ThreadsInv, ThreadOK, At, Ptefork, Syscall, User, CanLock, Space
<1>2. /\ ~vm[b].alive /\ vm[b].ref = 0 /\ b # h /\ vm[b] \in AsRecs
      /\ \A u \in Threads : th[u].child # b
  BY <1>1, StateTypes DEF Ptefork, CoreInv
<1>3. /\ vm[b].pte = NoPte /\ vm[b].lock = None /\ ~vm[b].mapped
      /\ \A u \in Threads : Home[u] = b => th[u].pc = "none"
      /\ \A c \in CPUs : cpu[c].cr3 # b
  <2>1. SpaceOK(b) /\ vm[b].lock \in Threads \cup {None}
    BY <1>2, AsType DEF CoreInv, SpacesInv
  <2>2. \A u \in Threads : Home[u] = b => th[u].pc = "none"
    BY <1>2 DEF CoreInv, ThreadsInv, ThreadOK
  <2>3. vm[b].lock = None
    BY <2>1, <2>2 DEF SpaceOK, Busy
  <2>4. \A c \in CPUs : cpu[c].cr3 # b
    BY <1>2, CountedUsed
  <2> QED BY <1>2, <2>1, <2>2, <2>3, <2>4 DEF SpaceOK
<1>4. /\ p \in Ptes /\ p.pg = vm[h].pte.pg /\ (Present(p) <=> Present(vm[h].pte))
      /\ (~vm[h].mapped => p = NoPte)
  <2>1. vm[h].pte \in Ptes
    BY <1>1, AsType
  <2>2. ~vm[h].mapped => vm[h].pte = NoPte
    BY <1>1 DEF CoreInv, SpacesInv, SpaceOK
  <2> QED BY <2>1, <2>2, CowFacts, NoPteFacts
<1>5. /\ vm' = [vm EXCEPT ![h].pte = p, ![h].lock = t, ![b] = n]
      /\ pg' = Forked(p)
      /\ UNCHANGED <<cpu, mtype, writes, panic>>
      /\ view' = [view EXCEPT ![b] = view[h]] /\ forks' = forks + 1
  BY DEF Ptefork, Space
<1>6. stack => Present(p)
  BY <1>4 DEF Ptefork, Space
<1>7. th' = [th EXCEPT ![t] = r]
  BY DEF Ptefork, CoreInv, TypeOK
<1> HIDE DEF p
<1>8. /\ q \in {"stack", "flush"} /\ (q = "stack" <=> stack)
  OBVIOUS
<1> HIDE DEF q
<1>9. /\ r \in ThRecs /\ r.pc = q /\ r.cpu = None /\ r.odec = th[t].odec
      /\ r.new = th[t].new /\ r.child = b /\ r.failed = th[t].failed
      /\ r.old = th[t].old
  BY <1>1, <1>8 DEF ThRecs, Places
<1>10. LocalOK(r) /\ r.new = None
  <2> HIDE DEF r
  <2> QED BY <1>1, <1>8, <1>9, NoneApart DEF LocalOK
<1>11. /\ s \in AsRecs /\ s.alive = vm[h].alive /\ s.mapped = vm[h].mapped /\ s.pte = p
       /\ s.lock = t /\ s.ref = vm[h].ref
  BY <1>1, <1>4 DEF AsRecs
<1>12. /\ n \in AsRecs /\ n.alive /\ n.mapped = vm[h].mapped /\ n.pte = p
       /\ n.lock = None /\ n.ref = 1
  BY <1>1, <1>2, <1>4 DEF AsRecs, NoSpace
<1>13. /\ vm' \in [Spaces -> AsRecs] /\ vm'[h] = s /\ vm'[b] = n
       /\ \A a \in Spaces \ {h, b} : vm'[a] = vm[a]
  <2> HIDE DEF n
  <2>1. vm' = [vm EXCEPT ![h] = s, ![b] = n]
    BY <1>1, <1>2, <1>5 DEF CoreInv, TypeOK
  <2> HIDE DEF s
  <2> QED BY <1>1, <1>2, <1>11, <1>12, <2>1 DEF CoreInv, TypeOK
<1> HIDE DEF r, s, n
<1>14. /\ th' \in [Threads -> ThRecs] /\ th'[t] = r
       /\ \A u \in Threads \ {t} : th'[u] = th[u]
  BY <1>7, <1>9 DEF CoreInv, TypeOK
<1>15. /\ pg' \in PgInts
       /\ \A x \in Pages : pg'[x].ref = pg[x].ref + (IF p.pg = x THEN 1 ELSE 0)
  BY <1>4, <1>5, ForkedFacts DEF CoreInv
<1>16. PagesCounted' /\ \A g \in Pages : pg'[g].ref \in Nat
  <2>1. \A a \in Spaces \ {b} : vm'[a].pte.pg = vm[a].pte.pg
    BY <1>4, <1>11, <1>13
  <2>2. \A x \in Pages : pg'[x].ref = pg[x].ref - (IF vm[b].pte.pg = x THEN 1 ELSE 0)
                                                + (IF vm'[b].pte.pg = x THEN 1 ELSE 0)
    <3> SUFFICES ASSUME NEW x \in Pages
                 PROVE  pg'[x].ref = pg[x].ref - (IF vm[b].pte.pg = x THEN 1 ELSE 0)
                                                + (IF vm'[b].pte.pg = x THEN 1 ELSE 0)
      OBVIOUS
    <3>1. vm[b].pte.pg # x /\ pg[x].ref \in Nat /\ vm'[b].pte = p
      BY <1>3, <1>12, <1>13, NoPteFacts, NoneApart, StateTypes DEF CoreInv
    <3> QED BY <1>15, <3>1
  <2> QED BY <2>1, <2>2, PagesMove
<1>17. PmapsCounted'
  <2>1. \A a \in Spaces : vm'[a].ref = vm[a].ref
                - (IF vm[a].alive THEN 1 ELSE 0) + (IF vm'[a].alive THEN 1 ELSE 0)
    <3> SUFFICES ASSUME NEW a \in Spaces
                 PROVE  vm'[a].ref = vm[a].ref
                - (IF vm[a].alive THEN 1 ELSE 0) + (IF vm'[a].alive THEN 1 ELSE 0)
      OBVIOUS
    <3>1. vm[a].ref \in Nat
      BY StateTypes, AsType DEF CoreInv
    <3>2. CASE a = b
      BY <1>2, <1>12, <1>13, <3>2
    <3>3. CASE a = h
      <4>1. vm'[a].ref = vm[a].ref /\ vm'[a].alive = vm[a].alive
        BY <1>11, <1>13, <3>3
      <4> QED BY <1>1, <3>1, <3>3, <4>1
    <3>4. CASE a \notin {h, b}
      BY <1>13, <3>1, <3>4
    <3> QED BY <3>2, <3>3, <3>4
  <2>2. /\ \A k \in CPUs : cpu'[k].cr3 = cpu[k].cr3
        /\ \A u \in Threads : th'[u].odec.pm = th[u].odec.pm
    BY <1>5, <1>9, <1>14
  <2> QED BY <2>1, <2>2, PmapsAlive
<1>18. TypeOK'
  <2>1. view' \in [Spaces -> Nat] /\ forks' \in Nat
    BY <1>1, <1>5 DEF CoreInv, TypeOK
  <2> QED BY <1>5, <1>13, <1>14, <1>15, <1>16, <2>1, PgBack DEF CoreInv, TypeOK
<1> HIDE DEF h
<1>19. ThreadsInv'
  <2> SUFFICES ASSUME NEW u \in Threads PROVE ThreadOK(u)'
    BY DEF ThreadsInv
  <2>1. CASE u = t
    <3>1. Home[u] = h /\ th'[u] = r /\ vm'[Home[u]] = s /\ vm'[b] = n
      BY <1>13, <1>14, <2>1 DEF h
    <3>2. s.alive /\ s.lock = u /\ s.pte = p /\ n.pte = p
      BY <1>1, <1>11, <1>12, <2>1
    <3> QED BY <1>6, <1>8, <1>9, <1>10, <3>1, <3>2 DEF ThreadOK
  <2>2. CASE u # t /\ th[u].pc # "none"
    <3>1. ThreadOK(u) /\ th'[u] = th[u] /\ th[u] \in ThRecs /\ Home[u] \in Spaces /\ Home[u] # b
      BY <1>3, <1>14, <2>2, StateTypes DEF CoreInv, ThreadsInv
    <3>2. th[u].pc \in Busy => Home[u] # h
      BY <1>1, <3>1, NoneApart DEF ThreadOK
    <3>3. th[u].pc # "none" => vm'[Home[u]].alive
      BY <1>1, <1>11, <1>13, <3>1 DEF ThreadOK
    <3>4. th[u].pc \in Busy => vm'[Home[u]] = vm[Home[u]]
      BY <1>13, <3>1, <3>2
    <3>5. th[u].pc = "insert" => pg'[th[u].new].ref = 0
      <4> SUFFICES ASSUME th[u].pc = "insert" PROVE pg'[th[u].new].ref = 0
        OBVIOUS
      <4>1. th[u].new # None
        BY <3>1 DEF ThreadOK, LocalOK
      <4>2. th[u].new \in Pages /\ pg[th[u].new].ref = 0 /\ vm[h].pte.pg # th[u].new
        BY <1>1, <4>1, NewUnused
      <4> QED BY <1>4, <1>15, <4>2
    <3>6. th[u].pc = "stack" => vm'[th[u].child] = vm[th[u].child]
      <4> SUFFICES ASSUME th[u].pc = "stack" PROVE vm'[th[u].child] = vm[th[u].child]
        OBVIOUS
      <4>1. th[u].child \in Spaces
        BY <3>1, ThType DEF ThreadOK, LocalOK
      <4>2. th[u].child # h
        BY <1>1, <4>1 DEF CoreInv, ChildrenInv, ChildOK, h
      <4> QED BY <1>2, <1>13, <4>1, <4>2
    <3> QED BY <1>5, <3>1, <3>3, <3>4, <3>5, <3>6 DEF ThreadOK, Busy
  <2>3. CASE u # t /\ th[u].pc = "none"
    BY <1>14, <2>3 DEF CoreInv, ThreadsInv, ThreadOK, Busy
  <2> QED BY <2>1, <2>2, <2>3
<1>20. SpacesInv'
  <2> SUFFICES ASSUME NEW a \in Spaces PROVE SpaceOK(a)'
    BY DEF SpacesInv
  <2>1. SpaceOK(a) /\ vm[a].lock \in Threads \cup {None}
    BY StateTypes, AsType DEF CoreInv, SpacesInv
  <2>2. CASE a = h
    <3>1. ~s.mapped => s.pte = NoPte
      BY <1>4, <1>11
    <3>2. s.alive /\ Home[t] = a /\ th'[t].pc \in Busy
      BY <1>1, <1>8, <1>9, <1>11, <1>14, <2>2 DEF Busy, h
    <3> QED BY <1>11, <1>13, <2>2, <3>1, <3>2 DEF SpaceOK
  <2>3. CASE a = b
    BY <1>4, <1>12, <1>13, <2>3 DEF SpaceOK
  <2>4. CASE a \notin {h, b}
    <3>1. vm[a].lock # t
      BY <1>1, <2>1, NoneApart DEF SpaceOK, Busy
    <3> QED BY <1>13, <1>14, <2>1, <2>4, <3>1 DEF SpaceOK
  <2> QED BY <2>2, <2>3, <2>4
<1>21. ChildrenInv'
  <2> SUFFICES ASSUME NEW u \in Threads, NEW a \in Spaces, th'[u].child = a
               PROVE  ChildOK(u, a)'
    BY DEF ChildrenInv
  <2>1. cpu' = cpu
    BY <1>5
  <2>2. CASE u = t
    <3>1. a = b
      BY <1>9, <1>14, <2>2
    <3>2. \A v \in Threads : Home[v] = b => th'[v].pc = "none"
      BY <1>2, <1>3, <1>14 DEF h
    <3>3. \A v \in Threads : th'[v].child = b => v = t
      BY <1>2, <1>14
    <3> QED BY <1>3, <1>12, <1>13, <2>1, <2>2, <3>1, <3>2, <3>3 DEF ChildOK
  <2>3. CASE u # t
    <3>1. th[u].child = a /\ ChildOK(u, a) /\ a # b
      BY <1>2, <1>14, <2>3 DEF CoreInv, ChildrenInv
    <3>2. a # h
      BY <1>1, <3>1 DEF ChildOK, h
    <3>3. \A v \in Threads : Home[v] = a => th'[v].pc = "none"
      BY <1>14, <3>1, <3>2 DEF ChildOK, h
    <3>4. \A v \in Threads : th'[v].child = a => v = u
      BY <1>9, <1>14, <3>1 DEF ChildOK
    <3> QED BY <1>13, <2>1, <3>1, <3>2, <3>3, <3>4 DEF ChildOK
  <2> QED BY <2>2, <2>3
<1>22. ApartInv'
  <2> SUFFICES ASSUME NEW u \in Threads, NEW v \in Threads, u # v PROVE Apart(u, v)'
    BY DEF ApartInv
  <2>1. Apart(u, v)
    BY DEF CoreInv, ApartInv
  <2> QED BY <1>9, <1>10, <1>14, <2>1 DEF Apart
<1> QED BY <1>16, <1>17, <1>18, <1>19, <1>20, <1>21, <1>22 DEF CoreInv, RefsCounted

\* The copy of the stack keeps the core invariant.
LEMMA Vm_forkStackCore ==
    ASSUME CoreInv, NEW t \in Threads, Vm_forkStack(t)
    PROVE  CoreInv'
<1> DEFINE h == Home[t]
           b == th[t].child
           p == vm[b].pte
<1>1. /\ h \in Spaces /\ vm[h] \in AsRecs /\ th[t] \in ThRecs /\ LocalOK(th[t])
      /\ vm[h].alive /\ th[t].pc = "stack" /\ vm[h].lock = t /\ Present(p) /\ vm[h].pte = p
  BY StateTypes DEF CoreInv, ThreadsInv, ThreadOK, At, Vm_forkStack, Busy
<1>2. b \in Spaces /\ ChildOK(t, b) /\ b # h /\ vm[b] \in AsRecs
  BY <1>1, ThType, StateTypes, NoneApart DEF LocalOK, CoreInv, ChildrenInv, ChildOK
<1>3. p \in Ptes /\ p.pg \in Pages
  BY <1>1, <1>2, AsType, PteType
<1>4. CASE UNCHANGED <<pg, vm>> /\ th' = [th EXCEPT ![t].pc = "flush", ![t].failed = TRUE]
  <2> DEFINE r == [th[t] EXCEPT !.pc = "flush", !.failed = TRUE]
  <2>1. /\ r \in ThRecs /\ r.pc = "flush" /\ r.cpu = th[t].cpu /\ r.odec = th[t].odec
        /\ r.new = th[t].new /\ r.child = th[t].child /\ r.failed /\ r.old = th[t].old
    BY <1>1 DEF ThRecs, Places
  <2>2. th' = [th EXCEPT ![t] = r] /\ th'[t] = r
    BY <1>4 DEF CoreInv, TypeOK
  <2> HIDE DEF r
  <2>3. LocalOK(r)
    BY <1>1, <2>1 DEF LocalOK
  <2>4. Mild(t)
    BY <1>1, <2>1, <2>2, <2>3 DEF Mild, Busy
  <2> QED BY <1>4, <2>1, <2>2, <2>4, MoveStep, NothingElse DEF Vm_forkStack, CoreInv, TypeOK
<1>5. ASSUME NEW g \in FreePages,
             pg' = [Refdown(Refup(pg, g), p.pg) EXCEPT ![g].val = pg[p.pg].val],
             vm' = [vm EXCEPT ![b].pte = Writable(g), ![h].pte = Writable(p.pg)],
             Go(t, "flush")
      PROVE  CoreInv'
  <2> DEFINE r == [th[t] EXCEPT !.pc = "flush"]
             s == [vm[h] EXCEPT !.pte = Writable(p.pg)]
             n == [vm[b] EXCEPT !.pte = Writable(g)]
             f == Refdown(Refup(pg, g), p.pg)
  <2>1. g \in Frames /\ g \in Pages /\ pg[g].ref = 0 /\ \A u \in Threads : th[u].new # g
    BY NoneApart DEF FreePages
  <2>2. /\ Writable(g) \in Ptes /\ Writable(g).pg = g /\ Writable(p.pg) \in Ptes
        /\ Writable(p.pg).pg = p.pg /\ Present(Writable(g)) /\ Present(Writable(p.pg))
    BY <1>3, <2>1, WritableFacts
  <2>3. UNCHANGED <<cpu, mtype, view, writes, forks, panic>>
    BY DEF Vm_forkStack
  <2>4. /\ r \in ThRecs /\ r.pc = "flush" /\ r.cpu = th[t].cpu /\ r.odec = th[t].odec
        /\ r.new = th[t].new /\ r.child = th[t].child /\ r.failed = th[t].failed
        /\ r.old = th[t].old
    BY <1>1 DEF ThRecs, Places
  <2>5. th' = [th EXCEPT ![t] = r]
    BY <1>5 DEF Go, CoreInv, TypeOK
  <2>6. /\ s \in AsRecs /\ s.alive = vm[h].alive /\ s.mapped = vm[h].mapped
        /\ s.pte = Writable(p.pg) /\ s.lock = vm[h].lock /\ s.ref = vm[h].ref
    BY <1>1, <2>2 DEF AsRecs
  <2>7. /\ n \in AsRecs /\ n.alive = vm[b].alive /\ n.mapped = vm[b].mapped
        /\ n.pte = Writable(g) /\ n.lock = vm[b].lock /\ n.ref = vm[b].ref
    BY <1>2, <2>2 DEF AsRecs
  <2>8. vm' = [vm EXCEPT ![b] = n, ![h] = s]
    BY <1>1, <1>2, <1>5 DEF CoreInv, TypeOK
  <2>9. /\ f \in PgInts
        /\ \A x \in Pages : f[x].ref = pg[x].ref + (IF g = x THEN 1 ELSE 0)
                                                 - (IF p.pg = x THEN 1 ELSE 0)
    <3>1. /\ Refup(pg, g) \in PgInts
          /\ \A x \in Pages : Refup(pg, g)[x].ref = pg[x].ref + (IF g = x THEN 1 ELSE 0)
      BY <2>1, PgIsInts, RefupFacts DEF CoreInv
    <3>2. /\ f \in PgInts
          /\ \A x \in Pages : f[x].ref = Refup(pg, g)[x].ref - (IF p.pg = x THEN 1 ELSE 0)
      BY <1>3, <3>1, RefdownFacts
    <3> HIDE DEF f
    <3>3. \A x \in Pages : pg[x].ref \in Nat
      BY StateTypes DEF CoreInv
    <3> QED BY <3>1, <3>2, <3>3
  <2> HIDE DEF r, s, n, f
  <2>10. /\ pg' \in PgInts
         /\ \A x \in Pages : pg'[x].ref = pg[x].ref + (IF g = x THEN 1 ELSE 0)
                                                    - (IF p.pg = x THEN 1 ELSE 0)
    <3>1. PICK v \in Nat : v = pg[p.pg].val
      BY <1>3, StateTypes DEF CoreInv
    <3>2. pg' = [f EXCEPT ![g].val = v]
      BY <1>5, <3>1 DEF f
    <3>3. pg' \in PgInts /\ \A x \in Pages : pg'[x].ref = f[x].ref
      BY <2>1, <2>9, <3>2 DEF PgInts
    <3> QED BY <2>9, <3>3
  <2>11. /\ vm' \in [Spaces -> AsRecs] /\ vm'[h] = s /\ vm'[b] = n
         /\ \A a \in Spaces \ {h, b} : vm'[a] = vm[a]
    BY <1>1, <1>2, <2>6, <2>7, <2>8 DEF CoreInv, TypeOK
  <2>12. /\ th' \in [Threads -> ThRecs] /\ th'[t] = r
         /\ \A u \in Threads \ {t} : th'[u] = th[u]
    BY <2>4, <2>5 DEF CoreInv, TypeOK
  <2>13. PagesCounted' /\ \A x \in Pages : pg'[x].ref \in Nat
    <3>1. \A a \in Spaces \ {b} : vm'[a].pte.pg = vm[a].pte.pg
      BY <1>1, <2>2, <2>6, <2>11
    <3>2. \A x \in Pages : pg'[x].ref = pg[x].ref - (IF vm[b].pte.pg = x THEN 1 ELSE 0)
                                                  + (IF vm'[b].pte.pg = x THEN 1 ELSE 0)
      <4> SUFFICES ASSUME NEW x \in Pages
                   PROVE  pg'[x].ref = pg[x].ref - (IF vm[b].pte.pg = x THEN 1 ELSE 0)
                                                  + (IF vm'[b].pte.pg = x THEN 1 ELSE 0)
        OBVIOUS
      <4>1. vm'[b].pte.pg = g /\ pg[x].ref \in Nat
        BY <2>2, <2>7, <2>11, StateTypes DEF CoreInv
      <4>2. PICK i \in {0, 1}, j \in {0, 1} : /\ i = (IF g = x THEN 1 ELSE 0)
                                              /\ j = (IF vm[b].pte.pg = x THEN 1 ELSE 0)
        OBVIOUS
      <4>3. pg'[x].ref = pg[x].ref + i - j
        BY <2>10, <4>2
      <4>4. pg'[x].ref = pg[x].ref - j + i
        BY <4>1, <4>3
      <4> QED BY <4>1, <4>2, <4>4
    <3> HIDE DEF b
    <3> QED BY <1>2, <3>1, <3>2, PagesMove
  <2>14. TypeOK'
    BY <2>3, <2>10, <2>11, <2>12, <2>13, PgBack DEF CoreInv, TypeOK
  <2>15. \A a \in Spaces : /\ vm'[a].alive = vm[a].alive /\ vm'[a].mapped = vm[a].mapped
                           /\ vm'[a].lock = vm[a].lock /\ vm'[a].ref = vm[a].ref
    BY <2>6, <2>7, <2>11
  <2> HIDE DEF h, b, p
  <2>16. PmapsCounted'
    <3>1. \A a \in Spaces : {u \in Threads : th'[u].odec.pm = a} = {u \in Threads : th[u].odec.pm = a}
      BY <2>4, <2>12
    <3> QED BY <2>3, <2>15, <3>1 DEF CoreInv, RefsCounted, PmapsCounted
  <2>17. ThreadsInv'
    <3> SUFFICES ASSUME NEW u \in Threads PROVE ThreadOK(u)'
      BY DEF ThreadsInv
    <3>1. ThreadOK(u) /\ Home[u] \in Spaces /\ th[u] \in ThRecs
      BY StateTypes DEF CoreInv, ThreadsInv
    <3>2. CASE u = t
      <4>1. LocalOK(r)
        BY <1>1, <2>4 DEF LocalOK
      <4> QED BY <1>1, <2>4, <2>12, <2>15, <3>1, <3>2, <4>1 DEF ThreadOK, h
    <3>3. CASE u # t
      <4>1. th'[u] = th[u]
        BY <2>12, <3>3
      <4>2. th[u].pc = "insert" => pg'[th[u].new].ref = 0
        <5> SUFFICES ASSUME th[u].pc = "insert" PROVE pg'[th[u].new].ref = 0
          OBVIOUS
        <5>1. th[u].new # None
          BY <3>1 DEF ThreadOK, LocalOK
        <5>2. th[u].new \in Pages /\ pg[th[u].new].ref = 0 /\ p.pg # th[u].new
          BY <1>2, <5>1, NewUnused DEF p
        <5> QED BY <2>1, <2>10, <5>2
      <4>3. th[u].pc = "stack" => /\ vm'[th[u].child] = vm[th[u].child]
                                  /\ vm'[Home[u]] = vm[Home[u]]
        <5> SUFFICES ASSUME th[u].pc = "stack"
                     PROVE  vm'[th[u].child] = vm[th[u].child] /\ vm'[Home[u]] = vm[Home[u]]
          OBVIOUS
        <5>1. th[u].child \in Spaces
          BY <3>1, ThType DEF ThreadOK, LocalOK
        <5>2. th[u].child # h /\ th[u].child # b
          BY <1>1, <1>2, <3>3, <5>1 DEF CoreInv, ChildrenInv, ChildOK, h
        <5>3. Home[u] # h
          BY <1>1, <3>1, <3>3 DEF ThreadOK, Busy
        <5>4. Home[u] # b
          BY <1>2 DEF ChildOK
        <5> QED BY <2>11, <3>1, <5>1, <5>2, <5>3, <5>4
      <4> QED BY <2>3, <2>15, <3>1, <4>1, <4>2, <4>3 DEF ThreadOK
    <3> QED BY <3>2, <3>3
  <2>18. SpacesInv'
    <3> SUFFICES ASSUME NEW a \in Spaces PROVE SpaceOK(a)'
      BY DEF SpacesInv
    <3>1. SpaceOK(a) /\ vm[a].lock \in Threads \cup {None}
      BY StateTypes, AsType DEF CoreInv, SpacesInv
    <3>2. \A u \in Threads : th[u].pc \in Busy => th'[u].pc \in Busy
      BY <2>4, <2>12 DEF Busy
    <3>3. vm[h].mapped /\ vm[b].mapped
      BY <1>1, <1>2, NoPteFacts DEF CoreInv, SpacesInv, SpaceOK, p
    <3>4. a \in {h, b} => vm'[a].mapped
      BY <1>1, <1>2, <2>15, <3>3
    <3>5. a \notin {h, b} => vm'[a].pte = vm[a].pte
      BY <2>11
    <3> QED BY <2>15, <3>1, <3>2, <3>4, <3>5 DEF SpaceOK
  <2>19. ChildrenInv'
    <3> SUFFICES ASSUME NEW u \in Threads, NEW a \in Spaces, th'[u].child = a
                 PROVE  ChildOK(u, a)'
      BY DEF ChildrenInv
    <3>1. \A v \in Threads : /\ th'[v].child = th[v].child
                             /\ th'[v].pc = "none" <=> th[v].pc = "none"
      BY <1>1, <2>4, <2>12
    <3>2. ChildOK(u, a)
      BY <3>1 DEF CoreInv, ChildrenInv
    <3> QED BY <2>3, <2>15, <3>1, <3>2 DEF ChildOK
  <2>20. ApartInv'
    <3>1. \A u \in Threads : th'[u].cpu = th[u].cpu /\ th'[u].new = th[u].new
      BY <2>4, <2>12
    <3> QED BY <3>1 DEF CoreInv, ApartInv, Apart
  <2> QED BY <2>13, <2>14, <2>16, <2>17, <2>18, <2>19, <2>20 DEF CoreInv, RefsCounted
<1> QED BY <1>4, <1>5 DEF Vm_forkStack

\* The end of a call that had the lock: the child that it made starts, or goes
\* again if its stack could not be copied.
LEMMA DoneCore ==
    ASSUME CoreInv, NEW t \in Threads, th[t].pc \in {"flush", "shoot"}, Done(t, vm),
           SameCr3, cpu' \in [CPUs -> CpuRecs],
           UNCHANGED <<mtype, view, writes, forks, panic>>
    PROVE  CoreInv'
<1> DEFINE h == Home[t]
           b == th[t].child
           r == Back(th[t])
<1>1. /\ h \in Spaces /\ vm[h] \in AsRecs /\ th[t] \in ThRecs /\ LocalOK(th[t])
      /\ vm[h].alive /\ vm[h].lock = t
  BY StateTypes DEF CoreInv, ThreadsInv, ThreadOK, Busy
<1>2. /\ r \in ThRecs /\ r.pc \in {"run", "clear"} /\ LocalOK(r)
      /\ r.cpu = None /\ r.odec = th[t].odec /\ r.new = None /\ r.child = None
  <2>1. LocalOK(r)
    BY <1>1, ThType DEF LocalOK
  <2> QED BY <1>1, <2>1, ThType
<1>3. b # None => b \in Spaces /\ b # h /\ vm[b] \in AsRecs /\ ChildOK(t, b)
  BY <1>1, ThType, StateTypes DEF CoreInv, ChildrenInv, ChildOK
<1> DEFINE s == [vm[h] EXCEPT !.lock = None]
<1>4. /\ s \in AsRecs /\ s.alive = vm[h].alive /\ s.mapped = vm[h].mapped
      /\ s.pte = vm[h].pte /\ s.lock = None /\ s.ref = vm[h].ref
  BY <1>1 DEF AsRecs
<1>5. [vm EXCEPT ![h].lock = None] = [vm EXCEPT ![h] = s]
  BY DEF CoreInv, TypeOK
<1>6. CASE ~th[t].failed
  <2>1. /\ vm' = [vm EXCEPT ![h] = s] /\ pg' = pg
        /\ th' = [u \in Threads |-> IF u = t THEN r
                                    ELSE IF b # None /\ Home[u] = b THEN Thread("run") ELSE th[u]]
    BY <1>5, <1>6 DEF Done
  <2>2. /\ Thread("run") \in ThRecs /\ Thread("run").pc = "run" /\ Thread("run").cpu = None
        /\ Thread("run").new = None /\ Thread("run").child = None
        /\ Thread("run").odec = NoDec /\ LocalOK(Thread("run"))
    <3>1. "run" \in Places
      BY DEF Places
    <3> QED BY <3>1, FreshThread DEF LocalOK
  <2> HIDE DEF r, s
  <2>3. /\ vm' \in [Spaces -> AsRecs] /\ vm'[h] = s
        /\ \A a \in Spaces \ {h} : vm'[a] = vm[a]
    BY <1>1, <1>4, <2>1 DEF CoreInv, TypeOK
  <2>4. \A u \in Threads : u # t /\ b # None /\ Home[u] = b =>
            th'[u] = Thread("run") /\ th[u].pc = "none"
    BY <1>3, <2>1 DEF ChildOK
  <2>5. /\ th'[t] = r
        /\ \A u \in Threads : u # t /\ ~(b # None /\ Home[u] = b) => th'[u] = th[u]
    BY <2>1
  <2>6. th' \in [Threads -> ThRecs]
    <3>1. \A u \in Threads : th[u] \in ThRecs
      BY StateTypes DEF CoreInv
    <3> QED BY <1>2, <2>1, <2>2, <3>1
  <2>7. TypeOK'
    BY <2>1, <2>3, <2>6 DEF CoreInv, TypeOK
  <2>8. \A a \in Spaces : /\ vm'[a].alive = vm[a].alive /\ vm'[a].mapped = vm[a].mapped
                          /\ vm'[a].pte = vm[a].pte /\ vm'[a].ref = vm[a].ref
    BY <1>4, <2>3
  <2>9. \A u \in Threads : th'[u].odec = th[u].odec
    <3> SUFFICES ASSUME NEW u \in Threads PROVE th'[u].odec = th[u].odec
      OBVIOUS
    <3>1. LocalOK(th[u])
      BY DEF CoreInv, ThreadsInv, ThreadOK
    <3>2. CASE u # t /\ b # None /\ Home[u] = b
      BY <2>2, <2>4, <3>1, <3>2 DEF LocalOK
    <3>3. CASE ~(u # t /\ b # None /\ Home[u] = b)
      BY <1>2, <2>5, <3>3
    <3> QED BY <3>2, <3>3
  <2> HIDE DEF h, b
  <2>10. RefsCounted'
    <3>1. \A a \in Spaces : {u \in Threads : th'[u].odec.pm = a} = {u \in Threads : th[u].odec.pm = a}
      BY <2>9
    <3>2. \A a \in Spaces : {c \in CPUs : cpu'[c].cr3 = a} = {c \in CPUs : cpu[c].cr3 = a}
      BY DEF SameCr3
    <3>3. \A g \in Pages : {a \in Spaces : vm'[a].pte.pg = g} = {a \in Spaces : vm[a].pte.pg = g}
      BY <2>8
    <3>4. PagesCounted'
      BY <2>1, <3>3 DEF CoreInv, RefsCounted, PagesCounted
    <3>5. PmapsCounted'
      BY <2>8, <3>1, <3>2 DEF CoreInv, RefsCounted, PmapsCounted
    <3> QED BY <3>4, <3>5 DEF RefsCounted
  <2>11. ThreadsInv'
    <3> SUFFICES ASSUME NEW u \in Threads PROVE ThreadOK(u)'
      BY DEF ThreadsInv
    <3>1. ThreadOK(u) /\ Home[u] \in Spaces /\ th[u] \in ThRecs
      BY StateTypes DEF CoreInv, ThreadsInv
    <3>2. CASE u = t
      <4>1. th'[u] = r /\ vm'[Home[u]].alive
        BY <1>1, <2>5, <2>8, <3>2 DEF h
      <4> QED BY <1>2, <4>1 DEF ThreadOK, Busy
    <3>3. CASE u # t /\ b # None /\ Home[u] = b
      <4>1. th'[u] = Thread("run") /\ vm'[Home[u]].alive
        BY <1>3, <2>4, <2>8, <3>3 DEF ChildOK
      <4> QED BY <2>2, <4>1 DEF ThreadOK, Busy
    <3>4. CASE u # t /\ ~(b # None /\ Home[u] = b)
      <4>1. th'[u] = th[u] /\ pg' = pg
        BY <2>1, <2>5, <3>4
      <4>2. th[u].pc \in Busy => vm'[Home[u]].lock = u
        BY <1>1, <2>3, <3>1, <3>4 DEF ThreadOK
      <4>3. th[u].pc \in {"mask", "user"} => cpu'[th[u].cpu].cr3 = Home[u]
        BY <3>1, UserCpu DEF ThreadOK, SameCr3
      <4>4. th[u].pc = "stack" => th[u].child \in Spaces
        BY <3>1, ThType DEF ThreadOK, LocalOK
      <4> QED BY <2>8, <3>1, <4>1, <4>2, <4>3, <4>4 DEF ThreadOK
    <3> QED BY <3>2, <3>3, <3>4
  <2>12. SpacesInv'
    <3> SUFFICES ASSUME NEW a \in Spaces PROVE SpaceOK(a)'
      BY DEF SpacesInv
    <3>1. SpaceOK(a) /\ vm[a].lock \in Threads \cup {None}
      BY StateTypes, AsType DEF CoreInv, SpacesInv
    <3>2. CASE a = h
      BY <1>4, <2>3, <2>8, <3>1, <3>2 DEF SpaceOK
    <3>3. CASE a # h
      <4>1. vm[a].lock # t
        BY <3>1, <3>3, NoneApart DEF SpaceOK, h
      <4>2. vm[a].lock # None => th'[vm[a].lock] = th[vm[a].lock]
        BY <2>4, <2>5, <3>1, <4>1 DEF SpaceOK, Busy
      <4> QED BY <2>3, <3>1, <3>3, <4>2 DEF SpaceOK
    <3> QED BY <3>2, <3>3
  <2>13. ChildrenInv'
    <3> SUFFICES ASSUME NEW u \in Threads, NEW a \in Spaces, th'[u].child = a
                 PROVE  ChildOK(u, a)'
      BY DEF ChildrenInv
    <3>1. u # t /\ th'[u] = th[u]
      BY <1>2, <2>2, <2>4, <2>5, NoneApart
    <3>2. ChildOK(u, a)
      BY <3>1 DEF CoreInv, ChildrenInv
    <3>3. a # h /\ a # b
      BY <1>1, <1>3, <3>1, <3>2, NoneApart DEF ChildOK, h, b
    <3>4. \A v \in Threads : Home[v] = a => th'[v].pc = "none"
      BY <2>5, <3>2, <3>3 DEF ChildOK, h
    <3>5. \A v \in Threads : th'[v].child = a => v = u
      BY <1>2, <2>2, <2>4, <2>5, <3>2, NoneApart DEF ChildOK
    <3>6. \A c \in CPUs : cpu'[c].cr3 # a
      BY <3>2 DEF ChildOK, SameCr3
    <3> QED BY <2>3, <3>2, <3>3, <3>4, <3>5, <3>6 DEF ChildOK
  <2>14. ApartInv'
    <3>1. \A u \in Threads : /\ th'[u].cpu \in {None, th[u].cpu}
                             /\ th'[u].new \in {None, th[u].new}
      BY <1>2, <2>2, <2>4, <2>5
    <3> QED BY <3>1 DEF CoreInv, ApartInv, Apart
  <2> QED BY <2>7, <2>10, <2>11, <2>12, <2>13, <2>14 DEF CoreInv
<1>7. CASE th[t].failed
  <2> DEFINE m == vm[b].ref - 1
             n == [NoSpace EXCEPT !.ref = m, !.mask = vm[b].mask]
  <2>1. b \in Spaces /\ b # h /\ vm[b] \in AsRecs /\ ChildOK(t, b) /\ vm[b].alive
    BY <1>1, <1>3, <1>7 DEF LocalOK, ChildOK
  <2>2. /\ vm' = [vm EXCEPT ![h] = s, ![b] = n] /\ pg' = Unmap(pg, vm[b].pte)
        /\ th' = [u \in Threads |-> IF u = t THEN r ELSE th[u]]
    <3>1. /\ vm' = Terminate([vm EXCEPT ![h] = s], b) /\ pg' = Unmap(pg, vm[b].pte)
          /\ th' = [u \in Threads |-> IF u = t THEN r ELSE th[u]]
      BY <1>5, <1>7 DEF Done
    <3>2. [vm EXCEPT ![h] = s][b] = vm[b]
      BY <2>1 DEF CoreInv, TypeOK
    <3> HIDE DEF s
    <3> QED BY <3>1, <3>2 DEF Terminate
  <2>3. m \in Nat /\ vm[b].mask \in SUBSET CPUs
    BY <2>1, AliveCounted, AsType
  <2>4. /\ n \in AsRecs /\ ~n.alive /\ ~n.mapped /\ n.pte = NoPte /\ n.lock = None
        /\ n.ref = vm[b].ref - 1
    <3> HIDE DEF m
    <3>1. /\ n \in AsRecs /\ ~n.alive /\ ~n.mapped /\ n.pte = NoPte /\ n.lock = None
          /\ n.ref = m
      BY <2>3, GoneFacts
    <3> QED BY <3>1 DEF m
  <2> HIDE DEF r, s, n, m
  <2>5. /\ vm' \in [Spaces -> AsRecs] /\ vm'[h] = s /\ vm'[b] = n
        /\ \A a \in Spaces \ {h, b} : vm'[a] = vm[a]
    BY <1>1, <1>4, <2>1, <2>2, <2>4 DEF CoreInv, TypeOK
  <2>6. /\ th' \in [Threads -> ThRecs] /\ th'[t] = r
        /\ \A u \in Threads \ {t} : th'[u] = th[u]
    BY <1>2, <2>2 DEF CoreInv, TypeOK
  <2>7. /\ pg' \in PgInts
        /\ \A x \in Pages : pg'[x].ref = pg[x].ref - (IF vm[b].pte.pg = x THEN 1 ELSE 0)
    BY <2>1, <2>2, PgIsInts, UnmapFacts, AsType DEF CoreInv
  <2>8. PagesCounted' /\ \A g \in Pages : pg'[g].ref \in Nat
    <3>1. \A x \in Pages : pg'[x].ref = pg[x].ref - (IF vm[b].pte.pg = x THEN 1 ELSE 0)
                                                  + (IF vm'[b].pte.pg = x THEN 1 ELSE 0)
      <4> SUFFICES ASSUME NEW x \in Pages
                   PROVE  pg'[x].ref = pg[x].ref - (IF vm[b].pte.pg = x THEN 1 ELSE 0)
                                                  + (IF vm'[b].pte.pg = x THEN 1 ELSE 0)
        OBVIOUS
      <4>1. vm'[b].pte.pg # x /\ pg[x].ref \in Nat
        BY <2>4, <2>5, NoPteFacts, NoneApart, StateTypes DEF CoreInv
      <4> QED BY <2>7, <4>1
    <3>2. \A a \in Spaces \ {b} : vm'[a].pte.pg = vm[a].pte.pg
      BY <1>4, <2>5
    <3> HIDE DEF b
    <3> QED BY <2>1, <3>1, <3>2, PagesMove
  <2> HIDE DEF b, h
  <2>9. PmapsCounted'
    <3>1. \A a \in Spaces : vm'[a].ref = vm[a].ref
                - (IF vm[a].alive THEN 1 ELSE 0) + (IF vm'[a].alive THEN 1 ELSE 0)
      <4> SUFFICES ASSUME NEW a \in Spaces
                   PROVE  vm'[a].ref = vm[a].ref
                - (IF vm[a].alive THEN 1 ELSE 0) + (IF vm'[a].alive THEN 1 ELSE 0)
        OBVIOUS
      <4>1. vm[a].ref \in Nat
        BY StateTypes, AsType DEF CoreInv
      <4>2. CASE a = b
        BY <2>1, <2>4, <2>5, <4>1, <4>2
      <4>3. CASE a # b
        <5>1. vm'[a].ref = vm[a].ref /\ vm'[a].alive = vm[a].alive
          BY <1>4, <2>5, <4>3
        <5> QED BY <4>1, <5>1
      <4> QED BY <4>2, <4>3
    <3>2. \A u \in Threads : th'[u].odec.pm = th[u].odec.pm
      BY <1>2, <2>6
    <3> QED BY <3>1, <3>2, PmapsAlive DEF SameCr3
  <2>10. TypeOK'
    BY <2>5, <2>6, <2>7, <2>8, PgBack DEF CoreInv, TypeOK
  <2>11. ThreadsInv'
    <3> SUFFICES ASSUME NEW u \in Threads PROVE ThreadOK(u)'
      BY DEF ThreadsInv
    <3>1. ThreadOK(u) /\ Home[u] \in Spaces /\ th[u] \in ThRecs
      BY StateTypes DEF CoreInv, ThreadsInv
    <3>2. CASE u = t
      <4>1. th'[u] = r /\ vm'[Home[u]].alive
        BY <1>1, <1>4, <2>5, <2>6, <3>2 DEF h
      <4> QED BY <1>2, <4>1 DEF ThreadOK, Busy
    <3>3. CASE u # t /\ th[u].pc = "none"
      <4>1. th'[u] = th[u]
        BY <2>6, <3>3
      <4> QED BY <3>1, <3>3, <4>1 DEF ThreadOK, Busy
    <3>4. CASE u # t /\ th[u].pc # "none"
      <4>1. th'[u] = th[u] /\ Home[u] # b
        BY <2>1, <2>6, <3>4 DEF ChildOK
      <4>2. th[u].pc \in Busy => Home[u] # h
        BY <1>1, <3>1, <3>4 DEF ThreadOK
      <4>3. vm'[Home[u]].alive
        BY <1>1, <1>4, <2>5, <3>1, <3>4, <4>1 DEF ThreadOK
      <4>4. th[u].pc \in Busy => vm'[Home[u]] = vm[Home[u]]
        BY <2>5, <3>1, <4>1, <4>2
      <4>5. th[u].pc = "insert" => pg'[th[u].new].ref = 0
        <5> SUFFICES ASSUME th[u].pc = "insert" PROVE pg'[th[u].new].ref = 0
          OBVIOUS
        <5>1. th[u].new # None
          BY <3>1 DEF ThreadOK, LocalOK
        <5>2. th[u].new \in Pages /\ pg[th[u].new].ref = 0 /\ vm[b].pte.pg # th[u].new
          BY <2>1, <5>1, NewUnused
        <5> QED BY <2>7, <5>2
      <4>6. th[u].pc = "stack" => vm'[th[u].child] = vm[th[u].child]
        <5> SUFFICES ASSUME th[u].pc = "stack" PROVE vm'[th[u].child] = vm[th[u].child]
          OBVIOUS
        <5>1. th[u].child \in Spaces
          BY <3>1, ThType DEF ThreadOK, LocalOK
        <5>2. ChildOK(u, th[u].child)
          BY <5>1 DEF CoreInv, ChildrenInv
        <5>3. th[u].child # h
          BY <1>1, <5>2 DEF ChildOK, h, LocalOK
        <5>4. th[u].child # b
          BY <2>1, <3>4 DEF ChildOK
        <5> QED BY <2>5, <5>1, <5>3, <5>4
      <4>7. th[u].pc \in {"mask", "user"} => cpu'[th[u].cpu].cr3 = Home[u]
        BY <3>1, UserCpu DEF ThreadOK, SameCr3
      <4> QED BY <3>1, <4>1, <4>3, <4>4, <4>5, <4>6, <4>7 DEF ThreadOK, Busy
    <3> QED BY <3>2, <3>3, <3>4
  <2>12. SpacesInv'
    <3> SUFFICES ASSUME NEW a \in Spaces PROVE SpaceOK(a)'
      BY DEF SpacesInv
    <3>1. SpaceOK(a) /\ vm[a].lock \in Threads \cup {None}
      BY StateTypes, AsType DEF CoreInv, SpacesInv
    <3>2. CASE a = h
      BY <1>4, <2>5, <3>1, <3>2 DEF SpaceOK
    <3>3. CASE a = b
      BY <2>4, <2>5, <3>3 DEF SpaceOK
    <3>4. CASE a \notin {h, b}
      <4>1. vm[a].lock # t
        BY <3>1, <3>4, NoneApart DEF SpaceOK, h
      <4> QED BY <2>5, <2>6, <3>1, <3>4, <4>1 DEF SpaceOK
    <3> QED BY <3>2, <3>3, <3>4
  <2>13. ChildrenInv'
    <3> SUFFICES ASSUME NEW u \in Threads, NEW a \in Spaces, th'[u].child = a
                 PROVE  ChildOK(u, a)'
      BY DEF ChildrenInv
    <3>1. u # t /\ th'[u] = th[u]
      BY <1>2, <2>6, NoneApart
    <3>2. ChildOK(u, a)
      BY <3>1 DEF CoreInv, ChildrenInv
    <3>3. a # h /\ a # b
      BY <1>1, <2>1, <3>1, <3>2 DEF ChildOK, h, b
    <3>4. \A v \in Threads : Home[v] = a => th'[v].pc = "none"
      BY <2>6, <3>2, <3>3 DEF ChildOK, h
    <3>5. \A v \in Threads : th'[v].child = a => v = u
      BY <1>2, <2>6, <3>2, NoneApart DEF ChildOK
    <3>6. \A c \in CPUs : cpu'[c].cr3 # a
      BY <3>2 DEF ChildOK, SameCr3
    <3> QED BY <2>5, <3>2, <3>3, <3>4, <3>5, <3>6 DEF ChildOK
  <2>14. ApartInv'
    <3>1. \A u \in Threads : /\ th'[u].cpu \in {None, th[u].cpu}
                             /\ th'[u].new \in {None, th[u].new}
      BY <1>2, <2>6
    <3> QED BY <3>1 DEF CoreInv, ApartInv, Apart
  <2> QED BY <2>8, <2>9, <2>10, <2>11, <2>12, <2>13, <2>14 DEF CoreInv, RefsCounted
<1> QED BY <1>6, <1>7

\* The fast path of a shootdown keeps the core invariant.
LEMMA CondflushCore ==
    ASSUME CoreInv, NEW t \in Threads, NEW c \in CPUs, Condflush(t, c)
    PROVE  CoreInv'
<1>1. SameCr3 /\ cpu' \in [CPUs -> CpuRecs]
  BY FlushSame DEF Condflush
<1> QED BY <1>1, DoneCore DEF Condflush, At

\* The end of a shootdown keeps the core invariant.
LEMMA ShootDoneCore ==
    ASSUME CoreInv, NEW t \in Threads, ShootDone(t)
    PROVE  CoreInv'
<1>1. SameCr3 /\ cpu' \in [CPUs -> CpuRecs]
  BY NothingElse DEF ShootDone
<1> QED BY <1>1, DoneCore DEF ShootDone, At

\* The start: the first address space, with its page or without.
LEMMA InitCore == Init => CoreInv
<1> SUFFICES ASSUME Init PROVE CoreInv
  OBVIOUS
<1>1. PICK k \in Starts : /\ mtype = k[1]
                          /\ th = [t \in Threads |-> Thread(IF t \in k[2] THEN "run" ELSE "none")]
  BY DEF Init
<1>2. PICK g \in Frames, eager \in BOOLEAN :
         /\ pg = [p \in Pages |->
                    [ref |-> IF p \in {Zero, File} \/ (p = g /\ eager) THEN 1 ELSE 0, val |-> 0]]
         /\ vm = [a \in Spaces |->
                    IF a # First THEN NoSpace
                    ELSE [NoSpace EXCEPT !.alive = TRUE, !.mapped = TRUE, !.ref = 1,
                            !.pte = IF eager THEN Pte(g, {"W"}) ELSE NoPte]]
  BY DEF Init
<1>3. /\ cpu = [c \in CPUs |-> [cr3 |-> None, tlb |-> NoEntry]]
      /\ view = [a \in Spaces |-> 0] /\ writes = 0 /\ forks = 0 /\ panic = FALSE
  BY DEF Init
<1>4. k[1] \in Kinds /\ k[2] \in SUBSET {t \in Threads : Home[t] = First} /\ First \in Spaces
  BY VmAssumption
<1>5. /\ \A t \in Threads : th[t] = Thread(IF t \in k[2] THEN "run" ELSE "none")
      /\ \A t \in Threads : /\ th[t] \in ThRecs /\ LocalOK(th[t]) /\ th[t].pc \in {"none", "run"}
                            /\ th[t].pc = "run" => Home[t] = First
                            /\ th[t].cpu = None /\ th[t].new = None /\ th[t].child = None
                            /\ th[t].odec = NoDec
  <2>1. \A t \in Threads : th[t] = Thread(IF t \in k[2] THEN "run" ELSE "none")
    BY <1>1
  <2>2. \A q \in {"none", "run"} : Thread(q) \in ThRecs /\ Thread(q).pc = q /\ LocalOK(Thread(q))
            /\ Thread(q).cpu = None /\ Thread(q).new = None /\ Thread(q).child = None
            /\ Thread(q).odec = NoDec
    BY FreshThread DEF LocalOK, Places
  <2> QED BY <1>4, <2>1, <2>2
<1> DEFINE p == IF eager THEN Pte(g, {"W"}) ELSE NoPte
           s == [NoSpace EXCEPT !.alive = TRUE, !.mapped = TRUE, !.ref = 1, !.pte = p]
<1>6. p \in Ptes /\ p.pg = (IF eager THEN g ELSE None)
  BY MakePte, NoPteFacts, NoneApart DEF Flags
<1> HIDE DEF p
<1>7. /\ s \in AsRecs /\ s.alive /\ s.mapped /\ s.pte = p /\ s.lock = None /\ s.ref = 1
      /\ NoSpace \in AsRecs /\ ~NoSpace.alive /\ ~NoSpace.mapped /\ NoSpace.pte = NoPte
      /\ NoSpace.lock = None /\ NoSpace.ref = 0
  BY <1>6, NoPteFacts DEF AsRecs, NoSpace
<1>8. vm = [a \in Spaces |-> IF a # First THEN NoSpace ELSE s]
  BY <1>2 DEF p
<1> HIDE DEF s
<1>9. vm[First] = s /\ \A a \in Spaces \ {First} : vm[a] = NoSpace
  BY <1>4, <1>8
<1>10. TypeOK
  <2>1. pg \in [Pages -> PgRecs]
    BY <1>2 DEF PgRecs
  <2>2. vm \in [Spaces -> AsRecs]
    BY <1>7, <1>8
  <2>3. cpu \in [CPUs -> CpuRecs]
    BY <1>3 DEF CpuRecs, Entries
  <2>4. th \in [Threads -> ThRecs]
    BY <1>1, <1>5
  <2> QED BY <1>1, <1>3, <1>4, <2>1, <2>2, <2>3, <2>4 DEF TypeOK
<1>11. ThreadsInv
  BY <1>5, <1>7, <1>9 DEF ThreadsInv, ThreadOK, Busy
<1>12. SpacesInv
  BY <1>7, <1>9 DEF SpacesInv, SpaceOK
<1>13. ChildrenInv /\ ApartInv
  BY <1>5, NoneApart DEF ChildrenInv, ApartInv, Apart
<1>14. PagesCounted
  <2> SUFFICES ASSUME NEW x \in Pages
               PROVE  pg[x].ref = Cardinality({a \in Spaces : vm[a].pte.pg = x})
                                    + (IF x \in {Zero, File} THEN 1 ELSE 0)
    BY DEF PagesCounted
  <2> DEFINE H == {a \in Spaces : vm[a].pte.pg = x}
  <2> SUFFICES pg[x].ref = Cardinality(H) + (IF x \in {Zero, File} THEN 1 ELSE 0)
    OBVIOUS
  <2>1. \A a \in Spaces : vm[a].pte.pg = x <=> a = First /\ eager /\ x = g
    BY <1>6, <1>7, <1>9, NoPteFacts, NoneApart
  <2>2. pg[x].ref = IF x \in {Zero, File} \/ (x = g /\ eager) THEN 1 ELSE 0
    BY <1>2
  <2>3. CASE x = g /\ eager
    <3>1. H = {First}
      BY <1>4, <2>1, <2>3
    <3>2. Cardinality({First}) = 1
      BY FS_Singleton
    <3>3. x \notin {Zero, File}
      BY <2>3, NoneApart
    <3> HIDE DEF H
    <3> QED BY <2>2, <2>3, <3>1, <3>2, <3>3
  <2>4. CASE ~(x = g /\ eager)
    <3>1. H = {}
      BY <2>1, <2>4
    <3>2. Cardinality({}) = 0
      BY FS_EmptySet
    <3> HIDE DEF H
    <3> QED BY <2>2, <2>4, <3>1, <3>2
  <2> QED BY <2>3, <2>4
<1>15. PmapsCounted
  <2> SUFFICES ASSUME NEW a \in Spaces
               PROVE  vm[a].ref = Cardinality({c \in CPUs : cpu[c].cr3 = a})
                                   + Cardinality({t \in Threads : th[t].odec.pm = a})
                                   + (IF vm[a].alive THEN 1 ELSE 0)
    BY DEF PmapsCounted
  <2> DEFINE L == {c \in CPUs : cpu[c].cr3 = a}
             D == {t \in Threads : th[t].odec.pm = a}
  <2> SUFFICES vm[a].ref = Cardinality(L) + Cardinality(D) + (IF vm[a].alive THEN 1 ELSE 0)
    OBVIOUS
  <2>1. L = {}
    BY <1>3, NoneApart
  <2>2. D = {}
    BY <1>5, NoneApart DEF NoDec
  <2>3. Cardinality({}) = 0
    BY FS_EmptySet
  <2> HIDE DEF L, D
  <2>4. CASE a = First
    BY <1>7, <1>9, <2>1, <2>2, <2>3, <2>4
  <2>5. CASE a # First
    BY <1>7, <1>9, <2>1, <2>2, <2>3, <2>5
  <2> QED BY <2>4, <2>5
<1> QED BY <1>10, <1>11, <1>12, <1>13, <1>14, <1>15 DEF CoreInv, RefsCounted

\* Every step keeps it.
LEMMA NextCore == CoreInv /\ [Next]_vars => CoreInv'
<1> SUFFICES ASSUME CoreInv, [Next]_vars PROVE CoreInv'
  OBVIOUS
<1>1. CASE UNCHANGED vars
  BY <1>1 DEF vars, CoreInv, TypeOK, ThreadsInv, ThreadOK, SpacesInv, SpaceOK, ChildrenInv,
              ChildOK, ApartInv, Apart, RefsCounted, PagesCounted, PmapsCounted
<1>2. CASE Next
  BY <1>2, UserrunSameCore, UserrunLoadCore, CondflushCore, ShootdownCore, UserrunMaskCore,
     RunClearCore, RunDecCore, RunDieCore, StayCore, ReturnCore, PgfaultFillCore,
     PgfaultClaimCore, PgfaultCopyCore, Page_insertCore, MunmapCore, Vm_forkStackCore,
     ShootDoneCore, UserFaultCore, PteforkCore, TlbInterruptCore
     DEF Next
<1> QED BY <1>1, <1>2

\* The type invariant, and all the counting: every page is counted once per entry
\* that leads to it and every page map once per user (Refup, Refdown, Dec_pmap).
THEOREM VmCounted == Spec => [](TypeOK /\ RefsCounted)
<1>1. Init => CoreInv
  BY InitCore
<1>2. CoreInv /\ [Next]_vars => CoreInv'
  BY NextCore
<1>3. CoreInv => TypeOK /\ RefsCounted
  BY DEF CoreInv
<1> QED BY <1>1, <1>2, <1>3, PTL DEF Spec

-------------------------------------------------------------------------------
(***************************************************************************)
(* Masks and TLBs.                                                         *)
(***************************************************************************)
\* The steps of a thread that do not end a call with the lock.
Step(t) ==
    \/ \E c \in CPUs : UserrunSame(t, c) \/ UserrunLoad(t, c) \/ tlb_shootdown(t, c)
    \/ UserrunMask(t) \/ RunClear(t) \/ RunDec(t) \/ RunDie(t)
    \/ UserFill(t) \/ UserWrite(t) \/ UserTimer(t) \/ Sys_exit(t)
    \/ PgfaultKill(t) \/ PgfaultSame(t) \/ PgfaultPanic(t) \/ PgfaultShared(t)
    \/ PgfaultRead(t) \/ PgfaultClaim(t) \/ PgfaultCopy(t) \/ PgfaultNoMem(t)
    \/ Page_insert(t) \/ Munmap(t) \/ Vm_forkStack(t)
    \/ \E w \in BOOLEAN : UserFault(t, w)
    \/ \E b \in Spaces, stack \in BOOLEAN : Ptefork(t, b, stack)

\* Such a step leaves the other threads alone.
LEMMA OthersSame ==
    ASSUME CoreInv, NEW t \in Threads, Step(t)
    PROVE  \A u \in Threads \ {t} : th'[u] = th[u]
<1>1. th \in [Threads -> ThRecs]
  BY DEF CoreInv, TypeOK
<1>2. CASE \E c \in CPUs : UserrunSame(t, c) \/ UserrunLoad(t, c) \/ tlb_shootdown(t, c)
  BY <1>1, <1>2 DEF UserrunSame, UserrunLoad, tlb_shootdown
<1>3. CASE UserrunMask(t) \/ RunClear(t) \/ RunDec(t) \/ RunDie(t)
  BY <1>1, <1>3 DEF UserrunMask, RunClear, RunDec, RunDie, Go
<1>4. CASE UserFill(t) \/ UserWrite(t) \/ UserTimer(t) \/ Sys_exit(t)
  BY <1>1, <1>4 DEF UserFill, UserWrite, UserTimer, Sys_exit, Return
<1>5. CASE PgfaultKill(t) \/ PgfaultSame(t) \/ PgfaultPanic(t) \/ PgfaultShared(t)
  BY <1>1, <1>5 DEF PgfaultKill, PgfaultSame, PgfaultPanic, PgfaultShared, Return
<1>6. CASE PgfaultRead(t) \/ PgfaultClaim(t) \/ PgfaultNoMem(t)
  BY <1>1, <1>6 DEF PgfaultRead, PgfaultClaim, PgfaultNoMem, Return, Go
<1>7. CASE PgfaultCopy(t)
  BY <1>1, <1>7 DEF PgfaultCopy
<1>8. CASE Page_insert(t) \/ Munmap(t)
  BY <1>1, <1>8 DEF Page_insert, Munmap, Return
<1>9. CASE Vm_forkStack(t)
  BY <1>1, <1>9 DEF Vm_forkStack, Go
<1>10. CASE \E w \in BOOLEAN : UserFault(t, w)
  BY <1>1, <1>10 DEF UserFault, Leave
<1>11. CASE \E b \in Spaces, stack \in BOOLEAN : Ptefork(t, b, stack)
  BY <1>1, <1>11 DEF Ptefork
<1> QED BY <1>2, <1>3, <1>4, <1>5, <1>6, <1>7, <1>8, <1>9, <1>10, <1>11 DEF Step

\* Where the thread goes, and what it has to take back.
LEMMA StepThread ==
    ASSUME CoreInv, NEW t \in Threads, Step(t),
           \A c \in CPUs : ~UserrunLoad(t, c)
    PROVE  /\ th'[t].odec \in {th[t].odec, NoDec}
           /\ th'[t].pc # "mask"
           /\ th[t].pc = "mask" => UserrunMask(t)
<1>1. th \in [Threads -> ThRecs] /\ th[t] \in ThRecs
  BY DEF CoreInv, TypeOK
<1>2. CASE \E c \in CPUs : UserrunSame(t, c) \/ tlb_shootdown(t, c)
  BY <1>1, <1>2 DEF UserrunSame, tlb_shootdown, ThRecs, At
<1>3. CASE UserrunMask(t) \/ RunClear(t) \/ RunDec(t)
  BY <1>1, <1>3 DEF UserrunMask, RunClear, RunDec, Go, ThRecs, At
<1>4. CASE RunDie(t)
  <2>1. "none" \in Places
    BY DEF Places
  <2>2. th'[t] = Thread("none") /\ th[t].pc = "run"
    BY <1>1, <1>4 DEF RunDie, At
  <2> QED BY <2>1, <2>2, FreshThread
<1>5. CASE UserFill(t) \/ UserWrite(t) \/ PgfaultPanic(t)
  BY <1>1, <1>5 DEF UserFill, UserWrite, PgfaultPanic, User, Fault, At
<1>6. CASE Return(t) /\ th[t].pc \in {"user", "trap"}
  <2>1. th'[t] = Back(th[t])
    BY <1>1, <1>6 DEF Return
  <2> QED BY <1>1, <1>6, <2>1, ThType
<1>7. CASE \/ UserTimer(t) \/ Sys_exit(t) \/ PgfaultKill(t) \/ PgfaultSame(t)
           \/ PgfaultShared(t) \/ PgfaultRead(t) \/ PgfaultNoMem(t)
  BY <1>6, <1>7 DEF UserTimer, Sys_exit, PgfaultKill, PgfaultSame, PgfaultShared,
                    PgfaultRead, PgfaultNoMem, User, Private, Fault, At
<1>8. CASE PgfaultClaim(t) \/ PgfaultCopy(t)
  BY <1>1, <1>8 DEF PgfaultClaim, PgfaultCopy, Go, Private, Fault, At, ThRecs
<1>9. CASE Page_insert(t)
  <2>1. th[t].pc = "insert"
    BY <1>9 DEF Page_insert, At
  <2>2. \/ th'[t] = [th[t] EXCEPT !.pc = "flush", !.new = None, !.old = TRUE]
        \/ th'[t] = Back(th[t])
    BY <1>1, <1>9 DEF Page_insert
  <2>3. CASE th'[t] = [th[t] EXCEPT !.pc = "flush", !.new = None, !.old = TRUE]
    BY <1>1, <2>1, <2>3 DEF ThRecs
  <2>4. CASE th'[t] = Back(th[t])
    BY <1>1, <2>1, <2>4, ThType
  <2> QED BY <2>2, <2>3, <2>4
<1>10. CASE Munmap(t)
  <2>1. th[t].pc = "user"
    BY <1>10 DEF Munmap, Syscall, User, At
  <2>2. CASE Return(t)
    BY <1>6, <2>1, <2>2
  <2>3. CASE ~Return(t)
    BY <1>1, <1>10, <2>1, <2>3 DEF Munmap, ThRecs
  <2> QED BY <2>2, <2>3
<1>11. CASE Vm_forkStack(t)
  <2>1. th[t].pc = "stack"
    BY <1>11 DEF Vm_forkStack, At
  <2>2. \/ th'[t] = [th[t] EXCEPT !.pc = "flush"]
        \/ th'[t] = [th[t] EXCEPT !.pc = "flush", !.failed = TRUE]
    BY <1>1, <1>11 DEF Vm_forkStack, Go
  <2>3. th'[t].odec = th[t].odec /\ th'[t].pc = "flush"
    BY <1>1, <2>2 DEF ThRecs
  <2> QED BY <2>1, <2>3
<1>12. CASE \E w \in BOOLEAN : UserFault(t, w)
  BY <1>1, <1>12 DEF UserFault, Leave, ThRecs, User, At
<1>13. CASE \E b \in Spaces, stack \in BOOLEAN : Ptefork(t, b, stack)
  BY <1>1, <1>13 DEF Ptefork, Syscall, ThRecs, User, At
<1> QED BY <1>2, <1>3, <1>4, <1>5, <1>7, <1>8, <1>9, <1>10, <1>11, <1>12, <1>13 DEF Step

\* Masks only lose CPUs in RunClear, and only get them in UserrunMask.
GrowsBy(t, a) == vm'[a].mask = vm[a].mask \/ (UserrunMask(t) /\ vm[a].mask \subseteq vm'[a].mask)

LEMMA MasksGrow ==
    ASSUME CoreInv, NEW t \in Threads, Step(t), ~RunClear(t)
    PROVE  \A a \in Spaces : GrowsBy(t, a)
<1> USE DEF GrowsBy
<1>1. vm \in [Spaces -> AsRecs] /\ Home[t] \in Spaces /\ vm[Home[t]] \in AsRecs
  BY NoneApart DEF CoreInv, TypeOK
<1>2. CASE \E c \in CPUs : UserrunSame(t, c) \/ UserrunLoad(t, c) \/ tlb_shootdown(t, c)
  BY <1>1, <1>2 DEF UserrunSame, UserrunLoad, tlb_shootdown, AsRecs
<1>3. CASE UserrunMask(t)
  BY <1>1, <1>3 DEF UserrunMask, AsRecs
<1>4. CASE RunDec(t)
  BY <1>1, <1>4 DEF RunDec, AsRecs
<1>5. CASE RunDie(t)
  <2>1. \A a \in Spaces : vm'[a] = vm[a] \/ vm'[a] = [NoSpace EXCEPT !.ref = vm[a].ref - 1, !.mask = vm[a].mask]
    BY <1>1, <1>5 DEF RunDie, Terminate
  <2> QED BY <2>1 DEF NoSpace
<1>6. CASE UserFill(t) \/ UserWrite(t) \/ UserTimer(t) \/ Sys_exit(t)
  BY <1>1, <1>6 DEF UserFill, UserWrite, UserTimer, Sys_exit, AsRecs
<1>7. CASE PgfaultKill(t) \/ PgfaultSame(t) \/ PgfaultPanic(t) \/ PgfaultShared(t)
  BY <1>1, <1>7 DEF PgfaultKill, PgfaultSame, PgfaultPanic, PgfaultShared, SetPte, AsRecs
<1>8. CASE PgfaultRead(t) \/ PgfaultClaim(t) \/ PgfaultNoMem(t) \/ PgfaultCopy(t)
  BY <1>1, <1>8 DEF PgfaultRead, PgfaultClaim, PgfaultNoMem, PgfaultCopy, SetPte, AsRecs
<1>9. CASE Page_insert(t) \/ Munmap(t)
  BY <1>1, <1>9 DEF Page_insert, Munmap, AsRecs
<1>10. CASE Vm_forkStack(t)
  <2> DEFINE b == th[t].child
             p == vm[b].pte
  <2>1. CASE UNCHANGED <<pg, vm>> /\ th' = [th EXCEPT ![t].pc = "flush", ![t].failed = TRUE]
    BY <2>1
  <2>2. ASSUME NEW g \in FreePages,
               pg' = [Refdown(Refup(pg, g), p.pg) EXCEPT ![g].val = pg[p.pg].val],
               vm' = [vm EXCEPT ![b].pte = Writable(g), ![Home[t]].pte = Writable(p.pg)],
               Go(t, "flush")
        PROVE  \A a \in Spaces : GrowsBy(t, a)
    <3> HIDE DEF b, p
    <3> QED BY <1>1, <2>2 DEF AsRecs
  <2> QED BY <1>10, <2>1, <2>2 DEF Vm_forkStack
<1>11. CASE \E w \in BOOLEAN : UserFault(t, w)
  BY <1>11 DEF UserFault
<1>12. ASSUME NEW b \in Spaces, NEW stack \in BOOLEAN, Ptefork(t, b, stack)
       PROVE  \A a \in Spaces : GrowsBy(t, a)
  <2>1. vm'[b] = [NoSpace EXCEPT !.alive = TRUE, !.ref = 1, !.pte = Cow(Space(t).pte),
                                 !.mapped = Space(t).mapped, !.mask = vm[b].mask]
    BY <1>1, <1>12 DEF Ptefork
  <2>2. vm'[b].mask = vm[b].mask
    BY <2>1 DEF NoSpace
  <2>3. \A a \in Spaces \ {b} : vm'[a].mask = vm[a].mask
    BY <1>1, <1>12 DEF Ptefork, AsRecs
  <2> QED BY <2>2, <2>3
<1> QED BY <1>2, <1>3, <1>4, <1>5, <1>6, <1>7, <1>8, <1>9, <1>10, <1>11, <1>12 DEF Step

\* Page maps are only loaded by UserrunLoad, and TLBs only filled by UserFill.
LEMMA TlbsShrink ==
    ASSUME CoreInv, NEW t \in Threads, Step(t), ~UserFill(t), \A c \in CPUs : ~UserrunLoad(t, c)
    PROVE  SameCr3 /\ \A c \in CPUs : cpu'[c].tlb \in {cpu[c].tlb, NoEntry}
<1>1. CASE UserTimer(t) \/ \E w \in BOOLEAN : UserFault(t, w)
  <2>1. th[t].cpu \in CPUs /\ cpu' = Flushed(th[t].cpu)
    BY <1>1, UserCpu DEF UserTimer, UserFault, User, At
  <2>2. SameCr3 /\ cpu'[th[t].cpu].tlb = NoEntry
        /\ \A k \in CPUs \ {th[t].cpu} : cpu'[k] = cpu[k]
    BY <2>1, FlushSame
  <2> QED BY <2>2
<1>2. CASE UNCHANGED cpu
  BY <1>2 DEF SameCr3
<1>3. UserTimer(t) \/ (\E w \in BOOLEAN : UserFault(t, w)) \/ UNCHANGED cpu
  BY DEF Step, UserrunSame, tlb_shootdown, UserrunMask, RunClear, RunDec, RunDie, UserWrite,
         Sys_exit, PgfaultKill, PgfaultSame, PgfaultPanic, PgfaultShared, PgfaultRead,
         PgfaultClaim, PgfaultCopy, PgfaultNoMem, Page_insert, Munmap, Vm_forkStack, Ptefork
<1> QED BY <1>1, <1>2, <1>3

\* The invariant of the masks is kept by a step that loads no page map and fills no
\* TLB, and takes no CPU from a mask.
LEMMA MaskStep ==
    ASSUME CoreInv, MaskInv, TypeOK', SameCr3,
           \A c \in CPUs : cpu'[c].tlb \in {cpu[c].tlb, NoEntry},
           \A a \in Spaces : vm[a].mask \subseteq vm'[a].mask,
           \A u \in Threads : /\ th'[u].odec \in {th[u].odec, NoDec}
                              /\ th[u].pc = "mask" \/ th'[u].pc = "mask" => th'[u] = th[u]
    PROVE  MaskInv'
<1>1. ASSUME NEW c \in CPUs PROVE Masked(c)'
  <2>1. cpu'[c].cr3 = cpu[c].cr3 /\ cpu[c].cr3 \in Spaces \cup {None} /\ Masked(c)
    BY StateTypes, CpuType DEF CoreInv, SameCr3, MaskInv
  <2> QED BY <2>1 DEF Masked
<1>2. ASSUME NEW u \in Threads PROVE MovedOn(u)'
  <2>1. th[u].odec \in Odecs /\ MovedOn(u)
    BY StateTypes, ThType DEF CoreInv, MaskInv
  <2>2. th[u].odec # NoDec => th[u].odec.cpu \in CPUs
    BY <2>1, OdecType
  <2> QED BY <2>1, <2>2 DEF MovedOn, SameCr3
<1> QED BY <1>1, <1>2 DEF MaskInv

\* The same of the CPUs that are not in the mask yet.
LEMMA LoadStep ==
    ASSUME CoreInv, LoadInv, \A c \in CPUs : cpu'[c].tlb \in {cpu[c].tlb, NoEntry},
           \A u \in Threads : th'[u].pc = "mask" => th'[u] = th[u]
    PROVE  LoadInv'
<1> SUFFICES ASSUME NEW u \in Threads, th'[u].pc = "mask" PROVE cpu'[th'[u].cpu].tlb = NoEntry
  BY DEF LoadInv
<1>1. th'[u] = th[u] /\ th[u].pc = "mask" /\ cpu[th[u].cpu].tlb = NoEntry
  BY DEF LoadInv
<1>2. th[u].cpu \in CPUs
  BY <1>1, UserCpu
<1> QED BY <1>1, <1>2

\* The entry of a CPU in the mask keeps the invariant of the masks.
LEMMA UserrunMaskMasks ==
    ASSUME CoreInv, LoadInv, TypeOK', NEW t \in Threads, UserrunMask(t)
    PROVE  LoadInv' /\ (MaskInv => MaskInv')
<1>1. /\ th \in [Threads -> ThRecs] /\ th[t] \in ThRecs /\ th[t].pc = "mask"
      /\ vm \in [Spaces -> AsRecs] /\ Home[t] \in Spaces /\ vm[Home[t]] \in AsRecs
      /\ th[t].cpu \in CPUs /\ cpu[th[t].cpu].cr3 = Home[t]
  BY UserCpu, StateTypes DEF CoreInv, TypeOK, UserrunMask, At, ThreadsInv, ThreadOK
<1>2. /\ th'[t].pc = "user" /\ th'[t].odec = th[t].odec
      /\ \A u \in Threads \ {t} : th'[u] = th[u]
      /\ cpu' = cpu
  BY <1>1 DEF UserrunMask, Go, ThRecs
<1>3. /\ \A a \in Spaces : vm[a].mask \subseteq vm'[a].mask
      /\ th[t].cpu \in vm'[Home[t]].mask
  BY <1>1 DEF UserrunMask, AsRecs
<1>4. ASSUME MaskInv, NEW c \in CPUs PROVE Masked(c)'
  <2>1. cpu[c].cr3 \in Spaces \cup {None} /\ Masked(c)
    BY <1>4, StateTypes, CpuType DEF CoreInv, MaskInv
  <2>2. CASE c = th[t].cpu
    BY <1>1, <1>2, <1>3, <2>2 DEF Masked
  <2>3. CASE c # th[t].cpu
    BY <1>2, <1>3, <2>1, <2>3 DEF Masked
  <2> QED BY <2>2, <2>3
<1>5. MaskInv => \A u \in Threads : MovedOn(u)'
  BY <1>2 DEF MaskInv, MovedOn
<1>6. LoadInv'
  BY <1>2 DEF LoadInv
<1> QED BY <1>4, <1>5, <1>6 DEF MaskInv

\* The CPU has moved on by the time it is cleared in the mask.
LEMMA RunClearMasks ==
    ASSUME CoreInv, LoadInv, TypeOK', NEW t \in Threads, RunClear(t)
    PROVE  LoadInv' /\ (MaskInv => MaskInv')
<1> DEFINE o == th[t].odec
<1>1. /\ th \in [Threads -> ThRecs] /\ th[t] \in ThRecs /\ th[t].pc = "clear"
      /\ vm \in [Spaces -> AsRecs] /\ LocalOK(th[t]) /\ o # NoDec
  BY StateTypes DEF CoreInv, TypeOK, RunClear, At, ThreadsInv, ThreadOK, LocalOK
<1>2. o.pm \in Spaces /\ o.cpu \in CPUs /\ (MaskInv => cpu[o.cpu].cr3 # o.pm)
  BY <1>1, ThType, OdecType DEF MaskInv, MovedOn
<1>3. /\ th'[t].pc = "dec" /\ th'[t].odec = th[t].odec
      /\ \A u \in Threads \ {t} : th'[u] = th[u]
      /\ cpu' = cpu
  BY <1>1 DEF RunClear, Go, ThRecs
<1>4. \A a \in Spaces, c \in CPUs : c \in vm[a].mask /\ ~(a = o.pm /\ c = o.cpu) => c \in vm'[a].mask
  BY <1>1, <1>2 DEF RunClear, AsRecs
<1> HIDE DEF o
<1>5. ASSUME MaskInv, NEW c \in CPUs PROVE Masked(c)'
  <2>1. cpu[c].cr3 \in Spaces \cup {None} /\ Masked(c)
    BY <1>5, StateTypes, CpuType DEF CoreInv, MaskInv
  <2>2. CASE cpu[c].cr3 \in Spaces /\ c \in vm[cpu[c].cr3].mask
    BY <1>2, <1>3, <1>4, <1>5, <2>2 DEF Masked
  <2>3. CASE \E u \in Threads : th[u].cpu = c /\ th[u].pc = "mask"
    BY <1>1, <1>3, <2>3 DEF Masked
  <2> QED BY <1>3, <2>1, <2>2, <2>3 DEF Masked
<1>6. MaskInv => \A u \in Threads : MovedOn(u)'
  BY <1>3 DEF MaskInv, MovedOn
<1>7. LoadInv'
  BY <1>3 DEF LoadInv
<1> QED BY <1>5, <1>6, <1>7 DEF MaskInv

\* A TLB fill keeps the invariant of the masks.
LEMMA UserFillMasks ==
    ASSUME CoreInv, LoadInv, TypeOK', NEW t \in Threads, UserFill(t)
    PROVE  LoadInv' /\ (MaskInv => MaskInv')
<1>1. th[t].pc = "user" /\ th[t].cpu \in CPUs
  BY UserCpu DEF UserFill, User, At
<1>2. UNCHANGED <<vm, th>> /\ SameCr3 /\ \A k \in CPUs \ {th[t].cpu} : cpu'[k] = cpu[k]
  <2>1. /\ cpu \in [CPUs -> CpuRecs] /\ cpu[th[t].cpu] \in CpuRecs
    BY <1>1 DEF CoreInv, TypeOK
  <2> QED BY <1>1, <2>1 DEF UserFill, SameCr3, CpuRecs
<1>3. ASSUME NEW u \in Threads, th[u].pc = "mask" PROVE cpu'[th[u].cpu].tlb = NoEntry
  <2>1. th[u].cpu \in CPUs /\ th[u].cpu # th[t].cpu
    BY <1>1, <1>3, UserCpu, NoneApart DEF CoreInv, ApartInv, Apart
  <2> QED BY <1>2, <1>3, <2>1 DEF LoadInv
<1>4. MaskInv => \A c \in CPUs : Masked(c)'
  BY <1>2 DEF MaskInv, Masked, SameCr3
<1>5. ASSUME MaskInv, NEW u \in Threads PROVE MovedOn(u)'
  <2>1. th[u].odec # NoDec => th[u].odec.cpu \in CPUs
    BY StateTypes, ThType, OdecType DEF CoreInv
  <2> QED BY <1>2, <1>5, <2>1 DEF MaskInv, MovedOn, SameCr3
<1>6. LoadInv'
  BY <1>2, <1>3 DEF LoadInv
<1> QED BY <1>4, <1>5, <1>6 DEF MaskInv

\* A CPU that loads a page map which nobody has yet to clear it from.
LEMMA UserrunLoadMasks ==
    ASSUME CoreInv, LoadInv, TypeOK', NEW t \in Threads, NEW c \in CPUs, UserrunLoad(t, c)
    PROVE  LoadInv' /\ (MaskInv /\ ~EarlyReloads => MaskInv')
<1> DEFINE h == Home[t]
<1>1. /\ th \in [Threads -> ThRecs] /\ th[t] \in ThRecs /\ h \in Spaces
      /\ vm \in [Spaces -> AsRecs] /\ vm[h] \in AsRecs /\ cpu \in [CPUs -> CpuRecs]
      /\ cpu[c].cr3 # h /\ \A u \in Threads : th[u].cpu # c
  BY StateTypes DEF CoreInv, TypeOK, UserrunLoad, OnCpu
<1>2. /\ th'[t].pc = "mask" /\ th'[t].cpu = c /\ th'[t].odec = Odec(t, c)
      /\ \A u \in Threads \ {t} : th'[u] = th[u]
  BY <1>1 DEF UserrunLoad, ThRecs
<1>3. /\ cpu'[c].cr3 = h /\ cpu'[c].tlb = NoEntry
      /\ \A k \in CPUs \ {c} : cpu'[k] = cpu[k]
  BY <1>1 DEF UserrunLoad
<1>4. \A a \in Spaces : vm'[a].mask = vm[a].mask
  BY <1>1 DEF UserrunLoad, AsRecs
<1>5. ASSUME MaskInv, NEW k \in CPUs PROVE Masked(k)'
  <2>1. CASE k = c
    BY <1>2, <2>1 DEF Masked
  <2>2. CASE k # c
    <3>1. cpu[k].cr3 \in Spaces \cup {None} /\ Masked(k)
      BY <1>5, StateTypes, CpuType DEF CoreInv, MaskInv
    <3>2. ASSUME NEW u \in Threads, th[u].pc = "mask" PROVE u # t
      BY <3>2 DEF UserrunLoad, At
    <3> QED BY <1>2, <1>3, <1>4, <2>2, <3>1, <3>2 DEF Masked
  <2> QED BY <2>1, <2>2
<1>6. ASSUME MaskInv, ~EarlyReloads, NEW u \in Threads PROVE MovedOn(u)'
  <2>1. CASE u = t
    <3> SUFFICES ASSUME Odec(t, c) # NoDec PROVE cpu'[Odec(t, c).cpu].cr3 # Odec(t, c).pm
      BY <1>2, <2>1 DEF MovedOn
    <3>1. Odec(t, c).pm = cpu[c].cr3 /\ Odec(t, c).cpu = c
      BY DEF Odec
    <3> QED BY <1>1, <1>3, <3>1
  <2>2. CASE u # t
    <3> DEFINE o == th[u].odec
    <3>3. o \in Odecs /\ (o # NoDec => o = [pm |-> o.pm, cpu |-> o.cpu])
      <4>1. o \in Odecs
        BY StateTypes, ThType DEF CoreInv
      <4> QED BY <4>1 DEF Odecs
    <3>1. o # NoDec => o.cpu \in CPUs /\ o.pm \in Spaces /\ cpu[o.cpu].cr3 # o.pm
      BY <1>6, <3>3, OdecType DEF MaskInv, MovedOn
    <3>2. o # [pm |-> h, cpu |-> c]
      BY <1>6 DEF EarlyReloads
    <3> QED BY <1>2, <1>3, <2>2, <3>1, <3>2, <3>3 DEF MovedOn
  <2> QED BY <2>1, <2>2
<1>7. ASSUME NEW u \in Threads, th'[u].pc = "mask" PROVE cpu'[th'[u].cpu].tlb = NoEntry
  <2>1. CASE u = t
    BY <1>2, <1>3, <2>1
  <2>2. CASE u # t
    <3>1. th'[u] = th[u] /\ th[u].cpu \in CPUs /\ th[u].cpu # c
      BY <1>1, <1>2, <1>7, <2>2, UserCpu
    <3> QED BY <1>3, <1>7, <3>1 DEF LoadInv
  <2> QED BY <2>1, <2>2
<1> QED BY <1>5, <1>6, <1>7 DEF MaskInv, LoadInv

\* All other steps of a thread.
LEMMA StepMasks ==
    ASSUME CoreInv, LoadInv, TypeOK', NEW t \in Threads, Step(t)
    PROVE  LoadInv' /\ (MaskInv /\ ~EarlyReloads => MaskInv')
<1>1. CASE ~UserFill(t) /\ ~RunClear(t) /\ ~UserrunMask(t) /\ \A c \in CPUs : ~UserrunLoad(t, c)
  <2>1. \A u \in Threads : /\ th'[u].odec \in {th[u].odec, NoDec}
                           /\ th[u].pc = "mask" \/ th'[u].pc = "mask" => th'[u] = th[u]
    BY <1>1, OthersSame, StepThread
  <2>2. /\ \A a \in Spaces : vm[a].mask \subseteq vm'[a].mask
        /\ SameCr3 /\ \A c \in CPUs : cpu'[c].tlb \in {cpu[c].tlb, NoEntry}
    BY <1>1, MasksGrow, TlbsShrink DEF GrowsBy
  <2>3. LoadInv'
    BY <2>1, <2>2, LoadStep
  <2> QED BY <2>1, <2>2, <2>3, MaskStep
<1> QED BY <1>1, UserFillMasks, RunClearMasks, UserrunMaskMasks, UserrunLoadMasks

\* A CPU that a step puts into a mask has an empty TLB.
LEMMA StepFresh ==
    ASSUME CoreInv, LoadInv, NEW t \in Threads, Step(t)
    PROVE  Fresh
<1>1. /\ vm \in [Spaces -> AsRecs] /\ Home[t] \in Spaces /\ vm[Home[t]] \in AsRecs
      /\ th[t] \in ThRecs
  BY StateTypes DEF CoreInv, TypeOK
<1>2. CASE RunClear(t)
  BY <1>1, <1>2 DEF RunClear, Fresh, AsRecs
<1>3. CASE UserrunMask(t)
  <2>1. cpu' = cpu /\ cpu[th[t].cpu].tlb = NoEntry
    BY <1>3 DEF UserrunMask, At, LoadInv
  <2>2. \A a \in Spaces : vm'[a].mask \subseteq vm[a].mask \cup {th[t].cpu}
    BY <1>1, <1>3 DEF UserrunMask, AsRecs
  <2> QED BY <2>1, <2>2 DEF Fresh
<1>4. CASE ~RunClear(t) /\ ~UserrunMask(t)
  BY <1>4, MasksGrow DEF GrowsBy, Fresh
<1> QED BY <1>2, <1>3, <1>4

-------------------------------------------------------------------------------
(***************************************************************************)
(* What the steps that change an entry do, field by field.                 *)
(***************************************************************************)
SameSpace(a) == /\ vm'[a].alive = vm[a].alive /\ vm'[a].mapped = vm[a].mapped
                /\ vm'[a].pte = vm[a].pte /\ vm'[a].lock = vm[a].lock
SameVals     == \A x \in Pages : pg'[x].val = pg[x].val
Others(t)    == \A u \in Threads \ {t} : th'[u] = th[u]
Idle(r)      == /\ r.pc \in {"none", "run", "clear"} /\ r.new = None /\ ~r.old
                /\ r.child = None

\* A thread that is about to change an entry of its process.
LEMMA Faulting ==
    ASSUME CoreInv, NEW t \in Threads, th[t].pc \in {"user", "trap"}
    PROVE  /\ Home[t] \in Spaces /\ vm[Home[t]] \in AsRecs /\ vm[Home[t]].alive
           /\ th[t] \in ThRecs /\ vm[Home[t]].pte \in Ptes
           /\ th[t].new = None /\ ~th[t].old /\ th[t].child = None /\ ~th[t].failed
BY StateTypes, AsType, ThType DEF CoreInv, ThreadsInv, ThreadOK, LocalOK

\* What a fault that fills an empty entry changes.
LEMMA FillEffect ==
    ASSUME CoreInv, NEW t \in Threads, PgfaultShared(t) \/ PgfaultRead(t)
    PROVE  /\ vm[Home[t]].mapped /\ vm[Home[t]].lock = None /\ vm[Home[t]].pte = NoPte
           /\ vm'[Home[t]].alive /\ vm'[Home[t]].mapped /\ vm'[Home[t]].lock = None
           /\ \/ mtype = "sharefile" /\ vm'[Home[t]].pte = Pte(File, {"W"})
              \/ mtype = "anon" /\ vm'[Home[t]].pte = Pte(Zero, {"COW"})
              \/ mtype = "file" /\ vm'[Home[t]].pte = Pte(File, {"COW"})
           /\ \A a \in Spaces \ {Home[t]} : SameSpace(a)
           /\ SameVals /\ Others(t) /\ Idle(th'[t]) /\ UNCHANGED <<cpu, mtype, view>>
<1> DEFINE h == Home[t]
<1>1. th[t].pc = "trap" /\ vm[h].lock = None /\ vm[h].mapped /\ ~Present(vm[h].pte)
  BY DEF PgfaultShared, PgfaultRead, Private, Fault, At, CanLock, Space
<1>2. PICK g \in {Zero, File}, f \in SUBSET Flags :
        /\ vm' = [vm EXCEPT ![h].pte = Pte(g, f)] /\ pg' = Refup(pg, g) /\ Return(t)
        /\ UNCHANGED <<cpu, mtype, view>>
        /\ \/ mtype = "sharefile" /\ g = File /\ f = {"W"}
           \/ mtype = "anon" /\ g = Zero /\ f = {"COW"}
           \/ mtype = "file" /\ g = File /\ f = {"COW"}
  <2>1. {"W"} \in SUBSET Flags /\ {"COW"} \in SUBSET Flags
    BY DEF Flags
  <2>2. CASE PgfaultShared(t)
    BY <2>1, <2>2 DEF PgfaultShared, SetPte
  <2>3. CASE PgfaultRead(t)
    <3>1. mtype \in {"anon", "file"}
      BY <2>3 DEF PgfaultRead, Private, Shared, CoreInv, TypeOK, Kinds
    <3> QED BY <2>1, <2>3, <3>1 DEF PgfaultRead, SetPte
  <2> QED BY <2>2, <2>3
<1>3. h \in Spaces /\ vm[h] \in AsRecs /\ vm[h].alive /\ vm[h].pte = NoPte /\ th[t] \in ThRecs
  BY <1>1, Faulting, PteType
<1>4. /\ vm'[h].alive /\ vm'[h].mapped /\ vm'[h].lock = None /\ vm'[h].pte = Pte(g, f)
      /\ \A a \in Spaces \ {h} : SameSpace(a)
  <2>1. vm \in [Spaces -> AsRecs]
    BY DEF CoreInv, TypeOK
  <2> DEFINE p == Pte(g, f)
  <2>2. vm' = [vm EXCEPT ![h].pte = p]
    BY <1>2
  <2> HIDE DEF p
  <2>3. /\ vm'[h].alive /\ vm'[h].mapped /\ vm'[h].lock = None /\ vm'[h].pte = p
    BY <1>1, <1>3, <2>1, <2>2 DEF AsRecs
  <2>4. \A a \in Spaces \ {h} : SameSpace(a)
    BY <1>3, <2>1, <2>2 DEF SameSpace
  <2> QED BY <2>3, <2>4 DEF p
<1>5. SameVals
  BY <1>2, PgIsInts, RefupFacts, NoneApart DEF CoreInv, SameVals, Pages
<1>6. Others(t) /\ Idle(th'[t])
  <2>1. th' = [th EXCEPT ![t] = Back(th[t])] /\ th \in [Threads -> ThRecs]
    BY <1>2 DEF Return, CoreInv, TypeOK
  <2> QED BY <1>3, <2>1, ThType DEF Others, Idle
<1> QED BY <1>1, <1>2, <1>3, <1>4, <1>5, <1>6

\* What a fault that claims a page changes.
LEMMA ClaimEffect ==
    ASSUME CoreInv, NEW t \in Threads, PgfaultClaim(t)
    PROVE  /\ vm[Home[t]].mapped /\ vm[Home[t]].lock = None
           /\ mtype = "anon" /\ pg[vm[Home[t]].pte.pg].ref = 1 /\ Present(vm[Home[t]].pte)
           /\ vm'[Home[t]].alive /\ vm'[Home[t]].mapped /\ vm'[Home[t]].lock = t
           /\ vm'[Home[t]].pte = Writable(vm[Home[t]].pte.pg)
           /\ \A a \in Spaces \ {Home[t]} : SameSpace(a)
           /\ Others(t) /\ th'[t].pc = "flush" /\ th'[t].new = None /\ ~th'[t].old
           /\ th'[t].child = None /\ th[t].child = None /\ th'[t].stale = th[t].stale
           /\ UNCHANGED <<pg, cpu, mtype, view>>
<1> DEFINE h == Home[t]
<1>1. /\ th[t].pc = "trap" /\ vm[h].lock = None /\ vm[h].mapped /\ "COW" \in vm[h].pte.flags
      /\ mtype = "anon" /\ pg[vm[h].pte.pg].ref = 1
  BY DEF PgfaultClaim, Private, Fault, At, CanLock, Space, Claimable
<1>2. /\ h \in Spaces /\ vm[h] \in AsRecs /\ vm[h].alive /\ vm[h].pte \in Ptes
      /\ th[t] \in ThRecs /\ th[t].new = None /\ ~th[t].old /\ th[t].child = None
  BY <1>1, Faulting
<1>3. Present(vm[h].pte)
  BY <1>1, <1>2, PteType
<1>4. /\ vm'[h].alive /\ vm'[h].mapped /\ vm'[h].lock = t
      /\ vm'[h].pte = Writable(vm[h].pte.pg)
      /\ \A a \in Spaces \ {h} : SameSpace(a)
  <2>1. vm \in [Spaces -> AsRecs]
    BY DEF CoreInv, TypeOK
  <2> DEFINE p == Writable(vm[h].pte.pg)
             s == [vm[h] EXCEPT !.pte = p, !.lock = t]
  <2>2. vm' = [vm EXCEPT ![h] = s]
    BY <2>1 DEF PgfaultClaim
  <2> HIDE DEF p
  <2>3. s.alive /\ s.mapped /\ s.lock = t /\ s.pte = p
    BY <1>1, <1>2 DEF AsRecs
  <2> HIDE DEF s
  <2>4. vm'[h] = s /\ \A a \in Spaces \ {h} : vm'[a] = vm[a]
    BY <1>2, <2>1, <2>2
  <2> QED BY <2>3, <2>4 DEF p, SameSpace
<1>5. /\ Others(t) /\ th'[t].pc = "flush" /\ th'[t].new = None /\ ~th'[t].old
      /\ th'[t].child = None /\ th'[t].stale = th[t].stale
  <2>1. th' = [th EXCEPT ![t].pc = "flush"] /\ th \in [Threads -> ThRecs]
    BY DEF PgfaultClaim, Go, CoreInv, TypeOK
  <2> QED BY <1>2, <2>1 DEF Others, ThRecs
<1> QED BY <1>1, <1>2, <1>3, <1>4, <1>5 DEF PgfaultClaim

\* What a fault that begins to copy a page changes.
LEMMA CopyEffect ==
    ASSUME CoreInv, NEW t \in Threads, PgfaultCopy(t)
    PROVE  /\ vm[Home[t]].mapped /\ vm[Home[t]].lock = None /\ ~Shared
           /\ Present(vm[Home[t]].pte) => "COW" \in vm[Home[t]].pte.flags
           /\ vm'[Home[t]].alive /\ vm'[Home[t]].mapped /\ vm'[Home[t]].lock = t
           /\ vm'[Home[t]].pte = vm[Home[t]].pte
           /\ \A a \in Spaces \ {Home[t]} : SameSpace(a)
           /\ Others(t) /\ th'[t].pc = "insert" /\ ~th'[t].old
           /\ th'[t].child = None /\ th[t].child = None
           /\ \E g \in Frames : /\ pg[g].ref = 0 /\ \A u \in Threads : th[u].new # g
                                /\ th'[t].new = g
                                /\ pg'[g].val = pg[Source(vm[Home[t]].pte)].val
                                /\ \A x \in Pages \ {g} : pg'[x].val = pg[x].val
           /\ UNCHANGED <<cpu, mtype, view>>
<1> DEFINE h == Home[t]
<1>1. /\ th[t].pc = "trap" /\ vm[h].lock = None /\ vm[h].mapped /\ ~Shared
      /\ Present(vm[h].pte) => "COW" \in vm[h].pte.flags
  BY DEF PgfaultCopy, Private, Fault, At, CanLock, Space
<1>2. /\ h \in Spaces /\ vm[h] \in AsRecs /\ vm[h].alive /\ vm[h].pte \in Ptes
      /\ th[t] \in ThRecs /\ th[t].new = None /\ ~th[t].old /\ th[t].child = None
  BY <1>1, Faulting
<1>3. /\ vm'[h].alive /\ vm'[h].mapped /\ vm'[h].lock = t
      /\ vm'[h].pte = vm[h].pte
      /\ \A a \in Spaces \ {h} : SameSpace(a)
  <2>1. vm \in [Spaces -> AsRecs] /\ vm' = [vm EXCEPT ![h].lock = t]
    BY DEF CoreInv, TypeOK, PgfaultCopy
  <2> QED BY <1>1, <1>2, <2>1 DEF AsRecs, SameSpace
<1>4. PICK g \in FreePages :
        /\ pg' = [pg EXCEPT ![g].val = pg[Source(vm[h].pte)].val]
        /\ th' = [th EXCEPT ![t].pc = "insert", ![t].new = g]
  BY DEF PgfaultCopy, Space
<1>5. g \in Frames /\ g \in Pages /\ pg[g].ref = 0 /\ \A u \in Threads : th[u].new # g
  BY DEF FreePages, Pages
<1>6. /\ Others(t) /\ th'[t].pc = "insert" /\ th'[t].new = g /\ ~th'[t].old
      /\ th'[t].child = None
  <2>1. th \in [Threads -> ThRecs]
    BY DEF CoreInv, TypeOK
  <2> QED BY <1>2, <1>4, <2>1 DEF Others, ThRecs
<1>7. /\ pg'[g].val = pg[Source(vm[h].pte)].val
      /\ \A x \in Pages \ {g} : pg'[x].val = pg[x].val
  <2> DEFINE v == pg[Source(vm[h].pte)].val
  <2>1. pg' = [pg EXCEPT ![g].val = v] /\ pg \in [Pages -> PgRecs]
    BY <1>4 DEF CoreInv, TypeOK
  <2> HIDE DEF v
  <2>2. pg'[g].val = v /\ \A x \in Pages \ {g} : pg'[x].val = pg[x].val
    BY <1>5, <2>1 DEF PgRecs
  <2> QED BY <2>2 DEF v
<1> QED BY <1>1, <1>2, <1>3, <1>5, <1>6, <1>7 DEF PgfaultCopy

\* What the insertion of a copied page changes.
LEMMA InsertEffect ==
    ASSUME CoreInv, NEW t \in Threads, Page_insert(t)
    PROVE  /\ th[t].pc = "insert" /\ th[t].new \in Frames
           /\ vm[Home[t]].alive /\ vm[Home[t]].mapped /\ vm[Home[t]].lock = t
           /\ vm'[Home[t]].alive /\ vm'[Home[t]].mapped
           /\ vm'[Home[t]].pte = Writable(th[t].new)
           /\ \A a \in Spaces : vm[a].pte.pg # th[t].new
           /\ \A a \in Spaces \ {Home[t]} : SameSpace(a)
           /\ Others(t) /\ th[t].child = None /\ ~th[t].old
           /\ \/ /\ Present(vm[Home[t]].pte) /\ vm'[Home[t]].lock = t
                 /\ th'[t].pc = "flush" /\ th'[t].new = None /\ th'[t].old
                 /\ th'[t].child = None
              \/ vm[Home[t]].pte = NoPte /\ vm'[Home[t]].lock = None /\ Idle(th'[t])
           /\ SameVals /\ UNCHANGED <<cpu, mtype, view>>
<1> DEFINE h == Home[t]
           g == th[t].new
           p == vm[h].pte
           s == [vm[h] EXCEPT !.pte = Writable(g), !.lock = IF Present(p) THEN t ELSE None]
<1>1. /\ h \in Spaces /\ vm[h] \in AsRecs /\ th[t] \in ThRecs /\ LocalOK(th[t])
      /\ vm[h].alive /\ th[t].pc = "insert" /\ vm[h].lock = t /\ vm[h].mapped
  BY StateTypes DEF CoreInv, ThreadsInv, ThreadOK, At, Page_insert, Busy
<1>2. g \in Frames /\ g \in Pages /\ g # None /\ p \in Ptes /\ \A a \in Spaces : vm[a].pte.pg # g
  BY <1>1, ThType, NoneApart, AsType, NewUnused DEF LocalOK
<1>3. th[t].child = None /\ ~th[t].old
  BY <1>1 DEF LocalOK
<1>4. vm' = [vm EXCEPT ![h] = s] /\ vm \in [Spaces -> AsRecs]
  BY DEF Page_insert, Space, CoreInv, TypeOK
<1>5. /\ s.alive /\ s.mapped /\ s.pte = Writable(g)
      /\ s.lock = (IF Present(p) THEN t ELSE None)
  BY <1>1 DEF AsRecs
<1>6. SameVals
  <2>1. Refup(pg, g) \in PgInts /\ \A x \in Pages : Refup(pg, g)[x].val = pg[x].val
    BY <1>2, PgIsInts, RefupFacts DEF CoreInv
  <2>2. pg' = Unmap(Refup(pg, g), p)
    BY DEF Page_insert, Space
  <2> HIDE DEF g, p
  <2> QED BY <1>2, <2>1, <2>2, UnmapFacts DEF SameVals
<1>7. Others(t) /\ th'[t] = IF Present(p)
                            THEN [th[t] EXCEPT !.pc = "flush", !.new = None, !.old = TRUE]
                            ELSE Back(th[t])
  BY DEF Page_insert, Space, CoreInv, TypeOK, Others
<1> HIDE DEF s
<1>8. vm'[h] = s /\ \A a \in Spaces \ {h} : vm'[a] = vm[a]
  BY <1>1, <1>4
<1>9. \/ /\ Present(p) /\ s.lock = t
         /\ th'[t].pc = "flush" /\ th'[t].new = None /\ th'[t].old
         /\ th'[t].child = None
      \/ p = NoPte /\ s.lock = None /\ Idle(th'[t])
  <2>1. CASE Present(p)
    BY <1>1, <1>3, <1>5, <1>7, <2>1 DEF ThRecs
  <2>2. CASE ~Present(p)
    <3>1. th'[t] = Back(th[t]) /\ s.lock = None /\ p = NoPte
      BY <1>2, <1>5, <1>7, <2>2, PteType
    <3> QED BY <1>1, <3>1, ThType DEF Idle
  <2> QED BY <2>1, <2>2
<1> QED BY <1>1, <1>2, <1>3, <1>5, <1>6, <1>7, <1>8, <1>9 DEF SameSpace, Page_insert

\* What munmap changes.
LEMMA MunmapEffect ==
    ASSUME CoreInv, NEW t \in Threads, Munmap(t), vm[Home[t]].mapped
    PROVE  /\ th[t].pc = "user" /\ vm[Home[t]].lock = None
           /\ vm'[Home[t]].alive /\ ~vm'[Home[t]].mapped /\ vm'[Home[t]].lock = t
           /\ vm'[Home[t]].pte = NoPte
           /\ \A a \in Spaces \ {Home[t]} : SameSpace(a)
           /\ Others(t) /\ th'[t].pc = "flush" /\ th'[t].new = None /\ th'[t].old
           /\ th'[t].child = None /\ th[t].child = None
           /\ SameVals /\ UNCHANGED <<cpu, mtype, view>>
<1> DEFINE h == Home[t]
<1>1. th[t].pc = "user" /\ vm[h].lock = None
  BY DEF Munmap, Syscall, User, At, CanLock, Space
<1>2. /\ h \in Spaces /\ vm[h] \in AsRecs /\ vm[h].alive /\ vm[h].pte \in Ptes
      /\ th[t] \in ThRecs /\ th[t].new = None /\ ~th[t].old /\ th[t].child = None
  BY <1>1, Faulting
<1>3. /\ vm' = [vm EXCEPT ![h].mapped = FALSE, ![h].pte = NoPte, ![h].lock = t]
      /\ pg' = Unmap(pg, vm[h].pte)
      /\ th' = [th EXCEPT ![t].pc = "flush", ![t].cpu = None, ![t].old = TRUE]
      /\ UNCHANGED <<cpu, mtype, view>>
  BY DEF Munmap, Space
<1>4. /\ vm'[h].alive /\ ~vm'[h].mapped /\ vm'[h].lock = t
      /\ vm'[h].pte = NoPte
      /\ \A a \in Spaces \ {h} : SameSpace(a)
  <2>1. vm \in [Spaces -> AsRecs]
    BY DEF CoreInv, TypeOK
  <2> DEFINE s == [vm[h] EXCEPT !.mapped = FALSE, !.pte = NoPte, !.lock = t]
  <2>2. vm' = [vm EXCEPT ![h] = s]
    BY <1>3, <2>1
  <2>3. s.alive /\ ~s.mapped /\ s.lock = t /\ s.pte = NoPte
    BY <1>2 DEF AsRecs
  <2> HIDE DEF s
  <2>4. vm'[h] = s /\ \A a \in Spaces \ {h} : vm'[a] = vm[a]
    BY <1>2, <2>1, <2>2
  <2> QED BY <2>3, <2>4 DEF SameSpace
<1>5. /\ Others(t) /\ th'[t].pc = "flush" /\ th'[t].new = None /\ th'[t].old
      /\ th'[t].child = None
  <2>1. th \in [Threads -> ThRecs]
    BY DEF CoreInv, TypeOK
  <2> QED BY <1>2, <1>3, <2>1 DEF Others, ThRecs
<1>6. SameVals
  BY <1>2, <1>3, PgIsInts, UnmapFacts DEF CoreInv, SameVals
<1> QED BY <1>1, <1>2, <1>3, <1>4, <1>5, <1>6

\* Nothing but its count and its mask is left of an address space that is dead.
LEMMA DeadSpace ==
    ASSUME CoreInv, NEW b \in Spaces, ~vm[b].alive
    PROVE  /\ vm[b].pte = NoPte /\ vm[b].lock = None /\ ~vm[b].mapped
           /\ \A u \in Threads : Home[u] = b => th[u].pc = "none"
<1>1. SpaceOK(b) /\ vm[b].lock \in Threads \cup {None}
  BY StateTypes, AsType DEF CoreInv, SpacesInv
<1>2. \A u \in Threads : Home[u] = b => th[u].pc = "none"
  BY DEF CoreInv, ThreadsInv, ThreadOK
<1>3. vm[b].lock = None
  BY <1>1, <1>2 DEF SpaceOK, Busy
<1> QED BY <1>1, <1>2, <1>3 DEF SpaceOK

\* What fork changes.
LEMMA ForkEffect ==
    ASSUME CoreInv, NEW t \in Threads, NEW b \in Spaces, NEW stack \in BOOLEAN,
           Ptefork(t, b, stack)
    PROVE  /\ th[t].pc = "user" /\ vm[Home[t]].lock = None /\ b # Home[t]
           /\ vm[Home[t]].pte \in Ptes /\ vm[Home[t]].alive
           /\ ~vm[b].alive /\ vm[b].pte = NoPte
           /\ \A u \in Threads : th[u].child # b /\ (Home[u] = b => th[u].pc = "none")
           /\ \A c \in CPUs : cpu[c].cr3 # b
           /\ vm'[Home[t]].alive /\ vm'[Home[t]].mapped = vm[Home[t]].mapped
           /\ vm'[Home[t]].lock = t /\ vm'[Home[t]].pte = Cow(vm[Home[t]].pte)
           /\ vm'[b].alive /\ vm'[b].mapped = vm[Home[t]].mapped
           /\ vm'[b].lock = None /\ vm'[b].pte = Cow(vm[Home[t]].pte)
           /\ \A a \in Spaces \ {Home[t], b} : SameSpace(a)
           /\ Others(t) /\ th'[t].new = None /\ ~th'[t].old /\ th'[t].child = b
           /\ th'[t].pc \in {"stack", "flush"} /\ (th'[t].pc = "stack" => stack)
           /\ stack => /\ mtype = "anon" /\ Present(vm[Home[t]].pte)
                       /\ SharesStack \/ "W" \in vm[Home[t]].pte.flags
           /\ view'[b] = view[Home[t]] /\ \A a \in Spaces \ {b} : view'[a] = view[a]
           /\ SameVals /\ UNCHANGED <<cpu, mtype>>
<1> DEFINE h == Home[t]
           p == Cow(vm[h].pte)
           n == [NoSpace EXCEPT !.alive = TRUE, !.ref = 1, !.pte = p,
                                !.mapped = vm[h].mapped, !.mask = vm[b].mask]
           s == [vm[h] EXCEPT !.pte = p, !.lock = t]
<1>1. th[t].pc = "user" /\ vm[h].lock = None /\ ~vm[b].alive /\ vm[b].ref = 0
      /\ \A u \in Threads : th[u].child # b
  BY DEF Ptefork, Syscall, User, At, CanLock, Space
<1>2. /\ h \in Spaces /\ vm[h] \in AsRecs /\ vm[h].alive /\ vm[h].pte \in Ptes
      /\ th[t] \in ThRecs /\ th[t].new = None /\ ~th[t].old
  BY <1>1, Faulting
<1>3. /\ b # h /\ vm[b].pte = NoPte /\ \A c \in CPUs : cpu[c].cr3 # b
      /\ \A u \in Threads : Home[u] = b => th[u].pc = "none"
  BY <1>1, <1>2, DeadSpace, CountedUsed
<1>4. p \in Ptes
  BY <1>2, CowFacts
<1>5. /\ vm' = [vm EXCEPT ![h].pte = p, ![h].lock = t, ![b] = n] /\ pg' = Forked(p)
      /\ view' = [view EXCEPT ![b] = view[h]] /\ UNCHANGED <<cpu, mtype>>
      /\ th' = [th EXCEPT ![t].pc = IF stack THEN "stack" ELSE "flush", ![t].cpu = None,
                          ![t].child = b]
  BY DEF Ptefork, Space
<1>6. stack => /\ mtype = "anon" /\ Present(vm[h].pte)
               /\ SharesStack \/ "W" \in vm[h].pte.flags
  <2>1. stack /\ "W" \notin vm[h].pte.flags => SharesStack
    BY DEF SharesStack, Space
  <2> QED BY <2>1 DEF Ptefork, Space
<1>7. SameVals
  BY <1>4, <1>5, ForkedFacts DEF CoreInv, SameVals
<1> HIDE DEF p
<1>8. vm' = [vm EXCEPT ![h] = s, ![b] = n] /\ vm \in [Spaces -> AsRecs]
  BY <1>3, <1>5 DEF CoreInv, TypeOK
<1>9. s.alive /\ s.mapped = vm[h].mapped /\ s.lock = t /\ s.pte = p
  BY <1>2 DEF AsRecs
<1>10. n.alive /\ n.mapped = vm[h].mapped /\ n.lock = None /\ n.pte = p
  BY DEF NoSpace
<1> HIDE DEF n, s
<1>11. vm'[h] = s /\ vm'[b] = n /\ \A a \in Spaces \ {h, b} : vm'[a] = vm[a]
  BY <1>2, <1>3, <1>8
<1>12. /\ Others(t) /\ th'[t].new = None /\ ~th'[t].old /\ th'[t].child = b
       /\ th'[t].pc \in {"stack", "flush"} /\ (th'[t].pc = "stack" => stack)
  <2>1. th \in [Threads -> ThRecs]
    BY DEF CoreInv, TypeOK
  <2>2. PICK q \in {"stack", "flush"} : q = (IF stack THEN "stack" ELSE "flush")
    OBVIOUS
  <2>3. th' = [th EXCEPT ![t].pc = q, ![t].cpu = None, ![t].child = b]
    BY <1>5, <2>2
  <2>4. q = "stack" => stack
    BY <2>2
  <2> QED BY <1>2, <2>1, <2>3, <2>4 DEF Others, ThRecs
<1>13. view'[b] = view[h] /\ \A a \in Spaces \ {b} : view'[a] = view[a]
  BY <1>5 DEF CoreInv, TypeOK
<1> QED BY <1>1, <1>2, <1>3, <1>5, <1>6, <1>7, <1>9, <1>10, <1>11, <1>12, <1>13 DEF SameSpace, p

\* The stack could not be copied, or the child has a copy.
LEMMA StackEffect ==
    ASSUME CoreInv, NEW t \in Threads, Vm_forkStack(t)
    PROVE  /\ th[t].pc = "stack" /\ vm[Home[t]].lock = t /\ vm[Home[t]].alive
           /\ th[t].child \in Spaces \ {Home[t]} /\ ChildOK(t, th[t].child)
           /\ vm[Home[t]].pte = vm[th[t].child].pte /\ Present(vm[Home[t]].pte)
           /\ vm[Home[t]].pte.pg \in Pages
           /\ Others(t) /\ th'[t].pc = "flush" /\ th'[t].new = None /\ th[t].old = th'[t].old
           /\ th'[t].child = th[t].child
           /\ \/ UNCHANGED <<pg, vm>>
              \/ \E g \in Frames :
                   /\ pg[g].ref = 0 /\ \A u \in Threads : th[u].new # g
                   /\ \A x \in Pages : pg'[x].val =
                                         IF x = g THEN pg[vm[Home[t]].pte.pg].val ELSE pg[x].val
                   /\ vm'[th[t].child].pte = Writable(g)
                   /\ vm'[Home[t]].pte = Writable(vm[Home[t]].pte.pg)
                   /\ \A a \in Spaces : /\ vm'[a].alive = vm[a].alive /\ vm'[a].lock = vm[a].lock
                                        /\ vm'[a].mapped = vm[a].mapped
                   /\ \A a \in Spaces \ {Home[t], th[t].child} : vm'[a].pte = vm[a].pte
           /\ UNCHANGED <<cpu, mtype, view>>
<1> DEFINE h == Home[t]
           b == th[t].child
           p == vm[b].pte
<1>1. /\ h \in Spaces /\ vm[h] \in AsRecs /\ th[t] \in ThRecs /\ LocalOK(th[t])
      /\ vm[h].alive /\ th[t].pc = "stack" /\ vm[h].lock = t /\ Present(p) /\ vm[h].pte = p
  BY StateTypes DEF CoreInv, ThreadsInv, ThreadOK, At, Vm_forkStack, Busy
<1>2. b \in Spaces /\ ChildOK(t, b) /\ b # h /\ vm[b] \in AsRecs
  BY <1>1, ThType, StateTypes, NoneApart DEF LocalOK, CoreInv, ChildrenInv, ChildOK
<1>3. p \in Ptes /\ p.pg \in Pages /\ th[t].new = None
  BY <1>1, <1>2, AsType, PteType DEF LocalOK
<1>4. th \in [Threads -> ThRecs] /\ vm \in [Spaces -> AsRecs]
  BY DEF CoreInv, TypeOK
<1>5. UNCHANGED <<cpu, mtype, view>>
  BY DEF Vm_forkStack
<1> DEFINE Change == \E g \in Frames :
                   /\ pg[g].ref = 0 /\ \A u \in Threads : th[u].new # g
                   /\ \A x \in Pages : pg'[x].val = IF x = g THEN pg[vm[h].pte.pg].val ELSE pg[x].val
                   /\ vm'[b].pte = Writable(g)
                   /\ vm'[h].pte = Writable(vm[h].pte.pg)
                   /\ \A a \in Spaces : /\ vm'[a].alive = vm[a].alive /\ vm'[a].lock = vm[a].lock
                                        /\ vm'[a].mapped = vm[a].mapped
                   /\ \A a \in Spaces \ {h, b} : vm'[a].pte = vm[a].pte
           Moved  == /\ Others(t) /\ th'[t].pc = "flush" /\ th'[t].new = None
                     /\ th[t].old = th'[t].old /\ th'[t].child = th[t].child
           Goal   == Moved /\ (UNCHANGED <<pg, vm>> \/ Change)
<1>6. ASSUME UNCHANGED <<pg, vm>>, th' = [th EXCEPT ![t].pc = "flush", ![t].failed = TRUE]
      PROVE  Goal
  <2> SUFFICES Moved
    BY <1>6
  <2> QED BY <1>1, <1>3, <1>4, <1>6 DEF Others, ThRecs
<1>7. ASSUME NEW g \in FreePages,
             pg' = [Refdown(Refup(pg, g), p.pg) EXCEPT ![g].val = pg[p.pg].val],
             vm' = [vm EXCEPT ![b].pte = Writable(g), ![h].pte = Writable(p.pg)],
             Go(t, "flush")
      PROVE  Goal
  <2>1. Moved
    BY <1>1, <1>3, <1>4, <1>7 DEF Go, Others, ThRecs
  <2>2. g \in Frames /\ g \in Pages /\ pg[g].ref = 0 /\ \A u \in Threads : th[u].new # g
    BY NoneApart DEF FreePages
  <2> DEFINE s == [vm[h] EXCEPT !.pte = Writable(p.pg)]
             n == [vm[b] EXCEPT !.pte = Writable(g)]
             f == Refdown(Refup(pg, g), p.pg)
  <2>3. /\ s.alive = vm[h].alive /\ s.mapped = vm[h].mapped
        /\ s.pte = Writable(p.pg) /\ s.lock = vm[h].lock
    BY <1>1 DEF AsRecs
  <2>4. /\ n.alive = vm[b].alive /\ n.mapped = vm[b].mapped
        /\ n.pte = Writable(g) /\ n.lock = vm[b].lock
    BY <1>2 DEF AsRecs
  <2>5. vm' = [vm EXCEPT ![b] = n, ![h] = s]
    BY <1>1, <1>2, <1>4, <1>7
  <2>6. f \in PgInts /\ \A x \in Pages : f[x].val = pg[x].val
    <3>1. Refup(pg, g) \in PgInts /\ \A x \in Pages : Refup(pg, g)[x].val = pg[x].val
      BY <2>2, PgIsInts, RefupFacts DEF CoreInv
    <3> QED BY <1>3, <3>1, RefdownFacts
  <2> HIDE DEF s, n, f
  <2>7. vm'[h] = s /\ vm'[b] = n /\ \A a \in Spaces \ {h, b} : vm'[a] = vm[a]
    BY <1>1, <1>2, <1>4, <2>5
  <2>8. \A x \in Pages : pg'[x].val = IF x = g THEN pg[p.pg].val ELSE pg[x].val
    <3>1. PICK v \in Nat : v = pg[p.pg].val
      BY <1>3, StateTypes DEF CoreInv
    <3>2. pg' = [f EXCEPT ![g].val = v]
      BY <1>7, <3>1 DEF f
    <3>3. \A x \in Pages : pg'[x].val = IF x = g THEN v ELSE f[x].val
      BY <2>2, <2>6, <3>2 DEF PgInts
    <3> QED BY <2>6, <3>1, <3>3
  <2>9. /\ \A a \in Spaces : /\ vm'[a].alive = vm[a].alive /\ vm'[a].lock = vm[a].lock
                             /\ vm'[a].mapped = vm[a].mapped
        /\ \A a \in Spaces \ {h, b} : vm'[a].pte = vm[a].pte
        /\ vm'[b].pte = Writable(g) /\ vm'[h].pte = Writable(p.pg)
    BY <2>3, <2>4, <2>7
  <2>10. vm[h].pte.pg = p.pg
    BY <1>1
  <2>11. /\ \A x \in Pages : pg'[x].val = IF x = g THEN pg[vm[h].pte.pg].val ELSE pg[x].val
         /\ vm'[h].pte = Writable(vm[h].pte.pg)
    BY <2>8, <2>9, <2>10
  <2> HIDE DEF p, b, h
  <2> QED BY <2>1, <2>2, <2>9, <2>11
<1>8. Goal
  <2> HIDE DEF Goal
  <2> QED BY <1>6, <1>7 DEF Vm_forkStack
<1> QED BY <1>1, <1>2, <1>3, <1>5, <1>8

\* The end of a call that had the lock.
LEMMA DoneEffect ==
    ASSUME CoreInv, NEW t \in Threads, th[t].pc \in {"flush", "shoot"}, Done(t, vm)
    PROVE  /\ vm[Home[t]].lock = t /\ vm'[Home[t]].lock = None
           /\ vm[Home[t]].alive /\ vm'[Home[t]].alive
           /\ vm'[Home[t]].mapped = vm[Home[t]].mapped /\ vm'[Home[t]].pte = vm[Home[t]].pte
           /\ \A a \in Spaces \ {Home[t]} :
                SameSpace(a) \/ (~vm'[a].alive /\ ~vm'[a].mapped /\ vm'[a].pte = NoPte)
           /\ \A u \in Threads \ {t} :
                \/ th'[u] = th[u]
                \/ /\ th[u].pc = "none" /\ th'[u].pc = "run" /\ th'[u].new = None
                   /\ th'[u].child = None /\ ~th'[u].old
                   /\ Home[u] = th[t].child /\ th'[u].odec = NoDec
           /\ Idle(th'[t]) /\ th'[t].odec = th[t].odec
           /\ \A a \in Spaces : vm'[a].mask = vm[a].mask
           /\ SameVals
<1> DEFINE h == Home[t]
           b == th[t].child
<1>1. /\ h \in Spaces /\ vm[h] \in AsRecs /\ th[t] \in ThRecs /\ LocalOK(th[t])
      /\ vm[h].alive /\ vm[h].lock = t /\ vm \in [Spaces -> AsRecs]
  BY StateTypes DEF CoreInv, ThreadsInv, ThreadOK, Busy, TypeOK
<1>2. b # None => b \in Spaces /\ b # h /\ vm[b] \in AsRecs /\ ChildOK(t, b)
  BY <1>1, ThType, StateTypes DEF CoreInv, ChildrenInv, ChildOK
<1>3. th[t].failed => b # None
  BY <1>1 DEF LocalOK
<1> DEFINE s == [vm[h] EXCEPT !.lock = None]
           n == [NoSpace EXCEPT !.ref = vm[b].ref - 1, !.mask = vm[b].mask]
<1>4. /\ s.alive = vm[h].alive /\ s.mapped = vm[h].mapped /\ s.mask = vm[h].mask
      /\ s.pte = vm[h].pte /\ s.lock = None
  BY <1>1 DEF AsRecs
<1>5. ~n.alive /\ ~n.mapped /\ n.pte = NoPte /\ n.mask = vm[b].mask
  BY DEF NoSpace
<1>6. \/ ~th[t].failed /\ vm' = [vm EXCEPT ![h] = s]
      \/ th[t].failed /\ b \in Spaces \ {h} /\ vm' = [vm EXCEPT ![h] = s, ![b] = n]
  <2>1. [vm EXCEPT ![h].lock = None] = [vm EXCEPT ![h] = s]
    BY <1>1
  <2>2. th[t].failed \in BOOLEAN
    BY <1>1, ThType
  <2>3. CASE ~th[t].failed
    BY <2>1, <2>3 DEF Done
  <2>4. CASE th[t].failed
    <3>1. vm' = Terminate([vm EXCEPT ![h] = s], b)
      BY <2>1, <2>4 DEF Done
    <3>2. [vm EXCEPT ![h] = s][b] = vm[b]
      BY <1>1, <1>2, <1>3, <2>4
    <3>3. vm' = [[vm EXCEPT ![h] = s] EXCEPT ![b] = n]
      BY <3>1, <3>2 DEF Terminate
    <3> QED BY <1>2, <1>3, <2>4, <3>3
  <2> QED BY <2>2, <2>3, <2>4
<1> HIDE DEF s, n
<1>7. /\ vm'[h] = s /\ \A a \in Spaces \ {h} : vm'[a] = vm[a] \/ (a = b /\ vm'[a] = n)
  BY <1>1, <1>6
<1>8. /\ vm'[h].lock = None /\ vm'[h].alive
      /\ vm'[h].mapped = vm[h].mapped /\ vm'[h].pte = vm[h].pte
      /\ \A a \in Spaces \ {h} :
           SameSpace(a) \/ (~vm'[a].alive /\ ~vm'[a].mapped /\ vm'[a].pte = NoPte)
      /\ \A a \in Spaces : vm'[a].mask = vm[a].mask
  <2>1. ASSUME NEW a \in Spaces \ {h}
        PROVE  /\ SameSpace(a) \/ (~vm'[a].alive /\ ~vm'[a].mapped /\ vm'[a].pte = NoPte)
               /\ vm'[a].mask = vm[a].mask
    <3>1. CASE vm'[a] = vm[a]
      BY <3>1 DEF SameSpace
    <3>2. CASE a = b /\ vm'[a] = n
      BY <1>5, <3>2
    <3> QED BY <1>7, <3>1, <3>2
  <2> QED BY <1>1, <1>4, <1>7, <2>1
<1>9. th' = [u \in Threads |->
               IF u = t THEN Back(th[t])
               ELSE IF b # None /\ Home[u] = b /\ ~th[t].failed THEN Thread("run") ELSE th[u]]
  BY DEF Done
<1>10. /\ Thread("run").pc = "run" /\ Thread("run").new = None
       /\ Thread("run").child = None /\ ~Thread("run").old /\ Thread("run").odec = NoDec
  BY DEF Thread
<1>11. Idle(th'[t]) /\ th'[t].odec = th[t].odec
  <2>1. th'[t] = Back(th[t])
    BY <1>9
  <2> QED BY <1>1, <2>1, ThType DEF Idle
<1>12. ASSUME NEW u \in Threads \ {t}
       PROVE \/ th'[u] = th[u]
             \/ /\ th[u].pc = "none" /\ th'[u].pc = "run" /\ th'[u].new = None
                /\ th'[u].child = None /\ ~th'[u].old
                /\ Home[u] = b /\ th'[u].odec = NoDec
  <2>1. CASE b # None /\ Home[u] = b /\ ~th[t].failed
    <3>1. th'[u] = Thread("run") /\ th[u].pc = "none"
      BY <1>2, <1>9, <2>1 DEF ChildOK
    <3> QED BY <1>10, <2>1, <3>1
  <2>2. CASE ~(b # None /\ Home[u] = b /\ ~th[t].failed)
    BY <1>9, <2>2
  <2> QED BY <2>1, <2>2
<1>13. SameVals
  <2>1. CASE th[t].failed
    <3>1. pg' = Unmap(pg, vm[b].pte) /\ vm[b].pte \in Ptes
      BY <1>2, <1>3, <2>1, AsType DEF Done
    <3> QED BY <3>1, PgIsInts, UnmapFacts DEF CoreInv, SameVals
  <2>2. CASE ~th[t].failed
    BY <2>2 DEF Done, SameVals
  <2> QED BY <2>1, <2>2
<1> QED BY <1>1, <1>8, <1>11, <1>12, <1>13

\* The steps after which the entries and the locks are as before.
Quiet(t) ==
    \/ \E c \in CPUs : UserrunSame(t, c) \/ UserrunLoad(t, c)
    \/ UserrunMask(t) \/ RunClear(t) \/ RunDec(t)
    \/ UserTimer(t) \/ Sys_exit(t)
    \/ PgfaultKill(t) \/ PgfaultSame(t) \/ PgfaultPanic(t) \/ PgfaultNoMem(t)
    \/ Munmap(t) /\ ~vm[Home[t]].mapped
    \/ \E w \in BOOLEAN : UserFault(t, w)

\* What they change.
LEMMA QuietEffect ==
    ASSUME CoreInv, NEW t \in Threads, Quiet(t)
    PROVE  /\ \A a \in Spaces : SameSpace(a)
           /\ Others(t) /\ th[t].pc \notin Busy /\ th'[t].pc \notin Busy
           /\ th[t].child = None /\ ~th[t].old
           /\ th'[t].child = None /\ ~th'[t].old /\ th'[t].new = None
           /\ UNCHANGED <<pg, mtype, view>>
           /\ \A c \in CPUs : cpu'[c] = cpu[c] \/ cpu'[c].tlb = NoEntry
<1> DEFINE h == Home[t]
<1>1. /\ h \in Spaces /\ vm[h] \in AsRecs /\ th[t] \in ThRecs /\ LocalOK(th[t])
      /\ th \in [Threads -> ThRecs] /\ vm \in [Spaces -> AsRecs] /\ cpu \in [CPUs -> CpuRecs]
  BY StateTypes DEF CoreInv, ThreadsInv, ThreadOK, TypeOK
<1>2. th[t].pc \in {"run", "mask", "user", "clear", "dec", "trap"}
  BY DEF Quiet, UserrunSame, UserrunLoad, UserrunMask, RunClear, RunDec, UserTimer, Sys_exit,
         PgfaultKill, PgfaultSame, PgfaultPanic, PgfaultNoMem, Munmap, UserFault, At, User,
         Syscall, Private, Fault
<1>3. th[t].child = None /\ ~th[t].old /\ th[t].new = None /\ th[t].pc \notin Busy
  BY <1>1, <1>2 DEF LocalOK, Busy
<1>4. UNCHANGED <<pg, mtype, view>>
  BY DEF Quiet, UserrunSame, UserrunLoad, UserrunMask, RunClear, RunDec, UserTimer, Sys_exit,
         PgfaultKill, PgfaultSame, PgfaultPanic, PgfaultNoMem, Munmap, UserFault, Space
<1>5. /\ Others(t) /\ th'[t].pc \notin Busy /\ th'[t].child = None /\ ~th'[t].old
      /\ th'[t].new = None
  <2>1. CASE Return(t)
    <3>1. th'[t] = Back(th[t]) /\ Others(t)
      BY <1>1, <2>1 DEF Return, Others
    <3> QED BY <1>1, <3>1, ThType DEF Busy
  <2>2. CASE UNCHANGED th
    BY <1>3, <2>2 DEF Others
  <2>3. CASE \E c \in CPUs : UserrunSame(t, c) \/ UserrunLoad(t, c)
    BY <1>1, <1>3, <2>3 DEF UserrunSame, UserrunLoad, Others, ThRecs, Busy
  <2>4. CASE UserrunMask(t) \/ RunClear(t) \/ RunDec(t)
    BY <1>1, <1>3, <2>4 DEF UserrunMask, RunClear, RunDec, Go, Others, ThRecs, Busy
  <2>5. CASE \E w \in BOOLEAN : UserFault(t, w)
    BY <1>1, <1>3, <2>5 DEF UserFault, Leave, Others, ThRecs, Busy
  <2> QED BY <2>1, <2>2, <2>3, <2>4, <2>5
          DEF Quiet, UserTimer, Sys_exit, PgfaultKill, PgfaultSame, PgfaultPanic, PgfaultNoMem,
              Munmap, Space
<1>6. \A a \in Spaces : SameSpace(a)
  <2>1. CASE UNCHANGED vm
    BY <2>1 DEF SameSpace
  <2>2. CASE vm' = [vm EXCEPT ![h].doomed = TRUE]
    BY <1>1, <2>2 DEF SameSpace, AsRecs
  <2>3. CASE \E c \in CPUs : UserrunLoad(t, c)
    BY <1>1, <2>3 DEF UserrunLoad, SameSpace, AsRecs
  <2>4. CASE UserrunMask(t)
    BY <1>1, <2>4 DEF UserrunMask, SameSpace, AsRecs
  <2>5. CASE RunClear(t)
    BY <1>1, <2>5 DEF RunClear, SameSpace, AsRecs
  <2>6. CASE RunDec(t)
    BY <1>1, <2>6 DEF RunDec, SameSpace, AsRecs
  <2> QED BY <2>1, <2>2, <2>3, <2>4, <2>5, <2>6
          DEF Quiet, UserrunSame, UserTimer, Sys_exit, PgfaultKill, PgfaultSame, PgfaultPanic,
              PgfaultNoMem, Munmap, UserFault, Space
<1>7. \A c \in CPUs : cpu'[c] = cpu[c] \/ cpu'[c].tlb = NoEntry
  <2>1. CASE UNCHANGED cpu
    BY <2>1
  <2>2. CASE \E c \in CPUs : UserrunLoad(t, c)
    BY <1>1, <2>2 DEF UserrunLoad
  <2>3. CASE cpu' = Flushed(th[t].cpu)
    BY <1>1, <2>3 DEF Flushed, CpuRecs
  <2> QED BY <2>1, <2>2, <2>3
          DEF Quiet, UserrunSame, UserrunMask, RunClear, RunDec, UserTimer, Sys_exit,
              PgfaultKill, PgfaultSame, PgfaultPanic, PgfaultNoMem, Munmap, UserFault
<1> QED BY <1>3, <1>4, <1>5, <1>6, <1>7

\* What the end of a process changes.
LEMMA DieEffect ==
    ASSUME CoreInv, NEW t \in Threads, RunDie(t)
    PROVE  /\ \A a \in Spaces : \/ SameSpace(a)
                                \/ /\ a = Home[t] /\ ~vm'[a].alive /\ ~vm'[a].mapped
                                   /\ vm'[a].pte = NoPte
                                   /\ \A u \in Threads : Home[u] = a => th'[u].pc = "none"
           /\ Others(t) /\ th[t].pc \notin Busy /\ Idle(th'[t])
           /\ th[t].child = None /\ ~th[t].old
           /\ SameVals /\ UNCHANGED <<cpu, mtype, view>>
<1> DEFINE h == Home[t]
           n == [NoSpace EXCEPT !.ref = vm[h].ref - 1, !.mask = vm[h].mask]
<1>1. /\ h \in Spaces /\ vm[h] \in AsRecs /\ th[t] \in ThRecs /\ LocalOK(th[t])
      /\ th \in [Threads -> ThRecs] /\ vm \in [Spaces -> AsRecs] /\ th[t].pc = "run"
  BY StateTypes DEF CoreInv, ThreadsInv, ThreadOK, TypeOK, RunDie, At
<1>2. th[t].child = None /\ ~th[t].old /\ th[t].pc \notin Busy
  BY <1>1 DEF LocalOK, Busy
<1>3. th'[t] = Thread("none") /\ Others(t) /\ UNCHANGED <<cpu, mtype, view>>
  BY <1>1 DEF RunDie, Others
<1>4. Idle(th'[t]) /\ th'[t].pc = "none"
  BY <1>3 DEF Idle, Thread
<1>5. ~n.alive /\ ~n.mapped /\ n.pte = NoPte
  BY DEF NoSpace
<1> DEFINE last == \A u \in Threads \ {t} : Home[u] = Home[t] => th[u].pc = "none"
<1>6. CASE last
  <2>1. vm' = [vm EXCEPT ![h] = n] /\ pg' = Unmap(pg, vm[h].pte) /\ vm[h].pte \in Ptes
    BY <1>1, <1>6, AsType DEF RunDie, Terminate, Space
  <2> HIDE DEF n
  <2>2. vm'[h] = n /\ \A a \in Spaces \ {h} : vm'[a] = vm[a]
    BY <1>1, <2>1
  <2>3. SameVals
    BY <2>1, PgIsInts, UnmapFacts DEF CoreInv, SameVals
  <2>4. \A u \in Threads : Home[u] = h => th'[u].pc = "none"
    BY <1>3, <1>4, <1>6 DEF Others
  <2> QED BY <1>2, <1>3, <1>4, <1>5, <2>2, <2>3, <2>4 DEF SameSpace
<1>7. CASE ~last
  <2>1. vm' = vm /\ pg' = pg
    BY <1>7 DEF RunDie
  <2> QED BY <1>2, <1>3, <1>4, <2>1 DEF SameSpace, SameVals
<1> QED BY <1>6, <1>7

-------------------------------------------------------------------------------
(***************************************************************************)
(* The TLBs.                                                               *)
(***************************************************************************)
\* A set of one element at most.
LEMMA AtMostOne ==
    ASSUME NEW S, IsFiniteSet(S), Cardinality(S) <= 1, NEW x \in S, NEW y \in S
    PROVE  x = y
<1>1. Cardinality(S) \in Nat /\ Cardinality(S) # 0
  BY FS_CardinalityType, FS_EmptySet
<1>2. Cardinality(S) = 1
  BY <1>1
<1>3. PICK z : S = {z}
  BY <1>2, FS_Singleton
<1> QED BY <1>3

\* The fast path: a page map that is counted twice is loaded on one CPU only.
LEMMA AloneOnCpu ==
    ASSUME CoreInv, NEW a \in Spaces, vm[a].alive, Alone(a), NEW c \in CPUs, cpu[c].cr3 = a,
           NEW k \in CPUs, cpu[k].cr3 = a
    PROVE  k = c
<1> DEFINE L == {i \in CPUs : cpu[i].cr3 = a}
           D == {u \in Threads : th[u].odec.pm = a}
<1>1. vm[a].ref = Cardinality(L) + Cardinality(D) + (IF vm[a].alive THEN 1 ELSE 0)
  BY DEF CoreInv, RefsCounted, PmapsCounted
<1>2. IsFiniteSet(L) /\ IsFiniteSet(D) /\ c \in L /\ k \in L
  BY FS_Subset, VmAssumption
<1>3. Cardinality(L) \in Nat /\ Cardinality(D) \in Nat
  BY <1>2, FS_CardinalityType
<1>4. vm[a].ref <= 2 /\ vm[a].ref \in Nat
  BY StateTypes, AsType DEF Alone, CoreInv
<1> HIDE DEF L, D
<1>5. Cardinality(L) <= 1
  BY <1>1, <1>3, <1>4
<1> QED BY <1>2, <1>5, AtMostOne

\* A step that does not fill a TLB, and changes entries and locks only in X.
LEMMA TlbStep ==
    ASSUME CoreInv, MaskedInv, Fresh, NEW X \in SUBSET Spaces,
           \A c \in CPUs : \/ cpu'[c] = cpu[c] \/ cpu'[c].tlb = NoEntry
                           \/ \A a \in Spaces : MaskedOK(c, a)',
           \A a \in Spaces \ X : vm'[a].alive =>
              /\ vm[a].alive /\ vm'[a].pte = vm[a].pte /\ vm'[a].lock = vm[a].lock
              /\ vm[a].lock # None => th'[vm[a].lock] = th[vm[a].lock],
           \A a \in X, c \in CPUs : MaskedOK(c, a)'
    PROVE  MaskedInv'
<1> SUFFICES ASSUME NEW c \in CPUs, NEW a \in Spaces PROVE MaskedOK(c, a)'
  BY DEF MaskedInv
<1>1. CASE a \notin X /\ cpu'[c] = cpu[c]
  <2>1. MaskedOK(c, a) /\ (c \in vm'[a].mask => c \in vm[a].mask \/ cpu'[c].tlb = NoEntry)
    BY DEF MaskedInv, Fresh
  <2> QED BY <1>1, <2>1 DEF MaskedOK, TlbOK, ToFlush, Current
<1>2. CASE cpu'[c].tlb = NoEntry
  BY <1>2 DEF MaskedOK, TlbOK
<1> QED BY <1>1, <1>2

\* Who has the lock of another address space does not take part.
LEMMA HolderSame ==
    ASSUME CoreInv, NEW t \in Threads, Others(t)
    PROVE  \A a \in Spaces : a # Home[t] \/ th[t].pc \notin Busy =>
             (vm[a].lock # None => th'[vm[a].lock] = th[vm[a].lock])
<1>1. \A a \in Spaces : vm[a].lock \in Threads \cup {None} /\ SpaceOK(a)
  BY StateTypes, AsType DEF CoreInv, SpacesInv
<1> QED BY <1>1 DEF SpaceOK, Others

\* No TLB has anything of an empty entry that nobody changes.
LEMMA EmptyEntry ==
    ASSUME CoreInv, MaskedInv, NEW a \in Spaces, vm[a].alive, vm[a].pte = NoPte,
           vm[a].lock # None => th[vm[a].lock].pc \notin {"stack", "flush", "shoot"},
           NEW c \in vm[a].mask, c \in CPUs, cpu[c].cr3 = a
    PROVE  cpu[c].tlb = NoEntry
<1>1. MaskedOK(c, a) /\ cpu[c] \in CpuRecs
  BY StateTypes DEF MaskedInv, CoreInv
<1> QED BY <1>1, CpuType, NoPteFacts DEF MaskedOK, TlbOK, Current, ToFlush

\* Steps of one thread that leave entries and locks alone.
LEMMA QuietTlbs ==
    ASSUME CoreInv, MaskedInv, Fresh, NEW t \in Threads, Quiet(t)
    PROVE  MaskedInv'
<1>1. /\ \A a \in Spaces : SameSpace(a)
      /\ Others(t) /\ th[t].pc \notin Busy
      /\ \A c \in CPUs : cpu'[c] = cpu[c] \/ cpu'[c].tlb = NoEntry
  BY QuietEffect
<1>2. {} \in SUBSET Spaces
  OBVIOUS
<1>3. \A a \in Spaces : vm[a].lock # None => th'[vm[a].lock] = th[vm[a].lock]
  BY <1>1, HolderSame
<1> QED BY <1>1, <1>2, <1>3, TlbStep DEF SameSpace

\* A TLB fill keeps the invariant of the TLBs.
LEMMA UserFillTlbs ==
    ASSUME CoreInv, MaskedInv, Fresh, NEW t \in Threads, UserFill(t)
    PROVE  MaskedInv'
<1> DEFINE h == Home[t]
<1>0. PICK k \in CPUs : k = th[t].cpu
  BY UserCpu DEF UserFill, User, At
<1>1. th[t].pc = "user" /\ UNCHANGED <<vm, th>> /\ cpu[k].cr3 = h /\ h \in Spaces
      /\ vm[h].pte \in Ptes /\ Present(vm[h].pte)
  BY <1>0, StateTypes, AsType
     DEF UserFill, User, At, CoreInv, ThreadsInv, ThreadOK, Space
<1>2. /\ cpu'[k].cr3 = h /\ cpu'[k].tlb = Entry(vm[h].pte)
      /\ \A c \in CPUs \ {k} : cpu'[c] = cpu[c]
  <2> DEFINE e == Entry(vm[h].pte)
  <2>1. cpu \in [CPUs -> CpuRecs] /\ cpu' = [cpu EXCEPT ![k].tlb = e]
    BY <1>0 DEF UserFill, CoreInv, TypeOK, Space
  <2> HIDE DEF e
  <2>2. cpu'[k].cr3 = h /\ cpu'[k].tlb = e /\ \A c \in CPUs \ {k} : cpu'[c] = cpu[c]
    BY <1>1, <2>1 DEF CpuRecs
  <2> QED BY <2>2 DEF e
<1>3. Current(cpu'[k].tlb, vm'[h].pte)
  BY <1>1, <1>2, EntryFacts DEF Current
<1>4. \A a \in Spaces : MaskedOK(k, a)'
  BY <1>2, <1>3 DEF MaskedOK, TlbOK
<1>5. {} \in SUBSET Spaces
  OBVIOUS
<1>6. \A c \in CPUs : cpu'[c] = cpu[c] \/ \A a \in Spaces : MaskedOK(c, a)'
  BY <1>2, <1>4
<1> QED BY <1>1, <1>5, <1>6, TlbStep

\* A page fault keeps the invariant of the TLBs.
LEMMA PgfaultTlbs ==
    ASSUME CoreInv, MaskedInv, Fresh, NEW t \in Threads,
           PgfaultShared(t) \/ PgfaultRead(t) \/ PgfaultClaim(t) \/ PgfaultCopy(t)
    PROVE  MaskedInv'
<1> DEFINE h == Home[t]
<1>1. h \in Spaces /\ {h} \in SUBSET Spaces
  BY StateTypes DEF CoreInv
<1>2. CASE PgfaultShared(t) \/ PgfaultRead(t)
  <2>1. /\ vm[h].lock = None /\ vm[h].pte = NoPte /\ vm[h].alive
        /\ \A a \in Spaces \ {h} : SameSpace(a)
        /\ Others(t) /\ UNCHANGED cpu
    <3>1. th[t].pc = "trap"
      BY <1>2 DEF PgfaultShared, PgfaultRead, Private, Fault, At
    <3> QED BY <1>2, <3>1, FillEffect, Faulting
  <2>2. ASSUME NEW c \in CPUs PROVE MaskedOK(c, h)'
    <3>1. c \in vm'[h].mask => c \in vm[h].mask \/ cpu'[c].tlb = NoEntry
      BY <1>1 DEF Fresh
    <3>2. c \in vm[h].mask /\ cpu[c].cr3 = h => cpu[c].tlb = NoEntry
      BY <1>1, <2>1, EmptyEntry
    <3> QED BY <2>1, <3>1, <3>2 DEF MaskedOK, TlbOK
  <2> QED BY <1>1, <2>1, <2>2, HolderSame, TlbStep DEF SameSpace
<1>3. CASE PgfaultClaim(t)
  <2>1. /\ vm'[h].lock = t /\ th'[t].pc = "flush"
        /\ \A a \in Spaces \ {h} : SameSpace(a)
        /\ Others(t) /\ UNCHANGED cpu
    BY <1>3, ClaimEffect
  <2>2. \A c \in CPUs : MaskedOK(c, h)'
    BY <2>1, NoneApart DEF MaskedOK, TlbOK, ToFlush
  <2> QED BY <1>1, <2>1, <2>2, HolderSame, TlbStep DEF SameSpace
<1>4. CASE PgfaultCopy(t)
  <2>1. /\ vm[h].lock = None /\ vm'[h].pte = vm[h].pte /\ vm[h].alive
        /\ \A a \in Spaces \ {h} : SameSpace(a)
        /\ Others(t) /\ UNCHANGED cpu
    <3>1. th[t].pc = "trap"
      BY <1>4 DEF PgfaultCopy, Private, Fault, At
    <3> QED BY <1>4, <3>1, CopyEffect, Faulting
  <2>2. ASSUME NEW c \in CPUs PROVE MaskedOK(c, h)'
    <3>1. MaskedOK(c, h) /\ (c \in vm'[h].mask => c \in vm[h].mask \/ cpu'[c].tlb = NoEntry)
      BY <1>1 DEF MaskedInv, Fresh
    <3> QED BY <2>1, <3>1 DEF MaskedOK, TlbOK, Current
  <2> QED BY <1>1, <2>1, <2>2, HolderSame, TlbStep DEF SameSpace
<1> QED BY <1>2, <1>3, <1>4

\* The insertion of the copy keeps the invariant of the TLBs.
LEMMA Page_insertTlbs ==
    ASSUME CoreInv, MaskedInv, Fresh, NEW t \in Threads, Page_insert(t)
    PROVE  MaskedInv'
<1> DEFINE h == Home[t]
<1>1. h \in Spaces /\ {h} \in SUBSET Spaces /\ th[t].pc = "insert" /\ vm[h].alive
      /\ vm[h].lock = t /\ Others(t) /\ UNCHANGED cpu
      /\ \A a \in Spaces \ {h} : SameSpace(a)
  BY StateTypes, InsertEffect DEF CoreInv
<1>2. \A c \in CPUs : MaskedOK(c, h)'
  <2>1. CASE vm'[h].lock = t /\ th'[t].pc = "flush"
    BY <2>1, NoneApart DEF MaskedOK, TlbOK, ToFlush
  <2>2. CASE vm[h].pte = NoPte
    <3> SUFFICES ASSUME NEW c \in CPUs PROVE MaskedOK(c, h)'
      OBVIOUS
    <3>1. c \in vm'[h].mask => c \in vm[h].mask \/ cpu'[c].tlb = NoEntry
      BY <1>1 DEF Fresh
    <3>2. c \in vm[h].mask /\ cpu[c].cr3 = h => cpu[c].tlb = NoEntry
      BY <1>1, <2>2, EmptyEntry
    <3> QED BY <1>1, <3>1, <3>2 DEF MaskedOK, TlbOK
  <2> QED BY <2>1, <2>2, InsertEffect
<1> QED BY <1>1, <1>2, HolderSame, TlbStep DEF SameSpace

\* Munmap keeps the invariant of the TLBs.
LEMMA MunmapTlbs ==
    ASSUME CoreInv, MaskedInv, Fresh, NEW t \in Threads, Munmap(t), vm[Home[t]].mapped
    PROVE  MaskedInv'
<1> DEFINE h == Home[t]
<1>1. /\ h \in Spaces /\ {h} \in SUBSET Spaces
      /\ vm'[h].lock = t /\ th'[t].pc = "flush"
      /\ \A a \in Spaces \ {h} : SameSpace(a)
      /\ Others(t) /\ UNCHANGED cpu
  BY StateTypes, MunmapEffect DEF CoreInv
<1>2. \A c \in CPUs : MaskedOK(c, h)'
  BY <1>1, NoneApart DEF MaskedOK, TlbOK, ToFlush
<1> QED BY <1>1, <1>2, HolderSame, TlbStep DEF SameSpace

\* Fork keeps the invariant of the TLBs.
LEMMA PteforkTlbs ==
    ASSUME CoreInv, MaskedInv, Fresh, NEW t \in Threads, NEW b \in Spaces, NEW stack \in BOOLEAN,
           Ptefork(t, b, stack)
    PROVE  MaskedInv'
<1> DEFINE h == Home[t]
<1>1. /\ h \in Spaces /\ {h, b} \in SUBSET Spaces
      /\ vm'[h].lock = t /\ th'[t].pc \in {"stack", "flush"} /\ \A c \in CPUs : cpu[c].cr3 # b
      /\ \A a \in Spaces \ {h, b} : SameSpace(a)
      /\ Others(t) /\ UNCHANGED cpu
  BY StateTypes, ForkEffect DEF CoreInv
<1>2. \A c \in CPUs : MaskedOK(c, h)' /\ MaskedOK(c, b)'
  BY <1>1, NoneApart DEF MaskedOK, TlbOK, ToFlush
<1>3. \A a \in {h, b}, c \in CPUs : MaskedOK(c, a)'
  BY <1>2
<1>4. \A a \in Spaces \ {h, b} : vm[a].lock # None => th'[vm[a].lock] = th[vm[a].lock]
  BY <1>1, HolderSame
<1> QED BY <1>1, <1>3, <1>4, TlbStep DEF SameSpace

\* The copy of the stack keeps the invariant of the TLBs.
LEMMA Vm_forkStackTlbs ==
    ASSUME CoreInv, MaskedInv, Fresh, NEW t \in Threads, Vm_forkStack(t)
    PROVE  MaskedInv'
<1> DEFINE h == Home[t]
<1>0. PICK b \in Spaces : b = th[t].child
  BY StackEffect
<1>1. /\ h \in Spaces /\ {h, b} \in SUBSET Spaces
      /\ vm[h].lock = t /\ th'[t].pc = "flush" /\ ChildOK(t, b)
      /\ Others(t) /\ UNCHANGED cpu
  BY <1>0, StateTypes, StackEffect DEF CoreInv
<1>2. /\ vm'[h].lock = t /\ \A a \in Spaces \ {h, b} : SameSpace(a)
  <2>1. CASE UNCHANGED <<pg, vm>>
    BY <1>1, <2>1 DEF SameSpace
  <2>2. CASE ~UNCHANGED <<pg, vm>>
    <3>1. /\ \A a \in Spaces : /\ vm'[a].alive = vm[a].alive /\ vm'[a].lock = vm[a].lock
                               /\ vm'[a].mapped = vm[a].mapped
          /\ \A a \in Spaces \ {h, b} : vm'[a].pte = vm[a].pte
      BY <1>0, <2>2, StackEffect
    <3> QED BY <1>1, <3>1 DEF SameSpace
  <2> QED BY <2>1, <2>2
<1>3. \A c \in CPUs : MaskedOK(c, h)' /\ MaskedOK(c, b)'
  BY <1>1, <1>2, NoneApart DEF MaskedOK, TlbOK, ToFlush, ChildOK
<1>4. \A a \in {h, b}, c \in CPUs : MaskedOK(c, a)'
  BY <1>3
<1>5. \A a \in Spaces \ {h, b} : vm[a].lock # None => th'[vm[a].lock] = th[vm[a].lock]
  BY <1>1, HolderSame
<1> QED BY <1>1, <1>2, <1>4, <1>5, TlbStep DEF SameSpace

\* The interrupts go to the CPUs in the mask.
LEMMA ShootdownTlbs ==
    ASSUME CoreInv, MaskedInv, Fresh, NEW t \in Threads, NEW k \in CPUs, tlb_shootdown(t, k)
    PROVE  MaskedInv'
<1> DEFINE h == Home[t]
<1>1. /\ h \in Spaces /\ {h} \in SUBSET Spaces /\ vm[h].lock = t
      /\ UNCHANGED <<vm, cpu>> /\ th[t] \in ThRecs /\ th \in [Threads -> ThRecs]
  BY StateTypes DEF CoreInv, ThreadsInv, ThreadOK, tlb_shootdown, At, Busy, TypeOK
<1>2. th'[t].pc = "shoot" /\ th'[t].stale = vm[h].mask /\ Others(t)
  BY <1>1 DEF tlb_shootdown, Space, Others, ThRecs
<1>3. \A c \in CPUs : MaskedOK(c, h)'
  BY <1>1, <1>2, NoneApart DEF MaskedOK, TlbOK, ToFlush
<1> QED BY <1>1, <1>2, <1>3, HolderSame, TlbStep

\* A CPU acknowledges a shootdown only when its TLB is flushed, if it has the page
\* map for which it is.
LEMMA TlbInterruptTlbs ==
    ASSUME CoreInv, MaskedInv, Fresh, NEW k \in CPUs, TlbInterrupt(k)
    PROVE  MaskedInv'
<1> SUFFICES ASSUME NEW c \in CPUs, NEW a \in Spaces PROVE MaskedOK(c, a)'
  BY DEF MaskedInv
<1>1. MaskedOK(c, a) /\ SpaceOK(a) /\ vm[a].lock \in Threads \cup {None} /\ UNCHANGED vm
  BY StateTypes, AsType DEF MaskedInv, CoreInv, SpacesInv, TlbInterrupt
<1>2. cpu'[c] = cpu[c] \/ cpu'[c].tlb = NoEntry
  BY FlushSame DEF TlbInterrupt
<1>3. CASE cpu'[c] = cpu[c] /\ cpu[c].tlb # NoEntry
  <2> DEFINE u == vm[a].lock
  <2>1. CASE u # None /\ ToFlush(th[u], c) /\ cpu[c].cr3 = a
    <3>1. u \in Threads /\ th[u] \in ThRecs /\ Home[u] = a
      BY <1>1, <2>1, StateTypes DEF SpaceOK, CoreInv
    <3>2. CASE th[u].pc = "shoot"
      <4>1. c # k
        <5> SUFFICES ASSUME c = k PROVE FALSE
          OBVIOUS
        <5>1. cpu' = Flushed(k)
          BY <2>1, <3>1, <3>2 DEF TlbInterrupt
        <5> QED BY <1>3, <5>1, FlushSame
      <4>2. th'[u] = [th[u] EXCEPT !.stale = th[u].stale \ {k}]
        BY <3>1, <3>2 DEF TlbInterrupt
      <4>3. th'[u].pc = "shoot" /\ c \in th'[u].stale
        BY <2>1, <3>1, <3>2, <4>1, <4>2 DEF ToFlush, ThRecs
      <4> QED BY <1>1, <2>1, <4>3 DEF MaskedOK, TlbOK, ToFlush
    <3>3. CASE th[u].pc # "shoot"
      <4>1. th[u].pc \in {"stack", "flush"}
        BY <2>1, <3>3 DEF ToFlush
      <4>2. th'[u] = th[u]
        BY <3>1, <4>1 DEF TlbInterrupt
      <4> QED BY <1>1, <2>1, <4>1, <4>2 DEF MaskedOK, TlbOK, ToFlush
    <3> QED BY <3>2, <3>3
  <2>2. CASE ~(u # None /\ ToFlush(th[u], c) /\ cpu[c].cr3 = a)
    BY <1>1, <1>3, <2>2 DEF MaskedOK, TlbOK, Current
  <2> QED BY <2>1, <2>2
<1>4. CASE cpu'[c].tlb = NoEntry
  BY <1>4 DEF MaskedOK, TlbOK
<1> QED BY <1>2, <1>3, <1>4

\* At the end of a call no TLB is stale: either all CPUs have acknowledged, or no
\* other has the page map.
LEMMA DoneTlbs ==
    ASSUME CoreInv, MaskedInv, Fresh, NEW t \in Threads, th[t].pc \in {"flush", "shoot"}, Done(t, vm),
           \A c \in CPUs : cpu'[c] = cpu[c] \/ cpu'[c].tlb = NoEntry,
           \A c \in CPUs : cpu[c].cr3 = Home[t] /\ cpu'[c].tlb # NoEntry =>
                             th[t].pc = "shoot" /\ c \notin th[t].stale
    PROVE  MaskedInv'
<1> DEFINE h == Home[t]
<1>1. /\ h \in Spaces /\ {h} \in SUBSET Spaces /\ vm[h].lock = t /\ vm'[h].lock = None
      /\ vm[h].alive /\ vm'[h].pte = vm[h].pte
      /\ \A a \in Spaces \ {h} : SameSpace(a) \/ ~vm'[a].alive
      /\ \A u \in Threads \ {t} : th'[u] = th[u] \/ th[u].pc = "none"
  BY StateTypes, DoneEffect DEF CoreInv
<1>2. ASSUME NEW c \in CPUs PROVE MaskedOK(c, h)'
  <2>1. CASE cpu'[c] = cpu[c] /\ cpu[c].cr3 = h /\ cpu[c].tlb # NoEntry
    <3>1. MaskedOK(c, h) /\ ~ToFlush(th[t], c) /\ (c \in vm'[h].mask => c \in vm[h].mask)
      BY <1>1, <2>1 DEF MaskedInv, ToFlush, Fresh
    <3>2. c \in vm[h].mask => Current(cpu[c].tlb, vm[h].pte)
      BY <1>1, <2>1, <3>1 DEF MaskedOK, TlbOK
    <3> QED BY <1>1, <2>1, <3>1, <3>2 DEF MaskedOK, TlbOK, Current
  <2>2. CASE cpu'[c].tlb = NoEntry
    BY <2>2 DEF MaskedOK, TlbOK
  <2> QED BY <2>1, <2>2 DEF MaskedOK, TlbOK
<1>3. ASSUME NEW a \in Spaces \ {h}, vm[a].lock # None PROVE th'[vm[a].lock] = th[vm[a].lock]
  <2>1. vm[a].lock \in Threads /\ Home[vm[a].lock] = a /\ th[vm[a].lock].pc \in Busy
    BY <1>3, StateTypes, AsType DEF CoreInv, SpacesInv, SpaceOK
  <2> QED BY <1>1, <2>1 DEF Busy
<1>4. \A a \in Spaces \ {h} : vm'[a].alive =>
         /\ vm[a].alive /\ vm'[a].pte = vm[a].pte /\ vm'[a].lock = vm[a].lock
         /\ vm[a].lock # None => th'[vm[a].lock] = th[vm[a].lock]
  BY <1>1, <1>3 DEF SameSpace
<1>5. \A a \in {h}, c \in CPUs : MaskedOK(c, a)'
  BY <1>2
<1>6. PICK X \in SUBSET Spaces : X = {h}
  BY <1>1
<1> HIDE DEF h
<1> QED BY <1>4, <1>5, <1>6, TlbStep

\* The fast path flushes the only TLB that can have an entry.
LEMMA CondflushFacts ==
    ASSUME CoreInv, NEW t \in Threads, NEW k \in CPUs, Condflush(t, k)
    PROVE  /\ th[t].pc = "flush" /\ Done(t, vm) /\ SameCr3
           /\ \A c \in CPUs : cpu'[c] = cpu[c] \/ cpu'[c].tlb = NoEntry
           /\ \A c \in CPUs : cpu[c].cr3 = Home[t] => cpu'[c].tlb = NoEntry
           /\ UNCHANGED <<mtype, view>>
<1>1. /\ th[t].pc = "flush" /\ Done(t, vm) /\ cpu[k].cr3 = Home[t] /\ Alone(Home[t])
      /\ cpu' = Flushed(k) /\ UNCHANGED <<mtype, view>>
  BY DEF Condflush, At
<1>2. SameCr3 /\ cpu'[k].tlb = NoEntry /\ \A c \in CPUs \ {k} : cpu'[c] = cpu[c]
  BY <1>1, FlushSame
<1>3. Home[t] \in Spaces /\ vm[Home[t]].alive
  BY <1>1, StateTypes DEF CoreInv, ThreadsInv, ThreadOK
<1>4. \A c \in CPUs : cpu[c].cr3 = Home[t] => c = k
  BY <1>1, <1>3, AloneOnCpu
<1> QED BY <1>1, <1>2, <1>4

\* The slow path ends when all CPUs have acknowledged.
LEMMA ShootDoneFacts ==
    ASSUME CoreInv, NEW t \in Threads, ShootDone(t)
    PROVE  /\ th[t].pc = "shoot" /\ Done(t, vm) /\ th[t].stale = {} /\ SameCr3
           /\ UNCHANGED <<cpu, mtype, view>>
BY DEF ShootDone, At, SameCr3

\* The ends of calls and interrupts leave the masks alone.
LEMMA DoneMasks ==
    ASSUME CoreInv, LoadInv, TypeOK', NEW t \in Threads, th[t].pc \in {"flush", "shoot"},
           Done(t, vm), SameCr3, \A c \in CPUs : cpu'[c] = cpu[c] \/ cpu'[c].tlb = NoEntry
    PROVE  LoadInv' /\ Fresh /\ (MaskInv => MaskInv')
<1>1. /\ \A u \in Threads \ {t} : \/ th'[u] = th[u]
                                  \/ th[u].pc = "none" /\ th'[u].pc = "run" /\ th'[u].odec = NoDec
      /\ Idle(th'[t]) /\ th'[t].odec = th[t].odec
      /\ \A a \in Spaces : vm'[a].mask = vm[a].mask
  BY DoneEffect
<1>2. \A u \in Threads : /\ th'[u].odec \in {th[u].odec, NoDec}
                         /\ th[u].pc = "mask" \/ th'[u].pc = "mask" => th'[u] = th[u]
  BY <1>1 DEF Idle
<1>3. \A c \in CPUs : cpu'[c].tlb \in {cpu[c].tlb, NoEntry}
  OBVIOUS
<1>4. LoadInv' /\ Fresh
  BY <1>1, <1>2, <1>3, LoadStep DEF Fresh
<1> QED BY <1>1, <1>2, <1>3, <1>4, MaskStep

\* The interrupt of a shootdown keeps the invariant of the masks.
LEMMA TlbInterruptMasks ==
    ASSUME CoreInv, LoadInv, TypeOK', NEW k \in CPUs, TlbInterrupt(k)
    PROVE  LoadInv' /\ Fresh /\ (MaskInv => MaskInv')
<1>1. SameCr3 /\ \A c \in CPUs : cpu'[c].tlb \in {cpu[c].tlb, NoEntry}
  <2>1. CASE cpu' = Flushed(k)
    <3>1. SameCr3 /\ cpu'[k].tlb = NoEntry /\ \A c \in CPUs \ {k} : cpu'[c] = cpu[c]
      BY <2>1, FlushSame
    <3> QED BY <3>1
  <2>2. CASE cpu' = cpu
    BY <2>2 DEF SameCr3
  <2> QED BY <2>1, <2>2 DEF TlbInterrupt
<1>2. ASSUME NEW u \in Threads
      PROVE  /\ th'[u].odec \in {th[u].odec, NoDec}
             /\ th[u].pc = "mask" \/ th'[u].pc = "mask" => th'[u] = th[u]
  <2>1. th[u] \in ThRecs
    BY StateTypes DEF CoreInv
  <2>2. CASE th[u].pc = "shoot"
    <3>1. th'[u] = [th[u] EXCEPT !.stale = th[u].stale \ {k}]
      BY <2>2 DEF TlbInterrupt
    <3> QED BY <2>1, <2>2, <3>1 DEF ThRecs
  <2>3. CASE th[u].pc = "user" /\ th[u].cpu = k
    <3>1. th'[u] = Back(th[u])
      BY <2>3 DEF TlbInterrupt
    <3> QED BY <2>1, <2>3, <3>1, ThType
  <2>4. CASE th[u].pc # "shoot" /\ ~(th[u].pc = "user" /\ th[u].cpu = k)
    BY <2>4 DEF TlbInterrupt
  <2> QED BY <2>2, <2>3, <2>4
<1>3. \A a \in Spaces : vm[a].mask = vm'[a].mask
  BY DEF TlbInterrupt
<1>4. LoadInv' /\ Fresh
  BY <1>1, <1>2, <1>3, LoadStep DEF Fresh
<1> QED BY <1>1, <1>2, <1>3, <1>4, MaskStep

\* All steps of a thread.
LEMMA StepTlbs ==
    ASSUME CoreInv, MaskedInv, Fresh, NEW t \in Threads, Step(t)
    PROVE  MaskedInv'
<1>1. CASE Quiet(t)
  BY <1>1, QuietTlbs
<1>2. CASE UserFill(t)
  BY <1>2, UserFillTlbs
<1>3. CASE UserWrite(t)
  <2>1. UNCHANGED <<vm, cpu, th>>
    BY <1>3 DEF UserWrite
  <2> QED BY <2>1 DEF MaskedInv, MaskedOK, TlbOK, ToFlush, Current
<1>4. CASE RunDie(t)
  <2>1. /\ \A a \in Spaces : SameSpace(a) \/ ~vm'[a].alive
        /\ Others(t) /\ th[t].pc \notin Busy /\ UNCHANGED cpu
    BY <1>4, DieEffect
  <2>2. {} \in SUBSET Spaces
    OBVIOUS
  <2>3. \A a \in Spaces : vm[a].lock # None => th'[vm[a].lock] = th[vm[a].lock]
    BY <2>1, HolderSame
  <2> QED BY <2>1, <2>2, <2>3, TlbStep DEF SameSpace
<1>5. CASE PgfaultShared(t) \/ PgfaultRead(t) \/ PgfaultClaim(t) \/ PgfaultCopy(t)
  BY <1>5, PgfaultTlbs
<1>6. CASE Page_insert(t)
  BY <1>6, Page_insertTlbs
<1>7. CASE Munmap(t) /\ vm[Home[t]].mapped
  BY <1>7, MunmapTlbs
<1>8. CASE \E b \in Spaces, stack \in BOOLEAN : Ptefork(t, b, stack)
  BY <1>8, PteforkTlbs
<1>9. CASE Vm_forkStack(t)
  BY <1>9, Vm_forkStackTlbs
<1>10. CASE \E c \in CPUs : tlb_shootdown(t, c)
  BY <1>10, ShootdownTlbs
<1> QED BY <1>1, <1>2, <1>3, <1>4, <1>5, <1>6, <1>7, <1>8, <1>9, <1>10 DEF Step, Quiet

\* At the start no CPU has a page map.
LEMMA InitTlbs == Init => MaskInv /\ LoadInv /\ MaskedInv
<1> SUFFICES ASSUME Init PROVE MaskInv /\ LoadInv /\ MaskedInv
  OBVIOUS
<1>1. \A c \in CPUs : cpu[c].cr3 = None /\ cpu[c].tlb = NoEntry
  BY DEF Init
<1>2. \A t \in Threads : th[t].pc # "mask" /\ th[t].odec = NoDec
  BY DEF Init, Thread
<1>3. MaskInv /\ LoadInv
  BY <1>1, <1>2 DEF MaskInv, LoadInv, Masked, MovedOn
<1>4. MaskedInv
  BY <1>1 DEF MaskedInv, MaskedOK, TlbOK
<1> QED BY <1>3, <1>4

\* A step is one of a thread, the end of a call, or an interrupt.
LEMMA NextSteps ==
    ASSUME Next
    PROVE  \/ \E t \in Threads : Step(t) \/ ShootDone(t) \/ \E c \in CPUs : Condflush(t, c)
           \/ \E c \in CPUs : TlbInterrupt(c)
BY DEF Next, Step

\* All steps keep the masks and the TLBs right.
LEMMA NextTlbs ==
    ASSUME CoreInv, LoadInv, MaskedInv, TypeOK', [Next]_vars
    PROVE  LoadInv' /\ MaskedInv' /\ (MaskInv /\ [~EarlyReloads]_vars => MaskInv')
<1> DEFINE Kept == LoadInv' /\ MaskedInv' /\ (MaskInv /\ ~EarlyReloads => MaskInv')
<1>1. CASE UNCHANGED vars
  <2>1. LoadInv' /\ (MaskInv => MaskInv')
    BY <1>1 DEF vars, LoadInv, MaskInv, Masked, MovedOn
  <2>2. MaskedInv'
    BY <1>1 DEF vars, MaskedInv, MaskedOK, TlbOK, ToFlush, Current
  <2> QED BY <2>1, <2>2
<1>2. ASSUME NEW t \in Threads, Step(t) PROVE Kept
  BY <1>2, StepMasks, StepFresh, StepTlbs
<1>3. ASSUME NEW t \in Threads, ShootDone(t) PROVE Kept
  <2>1. /\ th[t].pc = "shoot" /\ Done(t, vm) /\ th[t].stale = {} /\ SameCr3 /\ cpu' = cpu
    BY <1>3, ShootDoneFacts
  <2>2. LoadInv' /\ Fresh /\ (MaskInv => MaskInv')
    BY <2>1, DoneMasks
  <2>3. MaskedInv'
    BY <2>1, <2>2, DoneTlbs
  <2> QED BY <2>2, <2>3
<1>4. ASSUME NEW t \in Threads, NEW c \in CPUs, Condflush(t, c) PROVE Kept
  <2>1. /\ th[t].pc = "flush" /\ Done(t, vm) /\ SameCr3
        /\ \A k \in CPUs : cpu'[k] = cpu[k] \/ cpu'[k].tlb = NoEntry
        /\ \A k \in CPUs : cpu[k].cr3 = Home[t] => cpu'[k].tlb = NoEntry
    BY <1>4, CondflushFacts
  <2>2. LoadInv' /\ Fresh /\ (MaskInv => MaskInv')
    BY <2>1, DoneMasks
  <2>3. MaskedInv'
    BY <2>1, <2>2, DoneTlbs
  <2> QED BY <2>2, <2>3
<1>5. ASSUME NEW c \in CPUs, TlbInterrupt(c) PROVE Kept
  BY <1>5, TlbInterruptMasks, TlbInterruptTlbs
<1> HIDE DEF Kept
<1>6. CASE ~UNCHANGED vars
  <2>1. Kept
    BY <1>2, <1>3, <1>4, <1>5, <1>6, NextSteps
  <2> QED BY <1>6, <2>1 DEF Kept
<1> QED BY <1>1, <1>6

\* A CPU with something in its TLB is in the mask, and so all TLBs are right.
LEMMA AllMasked ==
    ASSUME CoreInv, LoadInv, MaskInv, MaskedInv
    PROVE  TlbInv
<1> SUFFICES ASSUME NEW c \in CPUs, NEW a \in Spaces, cpu[c].cr3 = a, cpu[c].tlb # NoEntry
             PROVE  TlbOK(c, a)
  BY DEF TlbInv, TlbOK
<1>1. Masked(c) /\ MaskedOK(c, a)
  BY DEF MaskInv, MaskedInv
<1>2. \A u \in Threads : th[u].pc = "mask" => th[u].cpu # c
  BY DEF LoadInv
<1>3. c \in vm[a].mask
  BY <1>1, <1>2, NoneApart DEF Masked
<1> QED BY <1>1, <1>3 DEF MaskedOK

\* What the TLBs have is what the properties say.
LEMMA TlbInvCurrent ==
    ASSUME CoreInv
    PROVE  /\ TlbInv => TlbCurrent
           /\ MaskedInv => MaskedCurrent
<1>1. TlbInv => TlbCurrent
  BY DEF TlbInv, TlbOK, Current, TlbCurrent
<1>2. \A a \in Spaces : vm[a].mask \subseteq CPUs
  BY StateTypes DEF CoreInv, AsRecs
<1>3. MaskedInv => MaskedCurrent
  BY <1>2 DEF MaskedInv, MaskedOK, TlbOK, Current, MaskedCurrent
<1> QED BY <1>1, <1>3

\* A shootdown leaves no stale entry on any CPU that is in the mask of the page map,
\* whatever loads, clears and shootdowns interleave, early reloads included: what can
\* be stale is only a CPU that the mask misses.
THEOREM MaskedTlbsCurrent == Spec => []MaskedCurrent
<1> DEFINE I == CoreInv /\ LoadInv /\ MaskedInv
<1>1. Init => I
  BY InitCore, InitTlbs
<1>2. I /\ [Next]_vars => I'
  <2> SUFFICES ASSUME I, [Next]_vars PROVE I'
    OBVIOUS
  <2>1. CoreInv' /\ TypeOK'
    BY NextCore DEF CoreInv
  <2> QED BY <2>1, NextTlbs
<1>3. I => MaskedCurrent
  BY TlbInvCurrent
<1> QED BY <1>1, <1>2, <1>3, PTL DEF Spec

\* All that the proofs about the TLBs need, in behaviours without early reloads.
TlbsInv == CoreInv /\ LoadInv /\ MaskInv /\ MaskedInv /\ TlbInv

LEMMA TlbsInvariant == Spec /\ [][~EarlyReloads]_vars => []TlbsInv
<1>1. Init => TlbsInv
  BY InitCore, InitTlbs, AllMasked DEF TlbsInv
<1> DEFINE J == CoreInv /\ LoadInv /\ MaskInv /\ MaskedInv
<1>2. J /\ [Next]_vars /\ [~EarlyReloads]_vars => J'
  <2> SUFFICES ASSUME J, [Next]_vars, [~EarlyReloads]_vars PROVE J'
    OBVIOUS
  <2>1. CoreInv' /\ TypeOK'
    BY NextCore DEF CoreInv
  <2> QED BY <2>1, NextTlbs
<1>3. J => TlbsInv
  BY AllMasked DEF TlbsInv
<1>4. TlbsInv => J
  BY DEF TlbsInv
<1> HIDE DEF J
<1> QED BY <1>1, <1>2, <1>3, <1>4, PTL DEF Spec

\* A CPU drops out of the mask of the page map that it has loaded, and a TLB offers
\* what the page table does not have, only in behaviours in which some CPU loads a page
\* map again while a thread has yet to clear it from that map (proc.go:480).
THEOREM TlbsCurrent == Spec /\ [][~EarlyReloads]_vars => [](TlbCurrent /\ MaskCovers)
<1>1. TlbsInv => TlbCurrent /\ MaskCovers
  <2>1. MaskInv => MaskCovers
    BY DEF MaskInv, Masked, MaskCovers, OnCpu
  <2> QED BY <2>1, TlbInvCurrent DEF TlbsInv
<1> QED BY <1>1, TlbsInvariant, PTL

-------------------------------------------------------------------------------
(***************************************************************************)
(* The contents of the memories.                                           *)
(***************************************************************************)
\* A thread that replaces a page has the lock.
LEMMA ReplacingLocked ==
    ASSUME CoreInv, NEW a \in Spaces, Replacing(a)
    PROVE  vm[a].lock \in Threads /\ Home[vm[a].lock] = a /\ th[vm[a].lock].old
<1>1. PICK t \in Threads : Home[t] = a /\ th[t].old
  BY DEF Replacing
<1>2. vm[a].lock = t
  BY <1>1 DEF CoreInv, ThreadsInv, ThreadOK, LocalOK, Busy
<1> QED BY <1>1, <1>2

\* The page that an entry leads to, or would lead to.
LEMMA SourceFacts ==
    ASSUME NEW p \in Ptes
    PROVE  /\ Source(p) \in Pages /\ (Present(p) => Source(p) = p.pg)
           /\ ~Present(p) => Source(p) \in {Zero, File}
BY PteType DEF Source, Pages

\* What the contents of an address space rest on: its entry, its page, and that
\* nobody else gets the page.
LEMMA EntryStep ==
    ASSUME CoreInv, NEW a \in Spaces, EntryOK(a), mtype' = mtype,
           vm'[a].pte = vm[a].pte, vm'[a].mapped = vm[a].mapped, vm'[a].alive => vm[a].alive,
           view'[a] = view[a], pg'[Source(vm[a].pte)].val = pg[Source(vm[a].pte)].val,
           "W" \in vm[a].pte.flags /\ ~Shared => \A b \in Spaces \ {a} :
              vm'[b].pte.pg = vm[a].pte.pg => vm[b].pte.pg = vm[a].pte.pg
    PROVE  EntryOK(a)'
<1>1. Source(vm[a].pte)' = Source(vm[a].pte) /\ Shared' = Shared
  BY DEF Source, Shared, Present
<1>2. FlagsOK(vm[a].pte)'
  BY DEF EntryOK, FlagsOK, Shared, Present
<1>3. ("W" \in vm[a].pte.flags /\ ~Shared => Owner(a, vm[a].pte.pg))'
  BY <1>1 DEF EntryOK, Owner
<1>4. (vm[a].alive /\ vm[a].mapped => pg[Source(vm[a].pte)].val = view[a])'
  BY <1>1 DEF EntryOK
<1>5. (vm[a].mapped /\ mtype = "shareanon" => Present(vm[a].pte))'
  BY DEF EntryOK, Present
<1> QED BY <1>2, <1>3, <1>4, <1>5 DEF EntryOK

\* A dead address space.
LEMMA EntryGone ==
    ASSUME NEW a \in Spaces, ~vm'[a].alive, ~vm'[a].mapped, vm'[a].pte = NoPte
    PROVE  EntryOK(a)'
<1>1. /\ ~Present(vm[a].pte)' /\ "W" \notin vm'[a].pte.flags
  BY NoPteFacts DEF Present
<1>2. FlagsOK(vm[a].pte)'
  BY <1>1 DEF FlagsOK
<1> QED BY <1>1, <1>2 DEF EntryOK

\* What a TLB offers stays right as long as nobody else gets the page.
LEMMA OfferStep ==
    ASSUME NEW c \in CPUs, NEW a \in Spaces, OfferOK(c, a), mtype' = mtype,
           cpu'[c] = cpu[c] \/ cpu'[c].tlb = NoEntry,
           vm'[a].alive => vm[a].alive /\ vm'[a].pte.pg = vm[a].pte.pg,
           Replacing(a) => Replacing(a)',
           \A b \in Spaces \ {a} :
              vm[a].pte.pg \in Frames /\ vm'[b].pte.pg = vm[a].pte.pg =>
                \/ vm[b].pte.pg = vm[a].pte.pg
                \/ \E t \in Threads : Home[t] = a /\ th'[t].child = b,
           \A t \in Threads, b \in Spaces : Home[t] = a /\ th[t].child = b => th'[t].child = b
    PROVE  OfferOK(c, a)'
<1> SUFFICES ASSUME cpu'[c].cr3 = a, vm'[a].alive, ~Replacing(a)', cpu'[c].tlb # NoEntry
             PROVE  /\ cpu'[c].tlb.pg = vm'[a].pte.pg
                    /\ cpu'[c].tlb.w /\ ~Shared =>
                         /\ cpu'[c].tlb.pg \in Frames
                         /\ \A b \in Spaces \ {a} : vm'[b].pte.pg = cpu'[c].tlb.pg =>
                              \E t \in Threads : Home[t] = a /\ th'[t].child = b
  BY DEF OfferOK, Shared
<1>1. cpu'[c] = cpu[c] /\ vm[a].alive /\ vm'[a].pte.pg = vm[a].pte.pg /\ ~Replacing(a)
  OBVIOUS
<1>2. /\ cpu[c].tlb.pg = vm[a].pte.pg
      /\ cpu[c].tlb.w /\ ~Shared =>
           /\ cpu[c].tlb.pg \in Frames
           /\ \A b \in Spaces \ {a} : vm[b].pte.pg = cpu[c].tlb.pg =>
                                        \E t \in Threads : Home[t] = a /\ th[t].child = b
  BY <1>1 DEF OfferOK
<1>3. ASSUME cpu[c].tlb.w, ~Shared, NEW b \in Spaces \ {a}, vm'[b].pte.pg = cpu[c].tlb.pg
      PROVE  \E t \in Threads : Home[t] = a /\ th'[t].child = b
  <2>1. CASE vm[b].pte.pg = vm[a].pte.pg
    <3>1. PICK t \in Threads : Home[t] = a /\ th[t].child = b
      BY <1>2, <1>3, <2>1
    <3> QED BY <3>1
  <2> QED BY <1>2, <1>3, <2>1
<1> QED BY <1>1, <1>2, <1>3

\* While nobody has the lock, a TLB offers what the entry has.
LEMMA OfferCurrent ==
    ASSUME NEW c \in CPUs, NEW a \in Spaces, TlbOK(c, a)', EntryOK(a)', vm'[a].lock = None
    PROVE  OfferOK(c, a)'
<1> SUFFICES ASSUME cpu'[c].cr3 = a, vm'[a].alive, cpu'[c].tlb # NoEntry
             PROVE  /\ cpu'[c].tlb.pg = vm'[a].pte.pg
                    /\ cpu'[c].tlb.w /\ ~Shared' =>
                         /\ cpu'[c].tlb.pg \in Frames
                         /\ \A b \in Spaces \ {a} : vm'[b].pte.pg # cpu'[c].tlb.pg
  BY DEF OfferOK
<1>1. cpu'[c].tlb.pg = vm'[a].pte.pg /\ (cpu'[c].tlb.w => "W" \in vm'[a].pte.flags)
  BY DEF TlbOK, Current
<1> QED BY <1>1 DEF EntryOK, FlagsOK, Owner

\* What a thread that copies a page relies on.
LEMMA CopyStep ==
    ASSUME CoreInv, NEW u \in Threads, CopyOK(u), mtype' = mtype,
           th'[u].pc = "insert" => /\ th[u].pc = "insert" /\ th'[u].new = th[u].new
                                   /\ vm'[Home[u]].pte = vm[Home[u]].pte
                                   /\ view'[Home[u]] = view[Home[u]]
                                   /\ pg'[th[u].new].val = pg[th[u].new].val,
           th'[u].pc = "stack" =>
             /\ th[u].pc = "stack" /\ th'[u].child = th[u].child
             /\ vm'[Home[u]].pte = vm[Home[u]].pte
             /\ vm[Home[u]].pte.pg \in Frames =>
                  \A b \in Spaces \ {Home[u], th[u].child} :
                     vm'[b].pte.pg = vm[Home[u]].pte.pg => vm[b].pte.pg = vm[Home[u]].pte.pg
    PROVE  CopyOK(u)'
<1>1. Shared' = Shared
  BY DEF Shared
<1>2. (th[u].pc = "insert" => /\ ~Shared /\ "W" \notin vm[Home[u]].pte.flags
                              /\ pg[th[u].new].val = view[Home[u]])'
  BY <1>1 DEF CopyOK
<1>3. (th[u].pc = "stack" =>
         /\ mtype = "anon"
         /\ vm[Home[u]].pte.pg \in Frames
         /\ \A b \in Spaces \ {Home[u], th[u].child} : vm[b].pte.pg # vm[Home[u]].pte.pg)'
  BY DEF CopyOK
<1> QED BY <1>2, <1>3 DEF CopyOK

\* Pages that are of use keep their contents.
KeptVals == \A x \in Pages :
               (x \in {Zero, File}) \/ (\E a \in Spaces : vm[a].pte.pg = x)
                                    \/ (\E u \in Threads : th[u].new = x) =>
                 pg'[x].val = pg[x].val

\* A step after which the entries are as before, but that some address spaces may
\* have gone.
LEMMA SameEntries ==
    ASSUME CoreInv, ContentsInv, CoreInv', UNCHANGED <<mtype, view>>, KeptVals,
           \A a \in Spaces : \/ SameSpace(a)
                             \/ ~vm'[a].alive /\ ~vm'[a].mapped /\ vm'[a].pte = NoPte
                             \/ /\ vm'[a].alive /\ vm[a].alive /\ vm'[a].mapped = vm[a].mapped
                                /\ vm'[a].pte = vm[a].pte,
           \A c \in CPUs, a \in Spaces :
              \/ OfferOK(c, a)'
              \/ /\ cpu'[c] = cpu[c] \/ cpu'[c].tlb = NoEntry
                 /\ \A t \in Threads : Home[t] = a => /\ th[t].old => th'[t].old
                                                      /\ th'[t].child = th[t].child,
           \A u \in Threads :
              \/ CopyOK(u)'
              \/ /\ th'[u].pc = "insert" => th[u].pc = "insert" /\ th'[u].new = th[u].new
                 /\ th'[u].pc = "stack" => th[u].pc = "stack" /\ th'[u].child = th[u].child
    PROVE  ContentsInv'
<1> USE DEF ContentsInv
<1>1. \A a \in Spaces : /\ vm[a] \in AsRecs /\ vm[a].pte \in Ptes
                        /\ \/ /\ vm'[a].pte = vm[a].pte /\ vm'[a].mapped = vm[a].mapped
                              /\ vm'[a].alive = vm[a].alive
                           \/ ~vm'[a].alive /\ ~vm'[a].mapped /\ vm'[a].pte = NoPte
  <2>1. \A a \in Spaces : vm[a] \in AsRecs /\ vm'[a] \in AsRecs
    BY StateTypes, StateTypesNext DEF CoreInv
  <2> QED BY <2>1, AsType DEF SameSpace
<1>2. NoPte.pg = None /\ \A a \in Spaces : vm'[a].alive => vm'[a].pte = vm[a].pte
  BY <1>1, NoPteFacts
<1>3. ZerosOK'
  BY NoneApart DEF ZerosOK, KeptVals, Shared, Pages
<1>4. EntriesOK'
  <2> SUFFICES ASSUME NEW a \in Spaces PROVE EntryOK(a)'
    BY DEF EntriesOK
  <2>1. CASE ~vm'[a].alive /\ ~vm'[a].mapped /\ vm'[a].pte = NoPte
    BY <2>1, EntryGone
  <2>2. CASE vm'[a].pte = vm[a].pte /\ vm'[a].mapped = vm[a].mapped /\ vm'[a].alive = vm[a].alive
    <3>1. pg'[Source(vm[a].pte)].val = pg[Source(vm[a].pte)].val
      BY <1>1, SourceFacts DEF KeptVals
    <3>2. EntryOK(a) /\ view'[a] = view[a]
      BY DEF EntriesOK
    <3>3. ASSUME "W" \in vm[a].pte.flags, NEW b \in Spaces \ {a},
                 vm'[b].pte.pg = vm[a].pte.pg
          PROVE  vm[b].pte.pg = vm[a].pte.pg
      <4>1. vm[a].pte.pg # None
        BY <1>1, <3>3, PteType
      <4> QED BY <1>1, <1>2, <3>3, <4>1
    <3> QED BY <2>2, <3>1, <3>2, <3>3, EntryStep
  <2> QED BY <1>1, <2>1, <2>2
<1>5. CommonOK'
  BY <1>1 DEF CommonOK
<1>6. OffersOK'
  <2> SUFFICES ASSUME NEW c \in CPUs, NEW a \in Spaces, ~OfferOK(c, a)' PROVE FALSE
    BY DEF OffersOK
  <2>1. OfferOK(c, a)
    BY DEF OffersOK
  <2>2. /\ cpu'[c] = cpu[c] \/ cpu'[c].tlb = NoEntry
        /\ \A t \in Threads : Home[t] = a => /\ th[t].old => th'[t].old
                                             /\ th'[t].child = th[t].child
    OBVIOUS
  <2>3. Replacing(a) => Replacing(a)'
    BY <2>2 DEF Replacing
  <2>4. \A b \in Spaces \ {a} : vm[a].pte.pg \in Frames /\ vm'[b].pte.pg = vm[a].pte.pg =>
                                  vm[b].pte.pg = vm[a].pte.pg
    BY <1>1, <1>2, NoneApart
  <2>5. vm'[a].alive => vm[a].alive /\ vm'[a].pte.pg = vm[a].pte.pg
    BY <1>1
  <2>6. \A t \in Threads, b \in Spaces : Home[t] = a /\ th[t].child = b => th'[t].child = b
    BY <2>2
  <2>7. mtype' = mtype
    OBVIOUS
  <2> QED BY <2>1, <2>2, <2>3, <2>4, <2>5, <2>6, <2>7, OfferStep
<1>7. CopiesOK'
  <2> SUFFICES ASSUME NEW u \in Threads, ~CopyOK(u)' PROVE FALSE
    BY DEF CopiesOK
  <2>1. CopyOK(u) /\ Home[u] \in Spaces
    BY StateTypes DEF CopiesOK, CoreInv
  <2>2. /\ th'[u].pc = "insert" => th[u].pc = "insert" /\ th'[u].new = th[u].new
        /\ th'[u].pc = "stack" => th[u].pc = "stack" /\ th'[u].child = th[u].child
    OBVIOUS
  <2>3. th'[u].pc \in {"insert", "stack"} => vm'[Home[u]].alive
    BY DEF CoreInv, ThreadsInv, ThreadOK
  <2>4. th'[u].pc = "insert" => pg'[th[u].new].val = pg[th[u].new].val
    <3> SUFFICES ASSUME th'[u].pc = "insert" PROVE pg'[th[u].new].val = pg[th[u].new].val
      OBVIOUS
    <3>1. th[u].new # None
      BY <2>2 DEF CoreInv, ThreadsInv, ThreadOK, LocalOK
    <3>2. th[u].new \in Pages
      BY <3>1, NewUnused
    <3> QED BY <3>2 DEF KeptVals
  <2>5. \A b \in Spaces : vm[Home[u]].pte.pg \in Frames /\ vm'[b].pte.pg = vm[Home[u]].pte.pg =>
                            vm[b].pte.pg = vm[Home[u]].pte.pg
    BY <1>1, <1>2, NoneApart
  <2>6. mtype' = mtype /\ view'[Home[u]] = view[Home[u]]
    OBVIOUS
  <2> QED BY <1>2, <2>1, <2>2, <2>3, <2>4, <2>5, <2>6, CopyStep
<1> QED BY <1>3, <1>4, <1>5, <1>6, <1>7

\* A step in which a thread changes the entry of its own address space.
LEMMA OneEntry ==
    ASSUME CoreInv, ContentsInv, UNCHANGED <<cpu, mtype, view>>, SameVals,
           NEW t \in Threads, Others(t), th[t].pc # "none", vm[Home[t]].lock \in {None, t},
           th[t].child = None, th'[t].pc \notin {"insert", "stack"},
           \A a \in Spaces \ {Home[t]} : SameSpace(a),
           \/ vm'[Home[t]].pte.pg \in {vm[Home[t]].pte.pg, None, Zero, File}
           \/ \A a \in Spaces : vm[a].pte.pg # vm'[Home[t]].pte.pg,
           mtype = "shareanon" /\ vm'[Home[t]].mapped =>
              vm[Home[t]].mapped /\ vm'[Home[t]].pte.pg = vm[Home[t]].pte.pg,
           EntryOK(Home[t])', \A c \in CPUs : OfferOK(c, Home[t])'
    PROVE  ContentsInv'
<1> USE DEF ContentsInv
<1> DEFINE h == Home[t]
<1>1. /\ h \in Spaces
      /\ \A a \in Spaces : vm[a].pte \in Ptes /\ vm[a].lock \in Threads \cup {None}
  BY StateTypes, AsType DEF CoreInv
\* Nobody else's page of his own gets into the entry.
<1>2. \A a \in Spaces \ {h} : vm[a].pte.pg \in Frames /\ vm'[h].pte.pg = vm[a].pte.pg =>
                                vm[h].pte.pg = vm[a].pte.pg
  BY NoneApart
<1>3. \A a \in Spaces \ {h} : \A b \in Spaces : vm[a].pte.pg \in Frames /\ vm'[b].pte.pg = vm[a].pte.pg =>
                                vm[b].pte.pg = vm[a].pte.pg
  BY <1>2 DEF SameSpace
<1>4. ZerosOK'
  BY NoneApart DEF ZerosOK, SameVals, Shared, Pages
<1>5. EntriesOK'
  <2> SUFFICES ASSUME NEW a \in Spaces, a # h PROVE EntryOK(a)'
    BY DEF EntriesOK
  <2>1. EntryOK(a) /\ SameSpace(a) /\ view'[a] = view[a]
    BY DEF EntriesOK
  <2>2. pg'[Source(vm[a].pte)].val = pg[Source(vm[a].pte)].val
    BY <1>1, SourceFacts DEF SameVals
  <2>3. "W" \in vm[a].pte.flags /\ ~Shared => vm[a].pte.pg \in Frames
    BY <2>1 DEF EntryOK, FlagsOK
  <2>4. mtype' = mtype
    OBVIOUS
  <2>5. /\ vm'[a].pte = vm[a].pte /\ vm'[a].mapped = vm[a].mapped
        /\ vm'[a].alive => vm[a].alive
    BY <2>1 DEF SameSpace
  <2>6. "W" \in vm[a].pte.flags /\ ~Shared => \A b \in Spaces \ {a} :
           vm'[b].pte.pg = vm[a].pte.pg => vm[b].pte.pg = vm[a].pte.pg
    BY <1>3, <2>3
  <2> QED BY <2>1, <2>2, <2>4, <2>5, <2>6, EntryStep
<1>6. CommonOK'
  BY <1>1 DEF CommonOK, SameSpace
<1>7. OffersOK'
  <2> SUFFICES ASSUME NEW c \in CPUs, NEW a \in Spaces, a # h PROVE OfferOK(c, a)'
    BY DEF OffersOK
  <2>1. OfferOK(c, a) /\ SameSpace(a) /\ cpu'[c] = cpu[c] /\ mtype' = mtype
    BY DEF OffersOK
  <2>2. \A u \in Threads : Home[u] = a => th'[u] = th[u]
    BY DEF Others
  <2>3. Replacing(a) => Replacing(a)'
    BY <2>2 DEF Replacing
  <2> QED BY <1>3, <2>1, <2>2, <2>3, OfferStep DEF SameSpace
<1>8. CopiesOK'
  <2> SUFFICES ASSUME NEW u \in Threads PROVE CopyOK(u)'
    BY DEF CopiesOK
  <2>1. CASE th'[u].pc \in {"insert", "stack"}
    <3>1. u # t /\ th'[u] = th[u]
      BY <2>1 DEF Others
    <3>2. Home[u] \in Spaces /\ vm[Home[u]].lock = u
      BY <2>1, <3>1, StateTypes DEF CoreInv, ThreadsInv, ThreadOK, Busy
    <3>3. Home[u] # h
      BY <3>1, <3>2, NoneApart
    <3>4. CopyOK(u) /\ SameSpace(Home[u])
      BY <3>2, <3>3 DEF CopiesOK
    <3>5. th[u].pc = "insert" => pg'[th[u].new].val = pg[th[u].new].val
      <4> SUFFICES ASSUME th[u].pc = "insert" PROVE pg'[th[u].new].val = pg[th[u].new].val
        OBVIOUS
      <4>1. th[u].new # None
        BY DEF CoreInv, ThreadsInv, ThreadOK, LocalOK
      <4> QED BY <4>1, NewUnused DEF SameVals
    <3>6. mtype' = mtype /\ view'[Home[u]] = view[Home[u]]
      OBVIOUS
    <3>7. vm'[Home[u]].pte = vm[Home[u]].pte
      BY <3>4 DEF SameSpace
    <3>8. vm[Home[u]].pte.pg \in Frames => \A b \in Spaces :
             vm'[b].pte.pg = vm[Home[u]].pte.pg => vm[b].pte.pg = vm[Home[u]].pte.pg
      BY <1>3, <3>2, <3>3
    <3> QED BY <3>1, <3>4, <3>5, <3>6, <3>7, <3>8, CopyStep
  <2>2. CASE th'[u].pc \notin {"insert", "stack"}
    BY <2>2 DEF CopyOK
  <2> QED BY <2>1, <2>2
<1> QED BY <1>4, <1>5, <1>6, <1>7, <1>8

\* The first fault on a page.
LEMMA FillContents ==
    ASSUME CoreInv, ContentsInv, CoreInv', TlbInv', NEW t \in Threads,
           PgfaultShared(t) \/ PgfaultRead(t)
    PROVE  ContentsInv'
<1> DEFINE h == Home[t]
<1>1. /\ vm[h].mapped /\ vm[h].lock = None /\ vm[h].pte = NoPte
      /\ vm'[h].alive /\ vm'[h].mapped /\ vm'[h].lock = None
      /\ \A a \in Spaces \ {h} : SameSpace(a)
      /\ SameVals /\ Others(t) /\ Idle(th'[t]) /\ UNCHANGED <<cpu, mtype, view>>
  BY FillEffect
<1>2. th[t].pc = "trap"
  BY DEF PgfaultShared, PgfaultRead, Private, Fault, At
<1>3. h \in Spaces /\ vm[h].alive /\ th[t].child = None
  BY <1>2, Faulting
<1>4. PICK g \in {Zero, File}, f \in {{"W"}, {"COW"}} :
        /\ vm'[h].pte = Pte(g, f)
        /\ \/ mtype = "sharefile" /\ g = File /\ f = {"W"}
           \/ mtype = "anon" /\ g = Zero /\ f = {"COW"}
           \/ mtype = "file" /\ g = File /\ f = {"COW"}
  BY FillEffect
<1>5. vm'[h].pte.pg = g /\ vm'[h].pte.flags = f /\ Present(vm'[h].pte) /\ g \in Pages
  BY <1>4, MakePte, NoneApart DEF Flags, Pages
<1>6. pg'[g].val = view'[h]
  <2>1. Source(NoPte) = g
    BY <1>4, NoPteFacts DEF Source
  <2>2. pg[Source(vm[h].pte)].val = view[h]
    BY <1>1, <1>3 DEF ContentsInv, EntriesOK, EntryOK
  <2>3. pg[g].val = view[h]
    BY <1>1, <2>1, <2>2
  <2> QED BY <1>1, <1>5, <2>3 DEF SameVals
<1>7. EntryOK(h)'
  <2>1. (Source(vm[h].pte) = g)'
    BY <1>5 DEF Source, Present
  <2>2. FlagsOK(vm[h].pte)'
    BY <1>1, <1>4, <1>5 DEF FlagsOK, Shared
  <2>3. ~("W" \in vm[h].pte.flags /\ ~Shared)'
    BY <1>1, <1>4, <1>5 DEF Shared
  <2>4. (pg[Source(vm[h].pte)].val = view[h])'
    BY <1>6, <2>1
  <2> QED BY <1>5, <2>2, <2>3, <2>4 DEF EntryOK, Present
<1>8. \A c \in CPUs : OfferOK(c, h)'
  BY <1>1, <1>3, <1>7, OfferCurrent DEF TlbInv
<1>9. ~(mtype = "shareanon") /\ th'[t].pc \notin {"insert", "stack"}
  BY <1>1, <1>4 DEF Idle
<1> QED BY <1>1, <1>2, <1>3, <1>5, <1>7, <1>8, <1>9, OneEntry

\* A page that is counted once is of one address space only, and no page of the
\* file and not the zero page.
LEMMA SingleUser ==
    ASSUME CoreInv, NEW a \in Spaces, NEW g \in Pages, vm[a].pte.pg = g, pg[g].ref = 1
    PROVE  g \in Frames /\ Owner(a, g)
<1> DEFINE S == {b \in Spaces : vm[b].pte.pg = g}
<1>1. pg[g].ref = Cardinality(S) + (IF g \in {Zero, File} THEN 1 ELSE 0)
  BY DEF CoreInv, RefsCounted, PagesCounted
<1>2. IsFiniteSet(S) /\ a \in S
  BY FS_Subset, VmAssumption
<1>3. Cardinality(S) \in Nat /\ Cardinality(S) # 0
  BY <1>2, FS_CardinalityType, FS_EmptySet
<1>4. \A b \in Spaces : vm[b].pte.pg = g => b \in S
  OBVIOUS
<1> HIDE DEF S
<1>5. g \notin {Zero, File} /\ Cardinality(S) <= 1
  BY <1>1, <1>3
<1>6. Owner(a, g)
  BY <1>2, <1>4, <1>5, AtMostOne DEF Owner
<1> QED BY <1>5, <1>6 DEF Pages

\* A fault that claims the page keeps the invariant of the contents.
LEMMA ClaimContents ==
    ASSUME CoreInv, ContentsInv, NEW t \in Threads, PgfaultClaim(t)
    PROVE  ContentsInv'
<1> DEFINE h == Home[t]
<1>0. PICK g \in Pages : g = vm[h].pte.pg
  BY ClaimEffect, StateTypes, AsType, PteType DEF CoreInv
<1>1. /\ vm[h].mapped /\ vm[h].lock = None
      /\ mtype = "anon" /\ pg[g].ref = 1 /\ Present(vm[h].pte)
      /\ vm'[h].alive /\ vm'[h].mapped /\ vm'[h].lock = t
      /\ vm'[h].pte = Writable(g)
      /\ \A a \in Spaces \ {h} : SameSpace(a)
      /\ Others(t) /\ th'[t].pc = "flush" /\ ~th'[t].old
      /\ th'[t].child = None /\ th[t].child = None
      /\ UNCHANGED <<pg, cpu, mtype, view>>
  BY <1>0, ClaimEffect
<1>2. th[t].pc = "trap"
  BY DEF PgfaultClaim, Private, Fault, At
<1>3. h \in Spaces /\ vm[h].alive
  BY <1>2, Faulting
<1>4. g \in Frames /\ Owner(h, g)
  BY <1>0, <1>1, <1>3, SingleUser
<1>5. /\ vm'[h].pte.pg = g /\ vm'[h].pte.flags = {"W", "WASCOW"} /\ Present(vm'[h].pte)
  BY <1>1, WritableFacts
<1>6. pg'[g].val = view'[h]
  <2>1. pg[Source(vm[h].pte)].val = view[h]
    BY <1>1, <1>3 DEF ContentsInv, EntriesOK, EntryOK
  <2> QED BY <1>0, <1>1, <2>1 DEF Source
<1>7. EntryOK(h)'
  <2>1. (Source(vm[h].pte) = g)'
    BY <1>5 DEF Source, Present
  <2>2. FlagsOK(vm[h].pte)'
    BY <1>1, <1>4, <1>5 DEF FlagsOK
  <2>3. Owner(h, g)'
    BY <1>1, <1>4 DEF Owner, SameSpace
  <2>4. (pg[Source(vm[h].pte)].val = view[h])'
    BY <1>6, <2>1
  <2>5. Owner(h, vm[h].pte.pg)'
    BY <1>5, <2>3 DEF Owner
  <2> QED BY <1>5, <2>2, <2>4, <2>5 DEF EntryOK, Present
<1>8. ASSUME NEW c \in CPUs PROVE OfferOK(c, h)'
  <2>1. OfferOK(c, h) /\ cpu'[c] = cpu[c] /\ mtype' = mtype
    BY <1>1, <1>3 DEF ContentsInv, OffersOK
  <2>2. ~Replacing(h)
    BY <1>1, <1>3, ReplacingLocked, NoneApart
  <2>3. \A u \in Threads, b \in Spaces : Home[u] = h /\ th[u].child = b => th'[u].child = b
    BY <1>1 DEF Others
  <2>4. \A b \in Spaces \ {h} : vm'[b].pte.pg = vm[b].pte.pg
    BY <1>1 DEF SameSpace
  <2> QED BY <1>0, <1>3, <1>5, <2>1, <2>2, <2>3, <2>4, OfferStep
<1>9. SameVals
  BY <1>1 DEF SameVals
<1> QED BY <1>0, <1>1, <1>2, <1>5, <1>7, <1>8, <1>9, OneEntry

\* The insertion of the copy keeps the invariant of the contents.
LEMMA InsertContents ==
    ASSUME CoreInv, ContentsInv, CoreInv', TlbInv', NEW t \in Threads, Page_insert(t)
    PROVE  ContentsInv'
<1> DEFINE h == Home[t]
<1>0. PICK g \in Frames : g = th[t].new
  BY InsertEffect
<1>1. /\ th[t].pc = "insert"
      /\ vm[h].alive /\ vm[h].mapped /\ vm[h].lock = t
      /\ vm'[h].alive /\ vm'[h].mapped
      /\ vm'[h].pte = Writable(g)
      /\ \A a \in Spaces : vm[a].pte.pg # g
      /\ \A a \in Spaces \ {h} : SameSpace(a)
      /\ Others(t) /\ th[t].child = None /\ ~th[t].old
      /\ SameVals /\ UNCHANGED <<cpu, mtype, view>>
  BY <1>0, InsertEffect
<1>2. \/ vm'[h].lock = t /\ th'[t].pc = "flush" /\ th'[t].old
      \/ vm'[h].lock = None /\ Idle(th'[t])
  BY InsertEffect
<1>3. h \in Spaces /\ g \in Pages
  BY StateTypes, NoneApart DEF CoreInv
<1>4. ~Shared /\ pg[g].val = view[h]
  BY <1>0, <1>1 DEF ContentsInv, CopiesOK, CopyOK
<1>5. /\ vm'[h].pte.pg = g /\ vm'[h].pte.flags = {"W", "WASCOW"} /\ Present(vm'[h].pte)
  BY <1>1, <1>3, WritableFacts
<1>6. EntryOK(h)'
  <2>1. (Source(vm[h].pte) = g)'
    BY <1>5 DEF Source, Present
  <2>2. FlagsOK(vm[h].pte)'
    BY <1>0, <1>1, <1>4, <1>5 DEF FlagsOK, Shared
  <2>3. Owner(h, vm[h].pte.pg)'
    BY <1>1, <1>5 DEF Owner, SameSpace
  <2>4. (pg[Source(vm[h].pte)].val = view[h])'
    BY <1>1, <1>3, <1>4, <2>1 DEF SameVals
  <2> QED BY <1>5, <2>2, <2>3, <2>4 DEF EntryOK, Present
<1>7. ASSUME NEW c \in CPUs PROVE OfferOK(c, h)'
  <2>1. CASE th'[t].old
    BY <2>1 DEF OfferOK, Replacing
  <2>2. CASE vm'[h].lock = None
    BY <1>3, <1>6, <2>2, OfferCurrent DEF TlbInv
  <2> QED BY <1>2, <2>1, <2>2
<1>8. mtype # "shareanon" /\ th'[t].pc \notin {"insert", "stack"}
  BY <1>2, <1>4 DEF Shared, Idle
<1> QED BY <1>1, <1>5, <1>6, <1>7, <1>8, OneEntry

\* Munmap keeps the invariant of the contents.
LEMMA MunmapContents ==
    ASSUME CoreInv, ContentsInv, NEW t \in Threads, Munmap(t), vm[Home[t]].mapped
    PROVE  ContentsInv'
<1> DEFINE h == Home[t]
<1>1. /\ th[t].pc = "user" /\ vm[h].lock = None
      /\ ~vm'[h].mapped /\ vm'[h].pte = NoPte
      /\ \A a \in Spaces \ {h} : SameSpace(a)
      /\ Others(t) /\ th'[t].pc = "flush" /\ th'[t].old
      /\ th[t].child = None
      /\ SameVals /\ UNCHANGED <<cpu, mtype, view>>
  BY MunmapEffect
<1>2. vm'[h].pte.pg = None /\ "W" \notin vm'[h].pte.flags /\ ~Present(vm'[h].pte)
  BY <1>1, NoPteFacts
<1>3. EntryOK(h)'
  <2>1. FlagsOK(vm[h].pte)'
    BY <1>2 DEF FlagsOK, Present
  <2> QED BY <1>1, <1>2, <2>1 DEF EntryOK
<1>4. \A c \in CPUs : OfferOK(c, h)'
  BY <1>1 DEF OfferOK, Replacing
<1> QED BY <1>1, <1>2, <1>3, <1>4, OneEntry

\* Steps that change no entry.
LEMMA QuietContents ==
    ASSUME CoreInv, ContentsInv, CoreInv', NEW t \in Threads, Quiet(t)
    PROVE  ContentsInv'
<1>1. /\ \A a \in Spaces : SameSpace(a)
      /\ Others(t) /\ th'[t].pc \notin Busy
      /\ th[t].child = None /\ ~th[t].old /\ th'[t].child = None
      /\ UNCHANGED <<pg, mtype, view>>
      /\ \A c \in CPUs : cpu'[c] = cpu[c] \/ cpu'[c].tlb = NoEntry
  BY QuietEffect
<1>2. KeptVals
  BY <1>1 DEF KeptVals
<1>3. \A u \in Threads : /\ (th[u].old => th'[u].old) /\ th'[u].child = th[u].child
                         /\ th'[u].pc = "insert" => th[u].pc = "insert" /\ th'[u].new = th[u].new
                         /\ th'[u].pc = "stack" => th[u].pc = "stack" /\ th'[u].child = th[u].child
  BY <1>1 DEF Others, Busy
<1> QED BY <1>1, <1>2, <1>3, SameEntries

\* The start of a shootdown keeps the invariant of the contents.
LEMMA ShootdownContents ==
    ASSUME CoreInv, ContentsInv, CoreInv', NEW t \in Threads, NEW k \in CPUs, tlb_shootdown(t, k)
    PROVE  ContentsInv'
<1>1. th[t] \in ThRecs /\ th \in [Threads -> ThRecs] /\ UNCHANGED <<pg, vm, cpu, mtype, view>>
  BY DEF CoreInv, TypeOK, tlb_shootdown
<1>2. /\ th'[t].pc = "shoot" /\ th'[t].old = th[t].old /\ th'[t].child = th[t].child
      /\ Others(t)
  BY <1>1 DEF tlb_shootdown, Others, ThRecs
<1>3. KeptVals
  BY <1>1 DEF KeptVals
<1>4. \A a \in Spaces : SameSpace(a)
  BY <1>1 DEF SameSpace
<1>5. \A u \in Threads : /\ (th[u].old => th'[u].old) /\ th'[u].child = th[u].child
                         /\ th'[u].pc = "insert" => th[u].pc = "insert" /\ th'[u].new = th[u].new
                         /\ th'[u].pc = "stack" => th[u].pc = "stack" /\ th'[u].child = th[u].child
  BY <1>2 DEF Others
<1> QED BY <1>1, <1>3, <1>4, <1>5, SameEntries

\* The interrupt of a shootdown keeps the invariant of the contents.
LEMMA TlbInterruptContents ==
    ASSUME CoreInv, ContentsInv, CoreInv', NEW k \in CPUs, TlbInterrupt(k)
    PROVE  ContentsInv'
<1>1. UNCHANGED <<pg, vm, mtype, view>>
  BY DEF TlbInterrupt
<1>2. \A c \in CPUs : cpu'[c] = cpu[c] \/ cpu'[c].tlb = NoEntry
  BY FlushSame DEF TlbInterrupt
<1>3. KeptVals
  BY <1>1 DEF KeptVals
<1>4. \A a \in Spaces : SameSpace(a)
  BY <1>1 DEF SameSpace
<1>5. ASSUME NEW u \in Threads
      PROVE  /\ (th[u].old => th'[u].old) /\ th'[u].child = th[u].child
             /\ th'[u].pc = "insert" => th[u].pc = "insert" /\ th'[u].new = th[u].new
             /\ th'[u].pc = "stack" => th[u].pc = "stack" /\ th'[u].child = th[u].child
  <2>1. th[u] \in ThRecs /\ LocalOK(th[u])
    BY StateTypes DEF CoreInv, ThreadsInv, ThreadOK
  <2>2. CASE th[u].pc = "shoot"
    <3>1. th'[u] = [th[u] EXCEPT !.stale = th[u].stale \ {k}]
      BY <2>2 DEF TlbInterrupt
    <3> QED BY <2>1, <2>2, <3>1 DEF ThRecs
  <2>3. CASE th[u].pc = "user" /\ th[u].cpu = k
    <3>1. th'[u] = Back(th[u]) /\ th[u].child = None /\ ~th[u].old
      BY <2>1, <2>3 DEF TlbInterrupt, LocalOK
    <3> QED BY <2>1, <2>3, <3>1, ThType
  <2>4. CASE th[u].pc # "shoot" /\ ~(th[u].pc = "user" /\ th[u].cpu = k)
    BY <2>4 DEF TlbInterrupt
  <2> QED BY <2>2, <2>3, <2>4
<1> QED BY <1>1, <1>2, <1>3, <1>4, <1>5, SameEntries

\* A TLB fill keeps the invariant of the contents.
LEMMA UserFillContents ==
    ASSUME CoreInv, ContentsInv, CoreInv', NEW t \in Threads, UserFill(t)
    PROVE  ContentsInv'
<1> DEFINE h == Home[t]
<1>0. PICK k \in CPUs : k = th[t].cpu
  BY UserCpu DEF UserFill, User, At
<1>1. UNCHANGED <<pg, vm, th, mtype, view>> /\ h \in Spaces
      /\ vm[h].pte \in Ptes /\ Present(vm[h].pte) /\ cpu[k].cr3 = h
  BY <1>0, StateTypes, AsType DEF UserFill, User, At, CoreInv, ThreadsInv, ThreadOK, Space
<1>2. /\ cpu'[k].cr3 = h /\ cpu'[k].tlb = Entry(vm[h].pte)
      /\ \A c \in CPUs \ {k} : cpu'[c] = cpu[c]
  <2> DEFINE e == Entry(vm[h].pte)
  <2>1. cpu \in [CPUs -> CpuRecs] /\ cpu' = [cpu EXCEPT ![k].tlb = e]
    BY <1>0 DEF UserFill, CoreInv, TypeOK, Space
  <2> HIDE DEF e
  <2>2. cpu'[k].cr3 = h /\ cpu'[k].tlb = e /\ \A c \in CPUs \ {k} : cpu'[c] = cpu[c]
    BY <1>1, <2>1 DEF CpuRecs
  <2> QED BY <2>2 DEF e
<1>3. cpu'[k].tlb.pg = vm[h].pte.pg /\ (cpu'[k].tlb.w => "W" \in vm[h].pte.flags)
  BY <1>1, <1>2, EntryFacts
<1>4. EntryOK(h)
  BY <1>1 DEF ContentsInv, EntriesOK
<1>5. \A a \in Spaces : OfferOK(k, a)'
  <2>1. OfferOK(k, h)'
    BY <1>1, <1>3, <1>4 DEF OfferOK, EntryOK, FlagsOK, Owner, Shared
  <2> QED BY <1>2, <2>1 DEF OfferOK
<1>6. KeptVals /\ \A a \in Spaces : SameSpace(a)
  BY <1>1 DEF KeptVals, SameSpace
<1>7. \A c \in CPUs, a \in Spaces : OfferOK(c, a)' \/ cpu'[c] = cpu[c]
  BY <1>2, <1>5
<1>8. \A u \in Threads : th'[u] = th[u]
  BY <1>1
<1> QED BY <1>1, <1>6, <1>7, <1>8, SameEntries

\* The end of a process keeps the invariant of the contents.
LEMMA RunDieContents ==
    ASSUME CoreInv, ContentsInv, CoreInv', NEW t \in Threads, RunDie(t)
    PROVE  ContentsInv'
<1>1. /\ \A a \in Spaces : \/ SameSpace(a)
                           \/ ~vm'[a].alive /\ ~vm'[a].mapped /\ vm'[a].pte = NoPte
      /\ Others(t) /\ Idle(th'[t]) /\ th[t].child = None /\ ~th[t].old
      /\ SameVals /\ UNCHANGED <<cpu, mtype, view>>
  BY DieEffect
<1>2. KeptVals
  BY <1>1 DEF KeptVals, SameVals
<1>3. \A u \in Threads : /\ (th[u].old => th'[u].old) /\ th'[u].child = th[u].child
                         /\ th'[u].pc = "insert" => th[u].pc = "insert" /\ th'[u].new = th[u].new
                         /\ th'[u].pc = "stack" => th[u].pc = "stack" /\ th'[u].child = th[u].child
  BY <1>1 DEF Others, Idle
<1> QED BY <1>1, <1>2, <1>3, SameEntries

\* At the end of a call the TLBs are right because they are current.
LEMMA DoneContents ==
    ASSUME CoreInv, ContentsInv, CoreInv', TlbInv', NEW t \in Threads,
           th[t].pc \in {"flush", "shoot"}, Done(t, vm), UNCHANGED <<mtype, view>>,
           \A c \in CPUs : cpu'[c] = cpu[c] \/ cpu'[c].tlb = NoEntry
    PROVE  ContentsInv'
<1> DEFINE h == Home[t]
<1>1. /\ h \in Spaces /\ vm'[h].lock = None
      /\ vm[h].alive /\ vm'[h].alive
      /\ vm'[h].mapped = vm[h].mapped /\ vm'[h].pte = vm[h].pte
      /\ \A a \in Spaces \ {h} :
           SameSpace(a) \/ (~vm'[a].alive /\ ~vm'[a].mapped /\ vm'[a].pte = NoPte)
      /\ \A u \in Threads \ {t} :
           \/ th'[u] = th[u]
           \/ /\ th[u].pc = "none" /\ th'[u].pc = "run" /\ th'[u].child = None
      /\ Idle(th'[t]) /\ SameVals
  BY DoneEffect, StateTypes DEF CoreInv
<1>2. KeptVals
  BY <1>1 DEF KeptVals, SameVals
<1>3. \A u \in Threads \ {t} : /\ (th[u].old => th'[u].old) /\ th'[u].child = th[u].child
                               /\ th'[u].pc = "insert" => th[u].pc = "insert" /\ th'[u].new = th[u].new
                               /\ th'[u].pc = "stack" => th[u].pc = "stack"
  <2>1. \A u \in Threads : th[u].pc = "none" => th[u].child = None /\ ~th[u].old
    BY DEF CoreInv, ThreadsInv, ThreadOK, LocalOK
  <2> QED BY <1>1, <2>1
<1>4. EntryOK(h)'
  <2>1. EntryOK(h) /\ view'[h] = view[h] /\ vm[h].pte \in Ptes /\ mtype' = mtype
    BY <1>1, StateTypes, AsType DEF ContentsInv, EntriesOK, CoreInv
  <2>2. pg'[Source(vm[h].pte)].val = pg[Source(vm[h].pte)].val
    BY <1>1, <2>1, SourceFacts DEF SameVals
  <2>3. \A b \in Spaces \ {h} : "W" \in vm[h].pte.flags /\ vm'[b].pte.pg = vm[h].pte.pg =>
                                  vm[b].pte.pg = vm[h].pte.pg
    BY <1>1, <2>1, PteType, NoPteFacts DEF SameSpace
  <2> QED BY <1>1, <2>1, <2>2, <2>3, EntryStep
<1>5. \A c \in CPUs : OfferOK(c, h)'
  BY <1>1, <1>4, OfferCurrent DEF TlbInv
<1>6. CopyOK(t)'
  BY <1>1 DEF CopyOK, Idle
<1>7. \A c \in CPUs, a \in Spaces :
         \/ OfferOK(c, a)'
         \/ /\ cpu'[c] = cpu[c] \/ cpu'[c].tlb = NoEntry
            /\ \A u \in Threads : Home[u] = a => /\ th[u].old => th'[u].old
                                                 /\ th'[u].child = th[u].child
  BY <1>3, <1>5
<1>8. \A u \in Threads :
         \/ CopyOK(u)'
         \/ /\ th'[u].pc = "insert" => th[u].pc = "insert" /\ th'[u].new = th[u].new
            /\ th'[u].pc = "stack" => th[u].pc = "stack" /\ th'[u].child = th[u].child
  BY <1>3, <1>6
<1>9. \A a \in Spaces : \/ SameSpace(a)
                        \/ ~vm'[a].alive /\ ~vm'[a].mapped /\ vm'[a].pte = NoPte
                        \/ /\ vm'[a].alive /\ vm[a].alive /\ vm'[a].mapped = vm[a].mapped
                           /\ vm'[a].pte = vm[a].pte
  BY <1>1
<1> QED BY <1>2, <1>7, <1>8, <1>9, SameEntries

\* A page is copied to one that nobody uses.
LEMMA CopyContents ==
    ASSUME CoreInv, ContentsInv, CoreInv', NEW t \in Threads, PgfaultCopy(t)
    PROVE  ContentsInv'
<1> DEFINE h == Home[t]
<1>1. /\ vm[h].mapped /\ ~Shared
      /\ Present(vm[h].pte) => "COW" \in vm[h].pte.flags
      /\ vm'[h].alive /\ vm'[h].mapped
      /\ vm'[h].pte = vm[h].pte
      /\ \A a \in Spaces \ {h} : SameSpace(a)
      /\ Others(t) /\ th'[t].pc = "insert"
      /\ th'[t].child = None /\ th[t].child = None
      /\ UNCHANGED <<cpu, mtype, view>>
  BY CopyEffect
<1>2. PICK g \in Frames : /\ pg[g].ref = 0 /\ \A u \in Threads : th[u].new # g
                          /\ th'[t].new = g
                          /\ pg'[g].val = pg[Source(vm[h].pte)].val
                          /\ \A x \in Pages \ {g} : pg'[x].val = pg[x].val
  BY CopyEffect
<1>3. /\ h \in Spaces /\ vm[h].alive /\ ~th[t].old /\ vm[h].pte \in Ptes
  <2>1. th[t].pc = "trap"
    BY DEF PgfaultCopy, Private, Fault, At
  <2> QED BY <2>1, Faulting
<1>4. \A a \in Spaces : vm[a].pte.pg # g
  BY <1>2, CountedUsed, NoneApart
<1>5. KeptVals
  BY <1>2, <1>4, NoneApart DEF KeptVals
<1>6. EntryOK(h)
  BY <1>3 DEF ContentsInv, EntriesOK
<1>7. CopyOK(t)'
  <2>1. "W" \notin vm[h].pte.flags
    BY <1>1, <1>3, <1>6, PteType DEF EntryOK, FlagsOK
  <2>2. pg[Source(vm[h].pte)].val = view[h]
    BY <1>1, <1>3, <1>6 DEF EntryOK
  <2>3. pg'[th'[t].new].val = view'[h]
    BY <1>1, <1>2, <2>2
  <2> QED BY <1>1, <2>1, <2>3 DEF CopyOK, Shared
<1>8. \A u \in Threads :
         \/ CopyOK(u)'
         \/ /\ th'[u].pc = "insert" => th[u].pc = "insert" /\ th'[u].new = th[u].new
            /\ th'[u].pc = "stack" => th[u].pc = "stack" /\ th'[u].child = th[u].child
  BY <1>1, <1>7 DEF Others
<1>9. \A u \in Threads : (th[u].old => th'[u].old) /\ th'[u].child = th[u].child
  BY <1>1, <1>3 DEF Others
<1>10. \A a \in Spaces : \/ SameSpace(a)
                         \/ /\ vm'[a].alive /\ vm[a].alive /\ vm'[a].mapped = vm[a].mapped
                            /\ vm'[a].pte = vm[a].pte
  <2>1. vm[h].mapped \in BOOLEAN /\ vm'[h].mapped \in BOOLEAN
    BY <1>3, StateTypes, StateTypesNext, AsType DEF CoreInv
  <2>2. vm'[h].mapped = vm[h].mapped
    BY <1>1, <2>1
  <2> QED BY <1>1, <1>3, <2>2
<1> QED BY <1>1, <1>5, <1>8, <1>9, <1>10, SameEntries

\* A write goes to the page of the entry, and to nobody else's memory but that of a
\* child that is being made.
LEMMA UserWriteContents ==
    ASSUME CoreInv, TlbInv, ContentsInv, NEW t \in Threads, UserWrite(t), ~Overlaps
    PROVE  ContentsInv'
<1> USE DEF ContentsInv
<1> DEFINE h == Home[t]
           k == th[t].cpu
           g == cpu[k].tlb.pg
           v == writes + 1
<1>1. /\ k \in CPUs /\ cpu[k] \in CpuRecs /\ th[t].pc = "user" /\ h \in Spaces
      /\ cpu[k].cr3 = h /\ vm[h].alive /\ vm[h] \in AsRecs
  BY UserCpu, StateTypes DEF UserWrite, User, At, CoreInv, ThreadsInv, ThreadOK
<1>2. /\ cpu[k].tlb.w /\ ~Replacing(h) /\ v \in Nat
      /\ pg' = [pg EXCEPT ![g].val = v]
      /\ view' = [b \in Spaces |-> IF Sees(h, b, g) THEN v ELSE view[b]]
      /\ UNCHANGED <<vm, cpu, th, mtype>>
  <2>1. ~Replacing(h)
    BY DEF Overlaps
  <2> QED BY <2>1 DEF UserWrite, Tlb, CoreInv, TypeOK
<1>3. cpu[k].tlb # NoEntry /\ g \in Pages
  BY <1>1, <1>2, CpuType
<1>4. /\ g = vm[h].pte.pg /\ vm[h].pte \in Ptes /\ Present(vm[h].pte) /\ vm[h].mapped
      /\ ~Shared => /\ g \in Frames
                    /\ \A b \in Spaces \ {h} : vm[b].pte.pg = g =>
                         \E u \in Threads : Home[u] = h /\ th[u].child = b
  <2>1. OfferOK(k, h)
    BY <1>1 DEF OffersOK
  <2>2. g = vm[h].pte.pg
    BY <1>1, <1>2, <1>3, <2>1 DEF OfferOK
  <2>3. vm[h].pte \in Ptes /\ Present(vm[h].pte)
    BY <1>1, <1>3, <2>2, AsType, PteType
  <2>4. vm[h].mapped
    BY <1>1, <2>3, NoPteFacts DEF CoreInv, SpacesInv, SpaceOK
  <2> QED BY <1>1, <1>2, <1>3, <2>1, <2>2, <2>3, <2>4 DEF OfferOK
<1>5. \A a \in Spaces : EntryOK(a) /\ vm[a].pte \in Ptes
  BY StateTypes, AsType DEF EntriesOK, CoreInv
<1> HIDE DEF k, g, v
<1>6. pg'[g].val = v /\ \A x \in Pages \ {g} : pg'[x].val = pg[x].val
  BY <1>2, <1>3 DEF CoreInv, TypeOK, PgRecs
<1>7. \A b \in Spaces : view'[b] = IF Sees(h, b, g) THEN v ELSE view[b]
  BY <1>2
<1>8. ZerosOK'
  <2>1. g # Zero
    <3>1. CASE mtype = "sharefile"
      BY <1>1, <1>4, <1>5, <3>1, NoneApart DEF EntryOK, FlagsOK
    <3>2. CASE mtype = "shareanon"
      BY <1>1, <1>4, <1>5, <3>2, NoneApart DEF EntryOK, FlagsOK
    <3>3. CASE ~Shared
      BY <1>4, <3>3, NoneApart
    <3> QED BY <3>1, <3>2, <3>3 DEF Shared
  <2>2. ~Shared => g # File
    BY <1>4, NoneApart
  <2> QED BY <1>2, <1>6, <2>1, <2>2, NoneApart DEF ZerosOK, Shared
<1>9. EntriesOK'
  <2> SUFFICES ASSUME NEW a \in Spaces PROVE EntryOK(a)'
    BY DEF EntriesOK
  <2>1. FlagsOK(vm[a].pte)'
    BY <1>2, <1>5 DEF EntryOK, FlagsOK, Shared, Present
  <2>2. ("W" \in vm[a].pte.flags /\ ~Shared => Owner(a, vm[a].pte.pg))'
    BY <1>2, <1>5 DEF EntryOK, Owner, Shared
  <2>3. (vm[a].mapped /\ mtype = "shareanon" => Present(vm[a].pte))'
    BY <1>2, <1>5 DEF EntryOK, Present
  <2>4. Source(vm[a].pte)' = Source(vm[a].pte) /\ Source(vm[a].pte) \in Pages
    BY <1>2, <1>5, SourceFacts DEF Source, Present
  <2>5. ASSUME vm[a].alive, vm[a].mapped PROVE pg'[Source(vm[a].pte)].val = view'[a]
    <3>1. CASE a = h
      <4>1. Source(vm[a].pte) = g
        BY <1>4, <3>1 DEF Source
      <4>2. Sees(h, a, g)
        BY <3>1 DEF Sees
      <4> QED BY <1>6, <1>7, <4>1, <4>2
    <3>2. CASE Shared
      <4>1. Sees(h, a, g)
        BY <3>2 DEF Sees
      <4>2. Source(vm[a].pte) = g
        <5>1. CASE mtype = "sharefile"
          <6>1. g = File
            BY <1>1, <1>4, <1>5, <5>1 DEF EntryOK, FlagsOK
          <6>2. Present(vm[a].pte) => vm[a].pte.pg = File
            BY <1>5, <5>1 DEF EntryOK, FlagsOK
          <6> QED BY <5>1, <6>1, <6>2 DEF Source
        <5>2. CASE mtype = "shareanon"
          <6>1. Present(vm[a].pte)
            BY <1>5, <2>5, <5>2 DEF EntryOK
          <6>2. vm[a].pte.pg = g
            BY <1>1, <1>4, <2>5, <5>2 DEF CommonOK
          <6> QED BY <6>1, <6>2 DEF Source
        <5> QED BY <3>2, <5>1, <5>2 DEF Shared
      <4> QED BY <1>6, <1>7, <4>1, <4>2
    <3>3. CASE ~Shared /\ a # h /\ vm[a].pte.pg = g
      <4>1. Sees(h, a, g)
        BY <1>4, <3>3 DEF Sees
      <4>2. Present(vm[a].pte)
        BY <1>3, <1>5, <3>3, PteType, NoneApart
      <4>3. Source(vm[a].pte) = g
        BY <3>3, <4>2 DEF Source
      <4> QED BY <1>6, <1>7, <4>1, <4>3
    <3>4. CASE ~Shared /\ a # h /\ vm[a].pte.pg # g
      <4>1. ~Sees(h, a, g)
        BY <3>4 DEF Sees
      <4>2. Source(vm[a].pte) # g
        BY <1>4, <1>5, <3>4, SourceFacts, NoneApart
      <4>3. pg[Source(vm[a].pte)].val = view[a]
        BY <1>5, <2>5 DEF EntryOK
      <4> QED BY <1>6, <1>7, <2>4, <4>1, <4>2, <4>3
    <3> QED BY <3>1, <3>2, <3>3, <3>4
  <2>6. (vm[a].alive /\ vm[a].mapped => pg[Source(vm[a].pte)].val = view[a])'
    BY <1>2, <2>4, <2>5
  <2> QED BY <2>1, <2>2, <2>3, <2>6 DEF EntryOK
<1>10. CommonOK'
  BY <1>2 DEF CommonOK
<1>11. OffersOK'
  BY <1>2 DEF OffersOK, OfferOK, Replacing, Shared
<1>12. CopiesOK'
  <2> SUFFICES ASSUME NEW u \in Threads PROVE CopyOK(u)'
    BY DEF CopiesOK
  <2>1. CopyOK(u)
    BY DEF CopiesOK
  <2>2. ASSUME th[u].pc = "insert"
        PROVE  pg'[th[u].new].val = view'[Home[u]]
    <3>1. th[u].new # None
      BY <2>2 DEF CoreInv, ThreadsInv, ThreadOK, LocalOK
    <3>2. th[u].new \in Pages /\ th[u].new # g
      BY <1>1, <1>4, <3>1, NewUnused
    <3>3. Home[u] # h
      <4> SUFFICES ASSUME Home[u] = h PROVE FALSE
        OBVIOUS
      <4>1. vm[h].lock = u
        BY <2>2 DEF CoreInv, ThreadsInv, ThreadOK, Busy
      <4>2. TlbOK(k, h) /\ ~ToFlush(th[u], k)
        BY <1>1, <2>2 DEF TlbInv, ToFlush
      <4>3. "W" \in vm[h].pte.flags
        BY <1>1, <1>2, <1>3, <4>1, <4>2 DEF TlbOK, Current
      <4> QED BY <2>1, <2>2, <4>3 DEF CopyOK
    <3>4. ~Sees(h, Home[u], g)
      <4> SUFFICES ASSUME NEW w \in Threads, th[w].child = Home[u] PROVE FALSE
        BY <2>1, <2>2, <3>3 DEF Sees, CopyOK
      <4>1. ChildOK(w, Home[u])
        BY StateTypes DEF CoreInv, ChildrenInv
      <4> QED BY <2>2, <4>1 DEF ChildOK
    <3>5. pg[th[u].new].val = view[Home[u]] /\ Home[u] \in Spaces
      BY <2>1, <2>2, StateTypes DEF CopyOK, CoreInv
    <3> QED BY <1>6, <1>7, <3>2, <3>4, <3>5
  <2>3. (th[u].pc = "insert" => /\ ~Shared /\ "W" \notin vm[Home[u]].pte.flags
                                /\ pg[th[u].new].val = view[Home[u]])'
    BY <1>2, <2>1, <2>2 DEF CopyOK, Shared
  <2>4. (th[u].pc = "stack" =>
           /\ mtype = "anon"
           /\ vm[Home[u]].pte.pg \in Frames
           /\ \A b \in Spaces \ {Home[u], th[u].child} : vm[b].pte.pg # vm[Home[u]].pte.pg)'
    BY <1>2, <2>1 DEF CopyOK
  <2> QED BY <2>3, <2>4 DEF CopyOK
<1> QED BY <1>8, <1>9, <1>10, <1>11, <1>12

\* What fork makes of the flags.
LEMMA CowFlags ==
    ASSUME NEW p \in Ptes, FlagsOK(p), mtype \in Kinds
    PROVE  /\ FlagsOK(Cow(p)) /\ ("W" \in Cow(p).flags => mtype = "shareanon")
<1>1. /\ Cow(p).pg = p.pg
      /\ Present(Cow(p)) <=> Present(p)
      /\ mtype = "shareanon" => Cow(p) = p
      /\ mtype # "shareanon" => "W" \notin Cow(p).flags
      /\ mtype # "shareanon" /\ "W" \in p.flags =>
           Cow(p).flags = (p.flags \ {"W", "WASCOW"}) \cup {"COW"}
      /\ "W" \notin p.flags => Cow(p) = p
  BY CowFacts
<1>2. CASE mtype # "shareanon" /\ "W" \in p.flags
  <2>1. p.flags \in {{"W"}, {"W", "WASCOW"}}
    BY <1>2, PteType DEF FlagsOK
  <2>2. Cow(p).flags = {"COW"}
    BY <1>1, <1>2, <2>1
  <2> QED BY <1>1, <1>2, <2>2 DEF FlagsOK
<1>3. CASE ~(mtype # "shareanon" /\ "W" \in p.flags)
  <2>1. Cow(p) = p
    BY <1>1, <1>3
  <2> QED BY <1>1, <1>3, <2>1
<1> QED BY <1>2, <1>3

\* Fork keeps the invariant of the contents.
LEMMA PteforkContents ==
    ASSUME CoreInv, ContentsInv, NEW t \in Threads, NEW b \in Spaces,
           NEW stack \in BOOLEAN, Ptefork(t, b, stack), ~SharesStack
    PROVE  ContentsInv'
<1> USE DEF ContentsInv
<1> DEFINE h == Home[t]
           p == vm[h].pte
<1>1. /\ th[t].pc = "user" /\ vm[h].lock = None /\ b # h
      /\ p \in Ptes /\ vm[h].alive
      /\ ~vm[b].alive /\ vm[b].pte = NoPte
      /\ \A u \in Threads : th[u].child # b /\ (Home[u] = b => th[u].pc = "none")
      /\ \A c \in CPUs : cpu[c].cr3 # b
      /\ vm'[h].alive /\ vm'[h].mapped = vm[h].mapped
      /\ vm'[h].lock = t /\ vm'[h].pte = Cow(p)
      /\ vm'[b].alive /\ vm'[b].mapped = vm[h].mapped
      /\ vm'[b].pte = Cow(p)
      /\ \A a \in Spaces \ {h, b} : SameSpace(a)
      /\ Others(t) /\ ~th'[t].old /\ th'[t].child = b
      /\ th'[t].pc \in {"stack", "flush"} /\ (th'[t].pc = "stack" => stack)
      /\ stack => mtype = "anon" /\ Present(p) /\ (SharesStack \/ "W" \in p.flags)
      /\ view'[b] = view[h] /\ \A a \in Spaces \ {b} : view'[a] = view[a]
      /\ SameVals /\ UNCHANGED <<cpu, mtype>>
  BY ForkEffect
<1>2. /\ h \in Spaces /\ mtype \in Kinds
      /\ \A a \in Spaces : EntryOK(a) /\ vm[a].pte \in Ptes
  BY StateTypes, AsType DEF CoreInv, EntriesOK, TypeOK
<1>3. /\ Cow(p).pg = p.pg /\ (Present(Cow(p)) <=> Present(p)) /\ Cow(p) \in Ptes
      /\ FlagsOK(Cow(p)) /\ ("W" \in Cow(p).flags => mtype = "shareanon")
  BY <1>1, <1>2, CowFacts, CowFlags DEF EntryOK
<1>4. PICK q \in Ptes : q = Cow(p)
  BY <1>3
<1>5. /\ q.pg = p.pg /\ (Present(q) <=> Present(p)) /\ FlagsOK(q)
      /\ "W" \in q.flags => mtype = "shareanon"
      /\ vm'[h].pte = q /\ vm'[b].pte = q
  BY <1>1, <1>3, <1>4
<1>6. /\ vm'[h].pte.pg = vm[h].pte.pg /\ vm'[b].pte.pg = vm[h].pte.pg
      /\ \A a \in Spaces \ {h, b} : vm'[a].pte.pg = vm[a].pte.pg
  BY <1>1, <1>5 DEF SameSpace
<1>7. ZerosOK'
  BY <1>1, NoneApart DEF ZerosOK, SameVals, Shared
<1>8. EntriesOK'
  <2>1. ASSUME NEW a \in {h, b} PROVE EntryOK(a)'
    <3>1. vm'[a].pte = q /\ vm'[a].mapped = vm[h].mapped /\ view'[a] = view[h]
      BY <1>1, <1>2, <1>5
    <3>2. FlagsOK(vm[a].pte)'
      BY <1>1, <1>5, <3>1 DEF FlagsOK, Shared, Present
    <3>3. ("W" \in vm[a].pte.flags => Shared)'
      BY <1>1, <1>5, <3>1 DEF Shared
    <3>4. Source(vm[a].pte)' = Source(p) /\ Source(p) \in Pages
      BY <1>1, <1>5, <3>1, SourceFacts DEF Source, Present
    <3>5. vm[h].mapped => pg[Source(p)].val = view[h] /\ (mtype = "shareanon" => Present(p))
      BY <1>1, <1>2 DEF EntryOK
    <3>6. (vm[a].alive /\ vm[a].mapped => pg[Source(vm[a].pte)].val = view[a])'
      BY <1>1, <3>1, <3>4, <3>5 DEF SameVals
    <3>7. (vm[a].mapped /\ mtype = "shareanon" => Present(vm[a].pte))'
      BY <1>1, <1>5, <3>1, <3>5 DEF Present
    <3> QED BY <3>2, <3>3, <3>6, <3>7 DEF EntryOK
  <2>2. ASSUME NEW a \in Spaces \ {h, b} PROVE EntryOK(a)'
    <3>1. EntryOK(a) /\ SameSpace(a) /\ view'[a] = view[a] /\ mtype' = mtype
      BY <1>1, <1>2
    <3>2. pg'[Source(vm[a].pte)].val = pg[Source(vm[a].pte)].val
      BY <1>1, <1>2, SourceFacts DEF SameVals
    <3>3. "W" \in vm[a].pte.flags /\ ~Shared => \A d \in Spaces \ {a} :
            vm'[d].pte.pg = vm[a].pte.pg => vm[d].pte.pg = vm[a].pte.pg
      <4> SUFFICES ASSUME "W" \in vm[a].pte.flags, ~Shared, NEW d \in Spaces \ {a},
                          vm'[d].pte.pg = vm[a].pte.pg
                   PROVE  vm[d].pte.pg = vm[a].pte.pg
        OBVIOUS
      <4>1. vm[h].pte.pg # vm[a].pte.pg
        BY <1>2, <3>1 DEF EntryOK, Owner
      <4> QED BY <1>6, <4>1
    <3> QED BY <3>1, <3>2, <3>3, EntryStep DEF SameSpace
  <2> QED BY <2>1, <2>2 DEF EntriesOK
<1>9. CommonOK'
  BY <1>1, <1>2, <1>6 DEF CommonOK, SameSpace
\* The address space that forks is not itself in the making.
<1>10. \A u \in Threads : th[u].child # h
  BY <1>1, <1>2 DEF CoreInv, ChildrenInv, ChildOK
<1>11. OffersOK'
  <2> SUFFICES ASSUME NEW c \in CPUs, NEW a \in Spaces PROVE OfferOK(c, a)'
    BY DEF OffersOK
  <2>1. CASE a = b
    BY <1>1, <2>1 DEF OfferOK
  <2>2. CASE a # b
    <3>1. OfferOK(c, a) /\ cpu'[c] = cpu[c] /\ mtype' = mtype
      BY <1>1 DEF OffersOK
    <3>2. vm'[a].alive => vm[a].alive /\ vm'[a].pte.pg = vm[a].pte.pg
      BY <1>1, <1>6, <2>2 DEF SameSpace
    <3>3. Replacing(a) => Replacing(a)'
      <4>1. ~Replacing(h)
        BY <1>1, <1>2, ReplacingLocked, NoneApart
      <4> QED BY <1>1, <4>1 DEF Replacing, Others
    <3>4. th[t].child = None
      BY <1>1, Faulting
    <3>5. \A u \in Threads, d \in Spaces : Home[u] = a /\ th[u].child = d => th'[u].child = d
      BY <1>1, <3>4, NoneApart DEF Others
    <3>6. CASE a = h
      <4>1. \A d \in Spaces \ {a} :
              vm'[d].pte.pg = vm[a].pte.pg =>
                \/ vm[d].pte.pg = vm[a].pte.pg
                \/ \E u \in Threads : Home[u] = a /\ th'[u].child = d
        BY <1>1, <1>6, <3>6
      <4> QED BY <3>1, <3>2, <3>3, <3>5, <4>1, OfferStep
    <3>7. CASE a # h
      <4>1. \A u \in Threads : Home[u] = a => th'[u] = th[u]
        BY <1>1, <3>7 DEF Others
      <4>2. Replacing(a)' <=> Replacing(a)
        BY <4>1 DEF Replacing
      <4>3. vm'[a].alive = vm[a].alive /\ vm'[a].pte.pg = vm[a].pte.pg
        BY <1>1, <2>2, <3>7 DEF SameSpace
      <4> SUFFICES ASSUME cpu[c].cr3 = a, vm[a].alive, ~Replacing(a), cpu[c].tlb # NoEntry
                   PROVE  /\ cpu[c].tlb.pg = vm[a].pte.pg
                          /\ cpu[c].tlb.w /\ ~Shared =>
                               /\ cpu[c].tlb.pg \in Frames
                               /\ \A d \in Spaces \ {a} : vm'[d].pte.pg = cpu[c].tlb.pg =>
                                    \E u \in Threads : Home[u] = a /\ th'[u].child = d
        BY <3>1, <4>2, <4>3 DEF OfferOK, Shared
      <4>4. /\ cpu[c].tlb.pg = vm[a].pte.pg
            /\ cpu[c].tlb.w /\ ~Shared =>
                 /\ cpu[c].tlb.pg \in Frames
                 /\ \A d \in Spaces \ {a} : vm[d].pte.pg = cpu[c].tlb.pg =>
                      \E u \in Threads : Home[u] = a /\ th[u].child = d
        BY <3>1 DEF OfferOK
      <4>5. ASSUME cpu[c].tlb.w, ~Shared, NEW d \in Spaces \ {a}, vm'[d].pte.pg = cpu[c].tlb.pg
            PROVE  \E u \in Threads : Home[u] = a /\ th'[u].child = d
        <5>1. vm[h].pte.pg # cpu[c].tlb.pg
          BY <1>2, <1>10, <3>7, <4>4, <4>5
        <5>2. vm[d].pte.pg = cpu[c].tlb.pg
          BY <1>6, <4>5, <5>1
        <5>3. PICK u \in Threads : Home[u] = a /\ th[u].child = d
          BY <4>4, <4>5, <5>2
        <5> QED BY <4>1, <5>3
      <4> QED BY <4>4, <4>5
    <3> QED BY <3>6, <3>7
  <2> QED BY <2>1, <2>2
<1>12. CopiesOK'
  <2> SUFFICES ASSUME NEW u \in Threads PROVE CopyOK(u)'
    BY DEF CopiesOK
  <2>1. CASE u = t
    <3>1. CASE th'[t].pc = "flush"
      BY <2>1, <3>1 DEF CopyOK
    <3>2. CASE th'[t].pc = "stack"
      <4>1. mtype = "anon" /\ "W" \in p.flags /\ ~Shared
        BY <1>1, <3>2 DEF Shared
      <4>2. p.pg \in Frames /\ \A d \in Spaces \ {h} : vm[d].pte.pg # p.pg
        BY <1>2, <4>1 DEF EntryOK, FlagsOK, Owner
      <4>3. \A d \in Spaces \ {h, b} : vm'[d].pte.pg # p.pg
        BY <1>6, <4>2
      <4> QED BY <1>1, <1>6, <2>1, <3>2, <4>1, <4>2, <4>3 DEF CopyOK
    <3> QED BY <1>1, <3>1, <3>2
  <2>2. CASE u # t
    <3>1. CopyOK(u) /\ th'[u] = th[u] /\ mtype' = mtype /\ Home[u] \in Spaces
      BY <1>1, <2>2, StateTypes DEF CopiesOK, Others, CoreInv
    <3>2. th[u].pc \in {"insert", "stack"} => Home[u] # h /\ Home[u] # b
      BY <1>1, <2>2, NoneApart DEF CoreInv, ThreadsInv, ThreadOK, Busy
    <3>3. th[u].pc \in {"insert", "stack"} => vm'[Home[u]].pte = vm[Home[u]].pte
      BY <1>1, <3>1, <3>2 DEF SameSpace
    <3>4. th[u].pc = "insert" => pg'[th[u].new].val = pg[th[u].new].val
      <4>1. th[u].pc = "insert" => th[u].new # None
        BY DEF CoreInv, ThreadsInv, ThreadOK, LocalOK
      <4>2. th[u].pc = "insert" => th[u].new \in Pages
        BY <4>1, NewUnused
      <4> QED BY <1>1, <4>2 DEF SameVals
    <3>5. th[u].pc = "insert" => view'[Home[u]] = view[Home[u]]
      BY <1>1, <3>1, <3>2
    <3>6. ASSUME th[u].pc = "stack", NEW d \in Spaces \ {Home[u], th[u].child},
                 vm'[d].pte.pg = vm[Home[u]].pte.pg
          PROVE  vm[d].pte.pg = vm[Home[u]].pte.pg
      <4>1. vm[h].pte.pg # vm[Home[u]].pte.pg
        BY <1>2, <1>10, <3>1, <3>2, <3>6 DEF CopyOK
      <4> QED BY <1>6, <3>6, <4>1
    <3> QED BY <3>1, <3>3, <3>4, <3>5, <3>6, CopyStep
  <2> QED BY <2>1, <2>2
<1> QED BY <1>7, <1>8, <1>9, <1>11, <1>12

\* The child's stack is a copy, in a page that nobody uses, and the parent's page is
\* the parent's again.
LEMMA Vm_forkStackContents ==
    ASSUME CoreInv, ContentsInv, CoreInv', NEW t \in Threads, Vm_forkStack(t)
    PROVE  ContentsInv'
<1> DEFINE h == Home[t]
           b == th[t].child
           x0 == vm[h].pte.pg
<1>1. /\ th[t].pc = "stack" /\ vm[h].lock = t /\ vm[h].alive
      /\ b \in Spaces \ {h} /\ ChildOK(t, b)
      /\ vm[h].pte = vm[b].pte /\ Present(vm[h].pte)
      /\ Others(t) /\ th'[t].pc = "flush" /\ th[t].old = th'[t].old
      /\ th'[t].child = b
      /\ UNCHANGED <<cpu, mtype, view>>
  BY StackEffect
<1>2. /\ h \in Spaces /\ \A a \in Spaces : EntryOK(a) /\ vm[a].pte \in Ptes
  BY StateTypes, AsType DEF CoreInv, ContentsInv, EntriesOK
<1>3. CopyOK(t)'
  BY <1>1 DEF CopyOK
<1>4. \A u \in Threads : (th[u].old => th'[u].old) /\ th'[u].child = th[u].child
  BY <1>1 DEF Others
<1>5. CASE UNCHANGED <<pg, vm>>
  <2>1. KeptVals /\ \A a \in Spaces : SameSpace(a)
    BY <1>5 DEF KeptVals, SameSpace
  <2>2. \A u \in Threads :
           \/ CopyOK(u)'
           \/ /\ th'[u].pc = "insert" => th[u].pc = "insert" /\ th'[u].new = th[u].new
              /\ th'[u].pc = "stack" => th[u].pc = "stack" /\ th'[u].child = th[u].child
    BY <1>1, <1>3 DEF Others
  <2> QED BY <1>1, <1>4, <2>1, <2>2, SameEntries
<1>6. ASSUME NEW g \in Frames, pg[g].ref = 0, \A u \in Threads : th[u].new # g,
             \A x \in Pages : pg'[x].val = IF x = g THEN pg[x0].val ELSE pg[x].val,
             vm'[b].pte = Writable(g), vm'[h].pte = Writable(x0),
             \A a \in Spaces : /\ vm'[a].alive = vm[a].alive /\ vm'[a].lock = vm[a].lock
                               /\ vm'[a].mapped = vm[a].mapped,
             \A a \in Spaces \ {h, b} : vm'[a].pte = vm[a].pte
      PROVE  ContentsInv'
  <2>1. /\ mtype = "anon" /\ ~Shared /\ x0 \in Frames
        /\ \A a \in Spaces \ {h, b} : vm[a].pte.pg # x0
    BY <1>1 DEF ContentsInv, CopiesOK, CopyOK, Shared
  <2>2. \A a \in Spaces : vm[a].pte.pg # g
    BY <1>6, CountedUsed, NoneApart
  <2>3. g \in Pages /\ x0 \in Pages /\ g # x0 /\ pg'[g].val = pg[x0].val /\ pg'[x0].val = pg[x0].val
        /\ \A x \in Pages \ {g} : pg'[x].val = pg[x].val
    BY <1>2, <1>6, <2>1, <2>2, NoneApart
  <2>4. /\ Writable(g).pg = g /\ Writable(x0).pg = x0
        /\ Writable(g).flags = {"W", "WASCOW"} /\ Writable(x0).flags = {"W", "WASCOW"}
        /\ Present(Writable(g)) /\ Present(Writable(x0))
    BY <2>1, <2>3, WritableFacts
  <2> HIDE DEF x0
  <2>5. /\ vm'[b].pte.pg = g /\ vm'[h].pte.pg = x0 /\ vm[h].pte.pg = x0 /\ vm[b].pte.pg = x0
        /\ \A a \in Spaces \ {h, b} : vm'[a].pte.pg = vm[a].pte.pg
    BY <1>1, <1>6, <2>4 DEF x0
  <2>6. ZerosOK'
    BY <1>1, <1>6, <2>3, NoneApart DEF ContentsInv, ZerosOK, Shared
  <2>7. EntriesOK'
    <3>1. ASSUME NEW a \in {h, b} PROVE EntryOK(a)'
      <4>1. PICK x \in Frames : /\ vm'[a].pte = Writable(x) /\ pg'[x].val = pg[x0].val
                                /\ vm'[a].pte.pg = x
                                /\ \A d \in Spaces \ {a} : vm'[d].pte.pg # x
        <5>1. CASE a = h
          BY <1>6, <2>1, <2>3, <2>5, <5>1
        <5>2. CASE a = b
          BY <1>6, <2>2, <2>3, <2>5, <5>2
        <5> QED BY <5>1, <5>2
      <4>2. x \in Pages /\ Writable(x).pg = x /\ Writable(x).flags = {"W", "WASCOW"} /\ Present(Writable(x))
        BY WritableFacts, NoneApart
      <4>3. FlagsOK(vm[a].pte)'
        BY <1>1, <2>1, <4>1, <4>2 DEF FlagsOK, Shared, Present
      <4>4. Owner(a, vm[a].pte.pg)'
        BY <4>1 DEF Owner
      <4>5. Source(vm[a].pte)' = x /\ Present(vm[a].pte)'
        BY <4>1, <4>2 DEF Source, Present
      <4>6. a \in Spaces /\ Source(vm[a].pte) = x0 /\ EntryOK(a)
        BY <1>1, <1>2, <2>5 DEF Source
      <4>7. (vm[a].alive /\ vm[a].mapped => pg[Source(vm[a].pte)].val = view[a])'
        BY <1>1, <1>6, <4>1, <4>5, <4>6 DEF EntryOK
      <4> QED BY <4>3, <4>4, <4>5, <4>7 DEF EntryOK
    <3>2. ASSUME NEW a \in Spaces \ {h, b} PROVE EntryOK(a)'
      <4>1. /\ EntryOK(a) /\ view'[a] = view[a] /\ mtype' = mtype /\ vm'[a].pte = vm[a].pte
            /\ vm'[a].mapped = vm[a].mapped /\ vm'[a].alive = vm[a].alive
        BY <1>1, <1>2, <1>6
      <4>2. pg'[Source(vm[a].pte)].val = pg[Source(vm[a].pte)].val
        <5>1. Source(vm[a].pte) \in Pages \ {g}
          BY <1>2, <1>6, <2>2, SourceFacts, NoneApart
        <5> QED BY <2>3, <5>1
      <4>3. \A d \in Spaces \ {a} : vm'[d].pte.pg = vm[a].pte.pg => vm[d].pte.pg = vm[a].pte.pg
        BY <2>2, <2>5
      <4> QED BY <4>1, <4>2, <4>3, EntryStep
    <3> QED BY <3>1, <3>2 DEF EntriesOK
  <2>8. CommonOK'
    BY <1>1, <2>1 DEF CommonOK
  <2>9. OffersOK'
    <3> SUFFICES ASSUME NEW c \in CPUs, NEW a \in Spaces PROVE OfferOK(c, a)'
      BY DEF OffersOK
    <3>1. CASE a = b
      BY <1>1, <3>1 DEF OfferOK, ChildOK
    <3>2. CASE a # b
      <4>1. OfferOK(c, a) /\ mtype' = mtype /\ cpu'[c] = cpu[c]
        BY <1>1 DEF ContentsInv, OffersOK
      <4>2. vm'[a].alive => vm[a].alive /\ vm'[a].pte.pg = vm[a].pte.pg
        BY <1>6, <2>5, <3>2
      <4>3. Replacing(a) => Replacing(a)'
        BY <1>4 DEF Replacing
      <4>4. \A d \in Spaces \ {a} : vm'[d].pte.pg = vm[a].pte.pg => vm[d].pte.pg = vm[a].pte.pg
        BY <2>2, <2>5
      <4> QED BY <1>4, <4>1, <4>2, <4>3, <4>4, OfferStep
    <3> QED BY <3>1, <3>2
  <2>10. CopiesOK'
    <3> SUFFICES ASSUME NEW u \in Threads \ {t} PROVE CopyOK(u)'
      BY <1>3 DEF CopiesOK
    <3>1. CopyOK(u) /\ th'[u] = th[u] /\ mtype' = mtype /\ Home[u] \in Spaces
      BY <1>1, StateTypes DEF ContentsInv, CopiesOK, Others, CoreInv
    <3>2. th[u].pc \in {"insert", "stack"} => Home[u] # h /\ Home[u] # b
      BY <1>1 DEF CoreInv, ThreadsInv, ThreadOK, Busy, ChildOK
    <3>3. th[u].pc \in {"insert", "stack"} => vm'[Home[u]].pte = vm[Home[u]].pte
      BY <1>6, <3>1, <3>2
    <3>4. th[u].pc = "insert" => pg'[th[u].new].val = pg[th[u].new].val
      <4>1. th[u].pc = "insert" => th[u].new # None
        BY DEF CoreInv, ThreadsInv, ThreadOK, LocalOK
      <4>2. th[u].pc = "insert" => th[u].new \in Pages
        BY <4>1, NewUnused
      <4> QED BY <1>6, <2>3, <4>2
    <3>5. view'[Home[u]] = view[Home[u]]
      BY <1>1
    <3>6. \A d \in Spaces : vm'[d].pte.pg = vm[Home[u]].pte.pg => vm[d].pte.pg = vm[Home[u]].pte.pg
      BY <2>2, <2>5, <3>1
    <3> QED BY <3>1, <3>3, <3>4, <3>5, <3>6, CopyStep
  <2> QED BY <2>6, <2>7, <2>8, <2>9, <2>10 DEF ContentsInv
<1>7. \/ UNCHANGED <<pg, vm>>
      \/ \E g \in Frames :
           /\ pg[g].ref = 0 /\ \A u \in Threads : th[u].new # g
           /\ \A x \in Pages : pg'[x].val = IF x = g THEN pg[x0].val ELSE pg[x].val
           /\ vm'[b].pte = Writable(g) /\ vm'[h].pte = Writable(x0)
           /\ \A a \in Spaces : /\ vm'[a].alive = vm[a].alive /\ vm'[a].lock = vm[a].lock
                                /\ vm'[a].mapped = vm[a].mapped
           /\ \A a \in Spaces \ {h, b} : vm'[a].pte = vm[a].pte
  BY StackEffect
<1> HIDE DEF h, b, x0
<1> QED BY <1>5, <1>6, <1>7

\* At the start there is one address space, and its page has nothing in it.
LEMMA InitContents == Init => ContentsInv
<1> SUFFICES ASSUME Init PROVE ContentsInv
  OBVIOUS
<1>1. /\ \A c \in CPUs : cpu[c].cr3 = None
      /\ \A t \in Threads : th[t].pc \notin {"insert", "stack"}
      /\ \A a \in Spaces : view[a] = 0
      /\ \A x \in Pages : pg[x].val = 0
  BY DEF Init, Thread
<1>2. PICK g \in Frames, eager \in BOOLEAN :
        /\ mtype = "shareanon" => eager
        /\ eager => mtype \in {"anon", "shareanon"}
        /\ vm = [a \in Spaces |->
                   IF a # First THEN NoSpace
                   ELSE [NoSpace EXCEPT !.alive = TRUE, !.mapped = TRUE, !.ref = 1,
                           !.pte = IF eager THEN Pte(g, {"W"}) ELSE NoPte]]
  BY DEF Init
<1>3. PICK p \in Ptes : p = IF eager THEN Pte(g, {"W"}) ELSE NoPte
  BY MakePte, NoPteFacts, NoneApart DEF Flags
<1>4. /\ First \in Spaces /\ vm[First].alive /\ vm[First].mapped /\ vm[First].pte = p
      /\ \A a \in Spaces \ {First} : ~vm[a].alive /\ ~vm[a].mapped /\ vm[a].pte = NoPte
  BY <1>2, <1>3, VmAssumption DEF NoSpace
<1>5. /\ eager => p.pg = g /\ p.flags = {"W"} /\ Present(p)
      /\ ~eager => p.pg = None /\ p.flags = {} /\ ~Present(p)
  BY <1>3, NoPteFacts, NoneApart DEF Pte, NoPte, Present
<1>6. g \in Pages /\ g # None /\ Zero \in Pages /\ File \in Pages
  BY NoneApart DEF Pages
<1>7. EntriesOK
  <2>1. ASSUME NEW a \in Spaces \ {First} PROVE EntryOK(a)
    BY <1>4, <2>1, NoPteFacts DEF EntryOK, FlagsOK
  <2>2. EntryOK(First)
    <3>1. FlagsOK(p)
      BY <1>2, <1>5 DEF FlagsOK
    <3>2. p.flags = {"W"} => Owner(First, p.pg)
      BY <1>4, <1>5, <1>6, NoPteFacts DEF Owner
    <3>3. "W" \in p.flags => p.flags = {"W"}
      BY <1>5
    <3>4. pg[Source(p)].val = view[First]
      BY <1>1, <1>4, SourceFacts
    <3> QED BY <1>2, <1>4, <1>5, <3>1, <3>2, <3>3, <3>4 DEF EntryOK
  <2> QED BY <2>1, <2>2 DEF EntriesOK
<1>8. ZerosOK
  BY <1>1, <1>6 DEF ZerosOK
<1>9. CommonOK
  BY <1>4 DEF CommonOK
<1>10. OffersOK
  BY <1>1, NoneApart DEF OffersOK, OfferOK
<1>11. CopiesOK
  BY <1>1 DEF CopiesOK, CopyOK
<1> QED BY <1>7, <1>8, <1>9, <1>10, <1>11 DEF ContentsInv

\* All steps of a thread.
LEMMA StepContents ==
    ASSUME ~Overlaps, ~SharesStack, CoreInv, TlbInv, ContentsInv, CoreInv', TlbInv',
           NEW t \in Threads, Step(t)
    PROVE  ContentsInv'
<1>1. CASE Quiet(t)
  BY <1>1, QuietContents
<1>2. CASE UserFill(t)
  BY <1>2, UserFillContents
<1>3. CASE UserWrite(t)
  BY <1>3, UserWriteContents
<1>4. CASE RunDie(t)
  BY <1>4, RunDieContents
<1>5. CASE PgfaultShared(t) \/ PgfaultRead(t)
  BY <1>5, FillContents
<1>6. CASE PgfaultClaim(t)
  BY <1>6, ClaimContents
<1>7. CASE PgfaultCopy(t)
  BY <1>7, CopyContents
<1>8. CASE Page_insert(t)
  BY <1>8, InsertContents
<1>9. CASE Munmap(t) /\ vm[Home[t]].mapped
  BY <1>9, MunmapContents
<1>10. CASE \E b \in Spaces, stack \in BOOLEAN : Ptefork(t, b, stack)
  BY <1>10, PteforkContents
<1>11. CASE Vm_forkStack(t)
  BY <1>11, Vm_forkStackContents
<1>12. CASE \E c \in CPUs : tlb_shootdown(t, c)
  BY <1>12, ShootdownContents
<1> QED BY <1>1, <1>2, <1>3, <1>4, <1>5, <1>6, <1>7, <1>8, <1>9, <1>10, <1>11, <1>12
        DEF Step, Quiet

\* All steps keep the contents right.
LEMMA NextContents ==
    ASSUME [~Overlaps /\ ~SharesStack]_vars, CoreInv, TlbInv, ContentsInv, CoreInv', TlbInv',
           [Next]_vars
    PROVE  ContentsInv'
<1>1. CASE UNCHANGED vars
  <2>1. /\ \A a \in Spaces : SameSpace(a)
        /\ KeptVals /\ UNCHANGED <<mtype, view, cpu, th>>
    BY <1>1 DEF vars, KeptVals, SameSpace
  <2> QED BY <2>1, SameEntries
<1>2. ASSUME NEW t \in Threads, Step(t), ~UNCHANGED vars PROVE ContentsInv'
  BY <1>2, StepContents
<1>3. ASSUME NEW t \in Threads, ShootDone(t) PROVE ContentsInv'
  BY <1>3, ShootDoneFacts, DoneContents
<1>4. ASSUME NEW t \in Threads, NEW c \in CPUs, Condflush(t, c) PROVE ContentsInv'
  BY <1>4, CondflushFacts, DoneContents
<1>5. ASSUME NEW c \in CPUs, TlbInterrupt(c) PROVE ContentsInv'
  BY <1>5, TlbInterruptContents
<1> QED BY <1>1, <1>2, <1>3, <1>4, <1>5, NextSteps

\* What the invariant says of a thread that runs.
LEMMA ContentsIsolated ==
    ASSUME CoreInv, ContentsInv
    PROVE  Isolated
<1> SUFFICES ASSUME NEW a \in Spaces, vm[a].alive, vm[a].mapped
             PROVE  /\ pg[Source(vm[a].pte)].val = view[a]
                    /\ "W" \in vm[a].pte.flags /\ ~Shared =>
                         /\ vm[a].pte.pg \in Frames
                         /\ \A b \in Spaces \ {a} : vm[b].pte.pg # vm[a].pte.pg
                    /\ \A t \in Threads :
                         User(t) /\ Home[t] = a /\ ~Replacing(a) /\ Tlb(t) # NoEntry =>
                           /\ pg[Tlb(t).pg].val = view[a]
                           /\ Tlb(t).w => Tlb(t).pg = vm[a].pte.pg
  BY DEF Isolated
<1>1. EntryOK(a) /\ vm[a].pte \in Ptes
  BY StateTypes, AsType DEF ContentsInv, EntriesOK, CoreInv
<1>2. ASSUME NEW t \in Threads, User(t), Home[t] = a, ~Replacing(a), Tlb(t) # NoEntry
      PROVE  pg[Tlb(t).pg].val = view[a] /\ Tlb(t).pg = vm[a].pte.pg
  <2>1. PICK k \in CPUs : k = th[t].cpu
    BY <1>2, UserCpu DEF User, At
  <2>2. cpu[k].cr3 = a /\ ~Replacing(a) /\ cpu[k].tlb = Tlb(t) /\ cpu[k] \in CpuRecs
    BY <1>2, <2>1, StateTypes DEF User, At, Tlb, CoreInv, ThreadsInv, ThreadOK
  <2>3. OfferOK(k, a)
    BY DEF ContentsInv, OffersOK
  <2>4. Tlb(t).pg = vm[a].pte.pg /\ Tlb(t).pg \in Pages
    BY <1>2, <2>2, <2>3, CpuType DEF OfferOK
  <2>5. Present(vm[a].pte)
    BY <1>1, <2>4, PteType, NoneApart
  <2>6. Source(vm[a].pte) = Tlb(t).pg
    BY <2>4, <2>5 DEF Source
  <2> QED BY <1>1, <2>4, <2>6 DEF EntryOK
<1> QED BY <1>1, <1>2 DEF EntryOK, FlagsOK, Owner

\* Every address space has a memory of its own, which faults, forks, copies and
\* shootdowns of others never change, whatever the order of the steps.  Only three
\* kinds of steps can break this: an early reload, a write to a page that another
\* thread of the process has released and not shot down yet, and a fork by a thread
\* whose stack page is copy-on-write already.
THEOREM MemoriesIsolated ==
    Spec /\ [][~EarlyReloads]_vars /\ [][~Overlaps /\ ~SharesStack]_vars => []Isolated
<1>1. Init => ContentsInv
  BY InitContents
<1>2. TlbsInv /\ TlbsInv' /\ ContentsInv /\ [Next]_vars /\ [~Overlaps /\ ~SharesStack]_vars
        => ContentsInv'
  <2> SUFFICES ASSUME TlbsInv, TlbsInv', ContentsInv, [Next]_vars,
                      [~Overlaps /\ ~SharesStack]_vars
               PROVE  ContentsInv'
    OBVIOUS
  <2>1. CoreInv /\ TlbInv /\ CoreInv' /\ TlbInv'
    BY DEF TlbsInv
  <2> QED BY <2>1, NextContents
<1>3. TlbsInv /\ ContentsInv => Isolated
  BY ContentsIsolated DEF TlbsInv
<1> QED BY <1>1, <1>2, <1>3, TlbsInvariant, PTL DEF Spec

===============================================================================
