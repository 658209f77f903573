---------------------------------- MODULE Vm ----------------------------------
(***************************************************************************)
(* Address spaces (vm/as.go, vm/pmap.go), counted pages (mem/mem.go) and   *)
(* the TLBs of the CPUs: copy-on-write fork, page faults, munmap, exit,    *)
(* loading and counting of page maps (proc.go, Userrun in the runtime) and *)
(* TLB shootdown.                                                          *)
(*                                                                         *)
(* Every address space has one region of one page, which is enough for     *)
(* what a page can go through.  An action is one access to shared memory   *)
(* or a stretch of code that holds the lock of the address space and that  *)
(* no other CPU can see the middle of.  User programs fill the TLB of      *)
(* their CPU from the page table without any lock and write through it.    *)
(***************************************************************************)
EXTENDS Integers, FiniteSets

CONSTANTS CPUs, Threads,
          Spaces, Home,    \* address spaces, named by their page maps; the one of a thread
          First,           \* the address space that there is at the start
          Frames,          \* physical pages of user memory
          Zero, File,      \* mem.Zeropg; the page of the mapped file in the block cache
          None,
          Starts,          \* a kind of region, and the threads that First starts with
          MaxWrites, MaxForks,
          Overlap,         \* threads use a page while another thread of theirs replaces it
          EarlyReload,     \* a CPU loads a page map again before it was cleared in the mask
          StackShared      \* the stack of a thread that forks may be copy-on-write

\* Private and shared, anonymous and file mappings.
Kinds == {"anon", "shareanon", "file", "sharefile"}

ASSUME VmAssumption ==
    /\ Home \in [Threads -> Spaces] /\ First \in Spaces
    /\ Starts \subseteq Kinds \X SUBSET {t \in Threads : Home[t] = First}
    /\ IsFiniteSet(Spaces) /\ IsFiniteSet(CPUs) /\ IsFiniteSet(Threads)
    /\ Zero \notin Frames /\ File \notin Frames /\ Zero # File
    /\ None \notin Frames \cup {Zero, File} \cup Spaces \cup CPUs \cup Threads
    /\ MaxWrites \in Nat /\ MaxForks \in Nat
    /\ {Overlap, EarlyReload, StackShared} \subseteq BOOLEAN

VARIABLES pg,      \* pages: Refcnt and contents
          vm,      \* Vm_t: region, page table entry, lock; count and Cpumask of its page map
          cpu,     \* cr3 and TLB of every CPU
          th,      \* every thread
          mtype,   \* the kind of the region
          view,    \* history: what an address space has in its page
          writes, forks,
          panic

vars == <<pg, vm, cpu, th, mtype, view, writes, forks, panic>>

Pages  == Frames \cup {Zero, File}
Shared == mtype \in {"shareanon", "sharefile"}

\* Page table entries: the page and the flags PTE_W, PTE_COW and PTE_WASCOW.
Pte(g, f) == [pg |-> g, flags |-> f]
NoPte     == Pte(None, {})
Present(p) == p # NoPte

\* TLB entries.
NoEntry  == [pg |-> None, w |-> FALSE]
Entry(p) == [pg |-> p.pg, w |-> "W" \in p.flags]

NoDec == [pm |-> None, cpu |-> None]
NoSpace == [alive |-> FALSE, mapped |-> FALSE, pte |-> NoPte, lock |-> None, doomed |-> FALSE,
            ref |-> 0, mask |-> {}]
Thread(pc) == [pc |-> pc, cpu |-> None, op |-> "none", odec |-> NoDec, new |-> None,
               old |-> FALSE, child |-> None, failed |-> FALSE, stale |-> {}]

\* The page is mapped at once (mmap of anonymous memory) or by the first fault.
Init ==
    /\ \E s \in Starts :
         /\ mtype = s[1]
         /\ th = [t \in Threads |-> Thread(IF t \in s[2] THEN "run" ELSE "none")]
    /\ \E g \in Frames, eager \in BOOLEAN :
         /\ mtype = "shareanon" => eager
         /\ eager => mtype \in {"anon", "shareanon"}
         /\ pg = [p \in Pages |->
                    [ref |-> IF p \in {Zero, File} \/ (p = g /\ eager) THEN 1 ELSE 0, val |-> 0]]
         /\ vm = [a \in Spaces |->
                    IF a # First THEN NoSpace
                    ELSE [NoSpace EXCEPT !.alive = TRUE, !.mapped = TRUE, !.ref = 1,
                            !.pte = IF eager THEN Pte(g, {"W"}) ELSE NoPte]]
    /\ cpu = [c \in CPUs |-> [cr3 |-> None, tlb |-> NoEntry]]
    /\ view = [a \in Spaces |-> 0] /\ writes = 0 /\ forks = 0 /\ panic = FALSE

(***************************************************************************)
(* Pages.                                                                  *)
(***************************************************************************)
Refup(f, g)   == [f EXCEPT ![g].ref = @ + 1]
Refdown(f, g) == [f EXCEPT ![g].ref = @ - 1]
Unmap(f, p)   == IF Present(p) THEN Refdown(f, p.pg) ELSE f

\* A page that is not counted is on a free list, unless somebody has just taken it.
FreePages == {g \in Frames : pg[g].ref = 0 /\ \A t \in Threads : th[t].new # g}

(***************************************************************************)
(* The kernel's loop around a user program (Proc_t.run).                   *)
(***************************************************************************)
At(t, pc)   == ~panic /\ th[t].pc = pc
OnCpu(c)    == {t \in Threads : th[t].cpu = c}
Space(t)    == vm[Home[t]]
Go(t, pc)   == th' = [th EXCEPT ![t].pc = pc]
Flushed(c)  == [cpu EXCEPT ![c].tlb = NoEntry]

\* The thread has been in the kernel, and goes on to release the page map that
\* its CPU had loaded before.
Back(r) == [r EXCEPT !.pc = IF r.odec = NoDec THEN "run" ELSE "clear", !.cpu = None,
                     !.op = "none", !.new = None, !.old = FALSE, !.child = None,
                     !.failed = FALSE, !.stale = {}]
Return(t) == th' = [th EXCEPT ![t] = Back(@)]

\* The page map whose count Proc_t.run takes back: the one that was loaded before.
\* (Faulty variant: the one that is loaded now.)
Odec_new(t, c) == IF cpu[c].cr3 = None THEN NoDec ELSE [pm |-> Home[t], cpu |-> c]
Odec(t, c)     == IF cpu[c].cr3 = None THEN NoDec ELSE [pm |-> cpu[c].cr3, cpu |-> c]

\* Userrun on a CPU that has the page map already, and on one that loads it.
UserrunSame(t, c) ==
    /\ At(t, "run") /\ ~Space(t).doomed /\ OnCpu(c) = {}
    /\ cpu[c].cr3 = Home[t]
    /\ th' = [th EXCEPT ![t].pc = "user", ![t].cpu = c]
    /\ UNCHANGED <<pg, vm, cpu, mtype, view, writes, forks, panic>>

UserrunLoad(t, c) ==
    /\ At(t, "run") /\ ~Space(t).doomed /\ OnCpu(c) = {}
    /\ cpu[c].cr3 # Home[t]
    /\ EarlyReload \/ \A u \in Threads : th[u].odec # [pm |-> Home[t], cpu |-> c]
    /\ vm' = [vm EXCEPT ![Home[t]].ref = @ + 1]
    /\ cpu' = [cpu EXCEPT ![c] = [cr3 |-> Home[t], tlb |-> NoEntry]]
    /\ th' = [th EXCEPT ![t].pc = "mask", ![t].cpu = c, ![t].odec = Odec(t, c)]
    /\ UNCHANGED <<pg, mtype, view, writes, forks, panic>>

\* Interrupts are off until the CPU is in the mask of the page map.
UserrunMask(t) ==
    /\ At(t, "mask") /\ Go(t, "user")
    /\ vm' = [vm EXCEPT ![Home[t]].mask = @ \cup {th[t].cpu}]
    /\ UNCHANGED <<pg, cpu, mtype, view, writes, forks, panic>>

RunClear(t) ==
    /\ At(t, "clear") /\ Go(t, "dec")
    /\ vm' = [vm EXCEPT ![th[t].odec.pm].mask = @ \ {th[t].odec.cpu}]
    /\ UNCHANGED <<pg, cpu, mtype, view, writes, forks, panic>>

RunDec(t) ==
    /\ At(t, "dec")
    /\ vm' = [vm EXCEPT ![th[t].odec.pm].ref = @ - 1]
    /\ th' = [th EXCEPT ![t].pc = "run", ![t].odec = NoDec]
    /\ UNCHANGED <<pg, cpu, mtype, view, writes, forks, panic>>

\* A thread of a doomed process dies before it would run again; the last one frees
\* the memory and lets go of the page map (terminate, Uvmfree).  No TLB is flushed.
Terminate(f, a) ==
    [f EXCEPT ![a] = [NoSpace EXCEPT !.ref = f[a].ref - 1, !.mask = f[a].mask]]

RunDie(t) ==
    /\ At(t, "run") /\ Space(t).doomed
    /\ LET last == \A u \in Threads \ {t} : Home[u] = Home[t] => th[u].pc = "none"
       IN  /\ vm' = IF last THEN Terminate(vm, Home[t]) ELSE vm
           /\ pg' = IF last THEN Unmap(pg, Space(t).pte) ELSE pg
    /\ th' = [th EXCEPT ![t] = Thread("none")]
    /\ UNCHANGED <<cpu, mtype, view, writes, forks, panic>>

(***************************************************************************)
(* User programs.                                                          *)
(***************************************************************************)
User(t) == At(t, "user")
Tlb(t)  == cpu[th[t].cpu].tlb

\* Between the release of a page and the end of the shootdown other threads may
\* still use it through their TLBs.
Replacing(a) == \E t \in Threads : Home[t] = a /\ th[t].old
MayUse(t)    == Overlap \/ ~Replacing(Home[t])

\* The walk of the page table by the CPU.
UserFill(t) ==
    /\ User(t) /\ Tlb(t) = NoEntry /\ Present(Space(t).pte)
    /\ cpu' = [cpu EXCEPT ![th[t].cpu].tlb = Entry(Space(t).pte)]
    /\ UNCHANGED <<pg, vm, th, mtype, view, writes, forks, panic>>

\* A write changes the memory of the address space, of those that share it, and
\* of a child that is being made from it and still has the page.
Sees(a, b, g) == \/ b = a \/ Shared
                 \/ /\ \E t \in Threads : Home[t] = a /\ th[t].child = b
                    /\ vm[b].pte.pg = g
UserWrite(t) ==
    /\ User(t) /\ Tlb(t).w /\ MayUse(t) /\ writes < MaxWrites
    /\ writes' = writes + 1
    /\ pg' = [pg EXCEPT ![Tlb(t).pg].val = writes']
    /\ view' = [b \in Spaces |-> IF Sees(Home[t], b, Tlb(t).pg) THEN writes' ELSE view[b]]
    /\ UNCHANGED <<vm, cpu, th, mtype, forks, panic>>

\* An exception or an interrupt ends Userrun and flushes the TLB (sched_run), a
\* system call does not.
Leave(t, op) == th' = [th EXCEPT ![t].pc = "trap", ![t].cpu = None, ![t].op = op]

UserFault(t, w) ==
    /\ User(t) /\ MayUse(t)
    /\ IF Tlb(t) = NoEntry THEN ~Present(Space(t).pte) ELSE w /\ ~Tlb(t).w
    /\ Leave(t, IF w THEN "wfault" ELSE "rfault")
    /\ cpu' = Flushed(th[t].cpu)
    /\ UNCHANGED <<pg, vm, mtype, view, writes, forks, panic>>

\* The timer; trap_proc has nothing to do for it.
UserTimer(t) ==
    /\ User(t) /\ Return(t)
    /\ cpu' = Flushed(th[t].cpu)
    /\ UNCHANGED <<pg, vm, mtype, view, writes, forks, panic>>

\* A system call leaves the CPU and goes on once the lock of the address space is
\* free; until then it has done nothing.
CanLock(t) == Space(t).lock = None
Syscall(t) == User(t) /\ CanLock(t)

Sys_exit(t) ==
    /\ User(t) /\ Return(t)
    /\ vm' = [vm EXCEPT ![Home[t]].doomed = TRUE]
    /\ UNCHANGED <<pg, cpu, mtype, view, writes, forks, panic>>

(***************************************************************************)
(* Page faults (Vm_t.Pgfault, Sys_pgfault).                                *)
(***************************************************************************)
IsWrite(t)  == th[t].op = "wfault"
Fault(t)    == At(t, "trap") /\ CanLock(t)
Private(t)  == Fault(t) /\ Space(t).mapped /\ ~Shared
SetPte(t, p) == vm' = [vm EXCEPT ![Home[t]].pte = p]

\* Another thread has faulted on the page and is done.
Same(t) == LET p == Space(t).pte
           IN  IF IsWrite(t) THEN "WASCOW" \in p.flags ELSE Present(p)

\* No region there: the process is killed.
PgfaultKill(t) ==
    /\ Fault(t) /\ ~Space(t).mapped /\ Return(t)
    /\ vm' = [vm EXCEPT ![Home[t]].doomed = TRUE]
    /\ UNCHANGED <<pg, cpu, mtype, view, writes, forks, panic>>

PgfaultSame(t) ==
    /\ Fault(t) /\ Space(t).mapped /\ Same(t) /\ Return(t)
    /\ UNCHANGED <<pg, vm, cpu, mtype, view, writes, forks, panic>>

\* The entry has to be empty for a shared file and for a read, and to be empty or
\* copy-on-write for a write; shared anonymous memory never faults.
PgfaultPanic(t) ==
    /\ Fault(t) /\ Space(t).mapped /\ ~Same(t)
    /\ \/ mtype = "shareanon"
       \/ Present(Space(t).pte) /\ (Shared \/ "COW" \notin Space(t).pte.flags)
    /\ panic' = TRUE
    /\ UNCHANGED <<pg, vm, cpu, th, mtype, view, writes, forks>>

\* Filepage has counted the page of the file for the caller.
PgfaultShared(t) ==
    /\ Fault(t) /\ Space(t).mapped /\ mtype = "sharefile" /\ ~Present(Space(t).pte)
    /\ SetPte(t, Pte(File, {"W"})) /\ pg' = Refup(pg, File) /\ Return(t)
    /\ UNCHANGED <<cpu, mtype, view, writes, forks, panic>>

PgfaultRead(t) ==
    /\ Private(t) /\ ~IsWrite(t) /\ ~Present(Space(t).pte)
    /\ LET g == IF mtype = "anon" THEN Zero ELSE File
       IN  SetPte(t, Pte(g, {"COW"})) /\ pg' = Refup(pg, g)
    /\ Return(t)
    /\ UNCHANGED <<cpu, mtype, view, writes, forks, panic>>

\* A write to a page that only this entry has needs no copy.
\* (Faulty variant: the entry of the other process is not counted.)
Claimable_two(p) == mtype = "anon" /\ pg[p.pg].ref <= 2 /\ p.pg # Zero
Claimable(p)     == mtype = "anon" /\ pg[p.pg].ref = 1 /\ p.pg # Zero
Writable(g)      == Pte(g, {"W", "WASCOW"})

PgfaultClaim(t) ==
    /\ Private(t) /\ IsWrite(t)
    /\ "COW" \in Space(t).pte.flags /\ Claimable(Space(t).pte)
    /\ vm' = [vm EXCEPT ![Home[t]].pte = Writable(@.pg), ![Home[t]].lock = t]
    /\ Go(t, "flush")
    /\ UNCHANGED <<pg, cpu, mtype, view, writes, forks, panic>>

\* What the new page is a copy of.
Source(p) == IF Present(p) THEN p.pg ELSE IF mtype = "anon" THEN Zero ELSE File

PgfaultCopy(t) ==
    /\ Private(t) /\ IsWrite(t) /\ ~Same(t)
    /\ LET p == Space(t).pte
       IN  /\ Present(p) => "COW" \in p.flags /\ ~Claimable(p)
           /\ \E g \in FreePages :
                /\ pg' = [pg EXCEPT ![g].val = pg[Source(p)].val]
                /\ th' = [th EXCEPT ![t].pc = "insert", ![t].new = g]
    /\ vm' = [vm EXCEPT ![Home[t]].lock = t]
    /\ UNCHANGED <<cpu, mtype, view, writes, forks, panic>>

\* ENOMEM kills the process too.
PgfaultNoMem(t) ==
    /\ Private(t) /\ IsWrite(t) /\ ~Same(t) /\ FreePages = {}
    /\ LET p == Space(t).pte IN Present(p) => "COW" \in p.flags /\ ~Claimable(p)
    /\ vm' = [vm EXCEPT ![Home[t]].doomed = TRUE] /\ Return(t)
    /\ UNCHANGED <<pg, cpu, mtype, view, writes, forks, panic>>

\* _page_insert: the page that was there is released before the shootdown.
Page_insert(t) ==
    /\ At(t, "insert")
    /\ LET g == th[t].new  p == Space(t).pte
       IN  /\ pg' = Unmap(Refup(pg, g), p)
           /\ vm' = [vm EXCEPT ![Home[t]].pte = Writable(g),
                               ![Home[t]].lock = IF Present(p) THEN t ELSE None]
           /\ th' = [th EXCEPT ![t] = IF Present(p)
                                      THEN [@ EXCEPT !.pc = "flush", !.new = None, !.old = TRUE]
                                      ELSE Back(@)]
    /\ UNCHANGED <<cpu, mtype, view, writes, forks, panic>>

(***************************************************************************)
(* munmap and fork.                                                        *)
(***************************************************************************)
Munmap(t) ==
    /\ Syscall(t)
    /\ IF Space(t).mapped
       THEN /\ vm' = [vm EXCEPT ![Home[t]].mapped = FALSE, ![Home[t]].pte = NoPte,
                                ![Home[t]].lock = t]
            /\ pg' = Unmap(pg, Space(t).pte)
            /\ th' = [th EXCEPT ![t].pc = "flush", ![t].cpu = None, ![t].old = TRUE]
       ELSE Return(t) /\ UNCHANGED <<pg, vm>>
    /\ UNCHANGED <<cpu, mtype, view, writes, forks, panic>>

\* Writable entries become copy-on-write in both, unless the region is shared
\* anonymous memory.
Cow(p) == IF "W" \in p.flags /\ mtype # "shareanon"
          THEN Pte(p.pg, (p.flags \ {"W", "WASCOW"}) \cup {"COW"}) ELSE p

Forked(p) == IF Present(p) THEN Refup(pg, p.pg) ELSE pg

\* (stack: the page is the one that the thread has its stack in.)
Ptefork(t, b, stack) ==
    /\ Syscall(t) /\ forks < MaxForks
    /\ stack => mtype = "anon" /\ Present(Space(t).pte)
    /\ StackShared \/ ~stack \/ "W" \in Space(t).pte.flags
    /\ ~vm[b].alive /\ vm[b].ref = 0 /\ \E u \in Threads : Home[u] = b
    /\ \A u \in Threads : th[u].child # b
    /\ LET p == Cow(Space(t).pte)
       IN  /\ vm' = [vm EXCEPT ![Home[t]].pte = p, ![Home[t]].lock = t,
                               ![b] = [NoSpace EXCEPT !.alive = TRUE, !.ref = 1, !.pte = p,
                                         !.mapped = Space(t).mapped, !.mask = vm[b].mask]]
           /\ pg' = Forked(p)
    /\ th' = [th EXCEPT ![t].pc = IF stack THEN "stack" ELSE "flush", ![t].cpu = None,
                        ![t].child = b]
    /\ view' = [view EXCEPT ![b] = view[Home[t]]]
    /\ forks' = forks + 1
    /\ UNCHANGED <<cpu, mtype, writes, panic>>

\* The stack is copied at once, and the parent keeps the page it had.  No CPU has
\* the child's page map, whose shootdown ends at once.
Vm_forkStack(t) ==
    /\ At(t, "stack")
    /\ LET b == th[t].child  p == vm[b].pte
       IN  \/ \E g \in FreePages :
                /\ pg' = [Refdown(Refup(pg, g), p.pg) EXCEPT ![g].val = pg[p.pg].val]
                /\ vm' = [vm EXCEPT ![b].pte = Writable(g), ![Home[t]].pte = Writable(p.pg)]
                /\ Go(t, "flush")
           \/ /\ FreePages = {}
              /\ th' = [th EXCEPT ![t].pc = "flush", ![t].failed = TRUE]
              /\ UNCHANGED <<pg, vm>>
    /\ UNCHANGED <<cpu, mtype, view, writes, forks, panic>>

(***************************************************************************)
(* Tlbshoot, by a thread that has the lock; then it gives the lock back.   *)
(***************************************************************************)
\* The end of the call: a child starts, or is cleaned up if its stack could not
\* be copied.
Done(t, f) ==
    LET r == th[t]  b == r.child
        unlocked == [f EXCEPT ![Home[t]].lock = None]
    IN  /\ vm' = IF r.failed THEN Terminate(unlocked, b) ELSE unlocked
        /\ pg' = IF r.failed THEN Unmap(pg, vm[b].pte) ELSE pg
        /\ th' = [u \in Threads |->
                    IF u = t THEN Back(r)
                    ELSE IF b # None /\ Home[u] = b /\ ~r.failed THEN Thread("run") ELSE th[u]]

\* The fast path: only this CPU has the page map.
\* (Faulty variant: the count of another CPU is overlooked.)
Alone_two(a) == vm[a].ref <= 3
Alone(a)     == vm[a].ref <= 2

Condflush(t, c) ==
    /\ At(t, "flush") /\ OnCpu(c) = {}
    /\ cpu[c].cr3 = Home[t] /\ Alone(Home[t])
    /\ cpu' = Flushed(c) /\ Done(t, vm)
    /\ UNCHANGED <<mtype, view, writes, forks, panic>>

\* Otherwise the CPUs in the mask get an interrupt each, and the thread spins until
\* all have acknowledged it; stale has those that have not.
tlb_shootdown(t, c) ==
    /\ At(t, "flush") /\ OnCpu(c) = {}
    /\ ~(cpu[c].cr3 = Home[t] /\ Alone(Home[t]))
    /\ th' = [th EXCEPT ![t].pc = "shoot", ![t].cpu = c, ![t].stale = Space(t).mask]
    /\ UNCHANGED <<pg, vm, cpu, mtype, view, writes, forks, panic>>

\* The interrupt handler acknowledges all shootdowns that are going on, and flushes
\* the TLB if one is for the page map that is loaded.  A user program is interrupted,
\* which flushes too (sched_run).  Userrun loads with interrupts off.
TlbInterrupt(c) ==
    /\ ~panic
    /\ \E t \in Threads : th[t].pc = "shoot" /\ c \in th[t].stale
    /\ \A t \in OnCpu(c) : th[t].pc # "mask"
    /\ cpu' = IF \/ \E t \in Threads : th[t].pc = "shoot" /\ Home[t] = cpu[c].cr3
                \/ \E t \in OnCpu(c) : th[t].pc = "user"
              THEN Flushed(c) ELSE cpu
    /\ th' = [t \in Threads |->
                CASE th[t].pc = "shoot" -> [th[t] EXCEPT !.stale = @ \ {c}]
                  [] th[t].pc = "user" /\ th[t].cpu = c -> Back(th[t])
                  [] OTHER -> th[t]]
    /\ UNCHANGED <<pg, vm, mtype, view, writes, forks, panic>>

ShootDone(t) ==
    /\ At(t, "shoot") /\ th[t].stale = {}
    /\ Done(t, vm)
    /\ UNCHANGED <<cpu, mtype, view, writes, forks, panic>>

Next ==
    \/ \E t \in Threads, c \in CPUs :
         UserrunSame(t, c) \/ UserrunLoad(t, c) \/ Condflush(t, c) \/ tlb_shootdown(t, c)
    \/ \E t \in Threads :
         \/ UserrunMask(t) \/ RunClear(t) \/ RunDec(t) \/ RunDie(t)
         \/ UserFill(t) \/ UserWrite(t) \/ UserTimer(t) \/ Sys_exit(t)
         \/ PgfaultKill(t) \/ PgfaultSame(t) \/ PgfaultPanic(t) \/ PgfaultShared(t)
         \/ PgfaultRead(t) \/ PgfaultClaim(t) \/ PgfaultCopy(t) \/ PgfaultNoMem(t)
         \/ Page_insert(t) \/ Munmap(t) \/ Vm_forkStack(t) \/ ShootDone(t)
    \/ \E t \in Threads, w \in BOOLEAN : UserFault(t, w)
    \/ \E t \in Threads, b \in Spaces, stack \in BOOLEAN : Ptefork(t, b, stack)
    \/ \E c \in CPUs : TlbInterrupt(c)

Spec == Init /\ [][Next]_vars

(***************************************************************************)
(* The steps that break the properties below.  The code takes them; the    *)
(* constants leave them out, and the theorems name them as hypotheses.     *)
(***************************************************************************)
\* A CPU loads a page map that a thread has yet to clear it from (proc.go:480).
EarlyReloads ==
    \E t \in Threads, c \in CPUs :
        UserrunLoad(t, c) /\ \E u \in Threads : th[u].odec = [pm |-> Home[t], cpu |-> c]

\* A thread writes to a page that another one of its process has released and not
\* yet shot down (as.go:546).
Overlaps == \E t \in Threads : UserWrite(t) /\ Replacing(Home[t])

\* A thread forks whose stack is in a page that is copy-on-write already (proc.go:329).
SharesStack ==
    \E t \in Threads, b \in Spaces : Ptefork(t, b, TRUE) /\ "W" \notin Space(t).pte.flags

-------------------------------------------------------------------------------
Places  == {"none", "run", "mask", "user", "clear", "dec", "trap", "insert", "stack", "flush",
            "shoot"}
Flags   == {"W", "COW", "WASCOW"}
Ptes    == {NoPte} \cup [pg : Pages, flags : SUBSET Flags]
Entries == {NoEntry} \cup [pg : Pages, w : BOOLEAN]
Odecs   == {NoDec} \cup [pm : Spaces, cpu : CPUs]
PgRecs  == [ref : Nat, val : Nat]
AsRecs  == [alive : BOOLEAN, mapped : BOOLEAN, pte : Ptes, lock : Threads \cup {None},
            doomed : BOOLEAN, ref : Nat, mask : SUBSET CPUs]
CpuRecs == [cr3 : Spaces \cup {None}, tlb : Entries]
ThRecs  == [pc : Places, cpu : CPUs \cup {None}, op : {"none", "rfault", "wfault"},
            odec : Odecs, new : Frames \cup {None}, old : BOOLEAN,
            child : Spaces \cup {None}, failed : BOOLEAN, stale : SUBSET CPUs]
TypeOK ==
    /\ pg \in [Pages -> PgRecs] /\ vm \in [Spaces -> AsRecs]
    /\ cpu \in [CPUs -> CpuRecs] /\ th \in [Threads -> ThRecs]
    /\ mtype \in Kinds /\ view \in [Spaces -> Nat]
    /\ writes \in Nat /\ forks \in Nat /\ panic \in BOOLEAN

\* Every address space has a memory of its own (fork copies it, a shared region
\* is common to all): its entry leads to what it has, nobody else maps a page that
\* it may write, and what a TLB offers to a thread that runs is the same.
\* Hazard: pages are shared, claimed and copied by faults of two processes at a
\* time (as.go:412), and parents' TLBs are flushed after their entries changed.
Isolated ==
    \A a \in Spaces :
        LET p == vm[a].pte
        IN  vm[a].alive /\ vm[a].mapped =>
              /\ pg[Source(p)].val = view[a]
              /\ "W" \in p.flags /\ ~Shared =>
                   p.pg \in Frames /\ \A b \in Spaces \ {a} : vm[b].pte.pg # p.pg
              /\ \A t \in Threads :
                   User(t) /\ Home[t] = a /\ ~Replacing(a) /\ Tlb(t) # NoEntry =>
                     /\ pg[Tlb(t).pg].val = view[a]
                     /\ Tlb(t).w => Tlb(t).pg = p.pg

\* A TLB offers nothing that the page table does not have, for every CPU that has
\* the page map loaded while nobody changes it: a shootdown reaches all of them,
\* also those that load the map meanwhile, and the fast path skips none.
TlbCurrent ==
    \A c \in CPUs, a \in Spaces :
        cpu[c].cr3 = a /\ vm[a].alive /\ vm[a].lock = None /\ cpu[c].tlb # NoEntry =>
          /\ cpu[c].tlb.pg = vm[a].pte.pg
          /\ cpu[c].tlb.w => "W" \in vm[a].pte.flags

\* The same of the CPUs that are in the mask of the page map, which the code
\* guarantees even when CPUs load page maps again early.
MaskedCurrent ==
    \A a \in Spaces : \A c \in vm[a].mask :
        cpu[c].cr3 = a /\ vm[a].alive /\ vm[a].lock = None /\ cpu[c].tlb # NoEntry =>
          /\ cpu[c].tlb.pg = vm[a].pte.pg
          /\ cpu[c].tlb.w => "W" \in vm[a].pte.flags

\* Pages and page maps are free exactly when nothing uses them.  A page is counted
\* once per entry that leads to it, across fork, faults, failing forks, munmap and
\* exit.  A page map is counted by its process, by every CPU that has it loaded, and
\* by every thread that is still to take back the count of a CPU: none is reused
\* while a CPU runs on it, although counts are taken back late (proc.go:477).
PagesCounted ==
    \A g \in Pages :
        pg[g].ref = Cardinality({a \in Spaces : vm[a].pte.pg = g})
                    + (IF g \in {Zero, File} THEN 1 ELSE 0)
PmapsCounted ==
    \A a \in Spaces :
        vm[a].ref = Cardinality({c \in CPUs : cpu[c].cr3 = a})
                    + Cardinality({t \in Threads : th[t].odec.pm = a})
                    + (IF vm[a].alive THEN 1 ELSE 0)
RefsCounted == PagesCounted /\ PmapsCounted

\* A CPU that has a page map loaded is in its mask.  Does not hold with EarlyReload:
\* a thread clears its CPU from the old map late, when the CPU may have loaded that
\* map again (proc.go:480).
MaskCovers ==
    \A c \in CPUs : cpu[c].cr3 # None /\ (\A t \in OnCpu(c) : th[t].pc # "mask") =>
                      c \in vm[cpu[c].cr3].mask

\* No fault ends in a panic.  Does not hold for shared file mappings (as.go:380).
NoPanic == ~panic
===============================================================================
