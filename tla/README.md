# Biscuit in TLA+

Biscuit is a POSIX-subset kernel written in Go (`src/biscuit/src`). This
directory specifies the parts of it where concurrency, crashes and limits make
testing hard, model-checks them with TLC on small instances and proves most of
their safety properties with TLAPS for all instances. `PROJECT.json` holds the runs, the
mutants that show that each property can fail, the map from definitions to source
lines, and the hazards that the properties are aimed at.

All paths below are relative to `src/biscuit/src`; `os_linux.go` is `src/src/runtime/os_linux.go`,
the part of the Go runtime that is Biscuit's own.

## 1. Inventory

| Component | State | Operations | What is hard |
|---|---|---|---|
| **Log** `fs/log.go` | two transactions, in-memory log, header, list of committed transactions | `Op_begin`, `Write`, `Write_ordered`, `Op_end`, `Force`, `StopLog`, committer (`commit`, `apply`), `recover` | commit runs unlocked beside the next transaction; volatile drive cache; crashes; revoke records; admission against a bounded log |
| **Object and block cache** `fs/cache.go`, `fs/bdev.go`, `fs/blk.go` | hashtable of counted objects, pages, pins | `Lookup`, `Remove`, `Evict_half`, `Get_*`, `Relse`, `pin`, `Unpin` | lock-free counts with a REMOVE bit; eviction races |
| **Names, inodes** `fs/{fs,inode,dir}.go` | inodes with lock, links and references, directory entries, the rename lock | namei, open, create, close, mkdir, unlink, rmdir, link, rename | locks of up to four inodes, lookups repeated under them, retries; references without locks |
| File data, bitmaps, super block `fs/{inode,bitmap,super}.go` | block maps, allocation bitmaps, orphan bitmap | read, write, truncate, allocate, orphan recovery | orphans and allocation across crashes |
| **Hashtable** `hashtable/` | sorted bucket lists | `Get` without lock, `Set`, `Del`, `Elems` | readers beside writers |
| **Disk driver** `ahci/` | request queue, command slots | `Start`, `queuemgr`, interrupt, flush | slots run out; flush ordering |
| **Processes and threads** `proc/{proc,wait}.go`, `tinfo/` | process table, notes, wait lists, limits | fork, thread creation, exit, kill, wait4 | kill against creation and sleep; who reaps; failed fork |
| **Out-of-memory killer** `proc/oom.go`, `res/`, `oommsg/` | reservations, channel to the killer | `Resadd`, `reign`, `dispatch_peasant` | the killer waits for a victim that waits for the killer |
| File descriptors `fd/`, `proc/proc.go` | table per process | insert, dup, close, copy at fork | close against use |
| **Pipes** `kernel/syscall.go`, **circular buffer** `circbuf/` | buffer, ends, two conditions, pollers | read, write, close, reopen, poll | wakeups, wrap-around, failing copies, restarts |
| **Poll** `fdops/fdops.go`, `sys_poll` | slots with channels | `Addpoller`, `Wakeready`, `Pm_wait` | stale slots, lost notifications |
| Unix sockets, futexes, other calls `kernel/syscall.go` | buffers, queues | send, recv, accept, futex | descriptor passing, sleeping |
| **Virtual memory** `vm/`, `proc/proc.go`, `os_linux.go`, **physical memory** `mem/` | page tables, regions, counted pages and page maps, cr3, CPU masks, TLBs | fork, fault, unmap, `Userrun`, `Tlbshoot`, exit | copy-on-write by two processes; shootdown against CPUs that load the page map |
| Network `bnet/`, `inet/`, `ixgbe/` | ARP, TCP connections, rings | TCP state machine, timers | loss, reordering, timeouts |
| Limits, bounds, accounting `limits/`, `bounds/`, `accnt/` | counters | take, give | counting down and back |
| Start-up, interrupts, PCI, APIC, console, `ufs`, `mkfs` | devices, images | - | hardware and test drivers |

**Interactions.** A system call runs in a goroutine of a thread (`Proc_t.run`);
it reserves heap (`res`), which may end in a message to the out-of-memory killer,
which dooms a process and waits for it to leave the process table. File-system
calls run between `Op_begin` and `Op_end`; they get blocks from the cache, change
them in place and hand them to the log, which holds a reference until it has
written them home. Both find their blocks and inodes through the hashtable, and use the disk
driver: the log relies on a flush to make earlier writes durable. Fork shares pages
between address spaces; `Userrun` loads page maps, and whoever changes an entry has to
reach the CPUs that have it. Sleeping calls
(pipes, wait4) use `KillableWait`, which a killer interrupts through the
thread's note. Pipes tell pollers through `Pollers_t`.

The parts in bold are modelled. What makes them correct:

- log: operations are atomic across crashes; `Force` and shutdown are durable;
  file data is written before the metadata that refers to it, and replay never
  overwrites it; reservations suffice; nobody waits for ever;
- cache: a block number has one object, counts are exact, pages are freed once,
  mapped pages stay;
- processes: an exit is reported once and when it is final; kill terminates; counts
  are exact; the out-of-memory killer makes progress;
- pipes: the stream is intact, small writes are atomic, no wakeup is lost, the
  pipe is released once;
- hashtable: a lookup without lock answers as if it were atomic, a walk is complete;
- driver: a request is executed once, pages are released after the transfer, a flush
  does not overtake queued writes, synchronous calls return;
- names: the name space stays a tree, references are counted exactly, inodes are freed when
  nothing needs them and not before, no call waits for ever;
- memory: processes see their own memory, TLBs are current, counts are exact.

## 2. Modules

| Module | Models | Used by |
|---|---|---|
| `LogFormat` | layout of the log, what recovery computes from it (`installmap`, `install`) | `Log` |
| `Log` | `fs/log.go` with disk, crash and recovery | `MCLog`, `LogProofs` |
| `Journal` | what the log promises: atomic operations, in four variables | `Log` (refinement `AtomicOps`) |
| `LogProofs` | theorems about `Log`: reservations and space, the disk, recovery, the refinement of `Journal` | |
| `Cache` | `fs/cache.go` as `fs/bdev.go` uses it | `MCCache`, `CacheProofs` |
| `Proc` | `proc/`, `tinfo/`, fork, exit, kill, wait4, the killer | `MCProc`, `ProcProofs` |
| `Circbuf` | `circbuf/circbuf.go` as operators | `Pipe` |
| `Pipe` | pipes and poll | `MCPipe`, `PipeProofs` |
| `Ahci` | `ahci/ahci.go` above the registers, with the drive | `MCAhci`, `AhciProofs` |
| `KVMap` | what a hashtable promises: a map with atomic changes | `Hashtable` (refinement `GetsLinearizable`) |
| `Hashtable` | `hashtable/hashtable.go`, one load or store at a time | `MCHashtable`, `HashtableProofs` |
| `Names` | the name space of `fs/fs.go`, `fs/inode.go`, `fs/dir.go` | `MCNames`, `NamesInv` |
| `NamesInv` | the inductive invariants of `Names` and the definitions its proofs speak of; no theorem | `NamesProofs` |
| `Vm` | address spaces, counted pages, page maps on CPUs, TLBs | `MCVm`, `VmProofs` |
| `CacheProofs`, `ProcProofs`, `PipeProofs`, `AhciProofs`, `HashtableProofs`, `NamesProofs`, `VmProofs` | theorems about the module of that name | |

The `MC*` modules add symmetry sets and the values of constants that a cfg cannot write: the
hashes in `MCHashtable`, the tree and the scenarios in `MCNames`, which thread belongs to which
address space in `MCVm`. Definitions named `X_something`, placed
before `X` and introduced as a faulty variant, are the mutants.

### Log

An action is a critical section of `log_t`'s mutex, or one stage of `commit()`
(which runs with the mutex released) or of `apply()` (which runs with it held, so
that `LockFree` is false). `trans` holds the two transactions that can be live,
`curtrans` and the committer's. The in-memory log, the platter (`mhome`, `mlog`,
`mhdr`) and the drive's write cache (`whome`, `wlog`, `whdr`) are separate: a
write goes to the cache, a flush empties it, and a crash keeps any subset of it.
Ordered blocks are sent from the cached page and transferred later, with the
contents they have then (`dma`, `TransferOrdered`). `stable` is a history variable, the
contents that recovery would restore; the check that it is what recovery does restore is
the step `Recover` of the refinement. `promised` and `ord` are histories for the
durability and the revoke properties.

**What a flush covers.** `commit` and `apply` rely on a flush to make all earlier writes durable. The driver does not
guarantee it: `start` waits until no command is issued (ahci.go:937, not the comment at 929), and when requests have
been queued for want of a slot, a flush may be issued beside a queued write and end first (`Ahci!FlushCovers` fails).
`Log` has both cases. With `Congested` FALSE, as in the runs, the slots suffice, nothing is queued, and a flush
leaves nothing behind. With `Congested` TRUE a flush may end before any of the ordered, logged, home and header writes that
came before it (`FlushReady`, `Passed`, `flush`); those stay outstanding. `FlushCovers` says of a step that its flush, if it is one, leaves nothing.
`WaitedForceDurable`, `OrderedBeforeCommit`, `NoReplayOverOrdered`, `CleanShutdown` and `AtomicOps` fail with `Congested` (section 5); the
theorems about them have the hypothesis `[][FlushCovers]_vars`. Reservations, space and progress do not need it.

Abstractions: the drive's cache keeps the last pending version of a block, not
older ones; logged blocks are stored in ascending order; the header block is
written in the same stage that flushes before it; a block is logged at most once
per transaction, as in the code. `copyrevoked` frees a page that `cancel`
reads later: with `PagesReused` the allocator may have put anything there.

### Cache

An action is one atomic access: a hashtable operation, a load, a compare-and-swap
or a decrement of a count, or a critical section of the block cache's mutex. The
REMOVE bit is a field of the object. Each hashtable operation is taken to be
atomic, which `Hashtable` justifies. `Evict_half` visits objects in any order, since the
order of the table is that of hashes. A user holds one block at a
time, takes it locked and releases it, and may pin it for a mapping. `data` says which
blocks have file data: only those are mapped, and only the others, which hold metadata (inode.go:1030, 1212,
bitmap.go:102), are evicted on release when `TryEvicts` holds. `Pin` (`Up`, then `pins` under the mutex, bdev.go:245-254) and
the end of an unmapping (`UnpinDone`) are one step each.

### Proc

Pids and tids come from one counter. An action is a critical section of the
process table, `Threadi`, a `Wait_t` or a note; the goroutine of a thread goes round
`resched`, user code and a trap. Counting a thread and taking it back when the
limit is reached happen in one step. The test of `doomed` at the entry of a call (`Syscall`), the new entry in the process
table (`Proc_new`), the note of the first thread (`First_note`) or of another one (`Thread_new`) and the reservation that `run`
makes before its first `resched` (`Resbegin`, proc.go:440) are steps of their own, since `Doomall` may come between any two of them: a note that
is added behind its back is not marked, and its thread learns of the kill at its next `resched`, unless it
sleeps at the killer's channel before that (`Missed`, section 5). Memory is not modelled: with `MemFails` a fork may
run out of it, and with `MaxOoms` a reservation may end at the killer, whose
victim is any process but init. Not modelled: a `Vm_fork` that fails in its copy of the stack leaves the child's page map
locked (proc.go:313-317), on which the killer could block.

### Pipe and Circbuf

An action is a critical section of the pipe's mutex. A byte is the pair of the
write call and its place in the user's buffer. `PIPE_BUF` is the size of the
buffer, as in the code. A copy from or to user memory may fail in the middle, which
ends the call or, with `ENOHEAP`, restarts it. `slots` are the entries of
`Pollers_t`, which keep the events and the channel of polls that are over. A poller's
descriptor is gone when its end has no descriptor left. A kill wakes those who sleep
where the thread sleeps; the code also wakes those who sleep where it slept
last, who find nothing changed and sleep again. Poll with a timeout of 0 changes
nothing and is left out. `PollEnd` is at once the timeout and the kill of a poller.

### Ahci

An action is a critical section of the port's mutex, or a step of the drive, which ends any of
the commands that it has (`ci`) and keeps writes in a volatile cache until it executes a
flush. `Start` queues a request or issues it in a slot; a queued request may take over the
blocks of the next one (`queue_coalesce`); a flush waits on `cond_flush` until no command is
issued. The interrupt handler is three steps, because the drive may end a command between the
handling of slots, the clearing of the port's status and of the host's. A request is a command,
a list of blocks, each with the call it came from, and whether the caller waits. Errors of the
drive, which panic, are not modelled.

### Hashtable and KVMap

`Set` and `Del` are atomic for others, except readers: all that a reader can see of them is one
store of a pointer, the last thing they do. `Del` of a key that is absent, which panics, is not called. `Get` and `Iter` are one load per action. An element is
never reused while a reader may be at it (the garbage collector), so `Elems` are used once. The hash
is a constant function, and keys that share a bucket or a hash are chosen in `MCHashtable`. `tab`
is the history that the refinement maps to the abstract map; in `KVMap` a lookup
answers with anything the key has had since the call, and nothing fails.

### Names

A step is what a thread does between two acquisitions of locks, or one access where the code
works without lock (`ilookup_lockfree`, `Refdown` of returned references). A call goes through
`namei` to the parent, gives up its lock, looks the name up, takes the locks of all the inodes it needs
in their order (`iref_lockall`) and validates what it found. `defers` and `refs` are the unlocks and the
references that the call still has to give back; `fresh` are directory entries that do not know their inode yet,
`gone` inodes that have left the cache and are freed.

Abstractions: the root is number 1 and numbers are not reused; paths start at the root and have no `.` or `..` (fs.go:1589-1662); the
tests of `open` for directories that are not wanted (EISDIR, ENOTDIR, fs.go:1425-1432) are left out; `rename` gives its references back in the order
of its lookups and not of the inode numbers (fs.go:404); the
directory cache may miss at any time; heap and blocks suffice; the panic after a hundred retries and device
nodes are left out; `fatal` stands for every panic and for the unlock of a free mutex.

The tree at the start is any that a file system can be mounted with (`Mounted`: as many names as links, `..`
where the name is, everything hangs from the root), and a thread has one file open at a time (`Tidy`). `RefsTo` are the
references that calls and open files hold, as pairs of a thread and a place in its list `Held`, so that a call that has
two references to one inode counts twice. The end of the module names the steps that the code gets wrong, each as a predicate
of the state before it: `Leaks` (a reference that nobody gives back), `Retries` (locks given up that will be unlocked once
more), `Enters` (an entry made in a removed directory), `Strays` (`_isancestor` comes to an inode that is gone, or leaves a lock behind)
and `Abandons` (the last reference is given back by a caller who does not look). `NoLeaks`, `NoOrphans` and `NoStrays` say
of a step that it is not one of these; they are the hypotheses of the theorems.

### Vm

An address space has one region of one page, of one of the four kinds (private or shared,
anonymous or file). A user program fills the TLB of its CPU from the page table and writes through it,
without any lock; the kernel changes entries with the address space locked, and releases the lock
after the shootdown. A system call and the acquisition of the lock are one step (before it nothing has
been done), and a thread in the kernel may go on on any CPU that runs no user program. `Userrun`
is three steps: cr3 and count, mask, and after the trap the count and the mask of the map before
(`RunClear`, `RunDec`). `view` is a history of what an address space should see; `new` is a page that has been
taken and not counted yet. The interrupt of a shootdown is one step of its CPU: the code acknowledges before it flushes (os_linux.go:2319-2328), but with interrupts
off, so that no user program runs there in between. The release of a page and the clearing of its entry
(as.go:562-563) are one step under the lock; the window that matters, up to the flush, is open in the model. A thread that exits does so after
`RunClear` and `RunDec`, in the code just before them, inside the trap (proc.go:467-482).

Three constants are FALSE in the run and exclude what the code gets wrong (section 5): `Overlap`
(threads use a page between its release and the end of the shootdown), `EarlyReload` (a CPU loads a page map
before its bit was cleared) and `StackShared` (the stack page of a forking thread is still copy-on-write). The theorems
do not use them: they exclude the wrong step itself, `Overlaps`, `EarlyReloads` or `SharesStack`, when it is about to be taken.
Not modelled: several pages and regions, page-table pages, `exec`, `mmap` by a running program, the kernel's own
copies from and to user memory, and TLB fills that a program did not ask for.

In all modules `panic` (`fatal`) stops the system: it is a state without successors, and for
that reason deadlock is checked in `crash` and `mixed` only. In the others also all
bounded calls may be used up, and in `live` the bound on operations leaves everybody idle.
Where calls must return, this is a liveness property.

## 3. Runs

Times are for two workers.

| Run | Instance | Shows | States |
|---|---|---|---|
| `crash` | 2 threads, logged blocks 1 and 2, ordered block 3, log of 11 slots starting at index 10, 2 operations, 1 crash | `AtomicOps` (refinement of `Journal`), `WaitedForceDurable`, `OrderedBeforeCommit`, `UnreferencedClean`, `CleanShutdown` | 281 k, 15 s |
| `mixed` | 2 threads, 4 blocks, one of them also ordered, 4 operations, pages reused | `TypeOK`, `LogInv`, `LogFits`, `NoReplayOverOrdered` | 1.03 M, 40 s |
| `live` | 2 threads, 2 blocks, log of 8 slots, 3 operations, fairness | `ForceReturns`, `OpAdmitted`, `LogStops` | 17 k, 60 s |
| `refs` | 2 users and the evictor, 2 keys, 2 pages, 3 lookups, eviction on release | `RefsCounted`, `InMemoryOnce`, `HeldFilled` | 805 k, 28 s |
| `maps` | the same with mappings, without eviction on release | `PageOwned`, `MappedCached` | 1.01 M, 35 s |
| `proc` | 5 ids, 3 threads at most, 2 children | `ReapedOnce`, `ExitFinal`, `SleepsForAReason` | 838 k, 55 s |
| `kill` | 5 ids, forks may fail, 2 reservations fail, fairness | `KillTerminates`, `OomReturns` | 357 k, 140 s |
| `pipe` | reader, writer, 2 pollers, 2 slots, buffer of 2 bytes, writes of 2 and 3, reads of 2, 2 writes, 2 polls, 1 fault | `Stream`, `SmallWritesAtomic`, `SleepsForAReason`, `PollNotified`, `DeadReleased` | 615 k, 36 s |
| `ahci` | 2 threads, 2 slots, block 1 read, blocks 1 and 2 written, block 3 written synchronously, flushes, 4 requests, fairness | `ExecutedOnce`, `ReleasedAfter`, `FlushNotOvertaking`, `CallsReturn` | 182 k, 19 s |
| `hash` | 3 keys, two of them with one hash, 2 buckets, 4 elements, 1 walker | `WalksComplete`, `GetsLinearizable` (refinement of `KVMap`) | 261 k, 10 s |
| `names` | 3 threads; a root with an empty directory a and a directory b with a file; every two of twenty calls but those that the code gets wrong, and six times three; fairness | `LinkedTree`, `RefsCounted`, `FreedWhenUnused`, `CallsReturn` | 59 k, 27 s |
| `vm` | 2 CPUs, a parent with 2 threads and its child, 2 pages, 1 write, 1 fork, 4 kinds of mapping | `Isolated`, `TlbCurrent`, `RefsCounted` | 1.05 M, 45 s |

**Why these bounds.** In `crash` the log starts at index 10 of 11 slots, so that
a transaction wraps around; two operations can be in one transaction or in two, of which
the second is filled while the first is being committed; one crash can fall
anywhere. `mixed` needs four operations to write a block logged, revoke it, apply
and write it again, and its log of 11 slots holds two transactions and a bit, so
that admission and early opening are decided at their limits. In `live` the log is
so short that threads do wait for admission. In `refs` and `maps` three lookups
are what it takes to look a block up, evict it and make it again while the first
thread is still on its way out. In `proc` five ids give a grandchild or two threads,
and both limits are reached. In `pipe` a write of 3 needs two chunks, a write of 2
after an odd number of bytes wraps around, and two pollers compete for wakeups and slots.
In `ahci` four requests over two slots queue, merge and wait for a flush; the blocks are consecutive, so that synchronous requests merge too. In `hash` four elements let a key be removed and put back while the walker is at it, and
one walker suffices because walkers do not see each other. In `names` pairs show what two calls do to each
other; the calls cover every kind on files and directories, within one directory and across
two. In `vm` one write is enough to tell two memories apart, and two pages are the fewest with which a page is
released and taken again; two CPUs and three threads give every way in which a CPU has one page map, had it, or
gets it during a shootdown.

**Fairness.** `Log!FairSpec`: the committer is scheduled; a thread that can be
admitted, or has been woken, goes on; operations end (a file-system call does
not wait for anything that depends on the log while it is in one); StopLog goes on.
Nothing makes a thread begin, write or force. `Proc!FairSpec`: goroutines that can
run are scheduled (the Go scheduler is preemptive on timer interrupts), the timer
brings a thread from user code into the kernel, and the killer's steps are
taken (a thread of its own). `KillTerminates` and `OomReturns` except a thread that `Doomall` has `Missed`. Nothing makes a program call exit or wait.
`Ahci!FairSpec`: the drive ends the commands that it has, the interrupt handler runs, and so do
goroutines that are woken; `CallsReturn` is about calls whose request `queue_coalesce` has not dropped. `Names!FairSpec`: a thread that can go on does, and a mutex that is free goes
to one that waits for it. Nothing in it is assumed of renames of directories, of which two may block each other and one
may return with a lock: `CallsReturn` has the hypothesis (`Undisturbed`) that they come one at a time, that none goes into
itself and that nothing panics.

## 4. Proofs

Eight modules of theorems, each about the specification that TLC checks, none about a
simplified copy. They hold for every value of the constants: any number of threads, blocks, pages,
CPUs, keys or requests, any limits, and behaviours of any length (the bounds on calls and crashes
are constants too). All have the same shape: an inductive invariant `IInv` that is a conjunction of
named parts, each about one relation between pieces of state; lemmas that say what each
action does (`...Effects`); lemmas that say, part by part, what such a change preserves; and a
theorem `Spec => []IInv`, from which the properties follow. TLC checked every part on the run's
instance before it was proved. Where a theorem has a hypothesis, the property fails without it, because of
what the code does; section 5 has the counterexample (`UnreferencedClean` is the exception: TLC knows none against it with
`Congested`, since what the drive has outstanding is what a read returns; its proof goes through the disk's invariant).

| Module | Proved | Hypotheses |
|---|---|---|
| `LogProofs` | `TypeOK`, `LogInv`, `LogFits` | `OpWrites < MaxBlkPerOp` for the last two |
| | `WaitedForceDurable`, `OrderedBeforeCommit`, `NoReplayOverOrdered` | `OpWrites < MaxBlkPerOp`; flushes cover earlier writes: `[][FlushCovers]_vars` |
| | `UnreferencedClean`, `CleanShutdown` | and `LogBlks \cap OrdBlks = {}` |
| | `AtomicOps` (refinement of `Journal`) | and `~CrashInRecovery` |
| `CacheProofs` | `RefsCounted`, `InMemoryOnce`, `HeldFilled` | blocks are not both mapped and evicted on release: `~(TryEvicts /\ Maps)` |
| | `PageOwned` | and no removal hits another block: `[][~Mistakes]_vars` |
| | `MappedCached` | no eviction on release: `~TryEvicts` |
| `ProcProofs` | `ReapedOnce`, `ExitFinal`, `SleepsForAReason` | none |
| `PipeProofs` | `Stream`, `SmallWritesAtomic`, `PollNotified`, `DeadReleased` | none |
| | `SleepsForAReason` | at most one reader and one writer |
| `AhciProofs` | `ExecutedOnce`, `ReleasedAfter`, `FlushNotOvertaking` | none |
| `HashtableProofs` | `WalksComplete`, `GetsLinearizable` (refinement of `KVMap`) | none |
| `NamesProofs` | `TypeOK`, `KeptWhileUsed` | none |
| | `RefsCounted` | no step `Leaks` |
| | `LinkedTree` | no step `Retries` or `Enters` |
| | `FreedWhenUnused` | no step `Retries`, `Enters`, `Strays` or `Abandons` |
| `VmProofs` | `RefsCounted` | none |
| | `MaskedCurrent` | none |
| | `TlbCurrent`, `MaskCovers` | no step `EarlyReloads` |
| | `Isolated` | no step `EarlyReloads`, `Overlaps` or `SharesStack` |

The assumptions on constants are in the modules that declare them and say no more than what the code
has: numbers are natural numbers, sets of ids are disjoint where the code tells their members apart, and a
model value that stands for "none" (`nil`, `NoThread`) is not one of the others. The one that matters is
`LogAssumption`'s `MaxBlkPerOp + 1 < maxtrans`, without which no operation is ever admitted. `NamesAssumption`
asks that the tree is one that can be mounted and that threads close what they open.

**Log.** `LogFits` is not inductive: that a transaction fits depends on what the
operations in progress may still write. `LogInv` is the conjunction of `CountInv`
(`inprogress` counts the threads in an operation, a committing transaction has none),
`SizeInv` (what the transaction has and what its operations may still write is below the
descriptor's limit), `SpaceInv` (where the current and the committer's transactions
stand, and that one that operations may join has a whole transaction's space before
the tail), `WaitInv` (a transaction's waiters are the threads asleep in `Force`, each
in one transaction) and `DownInv` (no call is in progress before recovery). Admission
gives `SizeInv`; `SpaceInv` is kept when the next transaction is opened
early because of `freespace`, and when it is opened late because `apply` has
emptied the log or the log was less than half full (`FullIsHalfFull`, which uses
that `loglen` is at least two transactions less one). TLC checks `LogInv` in `mixed`.

**Log, the disk.** `DiskInv` says what is on the platter and in the drive's cache at every stage of the committer and of
recovery: `HdrInv` (the header, and the one on its way), `DriveInv` (home blocks and log slots in the drive's cache), `ShapeInv` (between tail
and head the log is a sequence of whole transactions, `WellFormed`), `SameInv` (it is the in-memory one), `ComInv` (the
slots of the transaction being committed are its descriptor and its copies), `TlogInv` (`translog` knows every block with a copy in
the log), `OrdInv`, `RevInv` and `ReplayInv` (an ordered block with a copy in the log is revoked, in memory, in the descriptor and on the platter) and
`StableInv`. What recovery computes is a recursive walk over the log; the proofs replace it by what it finds, which
needs no induction over data but the least index at which the walk could differ: an index of a well-formed log is a copy of a block exactly if
the descriptor that covers it says so (`DescriptorsAre`), and `install` gives a block its last copy that no later
transaction revokes. A crash keeps any subset of what the drive's cache holds; what must be shown is that such a subset
changes nothing that recovery reads, because slots beyond the head and home blocks with a live copy do not matter. All this needs flushes
that cover (`FlushCovers`), at the four stages of the committer that flush; the invariants of the bookkeeping do not.

`AtomicInv` adds contents, for logs in which no block is written both ways: `MemInv` (what each slot of the in-memory log holds), `CacheInv` (the
cache differs from what the next commit makes stable only in blocks of the open transaction), `ApplyInv` (`apply` writes what
recovery would), `CleanInv` (an ordered block on no list is on the disk) and `NoRevokes`. Without that hypothesis `UnreferencedClean`,
`CleanShutdown` and `AtomicOps` fail, for the reasons under `OrderedNotOverwritten` and `LoggedNotLost` in section 5. `StopsInv` says that
whoever stops the log is alone with the committer. `OperationsAreAtomic` maps each step of `Log` to one of `Journal`: `CommitterStart`
is the snapshot, `CommitHead`, which flushes the new header, the commit; a crash that keeps the header in the drive's cache commits too, every
other crash loses what is not stable, and recovery changes nothing that can be seen. It excludes crashes during recovery, which `recover` does not survive (`RecoveryRestartable`). The other theorems
include them.

**Cache.** `IInv` is `CoreInv` and `EvictInv`. A count says nothing by itself: the invariant follows every
thread through the gap between what it did to the count and what it does next. `ThreadsInv` says what a
thread at each program counter holds, `RefsCounted` is the sum of these holds. `ObjsInv` says that an object that is not marked for removal is
the one that lookups find, `GetsInv` that a lookup makes at most one object, `Unique` that one thread fills
a block and one deletes it, `Pending` that a block without a page is locked by the thread that fills it and that one
marked for removal and still in the table has a thread that will delete it. `EvictInv` adds
`SnapInv` (what an eviction saw), `PageInv` (a page's count is its owner, its maps and the thread at work)
and `MappedCached`. With eviction on release a page's owner is no longer the block that is cached with it: `OwnInv` follows the page from the
block in the table (`Has`), through the removal, to the one thread that frees it (`Gone`, `OneFrees`). It is inductive as long as the block that
`RemoveDel` deletes is the one whose release asked for it; the first `Mistakes` step is the double release of section 5, and there is no other way to one.

**Proc.** `ListsInv` says that an id is on one `Wait_t` list, once, and never again after it was reaped;
`ThreadsInv` and `NotesInv` relate threads, where they are and their notes; `ExitInv` says that a valid entry is of a child
that was freed and has its final status; `OomInv` what the killer's message and victim are.
`SleepsForAReason` needs the others: a sleeper is woken because whoever changes what it waits for finds its note.

**Pipe.** `StreamInv` ties the indices of the circular buffer to what was sent and received, as functions of
the position in the stream: the position modulo the size is the index, so that wrap-around needs no case of
its own. `CallsInv` says how far each call is, `PlacesInv` where in the stream the bytes of each small write are,
`SleepInv` that a sleeper is in one queue, once, and not killed, `OpenInv` that the pipe is closed when no end is open and has
then given back its page, its limit and its sleepers, `PollInv` that a slot with a channel is of a poll under
way, which has nothing to report unless it was notified.
For `SleepsForAReason` the reasons of the sleepers are added: with one reader and one writer the
`Signal` that each owes the other cannot go to a third.

**Ahci.** `PlacesInv` says that a request is asleep, in the queue, in a slot or over, and in one of these only
(`QueueOK`, `SlotsOK`, `Disjoint`, `AsleepOK`, `WaitsOK`, `SentOK`, `EndedOK`, `DoneOK`), `OrderOK`
that writes queued behind a flush were started after it.

**Hashtable.** The lists are ordered by hash and, within a hash, by age. `ListInv` says that a list has the
elements of the table in this order: every pointer leads to the least of those that come later. `OrderInv`
says that pointers of removed elements lead forward too. A reader that stands at an element, removed or not, is
described by sets and not by positions: `Reaches` (some set of elements holds the reader and the
element it looks for and is closed under `next` up to that) and `Only` (some set of elements that
it may meet holds it and is closed under `next`). An insertion adds itself to such a set or leaves it
alone, a deletion leaves it alone, so that both survive every change. That the loops of `Set` and `Del`
end, and end at the right place, is a pigeonhole argument on the ascending list, with induction written as
"the least number that is not in the set". `GetsAreLinearizable` shows that the first states map
to first states of `KVMap` and every step to a step or to none.

**Names.** Four invariants, each on top of those before it. `CoreInv` needs no hypothesis: `FramesInv` says what a
call has at each of its places (`LocalOK`, `KindOK`), `RefsHeld` and `LinksHeld` that a count is at least what it counts, `Marks` that an inode
without links and references is the only one that can be gone, `Shape` that entries lead to inodes in use. They are
inequalities because the code forgets references; that is enough for `InUseKept`, which holds with all the wrong steps. A step is described by
what it adds to the count and to the references of its thread (`CoreStep`, `RefExact`), and `RefsExact` follows when both are the same. The number
of references of all threads is a cardinality, and what one thread's step does to it is a lemma about unions of disjoint sets.

`LocksInv` says which inodes a call has locked at each place. With `TreeInv` it gives the tree: `Counted` (names and pending
links are the links), `Dotted` (`..` is where the name is), `OneLink`, `Empties` (a directory without links is empty), `MakingOK` (nobody
but `mkdir` knows the directory that it is making) and `Acyclic`. A rename of a directory could close a loop; it does not because of `WalkOK`: the
rename holds `_renamelock` and there is a set `P` of directories that `_isancestor` has passed, with the new parent in it, in which each directory's parent is
again (up to the one it stands at), and the renamed directory is not among them. No other call changes a `..` that `P` needs, since only the holder of
the lock moves directories. When the walk has reached the root `P` is closed under `..`, and a set of directories that hangs in
itself after the move would have had to hang in itself, or reach into `P`, before.

`FreeInv` is about what is owed: every lock has a call that holds it (`LocksKnown`), `_renamelock` belongs to a rename of a directory (`RlockKnown`), `_isancestor`
never stands at an inode that is gone (`UpKept`), the two inodes of an unlink differ (`AllApart`), and an inode with neither links nor references that is not freed
yet is in the list of a call that will free it (`AllOwed`). When all calls have returned nobody owes anything, which is `FreedWhenUnused`.

Each hypothesis excludes steps of the code as it is; section 5 lists a behaviour for each, and without the hypothesis
the property fails there. The steps are excluded one at a time as they are about to be taken, and not the scenarios in which they could happen: a theorem speaks about every
behaviour up to its first wrong step. In the run `names` no step is `Leaks`, `Enters`, `Strays` or `Abandons`; those that are `Retries` end in `fatal`.

**Vm.** `CoreInv` (`ThreadsInv`, `SpacesInv`, `ChildrenInv`, `ApartInv`, `RefsCounted`) follows pages and page maps
through fault, fork, exit and `Userrun`, where a count and what it counts change in different steps. `MaskInv` relates
the CPU masks to the page maps that CPUs have loaded or are about to leave, `TlbInv` the TLBs to page tables
and to the shootdowns under way, `ContentsInv` the contents of pages to `view`. The TLBs of the CPUs in a mask are current whatever happens
(`MaskedCurrent`); what an early reload breaks is that the mask has all the CPUs.

**Only model-checked.** Liveness (`ForceReturns`, `OpAdmitted`, `LogStops`, `KillTerminates`, `OomReturns`, and
`CallsReturn` of `Ahci` and `Names`): fairness and ENABLED are out of the prover's reach. Every invariant and every action
property of the runs is also stated by a theorem.

## 5. Where the code departs from what it says

Each has a property in its module, which fails with the constants below; none has a run of
its own. For `Log` the base is Procs {p1, p2},
LogBlks {1, 2}, OrdBlks {}, Vals {v0, v1}, LL 15, MaxDescriptor 7, MaxBlkPerOp 3,
MaxOrdered 100, OpWrites 2, InitIndex 10, MaxOps 3, MaxCrash 0, PagesReused, Congested and
CrashInRecovery FALSE.

| Property | Constants | What happens |
|---|---|---|
| `Log!ForceDurable` | LogBlks {1}, MaxDescriptor 5, MaxBlkPerOp 2, OpWrites 1, MaxOps 2, MaxCrash 1 | `Force` looks at the current transaction only (log.go:119): if that is a fresh one it returns while the previous one is being committed, although log.go:109 says that preceding operations are flushed to disk. |
| `Log!RecoveryRestartable` | Procs {p1}, LogBlks {1}, MaxOps 1, MaxCrash 1 | `recover` does not flush between installing blocks and moving the tail (log.go:1089): a crash can keep the new header and lose installed blocks. |
| `Log!OrderedNotOverwritten` | Procs {p1}, OrdBlks {1}, LL 21, MaxDescriptor 5, MaxBlkPerOp 2, OpWrites 1, MaxOps 4 | `apply` handles several transactions at once and cancels by the revoke records of the last one only (log.go:911): an older logged version goes over file data. `ufs/ufs_test.go:878` expects "better not overwrite f's blocks". |
| `Log!LoggedNotLost` | the same with LogBlks {1} | a block that was data and is metadata again is cancelled with the older version and lost (log.go:798; `ufs_test.go:937`). |
| `Log!DescriptorFits` | Procs {p1}, LogBlks {1, 2, 3, 4}, MaxDescriptor 5, MaxBlkPerOp 2, OpWrites 2, MaxOps 2 | an operation that writes all the blocks it reserved overflows the descriptor, whose end marker is not counted (log.go:637). This is why the theorems assume `OpWrites < MaxBlkPerOp`. |
| `Log!OrderedBounded` | LogBlks {}, OrdBlks {1, 2, 3, 4}, MaxOrdered 4, MaxBlkPerOp 2, Vals {v0} | admission does not count the ordered blocks of operations in progress (log.go:525), so that the bound of log.go:452 is passed. |
| `Log!OrderedBeforeCommit`, `WaitedForceDurable`, `CleanShutdown`, `AtomicOps` | those of `crash` with Congested TRUE | a flush that passes queued writes (ahci.go:937): the header is written before ordered blocks or the log's own blocks are, `Force` returns before the header is, shutdown leaves writes behind. log.go:655 says that the flush is for "outstanding writes". |
| `Log!NoReplayOverOrdered` | those of `mixed` with Congested TRUE | for the same reason a transaction counts as committed while its header or its revoke records are not on the platter, and recovery replays the log as it was before. |
| `Cache!PageOwned` | those of `refs` with Pages {g1, g2, g3} | `Relse` removes by block number after it has dropped its reference (bdev.go:203): a newer object is removed, and the page of the old one is freed twice. |
| `Cache!LookupSurvivesRemove` | those of `refs` | the retry that the comment at cache.go:118 describes is not reached: a count with the REMOVE bit is negative as an `int32`, and the lookup panics (cache.go:137). |
| `Cache!PinKept`, `Cache!NoSelfDeadlock` | those of `refs` with Maps TRUE | `Relse` deletes the pin after its count was zero, when another thread may have mapped the block (bdev.go:201); `Unpin` calls `Relse` with the mutex that it needs (bdev.go:266). |
| `Cache!PinsCurrent` | those of `maps` | `pins` keeps pages of blocks that are gone; the next block with that page panics. |
| `Cache!EvictsHalf` | Threads {t1}, 3 keys, 3 pages | `Evict_half` "removes up to half" (cache.go:218), but its loop has no limit (cache.go:228): it removes all that it can. |
| `Proc!ForkFailSurvived` | MaxId 4, Sysprocs 10, Noproc 2, Statuses {0}, Calls {"fork", "wait"}, Targets {}, MemFails TRUE, MaxOoms 0 | a fork that fails in `Vm_fork` clears the current note of the parent's thread (syscall.go:3190, proc.go:532), which panics at its next trap. |
| `Proc!ThreadsCounted` | the same | a failed fork leaves the child's thread counted (syscall.go:3190). |
| `Proc!DirsClosed` | MaxId 6, Sysprocs 10, Noproc 1, Calls {"fork"}, MemFails FALSE | a fork that hits the limit on children keeps the reference to the current directory (syscall.go:3248). |
| `Proc!VictimsFound` | those of `kill` | a thread that is created while `Doomall` marks its process stays unmarked (syscall.go:105, proc.go:493-498); its first reservation (proc.go:440) fails and waits for the killer (res.go:123-127), which waits for its process to go (oom.go:120): both wait for ever. |
| `Pipe!HangupNotified` | those of `pipe` | a thread that polls the read end is not told when the last writer closes: `op_reopen` wakes sleepers but no pollers (syscall.go:1039). |
| `Pipe!WrittenOnce` | those of `pipe` | a write of more than `PIPE_BUF` bytes that runs out of heap in its second chunk is restarted as a whole (syscall.go:1138, proc.go:395). |
| `Pipe!SleepsForAReason` | those of `pipe` with Readers {r1, r2} or Writers {w1, w2} | `Signal` wakes one thread, which may leave bytes or room for another that stays asleep (syscall.go:959, 990). |
| `Ahci!FlushCovers` | ReadBlks {}, WriteBlks {1, 3, 5}, SyncBlks {}, otherwise those of `ahci` | a flush goes on as soon as no command is issued, without a look at the queue (ahci.go:937): it is issued together with a queued write and may end first, although ahci.go:929 says that it waits until outstanding commands have finished. |
| `Ahci!AnswerComing` | those of `ahci` | a synchronous request that is merged into a queued one is dropped with its answer channel (ahci.go:909-916); its caller waits for ever. |
| `Ahci!NoPanic` | nslot below HbaSlots | `port_intr` looks at 32 slots whatever the drive has (ahci.go:1114). |
| `Hashtable!ElemsCurrent` | those of `hash` | `Elems` is no snapshot: it locks one bucket at a time (hashtable.go:123). |
| `Vm!Isolated` | Overlap TRUE, otherwise those of `vm` | the replaced or unmapped page is released before the TLBs are flushed (as.go:546, 562): another thread of the process goes on using it, and it may have a new owner. |
| `Vm!MaskCovers`, `Vm!TlbCurrent` | EarlyReload TRUE | the bit of the CPU in the mask of the previous page map is cleared after the trap (proc.go:480), when the CPU may have loaded that map again; a later shootdown misses it. Up to such a reload both are proved. mem.go:111 says that the bit is set if the CPU has loaded the map. |
| `Vm!Isolated` | StackShared TRUE | `Vm_fork` makes the parent's stack page writable without a look at its count (proc.go:329), although an earlier child, or every user of the zero page, may still have it. |
| `Vm!NoPanic` | those of `vm` | two threads write to a page of a shared file mapping that is not mapped yet, or one does after a fork: the second fault finds the entry present and panics "pte not empty" (as.go:535). |

For `Names` the tree is that of `MCNames` and `Programs` the one scenario given (AA is the path /a/a, and so on).

| Property | Calls | What happens |
|---|---|---|
| `LinkedTree` | rename(BA, AA) beside rmdir(A) | the new parent is not tested for having been removed (fs.go:364-369, inode.go:841): the file ends in a directory that is gone. |
| `RefsCounted` | mkdir of a name that exists | the reference to the existing inode is not given back (fs.go:1298-1301). |
| `RefsCounted` | rename(B, A) beside rmdir(A) | `ilookup_validate` fetches an inode for a fresh entry, and nobody gives it back (dir.go:471). |
| `FreedWhenUnused` | rename(A, AB) | a directory that would go into itself: the error return leaves an inode locked (fs.go:565-569, 537). |
| `FreedWhenUnused` | rename(A, BAA) beside unlink(BA), mkdir(BA), rmdir(BA), rmdir(B) | `_isancestor` follows the `..` of a removed directory to an inode that has been freed (fs.go:575), although fs.go:364-367 says that the walk is safe, since rename has a reference to the new parent: it has none to the parent's ancestors. |
| `FreedWhenUnused` | create(AA), unlink(AA) or rename(A, BAA), beside rmdir(A) | an error return gives back the last reference to a dead inode without freeing it; that happens at the next start only. |
| `~fatal` | rename(A, BB) beside create(BB) | the retry unlocks inodes whose deferred unlocks are still to come (fs.go:406, 448-450). |
| `~fatal` | rename(BA, BB) beside unlink(BB) | two callers of `Refdown` see the same dead inode: panic "huh" (inode.go:224-234). |
| `~fatal` | link(A, BB) beside rmdir(A) | the failed link of a removed directory frees a nil inode (fs.go:170-172). |
| `CallsReturn` without `Undisturbed` | rename(A, AB), then any call on /a | the directory stays locked, as above. |
| `CallsReturn` without `Undisturbed` | two renames of directories | one has the rename lock and waits for an inode that the other has locked while it waits for the rename lock (fs.go:357-360). |
| `OrphansUnlinked` | link(BA, BB) beside unlink(BA) | the link brings a file back that is marked as an orphan already; the next start frees it with its name in place. |

A rename whose new name is removed between the lookup and the locks returns ENOENT (fs.go:435-438, 493), which
is odd but breaks no property.

## 6. Not modelled

Registers and command tables of the drivers, hardware set-up, interrupt routing, ACPI and
PCI: manuals. Formats of packets, inodes and directories: data without
control. `ufs`, `mkfs`, `unet`: drivers for tests. Resource bounds (`bounds/`) are tables. The
repository also holds a copy of the Go tool chain (`src/src`, some 950,000 of its
977,000 lines of Go, most of them compiler back ends that are generated): of it only the trap, `Userrun` and
shootdown code that Biscuit added to the runtime is modelled. The map covers a small part of the whole
repository for that reason, but a good part of the concurrent code among Biscuit's own
32,000 lines, drivers and tables included. The rest is on the plan.

## 7. Plan

1. `Orphans`: the orphan bitmap, freeing in several operations, crash and recovery, over `Journal`
   in place of `Log`; `Bitmap`'s allocator with it.
2. `Vm`: the kernel's copies from and to user memory against munmap, `mmap` and `exec`; the
   free lists of `mem`.
3. `Fdtable`: insert, dup, close and copy at fork; `Limits` step by step.
4. `Tcp`: connection states, retransmission and buffers (`Rawread`, `Rawwrite`)
   over a network that loses, repeats and reorders; `Unixsock` and `Futex`.

The suite is kept short: a component gets one run that passes, and the deviations
of section 5 keep their properties without one.
