-------------------------------- MODULE Proc ---------------------------------
(***************************************************************************)
(* Biscuit's processes and threads (proc/proc.go, proc/wait.go,            *)
(* tinfo/tinfo.go and the system calls fork, exit, threxit, wait4 and kill *)
(* of kernel/syscall.go) and its out-of-memory killer (proc/oom.go).       *)
(*                                                                         *)
(* Pids and tids come from one counter.  A thread is a goroutine in run(): *)
(* after a first reservation of memory it goes round resched, user code    *)
(* and a trap.  An action is one critical section: of the process table,   *)
(* of Threadi, of a Wait_t, or of a note.                                  *)
(***************************************************************************)
EXTENDS Integers, Sequences, FiniteSets

CONSTANTS MaxId,     \* the last id that atomic_pid hands out
          Sysprocs,  \* limits.Syslimit.Sysprocs
          Noproc,    \* Ulim.Noproc
          Statuses,  \* exit statuses
          Calls,     \* the system calls that programs make
          Targets,   \* the processes that kill may name
          MemFails,  \* may fork run out of memory?
          MaxOoms    \* how many reservations may fail

Ids  == 1 .. MaxId
Root == 1            \* init
None == 0
Any  == -1           \* WAIT_ANY

ASSUME ProcAssumption ==
    /\ MaxId \in Nat /\ MaxId >= 2 /\ Sysprocs \in Nat /\ Noproc \in Nat
    /\ 0 \in Statuses /\ Statuses \subseteq Nat /\ Targets \subseteq Ids
    /\ Calls \subseteq {"exit", "threxit", "kill", "fork", "thread", "wait", "nohang"}
    /\ MemFails \in BOOLEAN /\ MaxOoms \in Nat

VARIABLES
    apid,      \* atomic_pid
    nthreads,  \* the system-wide count of threads
    ptable,    \* the pids in Ptable
    proc,      \* Proc_t of every process
    thr,       \* every thread: its note, where it is, its locals
    reaped,    \* how many waits have returned each id
    cwds,      \* references to current directories
    oom,       \* the out-of-memory killer
    nooms,     \* reservations that have failed
    panic      \* the kernel's panic message, "none" while it runs

vars == <<apid, nthreads, ptable, proc, thr, reaped, cwds, oom, nooms, panic>>

\* pw: whose Mywait Pwait points to; freed: terminate has closed the files and
\* freed the memory.
NullProc == [doomed |-> FALSE, status |-> 0, pw |-> None, notes |-> {},
             pwait |-> <<>>, twait |-> <<>>, freed |-> FALSE]

\* p: the thread's process; cur: its note is the current one of its goroutine;
\* tgt, tid, st, use, last: the process and thread it is killing, and the
\* arguments of Thread_dead; id, isproc, noblk: the arguments of _reap.
NullThr == [p |-> None, pc |-> "none", killed |-> FALSE, cur |-> TRUE,
            tgt |-> None, tid |-> None, st |-> 0, use |-> FALSE, last |-> FALSE,
            id |-> None, isproc |-> FALSE, noblk |-> FALSE]

Entry(i) == [id |-> i, valid |-> FALSE, status |-> 0]

Init ==
    /\ apid = 2 /\ nthreads = 1 /\ ptable = {Root} /\ cwds = 1
    /\ proc = [p \in Ids |-> IF p # Root THEN NullProc
                             ELSE [NullProc EXCEPT !.notes = {2}, !.twait = <<Entry(2)>>]]
    /\ thr = [t \in Ids |-> IF t # 2 THEN NullThr
                            ELSE [NullThr EXCEPT !.p = Root, !.pc = "reserve"]]
    /\ reaped = [i \in Ids |-> 0]
    /\ oom = [pc |-> "idle", msg |-> None, vic |-> None] /\ nooms = 0
    /\ panic = "none"

(***************************************************************************)
(* Shared steps.                                                           *)
(***************************************************************************)
At(t, place)   == thr[t].pc = place /\ panic = "none"
Goto(t, place) == thr' = [thr EXCEPT ![t].pc = place]

\* Thread record r at a place where its locals are out of scope.
Home(r, place) == [NullThr EXCEPT !.p = r.p, !.killed = r.killed, !.cur = r.cur, !.pc = place]
Return(t)      == thr' = [thr EXCEPT ![t] = Home(@, "resched")]
Mine(t)        == proc[thr[t].p]

\* Broadcast on the condition of p's Mywait.
\* (Faulty variant: only one sleeper wakes up.)
Broadcast_one(th, p) ==
    LET S == {t \in Ids : th[t].pc = "asleep" /\ th[t].p = p}
    IN  IF S = {} THEN th ELSE [th EXCEPT ![CHOOSE t \in S : TRUE].pc = "awake"]
Broadcast(th, p) ==
    [t \in Ids |-> IF th[t].pc = "asleep" /\ th[t].p = p
                   THEN [th[t] EXCEPT !.pc = "awake"] ELSE th[t]]

\* The list l without its element k.
wremove(l, k) == SubSeq(l, 1, k - 1) \o SubSeq(l, k + 1, Len(l))

\* The list l with the exit status of i.
Put(l, i, st) ==
    [k \in DOMAIN l |-> IF l[k].id = i THEN [l[k] EXCEPT !.valid = TRUE, !.status = st]
                        ELSE l[k]]

Ids_in(l) == {l[k].id : k \in DOMAIN l}

\* _start: too many statuses that nobody has waited for.
TooMany(p) == Len(proc[p].pwait) + Len(proc[p].twait) > Noproc

(***************************************************************************)
(* run: a reservation, resched, and traps from user code.                  *)
(***************************************************************************)
\* Resbegin succeeds, before the first resched or when it is tried again.
Resbegin(t) ==
    /\ At(t, "reserve")
    /\ Goto(t, "resched")
    /\ UNCHANGED <<apid, nthreads, ptable, proc, reaped, cwds, oom, nooms, panic>>

\* A thread dies when its process is doomed, otherwise it runs user code.
Resched(t) ==
    /\ At(t, "resched")
    /\ IF Mine(t).doomed
       THEN thr' = [thr EXCEPT ![t] = [@ EXCEPT !.pc = "dead", !.tgt = thr[t].p, !.tid = t,
                                                !.st = 0, !.use = FALSE]]
       ELSE Goto(t, "user")
    /\ UNCHANGED <<apid, nthreads, ptable, proc, reaped, cwds, oom, nooms, panic>>

\* A trap finds the thread's own note, or the kernel stops.
Trapped(t, next) ==
    IF thr[t].cur THEN panic' = "none" /\ thr' = [thr EXCEPT ![t] = next]
    ELSE panic' = "nuts" /\ UNCHANGED thr

\* An interrupt, or a system call of no interest here.
Trap(t) ==
    /\ At(t, "user")
    /\ Trapped(t, Home(thr[t], "resched"))
    /\ UNCHANGED <<apid, nthreads, ptable, proc, reaped, cwds, oom, nooms>>

\* A system call of a thread whose process is not doomed.  A doomed one dies
\* here as it does in resched.  The call itself comes later: the process may
\* be doomed and marked in between.
Syscall(t, next) ==
    /\ At(t, "user") /\ ~Mine(t).doomed
    /\ Trapped(t, next)

\* After Thread_dead the thread leaves run.
Leave(t) ==
    /\ At(t, "exit")
    /\ nthreads' = nthreads - 1
    /\ thr' = [thr EXCEPT ![t] = [NullThr EXCEPT !.pc = "gone"]]
    /\ UNCHANGED <<apid, ptable, proc, reaped, cwds, oom, nooms, panic>>

(***************************************************************************)
(* exit, threxit, kill and Doomall.                                        *)
(***************************************************************************)
Sys_exit(t, st) ==
    /\ Syscall(t, [thr[t] EXCEPT !.pc = "doom", !.tgt = thr[t].p, !.tid = t, !.st = st, !.use = TRUE])
    /\ UNCHANGED <<apid, nthreads, ptable, proc, reaped, cwds, oom, nooms>>

Sys_threxit(t, st) ==
    /\ Syscall(t, [thr[t] EXCEPT !.pc = "dead", !.tgt = thr[t].p, !.tid = t, !.st = st, !.use = FALSE])
    /\ UNCHANGED <<apid, nthreads, ptable, proc, reaped, cwds, oom, nooms>>

Sys_kill(t, p) ==
    /\ p \in ptable
    /\ Syscall(t, [thr[t] EXCEPT !.pc = "doom", !.tgt = p, !.tid = None])
    /\ UNCHANGED <<apid, nthreads, ptable, proc, reaped, cwds, oom, nooms>>

\* Doomall sets doomed ...
Doomed(p) == proc' = [proc EXCEPT ![p].doomed = TRUE]

\* ... and then, with Threadi locked, marks every note and wakes the sleepers.
\* The first note of a process that Proc_new has just entered in the table is
\* not there yet.
Notes(p) == {x \in proc[p].notes : \A t \in Ids : thr[t].pc = "procnew" => thr[t].tid # x}

Marked(p) ==
    Broadcast([t \in Ids |-> IF t \in Notes(p) THEN [thr[t] EXCEPT !.killed = TRUE]
                             ELSE thr[t]], p)

Doom(t) ==
    /\ At(t, "doom")
    /\ Doomed(thr[t].tgt)
    /\ Goto(t, "mark")
    /\ UNCHANGED <<apid, nthreads, ptable, reaped, cwds, oom, nooms, panic>>

Mark(t) ==
    /\ At(t, "mark")
    /\ thr' = [Marked(thr[t].tgt) EXCEPT
                 ![t] = IF thr[t].tid = None THEN Home(@, "resched") ELSE [@ EXCEPT !.pc = "dead"]]
    /\ UNCHANGED <<apid, nthreads, ptable, proc, reaped, cwds, oom, nooms, panic>>

(***************************************************************************)
(* Thread_dead and terminate.                                              *)
(***************************************************************************)
\* The note goes; the last thread will terminate the process.
Last(p, tid) == proc[p].notes = {tid}

Thread_dead(t) ==
    /\ At(t, "dead")
    /\ LET p == thr[t].tgt
       IN  /\ proc' = [proc EXCEPT ![p].notes = @ \ {thr[t].tid},
                                   ![p].status = IF thr[t].use THEN thr[t].st ELSE @]
           /\ thr' = [thr EXCEPT ![t] = [@ EXCEPT !.pc = "puttid", !.cur = FALSE,
                                                  !.last = Last(p, thr[t].tid)]]
    /\ UNCHANGED <<apid, nthreads, ptable, reaped, cwds, oom, nooms, panic>>

\* Where a thread goes that has finished Thread_dead: back to user code if
\* the victim was not itself (a fork that failed).
Done(t) == Home(thr[t], IF thr[t].tid = t THEN "exit" ELSE "resched")

\* The thread's status becomes available to the process.
Puttid(t) ==
    /\ At(t, "puttid")
    /\ LET p == thr[t].tgt
       IN  IF thr[t].tid \notin Ids_in(proc[p].twait)
           THEN panic' = "id must exist" /\ UNCHANGED <<proc, thr>>
           ELSE /\ panic' = "none"
                /\ proc' = [proc EXCEPT ![p].twait = Put(@, thr[t].tid, thr[t].st)]
                /\ thr' = [Broadcast(thr, p) EXCEPT
                             ![t] = IF thr[t].last THEN [@ EXCEPT !.pc = "term"] ELSE Done(t)]
    /\ UNCHANGED <<apid, nthreads, ptable, reaped, cwds, oom, nooms>>

\* terminate closes the files and frees the memory ...
\* (Faulty variant: the process leaves the table first.)
Terminate_late(t) ==
    /\ At(t, "term") /\ thr[t].tgt # Root
    /\ ptable' = ptable \ {thr[t].tgt}
    /\ Goto(t, "putpid")
    /\ UNCHANGED <<apid, nthreads, proc, reaped, cwds, oom, nooms, panic>>
Terminate(t) ==
    /\ At(t, "term")
    /\ LET p == thr[t].tgt
       IN  IF p = Root \/ proc[p].notes # {}
           THEN /\ panic' = IF p = Root THEN "killed init" ELSE "terminate, but threads alive"
                /\ UNCHANGED <<proc, cwds, thr>>
           ELSE /\ panic' = "none"
                /\ proc' = [proc EXCEPT ![p].freed = TRUE]
                /\ cwds' = cwds - 1
                /\ Goto(t, "putpid")
    /\ UNCHANGED <<apid, nthreads, ptable, reaped, oom, nooms>>

\* ... tells the parent ...
Putpid(t) ==
    /\ At(t, "putpid")
    /\ LET p == thr[t].tgt
           w == proc[p].pw
       IN  IF w = None \/ p \notin Ids_in(proc[w].pwait)
           THEN /\ panic' = IF w = None THEN "nil pwait" ELSE "id must exist"
                /\ UNCHANGED <<proc, thr>>
           ELSE /\ panic' = "none"
                /\ proc' = [proc EXCEPT ![w].pwait = Put(@, p, proc[p].status), ![p].pw = None]
                /\ thr' = [Broadcast(thr, w) EXCEPT ![t].pc = "del"]
    /\ UNCHANGED <<apid, nthreads, ptable, reaped, cwds, oom, nooms>>

\* ... and leaves the process table.
Proc_del(t) ==
    /\ At(t, "del")
    /\ ptable' = ptable \ {thr[t].tgt}
    /\ thr' = [thr EXCEPT ![t] = Done(t)]
    /\ UNCHANGED <<apid, nthreads, proc, reaped, cwds, oom, nooms, panic>>

(***************************************************************************)
(* fork.                                                                   *)
(***************************************************************************)
Sys_fork(t) ==
    /\ Syscall(t, [thr[t] EXCEPT !.pc = "fork"])
    /\ UNCHANGED <<apid, nthreads, ptable, proc, reaped, cwds, oom, nooms>>

\* Proc_new: a process with one thread that does not run yet.  It is in the
\* table before it has a note.  (MaxId bounds the ids.)
Proc_new(t) ==
    /\ At(t, "fork")
    /\ IF nthreads + 1 >= Sysprocs \/ apid + 2 > MaxId
       THEN Return(t) /\ UNCHANGED <<apid, nthreads, ptable, proc, cwds>>
       ELSE LET p   == apid + 1
                tid == apid + 2
            IN  /\ thr' = [thr EXCEPT ![t] = [@ EXCEPT !.pc = "procnew", !.tgt = p, !.tid = tid]]
                /\ apid' = tid /\ nthreads' = nthreads + 1
                /\ ptable' = ptable \cup {p}
                /\ proc' = [proc EXCEPT ![p] = [NullProc EXCEPT !.notes = {tid},
                                                                !.twait = <<Entry(tid)>>]]
                /\ cwds' = cwds + 1
    /\ UNCHANGED <<reaped, oom, nooms, panic>>

\* _thread_new: the first thread's note can be found from now on.
First_note(t) ==
    /\ At(t, "procnew")
    /\ Goto(t, "forked")
    /\ UNCHANGED <<apid, nthreads, ptable, proc, reaped, cwds, oom, nooms, panic>>

\* outproc: the child is taken back.
Outproc(t) ==
    /\ nthreads' = nthreads - 1
    /\ ptable' = ptable \ {thr[t].tgt}
    /\ Return(t)
    /\ UNCHANGED proc

\* No page for the child's page table.
ForkNoPmap(t) ==
    /\ At(t, "forked") /\ MemFails
    /\ Outproc(t)
    /\ UNCHANGED <<apid, reaped, cwds, oom, nooms, panic>>

\* The parent can wait for the child from now on.
Start_proc(t) ==
    /\ At(t, "forked")
    /\ IF TooMany(thr[t].p) THEN Outproc(t)
       ELSE /\ proc' = [proc EXCEPT ![thr[t].p].pwait = <<Entry(thr[t].tgt)>> \o @,
                                    ![thr[t].tgt].pw = thr[t].p]
            /\ Goto(t, "vmfork")
            /\ UNCHANGED <<nthreads, ptable>>
    /\ UNCHANGED <<apid, reaped, cwds, oom, nooms, panic>>

\* The child's address space is copied and the child runs ...
Sched_add(t) ==
    /\ At(t, "vmfork")
    /\ thr' = [thr EXCEPT ![t] = Home(@, "resched"),
                          ![thr[t].tid] = [@ EXCEPT !.p = thr[t].tgt, !.pc = "reserve"]]
    /\ UNCHANGED <<apid, nthreads, ptable, proc, reaped, cwds, oom, nooms, panic>>

\* ... or the parent's thread calls Thread_dead for it.
ForkNoMem(t) ==
    /\ At(t, "vmfork") /\ thr[t].tgt # thr[t].p /\ MemFails
    /\ thr' = [thr EXCEPT ![t] = [@ EXCEPT !.pc = "dead", !.st = 0, !.use = FALSE]]
    /\ UNCHANGED <<apid, nthreads, ptable, proc, reaped, cwds, oom, nooms, panic>>

\* fork of a thread, which reads its arguments from user memory first.
Sys_tfork(t) ==
    /\ Syscall(t, [thr[t] EXCEPT !.pc = "tfork"])
    /\ UNCHANGED <<apid, nthreads, ptable, proc, reaped, cwds, oom, nooms>>

\* Thread_new: the note enters Threadi, whether Doomall has been there or not ...
Thread_new(t) ==
    /\ At(t, "tfork")
    /\ IF nthreads + 1 > Sysprocs \/ apid + 1 > MaxId
       THEN Return(t) /\ UNCHANGED <<apid, nthreads, proc>>
       ELSE /\ thr' = [thr EXCEPT ![t] = [@ EXCEPT !.pc = "newtid", !.tgt = thr[t].p,
                                                   !.tid = apid + 1]]
            /\ apid' = apid + 1 /\ nthreads' = nthreads + 1
            /\ proc' = [proc EXCEPT ![thr[t].p].notes = @ \cup {apid + 1}]
    /\ UNCHANGED <<ptable, reaped, cwds, oom, nooms, panic>>

\* ... and Start_thread, or Thread_undo.
Start_thread(t) ==
    /\ At(t, "newtid")
    /\ LET p   == thr[t].p
           tid == thr[t].tid
       IN  IF TooMany(p)
           THEN /\ nthreads' = nthreads - 1
                /\ proc' = [proc EXCEPT ![p].notes = @ \ {tid}]
                /\ Return(t)
           ELSE /\ proc' = [proc EXCEPT ![p].twait = <<Entry(tid)>> \o @]
                /\ Goto(t, "vmfork")
                /\ UNCHANGED nthreads
    /\ UNCHANGED <<apid, ptable, reaped, cwds, oom, nooms, panic>>

(***************************************************************************)
(* wait4 and _reap.                                                        *)
(***************************************************************************)
Sys_wait4(t, id, isproc, noblk) ==
    /\ id # t /\ (id = Any => isproc)
    /\ Syscall(t, [thr[t] EXCEPT !.pc = "reap", !.id = id, !.isproc = isproc, !.noblk = noblk])
    /\ UNCHANGED <<apid, nthreads, ptable, proc, reaped, cwds, oom, nooms>>

\* The statuses that _reap looks at.
Waits(t)   == IF thr[t].isproc THEN Mine(t).pwait ELSE Mine(t).twait
Matches(t) == {k \in DOMAIN Waits(t) : thr[t].id \in {Any, Waits(t)[k].id}}
Ready(t)   == {k \in Matches(t) : Waits(t)[k].valid}

\* ECHILD.
ReapNone(t) ==
    /\ At(t, "reap") /\ Matches(t) = {}
    /\ Return(t)
    /\ UNCHANGED <<apid, nthreads, ptable, proc, reaped, cwds, oom, nooms, panic>>

\* The first status on the list that is valid.
\* (Faulty variant: the status stays on the list.)
Reaped_kept(l, k) == l
Reaped(l, k) == wremove(l, k)

ReapReady(t) ==
    /\ At(t, "reap") /\ Ready(t) # {}
    /\ LET k == CHOOSE k \in Ready(t) : \A j \in Ready(t) : k <= j
           i == Waits(t)[k].id
           p == thr[t].p
       IN  /\ proc' = IF thr[t].isproc
                      THEN [proc EXCEPT ![p].pwait = Reaped(@, k)]
                      ELSE [proc EXCEPT ![p].twait = Reaped(@, k)]
           /\ reaped' = [reaped EXCEPT ![i] = @ + 1]
    /\ Return(t)
    /\ UNCHANGED <<apid, nthreads, ptable, cwds, oom, nooms, panic>>

\* KillableWait: the test of killed and the sleep are one critical section.
MaySleep(t) == ~thr[t].killed

\* WNOHANG returns; otherwise the thread sleeps, unless it has been killed.
ReapWait(t) ==
    /\ At(t, "reap") /\ Matches(t) # {} /\ Ready(t) = {}
    /\ IF thr[t].noblk \/ ~MaySleep(t) THEN Return(t) ELSE Goto(t, "asleep")
    /\ UNCHANGED <<apid, nthreads, ptable, proc, reaped, cwds, oom, nooms, panic>>

\* KillableWait returns EINTR to a killed thread; any other looks again.
ReapWake(t) ==
    /\ At(t, "awake")
    /\ IF thr[t].killed THEN Return(t) ELSE Goto(t, "reap")
    /\ UNCHANGED <<apid, nthreads, ptable, proc, reaped, cwds, oom, nooms, panic>>

(***************************************************************************)
(* Out of memory: _reswait, reign and dispatch_peasant.                    *)
(***************************************************************************)
\* Resbegin fails, before the first resched, at a trap or when it is tried again.
\* A thread whose note is marked goes on without.
Reserve(t) ==
    /\ At(t, "user") \/ At(t, "reserve")
    /\ thr[t].cur /\ nooms < MaxOoms
    /\ nooms' = nooms + 1
    /\ Goto(t, IF thr[t].killed THEN "resched" ELSE "oomsend")
    /\ UNCHANGED <<apid, nthreads, ptable, proc, reaped, cwds, oom, panic>>

\* The killer takes a message.
OomRecv(t) ==
    /\ At(t, "oomsend") /\ oom.pc = "idle"
    /\ oom' = [pc |-> "judge", msg |-> t, vic |-> None]
    /\ Goto(t, "oomwait")
    /\ UNCHANGED <<apid, nthreads, ptable, proc, reaped, cwds, nooms, panic>>

\* A thread that waits for the killer is killed itself.
\* (Faulty variant: it does not listen to Killch.)
Killch_none(t) == FALSE
Killch(t) == thr[t].killed

OomKilled(t) ==
    /\ At(t, "oomsend") \/ At(t, "oomwait")
    /\ Killch(t)
    /\ Return(t)
    /\ UNCHANGED <<apid, nthreads, ptable, proc, reaped, cwds, oom, nooms, panic>>

\* There is memory now: the sender tries again.  Resume has room for the answer.
OomResume ==
    /\ oom.pc = "judge" /\ panic = "none"
    /\ oom' = [pc |-> "idle", msg |-> None, vic |-> None]
    /\ IF thr[oom.msg].pc = "oomwait" THEN Goto(oom.msg, "reserve") ELSE UNCHANGED thr
    /\ UNCHANGED <<apid, nthreads, ptable, proc, reaped, cwds, nooms, panic>>

\* There is none: somebody must die, but not init.
OomJudge ==
    /\ oom.pc = "judge" /\ panic = "none"
    /\ IF ptable = {Root} THEN panic' = "nothing to kill?" /\ UNCHANGED oom
       ELSE /\ panic' = "none"
            /\ \E p \in ptable \ {Root} : oom' = [oom EXCEPT !.pc = "doom", !.vic = p]
    /\ UNCHANGED <<apid, nthreads, ptable, proc, thr, reaped, cwds, nooms>>

OomDoom ==
    /\ oom.pc = "doom" /\ panic = "none"
    /\ Doomed(oom.vic) /\ oom' = [oom EXCEPT !.pc = "mark"]
    /\ UNCHANGED <<apid, nthreads, ptable, thr, reaped, cwds, nooms, panic>>

OomMark ==
    /\ oom.pc = "mark" /\ panic = "none"
    /\ thr' = Marked(oom.vic) /\ oom' = [oom EXCEPT !.pc = "wait"]
    /\ UNCHANGED <<apid, nthreads, ptable, proc, reaped, cwds, nooms, panic>>

\* The victim has left the process table.
OomDead ==
    /\ oom.pc = "wait" /\ panic = "none" /\ oom.vic \notin ptable
    /\ oom' = [oom EXCEPT !.pc = "judge", !.vic = None]
    /\ UNCHANGED <<apid, nthreads, ptable, proc, thr, reaped, cwds, nooms, panic>>

(***************************************************************************)
(* The specification.                                                      *)
(***************************************************************************)
Dying(t) ==
    \/ Doom(t) \/ Mark(t) \/ Thread_dead(t) \/ Puttid(t)
    \/ Terminate(t) \/ Putpid(t) \/ Proc_del(t) \/ Leave(t)

Forking(t) ==
    \/ Proc_new(t) \/ First_note(t) \/ ForkNoPmap(t) \/ Start_proc(t) \/ Sched_add(t)
    \/ ForkNoMem(t) \/ Thread_new(t) \/ Start_thread(t)

Reaping(t) == ReapNone(t) \/ ReapReady(t) \/ ReapWait(t) \/ ReapWake(t)

Call(t) ==
    \/ "exit" \in Calls /\ \E st \in Statuses : Sys_exit(t, st)
    \/ "threxit" \in Calls /\ \E st \in Statuses : Sys_threxit(t, st)
    \/ "kill" \in Calls /\ \E p \in Targets : Sys_kill(t, p)
    \/ "fork" \in Calls /\ Sys_fork(t)
    \/ "thread" \in Calls /\ Sys_tfork(t)
    \/ "wait" \in Calls /\ \E id \in Ids \cup {Any}, isproc \in BOOLEAN :
          Sys_wait4(t, id, isproc, FALSE)
    \/ "nohang" \in Calls /\ \E id \in Ids \cup {Any}, isproc \in BOOLEAN :
          Sys_wait4(t, id, isproc, TRUE)
    \/ Reserve(t)

\* What a thread does without being asked to.
Moves(t) ==
    Resbegin(t) \/ Resched(t) \/ Trap(t) \/ Dying(t) \/ Forking(t) \/ Reaping(t) \/ OomKilled(t)

Ooms == (\E t \in Ids : OomRecv(t)) \/ OomResume \/ OomJudge \/ OomDoom \/ OomMark \/ OomDead

Next == (\E t \in Ids : Moves(t) \/ Call(t)) \/ Ooms

Spec == Init /\ [][Next]_vars

\* Goroutines are scheduled, the timer interrupts user code, and the killer
\* runs.
FairSpec ==
    /\ Spec
    /\ \A t \in Ids : WF_vars(\/ Resbegin(t) \/ Resched(t) \/ Dying(t) \/ Forking(t)
                              \/ Reaping(t) \/ OomKilled(t))
                      /\ WF_vars(Trap(t))
    /\ WF_vars(Ooms)

(***************************************************************************)
(* Properties.                                                             *)
(***************************************************************************)
Places == {"none", "reserve", "resched", "user", "doom", "mark", "dead", "puttid", "term", "putpid", "del",
           "exit", "gone", "fork", "procnew", "forked", "vmfork", "tfork", "newtid", "reap", "asleep", "awake",
           "oomsend", "oomwait"}

Lists == Seq([id : Ids, valid : BOOLEAN, status : Statuses])

Procs == [doomed : BOOLEAN, status : Statuses, pw : Ids \cup {None}, notes : SUBSET Ids,
          pwait : Lists, twait : Lists, freed : BOOLEAN]

Thrs == [p : Ids \cup {None}, pc : Places, killed : BOOLEAN, cur : BOOLEAN,
         tgt : Ids \cup {None}, tid : Ids \cup {None}, st : Statuses, use : BOOLEAN,
         last : BOOLEAN, id : Ids \cup {None, Any}, isproc : BOOLEAN, noblk : BOOLEAN]

\* The types of the state.
TypeOK ==
    /\ apid \in Ids /\ nthreads \in Int /\ ptable \subseteq Ids /\ cwds \in Int
    /\ proc \in [Ids -> Procs] /\ thr \in [Ids -> Thrs]
    /\ reaped \in [Ids -> Nat] /\ nooms \in Nat
    /\ oom \in [pc : {"idle", "judge", "doom", "mark", "wait"},
                msg : Ids \cup {None}, vic : Ids \cup {None}]

\* Only one wait for a pid or a tid succeeds.
ReapedOnce == \A i \in Ids : reaped[i] <= 1

\* A parent learns of an exit when it is final: the child has no threads, its
\* files are closed and its memory is free, and the status is its last one.
ExitFinal ==
    \A p \in Ids : \A k \in DOMAIN proc[p].pwait :
        LET e == proc[p].pwait[k]
        IN  e.valid => /\ proc[e.id].notes = {} /\ proc[e.id].freed
                       /\ e.status = proc[e.id].status

\* A thread sleeps in wait only while it has a child that it may wait for, none
\* of these has exited, and nobody has killed it.
SleepsForAReason ==
    \A t \in Ids :
        thr[t].pc = "asleep" => Matches(t) # {} /\ Ready(t) = {} /\ ~thr[t].killed

\* The count of threads that limits the system is the number of threads.  Does not
\* hold once a fork has failed (proc.go:532).
Dead     == {"dead", "puttid", "term", "putpid", "del"}
Live     == {t \in Ids : thr[t].pc \notin {"none", "gone"}}
Creating == {t \in Ids : \/ thr[t].pc \in {"procnew", "forked", "vmfork", "newtid"}
                         \/ thr[t].pc \in Dead /\ thr[t].tid # t}
ThreadsCounted == nthreads = Cardinality(Live) + Cardinality(Creating)

\* Every process that is not terminated has its current directory open, and
\* nothing else keeps one open.
DirsClosed == cwds = Cardinality({p \in ptable : ~proc[p].freed})

\* A fork that fails returns an error to the caller, which runs on.
ForkFailSurvived == panic # "nuts"

\* Doomall marks the threads it finds.  One that is created at that time stays
\* unmarked, and its first reservation may then wait for the killer (res.go:123,
\* proc.go:440), which waits for its process to go.
Missed == /\ oom.pc = "wait"
          /\ \E t \in Ids : thr[t].p = oom.vic /\ thr[t].pc = "oomsend" /\ ~thr[t].killed

\* The killer's victims do not wait for the killer.  Does not hold.
VictimsFound == ~Missed

\* A process that has been killed, by kill, by exit or for its memory, leaves
\* the process table, wherever its threads are and whatever they wait for, unless
\* Doomall has missed a thread of the killer's victim.
KillTerminates ==
    \A p \in Targets :
        (proc[p].doomed /\ p \in ptable) ~> (p \notin ptable \/ Missed \/ panic = "nuts")

\* The out-of-memory killer does not wait for ever for its victim, unless
\* Doomall has missed one of the victim's threads.
OomReturns == (oom.pc = "wait") ~> (oom.pc # "wait" \/ Missed \/ panic = "nuts")

==============================================================================
