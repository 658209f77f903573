-------------------------------- MODULE Pipe ---------------------------------
(***************************************************************************)
(* Pipes (pipe_t and pipefops_t in kernel/syscall.go) with poll            *)
(* (Pollers_t in fdops/fdops.go, sys_poll): threads read, write and poll   *)
(* while the ends are closed and opened, copies to and from user memory    *)
(* fail, and threads are killed.                                           *)
(*                                                                         *)
(* An action is a critical section of the pipe's mutex.  PIPE_BUF is the   *)
(* size of the buffer.  A byte is a pair: the write call that it belongs   *)
(* to, and its place there.                                                *)
(***************************************************************************)
EXTENDS Circbuf

CONSTANTS Readers, Writers, Pollers,  \* threads that read, write, poll
          WriteSizes, ReadSizes,      \* sizes of user buffers
          NSlots,                     \* length of Pollers_t.waiters
          MaxWrites, MaxPolls,        \* calls
          MaxFaults                   \* failed copies, kills, reopenings

Threads == Readers \cup Writers \cup Pollers
Ends    == {"r", "w"}
NoByte  == <<0, 0>>
NoThread == "none"

ASSUME PipeAssumption ==
    /\ WriteSizes \subseteq Nat \ {0} /\ ReadSizes \subseteq Nat \ {0} /\ NSlots \in Nat
    /\ MaxWrites \in Nat /\ MaxPolls \in Nat /\ MaxFaults \in Nat
    /\ NoThread \notin Threads

VARIABLES
    cb,       \* cbuf
    haspage,  \* cbuf's page has been allocated
    open,     \* readers and writers
    closed,   \* closed
    lent,     \* Syslimit.Pipes: what the pipe has taken from it
    sleep,    \* the threads asleep on rcond and on wcond, in order
    slots,    \* pollers.waiters
    allmask,  \* pollers.allmask
    thr,      \* every thread: where it is, its call's arguments, its note
    sent, rcvd,   \* history: bytes that went into and came out of the pipe
    calls,        \* history: size and outcome of every write call
    npolls, nfaults,
    panic

bounds == <<npolls, nfaults>>
pipe   == <<cb, haspage, open, closed, lent>>
poll   == <<slots, allmask>>
vars   == <<pipe, sleep, poll, thr, sent, rcvd, calls, bounds, panic>>

\* id: the write call, or 0; off: how much of the user's buffer is done; slept:
\* the thread has slept since it took the lock and sees next if it was killed; want:
\* the size of a read; end: of a poll; notif: Pollmsg_t's channel.
NullThr == [pc |-> "idle", id |-> 0, off |-> 0, want |-> 0, noblk |-> FALSE, slept |-> FALSE,
            end |-> "r", notif |-> FALSE, killed |-> FALSE]

\* A slot of waiters; ch is the thread whose present call has its channel.
NullSlot == [tid |-> NoThread, events |-> {}, ch |-> NoThread]

Init ==
    /\ cb = Cb_init(NoByte) /\ haspage = FALSE /\ closed = FALSE
    /\ open = [e \in Ends |-> 1] /\ lent = 1
    /\ sleep = [e \in Ends |-> << >>]
    /\ slots = [i \in 1 .. NSlots |-> NullSlot] /\ allmask = {}
    /\ thr = [t \in Threads |-> NullThr]
    /\ sent = << >> /\ rcvd = << >> /\ calls = << >>
    /\ npolls = 0 /\ nfaults = 0 /\ panic = "none"

(***************************************************************************)
(* Condition variables and pollers.                                        *)
(***************************************************************************)
At(t, place) == thr[t].pc = place /\ panic = "none"

\* Where a thread that slept on an end's condition goes on.
Again(e) == IF e = "r" THEN "read" ELSE "write"

\* The threads th once those of the set S are awake.
Awake(th, S, e) == [t \in Threads |-> IF t \in S THEN [th[t] EXCEPT !.pc = Again(e)] ELSE th[t]]

\* The threads that Signal on an end's condition wakes: the first.
\* (Faulty variant: nobody.)
Signal_none(e) == {}
Signal(e) == IF sleep[e] = << >> THEN {} ELSE {Head(sleep[e])}

Asleep(e) == {sleep[e][k] : k \in DOMAIN sleep[e]}

\* Who still sleeps once the threads S, the first or nobody, are awake.
Without(q, S) == IF S = {} THEN q ELSE Tail(q)

\* The threads that Wakeready notifies: the channels of all slots with event r.
\* (Faulty variant: those of the first one.)
Wakeready_first(r) ==
    LET S == {i \in 1 .. NSlots : r \in slots[i].events}
    IN  IF r \notin allmask \/ S = {} THEN {} ELSE {slots[Min(S)].ch}
Wakeready(r) ==
    IF r \notin allmask THEN {} ELSE {slots[i].ch : i \in {j \in 1 .. NSlots : r \in slots[j].events}}

\* The threads th, the slots and the mask after Wakeready(r).
Notified(th, r) ==
    [t \in Threads |-> IF t \in Wakeready(r) THEN [th[t] EXCEPT !.notif = TRUE] ELSE th[t]]
Cleared(r) ==
    IF r \notin allmask THEN UNCHANGED poll
    ELSE /\ slots' = [i \in 1 .. NSlots |->
                        IF r \in slots[i].events THEN [slots[i] EXCEPT !.tid = NoThread]
                        ELSE slots[i]]
         /\ allmask' = UNION {slots[i].events : i \in {j \in 1 .. NSlots : r \notin slots[j].events}}

\* The call returns.
Returned(r) == [NullThr EXCEPT !.killed = r.killed]
Return(t)   == thr' = [thr EXCEPT ![t] = Returned(@)]

\* KillableWait: the thread sleeps on an end's condition; an error if it is
\* killed before it sleeps or while it does.
KillableWait(t, e, r) ==
    /\ ~thr[t].killed
    /\ thr' = [thr EXCEPT ![t] = [r EXCEPT !.pc = "asleep", !.slept = TRUE]]
    /\ sleep' = [sleep EXCEPT ![e] = Append(@, t)]
Interrupted(t) == thr[t].slept /\ thr[t].killed

\* Cb_ensure or the copy from or to user memory fails, a thread is killed, or
\* an end is opened once more.
Fault == nfaults < MaxFaults /\ nfaults' = nfaults + 1

(***************************************************************************)
(* write.                                                                  *)
(***************************************************************************)
Write(t, sz, noblk) ==
    /\ At(t, "idle") /\ ~thr[t].killed /\ Len(calls) < MaxWrites
    /\ calls' = Append(calls, [size |-> sz, done |-> "no"])
    /\ thr' = [thr EXCEPT ![t] = [@ EXCEPT !.pc = "write", !.id = Len(calls) + 1,
                                           !.noblk = noblk]]
    /\ UNCHANGED <<pipe, sleep, poll, sent, rcvd, bounds, panic>>

\* The rest of the user's buffer, and the room that op_write waits for.
Src(t)    == [k \in 1 .. calls[thr[t].id].size - thr[t].off |-> <<thr[t].id, thr[t].off + k>>]
\* (Faulty variant: any room will do.)
Need_one(t) == 1
Need(t) ==
    IF Len(Src(t)) <= bufsz THEN Len(Src(t)) ELSE IF thr[t].noblk THEN 1 ELSE bufsz

MayWrite(t) == ~Interrupted(t) /\ ~closed /\ open["r"] > 0 /\ Left(cb) >= Need(t)

\* write returns with an error, or is started again after ENOHEAP.
WriteErr(t) ==
    /\ calls' = [calls EXCEPT ![thr[t].id].done = "err"]
    /\ Return(t)
Restart(t) ==
    /\ ~thr[t].killed
    /\ thr' = [thr EXCEPT ![t].off = 0, ![t].slept = FALSE]
    /\ UNCHANGED calls

\* EBADF, EPIPE or EWOULDBLOCK; EINTR, or Resadd fails, once it is killed.
WriteFail(t) ==
    /\ At(t, "write")
    /\ thr[t].killed \/ (~MayWrite(t) /\ (closed \/ open["r"] = 0 \/ thr[t].noblk))
    /\ WriteErr(t)
    /\ UNCHANGED <<pipe, sleep, poll, sent, rcvd, bounds, panic>>

WriteWait(t) ==
    /\ At(t, "write") /\ ~MayWrite(t)
    /\ ~closed /\ open["r"] > 0 /\ ~thr[t].noblk
    /\ KillableWait(t, "w", thr[t])
    /\ UNCHANGED <<pipe, poll, sent, rcvd, calls, bounds, panic>>

\* There is no page for the buffer, or the copy fails in one of its parts.
WriteNoPage(t) ==
    /\ At(t, "write") /\ MayWrite(t) /\ ~haspage /\ Fault
    /\ WriteErr(t)
    /\ UNCHANGED <<pipe, sleep, poll, sent, rcvd, npolls, panic>>

WriteFault(t) ==
    /\ At(t, "write") /\ MayWrite(t) /\ Fault
    /\ haspage' = TRUE /\ cb' = Copyin(cb, Src(t), TRUE).cb
    /\ WriteErr(t) \/ Restart(t)
    /\ UNCHANGED <<open, closed, lent, sleep, poll, sent, rcvd, npolls, panic>>

\* Copyin; wake a reader and the pollers.  A blocking write goes on until all
\* of its bytes are in the pipe.
WriteCopy(t) ==
    /\ At(t, "write") /\ MayWrite(t)
    /\ LET in  == Copyin(cb, Src(t), FALSE)
           off == thr[t].off + in.n
           end == thr[t].noblk \/ off = calls[thr[t].id].size
           th  == [thr EXCEPT ![t] = IF end THEN Returned(@) ELSE [@ EXCEPT !.off = off, !.slept = FALSE]]
       IN  /\ cb' = in.cb /\ haspage' = TRUE
           /\ panic' = IF in.wut THEN "wut?" ELSE "none"
           /\ sent' = sent \o SubSeq(Src(t), 1, in.n)
           /\ thr' = Notified(Awake(th, Signal("r"), "r"), "r")
           /\ calls' = IF end THEN [calls EXCEPT ![thr[t].id].done = "ok"] ELSE calls
    /\ sleep' = [sleep EXCEPT !["r"] = Without(@, Signal("r"))]
    /\ Cleared("r")
    /\ UNCHANGED <<open, closed, lent, rcvd, bounds>>

(***************************************************************************)
(* read.                                                                   *)
(***************************************************************************)
\* The critical section of op_read, of a new call or of one that was woken or
\* is started again.
InRead(t, sz, noblk) ==
    \/ At(t, "idle") /\ ~thr[t].killed
    \/ At(t, "read") /\ thr[t].want = sz /\ thr[t].noblk = noblk

MayRead(t) == ~Interrupted(t) /\ ~closed /\ (open["w"] = 0 \/ ~Empty(cb))

\* EBADF or EWOULDBLOCK; EINTR, or Resadd fails, once it is killed.
ReadFail(t, sz, noblk) ==
    /\ InRead(t, sz, noblk)
    /\ thr[t].killed \/ (~MayRead(t) /\ (closed \/ noblk))
    /\ Return(t)
    /\ UNCHANGED <<pipe, sleep, poll, sent, rcvd, calls, bounds, panic>>

ReadWait(t, sz) ==
    /\ InRead(t, sz, FALSE) /\ ~MayRead(t) /\ ~closed
    /\ KillableWait(t, "r", [thr[t] EXCEPT !.want = sz])
    /\ UNCHANGED <<pipe, poll, sent, rcvd, calls, bounds, panic>>

\* There is no page, or the copy fails; the call may be started again.
ReadFault(t, sz, noblk) ==
    /\ InRead(t, sz, noblk) /\ MayRead(t) /\ Fault
    /\ haspage' \in {haspage, TRUE}
    /\ \/ Return(t)
       \/ /\ ~thr[t].killed
          /\ thr' = [thr EXCEPT ![t] = [@ EXCEPT !.pc = "read", !.want = sz, !.noblk = noblk,
                                                !.slept = FALSE]]
    /\ UNCHANGED <<cb, open, closed, lent, sleep, poll, sent, rcvd, calls, npolls, panic>>

\* Copyout; wake a writer and the pollers.
ReadCopy(t, sz, noblk) ==
    /\ InRead(t, sz, noblk) /\ MayRead(t)
    /\ LET out == Copyout(cb, sz)
           th  == [thr EXCEPT ![t] = Returned(@)]
       IN  /\ cb' = out.cb /\ haspage' = TRUE
           /\ panic' = IF out.wut THEN "wut?" ELSE "none"
           /\ rcvd' = rcvd \o out.bytes
           /\ thr' = Notified(Awake(th, Signal("w"), "w"), "w")
    /\ sleep' = [sleep EXCEPT !["w"] = Without(@, Signal("w"))]
    /\ Cleared("w")
    /\ UNCHANGED <<open, closed, lent, sent, calls, bounds>>

(***************************************************************************)
(* close and the opening of another descriptor (fork, dup).                *)
(***************************************************************************)
\* What Close adds to readers and to writers.
CloseArgs(e) == [x \in Ends |-> IF x = e THEN -1 ELSE 0]

\* The pipe dies when nobody has either end.
\* (Faulty variant: when nobody has one of them.)
Dead_half(o) == o["r"] = 0 \/ o["w"] = 0
Dead(o) == o["r"] = 0 /\ o["w"] = 0

\* op_reopen: without writers all readers wake up, without readers all
\* writers; a pipe that dies gives back its page and its place in the limit.
op_reopen(args) ==
    /\ panic = "none" /\ ~closed
    /\ LET o    == [e \in Ends |-> open[e] + args[e]]
           hung(e) == o[IF e = "r" THEN "w" ELSE "r"] = 0
           up(e)   == IF hung(e) THEN Asleep(e) ELSE {}
       IN  /\ open' = o
           /\ thr' = Awake(Awake(thr, up("r"), "r"), up("w"), "w")
           /\ sleep' = [e \in Ends |-> IF hung(e) THEN << >> ELSE sleep[e]]
           /\ closed' = Dead(o)
           /\ IF Dead(o)
              THEN /\ haspage' = FALSE /\ lent' = lent - 1
                   /\ cb' = IF haspage THEN [cb EXCEPT !.head = 0, !.tail = 0] ELSE cb
              ELSE UNCHANGED <<cb, haspage, lent>>
    /\ UNCHANGED <<poll, sent, rcvd, calls, npolls, panic>>

Close(e)  == open[e] > 0 /\ op_reopen(CloseArgs(e)) /\ UNCHANGED nfaults
Reopen(e) ==
    /\ open[e] > 0 /\ Fault
    /\ op_reopen([x \in Ends |-> IF x = e THEN 1 ELSE 0])

(***************************************************************************)
(* poll.                                                                   *)
(***************************************************************************)
\* The loop over the descriptors, of a new call or of one that was notified.  The
\* calls of the model may wait: with a timeout of 0 nothing is changed.
Scan(t, e) ==
    \/ At(t, "idle") /\ npolls < MaxPolls /\ npolls' = npolls + 1
    \/ At(t, "poll") /\ thr[t].end = e /\ UNCHANGED npolls

\* The events that poll of an end asks for (ERR and HUP always), and those that
\* op_poll reports: HUP before WRITE.
Events(e) == {e, "err", "hup"}
Ready(e) ==
    {x \in {"r"} : e = "r" /\ (~Empty(cb) \/ open["w"] = 0)}
        \cup {x \in {"hup"} : open["w"] = 0}
        \cup {x \in {"w"} : e = "w" /\ open["w"] # 0 /\ (~Full(cb) \/ open["r"] = 0)}

\* poll returns; the channel of its message is not used any more.
PollReturn(t) ==
    /\ Return(t)
    /\ slots' = [i \in 1 .. NSlots |-> IF slots[i].ch = t THEN [slots[i] EXCEPT !.ch = NoThread]
                                       ELSE slots[i]]

\* The descriptor has something to report.
PollReady(t, e) ==
    /\ Scan(t, e) /\ open[e] > 0 /\ Ready(e) # {}
    /\ PollReturn(t)
    /\ UNCHANGED <<pipe, sleep, allmask, sent, rcvd, calls, nfaults, panic>>

\* The descriptor is gone, which the count of ready descriptors leaves out: the
\* call waits all the same.
PollGone(t, e) ==
    /\ Scan(t, e) /\ open[e] = 0
    /\ thr' = [thr EXCEPT ![t].pc = "pollwait", ![t].end = e]
    /\ UNCHANGED <<pipe, sleep, poll, sent, rcvd, calls, nfaults, panic>>

\* Addpoller's choice: the thread's slot, else the first free one.
SlotsFor(t) ==
    LET own  == {i \in 1 .. NSlots : slots[i].tid = t}
        free == {i \in 1 .. NSlots : slots[i].tid = NoThread}
    IN  IF own # {} THEN {Min(own)} ELSE IF free # {} THEN {Min(free)} ELSE {}

\* Addpoller; ENOMEM if there is no slot.
PollAdd(t, e) ==
    /\ Scan(t, e) /\ open[e] > 0 /\ Ready(e) = {}
    /\ allmask' = allmask \cup Events(e)
    /\ IF SlotsFor(t) = {} THEN PollReturn(t)
       ELSE /\ thr' = [thr EXCEPT ![t].pc = "pollwait", ![t].end = e]
            /\ slots' = [slots EXCEPT ![Min(SlotsFor(t))] =
                            [tid |-> t, events |-> Events(e), ch |-> t]]
    /\ UNCHANGED <<pipe, sleep, sent, rcvd, calls, nfaults, panic>>

\* Pm_wait: the notification; a timeout, or the thread has been killed.
PollWake(t) ==
    /\ At(t, "pollwait") /\ thr[t].notif
    /\ thr' = [thr EXCEPT ![t] = [@ EXCEPT !.pc = "poll", !.notif = FALSE]]
    /\ UNCHANGED <<pipe, sleep, poll, sent, rcvd, calls, bounds, panic>>

PollEnd(t) ==
    /\ At(t, "pollwait")
    /\ PollReturn(t)
    /\ UNCHANGED <<pipe, sleep, allmask, sent, rcvd, calls, bounds, panic>>

(***************************************************************************)
(* Doomall of a thread that reads or writes: mark it and wake all that     *)
(* sleep where it sleeps.  (PollEnd stands for it where a thread polls.)   *)
(***************************************************************************)
Kill(t) ==
    /\ panic = "none" /\ ~thr[t].killed /\ Fault
    /\ LET th == [thr EXCEPT ![t].killed = TRUE]
           up(e) == IF t \in Asleep(e) THEN Asleep(e) ELSE {}
       IN  /\ thr' = Awake(Awake(th, up("r"), "r"), up("w"), "w")
           /\ sleep' = [e \in Ends |-> IF t \in Asleep(e) THEN << >> ELSE sleep[e]]
    /\ UNCHANGED <<pipe, poll, sent, rcvd, calls, npolls, panic>>

(***************************************************************************)
(* The specification.                                                      *)
(***************************************************************************)
Writing(t) ==
    \/ \E sz \in WriteSizes, noblk \in BOOLEAN : Write(t, sz, noblk)
    \/ WriteFail(t) \/ WriteWait(t) \/ WriteNoPage(t) \/ WriteFault(t) \/ WriteCopy(t)

Reading(t) ==
    \/ \E sz \in ReadSizes, noblk \in BOOLEAN :
          ReadFail(t, sz, noblk) \/ ReadFault(t, sz, noblk) \/ ReadCopy(t, sz, noblk)
    \/ \E sz \in ReadSizes : ReadWait(t, sz)

Polling(t) ==
    \/ \E e \in Ends : PollReady(t, e) \/ PollGone(t, e) \/ PollAdd(t, e)
    \/ PollWake(t) \/ PollEnd(t)

Next ==
    \/ \E t \in Writers : Writing(t)
    \/ \E t \in Readers : Reading(t)
    \/ \E t \in Pollers : Polling(t)
    \/ \E e \in Ends : Close(e) \/ Reopen(e)
    \/ \E t \in Readers \cup Writers : Kill(t)

Spec == Init /\ [][Next]_vars

(***************************************************************************)
(* Properties.                                                             *)
(***************************************************************************)
Byte  == (0 .. MaxWrites) \X Nat
Cbs   == [buf : [0 .. bufsz - 1 -> Byte], head : Nat, tail : Nat]
Mask  == {"r", "w", "err", "hup"}
Slots == [tid : Threads \cup {NoThread}, events : SUBSET Mask, ch : Threads \cup {NoThread}]
Thrs  == [pc : {"idle", "read", "write", "asleep", "poll", "pollwait"}, id : 0 .. MaxWrites, off : Nat,
          want : Nat, noblk : BOOLEAN, slept : BOOLEAN, end : Ends, notif : BOOLEAN, killed : BOOLEAN]
Calls == [size : WriteSizes, done : {"no", "ok", "err"}]

\* The types of the state.
TypeOK ==
    /\ cb \in Cbs /\ cb.head - cb.tail \in 0 .. bufsz
    /\ haspage \in BOOLEAN /\ closed \in BOOLEAN /\ lent \in Nat
    /\ open \in [Ends -> Nat]
    /\ sleep \in [Ends -> Seq(Threads)]
    /\ slots \in [1 .. NSlots -> Slots] /\ allmask \subseteq Mask
    /\ thr \in [Threads -> Thrs]
    /\ sent \in Seq(Byte) /\ rcvd \in Seq(Byte) /\ calls \in Seq(Calls)
    /\ npolls \in Nat /\ nfaults \in Nat /\ panic \in {"none", "wut?"}

\* What comes out of a pipe is what went in, in order, without gaps and
\* repetitions, and the rest is in the buffer: across wrap-around, short reads
\* and copies that fail half way.
Stream == panic = "none" /\ (~closed => rcvd \o Contents(cb) = sent)

\* The places of write call i in the stream.
Places(i) == {k \in DOMAIN sent : sent[k][1] = i}

\* A write of at most PIPE_BUF bytes is all or nothing: its bytes are in the
\* stream once and side by side if it succeeded, and not at all if it failed,
\* however often it was started again.
SmallWritesAtomic ==
    \A i \in DOMAIN calls : calls[i].size <= bufsz =>
        /\ Places(i) # {} => /\ Cardinality(Places(i)) = calls[i].size
                             /\ Max(Places(i)) - Min(Places(i)) = calls[i].size - 1
        /\ calls[i].done # "no" => (calls[i].done = "ok" <=> Places(i) # {})

\* With one reader and one writer nobody sleeps who could go on: a reader
\* sleeps while the pipe is empty and has writers, a writer while there is no
\* room for it and the pipe has readers, and no killed thread sleeps.
SleepsForAReason ==
    /\ \A t \in Asleep("r") : ~MayRead(t) /\ ~closed /\ ~thr[t].killed
    /\ \A t \in Asleep("w") : ~MayWrite(t) /\ ~closed /\ open["r"] > 0 /\ ~thr[t].killed

\* A thread that waits in poll is notified as soon as there is something to
\* read, or room to write, at the end that it waits for.
PollNotified ==
    \A t \in Pollers, i \in 1 .. NSlots :
        thr[t].pc = "pollwait" /\ slots[i].ch = t /\ open[thr[t].end] > 0 =>
            (IF thr[t].end = "r" THEN Empty(cb) ELSE Full(cb)) \/ thr[t].notif

\* A pipe without ends has no sleepers and no page, and has left the limit on
\* pipes, once.
DeadReleased ==
    closed <=> (open = [e \in Ends |-> 0] /\ ~haspage /\ lent = 0
                /\ sleep = [e \in Ends |-> << >>])

(***************************************************************************)
(* What the code does not do.  The README gives the constants that lead to *)
(* a counterexample.                                                       *)
(***************************************************************************)
\* The same for the end of the stream: a poller is notified of a hang-up.
HangupNotified ==
    \A t \in Pollers, i \in 1 .. NSlots :
        thr[t].pc = "pollwait" /\ slots[i].ch = t /\ open[thr[t].end] > 0 =>
            Ready(thr[t].end) = {} \/ thr[t].notif

\* No write puts a byte into the stream twice.
WrittenOnce == \A j, k \in DOMAIN sent : sent[j] = sent[k] => j = k

==============================================================================
