-------------------------------- MODULE Ahci ---------------------------------
(***************************************************************************)
(* The disk driver (ahci/ahci.go): requests of the file system are issued  *)
(* in command slots, or queued and combined while there is none; an        *)
(* interrupt ends them.  Flushes wait for the slots to become empty.       *)
(*                                                                         *)
(* An action is a critical section of the port's mutex, or a step of the   *)
(* drive, which executes the commands that it has in any order and keeps   *)
(* what is written in a volatile cache until it executes a flush.          *)
(***************************************************************************)
EXTENDS Integers, Sequences, FiniteSets, FiniteSetsExt

CONSTANTS Threads,          \* callers of Start
          ReadBlks,         \* blocks that are read (Read)
          WriteBlks,        \* blocks that are written (Write_async)
          SyncBlks,         \* blocks that are written synchronously (Write)
          nslot,            \* command slots that the drive has
          HbaSlots,         \* slots that port_intr looks at: 32
          MaxReqs           \* requests

Slots == 0 .. nslot - 1
Cmds  == {"read", "write", "flush"}

ASSUME AhciAssumption ==
    /\ ReadBlks \subseteq Nat /\ WriteBlks \subseteq Nat /\ SyncBlks \subseteq Nat
    /\ nslot \in Nat \ {0} /\ HbaSlots \in Nat /\ MaxReqs \in Nat

VARIABLES
    reqs,       \* history: the requests in the order in which start took the lock
    queued,     \* queued
    inflight,   \* inflight
    next_slot,  \* next_slot
    ci,         \* port.ci: slots whose command the drive has
    pis, his,   \* the interrupt status of the port and of the host adapter
    handler,    \* where int_handler is: no interrupt, intr, clear_is
    mgr,        \* queuemgr: waits on cond_queued, or has been woken
    flushers,   \* threads that wait on cond_flush, in order
    thr,        \* every thread: where it is, and the request of its call
    got,        \* history: requests whose data the drive has transferred
    durable,    \* history: writes that are on the platter
    done,       \* history: how often the block of a write was released
    panic

drive == <<ci, pis, his>>
hist  == <<got, durable, done>>
vars  == <<reqs, queued, inflight, next_slot, drive, handler, mgr, flushers, thr, hist, panic>>

NoReq  == [id |-> 0, cmd |-> "none", sync |-> FALSE, blks |-> << >>]
ReqIds == 1 .. MaxReqs

\* A block of a request: its number, and the call that it came with.
Blk(b, i) == [no |-> b, of |-> i]
Calls(r)  == {r.blks[k].of : k \in DOMAIN r.blks} \cup {r.id}

Init ==
    /\ reqs = << >> /\ queued = << >> /\ inflight = [s \in Slots |-> NoReq] /\ next_slot = 0
    /\ ci = {} /\ pis = FALSE /\ his = FALSE
    /\ handler = "none" /\ mgr = "wait" /\ flushers = << >>
    /\ thr = [t \in Threads |-> [pc |-> "idle", id |-> 0]]
    /\ got = {} /\ durable = {} /\ done = [i \in ReqIds |-> 0] /\ panic = FALSE

\* The mutex is free: port_intr keeps it until clear_is has been done.
Running == ~panic /\ handler # "clear"

(***************************************************************************)
(* Slots and the queue.                                                    *)
(***************************************************************************)
\* A slot can be used when it has no request and the drive no command in it.
\* (Faulty variant: a request whose end has not been handled is forgotten.)
Free_ci(s) == s \notin ci
Free(s) == inflight[s] = NoReq /\ s \notin ci

\* find_slot: the first free slot from next_slot on, then from 0.
FreeSlots == {s \in Slots : Free(s)}
find_slot == LET after == {s \in FreeSlots : s >= next_slot}
             IN  IF after # {} THEN Min(after) ELSE Min(FreeSlots)

startslot(r, s) ==
    /\ inflight' = [inflight EXCEPT ![s] = r]
    /\ ci' = ci \cup {s}
    /\ next_slot' = (next_slot + 1) % nslot

\* The queued requests that r can be appended to: the same command, up to the
\* block before it, and no flush on the way.
Mergeable(r) ==
    {k \in DOMAIN queued :
        /\ r.cmd # "flush" /\ \A j \in 1 .. k : queued[j].cmd # "flush"
        /\ queued[k].cmd = r.cmd
        /\ r.blks[1].no = queued[k].blks[Len(queued[k].blks)].no + 1}

\* queue_coalesce: r's blocks go to the first such request, and r is dropped.
\* (Faulty variant: a request that cannot be appended goes to the front.)
queue_coalesce_front(r) ==
    IF Mergeable(r) # {}
    THEN [queued EXCEPT ![Min(Mergeable(r))].blks = @ \o r.blks]
    ELSE <<r>> \o queued
queue_coalesce(r) ==
    IF Mergeable(r) # {}
    THEN [queued EXCEPT ![Min(Mergeable(r))].blks = @ \o r.blks]
    ELSE Append(queued, r)

\* The end of start: queue the request if others wait or no slot is free.
Enter(r) ==
    IF queued # << >> \/ FreeSlots = {}
    THEN /\ queued' = IF queued # << >> THEN queue_coalesce(r) ELSE <<r>>
         /\ UNCHANGED <<inflight, ci, next_slot>>
    ELSE startslot(r, find_slot) /\ UNCHANGED queued

MkRequest(i, cmd, b, sync) ==
    [id |-> i, cmd |-> cmd, sync |-> sync, blks |-> IF cmd = "flush" THEN << >> ELSE <<Blk(b, i)>>]

(***************************************************************************)
(* start, and the callers, which wait for the answer to a synchronous      *)
(* request.                                                                *)
(***************************************************************************)
Start(t, cmd, b, sync) ==
    /\ Running /\ thr[t].pc = "idle" /\ Len(reqs) < MaxReqs
    /\ reqs' = Append(reqs, [cmd |-> cmd, no |-> b, sync |-> sync])
    /\ LET i == Len(reqs) + 1 IN
       IF cmd = "flush" /\ ci # {}
       THEN /\ thr' = [thr EXCEPT ![t] = [pc |-> "flush", id |-> i]]
            /\ flushers' = Append(flushers, t)
            /\ UNCHANGED <<queued, inflight, ci, next_slot>>
       ELSE /\ thr' = IF sync THEN [thr EXCEPT ![t] = [pc |-> "ack", id |-> i]] ELSE thr
            /\ Enter(MkRequest(i, cmd, b, sync))
            /\ UNCHANGED flushers
    /\ UNCHANGED <<pis, his, handler, mgr, hist, panic>>

\* A flush that was woken looks at the slots again.
FlushAgain(t) ==
    /\ Running /\ thr[t].pc = "woken"
    /\ IF ci # {}
       THEN /\ thr' = [thr EXCEPT ![t].pc = "flush"]
            /\ flushers' = Append(flushers, t)
            /\ UNCHANGED <<queued, inflight, ci, next_slot>>
       ELSE /\ thr' = [thr EXCEPT ![t].pc = "ack"]
            /\ Enter(MkRequest(thr[t].id, "flush", 0, TRUE))
            /\ UNCHANGED flushers
    /\ UNCHANGED <<reqs, pis, his, handler, mgr, hist, panic>>

(***************************************************************************)
(* queuemgr.  The ok that find_slot sets is not the one that decides about *)
(* waiting: it waits after every round.                                    *)
(***************************************************************************)
QueueMgr ==
    /\ Running /\ mgr = "woken"
    /\ mgr' = "wait"
    /\ IF queued # << >> /\ FreeSlots # {}
       THEN startslot(Head(queued), find_slot) /\ queued' = Tail(queued)
       ELSE UNCHANGED <<queued, inflight, ci, next_slot>>
    /\ UNCHANGED <<reqs, pis, his, handler, flushers, thr, hist, panic>>

(***************************************************************************)
(* The drive, and the interrupt handler.                                   *)
(***************************************************************************)
\* The drive ends a command.  A write is in its cache, a flush empties that.
Complete(s) ==
    /\ ~panic /\ s \in ci
    /\ ci' = ci \ {s} /\ pis' = TRUE /\ his' = TRUE
    /\ got' = got \cup Calls(inflight[s])
    /\ durable' = IF inflight[s].cmd = "flush" THEN {i \in got : reqs[i].cmd = "write"} ELSE durable
    /\ UNCHANGED <<reqs, queued, inflight, next_slot, handler, mgr, flushers, thr, done, panic>>

\* intr: the status of the port is cleared before its slots are looked at.
Intr ==
    /\ ~panic /\ his /\ handler = "none"
    /\ handler' = "intr" /\ pis' = FALSE
    /\ UNCHANGED <<reqs, queued, inflight, next_slot, ci, his, mgr, flushers, thr, hist, panic>>

\* The slots whose request has ended.
\* (Faulty variant: all that have a request.)
Ended_all == {s \in Slots : inflight[s] # NoReq}
Ended == {s \in Slots : inflight[s] # NoReq /\ s \notin ci}

\* The threads that port_intr wakes on cond_flush, a Signal for each slot.
FlushSignals == IF queued = << >> THEN Min({Cardinality(Ended), Len(flushers)}) ELSE 0

\* port_intr: release the blocks that are written, answer synchronous
\* requests, free the slots, wake queuemgr and flushes.  The loop is over
\* HbaSlots elements of inflight, which has nslot.
PortIntr ==
    /\ ~panic /\ handler = "intr"
    /\ LET over(i) == Cardinality({s \in Ended : inflight[s].cmd = "write" /\ i \in Calls(inflight[s])})
           acked == {inflight[s].id : s \in {e \in Ended : inflight[e].sync}}
           woken == {flushers[k] : k \in 1 .. FlushSignals}
       IN  /\ done' = [i \in ReqIds |-> done[i] + over(i)]
           /\ thr' = [t \in Threads |->
                        IF thr[t].pc = "ack" /\ thr[t].id \in acked THEN [pc |-> "idle", id |-> 0]
                        ELSE IF t \in woken THEN [thr[t] EXCEPT !.pc = "woken"]
                        ELSE thr[t]]
    /\ inflight' = [s \in Slots |-> IF s \in Ended THEN NoReq ELSE inflight[s]]
    /\ mgr' = IF Ended # {} /\ queued # << >> THEN "woken" ELSE mgr
    /\ flushers' = SubSeq(flushers, FlushSignals + 1, Len(flushers))
    /\ handler' = "clear" /\ panic' = (nslot < HbaSlots)
    /\ UNCHANGED <<reqs, queued, next_slot, drive, got, durable>>

\* The status of the host adapter after clear_is: still set if the port has
\* something to report.
\* (Faulty variant: it is clear.)
clear_is_lost == FALSE
clear_is == pis

ClearIs ==
    /\ ~panic /\ handler = "clear"
    /\ his' = clear_is /\ handler' = "none"
    /\ UNCHANGED <<reqs, queued, inflight, next_slot, ci, pis, mgr, flushers, thr, hist, panic>>

(***************************************************************************)
(* The specification.                                                      *)
(***************************************************************************)
Call(t) ==
    \/ \E b \in ReadBlks : Start(t, "read", b, TRUE)
    \/ \E b \in WriteBlks : Start(t, "write", b, FALSE)
    \/ \E b \in SyncBlks : Start(t, "write", b, TRUE)
    \/ Start(t, "flush", 0, TRUE)

Next ==
    \/ \E t \in Threads : Call(t) \/ FlushAgain(t)
    \/ QueueMgr
    \/ \E s \in Slots : Complete(s)
    \/ Intr \/ PortIntr \/ ClearIs

Spec == Init /\ [][Next]_vars

\* The drive ends the commands that it has, and woken goroutines run.
Fairness ==
    /\ WF_vars(QueueMgr) /\ WF_vars(Intr) /\ WF_vars(PortIntr) /\ WF_vars(ClearIs)
    /\ \A t \in Threads : WF_vars(FlushAgain(t))
    /\ \A s \in Slots : WF_vars(Complete(s))
FairSpec == Spec /\ Fairness

(***************************************************************************)
(* Properties.                                                             *)
(***************************************************************************)
History == [cmd : Cmds, no : Nat, sync : BOOLEAN]
Reqs    == [id : ReqIds, cmd : Cmds, sync : BOOLEAN, blks : Seq([no : Nat, of : ReqIds])]

\* The types of the state; the drive has a command only in slots in use.
TypeOK ==
    /\ reqs \in Seq(History) /\ Len(reqs) <= MaxReqs
    /\ queued \in Seq(Reqs) /\ inflight \in [Slots -> Reqs \cup {NoReq}]
    /\ next_slot \in Slots /\ ci \subseteq {s \in Slots : inflight[s] # NoReq}
    /\ pis \in BOOLEAN /\ his \in BOOLEAN /\ handler \in {"none", "intr", "clear"} /\ panic \in BOOLEAN
    /\ mgr \in {"wait", "woken"} /\ flushers \in Seq(Threads)
    /\ thr \in [Threads -> [pc : {"idle", "ack", "flush", "woken"}, id : 0 .. MaxReqs]]
    /\ got \subseteq ReqIds /\ durable \subseteq got /\ done \in [ReqIds -> Nat]

InQueue(i) == \E k \in DOMAIN queued : i \in Calls(queued[k])
InSlot(i)  == \E s \in Slots : i \in Calls(inflight[s])
Asleep(i)  == \E t \in Threads : thr[t].id = i /\ thr[t].pc \in {"flush", "woken"}

\* The end of a request has been handled.
Over(i) == IF reqs[i].cmd = "write" THEN done[i] > 0 ELSE i \in got /\ ~InSlot(i)

\* No request is lost and none is executed twice: it is asleep, in the queue, in
\* a slot or over, in one of them only, also when requests are combined, slots
\* are used again and the queue fills and empties.
ExecutedOnce ==
    \A i \in DOMAIN reqs :
        /\ Cardinality({s \in Slots : i \in Calls(inflight[s])}) <= 1
        /\ Cardinality({x \in 1 .. 4 : <<Asleep(i), InQueue(i), InSlot(i), Over(i)>>[x]}) = 1

\* The page of a written block is released once, after the drive has read it,
\* and a call returns after the drive has done what it asks for.
ReleasedAfter ==
    /\ \A i \in ReqIds : done[i] <= 1 /\ (done[i] = 1 => i \in got)
    /\ \A i \in DOMAIN reqs :
        reqs[i].sync /\ (\A t \in Threads : thr[t].id # i) => i \in got

\* A flush does not overtake the writes that were started before it: they have
\* left the queue when it does.
FlushNotOvertaking ==
    \A f, w \in DOMAIN reqs :
        w < f /\ reqs[f].cmd = "flush" /\ reqs[w].cmd = "write" /\ (InSlot(f) \/ f \in got) => ~InQueue(w)

\* The request of a call that waits for its answer.  There is none when
\* queue_coalesce has given its block to a queued one and dropped it, and with it
\* the channel that the caller waits on (ahci.go:909-916).
HasRequest(t) ==
    \/ \E k \in DOMAIN queued : queued[k].id = thr[t].id
    \/ \E s \in Slots : inflight[s].id = thr[t].id

\* Every synchronous call returns, however interrupts and wakeups fall together,
\* unless its request has been dropped: that call waits for ever.
CallsReturn ==
    \A t \in Threads :
        thr[t].pc # "idle" ~> (thr[t].pc = "idle" \/ (thr[t].pc = "ack" /\ ~HasRequest(t)))

(***************************************************************************)
(* What the code does not do.                                              *)
(***************************************************************************)
\* A flush covers the writes before it: when it returns they are durable.
FlushCovers ==
    \A f, w \in DOMAIN reqs :
        w < f /\ reqs[f].cmd = "flush" /\ reqs[w].cmd = "write"
            /\ (\A t \in Threads : thr[t].id # f) => w \in durable

\* A call that waits for an answer has a request that will give it.
AnswerComing == \A t \in Threads : thr[t].pc = "ack" => HasRequest(t)

\* An interrupt never stops the kernel.
NoPanic == ~panic

==============================================================================
