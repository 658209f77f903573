--------------------------------- MODULE Log ---------------------------------
(***************************************************************************)
(* The journal of biscuit's file system (fs/log.go): file-system calls     *)
(* (Op_begin, Write, Write_ordered, Op_end, Force, StopLog), the committer *)
(* thread, the disk with its volatile write cache, crashes and recovery.   *)
(*                                                                         *)
(* An action is a critical section of log_t's mutex, or one stage of       *)
(* commit(), which the committer runs with the mutex released, or one      *)
(* stage of apply(), which it runs with the mutex held (see LockFree).     *)
(* Within a transaction a block is logged at most once, so the lists of    *)
(* logged and ordered blocks and the logpresent and orderedpresent maps    *)
(* are two sets, stored into the log in ascending order.                   *)
(***************************************************************************)
EXTENDS LogFormat

CONSTANTS Procs,            \* threads that make file-system calls
          LogBlks,          \* blocks the file system writes with Write
          OrdBlks,          \* blocks it writes with Write_ordered
          Vals, InitVal,    \* contents of a block, and those on a fresh disk
          MaxBlkPerOp,      \* blocks Op_begin reserves for an operation
          MaxOrdered,       \* limit on the ordered blocks of a transaction
          OpWrites,         \* writes an operation really makes, at most
          InitIndex,        \* log index at which the fresh log stands
          PagesReused,      \* may the allocator hand out a freed page again?
          Congested,        \* may the drive's command slots all be taken?
          CrashInRecovery,  \* may the machine crash while it recovers?
          MaxOps, MaxCrash  \* bounds on operations begun and on crashes

Blocks == LogBlks \cup OrdBlks

ASSUME LogAssumption ==
    /\ LL \in Nat /\ MaxDescriptor \in Nat /\ MaxOrdered \in Nat
    /\ MaxBlkPerOp \in Nat /\ MaxBlkPerOp + 1 < maxtrans
    /\ OpWrites \in Nat /\ InitIndex \in Nat
    /\ IsFiniteSet(Procs)
    /\ LogBlks \subseteq Nat \ {0} /\ IsFiniteSet(LogBlks)
    /\ OrdBlks \subseteq Nat \ {0} /\ IsFiniteSet(OrdBlks)
    /\ InitVal \in Vals /\ NoVal \notin Vals
    /\ PagesReused \in BOOLEAN /\ CrashInRecovery \in BOOLEAN /\ Congested \in BOOLEAN
    /\ MaxOps \in Nat /\ MaxCrash \in Nat

VARIABLES
    pc,        \* where each thread is
    nw,        \* writes each thread's current operation has made
    trans,     \* the two trans_t that can be live: curtrans and the committer's
    curtrans,  \* log.curtrans
    ct,        \* the committer's local t
    early,     \* the committer's local early
    cpc,       \* where the committer is
    translog,  \* committed transactions that are not applied yet
    memlog,    \* the in-memory log: type, home block and page of each slot
    tail,      \* log.tail
    stop,      \* log.stop
    cache,     \* block contents as the file system sees them
    mhome, mlog, mhdr,  \* the platter: home blocks, log slots, log header
    whome, wlog, whdr,  \* the drive's write cache for each of them
    stable,    \* history: the contents that recovery would restore now
    dma,       \* ordered blocks handed to the driver and not yet transferred
    panic,     \* the kernel's panic message, "none" while it runs
    promised,  \* history: log index a returned Force vouched for
    ord,       \* history: blocks whose last committed write was ordered
    nops, ncrash  \* operations begun, crashes suffered

procVars  == <<pc, nw, nops>>
transVars == <<trans, curtrans, ct, early, translog>>
diskVars  == <<mhome, mlog, mhdr, stable, whome, wlog, whdr, dma>>
histVars  == <<promised, ord, ncrash>>
vars == <<procVars, transVars, cpc, memlog, tail, stop, cache, diskVars, panic, histVars>>

Page     == [desc : Seq(Int), data : Vals \cup {NoVal}]
MemSlot  == [type : Int, block : Nat, desc : Seq(Int), data : Vals \cup {NoVal}]
Header   == [tail : Nat, head : Nat]
NullPage == [desc |-> << >>, data |-> NoVal]
NullSlot == [type |-> DataBlk, block |-> 0, desc |-> << >>, data |-> NoVal]
NoWrites == [b \in Blocks |-> NoVal]

(***************************************************************************)
(* Transactions.                                                           *)
(***************************************************************************)
mk_trans(start) ==
    [start |-> start, head |-> start + NCommitBlk, inprogress |-> 0,
     logged |-> {}, ordered |-> {}, revoked |-> << >>,
     force |-> FALSE, forceapply |-> FALSE, forcedone |-> FALSE,
     committing |-> FALSE, waiters |-> {}]

\* Blocks of revoke records.  There is never a second one: addRevokeRecord
\* would start it at record MaxDescriptor, and panics at record maxtrans - 1.
revokelen(t) == IF t.revoked = << >> THEN 0 ELSE 1

\* (Faulty variant: a transaction commits while operations are in progress.)
iscommittable_always(t) == TRUE
iscommittable(t) == t.inprogress = 0
isorderedfull(t) == Cardinality(t.ordered) + MaxBlkPerOp >= MaxOrdered
\* (Faulty variant: admission forgets the operations in progress.)
iscommitdescriptorfull_onlyself(t) ==
    Cardinality(t.logged) + revokelen(t) + MaxBlkPerOp >= maxtrans
iscommitdescriptorfull(t) ==
    Cardinality(t.logged) + revokelen(t)
        + t.inprogress * MaxBlkPerOp + MaxBlkPerOp >= maxtrans
isfull(t)  == iscommitdescriptorfull(t) \/ isorderedfull(t)
\* (Faulty variant: ordered blocks do not count.)
isempty_logged(t) == t.logged = {}
isempty(t) == t.logged = {} /\ t.ordered = {}

\* translog.islogged
\* (Faulty variant: no block is found, so none is revoked.)
islogged_never(b) == FALSE
islogged(b) == \E e \in translog : b \in e.logged

space(head, tl)         == loglen - (head - tl)
freespace(head, tl)     == space(head, tl) >= maxtrans
\* (Faulty variant: the log is applied only when nothing is left of it.)
almosthalffull_late(tl, head) == head - tl >= loglen
almosthalffull(tl, head) == (head - tl) + MaxBlkPerOp >= loglen \div 2

\* The index of logged block b in the log: after the descriptor, the revoke
\* block and the logged blocks with smaller numbers.
place(t, b) ==
    t.start + NCommitBlk + revokelen(t) + Cardinality({c \in t.logged : c < b})

(***************************************************************************)
(* The mutex and the condition variables.                                  *)
(***************************************************************************)
\* The committer holds log_t's mutex in these states.
LockFree == cpc \notin {"run", "apply", "applytail", "finish", "boot", "recover", "exited"}
Running  == LockFree /\ panic = "none"

\* The state of the threads after admissioncond.Broadcast().
\* (Faulty variant: nobody is woken.)
Broadcast_none(threads) == threads
Broadcast(threads) ==
    [p \in Procs |-> IF threads[p] = "admitwait" THEN "admit" ELSE threads[p]]

\* The committer's state after commitcond.Signal().
\* (Faulty variant: the wakeup is lost.)
Signal_lost == cpc
Signal == IF cpc = "sleep" THEN "wake" ELSE cpc

Stopping == \E p \in Procs : pc[p] \in {"stopforce", "stopping", "stopped"}

cur == trans[curtrans]
com == trans[ct]

(***************************************************************************)
(* The file system's side: Op_begin, Write, Op_end, Force, StopLog.        *)
(***************************************************************************)
\* Op_begin: a new call, or a thread that admissioncond woke, joins curtrans
\* unless that is full or already committing; otherwise it waits.
Op_begin(p) ==
    /\ Running
    /\ \/ pc[p] = "idle" /\ ~Stopping /\ nops < MaxOps /\ nops' = nops + 1
       \/ pc[p] = "admit" /\ nops' = nops
    /\ IF isfull(cur) \/ cur.committing
       THEN pc' = [pc EXCEPT ![p] = "admitwait"] /\ UNCHANGED <<trans, nw>>
       ELSE /\ pc' = [pc EXCEPT ![p] = "op"]
            /\ nw' = [nw EXCEPT ![p] = 0]
            /\ trans' = [trans EXCEPT ![curtrans].inprogress = @ + 1]
    /\ UNCHANGED <<curtrans, ct, early, translog, cpc, memlog, tail, stop, cache,
                   diskVars, panic, histVars>>

\* The fields of transaction t after add_write of block b.
add_write(t, b, ordered) ==
    [t EXCEPT !.logged  = IF ordered THEN @ \ {b} ELSE @ \cup {b},
              !.ordered = IF ordered THEN @ \cup {b} ELSE @ \ {b},
              !.revoked = IF ordered /\ b \notin t.ordered /\ islogged(b)
                          THEN Append(@, b) ELSE @]

\* Why turning t into new panics in add_write, or "none".
add_write_panic(t, new) ==
    IF new.revoked # t.revoked /\ Len(new.revoked) + 1 >= maxtrans THEN "bad dnum"
    ELSE IF ~(new.ordered \subseteq t.ordered) /\ Cardinality(new.ordered) >= MaxOrdered
         THEN "add_write" ELSE "none"

\* Write and Write_ordered: the caller has put v into its cached block b.
Write(p, b, v, ordered) ==
    /\ Running
    /\ pc[p] = "op" /\ nw[p] < OpWrites
    /\ cache' = [cache EXCEPT ![b] = v]
    /\ nw' = [nw EXCEPT ![p] = @ + 1]
    /\ LET new == add_write(cur, b, ordered)
       IN  /\ panic' = add_write_panic(cur, new)
           /\ trans' = [trans EXCEPT ![curtrans] = new]
    /\ UNCHANGED <<pc, nops, curtrans, ct, early, translog, cpc, memlog, tail, stop,
                   diskVars, histVars>>

\* Op_end: the last operation of a full or forced transaction hands it to
\* the committer; any other wakes the threads waiting for admission.
Op_end(p) ==
    /\ Running
    /\ pc[p] = "op"
    /\ LET t    == [cur EXCEPT !.inprogress = @ - 1]
           last == (isfull(t) \/ t.force) /\ iscommittable(t)
           comm == t.committing \/ last
           idle == [pc EXCEPT ![p] = "idle"]
       IN  /\ panic' = IF cur.inprogress = 0 THEN "mark done" ELSE "none"
           /\ trans' = [trans EXCEPT ![curtrans] = [t EXCEPT !.committing = comm]]
           /\ cpc' = IF last THEN Signal ELSE cpc
           /\ pc' = IF comm THEN idle ELSE Broadcast(idle)
    /\ nw' = [nw EXCEPT ![p] = 0]
    /\ UNCHANGED <<nops, curtrans, ct, early, translog, memlog, tail, stop, cache,
                   diskVars, histVars>>

\* Transaction t once thread p has forced it.
forced(t, p, doapply) ==
    [t EXCEPT !.force = TRUE, !.forceapply = t.forceapply \/ doapply,
              !.committing = t.committing \/ iscommittable(t),
              !.waiters = t.waiters \cup {p}]

\* Force: returns at once when curtrans is empty, else marks curtrans forced,
\* hands it to the committer if no operation is in progress, and waits.
\* StopLog begins with Force(true).
LogForce(p, doapply, stopping) ==
    /\ Running
    /\ pc[p] = "idle" /\ ~Stopping
    /\ stopping => doapply /\ \A q \in Procs : pc[q] = "idle"
    /\ IF isempty(cur) \/ cur.forcedone
       THEN /\ pc' = [pc EXCEPT ![p] = IF stopping THEN "stopping" ELSE "idle"]
            /\ promised' = [promised EXCEPT !.all = Max({@, cur.start})]
            /\ UNCHANGED <<trans, cpc>>
       ELSE /\ pc' = [pc EXCEPT ![p] = IF stopping THEN "stopforce" ELSE "force"]
            /\ trans' = [trans EXCEPT ![curtrans] = forced(cur, p, doapply)]
            /\ cpc' = IF iscommittable(cur) THEN Signal ELSE cpc
            /\ UNCHANGED promised
    /\ UNCHANGED <<nw, nops, curtrans, ct, early, translog, memlog, tail, stop, cache,
                   diskVars, panic, ord, ncrash>>

\* The second half of StopLog: tell the committer to stop and wait for it.
StopLog(p) ==
    /\ Running
    /\ pc[p] = "stopping"
    /\ pc' = [pc EXCEPT ![p] = "stopped"]
    /\ stop' = TRUE
    /\ cpc' = Signal
    /\ UNCHANGED <<nw, nops, transVars, memlog, tail, cache, diskVars, panic, histVars>>

(***************************************************************************)
(* The disk.  A write is handed to the driver and then to the drive's      *)
(* cache, where it stays until a flush; a crash keeps any of them.  The    *)
(* driver's flush waits until no command is at the drive (start), but not  *)
(* for its own queue: when other requests take all the command slots       *)
(* (Congested), a flush can end while earlier writes are still queued, and *)
(* leaves those outstanding.  Recovery waits for each of its writes.       *)
(***************************************************************************)
Destage(S) == [b \in Blocks |-> IF b \in S /\ whome[b] # NoVal THEN whome[b] ELSE mhome[b]]
DestageLog(S) ==
    [s \in Slots |-> IF s \in S
                     THEN [desc |-> memlog[s].desc, data |-> memlog[s].data] ELSE mlog[s]]
DestageHdr == IF whdr = << >> THEN mhdr ELSE whdr[1]

\* The contents of block b that a read from the drive returns.
DiskView(b) == IF whome[b] # NoVal THEN whome[b] ELSE mhome[b]

\* The sets of the writes in S that a flush may pass.
Passed(S) == IF Congested /\ cpc # "recover" THEN SUBSET S ELSE {{}}

flush ==
    /\ \E S \in Passed({b \in Blocks : whome[b] # NoVal}) :
          /\ mhome' = Destage(Blocks \ S)
          /\ whome' = [b \in Blocks |-> IF b \in S THEN whome[b] ELSE NoVal]
    /\ \E S \in Passed(wlog) : mlog' = DestageLog(wlog \ S) /\ wlog' = S
    /\ mhdr' \in {IF S = {} THEN DestageHdr ELSE mhdr : S \in Passed({whdr})}
    /\ stable' = Recovered(mhome', mlog', mhdr')

\* The header's write after a flush: outstanding if the flush passed it.
hdrleft == IF mhdr' = DestageHdr THEN << >> ELSE whdr

\* The header block with its new head or tail, on its way to the platter.
\* (Faulty variant: the header is written with the transaction's start.)
commit_head_start(head) == <<[DestageHdr EXCEPT !.head = com.start]>>
commit_head(head) == <<[DestageHdr EXCEPT !.head = head]>>
commit_tail(tl)   == <<[DestageHdr EXCEPT !.tail = tl]>>

\* The driver sends a flush once no command is at the drive; ordered blocks
\* that are not transferred by then are in its queue.
\* (Faulty variant: a flush does not wait for the commands at the drive.)
FlushReady_now == TRUE
FlushReady == dma = {} \/ Congested

(***************************************************************************)
(* The committer thread.                                                   *)
(***************************************************************************)
\* The bottom of the committer's loop: wait, unless the transaction that is
\* current by then is ready to commit or the log is being stopped.
Bottom(t, stp) ==
    IF ~stp /\ ~((t.force \/ isfull(t)) /\ iscommittable(t)) THEN "sleep" ELSE "run"

\* The committer is at the top of its loop and has (or can take) the mutex.
AtTop == cpc \in {"wake", "run"} /\ panic = "none"

CommitterExit ==
    /\ AtTop /\ stop
    /\ cpc' = "exited"
    /\ UNCHANGED <<procVars, transVars, memlog, tail, stop, cache, diskVars, panic, histVars>>

CommitterIdle ==
    /\ AtTop /\ ~stop /\ ~cur.committing
    /\ cpc' = Bottom(cur, stop)
    /\ UNCHANGED <<procVars, transVars, memlog, tail, stop, cache, diskVars, panic, histVars>>

\* copyrevoked and copylogged: the private copies of t's revoke block and
\* logged blocks in the in-memory log.
copylogged(t) ==
    [s \in Slots |->
        IF t.revoked # << >> /\ s = logindex(t.start + NCommitBlk)
        THEN [type |-> RevokeBlk, block |-> t.revoked[1],
              desc |-> <<RevokeBlk>> \o t.revoked, data |-> NoVal]
        ELSE IF \E b \in t.logged : s = logindex(place(t, b))
        THEN LET b == CHOOSE c \in t.logged : s = logindex(place(t, c))
             IN  [type |-> DataBlk, block |-> b, desc |-> << >>, data |-> cache[b]]
        ELSE memlog[s]]

\* The head of t once its blocks are counted; an empty transaction gives
\* back even its descriptor.
\* (Faulty variant: the descriptor of an empty transaction is given back twice.)
TransHead_short(t) ==
    LET n == Cardinality(t.logged) + revokelen(t)
    IN  IF n = 0 THEN t.start - NCommitBlk ELSE t.head + n
TransHead(t) ==
    LET n == Cardinality(t.logged) + revokelen(t)
    IN  IF n = 0 THEN t.start ELSE t.head + n

\* The committer takes a committing curtrans: copies it, enters it in
\* translog and, if the log has room for another, opens the next one early.
CommitterStart ==
    /\ AtTop /\ ~stop /\ cur.committing
    /\ LET h   == TransHead(cur)
           now == freespace(h, tail)
       IN  /\ panic' = IF space(h, tail) < 0 THEN "space" ELSE "none"
           /\ early' = now
           /\ trans' = [i \in {0, 1} |-> IF i = curtrans THEN [cur EXCEPT !.head = h]
                                         ELSE IF now THEN mk_trans(h) ELSE trans[i]]
           /\ curtrans' = IF now THEN 1 - curtrans ELSE curtrans
           /\ translog' = translog \cup {[head |-> h, logged |-> cur.logged]}
           /\ pc' = IF now THEN Broadcast(pc) ELSE pc
    /\ memlog' = copylogged(cur)
    /\ ct' = curtrans
    /\ cpc' = "commit"
    /\ UNCHANGED <<nw, nops, tail, stop, cache, diskVars, histVars>>

\* The words of t's descriptor, read off the slots the transaction fills.
descriptor(t) ==
    [k \in 1 .. t.head - t.start |->
        LET l == memlog[logindex(t.start + k - 1)]
        IN  IF k = 1 THEN CommitBlk ELSE IF l.type = DataBlk THEN l.block ELSE l.type]

\* commit(), first stage: fill in the descriptor and hand the transaction's
\* slots and its ordered blocks to the driver.
CommitWrite ==
    /\ cpc = "commit" /\ panic = "none"
    /\ panic' = IF com.start # com.head /\ tail > com.start
                THEN "commit runs into log start"
                ELSE IF com.head - com.start >= maxtrans THEN "bad dnum" ELSE "none"
    /\ memlog' = [memlog EXCEPT ![logindex(com.start)] =
                     [@ EXCEPT !.type = CommitBlk, !.desc = descriptor(com), !.data = NoVal]]
    /\ wlog' = wlog \cup {logindex(i) : i \in com.start .. com.head - 1}
    /\ dma' = dma \cup com.ordered
    /\ ord' = [ord EXCEPT !.com = com.ordered]
    /\ trans' = [trans EXCEPT ![ct].ordered = {}]
    /\ cpc' = "ordered"
    /\ UNCHANGED <<procVars, curtrans, ct, early, translog, tail, stop, cache,
                   mhome, mlog, mhdr, stable, whome, whdr, promised, ncrash>>

\* The driver transfers an ordered block from its cached page: the contents
\* are those of this moment, which a later transaction may have changed.
TransferOrdered(b) ==
    /\ b \in dma /\ panic = "none"
    /\ whome' = [whome EXCEPT ![b] = cache[b]]
    /\ dma' = dma \ {b}
    /\ UNCHANGED <<procVars, transVars, cpc, memlog, tail, stop, cache,
                   mhome, mlog, mhdr, stable, wlog, whdr, panic, histVars>>

\* The blocks whose last committed write is ordered, once com has committed.
OrdCommitted == (ord.last \ com.logged) \cup ord.com

\* commit(), second stage: flush, then write the header that commits the
\* transaction (commit_head) unless it put nothing in the log.
CommitFlush ==
    /\ cpc = "ordered" /\ FlushReady /\ panic = "none"
    /\ flush
    /\ IF com.start # com.head
       THEN /\ cpc' = "commithead"
            /\ whdr' = commit_head(com.head)
            /\ ord' = ord
       ELSE cpc' = "committed" /\ whdr' = hdrleft /\ ord' = [ord EXCEPT !.last = OrdCommitted]
    /\ UNCHANGED <<procVars, transVars, memlog, tail, stop, cache, dma, panic,
                   promised, ncrash>>

\* commit_head's flush: the commit point.
CommitHead ==
    /\ cpc = "commithead" /\ panic = "none"
    /\ flush /\ whdr' = hdrleft
    /\ ord' = [ord EXCEPT !.last = OrdCommitted]
    /\ cpc' = "committed"
    /\ UNCHANGED <<procVars, transVars, memlog, tail, stop, cache, dma, panic,
                   promised, ncrash>>

\* The threads that waited in Force for the transaction return from it.
forcedone ==
    [p \in Procs |-> IF p \notin com.waiters THEN pc[p]
                     ELSE IF pc[p] = "stopforce" THEN "stopping" ELSE "idle"]

\* The blocks that cancel finds in the transaction's revoke records.  The
\* page that holds them was freed by copyrevoked: an allocator that reuses
\* it leaves anything there.
RevokesSeen ==
    IF com.revoked = << >> THEN {{}}
    ELSE IF PagesReused THEN SUBSET Blocks ELSE {Range(com.revoked)}

\* cancel: the in-memory log's slots of blocks in revoked are not applied.
cancel(revoked) ==
    [s \in Slots |->
        IF /\ memlog[s].block \in revoked
           /\ \E i \in tail .. com.head - 1 : s = logindex(i)
        THEN [memlog[s] EXCEPT !.type = Canceled] ELSE memlog[s]]

\* The outstanding home writes after those of apply.
over(writes) == [b \in Blocks |-> IF writes[b] # NoVal THEN writes[b] ELSE whome[b]]

Doapply == com.forceapply \/ almosthalffull(tail, com.head)

\* Back under the mutex: wake the forcers; if asked to, or if the log is
\* half full, cancel revoked blocks and write the others home.
CommitDone ==
    /\ cpc = "committed" /\ panic = "none"
    /\ pc' = forcedone
    /\ trans' = [trans EXCEPT ![ct] = [@ EXCEPT !.forcedone = TRUE, !.waiters = {}]]
    /\ promised' = IF com.waiters = {} THEN promised
                   ELSE [wait |-> Max({promised.wait, com.head}),
                         all  |-> Max({promised.all, com.head})]
    /\ IF Doapply /\ tail # com.head
       THEN /\ \E revoked \in RevokesSeen :
                  /\ memlog' = cancel(revoked)
                  /\ whome' = over(apply(cancel(revoked), tail, com.head, Blocks))
            /\ cpc' = "apply"
       ELSE cpc' = "finish" /\ UNCHANGED <<memlog, whome>>
    /\ translog' = IF Doapply /\ tail = com.head
                   THEN {e \in translog : e.head > tail} ELSE translog
    /\ UNCHANGED <<nw, nops, curtrans, ct, early, tail, stop, cache, mhome, mlog, mhdr, stable,
                   wlog, whdr, dma, panic, ord, ncrash>>

\* apply, after its writes: flush, then commit_tail writes the header.
ApplyFlush ==
    /\ cpc = "apply" /\ panic = "none"
    /\ flush
    /\ whdr' = commit_tail(com.head)
    /\ cpc' = "applytail"
    /\ UNCHANGED <<procVars, transVars, memlog, tail, stop, cache, dma, panic, histVars>>

\* commit_tail's flush; the applied transactions leave translog.
ApplyTail ==
    /\ cpc = "applytail" /\ panic = "none"
    /\ flush /\ whdr' = hdrleft
    /\ tail' = com.head
    /\ translog' = {e \in translog : e.head > com.head}
    /\ cpc' = "finish"
    /\ UNCHANGED <<procVars, trans, curtrans, ct, early, memlog, stop, cache, dma, panic,
                   histVars>>

\* The end of the iteration: open the next transaction if that was not done
\* early, and go round the loop.
CommitterFinish ==
    /\ cpc = "finish" /\ panic = "none"
    /\ IF early
       THEN UNCHANGED <<pc, trans, curtrans>> /\ cpc' = Bottom(cur, stop)
       ELSE /\ trans' = [trans EXCEPT ![1 - ct] = mk_trans(com.head)]
            /\ curtrans' = 1 - ct
            /\ pc' = Broadcast(pc)
            /\ cpc' = Bottom(mk_trans(com.head), stop)
    /\ UNCHANGED <<nw, nops, ct, early, translog, memlog, tail, stop, cache, diskVars,
                   panic, histVars>>

(***************************************************************************)
(* Crash and recovery.                                                     *)
(***************************************************************************)
\* The machine loses power, or is rebooted after StopLog: any part of what
\* the drive had cached reaches the platter, and memory is gone.
Crash ==
    /\ panic = "none" /\ cpc # "boot"
    /\ \/ cpc = "exited" /\ ncrash' = ncrash
       \/ /\ cpc # "exited" /\ ncrash < MaxCrash /\ ncrash' = ncrash + 1
          /\ cpc = "recover" => CrashInRecovery
    /\ \E S \in SUBSET {b \in Blocks : whome[b] # NoVal} : mhome' = Destage(S)
    /\ \E S \in SUBSET wlog : mlog' = DestageLog(S)
    /\ \/ mhdr' = mhdr /\ ord' = [ord EXCEPT !.com = {}]
       \/ /\ whdr # << >> /\ mhdr' = DestageHdr
          /\ ord' = [com |-> {}, last |-> IF cpc = "commithead" THEN OrdCommitted ELSE ord.last]
    /\ stable' = Recovered(mhome', mlog', mhdr')
    /\ whome' = NoWrites /\ wlog' = {} /\ whdr' = << >> /\ dma' = {}
    /\ pc' = [p \in Procs |-> "idle"] /\ nw' = [p \in Procs |-> 0]
    /\ trans' = [i \in {0, 1} |-> mk_trans(0)]
    /\ curtrans' = 0 /\ ct' = 0 /\ early' = FALSE /\ translog' = {}
    /\ memlog' = [s \in Slots |-> NullSlot] /\ tail' = 0 /\ stop' = FALSE
    /\ cache' = [b \in Blocks |-> InitVal]
    /\ cpc' = "boot"
    /\ UNCHANGED <<nops, panic, promised>>

\* The end of StartLog on a disk with these home blocks and this header.
StartLog(home, hdr) ==
    /\ tail' = hdr.head
    /\ trans' = [i \in {0, 1} |-> mk_trans(hdr.head)]
    /\ cache' = home
    /\ cpc' = "wake"

\* recover: nothing to do, or install the log and write the header.
Recover ==
    /\ cpc = "boot" /\ panic = "none"
    /\ IF mhdr.tail = mhdr.head
       THEN StartLog(mhome, mhdr) /\ UNCHANGED <<whome, whdr>>
       ELSE /\ whome' = install(mlog, mhdr, Blocks)
            /\ whdr' = commit_tail(mhdr.head)
            /\ cpc' = "recover"
            /\ UNCHANGED <<trans, cache, tail>>
    /\ UNCHANGED <<procVars, curtrans, ct, early, translog, memlog, stop,
                   mhome, mlog, mhdr, stable, wlog, dma, panic, histVars>>

\* recover's only flush, that of commit_tail.
RecoverFlush ==
    /\ cpc = "recover" /\ panic = "none"
    /\ flush /\ whdr' = << >>
    /\ StartLog(Destage(Blocks), DestageHdr)
    /\ UNCHANGED <<procVars, curtrans, ct, early, translog, memlog, stop, dma, panic,
                   histVars>>

(***************************************************************************)
(* The specification.                                                      *)
(***************************************************************************)
Init ==
    /\ pc = [p \in Procs |-> "idle"] /\ nw = [p \in Procs |-> 0] /\ nops = 0
    /\ trans = [i \in {0, 1} |-> mk_trans(InitIndex)]
    /\ curtrans = 0 /\ ct = 0 /\ early = FALSE /\ cpc = "wake" /\ translog = {}
    /\ memlog = [s \in Slots |-> NullSlot] /\ tail = InitIndex /\ stop = FALSE
    /\ cache = [b \in Blocks |-> InitVal]
    /\ mhome = [b \in Blocks |-> InitVal] /\ whome = NoWrites
    /\ mlog = [s \in Slots |-> NullPage] /\ wlog = {}
    /\ mhdr = [tail |-> InitIndex, head |-> InitIndex] /\ whdr = << >>
    /\ stable = mhome /\ dma = {} /\ panic = "none"
    /\ promised = [wait |-> 0, all |-> 0] /\ ord = [com |-> {}, last |-> {}]
    /\ ncrash = 0

Fs(p) ==
    \/ Op_begin(p)
    \/ \E b \in LogBlks, v \in Vals : Write(p, b, v, FALSE)
    \/ \E b \in OrdBlks, v \in Vals : Write(p, b, v, TRUE)
    \/ Op_end(p)
    \/ \E doapply \in BOOLEAN : LogForce(p, doapply, FALSE)
    \/ LogForce(p, TRUE, TRUE)
    \/ StopLog(p)

Committer ==
    \/ CommitterExit \/ CommitterIdle \/ CommitterStart
    \/ CommitWrite \/ (\E b \in Blocks : TransferOrdered(b)) \/ CommitFlush \/ CommitHead
    \/ CommitDone \/ ApplyFlush \/ ApplyTail \/ CommitterFinish
    \/ Recover \/ RecoverFlush

Next == (\E p \in Procs : Fs(p)) \/ Committer \/ Crash

Spec == Init /\ [][Next]_vars

\* The committer and every thread that can go on are scheduled; operations
\* end.  Nothing makes a thread begin an operation, write or call Force.
Fairness ==
    /\ WF_vars(Committer)
    /\ \A p \in Procs : /\ WF_vars(pc[p] = "admit" /\ Op_begin(p))
                        /\ WF_vars(Op_end(p))
                        /\ WF_vars(StopLog(p))

FairSpec == Spec /\ Fairness

\* When the flush of commit or apply ends, no earlier write is outstanding.
Flushes == cpc \in {"ordered", "commithead", "apply", "applytail"} /\ cpc' \notin {cpc, "boot"}
FlushCovers ==
    Flushes => dma = {} /\ whome' = NoWrites /\ wlog' = {} /\ mhdr' = DestageHdr

(***************************************************************************)
(* Properties.                                                             *)
(***************************************************************************)
TransType ==
    [start : Nat, head : Nat, inprogress : Int, logged : SUBSET Blocks,
     ordered : SUBSET Blocks, revoked : Seq(Blocks), force : BOOLEAN,
     forceapply : BOOLEAN, forcedone : BOOLEAN, committing : BOOLEAN,
     waiters : SUBSET Procs]

ProcsType ==
    /\ pc \in [Procs -> {"idle", "admit", "admitwait", "op", "force",
                         "stopforce", "stopping", "stopped"}]
    /\ nw \in [Procs -> 0 .. OpWrites]
    /\ nops \in Nat

TransesType ==
    /\ trans \in [{0, 1} -> TransType]
    /\ curtrans \in {0, 1} /\ ct \in {0, 1} /\ early \in BOOLEAN
    /\ translog \subseteq [head : Nat, logged : SUBSET Blocks]

KernelType ==
    /\ cpc \in {"wake", "run", "sleep", "commit", "ordered", "commithead", "committed",
                "apply", "applytail", "finish", "exited", "boot", "recover"}
    /\ panic \in {"none", "space", "mark done", "bad dnum", "add_write",
                  "commit runs into log start"}
    /\ memlog \in [Slots -> MemSlot]
    /\ tail \in Nat /\ stop \in BOOLEAN
    /\ cache \in [Blocks -> Vals]

DiskType ==
    /\ mhome \in [Blocks -> Vals] /\ whome \in [Blocks -> Vals \cup {NoVal}]
    /\ mlog \in [Slots -> Page] /\ wlog \subseteq Slots
    /\ mhdr \in Header /\ whdr \in Seq(Header)
    /\ stable \in [Blocks -> Vals]
    /\ dma \subseteq Blocks

HistType ==
    /\ promised \in [wait : Nat, all : Nat]
    /\ ord \in [com : SUBSET Blocks, last : SUBSET Blocks]
    /\ ncrash \in Nat

\* The types of the state.
TypeOK == ProcsType /\ TransesType /\ KernelType /\ DiskType /\ HistType

\* A transaction never outgrows its descriptor, nor the space that the log had
\* left when the transaction was opened: the checks in freespace and commit
\* do not fail, and Op_end never ends an operation that is not counted.
LogFits ==
    /\ panic \notin {"space", "mark done", "commit runs into log start"}
    /\ cpc = "commit" => com.head - com.start < maxtrans /\ com.head - tail <= loglen

(* The inductive strengthening of LogFits, in parts. *)
Active   == {p \in Procs : pc[p] = "op"}
Reserved == {r \in Active \X (1 .. OpWrites) : nw[r[1]] < r[2]}
Committing == {"commit", "ordered", "commithead", "committed", "apply", "applytail", "finish"}

\* inprogress counts the operations in progress, and a transaction that is
\* being committed has none.
CountInv ==
    /\ cur.inprogress = Cardinality(Active)
    /\ cur.committing => cur.inprogress = 0

\* The blocks of the current transaction and those its operations may still
\* write fill its descriptor but for the commit word and the end marker.
SizeInv ==
    Cardinality(cur.logged) + revokelen(cur) + Cardinality(Reserved) <= maxtrans - 2

\* A transaction that operations may join has a whole transaction's space.
Open(t) ==
    tail <= t.start /\ freespace(t.start, tail) /\ t.head = t.start + NCommitBlk

\* Where the current transaction and the committer's stand in the log.
SpaceInv ==
    IF cpc \notin Committing THEN Open(cur)
    ELSE /\ com.start <= com.head /\ com.head - com.start < maxtrans
         /\ tail <= com.head /\ com.head - tail <= loglen
         /\ cpc # "finish" => tail <= com.start
         /\ IF early THEN curtrans = 1 - ct /\ cur.start = com.head /\ Open(cur)
            ELSE /\ curtrans = ct /\ com.committing
                 /\ IF cpc = "finish" THEN tail = com.head
                    ELSE ~freespace(com.head, tail)

\* The threads a transaction will wake are the ones that wait in Force for it,
\* and no thread waits for two transactions.
WaitInv ==
    /\ trans[0].waiters \cap trans[1].waiters = {}
    /\ \A p \in trans[0].waiters \cup trans[1].waiters : pc[p] \in {"force", "stopforce"}

Down == cpc \in {"boot", "recover"}

\* No call is in progress before the log has been recovered.
DownInv == Down => \A p \in Procs : pc[p] = "idle"

\* The inductive invariant of the log's bookkeeping: reservations are kept,
\* and every transaction that is open has room in the log.
LogInv ==
    /\ panic \notin {"space", "mark done", "commit runs into log start"}
    /\ CountInv /\ SizeInv /\ SpaceInv /\ WaitInv /\ DownInv

\* The journal as its clients see it.  While a transaction is on its way to
\* the disk, snap is the stable contents overlaid with its private copies.
J == INSTANCE Journal WITH
        Blks   <- LogBlks,
        mem    <- Restrict(IF Down THEN stable ELSE cache, LogBlks),
        stable <- Restrict(stable, LogBlks),
        snap   <- [b \in LogBlks |->
                     IF cpc \in {"commit", "ordered", "commithead"} /\ b \in com.logged
                     THEN memlog[logindex(place(com, b))].data ELSE stable[b]],
        active <- {p \in Procs : pc[p] = "op"}

\* The log implements the journal: operations on logged blocks are atomic
\* with respect to crashes at any point of commit, apply and recovery.  This
\* and the invariants below about the platter need flushes that cover the
\* writes before them (FlushCovers): they fail when the drive is Congested.
AtomicOps == J!Spec

\* Once Force has waited for a commit, the log up to the head of that
\* transaction is on the platter, and stays there across crashes.
WaitedForceDurable == promised.wait <= mhdr.head

\* The blocks the log holds a reference to.
Referenced ==
    cur.logged \cup cur.ordered \cup com.ordered \cup dma
        \cup UNION {e.logged : e \in translog}

\* The cache may evict a block that the log holds no reference to: reading
\* it back returns what the file system wrote last.
UnreferencedClean == ~Down => \A b \in Blocks \ Referenced : DiskView(b) = cache[b]

\* When the header that commits a transaction is written, its ordered blocks
\* are on the platter (unless the next transaction has rewritten them, or a
\* flush has passed their writes in the driver's queue).
OrderedBeforeCommit ==
    cpc \in {"commithead", "committed"} =>
        \A b \in ord.com \ (cur.ordered \cup cur.logged) : mhome[b] = cache[b]

\* After StopLog nothing is left in the drive's cache, and a reboot finds the
\* contents the file system had.
CleanShutdown ==
    cpc = "exited" => whome = NoWrites /\ whdr = << >> /\ stable = cache

\* A thread that waits in Force returns: the operations in progress end, the
\* last one hands the transaction over, and no wakeup is lost.
ForceReturns == \A p \in Procs : pc[p] = "force" ~> pc[p] = "idle"

\* A thread that Op_begin keeps waiting is admitted in the end.
OpAdmitted == \A p \in Procs : pc[p] = "admitwait" ~> pc[p] = "op"

\* StopLog ends with the committer's exit, even when it is called while a
\* transaction is being committed.
LogStops == Stopping ~> cpc = "exited"

\* Recovery never replays a logged block over data that a later committed
\* transaction wrote in place.
NoReplayOverOrdered ==
    \A b \in ord.last : install(mlog, mhdr, Blocks)[b] = NoVal

(***************************************************************************)
(* What the code's comments and tests say and the code does not do.  The   *)
(* README gives, for each, the constants that lead to a counterexample.    *)
(***************************************************************************)
\* When Force has returned, with or without waiting, all transactions before
\* the one that was current are durable.
ForceDurable == promised.all <= mhdr.head

\* A crash while recovery is installing the log loses nothing: the next
\* recovery restores the same contents.
RecoveryRestartable ==
    cpc = "recover" =>
        \A S \in SUBSET {b \in Blocks : whome[b] # NoVal}, hdr \in {mhdr, DestageHdr} :
            Recovered(Destage(S), mlog, hdr) = stable

\* A block written in place by a committed transaction and not referenced any
\* more is on the disk: applying the log does not put an older, logged
\* version over it.
OrderedNotOverwritten ==
    ~Down => \A b \in ord.last \ Referenced : DiskView(b) = cache[b]

\* A block whose last committed write was logged reaches its home before the
\* log lets go of it, whatever it was used for earlier.
LoggedNotLost ==
    ~Down => \A b \in Blocks \ (ord.last \cup Referenced) : DiskView(b) = cache[b]

\* An operation that writes no more blocks than Op_begin reserved for it fits
\* in the transaction's descriptor.
DescriptorFits == panic # "bad dnum"

\* Admission keeps the ordered blocks of a transaction below MaxOrdered.
OrderedBounded == panic # "add_write"

==============================================================================
