------------------------------ MODULE AhciProofs -------------------------------
(***************************************************************************)
(* Proofs about Ahci, for any number of slots, callers, blocks and         *)
(* requests: a request is executed once, its page is released once and     *)
(* after the drive has it, calls return after the drive has done what they *)
(* ask for, and flushes do not overtake writes.                            *)
(***************************************************************************)
EXTENDS Ahci, FiniteSetTheorems, WellFoundedInduction, TLAPS

-------------------------------------------------------------------------------
(***************************************************************************)
(* The inductive invariant.                                                *)
(***************************************************************************)
\* A request that is queued or in a slot is for calls of its kind.
ReqOK(r) == \A i \in Calls(r) : i \in DOMAIN reqs /\ reqs[i].cmd = r.cmd

QueueOK == \A k \in DOMAIN queued : ReqOK(queued[k])
SlotsOK == \A s \in Slots : inflight[s] # NoReq => ReqOK(inflight[s])

\* No call is in two requests.
Disjoint ==
    /\ \A j, k \in DOMAIN queued : j # k => Calls(queued[j]) \cap Calls(queued[k]) = {}
    /\ \A s, u \in Slots : s # u /\ inflight[s] # NoReq =>
                             Calls(inflight[s]) \cap Calls(inflight[u]) = {}
    /\ \A k \in DOMAIN queued, s \in Slots : Calls(queued[k]) \cap Calls(inflight[s]) = {}

\* What has happened to a call, by the place where it is.
AsleepOK == \A i \in DOMAIN reqs :
    Asleep(i) => i \notin got /\ ~InQueue(i) /\ ~InSlot(i) /\ reqs[i].cmd = "flush"
WaitsOK  == \A i \in DOMAIN reqs : InQueue(i) => i \notin got
SentOK   == \A s \in Slots : inflight[s] # NoReq =>
    \A i \in Calls(inflight[s]) : (i \in got <=> s \notin ci) /\ done[i] = 0
EndedOK  == \A i \in DOMAIN reqs : ~Asleep(i) /\ ~InQueue(i) /\ ~InSlot(i) =>
    i \in got /\ (reqs[i].cmd = "write" => done[i] = 1)
DoneOK   == \A i \in ReqIds :
    /\ done[i] \in {0, 1}
    /\ i \in got => i \in DOMAIN reqs
    /\ done[i] = 1 => i \in got /\ reqs[i].cmd = "write"

\* The threads that wait, and what for.
ThreadsOK ==
    /\ \A t \in Threads : /\ thr[t].pc = "idle" <=> thr[t].id = 0
                          /\ thr[t].id # 0 => thr[t].id \in DOMAIN reqs
    /\ \A t, u \in Threads : thr[t].id = thr[u].id /\ t # u => thr[t].id = 0
    /\ \A k \in DOMAIN flushers : thr[flushers[k]].pc = "flush"
    /\ \A j, k \in DOMAIN flushers : j # k => flushers[j] # flushers[k]
    /\ \A i \in DOMAIN reqs : reqs[i].sync => i \in got \/ \E t \in Threads : thr[t].id = i

\* Writes that are queued behind a flush were started after it.
OrderOK ==
    /\ \A j, k \in DOMAIN queued : \A f \in Calls(queued[j]), w \in Calls(queued[k]) :
         j < k /\ queued[j].cmd = "flush" /\ queued[k].cmd = "write" => f < w
    /\ FlushNotOvertaking

PlacesInv == QueueOK /\ SlotsOK /\ Disjoint /\ AsleepOK /\ WaitsOK /\ SentOK /\ EndedOK /\ DoneOK
IInv == TypeOK /\ PlacesInv /\ ThreadsOK /\ OrderOK

-------------------------------------------------------------------------------
(***************************************************************************)
(* Operators.                                                              *)
(***************************************************************************)
\* The least element of a set of natural numbers.
LEMMA MinNat ==
    ASSUME NEW S \in SUBSET Nat, S # {}
    PROVE  Min(S) \in S /\ \A y \in S : Min(S) <= y
<1>1. PICK x \in S : \A y \in S : ~(<<y, x>> \in OpToRel(<, Nat))
  BY WFMin, NatLessThanWellFounded
<1>2. \A u, v \in Nat : u < v => <<u, v>> \in OpToRel(<, Nat)
  BY Zenon DEF OpToRel
<1>3. \A y \in S : ~(y < x)
  BY <1>1, <1>2, Zenon
<1>4. \A y \in S : x <= y
  BY <1>3
<1> QED BY <1>4 DEF Min

\* At most one element.
LEMMA AtMostOne ==
    ASSUME NEW S, \A x, y \in S : x = y
    PROVE  IsFiniteSet(S) /\ Cardinality(S) <= 1 /\ (S = {} => Cardinality(S) = 0)
           /\ (S # {} => Cardinality(S) = 1)
<1>1. CASE S = {}
  BY <1>1, FS_EmptySet
<1>2. CASE S # {}
  <2>1. PICK x \in S : TRUE
    BY <1>2
  <2>2. S = {x}
    BY <2>1
  <2> QED BY <1>2, <2>2, FS_Singleton
<1> QED BY <1>1, <1>2

\* Elements of a sequence.
LEMMA Elements ==
    ASSUME NEW B, NEW q \in Seq(B)
    PROVE  Len(q) \in Nat /\ DOMAIN q = 1 .. Len(q) /\ \A k \in DOMAIN q : q[k] \in B
OBVIOUS

\* The slots are finitely many.
LEMMA SlotsFinite == IsFiniteSet(Slots) /\ Slots \subseteq Nat /\ nslot \in Nat \ {0}
BY FS_Interval, AhciAssumption DEF Slots

\* The calls of a request.
LEMMA CallsFacts ==
    /\ Calls(NoReq) = {0} /\ NoReq \notin Reqs
    /\ \A r \in Reqs : Calls(r) \subseteq ReqIds /\ r.id \in Calls(r)
    /\ 0 \notin ReqIds /\ ReqIds \subseteq Nat
<1>1. 0 \notin ReqIds /\ ReqIds \subseteq Nat
  BY AhciAssumption DEF ReqIds
<1>2. Calls(NoReq) = {0}
  BY DEF Calls, NoReq
<1>3. NoReq \notin Reqs
  BY <1>1 DEF NoReq, Reqs
<1>4. ASSUME NEW r \in Reqs PROVE Calls(r) \subseteq ReqIds /\ r.id \in Calls(r)
  <2>1. r.id \in ReqIds /\ r.blks \in Seq([no : Nat, of : ReqIds])
    BY DEF Reqs
  <2>2. \A k \in DOMAIN r.blks : r.blks[k] \in [no : Nat, of : ReqIds]
    BY <2>1, Elements
  <2> QED BY <2>1, <2>2 DEF Calls
<1> QED BY <1>1, <1>2, <1>3, <1>4

\* The request that a call makes.
LEMMA Fresh ==
    ASSUME NEW i \in ReqIds, NEW cmd \in Cmds, NEW b \in Nat, NEW sync \in BOOLEAN
    PROVE  LET r == MkRequest(i, cmd, b, sync)
           IN  /\ r \in Reqs /\ Calls(r) = {i} /\ r.cmd = cmd /\ r.id = i
               /\ cmd # "flush" => r.blks = <<Blk(b, i)>>
<1> DEFINE r == MkRequest(i, cmd, b, sync)
           B == [no : Nat, of : ReqIds]
<1>1. Blk(b, i) \in B /\ Blk(b, i).of = i
  BY DEF Blk
<1>2. CASE cmd = "flush"
  <2>1. r = [id |-> i, cmd |-> cmd, sync |-> sync, blks |-> << >>]
    BY <1>2 DEF MkRequest
  <2>2. << >> \in Seq(B)
    OBVIOUS
  <2>3. r \in Reqs
    BY <2>1, <2>2 DEF Reqs
  <2>4. DOMAIN r.blks = {} /\ r.id = i
    BY <2>1
  <2>5. Calls(r) = {i}
    BY <2>4 DEF Calls
  <2> QED BY <1>2, <2>1, <2>3, <2>5
<1>3. CASE cmd # "flush"
  <2>1. r = [id |-> i, cmd |-> cmd, sync |-> sync, blks |-> <<Blk(b, i)>>]
    BY <1>3 DEF MkRequest
  <2>2. <<Blk(b, i)>> \in Seq(B) /\ DOMAIN <<Blk(b, i)>> = {1} /\ <<Blk(b, i)>>[1].of = i
    BY <1>1
  <2>3. r \in Reqs
    BY <2>1, <2>2 DEF Reqs
  <2>4. Calls(r) = {i}
    BY <2>1, <2>2 DEF Calls
  <2> QED BY <1>3, <2>1, <2>3, <2>4
<1> QED BY <1>2, <1>3

\* A block is appended to a request.
LEMMA Joined ==
    ASSUME NEW q \in Reqs, NEW i \in ReqIds, NEW b \in Nat
    PROVE  LET n == [q EXCEPT !.blks = q.blks \o <<Blk(b, i)>>]
           IN  n \in Reqs /\ Calls(n) = Calls(q) \cup {i} /\ n.cmd = q.cmd
<1> DEFINE B == [no : Nat, of : ReqIds]
           m == q.blks \o <<Blk(b, i)>>
           n == [q EXCEPT !.blks = m]
           x == Blk(b, i)
<1>1. x \in B /\ x.of = i
  BY DEF Blk
<1>2. q.blks \in Seq(B) /\ Len(q.blks) \in Nat /\ DOMAIN q.blks = 1 .. Len(q.blks)
  BY DEF Reqs
<1> HIDE DEF x
<1>3. /\ m \in Seq(B) /\ Len(m) = Len(q.blks) + 1 /\ DOMAIN m = 1 .. Len(m)
      /\ \A k \in 1 .. Len(q.blks) : m[k] = q.blks[k]
      /\ m[Len(q.blks) + 1] = x
  BY <1>1, <1>2 DEF x
<1> HIDE DEF m
<1>4. n \in Reqs /\ n.cmd = q.cmd /\ n.id = q.id /\ n.blks = m
  BY <1>3 DEF Reqs
<1> HIDE DEF n
<1>5. Calls(n) = Calls(q) \cup {i}
  <2>1. \A k \in DOMAIN m : k \in DOMAIN q.blks \/ k = Len(q.blks) + 1
    BY <1>2, <1>3
  <2>2. Calls(n) \subseteq Calls(q) \cup {i}
    <3>1. \A k \in DOMAIN m : m[k].of \in Calls(q) \cup {i}
      BY <1>1, <1>2, <1>3, <2>1 DEF Calls
    <3>2. n.id \in Calls(q)
      BY <1>4 DEF Calls
    <3> QED BY <1>4, <3>1, <3>2 DEF Calls
  <2>3. Len(q.blks) + 1 \in DOMAIN m /\ DOMAIN q.blks \subseteq DOMAIN m
    BY <1>2, <1>3
  <2>4. Calls(q) \subseteq Calls(n)
    BY <1>2, <1>3, <1>4, <2>3 DEF Calls
  <2>5. i \in Calls(n)
    BY <1>1, <1>3, <1>4, <2>3 DEF Calls
  <2> QED BY <2>2, <2>4, <2>5
<1> QED BY <1>4, <1>5 DEF n, m, x

\* find_slot finds a slot that is free.
LEMMA FindSlot ==
    ASSUME FreeSlots # {}
    PROVE  find_slot \in Slots /\ Free(find_slot)
<1> DEFINE after == {s \in FreeSlots : s >= next_slot}
<1>1. after \in SUBSET Nat /\ FreeSlots \in SUBSET Nat /\ after \subseteq FreeSlots
  BY SlotsFinite DEF FreeSlots
<1>2. find_slot = IF after # {} THEN Min(after) ELSE Min(FreeSlots)
  BY DEF find_slot
<1> HIDE DEF after
<1>3. find_slot \in FreeSlots
  <2>1. CASE after # {}
    BY <1>1, <1>2, <2>1, MinNat
  <2>2. CASE after = {}
    BY <1>1, <1>2, <2>2, MinNat
  <2> QED BY <2>1, <2>2
<1> QED BY <1>3 DEF FreeSlots

\* Types of what the variables have.
LEMMA Types ==
    ASSUME TypeOK
    PROVE  /\ Len(queued) \in Nat /\ DOMAIN queued = 1 .. Len(queued)
           /\ \A k \in DOMAIN queued : queued[k] \in Reqs
           /\ \A s \in Slots : inflight[s] \in Reqs \cup {NoReq}
           /\ Len(reqs) \in Nat /\ DOMAIN reqs = 1 .. Len(reqs) /\ DOMAIN reqs \subseteq ReqIds
           /\ \A i \in DOMAIN reqs : reqs[i] \in History
           /\ \A t \in Threads : thr[t].pc \in {"idle", "ack", "flush", "woken"}
                                 /\ thr[t].id \in 0 .. MaxReqs
           /\ Len(flushers) \in Nat /\ DOMAIN flushers = 1 .. Len(flushers)
           /\ \A k \in DOMAIN flushers : flushers[k] \in Threads
BY AhciAssumption DEF TypeOK, ReqIds

\* The same after a step.
LEMMA TypesNext ==
    ASSUME TypeOK'
    PROVE (/\ Len(queued) \in Nat /\ DOMAIN queued = 1 .. Len(queued)
           /\ \A k \in DOMAIN queued : queued[k] \in Reqs
           /\ \A s \in Slots : inflight[s] \in Reqs \cup {NoReq}
           /\ Len(reqs) \in Nat /\ DOMAIN reqs = 1 .. Len(reqs) /\ DOMAIN reqs \subseteq ReqIds
           /\ \A i \in DOMAIN reqs : reqs[i] \in History
           /\ \A t \in Threads : thr[t].pc \in {"idle", "ack", "flush", "woken"}
                                 /\ thr[t].id \in 0 .. MaxReqs
           /\ Len(flushers) \in Nat /\ DOMAIN flushers = 1 .. Len(flushers)
           /\ \A k \in DOMAIN flushers : flushers[k] \in Threads)'
BY AhciAssumption DEF TypeOK, ReqIds

-------------------------------------------------------------------------------
(***************************************************************************)
(* What the end of start does with the request of a call: it is put in     *)
(* the queue, alone or with another request, or in a slot.                 *)
(***************************************************************************)
QueuedAt(i, cmd, m) ==
    /\ UNCHANGED <<inflight, ci, next_slot>> /\ queued' \in Seq(Reqs)
    /\ DOMAIN queued' = DOMAIN queued \cup {m}
    /\ queued'[m] \in Reqs /\ queued'[m].cmd = cmd
    /\ \A k \in DOMAIN queued \ {m} : queued'[k] = queued[k]
    /\ m \in DOMAIN queued => /\ Calls(queued'[m]) = Calls(queued[m]) \cup {i}
                              /\ queued[m].cmd = cmd /\ cmd # "flush"
    /\ m \notin DOMAIN queued => m = Len(queued) + 1 /\ Calls(queued'[m]) = {i}

SentIn(r, s) ==
    /\ Free(s) /\ s \in Slots
    /\ inflight' = [inflight EXCEPT ![s] = r] /\ ci' = ci \cup {s} /\ next_slot' \in Slots

\* startslot uses a slot that is free.
LEMMA SlotStarts ==
    ASSUME TypeOK, NEW r, FreeSlots # {}, startslot(r, find_slot)
    PROVE  \E s \in Slots : SentIn(r, s)
<1>1. PICK s \in Slots : s = find_slot /\ Free(s)
  BY FindSlot
<1>2. next_slot' \in Slots
  <2>1. next_slot \in Nat /\ nslot \in Nat \ {0} /\ next_slot' = (next_slot + 1) % nslot
    BY SlotsFinite DEF TypeOK, startslot
  <2>2. next_slot' \in 0 .. nslot - 1
    BY <2>1
  <2> QED BY <2>2 DEF Slots
<1> QED BY <1>1, <1>2 DEF SentIn, startslot

\* A call that joins a request in the queue.
LEMMA Joins ==
    ASSUME TypeOK, NEW i \in ReqIds, NEW cmd \in Cmds, NEW b \in Nat, NEW sync \in BOOLEAN,
           Mergeable(MkRequest(i, cmd, b, sync)) # {},
           queued' = queue_coalesce(MkRequest(i, cmd, b, sync)),
           UNCHANGED <<inflight, ci, next_slot>>
    PROVE  \E m \in DOMAIN queued : QueuedAt(i, cmd, m)
<1> DEFINE r == MkRequest(i, cmd, b, sync)
           M == Mergeable(r)
           x == Blk(b, i)
<1>1. /\ Len(queued) \in Nat /\ DOMAIN queued = 1 .. Len(queued)
      /\ \A k \in DOMAIN queued : queued[k] \in Reqs
  BY Types
<1>2. M \in SUBSET Nat /\ M \subseteq DOMAIN queued
  BY <1>1 DEF Mergeable
<1>3. PICK m \in M : m = Min(M)
  BY <1>2, MinNat
<1>4. m \in DOMAIN queued /\ r.cmd # "flush" /\ queued[m].cmd = r.cmd
  BY <1>2, <1>3 DEF Mergeable
<1>5. r.cmd = cmd /\ r.blks = <<x>>
  BY <1>4, Fresh
<1>6. queued' = [queued EXCEPT ![m].blks = @ \o <<x>>]
  <2>1. queued' = [queued EXCEPT ![Min(M)].blks = @ \o r.blks]
    BY DEF queue_coalesce
  <2> QED BY <1>3, <1>5, <2>1
<1> DEFINE n == [queued[m] EXCEPT !.blks = queued[m].blks \o <<x>>]
<1>7. n \in Reqs /\ Calls(n) = Calls(queued[m]) \cup {i} /\ n.cmd = queued[m].cmd
  BY <1>1, <1>4, Joined
<1>8. queued' = [queued EXCEPT ![m] = n]
  BY <1>4, <1>6
<1> HIDE DEF n
<1>9. /\ queued' \in Seq(Reqs) /\ DOMAIN queued' = DOMAIN queued /\ queued'[m] = n
      /\ \A k \in DOMAIN queued \ {m} : queued'[k] = queued[k]
  BY <1>1, <1>4, <1>7, <1>8 DEF TypeOK
<1> QED BY <1>4, <1>5, <1>7, <1>9 DEF QueuedAt

\* A call whose request is put at the end of the queue.
LEMMA Appends ==
    ASSUME TypeOK, NEW i \in ReqIds, NEW cmd \in Cmds, NEW b \in Nat, NEW sync \in BOOLEAN,
           queued' = Append(queued, MkRequest(i, cmd, b, sync)),
           UNCHANGED <<inflight, ci, next_slot>>
    PROVE  QueuedAt(i, cmd, Len(queued) + 1)
<1>1. PICK r \in Reqs : /\ r = MkRequest(i, cmd, b, sync) /\ Calls(r) = {i} /\ r.cmd = cmd
  BY Fresh
<1>2. /\ Len(queued) \in Nat /\ DOMAIN queued = 1 .. Len(queued)
  BY Types
<1>3. PICK m \in Nat : m = Len(queued) + 1
  BY <1>2
<1>4. /\ queued' \in Seq(Reqs) /\ DOMAIN queued' = 1 .. m /\ queued'[m] = r
      /\ \A k \in DOMAIN queued : queued'[k] = queued[k]
  BY <1>1, <1>2, <1>3 DEF TypeOK
<1>5. m \notin DOMAIN queued /\ DOMAIN queued' = DOMAIN queued \cup {m}
  BY <1>2, <1>3, <1>4
<1> QED BY <1>1, <1>3, <1>4, <1>5 DEF QueuedAt

\* The end of start.
LEMMA EnterEffect ==
    ASSUME TypeOK, NEW i \in ReqIds, NEW cmd \in Cmds, NEW b \in Nat, NEW sync \in BOOLEAN,
           Enter(MkRequest(i, cmd, b, sync))
    PROVE  \/ \E m \in Nat : QueuedAt(i, cmd, m)
           \/ /\ queued = << >> /\ queued' = queued
              /\ \E s \in Slots : SentIn(MkRequest(i, cmd, b, sync), s)
<1> DEFINE r == MkRequest(i, cmd, b, sync)
<1>1. Len(queued) + 1 \in Nat /\ DOMAIN queued \subseteq Nat
  BY Types
<1>2. CASE queued # << >> \/ FreeSlots = {}
  <2>1. UNCHANGED <<inflight, ci, next_slot>>
    BY <1>2 DEF Enter
  <2>2. CASE queued # << >> /\ Mergeable(r) # {}
    <3>1. queued' = queue_coalesce(r)
      BY <1>2, <2>2 DEF Enter
    <3> QED BY <1>1, <2>1, <2>2, <3>1, Joins
  <2>3. CASE ~(queued # << >> /\ Mergeable(r) # {})
    <3>1. queued' = Append(queued, r)
      <4>1. CASE queued = << >>
        <5>1. queued' = <<r>>
          BY <1>2, <4>1 DEF Enter
        <5> QED BY <4>1, <5>1
      <4>2. CASE queued # << >>
        BY <1>2, <2>3, <4>2 DEF Enter, queue_coalesce
      <4> QED BY <4>1, <4>2
    <3> QED BY <1>1, <2>1, <3>1, Appends
  <2> QED BY <2>2, <2>3
<1>3. CASE queued = << >> /\ FreeSlots # {}
  <2>1. startslot(r, find_slot) /\ queued' = queued
    BY <1>3 DEF Enter
  <2> QED BY <1>3, <2>1, SlotStarts
<1> QED BY <1>2, <1>3

-------------------------------------------------------------------------------
(***************************************************************************)
(* The places of the calls.                                                *)
(***************************************************************************)
\* The history has the calls of C besides those that it had.
Grown(C) ==
    /\ DOMAIN reqs \subseteq DOMAIN reqs' /\ DOMAIN reqs' \subseteq DOMAIN reqs \cup C
    /\ \A x \in DOMAIN reqs : reqs'[x] = reqs[x]

\* The calls C are new to queue, slots and drive; no other changes its sleep.
Moved(C) ==
    /\ Grown(C) /\ C \subseteq DOMAIN reqs'
    /\ \A x \in C : x \notin got /\ ~InSlot(x) /\ ~Asleep(x)'
    /\ \A x \in DOMAIN reqs' \ C : Asleep(x)' <=> Asleep(x)
    /\ UNCHANGED <<got, done>>

\* A call that is in the drive's hands or later is known.
LEMMA NotNew ==
    ASSUME TypeOK, PlacesInv, NEW x \in ReqIds, x \notin got
    PROVE  done[x] = 0
BY DEF PlacesInv, DoneOK

\* A call is put in the queue.
LEMMA QueuedPlaces ==
    ASSUME TypeOK, TypeOK', PlacesInv, NEW i \in ReqIds, NEW cmd, NEW m \in Nat,
           QueuedAt(i, cmd, m), Moved({i}), reqs'[i].cmd = cmd, ~InQueue(i)
    PROVE  PlacesInv'
<1> USE DEF PlacesInv
<1> DEFINE Q == DOMAIN queued
<1>1. /\ DOMAIN queued' = Q \cup {m} /\ \A k \in Q \ {m} : queued'[k] = queued[k]
      /\ queued'[m].cmd = cmd
      /\ m \in Q => Calls(queued'[m]) = Calls(queued[m]) \cup {i} /\ queued[m].cmd = cmd
      /\ m \notin Q => Calls(queued'[m]) = {i}
      /\ UNCHANGED <<inflight, ci>>
  BY DEF QueuedAt
<1>2. /\ DOMAIN reqs \subseteq DOMAIN reqs' /\ DOMAIN reqs' \subseteq DOMAIN reqs \cup {i}
      /\ i \in DOMAIN reqs' /\ \A x \in DOMAIN reqs : reqs'[x] = reqs[x]
      /\ i \notin got /\ ~InSlot(i) /\ ~Asleep(i)'
      /\ \A x \in DOMAIN reqs' \ {i} : Asleep(x)' <=> Asleep(x)
      /\ UNCHANGED <<got, done>>
  BY DEF Moved, Grown
<1> HIDE DEF Q
<1>3. \A x : /\ InSlot(x)' <=> InSlot(x)
             /\ InQueue(x)' <=> (InQueue(x) \/ x = i)
  <2>1. \A x : InSlot(x)' <=> InSlot(x)
    BY <1>1 DEF InSlot
  <2>2. ASSUME NEW x, InQueue(x)' PROVE InQueue(x) \/ x = i
    BY <1>1, <2>2 DEF InQueue, Q
  <2>3. ASSUME NEW x, InQueue(x) \/ x = i PROVE InQueue(x)'
    BY <1>1, <2>3 DEF InQueue, Q
  <2> QED BY <2>1, <2>2, <2>3
<1>4. QueueOK'
  <2> SUFFICES ASSUME NEW k \in DOMAIN queued' PROVE ReqOK(queued[k])'
    BY DEF QueueOK
  <2>1. CASE k # m
    <3>1. queued'[k] = queued[k] /\ ReqOK(queued[k])
      BY <1>1, <2>1 DEF QueueOK, Q
    <3> QED BY <1>2, <3>1 DEF ReqOK
  <2>2. CASE k = m /\ m \in Q
    <3>1. ReqOK(queued[m])
      BY <2>2 DEF QueueOK, Q
    <3> QED BY <1>1, <1>2, <2>2, <3>1 DEF ReqOK
  <2>3. CASE k = m /\ m \notin Q
    BY <1>1, <1>2, <2>3 DEF ReqOK
  <2> QED BY <2>1, <2>2, <2>3
<1>5. SlotsOK'
  BY <1>1, <1>2 DEF SlotsOK, ReqOK
<1>6. Disjoint'
  <2>1. \A k \in Q : i \notin Calls(queued[k])
    BY DEF InQueue, Q
  <2>2. \A s \in Slots : i \notin Calls(inflight[s])
    BY <1>2 DEF InSlot
  <2>3. \A k \in DOMAIN queued' : \/ k \in Q /\ Calls(queued'[k]) = Calls(queued[k])
                                  \/ /\ k = m /\ k \in Q
                                     /\ Calls(queued'[k]) = Calls(queued[k]) \cup {i}
                                  \/ k = m /\ Calls(queued'[k]) = {i}
    BY <1>1
  <2>4. \A j, k \in DOMAIN queued' : j # k => Calls(queued'[j]) \cap Calls(queued'[k]) = {}
    BY <2>1, <2>3 DEF Disjoint, Q
  <2>5. \A k \in DOMAIN queued', s \in Slots : Calls(queued'[k]) \cap Calls(inflight[s]) = {}
    BY <2>2, <2>3 DEF Disjoint, Q
  <2> QED BY <1>1, <2>4, <2>5 DEF Disjoint
<1>7. AsleepOK'
  BY <1>2, <1>3 DEF AsleepOK
<1>8. WaitsOK'
  BY <1>2, <1>3 DEF WaitsOK
<1>9. SentOK'
  BY <1>1, <1>2 DEF SentOK
<1>10. EndedOK'
  BY <1>2, <1>3 DEF EndedOK
<1>11. DoneOK'
  <2> SUFFICES ASSUME NEW x \in ReqIds
               PROVE  (/\ done[x] \in {0, 1}
                       /\ x \in got => x \in DOMAIN reqs
                       /\ done[x] = 1 => x \in got /\ reqs[x].cmd = "write")'
    BY DEF DoneOK
  <2> QED BY <1>2 DEF DoneOK
<1> QED BY <1>4, <1>5, <1>6, <1>7, <1>8, <1>9, <1>10, <1>11

\* A request gets a slot.
LEMMA SentPlaces ==
    ASSUME TypeOK, TypeOK', PlacesInv, NEW r \in Reqs, NEW s \in Slots, SentIn(r, s),
           Moved(Calls(r)), ReqOK(r)',
           \A x \in Calls(r) : ~InQueue(x)',
           \A x \in DOMAIN reqs' \ Calls(r) : InQueue(x)' <=> InQueue(x),
           QueueOK',
           \A j, k \in DOMAIN queued' : j # k => Calls(queued'[j]) \cap Calls(queued'[k]) = {}
    PROVE  PlacesInv'
<1> USE DEF PlacesInv
<1> DEFINE C == Calls(r)
<1>1. /\ inflight[s] = NoReq /\ s \notin ci /\ ci' = ci \cup {s}
      /\ inflight'[s] = r /\ \A u \in Slots \ {s} : inflight'[u] = inflight[u]
  BY DEF SentIn, Free, TypeOK
<1>2. /\ DOMAIN reqs \subseteq DOMAIN reqs' /\ DOMAIN reqs' \subseteq DOMAIN reqs \cup C
      /\ C \subseteq DOMAIN reqs' /\ \A x \in DOMAIN reqs : reqs'[x] = reqs[x]
      /\ \A x \in C : x \notin got /\ ~InSlot(x) /\ ~Asleep(x)'
      /\ \A x \in DOMAIN reqs' \ C : Asleep(x)' <=> Asleep(x)
      /\ UNCHANGED <<got, done>>
  BY DEF Moved, Grown
<1>3. /\ C \subseteq ReqIds /\ Calls(NoReq) = {0} /\ 0 \notin ReqIds /\ NoReq \notin Reqs
      /\ DOMAIN reqs' \subseteq ReqIds
  BY CallsFacts, TypesNext
<1> HIDE DEF C
<1>4. \A x \in ReqIds : InSlot(x)' <=> (InSlot(x) \/ x \in C)
  <2>1. ASSUME NEW x \in ReqIds, InSlot(x)' PROVE InSlot(x) \/ x \in C
    BY <1>1, <2>1 DEF InSlot, C
  <2>2. ASSUME NEW x \in ReqIds, InSlot(x) \/ x \in C PROVE InSlot(x)'
    <3>1. CASE x \in C
      BY <1>1, <3>1 DEF InSlot, C
    <3>2. CASE InSlot(x)
      <4>1. PICK u \in Slots : x \in Calls(inflight[u])
        BY <3>2 DEF InSlot
      <4>2. u # s
        BY <1>1, <1>3, <4>1
      <4> QED BY <1>1, <4>1, <4>2 DEF InSlot
    <3> QED BY <2>2, <3>1, <3>2
  <2> QED BY <2>1, <2>2
<1>5. SlotsOK'
  <2> SUFFICES ASSUME NEW u \in Slots, inflight'[u] # NoReq PROVE ReqOK(inflight[u])'
    BY DEF SlotsOK
  <2>1. CASE u = s
    BY <1>1, <2>1 DEF ReqOK
  <2>2. CASE u # s
    <3>1. inflight'[u] = inflight[u] /\ ReqOK(inflight[u])
      BY <1>1, <2>2 DEF SlotsOK
    <3> QED BY <1>2, <3>1 DEF ReqOK
  <2> QED BY <2>1, <2>2
<1>6. Disjoint'
  <2>1. \A u \in Slots \ {s} : Calls(inflight[u]) \cap C = {}
    BY <1>2 DEF InSlot
  <2>2. \A u, v \in Slots : u # v /\ inflight'[u] # NoReq =>
                              Calls(inflight'[u]) \cap Calls(inflight'[v]) = {}
    <3> SUFFICES ASSUME NEW u \in Slots, NEW v \in Slots, u # v, inflight'[u] # NoReq
                 PROVE  Calls(inflight'[u]) \cap Calls(inflight'[v]) = {}
      OBVIOUS
    <3>1. CASE u = s
      BY <1>1, <2>1, <3>1 DEF C
    <3>2. CASE v = s
      BY <1>1, <2>1, <3>2 DEF C
    <3>3. CASE u # s /\ v # s
      BY <1>1, <3>3 DEF Disjoint
    <3> QED BY <3>1, <3>2, <3>3
  <2>3. ASSUME NEW k \in DOMAIN queued', NEW u \in Slots, NEW x,
               x \in Calls(queued'[k]), x \in Calls(inflight'[u])
        PROVE  FALSE
    <3>1. InQueue(x)' /\ x \notin C
      BY <2>3 DEF InQueue, C
    <3>2. x \in DOMAIN reqs'
      BY <2>3 DEF QueueOK, ReqOK
    <3>3. InQueue(x) /\ u # s
      BY <1>1, <2>3, <3>1, <3>2 DEF C
    <3>4. inflight'[u] = inflight[u]
      BY <1>1, <3>3
    <3> QED BY <2>3, <3>3, <3>4 DEF InQueue, Disjoint
  <2> QED BY <2>2, <2>3 DEF Disjoint
<1>7. \A x \in DOMAIN reqs' : /\ x \in C => ~InQueue(x)'
                              /\ x \notin C => (InQueue(x)' <=> InQueue(x)) /\ x \in DOMAIN reqs
  BY <1>2 DEF C
<1>8. AsleepOK'
  BY <1>2, <1>3, <1>4, <1>7 DEF AsleepOK
<1>9. WaitsOK'
  BY <1>2, <1>7 DEF WaitsOK
<1>10. SentOK'
  <2> SUFFICES ASSUME NEW u \in Slots, inflight'[u] # NoReq, NEW x \in Calls(inflight'[u])
               PROVE  (x \in got <=> u \notin ci') /\ done[x] = 0
    BY <1>2 DEF SentOK
  <2>1. CASE u = s
    BY <1>1, <1>2, <1>3, <2>1, NotNew DEF C
  <2>2. CASE u # s
    BY <1>1, <2>2 DEF SentOK
  <2> QED BY <2>1, <2>2
<1>11. EndedOK'
  BY <1>2, <1>3, <1>4, <1>7 DEF EndedOK
<1>12. DoneOK'
  <2> SUFFICES ASSUME NEW x \in ReqIds
               PROVE  (/\ done[x] \in {0, 1}
                       /\ x \in got => x \in DOMAIN reqs
                       /\ done[x] = 1 => x \in got /\ reqs[x].cmd = "write")'
    BY DEF DoneOK
  <2> QED BY <1>2 DEF DoneOK
<1> QED BY <1>5, <1>6, <1>8, <1>9, <1>10, <1>11, <1>12

-------------------------------------------------------------------------------
(***************************************************************************)
(* start.                                                                  *)
(***************************************************************************)
\* The next call has a number that nothing has yet.
LEMMA NewCall ==
    ASSUME IInv, NEW i, i = Len(reqs) + 1, Len(reqs) < MaxReqs
    PROVE  /\ i \in ReqIds /\ i \notin DOMAIN reqs /\ i \notin got
           /\ ~InQueue(i) /\ ~InSlot(i)
           /\ \A t \in Threads : thr[t].id # i
           /\ \A x \in DOMAIN reqs : x < i
<1>1. /\ Len(reqs) \in Nat /\ DOMAIN reqs = 1 .. Len(reqs)
      /\ \A k \in DOMAIN queued : queued[k] \in Reqs
      /\ \A s \in Slots : inflight[s] \in Reqs \cup {NoReq}
  BY Types DEF IInv
<1>2. /\ i \in ReqIds /\ i \notin DOMAIN reqs /\ i # 0 /\ \A x \in DOMAIN reqs : x < i
  BY <1>1, AhciAssumption DEF ReqIds
<1>3. i \notin got
  BY <1>2 DEF IInv, PlacesInv, DoneOK
<1>4. ~InQueue(i)
  BY <1>2 DEF IInv, PlacesInv, QueueOK, ReqOK, InQueue
<1>5. ~InSlot(i)
  BY <1>2, CallsFacts DEF IInv, PlacesInv, SlotsOK, ReqOK, InSlot
<1>6. \A t \in Threads : thr[t].id # i
  BY <1>2 DEF IInv, ThreadsOK
<1> QED BY <1>2, <1>3, <1>4, <1>5, <1>6

\* A call that is queued is behind the flushes that were started before it.
LEMMA QueuedOrder ==
    ASSUME IInv, TypeOK', NEW i \in ReqIds, NEW cmd, NEW m \in Nat,
           QueuedAt(i, cmd, m), Moved({i}), reqs'[i].cmd = cmd,
           cmd # "flush" => \A x \in DOMAIN reqs : x < i
    PROVE  OrderOK'
<1> DEFINE Q == DOMAIN queued
<1>1. /\ DOMAIN queued' = Q \cup {m} /\ \A k \in Q \ {m} : queued'[k] = queued[k]
      /\ queued'[m].cmd = cmd
      /\ m \in Q => /\ Calls(queued'[m]) = Calls(queued[m]) \cup {i} /\ queued[m].cmd = cmd
                    /\ cmd # "flush"
      /\ m \notin Q => m = Len(queued) + 1 /\ Calls(queued'[m]) = {i}
      /\ UNCHANGED inflight
  BY DEF QueuedAt
<1>2. /\ DOMAIN reqs' \subseteq DOMAIN reqs \cup {i} /\ \A x \in DOMAIN reqs : reqs'[x] = reqs[x]
      /\ i \notin got /\ ~InSlot(i) /\ UNCHANGED got
  BY DEF Moved, Grown
<1>3. /\ Len(queued) \in Nat /\ Q = 1 .. Len(queued) /\ DOMAIN reqs \subseteq ReqIds
      /\ ReqIds \subseteq Nat /\ DOMAIN reqs' \subseteq ReqIds
  BY Types, TypesNext, CallsFacts DEF IInv
<1>4. ASSUME NEW j \in DOMAIN queued', NEW k \in DOMAIN queued', NEW f \in Calls(queued'[j]),
             NEW w \in Calls(queued'[k]), j < k,
             queued'[j].cmd = "flush", queued'[k].cmd = "write"
      PROVE  f < w
  <2>1. j # m
    <3> SUFFICES ASSUME j = m PROVE FALSE
      OBVIOUS
    <3>1. m = Len(queued) + 1
      BY <1>1, <1>4
    <3> QED BY <1>1, <1>3, <1>4, <3>1
  <2>2. j \in Q /\ queued'[j] = queued[j] /\ f \in DOMAIN reqs
    BY <1>1, <2>1 DEF IInv, PlacesInv, QueueOK, ReqOK
  <2>3. CASE w = i
    <3>1. cmd # "flush"
      <4>1. k = m \/ i \in Calls(queued[k])
        BY <1>1, <1>4, <2>3
      <4>2. CASE k = m
        BY <1>1, <1>4, <4>2
      <4>3. CASE k # m
        <5>1. k \in Q /\ queued'[k] = queued[k]
          BY <1>1, <4>3
        <5>2. i \in DOMAIN reqs /\ reqs[i].cmd = "write"
          BY <1>4, <2>3, <5>1 DEF IInv, PlacesInv, QueueOK, ReqOK
        <5> QED BY <1>2, <5>2
      <4> QED BY <4>2, <4>3
    <3> QED BY <2>2, <2>3, <3>1
  <2>4. CASE w # i
    <3>1. k \in Q /\ w \in Calls(queued[k]) /\ queued[k].cmd = "write"
      BY <1>1, <1>4, <2>4
    <3> QED BY <1>4, <2>2, <3>1 DEF IInv, OrderOK
  <2> QED BY <2>3, <2>4
<1>5. ASSUME NEW f \in DOMAIN reqs', NEW w \in DOMAIN reqs', w < f, reqs'[f].cmd = "flush",
             reqs'[w].cmd = "write", InSlot(f)' \/ f \in got', InQueue(w)'
      PROVE  FALSE
  <2>1. InSlot(f) \/ f \in got
    BY <1>1, <1>2, <1>5 DEF InSlot
  <2>2. f \in DOMAIN reqs /\ f # i
    BY <1>2, <2>1
  <2>3. w # i
    BY <1>3, <1>5, <2>2
  <2>4. w \in DOMAIN reqs /\ InQueue(w)
    BY <1>1, <1>2, <1>5, <2>3 DEF InQueue
  <2> QED BY <1>2, <1>5, <2>1, <2>2, <2>4 DEF IInv, OrderOK, FlushNotOvertaking
<1>6. FlushNotOvertaking'
  BY <1>5 DEF FlushNotOvertaking
<1> QED BY <1>4, <1>6 DEF OrderOK

\* What start does to the history and to the thread.
LEMMA StartHistory ==
    ASSUME IInv, NEW t \in Threads, NEW cmd \in Cmds, NEW b \in Nat, NEW sync \in BOOLEAN,
           Start(t, cmd, b, sync), NEW i, i = Len(reqs) + 1
    PROVE  /\ thr[t].pc = "idle" /\ Len(reqs) < MaxReqs
           /\ reqs' \in Seq(History) /\ Len(reqs') = i /\ Len(reqs') <= MaxReqs
           /\ reqs'[i].cmd = cmd /\ reqs'[i].sync = sync
           /\ Grown({i}) /\ i \in DOMAIN reqs'
           /\ UNCHANGED <<pis, his, handler, mgr, got, durable, done, panic>>
<1>1. /\ thr[t].pc = "idle" /\ Len(reqs) < MaxReqs
      /\ reqs' = Append(reqs, [cmd |-> cmd, no |-> b, sync |-> sync])
      /\ UNCHANGED <<pis, his, handler, mgr, got, durable, done, panic>>
  BY DEF Start, Running, hist
<1>2. PICK e \in History : e = [cmd |-> cmd, no |-> b, sync |-> sync]
  BY DEF History
<1>3. e.cmd = cmd /\ e.sync = sync
  BY <1>2
<1>4. reqs \in Seq(History) /\ Len(reqs) \in Nat /\ MaxReqs \in Nat
  BY AhciAssumption DEF IInv, TypeOK
<1>5. /\ reqs' \in Seq(History) /\ Len(reqs') = i /\ DOMAIN reqs' = 1 .. i /\ DOMAIN reqs = 1 .. Len(reqs)
      /\ reqs'[i] = e /\ \A x \in DOMAIN reqs : reqs'[x] = reqs[x]
  BY <1>1, <1>2, <1>4
<1>6. Grown({i}) /\ i \in DOMAIN reqs'
  BY <1>4, <1>5 DEF Grown
<1>7. Len(reqs') <= MaxReqs
  BY <1>1, <1>4, <1>5
<1> QED BY <1>1, <1>3, <1>5, <1>6, <1>7

\* The threads after a step that changes one of them.
LEMMA OneThread ==
    ASSUME IInv, TypeOK', NEW t \in Threads, NEW i \in DOMAIN reqs', Grown({i}),
           i \in DOMAIN reqs => thr[t].id = i /\ thr'[t].id = i,
           i \notin DOMAIN reqs => thr[t].id = 0,
           \A u \in Threads \ {t} : thr'[u] = thr[u],
           thr'[t].id \in {0, i}, thr'[t].pc = "idle" <=> thr'[t].id = 0,
           thr[t].pc # "flush",
           reqs'[i].sync => thr'[t].id = i,
           \/ flushers' = flushers
           \/ thr'[t].pc = "flush" /\ flushers' = Append(flushers, t),
           UNCHANGED got
    PROVE  ThreadsOK'
<1>1. /\ DOMAIN reqs \subseteq DOMAIN reqs' /\ DOMAIN reqs' \subseteq DOMAIN reqs \cup {i}
      /\ \A x \in DOMAIN reqs : reqs'[x] = reqs[x]
  BY DEF Grown
<1>2. /\ Len(flushers) \in Nat /\ DOMAIN flushers = 1 .. Len(flushers)
      /\ \A k \in DOMAIN flushers : flushers[k] \in Threads /\ flushers[k] # t
                                    /\ thr[flushers[k]].pc = "flush"
  BY Types DEF IInv, ThreadsOK
<1>0. 0 \notin DOMAIN reqs' /\ 0 \notin DOMAIN reqs
  BY Types, TypesNext, CallsFacts DEF IInv
<1>3. \A u \in Threads : /\ thr'[u].pc = "idle" <=> thr'[u].id = 0
                         /\ thr'[u].id # 0 => thr'[u].id \in DOMAIN reqs'
  BY <1>1 DEF IInv, ThreadsOK
<1>4. ASSUME NEW u \in Threads, NEW v \in Threads, thr'[u].id = thr'[v].id, u # v
      PROVE  thr'[u].id = 0
  <2>1. \A x \in Threads \ {t} : thr[x].id = i => i = 0
    BY <1>0, <1>1 DEF IInv, ThreadsOK
  <2> QED BY <1>4, <2>1 DEF IInv, ThreadsOK
<1>5. /\ \A k \in DOMAIN flushers' : thr'[flushers'[k]].pc = "flush"
      /\ \A j, k \in DOMAIN flushers' : j # k => flushers'[j] # flushers'[k]
  <2>1. CASE flushers' = flushers
    BY <1>2, <2>1 DEF IInv, ThreadsOK
  <2>2. CASE thr'[t].pc = "flush" /\ flushers' = Append(flushers, t)
    <3>1. flushers \in Seq(Threads)
      BY DEF IInv, TypeOK
    <3>2. PICK n \in Nat : n = Len(flushers) + 1
      BY <1>2
    <3>3. /\ DOMAIN flushers' = 1 .. n /\ flushers'[n] = t
          /\ \A k \in DOMAIN flushers : flushers'[k] = flushers[k]
      BY <1>2, <2>2, <3>1, <3>2
    <3>4. \A k \in DOMAIN flushers' : k \in DOMAIN flushers \/ k = n
      BY <1>2, <3>2, <3>3
    <3> QED BY <1>2, <2>2, <3>3, <3>4 DEF IInv, ThreadsOK
  <2> QED BY <2>1, <2>2
<1>6. ASSUME NEW x \in DOMAIN reqs', reqs'[x].sync
      PROVE  x \in got' \/ \E u \in Threads : thr'[u].id = x
  <2>1. CASE x = i
    BY <1>6, <2>1
  <2>2. CASE x # i
    <3>1. x \in DOMAIN reqs /\ reqs[x].sync
      BY <1>1, <1>6, <2>2
    <3>2. x \in got \/ \E u \in Threads : thr[u].id = x
      BY <3>1 DEF IInv, ThreadsOK
    <3>3. thr[t].id # x
      BY <1>0, <2>2, <3>1
    <3> QED BY <3>2, <3>3
  <2> QED BY <2>1, <2>2
<1> QED BY <1>3, <1>4, <1>5, <1>6 DEF ThreadsOK

\* A flush falls asleep, for the first time or again.
LEMMA AsleepPlaces ==
    ASSUME IInv, TypeOK', NEW i \in DOMAIN reqs', Grown({i}), reqs'[i].cmd = "flush",
           i \notin got, ~InQueue(i), ~InSlot(i), Asleep(i)',
           \A x \in DOMAIN reqs' \ {i} : Asleep(x)' <=> Asleep(x),
           UNCHANGED <<queued, inflight, ci, got, done>>
    PROVE  PlacesInv' /\ OrderOK'
<1> USE DEF PlacesInv, IInv
<1>1. /\ DOMAIN reqs \subseteq DOMAIN reqs' /\ DOMAIN reqs' \subseteq DOMAIN reqs \cup {i}
      /\ \A x \in DOMAIN reqs : reqs'[x] = reqs[x]
  BY DEF Grown
<1>2. \A x : (InSlot(x)' <=> InSlot(x)) /\ (InQueue(x)' <=> InQueue(x))
  BY DEF InSlot, InQueue
<1>3. QueueOK' /\ SlotsOK'
  BY <1>1 DEF QueueOK, SlotsOK, ReqOK
<1>4. Disjoint'
  BY DEF Disjoint
<1>5. AsleepOK'
  BY <1>1, <1>2 DEF AsleepOK
<1>6. WaitsOK' /\ SentOK'
  BY <1>1, <1>2 DEF WaitsOK, SentOK
<1>7. EndedOK'
  BY <1>1, <1>2 DEF EndedOK
<1>8. DoneOK'
  BY <1>1 DEF DoneOK
<1>9. FlushNotOvertaking'
  <2> SUFFICES ASSUME NEW f \in DOMAIN reqs', NEW w \in DOMAIN reqs', w < f,
                      reqs'[f].cmd = "flush", reqs'[w].cmd = "write",
                      InSlot(f) \/ f \in got, InQueue(w)
               PROVE  FALSE
    BY <1>2 DEF FlushNotOvertaking
  <2>1. f \in DOMAIN reqs /\ w \in DOMAIN reqs
    BY <1>1
  <2> QED BY <1>1, <2>1 DEF OrderOK, FlushNotOvertaking
<1>10. OrderOK'
  BY <1>9 DEF OrderOK
<1> QED BY <1>3, <1>4, <1>5, <1>6, <1>7, <1>8, <1>10

\* A request gets a slot at once when there is no queue.
LEMMA SentOrder ==
    ASSUME IInv, TypeOK', queued' = << >>
    PROVE  OrderOK'
<1>1. DOMAIN queued' = {}
  OBVIOUS
<1> QED BY <1>1 DEF OrderOK, FlushNotOvertaking, InQueue

\* The end of start: the request is queued or sent.
LEMMA EnterPlaces ==
    ASSUME IInv, TypeOK', NEW i \in ReqIds, NEW cmd \in Cmds, NEW b \in Nat,
           NEW sync \in BOOLEAN, Enter(MkRequest(i, cmd, b, sync)),
           Moved({i}), reqs'[i].cmd = cmd, ~InQueue(i),
           cmd # "flush" => \A x \in DOMAIN reqs : x < i
    PROVE  PlacesInv' /\ OrderOK'
<1> DEFINE R == MkRequest(i, cmd, b, sync)
<1>1. CASE \E m \in Nat : QueuedAt(i, cmd, m)
  <2>1. PICK m \in Nat : QueuedAt(i, cmd, m)
    BY <1>1
  <2>2. PlacesInv'
    BY <2>1, QueuedPlaces DEF IInv
  <2>3. OrderOK'
    BY <2>1, QueuedOrder
  <2> QED BY <2>2, <2>3
<1>2. ASSUME queued = << >>, queued' = queued, \E s \in Slots : SentIn(R, s)
      PROVE  PlacesInv' /\ OrderOK'
  <2>1. PICK r \in Reqs : r = R /\ Calls(r) = {i} /\ r.cmd = cmd
    BY Fresh
  <2>2. PICK s \in Slots : SentIn(r, s)
    BY <1>2, <2>1
  <2>3. DOMAIN queued' = {} /\ \A x : ~InQueue(x) /\ ~InQueue(x)'
    BY <1>2 DEF InQueue
  <2>4. ReqOK(r)' /\ Moved(Calls(r)) /\ QueueOK'
    BY <2>1, <2>3 DEF ReqOK, QueueOK, Moved
  <2>5. PlacesInv'
    BY <2>2, <2>3, <2>4, SentPlaces DEF IInv
  <2> QED BY <1>2, <2>5, SentOrder
<1>3. \/ \E m \in Nat : QueuedAt(i, cmd, m)
      \/ queued = << >> /\ queued' = queued /\ \E s \in Slots : SentIn(R, s)
  BY EnterEffect DEF IInv
<1> HIDE DEF R
<1> QED BY <1>1, <1>2, <1>3

\* The end of start keeps the types.
LEMMA EnterTypes ==
    ASSUME TypeOK, NEW i \in ReqIds, NEW cmd \in Cmds, NEW b \in Nat, NEW sync \in BOOLEAN,
           Enter(MkRequest(i, cmd, b, sync))
    PROVE  /\ queued' \in Seq(Reqs) /\ inflight' \in [Slots -> Reqs \cup {NoReq}]
           /\ next_slot' \in Slots /\ ci' \subseteq {s \in Slots : inflight'[s] # NoReq}
<1> DEFINE R == MkRequest(i, cmd, b, sync)
<1>1. CASE \E m \in Nat : QueuedAt(i, cmd, m)
  BY <1>1 DEF QueuedAt, TypeOK
<1>2. ASSUME queued' = queued, NEW s \in Slots, SentIn(R, s)
      PROVE  /\ queued' \in Seq(Reqs) /\ inflight' \in [Slots -> Reqs \cup {NoReq}]
             /\ next_slot' \in Slots /\ ci' \subseteq {u \in Slots : inflight'[u] # NoReq}
  <2>1. PICK r \in Reqs : r = R
    BY Fresh
  <2>2. NoReq \notin Reqs
    BY CallsFacts
  <2>3. /\ inflight' = [inflight EXCEPT ![s] = r] /\ ci' = ci \cup {s} /\ next_slot' \in Slots
    BY <1>2, <2>1 DEF SentIn
  <2> QED BY <1>2, <2>2, <2>3 DEF TypeOK
<1>3. \/ \E m \in Nat : QueuedAt(i, cmd, m)
      \/ queued = << >> /\ queued' = queued /\ \E s \in Slots : SentIn(R, s)
  BY EnterEffect
<1> HIDE DEF R
<1> QED BY <1>1, <1>2, <1>3

\* A call starts.
LEMMA StartInv ==
    ASSUME IInv, NEW t \in Threads, NEW cmd \in Cmds, NEW b \in Nat, NEW sync \in BOOLEAN,
           Start(t, cmd, b, sync), cmd = "flush" => sync
    PROVE  IInv'
<1>1. PICK i : i = Len(reqs) + 1
  OBVIOUS
<1>2. /\ thr[t].pc = "idle" /\ Len(reqs) < MaxReqs
      /\ reqs' \in Seq(History) /\ Len(reqs') = i /\ Len(reqs') <= MaxReqs
      /\ reqs'[i].cmd = cmd /\ reqs'[i].sync = sync
      /\ Grown({i}) /\ i \in DOMAIN reqs'
      /\ UNCHANGED <<pis, his, handler, mgr, got, durable, done, panic>>
  BY <1>1, StartHistory, SMTT(60)
<1>3. /\ i \in ReqIds /\ i \notin DOMAIN reqs /\ i \notin got
      /\ ~InQueue(i) /\ ~InSlot(i)
      /\ \A u \in Threads : thr[u].id # i
      /\ \A x \in DOMAIN reqs : x < i
  BY <1>1, <1>2, NewCall
<1>4. thr[t].id = 0 /\ i # 0 /\ i \in 0 .. MaxReqs
  BY <1>2, <1>3, AhciAssumption DEF IInv, ThreadsOK, ReqIds
<1>5. CASE cmd = "flush" /\ ci # {}
  <2>1. /\ thr' = [thr EXCEPT ![t] = [pc |-> "flush", id |-> i]]
        /\ flushers' = Append(flushers, t)
        /\ UNCHANGED <<queued, inflight, ci, next_slot>>
    BY <1>1, <1>5 DEF Start
  <2>2. /\ thr'[t].pc = "flush" /\ thr'[t].id = i /\ \A u \in Threads \ {t} : thr'[u] = thr[u]
    BY <2>1 DEF IInv, TypeOK
  <2>3. TypeOK'
    BY <1>2, <1>4, <2>1 DEF IInv, TypeOK
  <2>4. Asleep(i)' /\ \A x \in DOMAIN reqs' \ {i} : Asleep(x)' <=> Asleep(x)
    <3>1. Asleep(i)'
      BY <2>2 DEF Asleep
    <3>2. \A x : x # i => (Asleep(x)' <=> Asleep(x))
      BY <1>2, <2>2 DEF Asleep
    <3> QED BY <3>1, <3>2
  <2>5. PlacesInv' /\ OrderOK'
    BY <1>2, <1>3, <1>5, <2>1, <2>3, <2>4, AsleepPlaces
  <2>6. ThreadsOK'
    BY <1>2, <1>3, <1>4, <2>1, <2>2, <2>3, OneThread
  <2> QED BY <2>3, <2>5, <2>6 DEF IInv
<1>6. CASE ~(cmd = "flush" /\ ci # {})
  <2>1. /\ thr' = IF sync THEN [thr EXCEPT ![t] = [pc |-> "ack", id |-> i]] ELSE thr
        /\ Enter(MkRequest(i, cmd, b, sync))
        /\ UNCHANGED flushers
    BY <1>1, <1>6 DEF Start
  <2>2. /\ \A u \in Threads \ {t} : thr'[u] = thr[u]
        /\ sync => thr'[t].pc = "ack" /\ thr'[t].id = i
        /\ ~sync => thr'[t] = thr[t]
        /\ thr' \in [Threads -> [pc : {"idle", "ack", "flush", "woken"}, id : 0 .. MaxReqs]]
    BY <1>4, <2>1 DEF IInv, TypeOK
  <2>3. TypeOK'
    <3>1. /\ queued' \in Seq(Reqs) /\ inflight' \in [Slots -> Reqs \cup {NoReq}]
          /\ next_slot' \in Slots /\ ci' \subseteq {s \in Slots : inflight'[s] # NoReq}
      BY <1>3, <2>1, EnterTypes DEF IInv
    <3> QED BY <1>2, <2>1, <2>2, <3>1 DEF IInv, TypeOK
  <2>4. ~Asleep(i)' /\ \A x : x # i => (Asleep(x)' <=> Asleep(x))
    BY <1>2, <1>3, <2>2 DEF Asleep
  <2>5. Moved({i})
    BY <1>2, <1>3, <2>4 DEF Moved
  <2>6. PlacesInv' /\ OrderOK'
    BY <1>2, <1>3, <2>1, <2>3, <2>5, EnterPlaces
  <2>7. ThreadsOK'
    <3>1. thr'[t].id \in {0, i} /\ (thr'[t].pc = "idle" <=> thr'[t].id = 0) /\ thr[t].pc # "flush"
      BY <1>2, <1>4, <2>2
    <3>2. reqs'[i].sync => thr'[t].id = i
      BY <1>2, <2>2
    <3> QED BY <1>2, <1>3, <1>4, <2>1, <2>2, <2>3, <3>1, <3>2, OneThread
  <2> QED BY <2>3, <2>6, <2>7 DEF IInv
<1> QED BY <1>5, <1>6

\* A flush that was woken looks again.
LEMMA FlushAgainInv ==
    ASSUME IInv, NEW t \in Threads, FlushAgain(t)
    PROVE  IInv'
<1>1. PICK i : i = thr[t].id
  OBVIOUS
<1>2. /\ thr[t].pc = "woken"
      /\ UNCHANGED <<reqs, pis, his, handler, mgr, got, durable, done, panic>>
  BY DEF FlushAgain, Running, hist
<1>3. i # 0 /\ i \in DOMAIN reqs /\ i \in DOMAIN reqs' /\ Asleep(i)
  BY <1>1, <1>2 DEF IInv, ThreadsOK, Asleep
<1>4. i \notin got /\ ~InQueue(i) /\ ~InSlot(i) /\ reqs'[i].cmd = "flush" /\ reqs[i].cmd = "flush"
  BY <1>2, <1>3 DEF IInv, PlacesInv, AsleepOK
<1>5. i \in ReqIds /\ i \in 0 .. MaxReqs /\ Grown({i})
  BY <1>1, <1>2, <1>3, Types DEF IInv, Grown
<1>6. \A u \in Threads \ {t} : thr[u].id # i
  BY <1>1, <1>3 DEF IInv, ThreadsOK
<1>7. CASE ci # {}
  <2>1. /\ thr' = [thr EXCEPT ![t].pc = "flush"]
        /\ flushers' = Append(flushers, t)
        /\ UNCHANGED <<queued, inflight, ci, next_slot>>
    BY <1>7 DEF FlushAgain
  <2>2. /\ thr'[t].pc = "flush" /\ thr'[t].id = i /\ \A u \in Threads \ {t} : thr'[u] = thr[u]
        /\ thr' \in [Threads -> [pc : {"idle", "ack", "flush", "woken"}, id : 0 .. MaxReqs]]
    BY <1>1, <2>1 DEF IInv, TypeOK
  <2>3. TypeOK'
    BY <1>2, <2>1, <2>2 DEF IInv, TypeOK
  <2>4. Asleep(i)' /\ \A x \in DOMAIN reqs' \ {i} : Asleep(x)' <=> Asleep(x)
    BY <1>1, <2>2 DEF Asleep
  <2>5. PlacesInv' /\ OrderOK'
    BY <1>2, <1>3, <1>4, <1>5, <2>1, <2>3, <2>4, AsleepPlaces
  <2>6. ThreadsOK'
    BY <1>1, <1>2, <1>3, <1>5, <2>1, <2>2, <2>3, OneThread
  <2> QED BY <2>3, <2>5, <2>6 DEF IInv
<1>8. CASE ci = {}
  <2>1. /\ thr' = [thr EXCEPT ![t].pc = "ack"]
        /\ Enter(MkRequest(i, "flush", 0, TRUE))
        /\ UNCHANGED flushers
    BY <1>1, <1>8 DEF FlushAgain
  <2>2. /\ thr'[t].pc = "ack" /\ thr'[t].id = i /\ \A u \in Threads \ {t} : thr'[u] = thr[u]
        /\ thr' \in [Threads -> [pc : {"idle", "ack", "flush", "woken"}, id : 0 .. MaxReqs]]
    BY <1>1, <2>1 DEF IInv, TypeOK
  <2>3. TypeOK'
    <3>1. /\ queued' \in Seq(Reqs) /\ inflight' \in [Slots -> Reqs \cup {NoReq}]
          /\ next_slot' \in Slots /\ ci' \subseteq {s \in Slots : inflight'[s] # NoReq}
      BY <1>5, <2>1, EnterTypes DEF IInv, Cmds
    <3> QED BY <1>2, <2>1, <2>2, <3>1 DEF IInv, TypeOK
  <2>4. ~Asleep(i)' /\ \A x : x # i => (Asleep(x)' <=> Asleep(x))
    BY <1>1, <1>2, <1>6, <2>2 DEF Asleep
  <2>5. Moved({i})
    BY <1>2, <1>3, <1>4, <1>5, <2>4 DEF Moved
  <2>6. PlacesInv' /\ OrderOK'
    BY <1>4, <1>5, <2>1, <2>3, <2>5, EnterPlaces DEF Cmds
  <2>7. ThreadsOK'
    BY <1>1, <1>2, <1>3, <1>5, <2>1, <2>2, <2>3, OneThread
  <2> QED BY <2>3, <2>6, <2>7 DEF IInv
<1> QED BY <1>7, <1>8

-------------------------------------------------------------------------------
(***************************************************************************)
(* queuemgr, the drive and the interrupt handler.                          *)
(***************************************************************************)
\* Steps that leave the requests and the threads alone.
LEMMA SameInv ==
    ASSUME IInv, TypeOK', UNCHANGED <<reqs, queued, inflight, ci, thr, flushers, got, done>>
    PROVE  IInv'
<1> USE DEF IInv, PlacesInv
<1>1. \A x : (InSlot(x)' <=> InSlot(x)) /\ (InQueue(x)' <=> InQueue(x)) /\ (Asleep(x)' <=> Asleep(x))
  BY DEF InSlot, InQueue, Asleep
<1>2. QueueOK' /\ SlotsOK' /\ Disjoint'
  BY DEF QueueOK, SlotsOK, ReqOK, Disjoint
<1>3. AsleepOK' /\ WaitsOK' /\ EndedOK'
  BY <1>1 DEF AsleepOK, WaitsOK, EndedOK
<1>4. SentOK' /\ DoneOK'
  BY DEF SentOK, DoneOK
<1>5. ThreadsOK'
  BY DEF ThreadsOK
<1>6. OrderOK'
  BY <1>1 DEF OrderOK, FlushNotOvertaking
<1> QED BY <1>2, <1>3, <1>4, <1>5, <1>6

\* The head of the queue gets a slot.
LEMMA QueueMgrInv ==
    ASSUME IInv, QueueMgr
    PROVE  IInv'
<1>1. /\ mgr' = "wait"
      /\ UNCHANGED <<reqs, pis, his, handler, flushers, thr, got, durable, done, panic>>
  BY DEF QueueMgr, hist
<1>2. CASE ~(queued # << >> /\ FreeSlots # {})
  <2>1. UNCHANGED <<queued, inflight, ci, next_slot>>
    BY <1>2 DEF QueueMgr
  <2>2. TypeOK'
    BY <1>1, <2>1 DEF IInv, TypeOK
  <2> QED BY <1>1, <2>1, <2>2, SameInv
<1>3. CASE queued # << >> /\ FreeSlots # {}
  <2>1. startslot(Head(queued), find_slot) /\ queued' = Tail(queued)
    BY <1>3 DEF QueueMgr
  <2>2. /\ queued \in Seq(Reqs) /\ Len(queued) \in Nat /\ DOMAIN queued = 1 .. Len(queued)
        /\ \A k \in DOMAIN queued : queued[k] \in Reqs
    BY Types DEF IInv, TypeOK
  <2>3. 1 \in DOMAIN queued /\ Head(queued) = queued[1]
    BY <1>3, <2>2
  <2>4. PICK r \in Reqs : r = queued[1]
    BY <2>2, <2>3
  <2>5. /\ queued' \in Seq(Reqs) /\ DOMAIN queued' = 1 .. Len(queued) - 1
        /\ \A k \in DOMAIN queued' : k + 1 \in DOMAIN queued \ {1} /\ queued'[k] = queued[k + 1]
    BY <1>3, <2>1, <2>2
  <2>6. PICK s \in Slots : SentIn(r, s)
    BY <1>3, <2>1, <2>3, <2>4, SlotStarts DEF IInv
  <2>7. TypeOK'
    <3>1. NoReq \notin Reqs
      BY CallsFacts
    <3>2. /\ inflight' = [inflight EXCEPT ![s] = r] /\ ci' = ci \cup {s} /\ next_slot' \in Slots
      BY <2>6 DEF SentIn
    <3> QED BY <1>1, <2>5, <3>1, <3>2 DEF IInv, TypeOK
  <2>8. \A x : InQueue(x)' <=> InQueue(x) /\ x \notin Calls(r)
    <3>1. ASSUME NEW x, InQueue(x)' PROVE InQueue(x) /\ x \notin Calls(r)
      <4>1. PICK k \in DOMAIN queued' : x \in Calls(queued'[k])
        BY <3>1 DEF InQueue
      <4>2. PICK j \in DOMAIN queued \ {1} : x \in Calls(queued[j])
        BY <2>5, <4>1
      <4> QED BY <2>3, <2>4, <4>2 DEF InQueue, IInv, PlacesInv, Disjoint
    <3>2. ASSUME NEW x, InQueue(x), x \notin Calls(r) PROVE InQueue(x)'
      <4>1. PICK j \in DOMAIN queued : x \in Calls(queued[j]) /\ j # 1
        BY <2>4, <3>2 DEF InQueue
      <4>2. j - 1 \in DOMAIN queued' /\ queued'[j - 1] = queued[j]
        BY <2>2, <2>5, <4>1
      <4> QED BY <4>1, <4>2 DEF InQueue
    <3> QED BY <3>1, <3>2
  <2>9. \A x \in Calls(r) : /\ InQueue(x) /\ x \in DOMAIN reqs /\ reqs[x].cmd = r.cmd
                            /\ x \notin got /\ ~InSlot(x) /\ ~Asleep(x)
    <3> SUFFICES ASSUME NEW x \in Calls(r)
                 PROVE  /\ InQueue(x) /\ x \in DOMAIN reqs /\ reqs[x].cmd = r.cmd
                        /\ x \notin got /\ ~InSlot(x) /\ ~Asleep(x)
      OBVIOUS
    <3>1. InQueue(x) /\ x \in DOMAIN reqs /\ reqs[x].cmd = r.cmd
      BY <2>3, <2>4 DEF InQueue, IInv, PlacesInv, QueueOK, ReqOK
    <3>2. x \notin got /\ ~Asleep(x)
      BY <3>1 DEF IInv, PlacesInv, WaitsOK, AsleepOK
    <3>3. ~InSlot(x)
      BY <2>3, <2>4 DEF InSlot, IInv, PlacesInv, Disjoint
    <3> QED BY <3>1, <3>2, <3>3
  <2>10. \A x : Asleep(x)' <=> Asleep(x)
    BY <1>1 DEF Asleep
  <2>11. Moved(Calls(r)) /\ ReqOK(r)'
    BY <1>1, <2>9, <2>10 DEF Moved, Grown, ReqOK
  <2>12. QueueOK'
    BY <1>1, <2>5 DEF IInv, PlacesInv, QueueOK, ReqOK
  <2>13. \A j, k \in DOMAIN queued' : j # k => Calls(queued'[j]) \cap Calls(queued'[k]) = {}
    <3> SUFFICES ASSUME NEW j \in DOMAIN queued', NEW k \in DOMAIN queued', j # k
                 PROVE  Calls(queued'[j]) \cap Calls(queued'[k]) = {}
      OBVIOUS
    <3>1. j + 1 \in DOMAIN queued /\ k + 1 \in DOMAIN queued /\ j + 1 # k + 1
      BY <2>2, <2>5
    <3>2. Calls(queued[j + 1]) \cap Calls(queued[k + 1]) = {}
      BY <3>1 DEF IInv, PlacesInv, Disjoint
    <3> QED BY <2>5, <3>2
  <2>14. PlacesInv'
    BY <2>6, <2>7, <2>8, <2>9, <2>11, <2>12, <2>13, SentPlaces DEF IInv
  <2>15. ThreadsOK'
    BY <1>1 DEF IInv, ThreadsOK
  <2>16. ASSUME NEW j \in DOMAIN queued', NEW k \in DOMAIN queued', NEW f \in Calls(queued'[j]),
                NEW w \in Calls(queued'[k]), j < k,
                queued'[j].cmd = "flush", queued'[k].cmd = "write"
         PROVE  f < w
    <3>1. /\ j + 1 \in DOMAIN queued /\ k + 1 \in DOMAIN queued /\ j + 1 < k + 1
          /\ queued'[j] = queued[j + 1] /\ queued'[k] = queued[k + 1]
      BY <2>2, <2>5, <2>16
    <3> QED BY <2>16, <3>1 DEF IInv, OrderOK
  <2>17. ASSUME NEW f \in DOMAIN reqs, NEW w \in DOMAIN reqs, w < f, reqs[f].cmd = "flush",
                reqs[w].cmd = "write", InSlot(f)' \/ f \in got, InQueue(w)'
         PROVE  FALSE
    <3>1. InQueue(w) /\ w \notin Calls(r)
      BY <2>8, <2>17
    <3>2. CASE f \in Calls(r)
      <4>1. PICK k \in DOMAIN queued' : w \in Calls(queued'[k])
        BY <2>17 DEF InQueue
      <4>2. PICK n \in DOMAIN queued : n = k + 1 /\ 1 < n /\ w \in Calls(queued[n])
        BY <2>2, <2>5, <4>1
      <4>3. queued[n].cmd = "write" /\ queued[1].cmd = "flush"
        BY <2>3, <2>4, <2>17, <3>2, <4>2 DEF IInv, PlacesInv, QueueOK, ReqOK
      <4>4. f < w
        BY <2>3, <2>4, <3>2, <4>2, <4>3 DEF IInv, OrderOK
      <4>5. f \in Nat /\ w \in Nat
        BY Types, CallsFacts DEF IInv
      <4> QED BY <2>17, <4>4, <4>5
    <3>3. CASE f \notin Calls(r)
      <4>1. InSlot(f) \/ f \in got
        <5>1. CASE f \in got
          BY <5>1
        <5>2. CASE InSlot(f)'
          <6>1. PICK u \in Slots : f \in Calls(inflight'[u])
            BY <5>2 DEF InSlot
          <6>2. inflight'[u] = IF u = s THEN r ELSE inflight[u]
            BY <2>6 DEF SentIn, IInv, TypeOK
          <6> QED BY <3>3, <6>1, <6>2 DEF InSlot
        <5> QED BY <2>17, <5>1, <5>2
      <4> QED BY <2>17, <3>1, <4>1 DEF IInv, OrderOK, FlushNotOvertaking
    <3> QED BY <3>2, <3>3
  <2>18. FlushNotOvertaking'
    BY <1>1, <2>17 DEF FlushNotOvertaking
  <2> QED BY <2>7, <2>14, <2>15, <2>16, <2>18 DEF IInv, OrderOK
<1> QED BY <1>2, <1>3

\* The drive ends a command.
LEMMA CompleteInv ==
    ASSUME IInv, NEW s \in Slots, Complete(s)
    PROVE  IInv'
<1> DEFINE C == Calls(inflight[s])
<1>1. /\ s \in ci /\ ci' = ci \ {s} /\ got' = got \cup C /\ pis' = TRUE /\ his' = TRUE
      /\ UNCHANGED <<reqs, queued, inflight, next_slot, handler, mgr, flushers, thr, done, panic>>
  BY DEF Complete
<1>2. inflight[s] \in Reqs /\ inflight[s] # NoReq
  BY <1>1, Types DEF IInv, TypeOK
<1>3. C \subseteq ReqIds /\ C \subseteq DOMAIN reqs
  BY <1>2, CallsFacts DEF IInv, PlacesInv, SlotsOK, ReqOK
<1>4. \A x \in C : InSlot(x) /\ ~InQueue(x) /\ ~Asleep(x)
  <2> SUFFICES ASSUME NEW x \in C PROVE InSlot(x) /\ ~InQueue(x) /\ ~Asleep(x)
    OBVIOUS
  <2>1. InSlot(x) /\ ~InQueue(x)
    BY DEF InSlot, InQueue, IInv, PlacesInv, Disjoint
  <2> QED BY <1>3, <2>1 DEF IInv, PlacesInv, AsleepOK
<1>5. \A u \in Slots \ {s} : Calls(inflight[u]) \cap C = {}
  BY <1>2 DEF IInv, PlacesInv, Disjoint
<1>6. \A x \in C : done[x] = 0
  BY <1>2 DEF IInv, PlacesInv, SentOK
<1> HIDE DEF C
<1>7. TypeOK'
  <2>1. durable' \subseteq got'
    BY <1>1 DEF Complete, IInv, TypeOK
  <2>2. got' \subseteq ReqIds /\ ci' \subseteq {u \in Slots : inflight'[u] # NoReq}
    BY <1>1, <1>3 DEF IInv, TypeOK
  <2> QED BY <1>1, <2>1, <2>2 DEF IInv, TypeOK
<1>8. \A x : (InSlot(x)' <=> InSlot(x)) /\ (InQueue(x)' <=> InQueue(x)) /\ (Asleep(x)' <=> Asleep(x))
  BY <1>1 DEF InSlot, InQueue, Asleep
<1> USE DEF IInv, PlacesInv
<1>9. QueueOK' /\ SlotsOK' /\ Disjoint'
  BY <1>1 DEF QueueOK, SlotsOK, ReqOK, Disjoint
<1>10. AsleepOK' /\ WaitsOK'
  BY <1>1, <1>4, <1>8 DEF AsleepOK, WaitsOK
<1>11. EndedOK'
  BY <1>1, <1>8 DEF EndedOK
<1>12. SentOK'
  <2> SUFFICES ASSUME NEW u \in Slots, inflight[u] # NoReq, NEW x \in Calls(inflight[u])
               PROVE  (x \in got' <=> u \notin ci') /\ done[x] = 0
    BY <1>1 DEF SentOK
  <2>1. CASE u = s
    BY <1>1, <1>6, <2>1 DEF C
  <2>2. CASE u # s
    <3>1. x \notin C
      BY <1>5, <2>2
    <3> QED BY <1>1, <2>2, <3>1 DEF SentOK
  <2> QED BY <2>1, <2>2
<1>13. DoneOK'
  BY <1>1, <1>3 DEF DoneOK
<1>14. ThreadsOK'
  BY <1>1 DEF ThreadsOK
<1>15. OrderOK'
  <2>1. FlushNotOvertaking'
    <3> SUFFICES ASSUME NEW f \in DOMAIN reqs, NEW w \in DOMAIN reqs, w < f,
                        reqs[f].cmd = "flush", reqs[w].cmd = "write",
                        InSlot(f) \/ f \in got', InQueue(w)
                 PROVE  FALSE
      BY <1>1, <1>8 DEF FlushNotOvertaking
    <3>1. InSlot(f) \/ f \in got
      BY <1>1, <1>4
    <3> QED BY <3>1 DEF OrderOK, FlushNotOvertaking
  <2> QED BY <1>1, <2>1 DEF OrderOK
<1> QED BY <1>7, <1>9, <1>10, <1>11, <1>12, <1>13, <1>14, <1>15

\* The slots that port_intr frees, and how many flushes it wakes.
LEMMA EndedFacts ==
    ASSUME IInv
    PROVE  /\ Ended \subseteq Slots /\ IsFiniteSet(Ended)
           /\ \A s \in Ended : inflight[s] \in Reqs /\ s \notin ci
           /\ \A s \in Slots : inflight[s] # NoReq /\ s \notin ci => s \in Ended
           /\ FlushSignals \in Nat /\ FlushSignals <= Len(flushers)
<1>1. Ended \subseteq Slots
  BY DEF Ended
<1>2. IsFiniteSet(Ended) /\ Cardinality(Ended) \in Nat
  BY <1>1, SlotsFinite, FS_Subset, FS_CardinalityType
<1>3. \A s \in Ended : inflight[s] \in Reqs /\ s \notin ci
  BY Types DEF Ended, IInv
<1>4. \A s \in Slots : inflight[s] # NoReq /\ s \notin ci => s \in Ended
  BY DEF Ended
<1>5. Len(flushers) \in Nat
  BY Types DEF IInv
<1>6. FlushSignals \in Nat /\ FlushSignals <= Len(flushers)
  <2> DEFINE S == {Cardinality(Ended), Len(flushers)}
  <2>1. S \in SUBSET Nat /\ S # {} /\ Len(flushers) \in S
    BY <1>2, <1>5
  <2>2. FlushSignals = IF queued = << >> THEN Min(S) ELSE 0
    BY DEF FlushSignals
  <2> HIDE DEF S
  <2>3. Min(S) \in S /\ Min(S) <= Len(flushers)
    BY <2>1, MinNat
  <2>4. Min(S) \in Nat
    BY <2>1, <2>3
  <2> QED BY <1>5, <2>2, <2>3, <2>4
<1> QED BY <1>1, <1>2, <1>3, <1>4, <1>6

\* How often port_intr releases the block of a call.
LEMMA Released ==
    ASSUME IInv, NEW i \in ReqIds, PortIntr
    PROVE  /\ (\E s \in Ended : inflight[s].cmd = "write" /\ i \in Calls(inflight[s])) =>
                    done'[i] = done[i] + 1
           /\ ~(\E s \in Ended : inflight[s].cmd = "write" /\ i \in Calls(inflight[s])) =>
                    done'[i] = done[i]
<1> DEFINE S == {s \in Ended : inflight[s].cmd = "write" /\ i \in Calls(inflight[s])}
<1>1. done'[i] = done[i] + Cardinality(S)
  BY DEF PortIntr
<1>2. \A x, y \in S : x = y
  <2> SUFFICES ASSUME NEW x \in S, NEW y \in S, x # y PROVE FALSE
    OBVIOUS
  <2>1. x \in Slots /\ y \in Slots /\ inflight[x] # NoReq
    BY DEF Ended
  <2> QED BY <2>1 DEF IInv, PlacesInv, Disjoint
<1>3. (S = {} => Cardinality(S) = 0) /\ (S # {} => Cardinality(S) = 1)
  BY <1>2, AtMostOne
<1>4. S # {} <=> \E s \in Ended : inflight[s].cmd = "write" /\ i \in Calls(inflight[s])
  OBVIOUS
<1> HIDE DEF S
<1>5. done[i] \in Nat
  BY DEF IInv, TypeOK
<1> QED BY <1>1, <1>3, <1>4, <1>5

\* What port_intr does with a thread: it answers it, wakes it or leaves it alone.
LEMMA ThreadAfter ==
    ASSUME IInv, NEW t \in Threads, PortIntr
    PROVE  \/ /\ thr[t].pc = "ack" /\ thr'[t] = [pc |-> "idle", id |-> 0]
              /\ \E s \in Ended : inflight[s].id = thr[t].id
           \/ /\ \E k \in 1 .. FlushSignals : flushers[k] = t
              /\ thr[t].pc = "flush" /\ thr'[t].pc = "woken" /\ thr'[t].id = thr[t].id
           \/ thr'[t] = thr[t]
<1> DEFINE acked == {inflight[s].id : s \in {e \in Ended : inflight[e].sync}}
           woken == {flushers[k] : k \in 1 .. FlushSignals}
<1>1. thr'[t] = IF thr[t].pc = "ack" /\ thr[t].id \in acked THEN [pc |-> "idle", id |-> 0]
                ELSE IF t \in woken THEN [thr[t] EXCEPT !.pc = "woken"]
                ELSE thr[t]
  BY DEF PortIntr
<1>2. thr[t].id \in acked => \E s \in Ended : inflight[s].id = thr[t].id
  OBVIOUS
<1>3. t \in woken => \E k \in 1 .. FlushSignals : flushers[k] = t
  OBVIOUS
<1> HIDE DEF acked, woken
<1>4. (\E k \in 1 .. FlushSignals : flushers[k] = t) => thr[t].pc = "flush"
  <2>1. \A k \in 1 .. FlushSignals : k \in DOMAIN flushers
    BY EndedFacts, Types DEF IInv
  <2> QED BY <2>1 DEF IInv, ThreadsOK
<1>5. thr[t] \in [pc : {"idle", "ack", "flush", "woken"}, id : 0 .. MaxReqs]
  BY DEF IInv, TypeOK
<1> QED BY <1>1, <1>2, <1>3, <1>4, <1>5

\* The interrupt handler ends requests.
LEMMA PortIntrInv ==
    ASSUME IInv, PortIntr
    PROVE  IInv'
<1> DEFINE n == FlushSignals
           E == Ended
<1>1. /\ inflight' = [s \in Slots |-> IF s \in E THEN NoReq ELSE inflight[s]]
      /\ mgr' = IF E # {} /\ queued # << >> THEN "woken" ELSE mgr
      /\ flushers' = SubSeq(flushers, n + 1, Len(flushers))
      /\ handler' = "clear" /\ panic' = (nslot < HbaSlots)
      /\ UNCHANGED <<reqs, queued, next_slot, ci, pis, his, got, durable>>
  BY DEF PortIntr, drive
<1>2. /\ E \subseteq Slots
      /\ \A s \in E : inflight[s] \in Reqs /\ s \notin ci
      /\ \A s \in Slots : inflight[s] # NoReq /\ s \notin ci => s \in E
      /\ n \in Nat /\ n <= Len(flushers)
  BY EndedFacts
<1>3. \A i \in ReqIds :
        \/ done'[i] = done[i] + 1 /\ \E s \in E : inflight[s].cmd = "write" /\ i \in Calls(inflight[s])
        \/ done'[i] = done[i] /\ ~\E s \in E : inflight[s].cmd = "write" /\ i \in Calls(inflight[s])
  BY Released
<1>4. \A t \in Threads :
        \/ /\ thr[t].pc = "ack" /\ thr'[t] = [pc |-> "idle", id |-> 0]
           /\ \E s \in E : inflight[s].id = thr[t].id
        \/ /\ \E k \in 1 .. n : flushers[k] = t
           /\ thr[t].pc = "flush" /\ thr'[t].pc = "woken" /\ thr'[t].id = thr[t].id
        \/ thr'[t] = thr[t]
  BY ThreadAfter
<1>5. DOMAIN done' = ReqIds /\ DOMAIN thr' = Threads /\ thr' = [t \in Threads |-> thr'[t]]
      /\ done' = [i \in ReqIds |-> done'[i]]
  BY DEF PortIntr
<1> HIDE DEF n, E
<1>6. \A s \in Slots : inflight'[s] = IF s \in E THEN NoReq ELSE inflight[s]
  BY <1>1
<1>7. /\ \A i \in DOMAIN reqs : i \in ReqIds /\ i # 0
      /\ Calls(NoReq) = {0} /\ NoReq \notin Reqs
      /\ \A r \in Reqs : Calls(r) \subseteq ReqIds /\ r.id \in Calls(r) /\ 0 \notin Calls(r)
  BY CallsFacts, Types DEF IInv
<1>8. \A i \in ReqIds : done[i] \in Nat
  BY DEF IInv, TypeOK
<1>9. /\ Len(flushers) \in Nat /\ DOMAIN flushers = 1 .. Len(flushers)
      /\ \A k \in DOMAIN flushers : flushers[k] \in Threads
      /\ flushers \in Seq(Threads)
  BY Types DEF IInv, TypeOK
<1>10. \A t \in Threads : thr[t] \in [pc : {"idle", "ack", "flush", "woken"}, id : 0 .. MaxReqs]
  BY DEF IInv, TypeOK
<1>11. /\ flushers' \in Seq(Threads) /\ DOMAIN flushers' = 1 .. Len(flushers) - n
       /\ \A k \in DOMAIN flushers' : k + n \in DOMAIN flushers /\ flushers'[k] = flushers[k + n]
  BY <1>1, <1>2, <1>9
<1>12. TypeOK'
  <2>1. \A i \in ReqIds : done'[i] \in Nat
    BY <1>3, <1>8
  <2>2. done' \in [ReqIds -> Nat]
    BY <1>5, <2>1
  <2>3. \A t \in Threads : thr'[t] \in [pc : {"idle", "ack", "flush", "woken"}, id : 0 .. MaxReqs]
    <3> SUFFICES ASSUME NEW t \in Threads
                 PROVE  thr'[t] \in [pc : {"idle", "ack", "flush", "woken"}, id : 0 .. MaxReqs]
      OBVIOUS
    <3>1. CASE \E k \in 1 .. n : flushers[k] = t
      <4>1. thr'[t] = thr[t] \/ thr'[t] = [thr[t] EXCEPT !.pc = "woken"]
              \/ thr'[t] = [pc |-> "idle", id |-> 0]
        BY DEF PortIntr
      <4> QED BY <1>10, <4>1, AhciAssumption
    <3>2. CASE ~\E k \in 1 .. n : flushers[k] = t
      BY <1>4, <1>10, <3>2, AhciAssumption
    <3> QED BY <3>1, <3>2
  <2>4. thr' \in [Threads -> [pc : {"idle", "ack", "flush", "woken"}, id : 0 .. MaxReqs]]
    BY <1>5, <2>3
  <2>5. inflight' \in [Slots -> Reqs \cup {NoReq}]
    BY <1>1 DEF IInv, TypeOK
  <2>6. ci' \subseteq {s \in Slots : inflight'[s] # NoReq}
    BY <1>1, <1>2, <1>6 DEF IInv, TypeOK
  <2>7. panic' \in BOOLEAN /\ mgr' \in {"wait", "woken"} /\ handler' \in {"none", "intr", "clear"}
    BY <1>1 DEF IInv, TypeOK
  <2> QED BY <1>1, <1>11, <2>2, <2>4, <2>5, <2>6, <2>7 DEF IInv, TypeOK
<1>13. \A x \in ReqIds : InSlot(x)' => InSlot(x)
  <2> SUFFICES ASSUME NEW x \in ReqIds, InSlot(x)' PROVE InSlot(x)
    OBVIOUS
  <2>1. PICK s \in Slots : x \in Calls(inflight'[s])
    BY DEF InSlot
  <2>2. x # 0
    BY CallsFacts
  <2>3. inflight'[s] = inflight[s]
    BY <1>6, <1>7, <2>1, <2>2
  <2> QED BY <2>1, <2>3 DEF InSlot
<1>14. \A x \in ReqIds : InSlot(x) /\ ~InSlot(x)' => \E s \in E : x \in Calls(inflight[s])
  <2> SUFFICES ASSUME NEW x \in ReqIds, InSlot(x), ~InSlot(x)'
               PROVE  \E s \in E : x \in Calls(inflight[s])
    OBVIOUS
  <2>1. PICK s \in Slots : x \in Calls(inflight[s])
    BY DEF InSlot
  <2>2. CASE s \in E
    BY <2>1, <2>2
  <2>3. CASE s \notin E
    <3>1. inflight'[s] = inflight[s]
      BY <1>6, <2>3
    <3> QED BY <2>1, <3>1 DEF InSlot
  <2> QED BY <2>2, <2>3
<1>15. \A x : (InQueue(x)' <=> InQueue(x))
  BY <1>1 DEF InQueue
<1>16. \A x : (Asleep(x)' <=> Asleep(x))
  <2> SUFFICES ASSUME NEW x PROVE Asleep(x)' <=> Asleep(x)
    OBVIOUS
  <2>1. ASSUME NEW t \in Threads
        PROVE  (thr'[t].id = x /\ thr'[t].pc \in {"flush", "woken"}) <=>
               (thr[t].id = x /\ thr[t].pc \in {"flush", "woken"})
    BY <1>4
  <2> QED BY <2>1 DEF Asleep
<1> USE DEF IInv, PlacesInv
<1>17. \A s \in E : s \in Slots /\ inflight[s] # NoReq
  BY <1>2, <1>7
<1>18. \A s \in E : \A x \in Calls(inflight[s]) : x \in DOMAIN reqs /\ x \in got /\ done[x] = 0
                                                 /\ reqs[x].cmd = inflight[s].cmd
  <2> SUFFICES ASSUME NEW s \in E, NEW x \in Calls(inflight[s])
               PROVE  x \in DOMAIN reqs /\ x \in got /\ done[x] = 0 /\ reqs[x].cmd = inflight[s].cmd
    OBVIOUS
  <2>1. s \in Slots /\ inflight[s] # NoReq /\ s \notin ci
    BY <1>2, <1>17
  <2>2. x \in DOMAIN reqs /\ reqs[x].cmd = inflight[s].cmd
    BY <2>1 DEF SlotsOK, ReqOK
  <2> QED BY <2>1, <2>2 DEF SentOK
<1>19. QueueOK'
  BY <1>1 DEF QueueOK, ReqOK
<1>20. SlotsOK'
  BY <1>1, <1>6 DEF SlotsOK, ReqOK
<1>21. Disjoint'
  <2>1. \A j, k \in DOMAIN queued' : j # k => Calls(queued'[j]) \cap Calls(queued'[k]) = {}
    BY <1>1 DEF Disjoint
  <2>2. ASSUME NEW s \in Slots, NEW u \in Slots, s # u, inflight'[s] # NoReq
        PROVE  Calls(inflight'[s]) \cap Calls(inflight'[u]) = {}
    <3>1. inflight'[s] = inflight[s] /\ inflight[s] \in Reqs
      BY <1>6, <2>2, Types
    <3>2. CASE u \in E
      <4>1. Calls(inflight'[u]) = {0} /\ 0 \notin Calls(inflight[s])
        BY <1>6, <1>7, <3>1, <3>2
      <4> QED BY <3>1, <4>1
    <3>3. CASE u \notin E
      BY <1>6, <2>2, <3>1, <3>3 DEF Disjoint
    <3> QED BY <3>2, <3>3
  <2>3. ASSUME NEW k \in DOMAIN queued', NEW s \in Slots
        PROVE  Calls(queued'[k]) \cap Calls(inflight'[s]) = {}
    <3>1. queued'[k] = queued[k] /\ k \in DOMAIN queued /\ queued[k] \in Reqs
      BY <1>1, Types
    <3>2. CASE s \in E
      <4>1. Calls(inflight'[s]) = {0} /\ 0 \notin Calls(queued[k])
        BY <1>6, <1>7, <3>1, <3>2
      <4> QED BY <3>1, <4>1
    <3>3. CASE s \notin E
      BY <1>6, <3>1, <3>3 DEF Disjoint
    <3> QED BY <3>2, <3>3
  <2> QED BY <2>1, <2>2, <2>3 DEF Disjoint
<1>22. AsleepOK'
  BY <1>1, <1>7, <1>13, <1>15, <1>16 DEF AsleepOK
<1>23. WaitsOK'
  BY <1>1, <1>15 DEF WaitsOK
<1>24. SentOK'
  <2> SUFFICES ASSUME NEW s \in Slots, inflight'[s] # NoReq, NEW x \in Calls(inflight'[s])
               PROVE  (x \in got' <=> s \notin ci') /\ done'[x] = 0
    BY DEF SentOK
  <2>1. inflight'[s] = inflight[s] /\ s \notin E /\ inflight[s] \in Reqs
    BY <1>6, Types
  <2>2. (x \in got <=> s \notin ci) /\ done[x] = 0
    BY <2>1 DEF SentOK
  <2>3. x \in ReqIds
    BY <1>7, <2>1
  <2>4. ~\E u \in E : x \in Calls(inflight[u])
    BY <1>17, <2>1 DEF Disjoint
  <2>5. done'[x] = done[x]
    BY <1>3, <2>3, <2>4
  <2> QED BY <1>1, <2>2, <2>5
<1>25. EndedOK'
  <2> SUFFICES ASSUME NEW x \in DOMAIN reqs, ~Asleep(x), ~InQueue(x), ~InSlot(x)'
               PROVE  x \in got /\ (reqs[x].cmd = "write" => done'[x] = 1)
    BY <1>1, <1>15, <1>16 DEF EndedOK
  <2>1. CASE InSlot(x)
    <3>1. PICK s \in E : x \in Calls(inflight[s])
      BY <1>7, <1>14, <2>1
    <3>2. x \in got /\ done[x] = 0 /\ reqs[x].cmd = inflight[s].cmd
      BY <1>18, <3>1
    <3> QED BY <1>3, <1>7, <3>1, <3>2
  <2>2. CASE ~InSlot(x)
    <3>1. x \in got /\ (reqs[x].cmd = "write" => done[x] = 1)
      BY <2>2 DEF EndedOK
    <3>2. ~\E s \in E : x \in Calls(inflight[s])
      BY <1>17, <2>2 DEF InSlot
    <3> QED BY <1>3, <1>7, <3>1, <3>2
  <2> QED BY <2>1, <2>2
<1>26. DoneOK'
  <2> SUFFICES ASSUME NEW i \in ReqIds
               PROVE  /\ done'[i] \in {0, 1} /\ (i \in got => i \in DOMAIN reqs)
                      /\ done'[i] = 1 => i \in got /\ reqs[i].cmd = "write"
    BY <1>1 DEF DoneOK
  <2>1. /\ done[i] \in {0, 1} /\ (i \in got => i \in DOMAIN reqs)
        /\ done[i] = 1 => i \in got /\ reqs[i].cmd = "write"
    BY DEF DoneOK
  <2>2. CASE done'[i] = done[i]
    BY <2>1, <2>2
  <2>3. CASE done'[i] = done[i] + 1 /\ \E s \in E : inflight[s].cmd = "write" /\ i \in Calls(inflight[s])
    BY <1>18, <2>1, <2>3
  <2> QED BY <1>3, <2>2, <2>3
<1>27. ThreadsOK'
  <2>1. ASSUME NEW t \in Threads
        PROVE  /\ thr'[t].pc = "idle" <=> thr'[t].id = 0
               /\ thr'[t].id # 0 => thr'[t].id \in DOMAIN reqs /\ thr'[t].id = thr[t].id
    BY <1>4 DEF ThreadsOK
  <2>2. ASSUME NEW t \in Threads, NEW u \in Threads, thr'[t].id = thr'[u].id, t # u
        PROVE  thr'[t].id = 0
    <3>1. thr'[t].id # 0 => thr[t].id = thr'[t].id /\ thr[u].id = thr'[u].id
      BY <2>1, <2>2
    <3> QED BY <2>2, <3>1 DEF ThreadsOK
  <2>3. ASSUME NEW k \in DOMAIN flushers'
        PROVE  thr'[flushers'[k]].pc = "flush"
    <3>1. PICK t \in Threads : t = flushers[k + n] /\ flushers'[k] = t /\ k + n \in DOMAIN flushers
      BY <1>9, <1>11
    <3>2. thr[t].pc = "flush"
      BY <3>1 DEF ThreadsOK
    <3>3. \A j \in 1 .. n : j \in DOMAIN flushers /\ j # k + n
      BY <1>2, <1>9, <1>11
    <3>4. \A j \in 1 .. n : flushers[j] # t
      BY <3>1, <3>3 DEF ThreadsOK
    <3> QED BY <1>4, <3>1, <3>2, <3>4
  <2>4. ASSUME NEW j \in DOMAIN flushers', NEW k \in DOMAIN flushers', j # k
        PROVE  flushers'[j] # flushers'[k]
    <3>1. j + n \in DOMAIN flushers /\ k + n \in DOMAIN flushers /\ j + n # k + n
      BY <1>2, <1>11, <2>4
    <3> QED BY <1>11, <3>1 DEF ThreadsOK
  <2>5. ASSUME NEW i \in DOMAIN reqs, reqs[i].sync, i \notin got
        PROVE  \E t \in Threads : thr'[t].id = i
    <3>1. PICK t \in Threads : thr[t].id = i
      BY <2>5 DEF ThreadsOK
    <3>2. \A s \in E : inflight[s].id # i
      BY <1>2, <1>7, <1>18, <2>5
    <3> QED BY <1>4, <3>1, <3>2
  <2>6. reqs' = reqs /\ got' = got
    BY <1>1
  <2>7. \A i \in DOMAIN reqs' : reqs'[i].sync => i \in got' \/ \E t \in Threads : thr'[t].id = i
    BY <2>5, <2>6
  <2> QED BY <2>1, <2>2, <2>3, <2>4, <2>6, <2>7 DEF ThreadsOK
<1>28. OrderOK'
  <2>1. FlushNotOvertaking'
    BY <1>1, <1>7, <1>13, <1>15 DEF OrderOK, FlushNotOvertaking
  <2> QED BY <1>1, <2>1 DEF OrderOK
<1> QED BY <1>12, <1>19, <1>20, <1>21, <1>22, <1>23, <1>24, <1>25, <1>26, <1>27, <1>28

-------------------------------------------------------------------------------
(***************************************************************************)
(* The invariant.                                                          *)
(***************************************************************************)
\* It holds when the driver starts.
LEMMA InitInv == Init => IInv
<1> SUFFICES ASSUME Init PROVE IInv
  OBVIOUS
<1>1. /\ reqs = << >> /\ queued = << >> /\ inflight = [s \in Slots |-> NoReq] /\ next_slot = 0
      /\ ci = {} /\ flushers = << >> /\ thr = [t \in Threads |-> [pc |-> "idle", id |-> 0]]
      /\ got = {} /\ durable = {} /\ done = [i \in ReqIds |-> 0]
  BY DEF Init
<1>2. DOMAIN reqs = {} /\ DOMAIN queued = {} /\ DOMAIN flushers = {} /\ Len(reqs) = 0
  BY <1>1
<1>3. TypeOK
  <2>1. 0 \in Slots
    BY SlotsFinite DEF Slots
  <2>2. inflight \in [Slots -> Reqs \cup {NoReq}]
    BY <1>1
  <2>3. done \in [ReqIds -> Nat]
    BY <1>1
  <2>4. thr \in [Threads -> [pc : {"idle", "ack", "flush", "woken"}, id : 0 .. MaxReqs]]
    BY <1>1, AhciAssumption
  <2>5. pis = FALSE /\ his = FALSE /\ handler = "none" /\ panic = FALSE /\ mgr = "wait"
    BY DEF Init
  <2>6. reqs \in Seq(History) /\ queued \in Seq(Reqs) /\ flushers \in Seq(Threads) /\ Len(reqs) <= MaxReqs
    BY <1>1, <1>2, AhciAssumption
  <2> QED BY <1>1, <2>1, <2>2, <2>3, <2>4, <2>5, <2>6 DEF TypeOK
<1>4. QueueOK /\ SlotsOK /\ AsleepOK /\ WaitsOK /\ SentOK /\ EndedOK
  BY <1>1, <1>2 DEF QueueOK, SlotsOK, AsleepOK, WaitsOK, SentOK, EndedOK
<1>5. Disjoint /\ DoneOK
  BY <1>1, <1>2 DEF Disjoint, DoneOK
<1>6. ThreadsOK
  BY <1>1, <1>2 DEF ThreadsOK
<1>7. OrderOK
  BY <1>2 DEF OrderOK, FlushNotOvertaking
<1> QED BY <1>3, <1>4, <1>5, <1>6, <1>7 DEF IInv, PlacesInv

\* Every step keeps it.
LEMMA StepInv ==
    ASSUME IInv, [Next]_vars
    PROVE  IInv'
<1>1. ASSUME NEW t \in Threads, Call(t) PROVE IInv'
  <2>1. {"read", "write", "flush"} \subseteq Cmds /\ 0 \in Nat
    BY DEF Cmds
  <2>2. ASSUME NEW b \in ReadBlks, Start(t, "read", b, TRUE) PROVE IInv'
    <3>1. b \in Nat
      BY AhciAssumption
    <3> QED BY <2>1, <2>2, <3>1, StartInv
  <2>3. ASSUME NEW b \in WriteBlks, Start(t, "write", b, FALSE) PROVE IInv'
    <3>1. b \in Nat
      BY AhciAssumption
    <3> QED BY <2>1, <2>3, <3>1, StartInv
  <2>4. ASSUME NEW b \in SyncBlks, Start(t, "write", b, TRUE) PROVE IInv'
    <3>1. b \in Nat
      BY AhciAssumption
    <3> QED BY <2>1, <2>4, <3>1, StartInv
  <2>5. ASSUME Start(t, "flush", 0, TRUE) PROVE IInv'
    BY <2>1, <2>5, StartInv
  <2> QED BY <1>1, <2>2, <2>3, <2>4, <2>5 DEF Call
<1>2. ASSUME NEW t \in Threads, FlushAgain(t) PROVE IInv'
  BY <1>2, FlushAgainInv
<1>3. CASE QueueMgr
  BY <1>3, QueueMgrInv
<1>4. ASSUME NEW s \in Slots, Complete(s) PROVE IInv'
  BY <1>4, CompleteInv
<1>5. CASE Intr
  <2>1. /\ UNCHANGED <<reqs, queued, inflight, next_slot, ci, his, mgr, flushers, thr, got, durable, done, panic>>
        /\ handler' = "intr" /\ pis' = FALSE
    BY <1>5 DEF Intr, hist
  <2>2. TypeOK'
    BY <2>1 DEF IInv, TypeOK
  <2> QED BY <2>1, <2>2, SameInv
<1>6. CASE PortIntr
  BY <1>6, PortIntrInv
<1>7. CASE ClearIs
  <2>1. /\ UNCHANGED <<reqs, queued, inflight, next_slot, ci, pis, mgr, flushers, thr, got, durable, done, panic>>
        /\ handler' = "none" /\ his' = pis
    BY <1>7 DEF ClearIs, hist, clear_is
  <2>2. TypeOK'
    BY <2>1 DEF IInv, TypeOK
  <2> QED BY <2>1, <2>2, SameInv
<1>8. CASE UNCHANGED vars
  <2>1. UNCHANGED <<reqs, queued, inflight, next_slot, ci, pis, his, handler, mgr, flushers, thr, got, durable, done, panic>>
    BY <1>8 DEF vars, hist, drive
  <2>2. TypeOK'
    BY <2>1 DEF IInv, TypeOK
  <2> QED BY <2>1, <2>2, SameInv
<1> QED BY <1>1, <1>2, <1>3, <1>4, <1>5, <1>6, <1>7, <1>8 DEF Next

\* A call is in one place.
LEMMA OncePlaced ==
    ASSUME IInv
    PROVE  ExecutedOnce
<1> USE DEF IInv, PlacesInv
<1> SUFFICES ASSUME NEW i \in DOMAIN reqs
             PROVE  /\ Cardinality({s \in Slots : i \in Calls(inflight[s])}) <= 1
                    /\ Cardinality({x \in 1 .. 4 : <<Asleep(i), InQueue(i), InSlot(i), Over(i)>>[x]}) = 1
  BY DEF ExecutedOnce
<1>1. i \in ReqIds /\ i # 0 /\ Calls(NoReq) = {0}
  BY Types, CallsFacts
<1>2. Cardinality({s \in Slots : i \in Calls(inflight[s])}) <= 1
  <2> DEFINE S == {s \in Slots : i \in Calls(inflight[s])}
  <2>1. \A x, y \in S : x = y
    <3> SUFFICES ASSUME NEW x \in S, NEW y \in S, x # y PROVE FALSE
      OBVIOUS
    <3>1. inflight[x] # NoReq
      BY <1>1
    <3> QED BY <3>1 DEF Disjoint
  <2> HIDE DEF S
  <2>2. Cardinality(S) <= 1
    BY <2>1, AtMostOne
  <2> QED BY <2>2 DEF S
<1>3. Asleep(i) => ~InQueue(i) /\ ~InSlot(i) /\ i \notin got
  BY DEF AsleepOK
<1>4. InQueue(i) => ~InSlot(i) /\ i \notin got
  <2>1. InQueue(i) => ~InSlot(i)
    BY DEF InQueue, InSlot, Disjoint
  <2> QED BY <2>1 DEF WaitsOK
<1>5. InSlot(i) => done[i] = 0
  <2>1. \A s \in Slots : i \in Calls(inflight[s]) => inflight[s] # NoReq
    BY <1>1
  <2> QED BY <2>1 DEF InSlot, SentOK
<1>6. i \notin got => done[i] = 0
  BY <1>1, NotNew
<1>7. ~Asleep(i) /\ ~InQueue(i) /\ ~InSlot(i) => i \in got /\ (reqs[i].cmd = "write" => done[i] = 1)
  BY DEF EndedOK
<1>8. Asleep(i) => ~InQueue(i) /\ ~InSlot(i) /\ ~Over(i)
  BY <1>3, <1>6 DEF Over
<1>9. InQueue(i) => ~Asleep(i) /\ ~InSlot(i) /\ ~Over(i)
  BY <1>3, <1>4, <1>6 DEF Over
<1>10. InSlot(i) => ~Asleep(i) /\ ~InQueue(i) /\ ~Over(i)
  BY <1>3, <1>4, <1>5 DEF Over
<1>11. ~Asleep(i) /\ ~InQueue(i) /\ ~InSlot(i) => Over(i)
  BY <1>7 DEF Over
<1>12. Cardinality({x \in 1 .. 4 : <<Asleep(i), InQueue(i), InSlot(i), Over(i)>>[x]}) = 1
  <2>1. ASSUME NEW a \in BOOLEAN, NEW q \in BOOLEAN, NEW s \in BOOLEAN, NEW o \in BOOLEAN,
               a \/ q \/ s \/ o, a => ~q /\ ~s /\ ~o, q => ~s /\ ~o, s => ~o
        PROVE  \E y : {x \in 1 .. 4 : <<a, q, s, o>>[x]} = {y}
    <3> DEFINE f == <<a, q, s, o>>
               X == {x \in 1 .. 4 : f[x]}
    <3>1. f[1] = a /\ f[2] = q /\ f[3] = s /\ f[4] = o
      OBVIOUS
    <3>2. 1 .. 4 = {1, 2, 3, 4}
      OBVIOUS
    <3> HIDE DEF f
    <3>3. \A y \in {1, 2, 3, 4} : f[y] /\ (\A x \in {1, 2, 3, 4} : f[x] => x = y) => X = {y}
      BY <3>2, Zenon
    <3>4. \E y \in {1, 2, 3, 4} : f[y] /\ \A x \in {1, 2, 3, 4} : f[x] => x = y
      <4>1. CASE a
        <5>1. f[1] /\ \A x \in {1, 2, 3, 4} : f[x] => x = 1
          BY <2>1, <3>1, <4>1, Zenon
        <5> QED BY <5>1, Zenon
      <4>2. CASE q
        <5>1. f[2] /\ \A x \in {1, 2, 3, 4} : f[x] => x = 2
          BY <2>1, <3>1, <4>2, Zenon
        <5> QED BY <5>1, Zenon
      <4>3. CASE s
        <5>1. f[3] /\ \A x \in {1, 2, 3, 4} : f[x] => x = 3
          BY <2>1, <3>1, <4>3, Zenon
        <5> QED BY <5>1, Zenon
      <4>4. CASE o
        <5>1. f[4] /\ \A x \in {1, 2, 3, 4} : f[x] => x = 4
          BY <2>1, <3>1, <4>4, Zenon
        <5> QED BY <5>1, Zenon
      <4> QED BY <2>1, <4>1, <4>2, <4>3, <4>4, Zenon
    <3>5. \E y : X = {y}
      BY <3>3, <3>4, Zenon
    <3> QED BY <3>5 DEF f
  <2> DEFINE X == {x \in 1 .. 4 : <<Asleep(i), InQueue(i), InSlot(i), Over(i)>>[x]}
  <2>2. \E y : X = {y}
    <3>1. Asleep(i) \in BOOLEAN /\ InQueue(i) \in BOOLEAN /\ InSlot(i) \in BOOLEAN /\ Over(i) \in BOOLEAN
      <4>1. Asleep(i) \in BOOLEAN /\ InQueue(i) \in BOOLEAN /\ InSlot(i) \in BOOLEAN
        BY Zenon DEF Asleep, InQueue, InSlot
      <4>2. CASE reqs[i].cmd = "write"
        <5>1. Over(i) = (done[i] > 0)
          BY <4>2 DEF Over
        <5>2. (done[i] > 0) \in BOOLEAN
          OBVIOUS
        <5> QED BY <4>1, <5>1, <5>2, Zenon
      <4>3. CASE reqs[i].cmd # "write"
        <5>1. Over(i) = (i \in got /\ ~InSlot(i))
          BY <4>3, Zenon DEF Over
        <5> QED BY <4>1, <5>1, Zenon
      <4> QED BY <4>2, <4>3
    <3>2. /\ Asleep(i) \/ InQueue(i) \/ InSlot(i) \/ Over(i)
          /\ Asleep(i) => ~InQueue(i) /\ ~InSlot(i) /\ ~Over(i)
          /\ InQueue(i) => ~InSlot(i) /\ ~Over(i)
          /\ InSlot(i) => ~Over(i)
      BY <1>8, <1>9, <1>10, <1>11, Zenon
    <3> QED BY <2>1, <3>1, <3>2, ZenonT(60)
  <2> HIDE DEF X
  <2>3. Cardinality(X) = 1
    BY <2>2, FS_Singleton
  <2> QED BY <2>3 DEF X
<1> QED BY <1>2, <1>12

\* The types of the driver's state, and that the drive has commands only in
\* slots that are in use.
THEOREM AhciInvariant == Spec => []TypeOK
<1>1. IInv /\ [Next]_vars => IInv'
  BY StepInv
<1>2. IInv => TypeOK
  BY DEF IInv
<1> QED BY InitInv, <1>1, <1>2, PTL DEF Spec

\* Every request is in one place: asleep before it is issued, in the queue, in a
\* slot or over.  None is lost and none is executed twice (start, queue_coalesce,
\* queuemgr, port_intr).
THEOREM RequestsExecutedOnce == Spec => []ExecutedOnce
<1>1. IInv /\ [Next]_vars => IInv'
  BY StepInv
<1>2. IInv => ExecutedOnce
  BY OncePlaced
<1> QED BY InitInv, <1>1, <1>2, PTL DEF Spec

\* port_intr releases the page of a written block once, after the drive has
\* read it, and answers a call after the drive has done what it asks for.
THEOREM PagesReleasedAfter == Spec => []ReleasedAfter
<1>1. IInv /\ [Next]_vars => IInv'
  BY StepInv
<1>2. IInv => ReleasedAfter
  <2> SUFFICES ASSUME IInv PROVE ReleasedAfter
    OBVIOUS
  <2>1. \A i \in ReqIds : done[i] <= 1 /\ (done[i] = 1 => i \in got)
    BY DEF IInv, PlacesInv, DoneOK
  <2>2. \A i \in DOMAIN reqs : reqs[i].sync /\ (\A t \in Threads : thr[t].id # i) => i \in got
    BY DEF IInv, ThreadsOK
  <2> QED BY <2>1, <2>2 DEF ReleasedAfter
<1> QED BY InitInv, <1>1, <1>2, PTL DEF Spec

\* A flush is not given to the drive while a write that was started before it is
\* in the queue: start sends it to the end, and nothing is combined across it.
THEOREM FlushesKeepOrder == Spec => []FlushNotOvertaking
<1>1. IInv /\ [Next]_vars => IInv'
  BY StepInv
<1>2. IInv => FlushNotOvertaking
  BY DEF IInv, OrderOK
<1> QED BY InitInv, <1>1, <1>2, PTL DEF Spec

===============================================================================
