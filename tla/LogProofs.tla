------------------------------ MODULE LogProofs ------------------------------
(***************************************************************************)
(* Theorems about Log, for every value of its constants.                   *)
(***************************************************************************)
EXTENDS Log, FiniteSetTheorems, WellFoundedInduction, TLAPS

(***************************************************************************)
(* Arithmetic of the log's geometry.                                       *)
(***************************************************************************)
\* mk_memlog makes the log at least as long as two transactions, less one.
LEMMA Geometry ==
    /\ loglen \in Nat /\ maxtrans \in Nat
    /\ 2 * maxtrans <= loglen + 1
    /\ MaxBlkPerOp + 2 <= maxtrans
  BY LogAssumption DEF loglen, maxtrans, LogOffset

\* Every log index has a slot.
LEMMA SlotType == ASSUME NEW i \in Int PROVE logindex(i) \in Slots
  BY Geometry, LogAssumption DEF logindex, Slots

\* A non-empty set of log indices has a largest element.
LEMMA MaxIndex ==
    ASSUME NEW a \in Int, NEW b \in Int, NEW S \in SUBSET (a .. b), S # {}
    PROVE  Max(S) \in S
  <1> DEFINE T == {n \in Nat : b - n \in S}
  <1>1. PICK s \in S : TRUE
    OBVIOUS
  <1>2. b - s \in T BY <1>1
  <1>3. T \subseteq Nat /\ T # {} BY <1>2
  <1>4. PICK x \in T : \A y \in T : ~(<<y, x>> \in OpToRel(<, Nat))
    BY <1>3, NatLessThanWellFounded, WFMin
  <1>5. \A y \in T : x <= y
    <2>1. SUFFICES ASSUME NEW y \in T, y < x PROVE FALSE BY x \in Nat
    <2>2. <<y, x>> \in Nat \X Nat /\ y < x BY <2>1
    <2>3. <<y, x>> \in OpToRel(<, Nat) BY <2>2, Zenon DEF OpToRel
    <2> QED BY <2>3, <1>4
  <1>6. \A y \in S : b - x >= y
    <2>1. SUFFICES ASSUME NEW y \in S PROVE b - x >= y
      OBVIOUS
    <2>2. b - y \in T
      OBVIOUS
    <2>3. x <= b - y BY <2>2, <1>5
    <2>4. x \in Int /\ y \in Int
      OBVIOUS
    <2> HIDE DEF T
    <2> QED BY <2>3, <2>4
  <1>7. b - x \in S
    OBVIOUS
  <1> QED BY <1>6, <1>7 DEF Max

(***************************************************************************)
(* Types of the operators.                                                 *)
(***************************************************************************)
LEMMA ApplyType ==
    ASSUME NEW ml \in [Slots -> MemSlot], NEW t \in Int, NEW h \in Int
    PROVE  apply(ml, t, h, Blocks) \in [Blocks -> Vals \cup {NoVal}]
  <1> DEFINE at(b) == {i \in t + 1 .. h - 1 : /\ ml[logindex(i)].type = DataBlk
                                              /\ ml[logindex(i)].block = b}
  <1> SUFFICES ASSUME NEW b \in Blocks, at(b) # {}
               PROVE  ml[logindex(Max(at(b)))].data \in Vals \cup {NoVal}
    BY DEF apply
  <1>1. at(b) \in SUBSET ((t + 1) .. (h - 1))
    OBVIOUS
  <1>2. Max(at(b)) \in at(b)
    <2>1. t + 1 \in Int /\ h - 1 \in Int
      OBVIOUS
    <2> HIDE DEF at
    <2> QED BY <1>1, <2>1, MaxIndex
  <1>3. Max(at(b)) \in Int BY <1>1, <1>2
  <1> QED BY <1>3, SlotType DEF MemSlot

LEMMA InstallType ==
    ASSUME NEW log \in [Slots -> Page], NEW hdr \in Header
    PROVE  install(log, hdr, Blocks) \in [Blocks -> Vals \cup {NoVal}]
  <1> DEFINE im == installmap(log, hdr.tail, hdr.head)
             at(b) == {i \in hdr.tail .. hdr.head - 1 : im[i] = b}
  <1> SUFFICES ASSUME NEW b \in Blocks, at(b) # {}
               PROVE  log[logindex(Max(at(b)))].data \in Vals \cup {NoVal}
    BY DEF install
  <1>1. at(b) \in SUBSET (hdr.tail .. (hdr.head - 1))
    OBVIOUS
  <1>2. hdr.tail \in Int /\ hdr.head - 1 \in Int BY DEF Header
  <1>3. Max(at(b)) \in at(b)
    <2> HIDE DEF at
    <2> QED BY <1>1, <1>2, MaxIndex
  <1>4. Max(at(b)) \in Int BY <1>1, <1>2, <1>3
  <1> QED BY <1>4, SlotType DEF Page

LEMMA RecoveredType ==
    ASSUME NEW home \in [Blocks -> Vals], NEW log \in [Slots -> Page], NEW hdr \in Header
    PROVE  Recovered(home, log, hdr) \in [Blocks -> Vals]
  <1>1. DOMAIN home = Blocks
    OBVIOUS
  <1> QED BY <1>1, InstallType DEF Recovered

LEMMA TransConstruct == ASSUME NEW n \in Nat PROVE mk_trans(n) \in TransType
  BY DEF mk_trans, TransType, NCommitBlk

\* The updates of a transaction keep its type.
LEMMA TransUpdate ==
    ASSUME NEW t \in TransType
    PROVE  /\ \A n \in Int : [t EXCEPT !.inprogress = n] \in TransType
           /\ \A c \in BOOLEAN : [t EXCEPT !.committing = c] \in TransType
           /\ \A h \in Nat : [t EXCEPT !.head = h] \in TransType
           /\ [t EXCEPT !.ordered = {}] \in TransType
           /\ [t EXCEPT !.forcedone = TRUE, !.waiters = {}] \in TransType
           /\ \A a, c \in BOOLEAN, w \in SUBSET Procs :
                [t EXCEPT !.force = TRUE, !.forceapply = a, !.committing = c,
                          !.waiters = w] \in TransType
           /\ \A L, O \in SUBSET Blocks, R \in Seq(Blocks) :
                [t EXCEPT !.logged = L, !.ordered = O, !.revoked = R] \in TransType
  BY DEF TransType

LEMMA CopyloggedType ==
    ASSUME TypeOK, NEW t \in TransType
    PROVE  copylogged(t) \in [Slots -> MemSlot]
  <1>1. \A b \in Blocks : b \in Nat BY LogAssumption DEF Blocks
  <1>2. t.revoked # << >> => /\ t.revoked[1] \in Nat
                             /\ <<RevokeBlk>> \o t.revoked \in Seq(Int)
    BY <1>1 DEF TransType, RevokeBlk
  <1>3. \A b \in t.logged : b \in Nat /\ cache[b] \in Vals
    BY <1>1 DEF TypeOK, KernelType, TransType
  <1> DEFINE at(s, b) == s = logindex(place(t, b))
             pick(s) == CHOOSE c \in t.logged : at(s, c)
             slot(s) ==
                IF t.revoked # << >> /\ s = logindex(t.start + NCommitBlk)
                THEN [type |-> RevokeBlk, block |-> t.revoked[1],
                      desc |-> <<RevokeBlk>> \o t.revoked, data |-> NoVal]
                ELSE IF \E b \in t.logged : at(s, b)
                THEN [type |-> DataBlk, block |-> pick(s), desc |-> << >>,
                      data |-> cache[pick(s)]]
                ELSE memlog[s]
  <1>4. copylogged(t) = [s \in Slots |-> slot(s)] BY DEF copylogged
  <1>5. ASSUME NEW s \in Slots PROVE slot(s) \in MemSlot
    <2> HIDE DEF at
    <2>1. (\E b \in t.logged : at(s, b)) => pick(s) \in t.logged
      OBVIOUS
    <2>2. memlog[s] \in MemSlot BY DEF TypeOK, KernelType
    <2> HIDE DEF pick
    <2> QED BY <1>2, <1>3, <2>1, <2>2 DEF MemSlot, RevokeBlk, DataBlk
  <1> HIDE DEF slot
  <1> QED BY <1>4, <1>5

\* What a flush leaves on the platter has the platter's types.
LEMMA FlushType ==
    ASSUME TypeOK
    PROVE  /\ \A S : Destage(S) \in [Blocks -> Vals]
           /\ NoWrites \in [Blocks -> Vals \cup {NoVal}]
           /\ \A S : DestageLog(S) \in [Slots -> Page]
           /\ DestageHdr \in Header
           /\ << >> \in Seq(Header)
  <1>1. \A S : Destage(S) \in [Blocks -> Vals] BY DEF TypeOK, DiskType, Destage
  <1>2. NoWrites \in [Blocks -> Vals \cup {NoVal}] BY DEF NoWrites
  <1>3. \A S : DestageLog(S) \in [Slots -> Page]
    BY DEF TypeOK, DiskType, KernelType, DestageLog, Page, MemSlot
  <1>4. DestageHdr \in Header BY DEF TypeOK, DiskType, DestageHdr
  <1> QED BY <1>1, <1>2, <1>3, <1>4

\* The header commit_head and commit_tail write is a header.
LEMMA HeaderType ==
    ASSUME TypeOK, NEW n \in Nat
    PROVE  commit_head(n) \in Seq(Header) /\ commit_tail(n) \in Seq(Header)
  <1>1. [DestageHdr EXCEPT !.head = n] \in Header /\ [DestageHdr EXCEPT !.tail = n] \in Header
    BY FlushType DEF Header
  <1> QED BY <1>1 DEF commit_head, commit_tail

\* The two live transactions are transactions.
LEMMA LiveTypes == ASSUME TypeOK PROVE cur \in TransType /\ com \in TransType
  BY DEF TypeOK, TransesType, cur, com

\* The threads' states after a broadcast.
LEMMA BroadcastType ==
    ASSUME NEW f \in [Procs -> {"idle", "admit", "admitwait", "op", "force",
                                "stopforce", "stopping", "stopped"}]
    PROVE  Broadcast(f) \in [Procs -> {"idle", "admit", "admitwait", "op", "force",
                                       "stopforce", "stopping", "stopped"}]
  BY DEF Broadcast

(***************************************************************************)
(* Type correctness, one lemma per group of actions.                       *)
(***************************************************************************)
LEMMA OpBeginType == ASSUME TypeOK, NEW p \in Procs, Op_begin(p) PROVE TypeOK'
  <1>1. ProcsType' BY LogAssumption DEF TypeOK, ProcsType, Op_begin
  <1>2. TransesType'
    <2>1. cur.inprogress + 1 \in Int BY LiveTypes DEF TransType
    <2>2. [cur EXCEPT !.inprogress = cur.inprogress + 1] \in TransType
      BY <2>1, LiveTypes, TransUpdate
    <2>3. \/ trans' = trans
          \/ trans' = [trans EXCEPT ![curtrans] =
                          [cur EXCEPT !.inprogress = cur.inprogress + 1]]
      BY DEF Op_begin, cur
    <2> QED BY <2>2, <2>3 DEF TypeOK, TransesType, Op_begin
  <1>3. KernelType' /\ DiskType' /\ HistType'
    BY DEF TypeOK, KernelType, DiskType, HistType, Op_begin, diskVars, histVars
  <1> QED BY <1>1, <1>2, <1>3 DEF TypeOK

LEMMA WriteType ==
    ASSUME TypeOK, NEW p \in Procs, NEW b \in Blocks, NEW v \in Vals,
           NEW ordered \in BOOLEAN, Write(p, b, v, ordered)
    PROVE  TypeOK'
  <1>1. ProcsType' BY LogAssumption DEF TypeOK, ProcsType, Write
  <1>2. TransesType'
    <2> DEFINE L == IF ordered THEN cur.logged \ {b} ELSE cur.logged \cup {b}
               O == IF ordered THEN cur.ordered \cup {b} ELSE cur.ordered \ {b}
               R == IF ordered /\ b \notin cur.ordered /\ islogged(b)
                    THEN Append(cur.revoked, b) ELSE cur.revoked
    <2>1. L \in SUBSET Blocks /\ O \in SUBSET Blocks /\ R \in Seq(Blocks)
      BY LiveTypes DEF TransType
    <2>2. add_write(cur, b, ordered) = [cur EXCEPT !.logged = L, !.ordered = O, !.revoked = R]
      BY DEF add_write
    <2> HIDE DEF L, O, R
    <2>3. [cur EXCEPT !.logged = L, !.ordered = O, !.revoked = R] \in TransType
      BY <2>1, LiveTypes, TransUpdate
    <2>4. add_write(cur, b, ordered) \in TransType BY <2>2, <2>3
    <2> QED BY <2>4 DEF TypeOK, TransesType, Write
  <1>3. panic' \in {"none", "bad dnum", "add_write"} BY DEF Write, add_write_panic
  <1>4. KernelType' BY <1>3 DEF TypeOK, KernelType, Write
  <1>5. DiskType' /\ HistType'
    BY DEF TypeOK, DiskType, HistType, Write, diskVars, histVars
  <1> QED BY <1>1, <1>2, <1>4, <1>5 DEF TypeOK

LEMMA OpEndType == ASSUME TypeOK, NEW p \in Procs, Op_end(p) PROVE TypeOK'
  <1> DEFINE t    == [cur EXCEPT !.inprogress = cur.inprogress - 1]
             last == (isfull(t) \/ t.force) /\ iscommittable(t)
             comm == t.committing \/ last
             idle == [pc EXCEPT ![p] = "idle"]
  <1>1. ProcsType'
    <2>1. idle \in [Procs -> {"idle", "admit", "admitwait", "op", "force",
                              "stopforce", "stopping", "stopped"}]
      BY DEF TypeOK, ProcsType
    <2>2. pc' \in {idle, Broadcast(idle)} BY DEF Op_end
    <2>3. nw' = [nw EXCEPT ![p] = 0] /\ nops' = nops BY DEF Op_end
    <2>4. nw' \in [Procs -> 0 .. OpWrites] BY <2>3, LogAssumption DEF TypeOK, ProcsType
    <2> HIDE DEF idle
    <2> QED BY <2>1, <2>2, <2>3, <2>4, BroadcastType DEF TypeOK, ProcsType
  <1>2. TransesType'
    <2>1. t \in TransType
      <3>1. cur.inprogress - 1 \in Int BY LiveTypes DEF TransType
      <3> QED BY <3>1, LiveTypes, TransUpdate
    <2>2. comm \in BOOLEAN BY <2>1, LiveTypes, Zenon DEF TransType, iscommittable
    <2>3. trans' = [trans EXCEPT ![curtrans] = [t EXCEPT !.committing = comm]]
      BY DEF Op_end
    <2> HIDE DEF t, comm
    <2>4. [t EXCEPT !.committing = comm] \in TransType BY <2>1, <2>2, TransUpdate
    <2>5. curtrans' = curtrans /\ ct' = ct /\ early' = early /\ translog' = translog
      BY DEF Op_end
    <2> QED BY <2>3, <2>4, <2>5 DEF TypeOK, TransesType
  <1>3. KernelType'
    <2>1. cpc' \in {cpc, "wake"} /\ panic' \in {"none", "mark done"} BY DEF Op_end, Signal
    <2> QED BY <2>1 DEF TypeOK, KernelType, Op_end
  <1>4. DiskType' /\ HistType'
    BY DEF TypeOK, DiskType, HistType, Op_end, diskVars, histVars
  <1> QED BY <1>1, <1>2, <1>3, <1>4 DEF TypeOK

LEMMA ForceType ==
    ASSUME TypeOK, NEW p \in Procs, NEW doapply \in BOOLEAN, NEW stopping \in BOOLEAN,
           LogForce(p, doapply, stopping)
    PROVE  TypeOK'
  <1>1. ProcsType' BY DEF TypeOK, ProcsType, LogForce
  <1>2. TransesType'
    <2> DEFINE a == cur.forceapply \/ doapply
               c == cur.committing \/ iscommittable(cur)
               w == cur.waiters \cup {p}
    <2>1. a \in BOOLEAN /\ c \in BOOLEAN /\ w \in SUBSET Procs
      BY LiveTypes DEF TransType, iscommittable
    <2>2. forced(cur, p, doapply) = [cur EXCEPT !.force = TRUE, !.forceapply = a,
                                                !.committing = c, !.waiters = w]
      BY Zenon DEF forced
    <2> HIDE DEF a, c, w
    <2>3. [cur EXCEPT !.force = TRUE, !.forceapply = a, !.committing = c, !.waiters = w]
             \in TransType
      BY <2>1, LiveTypes, TransUpdate
    <2>4. forced(cur, p, doapply) \in TransType BY <2>2, <2>3, Zenon
    <2> QED BY <2>4 DEF TypeOK, TransesType, LogForce
  <1>3. KernelType'
    <2>1. cpc' \in {cpc, "wake"} BY DEF LogForce, Signal
    <2> QED BY <2>1 DEF TypeOK, KernelType, LogForce
  <1>4. DiskType' BY DEF TypeOK, DiskType, LogForce, diskVars
  <1>5. HistType'
    <2>1. promised.all \in Nat /\ cur.start \in Nat
      BY LiveTypes DEF TypeOK, HistType, TransType
    <2>2. Max({promised.all, cur.start}) \in Nat BY <2>1 DEF Max
    <2> QED BY <2>2 DEF TypeOK, HistType, LogForce
  <1> QED BY <1>1, <1>2, <1>3, <1>4, <1>5 DEF TypeOK

LEMMA StopType == ASSUME TypeOK, NEW p \in Procs, StopLog(p) PROVE TypeOK'
  <1>1. ProcsType' /\ TransesType'
    BY DEF TypeOK, ProcsType, TransesType, StopLog, transVars
  <1>2. KernelType' /\ DiskType' /\ HistType'
    BY DEF TypeOK, KernelType, DiskType, HistType, StopLog, Signal, diskVars, histVars
  <1> QED BY <1>1, <1>2 DEF TypeOK

LEMMA CommitterTopType == ASSUME TypeOK, CommitterExit \/ CommitterIdle PROVE TypeOK'
  <1>1. cpc' \in {"exited", "sleep", "run"} BY DEF CommitterExit, CommitterIdle, Bottom
  <1>2. UNCHANGED <<procVars, transVars, memlog, tail, stop, cache, diskVars, panic, histVars>>
    BY DEF CommitterExit, CommitterIdle
  <1>3. ProcsType' /\ TransesType'
    BY <1>2 DEF TypeOK, ProcsType, TransesType, procVars, transVars
  <1>4. KernelType' /\ DiskType' /\ HistType'
    BY <1>1, <1>2 DEF TypeOK, KernelType, DiskType, HistType, diskVars, histVars
  <1> QED BY <1>3, <1>4 DEF TypeOK

\* The number of blocks a transaction logs is a natural number.
LEMMA LoggedCount ==
    ASSUME NEW t \in TransType
    PROVE  /\ IsFiniteSet(t.logged) /\ Cardinality(t.logged) \in Nat
           /\ IsFiniteSet(t.ordered) /\ Cardinality(t.ordered) \in Nat
           /\ revokelen(t) \in 0 .. 1
  <1>1. IsFiniteSet(Blocks) BY LogAssumption, FS_Union DEF Blocks
  <1>2. t.logged \subseteq Blocks /\ t.ordered \subseteq Blocks BY DEF TransType
  <1> QED BY <1>1, <1>2, FS_Subset, FS_CardinalityType DEF revokelen

LEMMA TransHeadType == ASSUME NEW t \in TransType PROVE TransHead(t) \in Nat
  BY LoggedCount DEF TransHead, TransType

LEMMA CommitterStartType == ASSUME TypeOK, CommitterStart PROVE TypeOK'
  <1> DEFINE h == TransHead(cur)
             now == freespace(h, tail)
  <1>1. h \in Nat BY LiveTypes, TransHeadType
  <1>2. ProcsType' BY BroadcastType DEF TypeOK, ProcsType, CommitterStart
  <1>3. TransesType'
    <2>1. [cur EXCEPT !.head = h] \in TransType /\ mk_trans(h) \in TransType
      BY <1>1, LiveTypes, TransUpdate, TransConstruct
    <2>2. trans' = [i \in {0, 1} |-> IF i = curtrans THEN [cur EXCEPT !.head = h]
                                     ELSE IF now THEN mk_trans(h) ELSE trans[i]]
      BY Zenon DEF CommitterStart
    <2>3. trans' \in [{0, 1} -> TransType]
      <3> HIDE DEF h, now
      <3> QED BY <2>1, <2>2 DEF TypeOK, TransesType
    <2>4. [head |-> h, logged |-> cur.logged] \in [head : Nat, logged : SUBSET Blocks]
      BY <1>1, LiveTypes DEF TransType
    <2>5. translog' = translog \cup {[head |-> h, logged |-> cur.logged]}
      BY DEF CommitterStart
    <2>6. early' \in BOOLEAN BY DEF CommitterStart, freespace
    <2>7. ct' = curtrans /\ curtrans' \in {curtrans, 1 - curtrans} BY DEF CommitterStart
    <2> HIDE DEF h
    <2> QED BY <2>3, <2>4, <2>5, <2>6, <2>7 DEF TypeOK, TransesType
  <1>4. KernelType'
    <2>1. memlog' \in [Slots -> MemSlot] BY LiveTypes, CopyloggedType DEF CommitterStart
    <2>2. panic' \in {"none", "space"} /\ cpc' = "commit" /\ UNCHANGED <<tail, stop, cache>>
      BY DEF CommitterStart
    <2> QED BY <2>1, <2>2 DEF TypeOK, KernelType
  <1>5. DiskType' /\ HistType'
    BY DEF TypeOK, DiskType, HistType, CommitterStart, diskVars, histVars
  <1> QED BY <1>2, <1>3, <1>4, <1>5 DEF TypeOK

LEMMA DescriptorType == ASSUME TypeOK, NEW t \in TransType PROVE descriptor(t) \in Seq(Int)
  <1> DEFINE n == t.head - t.start
             word(k) == LET l == memlog[logindex(t.start + k - 1)]
                        IN  IF k = 1 THEN CommitBlk
                            ELSE IF l.type = DataBlk THEN l.block ELSE l.type
  <1>1. n \in Int /\ t.start \in Nat BY DEF TransType
  <1>2. ASSUME NEW k \in 1 .. n PROVE word(k) \in Int
    <2> HIDE DEF n
    <2>1. t.start + k - 1 \in Int BY <1>1
    <2>2. memlog[logindex(t.start + k - 1)] \in MemSlot
      BY <2>1, SlotType DEF TypeOK, KernelType
    <2> QED BY <2>2 DEF MemSlot, CommitBlk
  <1>3. descriptor(t) = [k \in 1 .. n |-> word(k)] BY DEF descriptor
  <1> HIDE DEF n, word
  <1>4. CASE n \in Nat BY <1>2, <1>3, <1>4
  <1>5. CASE n \notin Nat
    <2>1. 1 .. n = 1 .. 0 BY <1>1, <1>5
    <2>2. descriptor(t) = << >> BY <1>3, <2>1
    <2> QED BY <2>2
  <1> QED BY <1>4, <1>5

\* A slot that becomes a descriptor is a slot.
LEMMA SlotUpdate ==
    ASSUME NEW l \in MemSlot, NEW d \in Seq(Int)
    PROVE  [l EXCEPT !.type = CommitBlk, !.desc = d, !.data = NoVal] \in MemSlot
  <1>1. CommitBlk \in Int BY DEF CommitBlk
  <1>2. \A c \in Int, v \in Vals \cup {NoVal} :
            [l EXCEPT !.type = c, !.desc = d, !.data = v] \in MemSlot
    BY DEF MemSlot
  <1> QED BY <1>1, <1>2

LEMMA CommitWriteType == ASSUME TypeOK, CommitWrite PROVE TypeOK'
  <1>1. ProcsType' BY DEF TypeOK, ProcsType, CommitWrite, procVars
  <1>2. TransesType'
    <2>1. [com EXCEPT !.ordered = {}] \in TransType BY LiveTypes, TransUpdate
    <2>2. trans' = [trans EXCEPT ![ct] = [com EXCEPT !.ordered = {}]]
      BY DEF CommitWrite, com
    <2>3. curtrans' = curtrans /\ ct' = ct /\ early' = early /\ translog' = translog
      BY DEF CommitWrite
    <2> QED BY <2>1, <2>2, <2>3 DEF TypeOK, TransesType
  <1>3. com.start \in Nat /\ com.head \in Nat /\ com.ordered \subseteq Blocks
    BY LiveTypes DEF TransType
  <1>4. KernelType'
    <2>1. descriptor(com) \in Seq(Int) BY LiveTypes, DescriptorType
    <2>2. logindex(com.start) \in Slots BY <1>3, SlotType
    <2>3. memlog' = [memlog EXCEPT ![logindex(com.start)] =
                       [@ EXCEPT !.type = CommitBlk, !.desc = descriptor(com), !.data = NoVal]]
      BY DEF CommitWrite
    <2>4. memlog' \in [Slots -> MemSlot]
      <3> DEFINE old == memlog[logindex(com.start)]
                 new == [old EXCEPT !.type = CommitBlk, !.desc = descriptor(com), !.data = NoVal]
      <3>1. old \in MemSlot /\ memlog \in [Slots -> MemSlot]
        BY <2>2 DEF TypeOK, KernelType
      <3>2. new \in MemSlot BY <2>1, <3>1, SlotUpdate
      <3>3. memlog' = [memlog EXCEPT ![logindex(com.start)] = new] BY <2>3
      <3> HIDE DEF new
      <3> QED BY <2>2, <3>1, <3>2, <3>3
    <2>5. panic' \in {"none", "bad dnum", "commit runs into log start"} /\ cpc' = "ordered"
          /\ UNCHANGED <<tail, stop, cache>>
      BY DEF CommitWrite
    <2> QED BY <2>4, <2>5 DEF TypeOK, KernelType
  <1>5. DiskType'
    <2>1. wlog' = wlog \cup {logindex(i) : i \in com.start .. com.head - 1}
      BY DEF CommitWrite
    <2>2. \A i \in com.start .. com.head - 1 : logindex(i) \in Slots BY <1>3, SlotType
    <2>3. wlog' \subseteq Slots BY <2>1, <2>2 DEF TypeOK, DiskType
    <2> QED BY <1>3, <2>3 DEF TypeOK, DiskType, CommitWrite
  <1>6. HistType' BY <1>3 DEF TypeOK, HistType, CommitWrite
  <1> QED BY <1>1, <1>2, <1>4, <1>5, <1>6 DEF TypeOK

LEMMA TransferType == ASSUME TypeOK, NEW b \in Blocks, TransferOrdered(b) PROVE TypeOK'
  <1>1. ProcsType' /\ TransesType'
    BY DEF TypeOK, ProcsType, TransesType, TransferOrdered, procVars, transVars
  <1>2. KernelType' /\ HistType'
    BY DEF TypeOK, KernelType, HistType, TransferOrdered, histVars
  <1>3. DiskType' BY DEF TypeOK, KernelType, DiskType, TransferOrdered
  <1> QED BY <1>1, <1>2, <1>3 DEF TypeOK

\* A flush keeps the types of the disk, whatever header is cached after it.
LEMMA FlushStep ==
    ASSUME TypeOK, flush, whdr' \in Seq(Header), dma' = dma PROVE DiskType'
  <1>1. mhome' \in [Blocks -> Vals] /\ whome' \in [Blocks -> Vals \cup {NoVal}]
    BY FlushType DEF TypeOK, DiskType, flush
  <1>2. mlog' \in [Slots -> Page] /\ wlog' \subseteq Slots
    BY FlushType DEF TypeOK, DiskType, flush, Passed
  <1>3. mhdr' \in Header BY FlushType DEF TypeOK, DiskType, flush
  <1>4. stable' \in [Blocks -> Vals] BY <1>1, <1>2, <1>3, RecoveredType DEF flush
  <1> QED BY <1>1, <1>2, <1>3, <1>4 DEF TypeOK, DiskType

\* The ordered blocks of a commit stay blocks.
LEMMA OrdCommittedType == ASSUME TypeOK PROVE OrdCommitted \subseteq Blocks
  BY DEF TypeOK, HistType, OrdCommitted

LEMMA CommitFlushType == ASSUME TypeOK, CommitFlush \/ CommitHead PROVE TypeOK'
  <1>1. ProcsType' /\ TransesType'
    BY DEF TypeOK, ProcsType, TransesType, CommitFlush, CommitHead, procVars, transVars
  <1>2. KernelType' BY DEF TypeOK, KernelType, CommitFlush, CommitHead
  <1>3. HistType' BY OrdCommittedType DEF TypeOK, HistType, CommitFlush, CommitHead
  <1>4. com.head \in Nat BY LiveTypes DEF TransType
  <1>5. whdr' \in {<< >>, whdr, commit_head(com.head)} /\ dma' = dma /\ flush
    BY Zenon DEF CommitFlush, CommitHead, hdrleft
  <1>6. whdr \in Seq(Header) BY DEF TypeOK, DiskType
  <1>7. DiskType' BY <1>4, <1>5, <1>6, HeaderType, FlushType, FlushStep
  <1> QED BY <1>1, <1>2, <1>3, <1>7 DEF TypeOK

LEMMA CancelType == ASSUME TypeOK, NEW R PROVE cancel(R) \in [Slots -> MemSlot]
  <1>1. \A s \in Slots : memlog[s] \in MemSlot BY DEF TypeOK, KernelType
  <1>2. \A s \in Slots : [memlog[s] EXCEPT !.type = Canceled] \in MemSlot
    BY <1>1 DEF MemSlot, Canceled
  <1> DEFINE hit(s) == /\ memlog[s].block \in R
                       /\ \E i \in tail .. com.head - 1 : s = logindex(i)
             slot(s) == IF hit(s) THEN [memlog[s] EXCEPT !.type = Canceled] ELSE memlog[s]
  <1>3. cancel(R) = [s \in Slots |-> slot(s)] BY DEF cancel
  <1> HIDE DEF hit
  <1>4. \A s \in Slots : slot(s) \in MemSlot BY <1>1, <1>2
  <1> HIDE DEF slot
  <1> QED BY <1>3, <1>4

LEMMA CommitDoneType == ASSUME TypeOK, CommitDone PROVE TypeOK'
  <1>1. ProcsType' BY DEF TypeOK, ProcsType, CommitDone, forcedone
  <1>2. TransesType'
    <2>1. [com EXCEPT !.forcedone = TRUE, !.waiters = {}] \in TransType
      BY LiveTypes, TransUpdate
    <2>2. trans' = [trans EXCEPT ![ct] = [com EXCEPT !.forcedone = TRUE, !.waiters = {}]]
      BY DEF CommitDone, com
    <2>3. translog' \subseteq translog BY DEF CommitDone
    <2> QED BY <2>1, <2>2, <2>3 DEF TypeOK, TransesType, CommitDone
  <1>3. com.head \in Int /\ com.head \in Nat /\ tail \in Int
    <2>1. com.head \in Nat BY LiveTypes DEF TransType
    <2>2. tail \in Nat BY DEF TypeOK, KernelType
    <2> QED BY <2>1, <2>2
  <1>4. \A R : apply(cancel(R), tail, com.head, Blocks) \in [Blocks -> Vals \cup {NoVal}]
    BY <1>3, CancelType, ApplyType
  <1>5. memlog' \in [Slots -> MemSlot] /\ whome' \in [Blocks -> Vals \cup {NoVal}]
    <2>1. CASE Doapply /\ tail # com.head
      <3>1. PICK R : memlog' = cancel(R) /\ whome' = over(apply(cancel(R), tail, com.head, Blocks))
        BY <2>1 DEF CommitDone
      <3> DEFINE w == apply(cancel(R), tail, com.head, Blocks)
      <3>2. w \in [Blocks -> Vals \cup {NoVal}] /\ whome \in [Blocks -> Vals \cup {NoVal}]
        BY <1>4 DEF TypeOK, DiskType
      <3>3. whome' = over(w) BY <3>1
      <3> HIDE DEF w
      <3> QED BY <3>1, <3>2, <3>3, CancelType DEF over
    <2>2. CASE ~(Doapply /\ tail # com.head)
      BY <2>2 DEF TypeOK, KernelType, DiskType, CommitDone
    <2> QED BY <2>1, <2>2
  <1>6. KernelType'
    <2>1. cpc' \in {"apply", "finish"} BY DEF CommitDone
    <2> QED BY <1>5, <2>1 DEF TypeOK, KernelType, CommitDone
  <1>7. DiskType' BY <1>5 DEF TypeOK, DiskType, CommitDone
  <1>8. HistType'
    <2>1. Max({promised.wait, com.head}) \in Nat /\ Max({promised.all, com.head}) \in Nat
      BY <1>3 DEF TypeOK, HistType, Max
    <2> QED BY <2>1 DEF TypeOK, HistType, CommitDone
  <1> QED BY <1>1, <1>2, <1>6, <1>7, <1>8 DEF TypeOK

LEMMA ApplyStepType == ASSUME TypeOK, ApplyFlush \/ ApplyTail PROVE TypeOK'
  <1>1. com.head \in Nat BY LiveTypes DEF TransType
  <1>2. ProcsType' /\ TransesType'
    BY DEF TypeOK, ProcsType, TransesType, ApplyFlush, ApplyTail, procVars, transVars
  <1>3. KernelType' /\ HistType'
    BY <1>1 DEF TypeOK, KernelType, HistType, ApplyFlush, ApplyTail, histVars
  <1>4. whdr' \in {<< >>, whdr, commit_tail(com.head)} /\ dma' = dma /\ flush
    BY Zenon DEF ApplyFlush, ApplyTail, hdrleft
  <1>5. DiskType'
    <2>1. whdr \in Seq(Header) BY DEF TypeOK, DiskType
    <2> QED BY <1>1, <1>4, <2>1, HeaderType, FlushType, FlushStep
  <1> QED BY <1>2, <1>3, <1>5 DEF TypeOK

LEMMA FinishType == ASSUME TypeOK, CommitterFinish PROVE TypeOK'
  <1>1. mk_trans(com.head) \in TransType BY LiveTypes, TransConstruct DEF TransType
  <1>2. ProcsType' BY BroadcastType DEF TypeOK, ProcsType, CommitterFinish
  <1>3. TransesType' BY <1>1 DEF TypeOK, TransesType, CommitterFinish
  <1>4. KernelType'
    <2>1. cpc' \in {"sleep", "run"} BY DEF CommitterFinish, Bottom
    <2> QED BY <2>1 DEF TypeOK, KernelType, CommitterFinish
  <1>5. DiskType' /\ HistType'
    BY DEF TypeOK, DiskType, HistType, CommitterFinish, diskVars, histVars
  <1> QED BY <1>2, <1>3, <1>4, <1>5 DEF TypeOK

LEMMA CrashType == ASSUME TypeOK, Crash PROVE TypeOK'
  <1>1. ProcsType' BY LogAssumption DEF TypeOK, ProcsType, Crash
  <1>2. TransesType' BY TransConstruct DEF Crash, TransesType
  <1>3. KernelType'
    <2>1. NullSlot \in MemSlot BY DEF NullSlot, MemSlot, DataBlk
    <2> QED BY <2>1, LogAssumption DEF TypeOK, KernelType, Crash
  <1>4. DiskType'
    <2>1. mhome' \in [Blocks -> Vals] /\ mlog' \in [Slots -> Page] BY FlushType DEF Crash
    <2>2. mhdr' \in Header BY FlushType DEF Crash, TypeOK, DiskType
    <2>3. stable' \in [Blocks -> Vals] BY <2>1, <2>2, RecoveredType DEF Crash
    <2> QED BY <2>1, <2>2, <2>3, FlushType DEF DiskType, Crash
  <1>5. HistType'
    <2>1. ord' \in [com : SUBSET Blocks, last : SUBSET Blocks]
      BY OrdCommittedType DEF TypeOK, HistType, Crash
    <2> QED BY <2>1 DEF TypeOK, HistType, Crash
  <1> QED BY <1>1, <1>2, <1>3, <1>4, <1>5 DEF TypeOK

LEMMA StartLogType ==
    ASSUME TypeOK, NEW home \in [Blocks -> Vals], NEW hdr \in Header, StartLog(home, hdr),
           UNCHANGED <<curtrans, ct, early, translog, memlog, stop, panic>>
    PROVE  TransesType' /\ KernelType'
  <1>1. hdr.head \in Nat BY DEF Header
  <1>2. mk_trans(hdr.head) \in TransType BY <1>1, TransConstruct
  <1>3. TransesType' BY <1>2 DEF TypeOK, TransesType, StartLog
  <1> QED BY <1>1, <1>3 DEF TypeOK, KernelType, StartLog

LEMMA RecoverType == ASSUME TypeOK, Recover PROVE TypeOK'
  <1>1. ProcsType' /\ HistType'
    BY DEF TypeOK, ProcsType, HistType, Recover, procVars, histVars
  <1>2. mhdr \in Header /\ mhdr.head \in Nat /\ mhome \in [Blocks -> Vals]
        /\ mlog \in [Slots -> Page]
    BY DEF TypeOK, DiskType, Header
  <1>3. CASE mhdr.tail = mhdr.head
    <2>1. TransesType' /\ KernelType' BY <1>2, <1>3, StartLogType DEF Recover
    <2>2. DiskType' BY <1>3 DEF TypeOK, DiskType, Recover
    <2> QED BY <1>1, <2>1, <2>2 DEF TypeOK
  <1>4. CASE mhdr.tail # mhdr.head
    <2>1. TransesType' /\ KernelType' BY <1>4 DEF TypeOK, TransesType, KernelType, Recover
    <2>2. whome' \in [Blocks -> Vals \cup {NoVal}] /\ whdr' \in Seq(Header)
      BY <1>2, <1>4, InstallType, HeaderType DEF Recover
    <2>3. DiskType' BY <2>2 DEF TypeOK, DiskType, Recover
    <2> QED BY <1>1, <2>1, <2>3 DEF TypeOK
  <1> QED BY <1>3, <1>4

LEMMA RecoverFlushType == ASSUME TypeOK, RecoverFlush PROVE TypeOK'
  <1>1. ProcsType' /\ HistType'
    BY DEF TypeOK, ProcsType, HistType, RecoverFlush, procVars, histVars
  <1>2. TransesType' /\ KernelType' BY FlushType, StartLogType DEF RecoverFlush
  <1>3. whdr' \in Seq(Header) /\ dma' = dma /\ flush BY FlushType DEF RecoverFlush
  <1>4. DiskType' BY <1>3, FlushStep
  <1> QED BY <1>1, <1>2, <1>4 DEF TypeOK

LEMMA InitType == Init => TypeOK
  <1> SUFFICES ASSUME Init PROVE TypeOK
    OBVIOUS
  <1>1. ProcsType BY LogAssumption DEF Init, ProcsType
  <1>2. TransesType BY LogAssumption, TransConstruct DEF Init, TransesType
  <1>3. KernelType
    <2>1. NullSlot \in MemSlot BY DEF NullSlot, MemSlot, DataBlk
    <2> QED BY <2>1, LogAssumption DEF Init, KernelType
  <1>4. DiskType
    <2>1. NullPage \in Page /\ NoWrites \in [Blocks -> Vals \cup {NoVal}]
      BY DEF NullPage, Page, NoWrites
    <2> QED BY <2>1, LogAssumption DEF Init, DiskType, Header
  <1>5. HistType BY DEF Init, HistType
  <1> QED BY <1>1, <1>2, <1>3, <1>4, <1>5 DEF TypeOK

\* Every step keeps the types.
LEMMA NextType == TypeOK /\ [Next]_vars => TypeOK'
  <1> SUFFICES ASSUME TypeOK, [Next]_vars PROVE TypeOK'
    OBVIOUS
  <1>1. CASE \E p \in Procs : Fs(p)
    <2>1. PICK p \in Procs : Fs(p) BY <1>1
    <2>2. \A b \in LogBlks \cup OrdBlks : b \in Blocks BY DEF Blocks
    <2> QED BY <2>1, <2>2, OpBeginType, WriteType, OpEndType, ForceType, StopType DEF Fs
  <1>2. CASE Committer
    BY <1>2, CommitterTopType, CommitterStartType, CommitWriteType, TransferType,
       CommitFlushType, CommitDoneType, ApplyStepType, FinishType, RecoverType,
       RecoverFlushType DEF Committer
  <1>3. CASE Crash BY <1>3, CrashType
  <1>4. CASE UNCHANGED vars
    <2>1. ProcsType' /\ TransesType'
      BY <1>4 DEF vars, procVars, transVars, TypeOK, ProcsType, TransesType
    <2>2. KernelType' /\ DiskType' /\ HistType'
      BY <1>4 DEF vars, diskVars, histVars, TypeOK, KernelType, DiskType, HistType
    <2> QED BY <2>1, <2>2 DEF TypeOK
  <1> QED BY <1>1, <1>2, <1>3, <1>4 DEF Next

\* Type correctness of the journal: whatever the interleaving of threads,
\* committer, crashes and recoveries, the transactions, the in-memory log, the
\* header and the disk keep their shapes; in particular recovery and apply only
\* ever read slots that exist and write blocks with contents some thread wrote.
THEOREM TypeCorrect == Spec => []TypeOK
  BY InitType, NextType, PTL DEF Spec

(***************************************************************************)
(* LogInv: the log's bookkeeping.  The assumption OpWrites < MaxBlkPerOp   *)
(* is needed: admission counts one word too few (DescriptorFits).          *)
(***************************************************************************)
LEMMA MulBound ==
    ASSUME NEW n \in Nat, NEW a \in Nat, NEW b \in Nat, a < b
    PROVE  (n + 1) * a <= n * b + b - 1
  <1>1. PICK d \in Nat : b = a + 1 + d
    <2>1. b - a - 1 \in Nat /\ b = a + 1 + (b - a - 1)
      OBVIOUS
    <2> QED BY <2>1
  <1>2. n * d \in Nat /\ n * a \in Nat
    OBVIOUS
  <1>3. n * b = n * a + n + n * d BY <1>1
  <1>4. (n + 1) * a = n * a + a
    OBVIOUS
  <1> QED BY <1>1, <1>2, <1>3, <1>4

\* The words that the operations in A may still need are finitely many.
LEMMA ReservedBound ==
    ASSUME NEW A \in SUBSET Procs, NEW R \in SUBSET (A \X (1 .. OpWrites))
    PROVE  /\ IsFiniteSet(A) /\ Cardinality(A) \in Nat
           /\ IsFiniteSet(R) /\ Cardinality(R) \in Nat
           /\ Cardinality(R) <= Cardinality(A) * OpWrites
  <1>1. IsFiniteSet(A) /\ Cardinality(A) \in Nat
    BY LogAssumption, FS_Subset, FS_CardinalityType
  <1>2. IsFiniteSet(1 .. OpWrites) /\ Cardinality(1 .. OpWrites) = OpWrites
    BY LogAssumption, FS_Interval
  <1>3. /\ IsFiniteSet(A \X (1 .. OpWrites))
        /\ Cardinality(A \X (1 .. OpWrites)) = Cardinality(A) * OpWrites
    BY <1>1, <1>2, FS_Product
  <1>4. IsFiniteSet(R) /\ Cardinality(R) <= Cardinality(A \X (1 .. OpWrites))
    BY <1>3, FS_Subset
  <1>5. Cardinality(R) \in Nat BY <1>4, FS_CardinalityType
  <1> QED BY <1>1, <1>3, <1>4, <1>5

LEMMA ReservedCount ==
    /\ IsFiniteSet(Active) /\ Cardinality(Active) \in Nat
    /\ IsFiniteSet(Reserved) /\ Cardinality(Reserved) \in Nat
    /\ Cardinality(Reserved) <= Cardinality(Active) * OpWrites
    /\ Cardinality(Active') \in Nat /\ Cardinality(Reserved') \in Nat
    /\ Cardinality(Reserved') <= Cardinality(Active') * OpWrites
  <1>1. Active \in SUBSET Procs /\ Reserved \in SUBSET (Active \X (1 .. OpWrites))
    BY DEF Active, Reserved
  <1>2. Active' \in SUBSET Procs /\ Reserved' \in SUBSET (Active' \X (1 .. OpWrites))
    BY DEF Active, Reserved
  <1> QED BY <1>1, <1>2, ReservedBound

LEMMA ReservedEmpty == ASSUME Active = {} PROVE Cardinality(Reserved) = 0
  <1>1. Reserved = {} BY DEF Reserved
  <1> QED BY <1>1, FS_EmptySet

\* A log that has no room for another transaction is half full.
LEMMA FullIsHalfFull ==
    ASSUME NEW h \in Nat, NEW tl \in Nat, ~freespace(h, tl)
    PROVE  almosthalffull(tl, h) /\ tl # h
  <1>1. loglen - (h - tl) < maxtrans BY Geometry DEF freespace, space
  <1>2. h - tl >= loglen \div 2 BY <1>1, Geometry
  <1>3. MaxBlkPerOp \in Nat BY LogAssumption
  <1> QED BY <1>1, <1>2, <1>3, Geometry DEF almosthalffull

\* The invariant depends only on these parts of the state.
Same ==
    /\ curtrans' = curtrans /\ ct' = ct /\ early' = early /\ tail' = tail
    /\ \A i \in {0, 1} :
          /\ trans'[i].start = trans[i].start /\ trans'[i].head = trans[i].head
          /\ trans'[i].committing = trans[i].committing
          /\ trans'[i].inprogress = trans[i].inprogress
          /\ trans'[i].logged = trans[i].logged /\ trans'[i].revoked = trans[i].revoked

LEMMA SameCount ==
    ASSUME TypeOK, Same, CountInv, SizeInv, Active' = Active, nw' = nw
    PROVE  CountInv' /\ SizeInv'
  <1>1. Reserved' = Reserved BY DEF Reserved
  <1>2. /\ cur'.inprogress = cur.inprogress /\ cur'.committing = cur.committing
        /\ cur'.logged = cur.logged /\ cur'.revoked = cur.revoked
    BY DEF Same, cur, TypeOK, TransesType
  <1>3. CountInv' BY <1>2 DEF CountInv
  <1>4. SizeInv' BY <1>1, <1>2 DEF SizeInv, revokelen
  <1> QED BY <1>3, <1>4

LEMMA SameSpace ==
    ASSUME TypeOK, Same, SpaceInv,
           \/ cpc' = cpc
           \/ cpc' \notin Committing /\ cpc \notin Committing
           \/ cpc' \in Committing \ {"finish"} /\ cpc \in Committing \ {"finish"}
    PROVE  SpaceInv'
  <1>1. /\ cur'.start = cur.start /\ cur'.head = cur.head
        /\ com'.start = com.start /\ com'.head = com.head
        /\ com'.committing = com.committing
    BY DEF Same, cur, com, TypeOK, TransesType
  <1>2. tail' = tail /\ early' = early /\ curtrans' = curtrans /\ ct' = ct BY DEF Same
  <1>3. Open(cur)' = Open(cur) BY <1>1, <1>2 DEF Open, freespace, space
  <1>4. freespace(com.head, tail)' = freespace(com.head, tail)
    BY <1>1, <1>2 DEF freespace, space
  <1> QED BY <1>1, <1>2, <1>3, <1>4 DEF SpaceInv

LEMMA WaitKept ==
    ASSUME TypeOK, WaitInv, NEW p, p \notin trans[0].waiters \cup trans[1].waiters,
           \A i \in {0, 1} : trans'[i].waiters = trans[i].waiters,
           NEW v, pc' = [pc EXCEPT ![p] = v] \/ pc' = pc
    PROVE  WaitInv'
  <1>1. trans[0].waiters \cup trans[1].waiters \subseteq Procs
    BY DEF TypeOK, TransesType, TransType
  <1>2. \A q \in trans[0].waiters \cup trans[1].waiters : pc'[q] = pc[q]
    BY <1>1 DEF TypeOK, ProcsType
  <1> QED BY <1>2 DEF WaitInv

LEMMA OpBeginInv ==
    ASSUME OpWrites < MaxBlkPerOp, TypeOK, TypeOK', LogInv, NEW p \in Procs, Op_begin(p)
    PROVE  LogInv'
  <1>1. /\ panic = "none" /\ cpc' = cpc /\ panic' = panic /\ curtrans' = curtrans /\ ct' = ct
        /\ early' = early /\ tail' = tail /\ pc[p] \in {"idle", "admit"} /\ ~Down
    BY DEF Op_begin, Running, LockFree, Down
  <1>2. p \notin Active /\ p \notin trans[0].waiters \cup trans[1].waiters
    BY <1>1 DEF Active, LogInv, WaitInv
  <1>3. DownInv' BY <1>1 DEF DownInv, Down
  <1>4. CASE isfull(cur) \/ cur.committing
    <2>1. pc' = [pc EXCEPT ![p] = "admitwait"] /\ trans' = trans /\ nw' = nw
      BY <1>4 DEF Op_begin
    <2>2. Active' = Active BY <1>2, <2>1 DEF Active, TypeOK, ProcsType
    <2>3. Same BY <1>1, <2>1 DEF Same
    <2>4. CountInv' /\ SizeInv' /\ SpaceInv'
      BY <1>1, <2>1, <2>2, <2>3, SameCount, SameSpace DEF LogInv
    <2>5. WaitInv' BY <1>2, <2>1, WaitKept DEF LogInv
    <2> QED BY <1>1, <1>3, <2>4, <2>5 DEF LogInv
  <1>5. CASE ~(isfull(cur) \/ cur.committing)
    <2>1. /\ pc' = [pc EXCEPT ![p] = "op"]
          /\ trans' = [trans EXCEPT ![curtrans] =
                         [cur EXCEPT !.inprogress = cur.inprogress + 1]]
      BY <1>5 DEF Op_begin, cur
    <2>2. Active' = Active \cup {p} BY <2>1 DEF Active, TypeOK, ProcsType
    <2>3. Cardinality(Active') = Cardinality(Active) + 1
      BY <1>2, <2>2, ReservedCount, FS_AddElement
    <2>4. cur' = [cur EXCEPT !.inprogress = cur.inprogress + 1]
      BY <1>1, <2>1 DEF cur, TypeOK, TransesType
    <2>5. /\ cur'.inprogress = cur.inprogress + 1 /\ cur'.committing = cur.committing
          /\ cur'.logged = cur.logged /\ cur'.revoked = cur.revoked
      BY <2>4, LiveTypes DEF TransType
    <2>6. CountInv' BY <1>5, <2>3, <2>5 DEF LogInv, CountInv
    <2>7. SizeInv'
      <3> DEFINE n == Cardinality(Active)
                 r == Cardinality(cur.logged) + revokelen(cur)
      <3>1. n \in Nat /\ cur.inprogress = n /\ r \in Nat
        <4>1. n \in Nat /\ cur.inprogress = n BY ReservedCount DEF LogInv, CountInv
        <4>2. cur \in TransType BY LiveTypes
        <4>3. r \in Nat BY <4>2, LoggedCount
        <4> QED BY <4>1, <4>3
      <3>2. r + n * MaxBlkPerOp + MaxBlkPerOp < maxtrans
        <4>1. ~iscommitdescriptorfull(cur) BY <1>5 DEF isfull
        <4>2. r + n * MaxBlkPerOp + MaxBlkPerOp \in Int BY <3>1, LogAssumption
        <4> QED BY <3>1, <4>1, <4>2, Geometry DEF iscommitdescriptorfull
      <3>3. Cardinality(Reserved') <= (n + 1) * OpWrites /\ Cardinality(Reserved') \in Nat
        BY <2>3, ReservedCount
      <3>4. (n + 1) * OpWrites <= n * MaxBlkPerOp + MaxBlkPerOp - 1
        BY <3>1, MulBound, LogAssumption
      <3>5. (n + 1) * OpWrites \in Nat /\ n * MaxBlkPerOp \in Nat /\ MaxBlkPerOp \in Nat
        BY <3>1, LogAssumption
      <3>6. r + Cardinality(Reserved') <= maxtrans - 2
        <4> HIDE DEF n, r
        <4> QED BY <3>1, <3>2, <3>3, <3>4, <3>5, Geometry
      <3> QED BY <2>5, <3>6 DEF SizeInv, revokelen
    <2>8. SpaceInv'
      <3>1. /\ cur'.start = cur.start /\ cur'.head = cur.head
            /\ com'.start = com.start /\ com'.head = com.head
            /\ com'.committing = com.committing
        BY <1>1, <2>1, LiveTypes DEF cur, com, TransType, TypeOK, TransesType
      <3>2. Open(cur)' = Open(cur) /\ freespace(com.head, tail)' = freespace(com.head, tail)
        BY <1>1, <3>1 DEF Open, freespace, space
      <3> QED BY <1>1, <3>1, <3>2 DEF LogInv, SpaceInv
    <2>9. WaitInv'
      <3>1. \A i \in {0, 1} : trans'[i].waiters = trans[i].waiters
        BY <2>1, LiveTypes DEF cur, TransType, TypeOK, TransesType
      <3> QED BY <1>2, <2>1, <3>1, WaitKept DEF LogInv
    <2> QED BY <1>1, <1>3, <2>6, <2>7, <2>8, <2>9 DEF LogInv
  <1> QED BY <1>4, <1>5

\* A write logs at most one word more: the block, or the first revoke block.
LEMMA AddWriteSize ==
    ASSUME NEW t \in TransType, NEW b \in Blocks, NEW ordered \in BOOLEAN,
           NEW new, new = add_write(t, b, ordered)
    PROVE  /\ Cardinality(new.logged) \in Nat /\ revokelen(new) \in Nat
           /\ Cardinality(new.logged) + revokelen(new)
                 <= Cardinality(t.logged) + revokelen(t) + 1
  <1>1. IsFiniteSet(t.logged) /\ Cardinality(t.logged) \in Nat /\ revokelen(t) \in 0 .. 1
    BY LoggedCount
  <1>2. CASE ordered
    <2>1. new.logged = t.logged \ {b} BY <1>2 DEF add_write, TransType
    <2>2. Cardinality(new.logged) <= Cardinality(t.logged) /\ Cardinality(new.logged) \in Nat
      BY <1>1, <2>1, FS_Subset, FS_CardinalityType
    <2>3. revokelen(new) \in 0 .. 1 BY DEF revokelen
    <2> QED BY <1>1, <2>2, <2>3
  <1>3. CASE ~ordered
    <2>1. new.logged = t.logged \cup {b} /\ new.revoked = t.revoked
      BY <1>3 DEF add_write, TransType
    <2>2. /\ IsFiniteSet(t.logged \cup {b})
          /\ Cardinality(t.logged \cup {b}) \in {Cardinality(t.logged), Cardinality(t.logged) + 1}
      BY <1>1, FS_AddElement
    <2>3. revokelen(new) = revokelen(t) BY <2>1 DEF revokelen
    <2> QED BY <1>1, <2>1, <2>2, <2>3
  <1> QED BY <1>2, <1>3

LEMMA WriteInv ==
    ASSUME TypeOK, LogInv, NEW p \in Procs, NEW b \in Blocks, NEW v \in Vals,
           NEW ordered \in BOOLEAN, Write(p, b, v, ordered)
    PROVE  LogInv'
  <1> DEFINE new == add_write(cur, b, ordered)
  <1>1. /\ pc' = pc /\ cpc' = cpc /\ curtrans' = curtrans /\ ct' = ct /\ early' = early
        /\ tail' = tail /\ pc[p] = "op" /\ nw[p] < OpWrites
        /\ trans' = [trans EXCEPT ![curtrans] = new] /\ nw' = [nw EXCEPT ![p] = nw[p] + 1]
    BY DEF Write
  <1>2. panic' \notin {"space", "mark done", "commit runs into log start"}
    BY DEF Write, add_write_panic
  <1>3. cur \in TransType BY LiveTypes
  <1>4. /\ new.start = cur.start /\ new.head = cur.head /\ new.committing = cur.committing
        /\ new.inprogress = cur.inprogress /\ new.waiters = cur.waiters
    BY <1>3 DEF add_write, TransType
  <1>5. cur' = new BY <1>1 DEF cur, TypeOK, TransesType
  <1>6. Active' = Active BY <1>1 DEF Active
  <1>7. CountInv' BY <1>4, <1>5, <1>6 DEF LogInv, CountInv
  <1>8. SizeInv'
    <2>1. Reserved' = Reserved \ {<<p, nw[p] + 1>>}
      <3>1. \A q \in Active : nw'[q] = IF q = p THEN nw[p] + 1 ELSE nw[q]
        BY <1>1 DEF Active, TypeOK, ProcsType
      <3>2. \A q \in Active : nw[q] \in Nat /\ p \in Active
        BY <1>1, LogAssumption DEF Active, TypeOK, ProcsType
      <3>3. Reserved' = {r \in Active \X (1 .. OpWrites) : nw'[r[1]] < r[2]}
        BY <1>6 DEF Reserved
      <3>4. \A r \in Active \X (1 .. OpWrites) :
               nw'[r[1]] < r[2] <=> nw[r[1]] < r[2] /\ r # <<p, nw[p] + 1>>
        <4> SUFFICES ASSUME NEW q \in Active, NEW k \in 1 .. OpWrites
                     PROVE  nw'[q] < k <=> nw[q] < k /\ <<q, k>> # <<p, nw[p] + 1>>
          OBVIOUS
        <4> QED BY <3>1, <3>2
      <3> HIDE DEF new
      <3> QED BY <3>3, <3>4 DEF Reserved
    <2>2. <<p, nw[p] + 1>> \in Reserved
      BY <1>1, LogAssumption DEF Reserved, Active, TypeOK, ProcsType
    <2>3. Cardinality(Reserved') = Cardinality(Reserved) - 1
      BY <2>1, <2>2, ReservedCount, FS_RemoveElement
    <2>4. /\ Cardinality(new.logged) + revokelen(new)
                <= Cardinality(cur.logged) + revokelen(cur) + 1
          /\ Cardinality(new.logged) \in Nat /\ revokelen(new) \in Nat
      BY <1>3, AddWriteSize
    <2>5. Cardinality(cur.logged) \in Nat /\ revokelen(cur) \in Nat BY <1>3, LoggedCount
    <2>7. Cardinality(cur.logged) + revokelen(cur) + Cardinality(Reserved) <= maxtrans - 2
      BY DEF LogInv, SizeInv
    <2>8. Cardinality(new.logged) + revokelen(new) + Cardinality(Reserved') <= maxtrans - 2
      <3> HIDE DEF new
      <3> QED BY <2>3, <2>4, <2>5, <2>7, ReservedCount, Geometry
    <2> QED BY <1>5, <2>8 DEF SizeInv, revokelen
  <1>9. SpaceInv' /\ WaitInv'
    <2> HIDE DEF new
    <2>1. /\ cur'.start = cur.start /\ cur'.head = cur.head
          /\ com'.start = com.start /\ com'.head = com.head
          /\ com'.committing = com.committing
          /\ \A i \in {0, 1} : trans'[i].waiters = trans[i].waiters
      BY <1>1, <1>4 DEF cur, com, TypeOK, TransesType
    <2>2. Open(cur)' = Open(cur) /\ freespace(com.head, tail)' = freespace(com.head, tail)
      BY <1>1, <2>1 DEF Open, freespace, space
    <2>3. SpaceInv' BY <1>1, <2>1, <2>2 DEF LogInv, SpaceInv
    <2>4. WaitInv' BY <1>1, <2>1 DEF LogInv, WaitInv
    <2> QED BY <2>3, <2>4
  <1>10. DownInv' BY <1>1 DEF LogInv, DownInv, Down
  <1> QED BY <1>2, <1>7, <1>8, <1>9, <1>10 DEF LogInv

LEMMA OpEndInv ==
    ASSUME TypeOK, LogInv, NEW p \in Procs, Op_end(p) PROVE LogInv'
  <1> DEFINE t    == [cur EXCEPT !.inprogress = cur.inprogress - 1]
             last == (isfull(t) \/ t.force) /\ iscommittable(t)
             comm == t.committing \/ last
             idle == [pc EXCEPT ![p] = "idle"]
  <1>1. /\ pc[p] = "op" /\ pc' \in {idle, Broadcast(idle)} /\ cpc' \in {cpc, Signal}
        /\ trans' = [trans EXCEPT ![curtrans] = [t EXCEPT !.committing = comm]]
        /\ curtrans' = curtrans /\ ct' = ct /\ early' = early /\ tail' = tail
        /\ nw' = [nw EXCEPT ![p] = 0]
        /\ panic' = IF cur.inprogress = 0 THEN "mark done" ELSE "none"
    BY DEF Op_end
  <1>2. ~Down /\ (cpc' = cpc \/ (cpc = "sleep" /\ cpc' = "wake"))
    BY <1>1 DEF Op_end, Running, LockFree, Down, Signal
  <1>3. cur \in TransType /\ cur.inprogress = Cardinality(Active)
    BY LiveTypes DEF LogInv, CountInv
  <1>4. /\ t.start = cur.start /\ t.head = cur.head /\ t.inprogress = cur.inprogress - 1
        /\ t.logged = cur.logged /\ t.revoked = cur.revoked /\ t.waiters = cur.waiters
        /\ t.committing = cur.committing /\ t \in TransType
    BY <1>3 DEF TransType
  <1>5. p \in Active /\ Active' = Active \ {p}
    BY <1>1 DEF Active, Broadcast, TypeOK, ProcsType
  <1>6. Cardinality(Active') = Cardinality(Active) - 1 /\ cur.inprogress >= 1
    <2>1. Cardinality(Active \ {p}) = Cardinality(Active) - 1
      BY <1>5, ReservedCount, FS_RemoveElement
    <2>2. Cardinality(Active') \in Nat /\ Cardinality(Active) \in Nat BY ReservedCount
    <2> QED BY <1>3, <1>5, <2>1, <2>2
  <1>7. panic' = "none" /\ ~cur.committing
    <2>1. cur.inprogress # 0 BY <1>3, <1>6 DEF TransType
    <2> QED BY <1>1, <2>1 DEF LogInv, CountInv
  <1>8. comm => t.inprogress = 0 BY <1>4, <1>7 DEF iscommittable
  <1> HIDE DEF t, comm
  <1>9. cur' = [t EXCEPT !.committing = comm] BY <1>1 DEF cur, TypeOK, TransesType
  <1>10. /\ cur'.inprogress = cur.inprogress - 1 /\ cur'.committing = comm
         /\ cur'.logged = cur.logged /\ cur'.revoked = cur.revoked
    BY <1>4, <1>9 DEF TransType
  <1>11. CountInv' BY <1>3, <1>4, <1>6, <1>8, <1>10 DEF CountInv
  <1>12. SizeInv'
    <2>1. Reserved' \subseteq Reserved
      <3>1. \A q \in Active' : q \in Active /\ nw'[q] = nw[q]
        BY <1>1, <1>5 DEF Active, TypeOK, ProcsType
      <3> QED BY <3>1 DEF Reserved
    <2>2. Cardinality(Reserved') <= Cardinality(Reserved)
      BY <2>1, ReservedCount, FS_Subset
    <2>3. Cardinality(cur.logged) \in Nat /\ revokelen(cur) \in Nat BY <1>3, LoggedCount
    <2>4. Cardinality(cur.logged) + revokelen(cur) + Cardinality(Reserved) <= maxtrans - 2
      BY DEF LogInv, SizeInv
    <2>5. Cardinality(cur.logged) + revokelen(cur) + Cardinality(Reserved') <= maxtrans - 2
      BY <2>2, <2>3, <2>4, ReservedCount, Geometry
    <2> QED BY <1>10, <2>5 DEF SizeInv, revokelen
  <1>13. SpaceInv'
    <2>1. /\ cur'.start = cur.start /\ cur'.head = cur.head
          /\ com'.start = com.start /\ com'.head = com.head
          /\ com.committing => com'.committing
      BY <1>1, <1>4, <1>7 DEF cur, com, TypeOK, TransesType, TransType
    <2>2. Open(cur)' = Open(cur) /\ freespace(com.head, tail)' = freespace(com.head, tail)
      BY <1>1, <2>1 DEF Open, freespace, space
    <2> QED BY <1>1, <1>2, <2>1, <2>2 DEF LogInv, SpaceInv, Committing
  <1>14. WaitInv'
    <2>1. \A i \in {0, 1} : trans'[i].waiters = trans[i].waiters
      BY <1>1, <1>4 DEF cur, TypeOK, TransesType, TransType
    <2>2. \A q \in Procs : pc[q] \in {"force", "stopforce"} => pc'[q] = pc[q]
      BY <1>1 DEF Broadcast, TypeOK, ProcsType
    <2>3. trans[0].waiters \cup trans[1].waiters \subseteq Procs
      BY DEF TypeOK, TransesType, TransType
    <2> QED BY <2>1, <2>2, <2>3 DEF LogInv, WaitInv
  <1>15. DownInv' BY <1>2 DEF DownInv, Down
  <1> QED BY <1>7, <1>11, <1>12, <1>13, <1>14, <1>15 DEF LogInv

LEMMA ForceInv ==
    ASSUME TypeOK, LogInv, NEW p \in Procs, NEW doapply \in BOOLEAN, NEW stopping \in BOOLEAN,
           LogForce(p, doapply, stopping)
    PROVE  LogInv'
  <1>1. /\ pc[p] = "idle" /\ panic' = panic /\ curtrans' = curtrans /\ ct' = ct
        /\ early' = early /\ tail' = tail /\ nw' = nw /\ cpc' \in {cpc, Signal}
        /\ ~Down
    BY DEF LogForce, Running, LockFree, Down
  <1>2. cpc' = cpc \/ (cpc = "sleep" /\ cpc' = "wake") BY <1>1 DEF Signal
  <1>3. p \notin trans[0].waiters \cup trans[1].waiters BY <1>1 DEF LogInv, WaitInv
  <1>4. DownInv' BY <1>1, <1>2 DEF DownInv, Down
  <1>5. PICK st \in {"idle", "stopping", "force", "stopforce"} : pc' = [pc EXCEPT ![p] = st]
    BY DEF LogForce
  <1>6. Active' = Active BY <1>1, <1>5 DEF Active, TypeOK, ProcsType
  <1>7. Reserved' = Reserved BY <1>1, <1>6 DEF Reserved
  <1>8. CASE isempty(cur) \/ cur.forcedone
    <2>1. trans' = trans /\ cpc' = cpc BY <1>8 DEF LogForce
    <2>2. Same BY <1>1, <2>1 DEF Same
    <2>3. CountInv' /\ SizeInv' /\ SpaceInv'
      BY <1>1, <1>6, <2>1, <2>2, SameCount, SameSpace DEF LogInv
    <2>4. WaitInv' BY <1>3, <1>5, <2>1, WaitKept DEF LogInv
    <2> QED BY <1>1, <1>4, <2>3, <2>4 DEF LogInv
  <1>9. CASE ~(isempty(cur) \/ cur.forcedone)
    <2> DEFINE f == forced(cur, p, doapply)
    <2>1. /\ trans' = [trans EXCEPT ![curtrans] = f]
          /\ pc' = [pc EXCEPT ![p] = IF stopping THEN "stopforce" ELSE "force"]
      BY <1>9 DEF LogForce
    <2>2. cur \in TransType BY LiveTypes
    <2>3. /\ f.start = cur.start /\ f.head = cur.head /\ f.inprogress = cur.inprogress
          /\ f.logged = cur.logged /\ f.revoked = cur.revoked
          /\ f.waiters = cur.waiters \cup {p}
      BY <2>2 DEF forced, TransType
    <2>4. f.committing = (cur.committing \/ cur.inprogress = 0)
      BY <2>2 DEF forced, TransType, iscommittable
    <2> HIDE DEF f
    <2>5. cur' = f BY <1>1, <2>1 DEF cur, TypeOK, TransesType
    <2>6. CountInv' BY <1>6, <2>3, <2>4, <2>5 DEF LogInv, CountInv
    <2>7. SizeInv' BY <1>7, <2>3, <2>5 DEF LogInv, SizeInv, revokelen
    <2>8. SpaceInv'
      <3>1. /\ cur'.start = cur.start /\ cur'.head = cur.head
            /\ com'.start = com.start /\ com'.head = com.head
            /\ com.committing => com'.committing
        BY <1>1, <2>1, <2>3, <2>4 DEF cur, com, TypeOK, TransesType
      <3>2. Open(cur)' = Open(cur) /\ freespace(com.head, tail)' = freespace(com.head, tail)
        BY <1>1, <3>1 DEF Open, freespace, space
      <3> QED BY <1>1, <1>2, <3>1, <3>2 DEF LogInv, SpaceInv, Committing
    <2>9. WaitInv'
      <3>1. \A i \in {0, 1} : trans'[i].waiters \in {trans[i].waiters, trans[i].waiters \cup {p}}
        BY <1>1, <2>1, <2>3 DEF cur, TypeOK, TransesType
      <3>2. trans'[1 - curtrans].waiters = trans[1 - curtrans].waiters /\ curtrans \in {0, 1}
        BY <2>1 DEF TypeOK, TransesType
      <3>3. trans'[0].waiters \cap trans'[1].waiters = {}
        <4>1. trans[0].waiters \cap trans[1].waiters = {} BY DEF LogInv, WaitInv
        <4>2. CASE curtrans = 0 BY <1>3, <3>1, <3>2, <4>1, <4>2
        <4>3. CASE curtrans = 1 BY <1>3, <3>1, <3>2, <4>1, <4>3
        <4> QED BY <3>2, <4>2, <4>3
      <3>4. trans[0].waiters \cup trans[1].waiters \subseteq Procs
        BY DEF TypeOK, TransesType, TransType
      <3>5. \A q \in Procs : pc'[q] = IF q # p THEN pc[q]
                                      ELSE IF stopping THEN "stopforce" ELSE "force"
        BY <2>1 DEF TypeOK, ProcsType
      <3> QED BY <3>1, <3>3, <3>4, <3>5 DEF LogInv, WaitInv
    <2> QED BY <1>1, <1>4, <2>6, <2>7, <2>8, <2>9 DEF LogInv
  <1> QED BY <1>8, <1>9

LEMMA StopInv == ASSUME TypeOK, LogInv, NEW p \in Procs, StopLog(p) PROVE LogInv'
  <1>1. /\ pc[p] = "stopping" /\ pc' = [pc EXCEPT ![p] = "stopped"] /\ trans' = trans
        /\ panic' = panic /\ curtrans' = curtrans /\ ct' = ct /\ early' = early
        /\ tail' = tail /\ nw' = nw /\ cpc' = Signal /\ ~Down
    BY DEF StopLog, transVars, Running, LockFree, Down
  <1>2. cpc' = cpc \/ (cpc = "sleep" /\ cpc' = "wake") BY <1>1 DEF Signal
  <1>3. p \notin trans[0].waiters \cup trans[1].waiters BY <1>1 DEF LogInv, WaitInv
  <1>4. Active' = Active BY <1>1 DEF Active, TypeOK, ProcsType
  <1>5. Same BY <1>1 DEF Same
  <1>6. CountInv' /\ SizeInv' BY <1>1, <1>4, <1>5, SameCount DEF LogInv
  <1>7. SpaceInv' BY <1>2, <1>5, SameSpace DEF LogInv, Committing
  <1>8. WaitInv' BY <1>1, <1>3, WaitKept DEF LogInv
  <1>9. DownInv' BY <1>1, <1>2 DEF DownInv, Down
  <1> QED BY <1>1, <1>6, <1>7, <1>8, <1>9 DEF LogInv

\* The steps of the committer that touch none of the bookkeeping.
LEMMA QuietInv ==
    ASSUME TypeOK, LogInv,
           \/ CommitterExit \/ CommitterIdle \/ CommitWrite \/ CommitFlush \/ CommitHead
           \/ ApplyFlush \/ \E b \in Blocks : TransferOrdered(b)
    PROVE  LogInv'
  <1>1. pc' = pc /\ nw' = nw /\ curtrans' = curtrans /\ ct' = ct /\ early' = early /\ tail' = tail
    BY DEF CommitterExit, CommitterIdle, CommitWrite, CommitFlush, CommitHead, ApplyFlush,
           TransferOrdered, procVars, transVars
  <1>2. trans' = trans \/ trans' = [trans EXCEPT ![ct] = [com EXCEPT !.ordered = {}]]
    BY DEF CommitterExit, CommitterIdle, CommitWrite, CommitFlush, CommitHead, ApplyFlush,
           TransferOrdered, transVars, com
  <1>3. Same /\ \A i \in {0, 1} : trans'[i].waiters = trans[i].waiters
    <2>1. CASE trans' = trans BY <1>1, <2>1 DEF Same
    <2>2. CASE trans' = [trans EXCEPT ![ct] = [com EXCEPT !.ordered = {}]]
      <3>1. ct \in {0, 1} /\ trans \in [{0, 1} -> TransType]
        BY DEF TypeOK, TransesType, KernelType
      <3>2. \A i \in {0, 1} : trans'[i] = IF i = ct THEN [trans[i] EXCEPT !.ordered = {}] ELSE trans[i]
        BY <2>2, <3>1 DEF com
      <3>3. ASSUME NEW i \in {0, 1}
            PROVE  /\ trans'[i].start = trans[i].start /\ trans'[i].head = trans[i].head
                   /\ trans'[i].committing = trans[i].committing
                   /\ trans'[i].inprogress = trans[i].inprogress
                   /\ trans'[i].logged = trans[i].logged /\ trans'[i].revoked = trans[i].revoked
                   /\ trans'[i].waiters = trans[i].waiters
        <4>1. CASE i = ct
          <5>1. trans'[i] = [trans[i] EXCEPT !.ordered = {}] /\ trans[i] \in TransType
            BY <3>1, <3>2, <4>1
          <5> QED BY <5>1 DEF TransType
        <4>2. CASE i # ct BY <3>2, <4>2
        <4> QED BY <4>1, <4>2
      <3> QED BY <1>1, <3>3 DEF Same
    <2> QED BY <1>2, <2>1, <2>2
  <1>4. Active' = Active BY <1>1 DEF Active
  <1>5. CountInv' /\ SizeInv' BY <1>1, <1>3, <1>4, SameCount DEF LogInv
  <1>6. \/ cpc' = cpc
        \/ cpc' \notin Committing /\ cpc \notin Committing
        \/ cpc' \in Committing \ {"finish"} /\ cpc \in Committing \ {"finish"}
    BY DEF CommitterExit, CommitterIdle, Bottom, AtTop, CommitWrite, CommitFlush, CommitHead,
           ApplyFlush, TransferOrdered, Committing
  <1>7. SpaceInv' BY <1>3, <1>6, SameSpace DEF LogInv
  <1>8. WaitInv' BY <1>1, <1>3 DEF LogInv, WaitInv
  <1>9. DownInv'
    BY <1>1 DEF CommitterExit, CommitterIdle, Bottom, CommitWrite, CommitFlush, CommitHead,
           AtTop, ApplyFlush, TransferOrdered, DownInv, Down, LogInv
  <1>10. panic' \notin {"space", "mark done", "commit runs into log start"}
    <2>1. CASE CommitWrite
      <3>1. cpc = "commit" /\ tail \in Nat BY <2>1 DEF CommitWrite, TypeOK, KernelType
      <3>2. com.start \in Nat BY LiveTypes DEF TransType
      <3>3. tail <= com.start BY <3>1 DEF LogInv, SpaceInv, Committing
      <3>4. ~(tail > com.start) BY <3>1, <3>2, <3>3
      <3>5. panic' = IF com.start # com.head /\ tail > com.start
                     THEN "commit runs into log start"
                     ELSE IF com.head - com.start >= maxtrans THEN "bad dnum" ELSE "none"
        BY <2>1, Zenon DEF CommitWrite
      <3>6. panic' \in {"bad dnum", "none"} BY <3>4, <3>5, Zenon
      <3> QED BY <3>6
    <2>2. CASE ~CommitWrite
      BY <2>2 DEF LogInv, CommitterExit, CommitterIdle, CommitFlush, CommitHead, ApplyFlush,
                  TransferOrdered
    <2> QED BY <2>1, <2>2
  <1> QED BY <1>5, <1>7, <1>8, <1>9, <1>10 DEF LogInv

\* A fresh transaction meets the counting parts of the invariant.
LEMMA FreshCount ==
    ASSUME NEW n \in Nat, cur' = mk_trans(n), Active' = {}
    PROVE  CountInv' /\ SizeInv'
  <1>1. /\ cur'.inprogress = 0 /\ ~cur'.committing
        /\ cur'.logged = {} /\ cur'.revoked = << >>
    BY DEF mk_trans
  <1>2. Cardinality(Active') = 0 /\ Cardinality({}) = 0 BY FS_EmptySet
  <1>3. Cardinality(Reserved') = 0
    <2>1. Reserved' = {} BY DEF Reserved
    <2> QED BY <2>1, FS_EmptySet
  <1>4. CountInv' BY <1>1, <1>2 DEF CountInv
  <1>5. SizeInv' BY <1>1, <1>2, <1>3, Geometry, LogAssumption DEF SizeInv, revokelen
  <1> QED BY <1>4, <1>5

\* No operation is in progress in a transaction that commits.
LEMMA CommittingQuiet ==
    ASSUME TypeOK, LogInv, cur.committing PROVE Active = {}
  <1>1. Cardinality(Active) = 0 BY DEF LogInv, CountInv
  <1> QED BY <1>1, ReservedCount, FS_EmptySet

LEMMA CommitterStartInv == ASSUME TypeOK, TypeOK', LogInv, CommitterStart PROVE LogInv'
  <1> DEFINE h == TransHead(cur)
             now == freespace(h, tail)
  <1>1. /\ cpc' = "commit" /\ cpc \notin Committing /\ cur.committing /\ tail' = tail
        /\ early' = now /\ ct' = curtrans /\ nw' = nw
        /\ curtrans' = (IF now THEN 1 - curtrans ELSE curtrans)
        /\ pc' = (IF now THEN Broadcast(pc) ELSE pc)
        /\ panic' = (IF space(h, tail) < 0 THEN "space" ELSE "none")
    BY Zenon DEF CommitterStart, AtTop, Committing
  <1>2. trans' = [i \in {0, 1} |-> IF i = curtrans THEN [cur EXCEPT !.head = h]
                                   ELSE IF now THEN mk_trans(h) ELSE trans[i]]
    BY Zenon DEF CommitterStart
  <1>3. cur \in TransType /\ h \in Nat /\ tail \in Nat /\ curtrans \in {0, 1}
    BY LiveTypes, TransHeadType DEF TypeOK, KernelType, TransesType
  <1>4. /\ cur.start \in Nat /\ tail <= cur.start /\ freespace(cur.start, tail)
        /\ cur.head = cur.start + NCommitBlk
    BY <1>1, <1>3 DEF LogInv, SpaceInv, Open, TransType
  <1>5. cur.start <= h /\ h - cur.start < maxtrans
    <2>1. Cardinality(cur.logged) \in Nat /\ revokelen(cur) \in Nat BY <1>3, LoggedCount
    <2>2. Cardinality(cur.logged) + revokelen(cur) <= maxtrans - 2
      <3>1. Cardinality(cur.logged) + revokelen(cur) + Cardinality(Reserved) <= maxtrans - 2
        BY DEF LogInv, SizeInv
      <3> QED BY <2>1, <3>1, ReservedCount, Geometry
    <2> QED BY <1>4, <2>1, <2>2, Geometry DEF TransHead, NCommitBlk
  <1>6. tail <= h /\ h - tail <= loglen BY <1>3, <1>4, <1>5, Geometry DEF freespace, space
  <1> HIDE DEF h, now
  <1>7. panic' = "none" BY <1>1, <1>3, <1>6, Geometry DEF space
  <1>8. Active = {} /\ Active' = {}
    BY <1>1, CommittingQuiet DEF Active, Broadcast, TypeOK, ProcsType
  <1>9. com' = [cur EXCEPT !.head = h] BY <1>1, <1>2, <1>3 DEF com
  <1>10. com'.start = cur.start /\ com'.head = h /\ com'.committing
    BY <1>1, <1>3, <1>9 DEF TransType
  <1>11. CountInv' /\ SizeInv' /\ SpaceInv'
    <2>1. CASE now
      <3>1. cur' = mk_trans(h) /\ curtrans' = 1 - ct' BY <1>1, <1>2, <1>3, <2>1 DEF cur
      <3>2. CountInv' /\ SizeInv' BY <1>3, <1>8, <3>1, FreshCount
      <3>3. cur'.start = h /\ cur'.head = h + NCommitBlk BY <3>1 DEF mk_trans
      <3>4. Open(cur)' BY <1>1, <1>6, <2>1, <3>3 DEF Open, now
      <3>5. SpaceInv'
        BY <1>1, <1>4, <1>5, <1>6, <1>10, <2>1, <3>1, <3>3, <3>4 DEF SpaceInv, Committing
      <3> QED BY <3>2, <3>5
    <2>2. CASE ~now
      <3>1. cur' = com' /\ curtrans' = ct' BY <1>1, <2>2 DEF cur, com
      <3>2. /\ cur'.inprogress = cur.inprogress /\ cur'.committing = cur.committing
            /\ cur'.logged = cur.logged /\ cur'.revoked = cur.revoked
        BY <1>3, <1>9, <3>1 DEF TransType
      <3>3. Reserved' = Reserved BY <1>8 DEF Reserved
      <3>4. CountInv' BY <1>8, <3>2 DEF LogInv, CountInv
      <3>5. SizeInv' BY <3>2, <3>3 DEF LogInv, SizeInv, revokelen
      <3>6. SpaceInv'
        BY <1>1, <1>4, <1>5, <1>6, <1>10, <2>2, <3>1 DEF SpaceInv, Committing, now
      <3> QED BY <3>4, <3>5, <3>6
    <2> QED BY <2>1, <2>2
  <1>12. WaitInv'
    <2>1. \A i \in {0, 1} : trans'[i].waiters \in {trans[i].waiters, {}}
      BY <1>2, <1>3 DEF cur, TypeOK, TransesType, TransType, mk_trans
    <2>2. \A q \in Procs : pc[q] \in {"force", "stopforce"} => pc'[q] = pc[q]
      BY <1>1 DEF Broadcast
    <2>3. trans[0].waiters \cup trans[1].waiters \subseteq Procs
      BY DEF TypeOK, TransesType, TransType
    <2> QED BY <2>1, <2>2, <2>3 DEF LogInv, WaitInv
  <1>13. DownInv' BY <1>1 DEF DownInv, Down
  <1> QED BY <1>7, <1>11, <1>12, <1>13 DEF LogInv

LEMMA CommitDoneInv == ASSUME TypeOK, LogInv, CommitDone PROVE LogInv'
  <1>1. /\ cpc = "committed" /\ cpc' \in {"apply", "finish"} /\ pc' = forcedone /\ nw' = nw
        /\ curtrans' = curtrans /\ ct' = ct /\ early' = early /\ tail' = tail /\ panic' = panic
        /\ trans' = [trans EXCEPT ![ct] = [com EXCEPT !.forcedone = TRUE, !.waiters = {}]]
    BY DEF CommitDone, com
  <1>2. com \in TransType /\ ct \in {0, 1} /\ com = trans[ct] /\ tail \in Nat /\ com.head \in Nat
    BY LiveTypes DEF com, TypeOK, TransesType, KernelType, TransType
  <1>3. Same BY <1>1, <1>2 DEF Same, TypeOK, TransesType, TransType
  <1>4. trans'[ct].waiters = {} /\ trans'[1 - ct].waiters = trans[1 - ct].waiters
    BY <1>1, <1>2 DEF TypeOK, TransesType, TransType
  <1>5. \A q \in Procs : q \notin trans[ct].waiters => pc'[q] = pc[q]
    BY <1>1, <1>2 DEF forcedone
  <1>6. \A q \in Procs : q \in trans[ct].waiters => pc[q] # "op" /\ pc'[q] # "op"
    <2>1. \A q \in trans[ct].waiters : pc[q] \in {"force", "stopforce"}
      BY <1>2 DEF LogInv, WaitInv
    <2> QED BY <1>1, <1>2, <2>1 DEF forcedone
  <1>7. Active' = Active BY <1>5, <1>6 DEF Active
  <1>8. CountInv' /\ SizeInv' BY <1>1, <1>3, <1>7, SameCount DEF LogInv
  <1>9. SpaceInv'
    <2>1. CASE cpc' = "apply" BY <1>1, <1>3, <2>1, SameSpace DEF LogInv, Committing
    <2>2. CASE cpc' = "finish"
      <3>1. ~(Doapply /\ tail # com.head) BY <2>2 DEF CommitDone
      <3>2. ~early => ~freespace(com.head, tail) BY <1>1 DEF LogInv, SpaceInv, Committing
      <3>3. early BY <1>2, <3>1, <3>2, FullIsHalfFull DEF Doapply
      <3>4. /\ cur'.start = cur.start /\ cur'.head = cur.head
            /\ com'.start = com.start /\ com'.head = com.head
        BY <1>3 DEF Same, cur, com, TypeOK, TransesType
      <3>5. Open(cur)' = Open(cur) BY <1>1, <3>4 DEF Open, freespace, space
      <3> QED BY <1>1, <2>2, <3>3, <3>4, <3>5 DEF LogInv, SpaceInv, Committing
    <2> QED BY <1>1, <2>1, <2>2
  <1>10. WaitInv'
    <2>1. trans[0].waiters \cap trans[1].waiters = {} BY DEF LogInv, WaitInv
    <2>2. \A q \in trans[1 - ct].waiters : q \in Procs /\ pc[q] \in {"force", "stopforce"}
      <3>1. \A i \in {0, 1} : trans[i].waiters \subseteq Procs
        BY DEF TypeOK, TransesType, TransType
      <3>2. \A i \in {0, 1} : \A q \in trans[i].waiters : pc[q] \in {"force", "stopforce"}
        BY DEF LogInv, WaitInv
      <3>3. 1 - ct \in {0, 1} BY <1>2
      <3> QED BY <3>1, <3>2, <3>3
    <2>3. \A q \in trans[1 - ct].waiters : pc'[q] \in {"force", "stopforce"}
      BY <1>2, <1>5, <2>1, <2>2
    <2> QED BY <1>2, <1>4, <2>3 DEF WaitInv
  <1>11. DownInv' BY <1>1 DEF DownInv, Down
  <1> QED BY <1>1, <1>8, <1>9, <1>10, <1>11 DEF LogInv

LEMMA ApplyTailInv == ASSUME TypeOK, LogInv, ApplyTail PROVE LogInv'
  <1>1. /\ cpc = "applytail" /\ cpc' = "finish" /\ tail' = com.head /\ trans' = trans
        /\ pc' = pc /\ nw' = nw /\ curtrans' = curtrans /\ ct' = ct /\ early' = early
        /\ panic' = panic
    BY DEF ApplyTail, procVars
  <1>2. cur' = cur /\ com' = com /\ com.head \in Nat /\ com.start \in Nat
    BY <1>1, LiveTypes DEF cur, com, TransType
  <1>3. Active' = Active /\ Reserved' = Reserved BY <1>1 DEF Active, Reserved
  <1>4. CountInv' /\ SizeInv' BY <1>2, <1>3 DEF LogInv, CountInv, SizeInv
  <1>5. /\ com.start <= com.head /\ com.head - com.start < maxtrans
        /\ IF early THEN curtrans = 1 - ct /\ cur.start = com.head /\ Open(cur)
           ELSE curtrans = ct /\ com.committing
    BY <1>1 DEF LogInv, SpaceInv, Committing
  <1>6. early => Open(cur)'
    <2>1. freespace(com.head, com.head) BY <1>2, Geometry DEF freespace, space
    <2> QED BY <1>1, <1>2, <1>5, <2>1 DEF Open
  <1>7. SpaceInv'
    <2>1. com.head - com.head <= loglen /\ com.head <= com.head BY <1>2, Geometry
    <2> QED BY <1>1, <1>2, <1>5, <1>6, <2>1 DEF SpaceInv, Committing
  <1>8. WaitInv' /\ DownInv' BY <1>1 DEF LogInv, WaitInv, DownInv, Down
  <1> QED BY <1>1, <1>4, <1>7, <1>8 DEF LogInv

LEMMA FinishInv == ASSUME TypeOK, LogInv, CommitterFinish PROVE LogInv'
  <1>1. /\ cpc = "finish" /\ cpc' \in {"sleep", "run"} /\ tail' = tail /\ nw' = nw /\ ct' = ct
        /\ panic' = panic
    BY DEF CommitterFinish, Bottom
  <1>2. cpc' \notin Committing /\ DownInv' BY <1>1 DEF Committing, DownInv, Down
  <1>3. CASE early
    <2>1. pc' = pc /\ trans' = trans /\ curtrans' = curtrans BY <1>3 DEF CommitterFinish
    <2>2. cur' = cur /\ Active' = Active /\ Reserved' = Reserved
      BY <1>1, <2>1 DEF cur, Active, Reserved
    <2>3. CountInv' /\ SizeInv' /\ WaitInv'
      BY <2>1, <2>2 DEF LogInv, CountInv, SizeInv, WaitInv
    <2>4. Open(cur) BY <1>1, <1>3 DEF LogInv, SpaceInv, Committing
    <2>5. SpaceInv' BY <1>1, <1>2, <2>2, <2>4 DEF SpaceInv, Open
    <2> QED BY <1>1, <1>2, <2>3, <2>5 DEF LogInv
  <1>4. CASE ~early
    <2>1. /\ trans' = [trans EXCEPT ![1 - ct] = mk_trans(com.head)] /\ curtrans' = 1 - ct
          /\ pc' = Broadcast(pc)
      BY <1>4 DEF CommitterFinish
    <2>2. curtrans = ct /\ com.committing /\ tail = com.head
      BY <1>1, <1>4 DEF LogInv, SpaceInv, Committing
    <2>3. com.head \in Nat /\ ct \in {0, 1}
      BY LiveTypes DEF TransType, TypeOK, TransesType
    <2>4. Active' = {}
      <3>1. Active = {} BY <2>2, CommittingQuiet DEF cur, com
      <3> QED BY <2>1, <3>1 DEF Active, Broadcast
    <2>5. cur' = mk_trans(com.head) BY <2>1, <2>3 DEF cur, TypeOK, TransesType
    <2>6. CountInv' /\ SizeInv' BY <2>3, <2>4, <2>5, FreshCount
    <2>7. cur'.start = com.head /\ cur'.head = com.head + NCommitBlk BY <2>5 DEF mk_trans
    <2>8. SpaceInv'
      BY <1>1, <1>2, <2>2, <2>3, <2>7, Geometry DEF SpaceInv, Open, freespace, space
    <2>9. WaitInv'
      <3>1. \A i \in {0, 1} : trans'[i].waiters \in {trans[i].waiters, {}}
        BY <2>1, <2>3 DEF TypeOK, TransesType, mk_trans
      <3>2. \A q \in Procs : pc[q] \in {"force", "stopforce"} => pc'[q] = pc[q]
        BY <2>1 DEF Broadcast
      <3>3. trans[0].waiters \cup trans[1].waiters \subseteq Procs
        BY DEF TypeOK, TransesType, TransType
      <3> QED BY <3>1, <3>2, <3>3 DEF LogInv, WaitInv
    <2> QED BY <1>1, <1>2, <2>6, <2>8, <2>9 DEF LogInv
  <1> QED BY <1>3, <1>4

\* A log that starts afresh at index n, with no calls in progress.
LEMMA FreshInv ==
    ASSUME NEW n \in Nat, trans' = [i \in {0, 1} |-> mk_trans(n)], tail' = n,
           curtrans' \in {0, 1}, \A p \in Procs : pc'[p] = "idle", panic' = "none",
           cpc' \notin Committing
    PROVE  LogInv'
  <1>1. cur' = mk_trans(n) /\ Active' = {} BY DEF cur, Active
  <1>2. CountInv' /\ SizeInv' BY <1>1, FreshCount
  <1>3. cur'.start = n /\ cur'.head = n + NCommitBlk BY <1>1 DEF mk_trans
  <1>4. SpaceInv' BY <1>3, Geometry DEF SpaceInv, Open, freespace, space
  <1>5. WaitInv' BY DEF WaitInv, mk_trans
  <1>6. DownInv' BY DEF DownInv
  <1> QED BY <1>2, <1>4, <1>5, <1>6 DEF LogInv

LEMMA CrashInv == ASSUME Crash PROVE LogInv'
  <1>1. /\ trans' = [i \in {0, 1} |-> mk_trans(0)] /\ tail' = 0 /\ curtrans' = 0
        /\ \A p \in Procs : pc'[p] = "idle"
        /\ panic' = "none" /\ cpc' \notin Committing
    BY DEF Crash, Committing
  <1> QED BY <1>1, FreshInv

LEMMA RecoverInv == ASSUME TypeOK, LogInv, Recover \/ RecoverFlush PROVE LogInv'
  <1>1. /\ cpc \in {"boot", "recover"} /\ panic' = "none" /\ pc' = pc /\ nw' = nw
        /\ curtrans' = curtrans /\ ct' = ct /\ early' = early
    BY DEF Recover, RecoverFlush, procVars
  <1>2. \A p \in Procs : pc'[p] = "idle" BY <1>1 DEF LogInv, DownInv, Down
  <1>3. curtrans' \in {0, 1} BY <1>1 DEF TypeOK, TransesType
  <1>4. CASE \E home, hdr : hdr \in Header /\ StartLog(home, hdr)
    <2>1. PICK home, hdr : hdr \in Header /\ StartLog(home, hdr) BY <1>4
    <2>2. /\ hdr.head \in Nat /\ trans' = [i \in {0, 1} |-> mk_trans(hdr.head)]
          /\ tail' = hdr.head /\ cpc' \notin Committing
      BY <2>1 DEF StartLog, Header, Committing
    <2> QED BY <1>1, <1>2, <1>3, <2>2, FreshInv
  <1>5. CASE trans' = trans /\ tail' = tail /\ cpc' = "recover"
    <2>1. Same /\ Active' = Active BY <1>1, <1>5 DEF Same, Active
    <2>2. CountInv' /\ SizeInv' BY <1>1, <2>1, SameCount DEF LogInv
    <2>3. SpaceInv' BY <1>1, <1>5, <2>1, SameSpace DEF LogInv, Committing
    <2>4. WaitInv' /\ DownInv' BY <1>1, <1>2, <1>5 DEF LogInv, WaitInv, DownInv
    <2> QED BY <1>1, <2>2, <2>3, <2>4 DEF LogInv
  <1>6. mhdr \in Header /\ DestageHdr \in Header BY FlushType DEF TypeOK, DiskType
  <1> QED BY <1>4, <1>5, <1>6, Zenon DEF Recover, RecoverFlush

LEMMA InitInv == Init => LogInv
  <1> SUFFICES ASSUME Init PROVE LogInv
    OBVIOUS
  <1>1. InitIndex \in Nat /\ cur = mk_trans(InitIndex) /\ Active = {}
    BY LogAssumption DEF Init, cur, Active
  <1>2. /\ cur.start = InitIndex /\ cur.head = InitIndex + NCommitBlk /\ cur.inprogress = 0
        /\ cur.logged = {} /\ cur.revoked = << >> /\ ~cur.committing
    BY <1>1 DEF mk_trans
  <1>3. Cardinality(Active) = 0 /\ Cardinality({}) = 0 /\ Cardinality(Reserved) = 0
    BY <1>1, ReservedEmpty, FS_EmptySet
  <1>4. CountInv BY <1>2, <1>3 DEF CountInv
  <1>5. SizeInv BY <1>2, <1>3, Geometry, LogAssumption DEF SizeInv, revokelen
  <1>6. SpaceInv
    BY <1>1, <1>2, Geometry DEF Init, SpaceInv, Committing, Open, freespace, space
  <1>7. WaitInv /\ DownInv BY DEF Init, WaitInv, mk_trans, DownInv, Down
  <1>8. panic \notin {"space", "mark done", "commit runs into log start"} BY DEF Init
  <1> QED BY <1>4, <1>5, <1>6, <1>7, <1>8 DEF LogInv

LEMMA NextInv ==
    ASSUME OpWrites < MaxBlkPerOp, TypeOK, TypeOK', LogInv, [Next]_vars PROVE LogInv'
  <1>1. CASE \E p \in Procs : Fs(p)
    <2>1. PICK p \in Procs : Fs(p) BY <1>1
    <2>2. \A b \in LogBlks \cup OrdBlks : b \in Blocks BY DEF Blocks
    <2> QED BY <2>1, <2>2, OpBeginInv, WriteInv, OpEndInv, ForceInv, StopInv DEF Fs
  <1>2. CASE Committer
    BY <1>2, QuietInv, CommitterStartInv, CommitDoneInv, ApplyTailInv, FinishInv, RecoverInv
       DEF Committer
  <1>3. CASE Crash BY <1>3, CrashInv
  <1>4. CASE UNCHANGED vars
    <2>1. /\ pc' = pc /\ nw' = nw /\ trans' = trans /\ curtrans' = curtrans /\ ct' = ct
          /\ early' = early /\ tail' = tail /\ cpc' = cpc /\ panic' = panic
      BY <1>4 DEF vars, procVars, transVars
    <2>2. Same /\ Active' = Active BY <2>1 DEF Same, Active
    <2>3. CountInv' /\ SizeInv' /\ SpaceInv'
      BY <2>1, <2>2, SameCount, SameSpace DEF LogInv
    <2>4. WaitInv' /\ DownInv' BY <2>1 DEF LogInv, WaitInv, DownInv, Down
    <2> QED BY <2>1, <2>3, <2>4 DEF LogInv
  <1> QED BY <1>1, <1>2, <1>3, <1>4 DEF Next

\* The log's bookkeeping is right for any number of threads, any log size and
\* any number of crashes: reservations made by Op_begin are kept, operations in
\* progress are counted exactly, and a transaction that is open always has a
\* whole transaction's room between its start and the log's tail.
THEOREM LogInvariant == ASSUME OpWrites < MaxBlkPerOp PROVE Spec => []LogInv
  <1>1. TypeOK /\ TypeOK' /\ LogInv /\ [Next]_vars => LogInv' BY NextInv
  <1> QED BY <1>1, InitInv, TypeCorrect, PTL DEF Spec

\* No transaction outgrows its descriptor or the free part of the log, and the
\* panics "space", "mark done" and "commit runs into log start" are unreachable.
THEOREM TransactionsFit == ASSUME OpWrites < MaxBlkPerOp PROVE Spec => []LogFits
  <1>1. LogInv => LogFits BY DEF LogInv, LogFits, SpaceInv, Committing
  <1> QED BY <1>1, LogInvariant, PTL

--------------------------------------------------------------------------------
(***************************************************************************)
(* What is on the disk at every moment, and what recovery makes of it.     *)
(***************************************************************************)
Pre  == {"commit", "ordered", "commithead"}
Post == {"committed", "apply", "applytail", "finish"}

(***************************************************************************)
(* The inductive invariant, in parts.                                      *)
(***************************************************************************)
\* The header on the platter ends at the last committed transaction, and the
\* drive's cache holds another one only between its write and its flush.
HdrInv ==
    /\ cpc = "commithead" => whdr = <<[mhdr EXCEPT !.head = com.head]>> /\ com.start # com.head
    /\ cpc = "applytail" => whdr = <<[mhdr EXCEPT !.tail = com.head]>>
    /\ cpc = "recover" => whdr = <<[mhdr EXCEPT !.tail = mhdr.head]>>
    /\ cpc \notin {"commithead", "applytail", "recover"} => whdr = << >>
    /\ cpc \in Pre => mhdr.head = com.start
    /\ cpc \in Post => mhdr.head = com.head
    /\ cpc \notin Committing /\ ~Down => mhdr.head = cur.start
    /\ ~Down => mhdr.tail = tail

\* What the drive's cache may hold, stage by stage.
DriveInv ==
    /\ cpc \notin {"ordered", "apply", "recover"} => whome = NoWrites
    /\ cpc = "ordered" => \A b \in Blocks : whome[b] # NoVal => b \in ord.com
    /\ cpc = "recover" => whome = install(mlog, mhdr, Blocks)
    /\ cpc = "ordered" => wlog = {logindex(i) : i \in com.start .. com.head - 1}
    /\ cpc # "ordered" => wlog = {} /\ dma = {}

\* Where the ordered blocks of the committer's transaction are.
OrdInv ==
    /\ cpc = "ordered" => dma \subseteq ord.com
    /\ cpc = "ordered" =>
         \A b \in ord.com \ (cur.ordered \cup cur.logged \cup dma) : whome[b] = cache[b]
    /\ OrderedBeforeCommit

\* The blocks of transactions.
BlocksInv ==
    /\ \A i \in {0, 1} :
          /\ trans[i].logged \subseteq LogBlks /\ trans[i].ordered \subseteq OrdBlks
          /\ Range(trans[i].revoked) \subseteq OrdBlks
          /\ trans[i].logged \cap trans[i].ordered = {}
    /\ \A e \in translog : e.logged \subseteq LogBlks
    /\ ord.com \subseteq OrdBlks

\* The words of the page at index i.
Words(log, i) == log[logindex(i)].desc

\* The indices s .. e - 1 hold one transaction.
IsTrans(log, s, e) ==
    /\ e - s >= 2 /\ Len(Words(log, s)) = e - s
    /\ \A i \in s + 1 .. e - 1 :
          LET w == Words(log, s)[i - s + 1]
          IN  \/ w \in LogBlks /\ Words(log, i) = << >> /\ log[logindex(i)].data \in Vals
              \/ /\ i = s + 1 /\ w = RevokeBlk
                 /\ Words(log, i) # << >> /\ Words(log, i)[1] = RevokeBlk

\* The indices of the descriptors between tl and hd.
Starts(log, tl, hd) ==
    {s \in tl .. hd - 1 : Words(log, s) # << >> /\ Words(log, s)[1] = CommitBlk}

\* The log from tl to hd is a sequence of transactions.
WellFormed(log, tl, hd) ==
    /\ tl <= hd /\ hd - tl <= loglen
    /\ tl < hd => tl \in Starts(log, tl, hd)
    /\ \A s \in Starts(log, tl, hd) :
          LET e == s + Len(Words(log, s))
          IN  /\ IsTrans(log, s, e)
              /\ e = hd \/ e \in Starts(log, tl, hd)

\* Index i holds a copy of block b.
Copy(log, tl, hd, i, b) ==
    \E s \in Starts(log, tl, hd) :
       /\ i \in s + 1 .. s + Len(Words(log, s)) - 1
       /\ Words(log, s)[i - s + 1] = b

\* A transaction after index i revokes block b.
Cancels(log, tl, hd, i, b) ==
    \E s \in Starts(log, tl, hd) :
       /\ s > i /\ Words(log, s)[2] = RevokeBlk
       /\ \E n \in 2 .. Len(Words(log, s + 1)) : Words(log, s + 1)[n] = b

\* The pages of the in-memory log, as a write to the disk would copy them.
Pages == DestageLog(Slots)

ShapeInv == WellFormed(mlog, mhdr.tail, mhdr.head)

\* The log on the platter is the in-memory one.
SameInv ==
    /\ ~Down => \A i \in tail .. mhdr.head - 1 : mlog[logindex(i)] = Pages[logindex(i)]
    /\ cpc = "commithead" =>
         \A i \in com.start .. com.head - 1 : mlog[logindex(i)] = Pages[logindex(i)]

\* The slots of the transaction that is being committed.
ComInv ==
    cpc \in Pre =>
        /\ com.head = com.start + (IF com.logged = {} /\ com.revoked = << >> THEN 0
                                   ELSE NCommitBlk + revokelen(com) + Cardinality(com.logged))
        /\ com.start - tail < loglen /\ com.head - tail <= loglen
        /\ \A b \in com.logged :
              /\ memlog[logindex(place(com, b))].type = DataBlk
              /\ memlog[logindex(place(com, b))].block = b
              /\ memlog[logindex(place(com, b))].desc = << >>
              /\ memlog[logindex(place(com, b))].data \in Vals
        /\ com.revoked # << >> =>
              /\ memlog[logindex(com.start + NCommitBlk)].type = RevokeBlk
              /\ memlog[logindex(com.start + NCommitBlk)].desc = <<RevokeBlk>> \o com.revoked
        /\ cpc # "commit" /\ com.start # com.head =>
              memlog[logindex(com.start)].desc = descriptor(com)

\* translog knows the blocks of the log and of the transaction that is being committed.
TlogInv ==
    /\ ~Down => \A i \in tail .. mhdr.head - 1, b \in LogBlks :
                   Copy(mlog, tail, mhdr.head, i, b) => islogged(b)
    /\ cpc \in Pre => \A b \in com.logged : islogged(b)

\* The ordered blocks of the transaction that is being committed.
ComOrdered == IF cpc = "commit" THEN com.ordered ELSE ord.com

\* An ordered block that the log has copies of is revoked.
RevInv ==
    /\ \A b \in cur.ordered : islogged(b) => b \in Range(cur.revoked)
    /\ cpc \in Pre => \A b \in ComOrdered : /\ b \notin com.logged
                                            /\ islogged(b) => b \in Range(com.revoked)

ReplayInv ==
    \A b \in ord.last, i \in mhdr.tail .. mhdr.head - 1 :
       Copy(mlog, mhdr.tail, mhdr.head, i, b) => Cancels(mlog, mhdr.tail, mhdr.head, i, b)

\* The history variable stable is what its definition says.
StableInv == stable = Recovered(mhome, mlog, mhdr)

DiskInv ==
    /\ HdrInv /\ DriveInv /\ OrdInv /\ BlocksInv /\ ShapeInv /\ SameInv /\ ComInv
    /\ TlogInv /\ RevInv /\ ReplayInv /\ StableInv /\ WaitedForceDurable

(***************************************************************************)
(* The log's slots.                                                        *)
(***************************************************************************)
\* A set of natural numbers has a least element.
LEMMA LeastNumber ==
    ASSUME NEW S \in SUBSET Nat, S # {}
    PROVE  \E x \in S : \A y \in S : x <= y
  <1>1. PICK x \in S : \A y \in S : ~(<<y, x>> \in OpToRel(<, Nat))
    BY NatLessThanWellFounded, WFMin
  <1>2. ASSUME NEW y \in S PROVE x <= y
    <2>1. SUFFICES ASSUME y < x PROVE FALSE
      OBVIOUS
    <2>2. <<y, x>> \in Nat \X Nat /\ y < x BY <2>1
    <2>3. <<y, x>> \in OpToRel(<, Nat) BY <2>2, Zenon DEF OpToRel
    <2> QED BY <2>3, <1>1
  <1> QED BY <1>2

\* Indices less than a round apart have different slots.
LEMMA SlotsApart ==
    ASSUME NEW i \in Nat, NEW j \in Nat, i < j, j - i < loglen
    PROVE  logindex(i) # logindex(j)
  <1>1. loglen \in Nat /\ loglen > 0 BY Geometry, LogAssumption
  <1> DEFINE N == loglen
             qi == i \div N
             qj == j \div N
  <1>2. /\ qi \in Int /\ i = N * qi + (i % N) /\ i % N \in 0 .. N - 1
        /\ qj \in Int /\ j = N * qj + (j % N) /\ j % N \in 0 .. N - 1
    BY <1>1, Z3
  <1>3. SUFFICES ASSUME i % N = j % N PROVE FALSE BY DEF logindex
  <1> HIDE DEF qi, qj, N
  <1>4. N \in Nat /\ N > 0 /\ j - i < N BY <1>1 DEF N
  <1>5. j - i = N * (qj - qi) BY <1>2, <1>3, <1>4
  <1>6. qj - qi >= 1 BY <1>2, <1>4, <1>5, Z3
  <1> QED BY <1>2, <1>4, <1>5, <1>6, Z3

(***************************************************************************)
(* What recovery reads from a well-formed log.                             *)
(***************************************************************************)
\* The words of a descriptor are those of a sequence.
LogType(log) == log \in [Slots -> Page]

LEMMA WordsType ==
    ASSUME NEW log, LogType(log), NEW i \in Int
    PROVE  Words(log, i) \in Seq(Int)
  BY SlotType DEF LogType, Words, Page

\* The transaction that starts at s holds index i.
Covers(log, s, i) == s <= i /\ i < s + Len(Words(log, s))

\* Transactions do not overlap: only the first page of one is a descriptor.
LEMMA OneStart ==
    ASSUME NEW log, LogType(log), NEW tl \in Nat, NEW hd \in Nat, WellFormed(log, tl, hd),
           NEW s \in Starts(log, tl, hd), NEW r \in Starts(log, tl, hd), NEW i \in Nat,
           Covers(log, s, i), Covers(log, r, i)
    PROVE  s = r
  <1>1. ASSUME NEW x \in Starts(log, tl, hd), NEW y \in Starts(log, tl, hd),
               Covers(log, x, i), Covers(log, y, i), x < y
        PROVE  FALSE
    <2>1. x \in Nat /\ y \in Nat /\ Len(Words(log, x)) \in Nat BY WordsType DEF Starts
    <2>2. y \in x + 1 .. x + Len(Words(log, x)) - 1 BY <1>1, <2>1 DEF Covers
    <2>3. IsTrans(log, x, x + Len(Words(log, x))) BY DEF WellFormed
    <2>4. Words(log, y) = << >> \/ Words(log, y)[1] = RevokeBlk BY <2>2, <2>3 DEF IsTrans
    <2> QED BY <2>4 DEF Starts, CommitBlk, RevokeBlk
  <1>2. s \in Nat /\ r \in Nat BY DEF Starts
  <1> QED BY <1>1, <1>2

\* Where a transaction ends.
LEMMA TransEnd ==
    ASSUME NEW log, LogType(log), NEW tl \in Nat, NEW hd \in Nat, WellFormed(log, tl, hd),
           NEW s \in Starts(log, tl, hd)
    PROVE  /\ s \in Nat /\ tl <= s /\ s < hd
           /\ Len(Words(log, s)) \in Nat /\ Len(Words(log, s)) >= 2
           /\ s + Len(Words(log, s)) <= hd
           /\ s + Len(Words(log, s)) = hd \/ s + Len(Words(log, s)) \in Starts(log, tl, hd)
           /\ Words(log, s)[1] = CommitBlk
           /\ Covers(log, s, s)
  <1>1. s \in Nat /\ tl <= s /\ s < hd /\ Words(log, s)[1] = CommitBlk BY DEF Starts
  <1>2. Len(Words(log, s)) \in Nat BY <1>1, WordsType
  <1>3. Len(Words(log, s)) >= 2 BY <1>1, <1>2 DEF WellFormed, IsTrans
  <1>4. s + Len(Words(log, s)) = hd \/ s + Len(Words(log, s)) \in Starts(log, tl, hd)
    BY DEF WellFormed
  <1>5. s + Len(Words(log, s)) <= hd BY <1>1, <1>2, <1>4 DEF Starts
  <1> QED BY <1>1, <1>2, <1>3, <1>4, <1>5 DEF Covers

\* Every index is in a transaction.
LEMMA Covered ==
    ASSUME NEW log, LogType(log), NEW tl \in Nat, NEW hd \in Nat, WellFormed(log, tl, hd),
           NEW i \in tl .. hd - 1
    PROVE  \E s \in Starts(log, tl, hd) : Covers(log, s, i)
  <1> DEFINE Bad == {j \in tl .. hd - 1 : ~ \E s \in Starts(log, tl, hd) : Covers(log, s, j)}
  <1>1. SUFFICES ASSUME Bad # {} PROVE FALSE
    OBVIOUS
  <1>2. Bad \in SUBSET Nat
    OBVIOUS
  <1>3. PICK x \in Bad : \A y \in Bad : x <= y
    <2> HIDE DEF Bad
    <2> QED BY <1>1, <1>2, LeastNumber
  <1>4. x \in Nat /\ tl <= x /\ x < hd
    OBVIOUS
  <1>5. CASE x = tl
    <2>1. tl \in Starts(log, tl, hd) BY <1>4, <1>5 DEF WellFormed
    <2> QED BY <2>1, <1>5, TransEnd
  <1>6. CASE x # tl
    <2>1. x - 1 \in tl .. hd - 1 /\ x - 1 \notin Bad BY <1>3, <1>4, <1>6
    <2>2. PICK s \in Starts(log, tl, hd) : Covers(log, s, x - 1) BY <2>1
    <2>3. /\ s \in Nat /\ Len(Words(log, s)) \in Nat
          /\ s + Len(Words(log, s)) = hd \/ s + Len(Words(log, s)) \in Starts(log, tl, hd)
      BY TransEnd
    <2>4. ~Covers(log, s, x) BY <1>3
    <2>5. x = s + Len(Words(log, s))
      <3>1. s <= x - 1 /\ x - 1 < s + Len(Words(log, s)) /\ ~(s <= x /\ x < s + Len(Words(log, s)))
        BY <2>2, <2>4, Zenon DEF Covers
      <3>2. x \in Int /\ s \in Int /\ Len(Words(log, s)) \in Int BY <1>4, <2>3
      <3> QED BY <3>1, <3>2, SMT
    <2>6. x \in Starts(log, tl, hd) BY <1>4, <2>3, <2>5
    <2> QED BY <1>3, <2>6, TransEnd
  <1> QED BY <1>5, <1>6

\* The walk of installmap finds the transaction that holds an index.
LEMMA DescriptorsAre ==
    ASSUME NEW log, LogType(log), NEW tl \in Nat, NEW hd \in Nat, WellFormed(log, tl, hd),
           NEW i \in tl .. hd - 1
    PROVE  /\ Descriptors(log, tl, hd)[i] \in Starts(log, tl, hd)
           /\ Covers(log, Descriptors(log, tl, hd)[i], i)
  <1> DEFINE St == Starts(log, tl, hd)
             cov(j) == CHOOSE s \in St : Covers(log, s, j)
             f == [j \in tl .. hd |-> IF j = hd THEN hd ELSE cov(j)]
             step(g, j) == IF j = tl THEN tl
                           ELSE LET t == g[j - 1]
                                IN  IF t + TransLen(log[logindex(t)]) = j THEN j ELSE t
             ti == Descriptors(log, tl, hd)
  <1>1. tl <= hd BY DEF WellFormed
  <1>2. ASSUME NEW j \in tl .. hd - 1 PROVE cov(j) \in St /\ Covers(log, cov(j), j)
    BY Covered
  <1>3. ASSUME NEW s \in St PROVE TransLen(log[logindex(s)]) = Len(Words(log, s))
    BY DEF TransLen, Starts, Words
  <1>4. ASSUME NEW j \in tl .. hd PROVE f[j] = step(f, j)
    <2>1. CASE j = tl
      <3>1. CASE tl = hd BY <2>1, <3>1
      <3>2. CASE tl < hd
        <4>1. tl \in St /\ Covers(log, tl, tl) BY <3>2, TransEnd DEF WellFormed
        <4>2. tl \in tl .. hd - 1 BY <3>2
        <4>3. cov(tl) = tl BY <4>1, <4>2, <1>2, OneStart
        <4> QED BY <2>1, <3>2, <4>3
      <3> QED BY <1>1, <3>1, <3>2
    <2>2. CASE j # tl
      <3>1. j - 1 \in tl .. hd - 1 BY <2>2
      <3>2. PICK t \in St : t = cov(j - 1) /\ Covers(log, t, j - 1) BY <3>1, <1>2
      <3>3. f[j - 1] = t BY <3>1, <3>2
      <3>4. /\ t \in Nat /\ Len(Words(log, t)) \in Nat
            /\ t + Len(Words(log, t)) <= hd
            /\ t + Len(Words(log, t)) = hd \/ t + Len(Words(log, t)) \in St
        BY TransEnd
      <3>5. step(f, j) = IF t + Len(Words(log, t)) = j THEN j ELSE t
        <4>1. TransLen(log[logindex(t)]) = Len(Words(log, t)) BY <1>3
        <4> HIDE DEF f
        <4> QED BY <2>2, <3>3, <4>1
      <3>6. t <= j - 1 /\ j - 1 < t + Len(Words(log, t)) BY <3>2 DEF Covers
      <3> HIDE DEF cov, step
      <3>7. CASE t + Len(Words(log, t)) = j
        <4>1. CASE j = hd BY <3>5, <3>7, <4>1
        <4>2. CASE j # hd
          <5>1. j \in St /\ j \in tl .. hd - 1 /\ j \in Nat BY <3>4, <3>7, <4>2
          <5>2. Covers(log, j, j) BY <5>1, TransEnd
          <5>3. cov(j) = j BY <5>1, <5>2, <1>2, OneStart
          <5> QED BY <3>5, <3>7, <4>2, <5>3
        <4> QED BY <4>1, <4>2
      <3>8. CASE t + Len(Words(log, t)) # j
        <4>1. Covers(log, t, j) /\ j # hd BY <3>4, <3>6, <3>8 DEF Covers
        <4>2. j \in tl .. hd - 1 /\ j \in Nat BY <4>1
        <4>3. cov(j) = t BY <4>1, <4>2, <1>2, OneStart
        <4> QED BY <3>5, <3>8, <4>1, <4>3
      <3> QED BY <3>7, <3>8
    <2> QED BY <2>1, <2>2
  <1>5. f = [j \in tl .. hd |-> step(f, j)]
    <2> HIDE DEF step, cov
    <2> QED BY <1>4
  <1>6. ti = [j \in tl .. hd |-> step(ti, j)]
    <2> HIDE DEF f
    <2> QED BY <1>5 DEF Descriptors
  <1>7. \A j \in tl .. hd : ti[j] = step(ti, j)
    <2> HIDE DEF step, ti
    <2> QED BY <1>6
  <1> DEFINE Bad == {j \in tl .. hd : ti[j] # f[j]}
  <1>8. Bad = {}
    <2>1. SUFFICES ASSUME Bad # {} PROVE FALSE
      OBVIOUS
    <2>2. Bad \in SUBSET Nat
      OBVIOUS
    <2>3. PICK x \in Bad : \A y \in Bad : x <= y
      <3> HIDE DEF Bad
      <3> QED BY <2>1, <2>2, LeastNumber
    <2>4. x \in tl .. hd /\ ti[x] # f[x] BY <2>3
    <2>5. CASE x = tl BY <2>4, <2>5, <1>4, <1>7
    <2>6. CASE x # tl
      <3>1. x - 1 \in tl .. hd /\ ~(x <= x - 1) BY <2>4, <2>6
      <3>2. ti[x - 1] = f[x - 1] BY <3>1, <2>3
      <3>3. step(ti, x) = step(f, x)
        <4> HIDE DEF f, ti
        <4> QED BY <3>2
      <3> QED
        <4> HIDE DEF f, ti, step
        <4> QED BY <3>3, <2>4, <1>4, <1>7
    <2> QED BY <2>5, <2>6
  <1>9. ti[i] = f[i] /\ i # hd /\ i \in tl .. hd
    <2>1. i \in tl .. hd /\ i # hd
      OBVIOUS
    <2> HIDE DEF f, ti
    <2> QED BY <1>8, <2>1
  <1>10. ti[i] = cov(i)
    <2> HIDE DEF cov, ti
    <2> QED BY <1>9
  <1> HIDE DEF ti, cov
  <1> QED BY <1>10, <1>2 DEF ti

\* The destination of index i, read off the descriptor of its transaction.
LEMMA Destination ==
    ASSUME NEW log, LogType(log), NEW tl \in Nat, NEW hd \in Nat, WellFormed(log, tl, hd),
           NEW s \in Starts(log, tl, hd), NEW i \in Nat, Covers(log, s, i)
    PROVE  /\ i \in tl .. hd - 1
           /\ Descriptors(log, tl, hd)[i] = s
           /\ r_logdest(log[logindex(Descriptors(log, tl, hd)[i])], i - Descriptors(log, tl, hd)[i])
                = Words(log, s)[i - s + 1]
  <1>1. /\ s \in Nat /\ tl <= s /\ Len(Words(log, s)) \in Nat
        /\ s + Len(Words(log, s)) <= hd
    BY TransEnd
  <1>2. i \in tl .. hd - 1 /\ i - s < Len(Words(log, s)) BY <1>1 DEF Covers
  <1>3. Descriptors(log, tl, hd)[i] = s BY <1>2, DescriptorsAre, OneStart
  <1> QED BY <1>2, <1>3 DEF r_logdest, Words

\* The copies of block b that recovery installs: those that no later
\* transaction revokes.
Live(log, tl, hd, b) ==
    {i \in tl .. hd - 1 : Copy(log, tl, hd, i, b) /\ ~Cancels(log, tl, hd, i, b)}

\* installmap maps the copies of a block that are not revoked to the block,
\* and no other index.
LEMMA InstallmapIs ==
    ASSUME NEW log, LogType(log), NEW tl \in Nat, NEW hd \in Nat, WellFormed(log, tl, hd),
           NEW i \in tl .. hd - 1, NEW b \in Blocks
    PROVE  installmap(log, tl, hd)[i] = b
              <=> Copy(log, tl, hd, i, b) /\ ~Cancels(log, tl, hd, i, b)
  <1> DEFINE St == Starts(log, tl, hd)
             ti == Descriptors(log, tl, hd)
             dest == [k \in tl .. hd - 1 |-> r_logdest(log[logindex(ti[k])], k - ti[k])]
             revokes == {k \in tl .. hd - 1 : dest[k] = RevokeBlk}
             revoked(j) == \E k \in revokes :
                              /\ ti[k] > j
                              /\ \E n \in 2 .. Len(log[logindex(k)].desc) :
                                    log[logindex(k)].desc[n] = dest[j]
  <1>1. b \in Nat \ {0} /\ b # Canceled /\ b # RevokeBlk /\ b # CommitBlk
    BY LogAssumption DEF Blocks, Canceled, RevokeBlk, CommitBlk
  <1>2. installmap(log, tl, hd)[i]
          = IF ti[i] = i \/ i \in revokes \/ revoked(i) THEN Canceled ELSE dest[i]
    BY DEF installmap
  <1>3. PICK s \in St : Covers(log, s, i) BY Covered
  <1>4. ASSUME NEW r \in St, NEW k \in Nat, Covers(log, r, k)
        PROVE  k \in tl .. hd - 1 /\ ti[k] = r /\ dest[k] = Words(log, r)[k - r + 1]
    <2>1. /\ k \in tl .. hd - 1 /\ ti[k] = r
          /\ r_logdest(log[logindex(ti[k])], k - ti[k]) = Words(log, r)[k - r + 1]
      BY <1>4, Destination
    <2> QED BY <2>1
  <1>5. ti[i] = s /\ dest[i] = Words(log, s)[i - s + 1] /\ s \in Nat /\ s <= i
        /\ i < s + Len(Words(log, s)) /\ Len(Words(log, s)) \in Nat
    <2>1. i \in Nat
      OBVIOUS
    <2>2. s \in Nat /\ Len(Words(log, s)) \in Nat BY TransEnd
    <2>3. s <= i /\ i < s + Len(Words(log, s)) BY <1>3 DEF Covers
    <2> HIDE DEF dest, ti
    <2>4. ti[i] = s /\ dest[i] = Words(log, s)[i - s + 1] BY <1>3, <1>4, <2>1
    <2> QED BY <2>2, <2>3, <2>4
  <1> HIDE DEF dest, ti
  <1>6. Copy(log, tl, hd, i, b) <=> i # s /\ dest[i] = b
    <2>1. ASSUME Copy(log, tl, hd, i, b) PROVE i # s /\ dest[i] = b
      <3>1. PICK r \in St : /\ i \in r + 1 .. r + Len(Words(log, r)) - 1
                            /\ Words(log, r)[i - r + 1] = b
        BY <2>1 DEF Copy
      <3>2. r \in Nat /\ Len(Words(log, r)) \in Nat BY TransEnd
      <3>3. Covers(log, r, i) /\ i # r BY <3>1, <3>2 DEF Covers
      <3>4. r = s BY <3>3, <1>3, OneStart
      <3> QED BY <3>1, <3>3, <3>4, <1>5
    <2>2. ASSUME i # s, dest[i] = b PROVE Copy(log, tl, hd, i, b)
      <3>1. i \in s + 1 .. s + Len(Words(log, s)) - 1 BY <1>5, <2>2
      <3> QED BY <3>1, <1>5, <2>2 DEF Copy
    <2> QED BY <2>1, <2>2
  <1>7. ASSUME NEW k \in tl .. hd - 1
        PROVE  dest[k] = RevokeBlk <=> \E r \in St : k = r + 1 /\ Words(log, r)[2] = RevokeBlk
    <2>1. ASSUME dest[k] = RevokeBlk PROVE \E r \in St : k = r + 1 /\ Words(log, r)[2] = RevokeBlk
      <3>1. PICK r \in St : Covers(log, r, k) BY Covered
      <3>2. dest[k] = Words(log, r)[k - r + 1] BY <3>1, <1>4
      <3>3. r \in Nat /\ Words(log, r)[1] = CommitBlk /\ Len(Words(log, r)) \in Nat
        BY TransEnd
      <3>4. k # r
        <4>1. SUFFICES ASSUME k = r PROVE FALSE
          OBVIOUS
        <4>2. k - r + 1 = 1 BY <3>3, <4>1
        <4>3. CommitBlk = RevokeBlk BY <3>2, <3>3, <2>1, <4>2, Zenon
        <4> QED BY <4>3 DEF CommitBlk, RevokeBlk
      <3>5. k \in r + 1 .. (r + Len(Words(log, r))) - 1 BY <3>1, <3>3, <3>4 DEF Covers
      <3>6. IsTrans(log, r, r + Len(Words(log, r))) BY DEF WellFormed
      <3>7. RevokeBlk \notin LogBlks BY LogAssumption DEF RevokeBlk
      <3>8. k = r + 1 BY <3>2, <3>5, <3>6, <3>7, <2>1 DEF IsTrans
      <3> QED BY <3>2, <3>3, <3>8, <2>1
    <2>2. ASSUME NEW r \in St, k = r + 1, Words(log, r)[2] = RevokeBlk PROVE dest[k] = RevokeBlk
      <3>1. r \in Nat /\ Len(Words(log, r)) \in Nat /\ Len(Words(log, r)) >= 2 BY TransEnd
      <3>2. Covers(log, r, k) /\ k - r + 1 = 2 BY <2>2, <3>1 DEF Covers
      <3> QED BY <3>2, <1>4, <2>2
    <2> QED BY <2>1, <2>2
  <1>8. ASSUME dest[i] = b PROVE revoked(i) <=> Cancels(log, tl, hd, i, b)
    <2>1. ASSUME NEW k \in revokes, ti[k] > i,
                 NEW n \in 2 .. Len(log[logindex(k)].desc), log[logindex(k)].desc[n] = dest[i]
          PROVE  Cancels(log, tl, hd, i, b)
      <3>1. PICK r \in St : k = r + 1 /\ Words(log, r)[2] = RevokeBlk BY <1>7
      <3>2. r \in Nat /\ Len(Words(log, r)) \in Nat /\ Len(Words(log, r)) >= 2 BY TransEnd
      <3>3. Covers(log, r, k) /\ k \in Nat BY <3>1, <3>2 DEF Covers
      <3>4. ti[k] = r BY <3>3, <1>4
      <3>5. n \in 2 .. Len(Words(log, r + 1)) /\ Words(log, r + 1)[n] = b
        BY <2>1, <1>8, <3>1 DEF Words
      <3> QED BY <3>1, <3>4, <3>5, <2>1 DEF Cancels
    <2>2. ASSUME Cancels(log, tl, hd, i, b) PROVE revoked(i)
      <3>1. PICK r \in St : /\ r > i /\ Words(log, r)[2] = RevokeBlk
                            /\ \E n \in 2 .. Len(Words(log, r + 1)) : Words(log, r + 1)[n] = b
        BY <2>2 DEF Cancels
      <3>2. /\ r \in Nat /\ Len(Words(log, r)) \in Nat /\ Len(Words(log, r)) >= 2
            /\ r + Len(Words(log, r)) <= hd /\ tl <= r
        BY TransEnd
      <3>3. Covers(log, r, r + 1) /\ r + 1 \in Nat /\ r + 1 \in tl .. hd - 1
        BY <3>1, <3>2 DEF Covers
      <3>4. ti[r + 1] = r BY <3>3, <1>4
      <3>5. r + 1 \in revokes BY <3>1, <3>3, <1>7
      <3>6. \E n \in 2 .. Len(log[logindex(r + 1)].desc) : log[logindex(r + 1)].desc[n] = dest[i]
        BY <3>1, <1>8 DEF Words
      <3> QED BY <3>1, <3>4, <3>5, <3>6
    <2> QED BY <2>1, <2>2
  <1> HIDE DEF revoked, revokes
  <1>9. dest[i] = b => i \notin revokes BY <1>1 DEF revokes
  <1> QED BY <1>1, <1>2, <1>5, <1>6, <1>8, <1>9

\* What install writes to block b: its last copy that is not revoked.
LEMMA InstallIs ==
    ASSUME NEW log, LogType(log), NEW hdr \in Header, WellFormed(log, hdr.tail, hdr.head),
           NEW b \in Blocks
    PROVE  install(log, hdr, Blocks)[b]
             = IF Live(log, hdr.tail, hdr.head, b) = {} THEN NoVal
               ELSE log[logindex(Max(Live(log, hdr.tail, hdr.head, b)))].data
  <1> DEFINE im == installmap(log, hdr.tail, hdr.head)
             at == {i \in hdr.tail .. hdr.head - 1 : im[i] = b}
  <1>1. hdr.tail \in Nat /\ hdr.head \in Nat BY DEF Header
  <1>2. \A i \in hdr.tail .. hdr.head - 1 :
            im[i] = b <=> /\ Copy(log, hdr.tail, hdr.head, i, b)
                          /\ ~Cancels(log, hdr.tail, hdr.head, i, b)
    BY <1>1, InstallmapIs
  <1>3. at = Live(log, hdr.tail, hdr.head, b) BY <1>2 DEF Live
  <1>4. install(log, hdr, Blocks)[b] = IF at = {} THEN NoVal ELSE log[logindex(Max(at))].data
    BY DEF install
  <1> QED BY <1>3, <1>4

\* Two logs agree between tl and hd.
Agree(log, new, tl, hd) == \A i \in tl .. hd - 1 : new[logindex(i)] = log[logindex(i)]

\* The reader of a log sees only the slots between its tail and its head.
LEMMA AgreeShape ==
    ASSUME NEW log, LogType(log), NEW new, LogType(new), NEW tl \in Nat, NEW hd \in Nat,
           WellFormed(log, tl, hd), Agree(log, new, tl, hd)
    PROVE  /\ Starts(new, tl, hd) = Starts(log, tl, hd)
           /\ WellFormed(new, tl, hd)
           /\ \A i, b : Copy(new, tl, hd, i, b) <=> Copy(log, tl, hd, i, b)
           /\ \A i, b : Cancels(new, tl, hd, i, b) <=> Cancels(log, tl, hd, i, b)
           /\ \A b : Live(new, tl, hd, b) = Live(log, tl, hd, b)
  <1> DEFINE St == Starts(log, tl, hd)
  <1>1. \A i \in tl .. hd - 1 : Words(new, i) = Words(log, i) BY DEF Agree, Words
  <1>2. Starts(new, tl, hd) = St BY <1>1 DEF Starts
  <1>3. ASSUME NEW s \in St
        PROVE  /\ s \in tl .. hd - 1 /\ s + 1 \in tl .. hd - 1
               /\ Words(new, s) = Words(log, s) /\ Words(new, s + 1) = Words(log, s + 1)
    <2>1. s \in tl .. hd - 1 /\ s + 1 \in tl .. hd - 1 BY TransEnd
    <2> QED BY <2>1, <1>1
  <1>4. WellFormed(new, tl, hd)
    <2>1. ASSUME NEW s \in St PROVE IsTrans(new, s, s + Len(Words(new, s)))
      <3>1. IsTrans(log, s, s + Len(Words(log, s))) BY DEF WellFormed
      <3>2. /\ s \in Nat /\ tl <= s /\ Len(Words(log, s)) \in Nat
            /\ s + Len(Words(log, s)) <= hd
        BY TransEnd
      <3> DEFINE e == s + Len(Words(log, s))
      <3>4. s + Len(Words(new, s)) = e /\ Words(new, s) = Words(log, s) BY <1>3
      <3>3. e \in Nat /\ e <= hd BY <3>2
      <3> HIDE DEF e
      <3>5. e - s >= 2 /\ Len(Words(new, s)) = e - s BY <3>1, <3>4 DEF IsTrans, e
      <3>6. ASSUME NEW i \in s + 1 .. e - 1
            PROVE  LET w == Words(new, s)[i - s + 1]
                   IN  \/ w \in LogBlks /\ Words(new, i) = << >> /\ new[logindex(i)].data \in Vals
                       \/ /\ i = s + 1 /\ w = RevokeBlk
                          /\ Words(new, i) # << >> /\ Words(new, i)[1] = RevokeBlk
        <4>1. Words(new, i) = Words(log, i) /\ new[logindex(i)] = log[logindex(i)]
          <5>1. i \in tl .. hd - 1 BY <3>2, <3>3
          <5> QED BY <5>1, <1>1 DEF Agree
        <4>2. IsTrans(log, s, e) BY <3>1 DEF e
        <4> QED BY <3>4, <4>1, <4>2 DEF IsTrans
      <3>7. IsTrans(new, s, e) BY <3>5, <3>6 DEF IsTrans
      <3> QED BY <3>4, <3>7
    <2>2. tl <= hd /\ hd - tl <= loglen /\ (tl < hd => tl \in St) BY DEF WellFormed
    <2>3. \A s \in St : s + Len(Words(new, s)) = hd \/ s + Len(Words(new, s)) \in St
      BY <1>3 DEF WellFormed
    <2> QED BY <1>2, <2>1, <2>2, <2>3 DEF WellFormed
  <1>5. \A i, b : Copy(new, tl, hd, i, b) <=> Copy(log, tl, hd, i, b)
    BY <1>2, <1>3 DEF Copy
  <1>6. \A i, b : Cancels(new, tl, hd, i, b) <=> Cancels(log, tl, hd, i, b)
    BY <1>2, <1>3 DEF Cancels
  <1>7. \A b : Live(new, tl, hd, b) = Live(log, tl, hd, b) BY <1>5, <1>6 DEF Live
  <1> QED BY <1>2, <1>4, <1>5, <1>6, <1>7

\* Nor does recovery.
LEMMA AgreeInstall ==
    ASSUME NEW log, LogType(log), NEW new, LogType(new), NEW hdr \in Header,
           WellFormed(log, hdr.tail, hdr.head), Agree(log, new, hdr.tail, hdr.head)
    PROVE  install(new, hdr, Blocks) = install(log, hdr, Blocks)
  <1>1. hdr.tail \in Nat /\ hdr.head \in Nat BY DEF Header
  <1>2. WellFormed(new, hdr.tail, hdr.head) BY <1>1, AgreeShape
  <1>3. ASSUME NEW b \in Blocks
        PROVE  install(new, hdr, Blocks)[b] = install(log, hdr, Blocks)[b]
    <2> DEFINE at == Live(log, hdr.tail, hdr.head, b)
    <2>1. Live(new, hdr.tail, hdr.head, b) = at BY <1>1, AgreeShape
    <2>2. /\ install(new, hdr, Blocks)[b] = IF at = {} THEN NoVal ELSE new[logindex(Max(at))].data
          /\ install(log, hdr, Blocks)[b] = IF at = {} THEN NoVal ELSE log[logindex(Max(at))].data
      BY <1>2, <2>1, InstallIs
    <2>3. ASSUME at # {} PROVE Max(at) \in hdr.tail .. hdr.head - 1
      <3>1. at \in SUBSET (hdr.tail .. (hdr.head - 1)) /\ hdr.tail \in Int /\ hdr.head - 1 \in Int
        BY <1>1 DEF Live
      <3> HIDE DEF at
      <3>2. Max(at) \in at BY <2>3, <3>1, MaxIndex
      <3> QED BY <3>1, <3>2
    <2> HIDE DEF at
    <2> QED BY <2>2, <2>3 DEF Agree
  <1>4. /\ install(new, hdr, Blocks) = [b \in Blocks |-> install(new, hdr, Blocks)[b]]
        /\ install(log, hdr, Blocks) = [b \in Blocks |-> install(log, hdr, Blocks)[b]]
    BY InstallType DEF LogType
  <1> QED BY <1>3, <1>4

\* An empty log installs nothing.
LEMMA EmptyLog ==
    ASSUME NEW log, LogType(log), NEW n \in Nat
    PROVE  /\ WellFormed(log, n, n)
           /\ \A i, b : ~Copy(log, n, n, i, b)
           /\ \A hdr \in Header : hdr.tail = hdr.head =>
                 /\ install(log, hdr, Blocks) = [b \in Blocks |-> NoVal]
                 /\ \A home \in [Blocks -> Vals] : Recovered(home, log, hdr) = home
  <1>1. n .. n - 1 = {}
    OBVIOUS
  <1>2. Starts(log, n, n) = {} BY <1>1 DEF Starts
  <1>3. WellFormed(log, n, n) /\ \A i, b : ~Copy(log, n, n, i, b)
    BY <1>2, Geometry DEF WellFormed, Copy
  <1>4. ASSUME NEW hdr \in Header, hdr.tail = hdr.head
        PROVE  install(log, hdr, Blocks) = [b \in Blocks |-> NoVal]
    <2>1. hdr.tail .. hdr.head - 1 = {} BY <1>4 DEF Header
    <2> QED BY <2>1 DEF install
  <1>5. ASSUME NEW hdr \in Header, hdr.tail = hdr.head, NEW home \in [Blocks -> Vals]
        PROVE  Recovered(home, log, hdr) = home
    <2>1. DOMAIN home = Blocks
      OBVIOUS
    <2> QED BY <1>4, <1>5, <2>1 DEF Recovered
  <1> QED BY <1>3, <1>4, <1>5

\* The log with one more transaction.
LEMMA ExtendShape ==
    ASSUME NEW log, LogType(log), NEW tl \in Nat, NEW hd \in Nat, NEW e \in Nat,
           WellFormed(log, tl, hd), IsTrans(log, hd, e), Words(log, hd)[1] = CommitBlk,
           e - tl <= loglen
    PROVE  /\ WellFormed(log, tl, e)
           /\ Starts(log, tl, e) = Starts(log, tl, hd) \cup {hd}
           /\ \A i, b : Copy(log, tl, e, i, b) <=>
                 \/ Copy(log, tl, hd, i, b)
                 \/ i \in hd + 1 .. e - 1 /\ Words(log, hd)[i - hd + 1] = b
           /\ \A i \in Nat : \A b : Cancels(log, tl, e, i, b) <=>
                 \/ Cancels(log, tl, hd, i, b)
                 \/ /\ hd > i /\ Words(log, hd)[2] = RevokeBlk
                    /\ \E n \in 2 .. Len(Words(log, hd + 1)) : Words(log, hd + 1)[n] = b
  <1>1. e - hd >= 2 /\ Len(Words(log, hd)) = e - hd /\ tl <= hd /\ hd + (e - hd) = e
    BY DEF IsTrans, WellFormed
  <1>2. Words(log, hd) # << >> BY <1>1
  <1>3. Starts(log, tl, e) = Starts(log, tl, hd) \cup {hd}
    <2>1. ASSUME NEW s \in hd + 1 .. e - 1 PROVE s \notin Starts(log, tl, e)
      <3>1. Words(log, s) = << >> \/ Words(log, s)[1] = RevokeBlk BY <2>1 DEF IsTrans
      <3> QED BY <3>1 DEF Starts, CommitBlk, RevokeBlk
    <2>2. hd \in Starts(log, tl, e) BY <1>1, <1>2 DEF Starts
    <2>3. Starts(log, tl, hd) \subseteq Starts(log, tl, e) BY <1>1 DEF Starts
    <2>4. ASSUME NEW s \in Starts(log, tl, e), s # hd PROVE s \in Starts(log, tl, hd)
      <3>1. s \in Nat /\ tl <= s /\ s < e /\ s \notin hd + 1 .. e - 1 BY <2>1 DEF Starts
      <3>2. s \in tl .. hd - 1 BY <3>1, <2>4
      <3> QED BY <3>2 DEF Starts
    <2> QED BY <2>2, <2>3, <2>4
  <1>4. WellFormed(log, tl, e)
    <2>1. ASSUME NEW s \in Starts(log, tl, hd)
          PROVE  /\ IsTrans(log, s, s + Len(Words(log, s)))
                 /\ s + Len(Words(log, s)) \in Starts(log, tl, e)
      BY <1>3 DEF WellFormed
    <2>2. IsTrans(log, hd, hd + Len(Words(log, hd))) /\ hd + Len(Words(log, hd)) = e
      BY <1>1
    <2>3. tl \in Starts(log, tl, e) BY <1>1, <1>3 DEF WellFormed
    <2>4. tl <= e BY <1>1
    <2> QED BY <1>3, <2>1, <2>2, <2>3, <2>4 DEF WellFormed
  <1>5. \A i, b : Copy(log, tl, e, i, b) <=>
            \/ Copy(log, tl, hd, i, b)
            \/ i \in hd + 1 .. e - 1 /\ Words(log, hd)[i - hd + 1] = b
    BY <1>1, <1>3 DEF Copy
  <1>6. \A i \in Nat : \A b : Cancels(log, tl, e, i, b) <=>
            \/ Cancels(log, tl, hd, i, b)
            \/ /\ hd > i /\ Words(log, hd)[2] = RevokeBlk
               /\ \E n \in 2 .. Len(Words(log, hd + 1)) : Words(log, hd + 1)[n] = b
    BY <1>3 DEF Cancels
  <1> QED BY <1>3, <1>4, <1>5, <1>6

(***************************************************************************)
(* The places of a transaction's blocks in the log.                        *)
(***************************************************************************)
\* The elements of a set of numbers below b.
Below(S, b) == {c \in S : c < b}

\* Counting the smaller elements numbers the elements of a set from 0 on.
LEMMA Rank ==
    ASSUME NEW S \in SUBSET Nat, IsFiniteSet(S)
    PROVE  /\ Cardinality(S) \in Nat
           /\ \A b \in S : Cardinality(Below(S, b)) \in 0 .. Cardinality(S) - 1
           /\ \A b, c \in S : b < c => Cardinality(Below(S, b)) < Cardinality(Below(S, c))
           /\ \A k \in 0 .. Cardinality(S) - 1 : \E b \in S : Cardinality(Below(S, b)) = k
  <1> DEFINE r(b) == Cardinality(Below(S, b))
  <1>1. Cardinality(S) \in Nat BY FS_CardinalityType
  <1>2. ASSUME NEW b \in S PROVE IsFiniteSet(Below(S, b)) /\ r(b) \in Nat
    <2>1. Below(S, b) \in SUBSET S BY DEF Below
    <2> QED BY <2>1, FS_Subset, FS_CardinalityType
  <1>3. ASSUME NEW b \in S, NEW T \in SUBSET S, Below(S, b) \subseteq T, b \in T
        PROVE  IsFiniteSet(T) /\ Cardinality(T) \in Nat /\ r(b) < Cardinality(T)
    <2>1. IsFiniteSet(T) /\ Cardinality(T) \in Nat BY FS_Subset, FS_CardinalityType
    <2>2. b \notin Below(S, b) BY DEF Below
    <2>3. Below(S, b) \in SUBSET T /\ Below(S, b) # T BY <1>3, <2>2
    <2>4. r(b) <= Cardinality(T) /\ (r(b) = Cardinality(T) => Below(S, b) = T)
      BY <2>1, <2>3, FS_Subset
    <2> QED BY <2>1, <2>3, <2>4, <1>2
  <1>4. ASSUME NEW b \in S PROVE r(b) \in 0 .. Cardinality(S) - 1
    <2>1. Below(S, b) \subseteq S BY DEF Below
    <2>2. r(b) < Cardinality(S) /\ r(b) \in Nat BY <2>1, <1>2, <1>3
    <2> QED BY <2>2, <1>1
  <1>5. ASSUME NEW b \in S, NEW c \in S, b < c PROVE r(b) < r(c)
    <2>1. Below(S, c) \in SUBSET S /\ Below(S, b) \subseteq Below(S, c) /\ b \in Below(S, c)
      <3>1. \A x \in Nat : x < b => x < c BY <1>5
      <3> QED BY <1>5, <3>1 DEF Below
    <2> QED BY <2>1, <1>3
  <1> DEFINE f == [b \in S |-> r(b)]
             T == {r(b) : b \in S}
  <1>6. \A b, c \in S : r(b) = r(c) => b = c
    <2>1. SUFFICES ASSUME NEW b \in S, NEW c \in S, r(b) = r(c), b # c PROVE FALSE
      OBVIOUS
    <2>2. b < c \/ c < b BY <2>1
    <2>3. r(b) \in Nat /\ r(c) \in Nat BY <1>2
    <2> QED BY <2>1, <2>2, <2>3, <1>5
  <1>7. T \subseteq 0 .. Cardinality(S) - 1 BY <1>4
  <1>8. f \in Bijection(S, T)
    <2> HIDE DEF r
    <2> QED BY <1>6 DEF Bijection, Injection, Surjection, IsInjective
  <1>9. Cardinality(T) = Cardinality(S)
    <2> HIDE DEF f, T
    <2> QED BY <1>8, FS_Bijection DEF ExistsBijection
  <1>10. /\ IsFiniteSet(0 .. Cardinality(S) - 1)
         /\ Cardinality(0 .. Cardinality(S) - 1) = Cardinality(S)
    <2> DEFINE n == Cardinality(S) - 1
    <2>1. n \in Int /\ 0 \in Int /\ Cardinality(S) \in Nat BY <1>1
    <2>2. IsFiniteSet(0 .. n) /\ Cardinality(0 .. n) = IF 0 > n THEN 0 ELSE n - 0 + 1
      BY <2>1, FS_Interval, Zenon
    <2> QED BY <2>1, <2>2
  <1>11. T = 0 .. Cardinality(S) - 1
    <2> HIDE DEF T
    <2> QED BY <1>7, <1>9, <1>10, FS_Subset
  <1> HIDE DEF f
  <1> QED BY <1>1, <1>4, <1>5, <1>11

\* The places of the logged blocks of t are the indices after its revoke block.
LEMMA Places ==
    ASSUME NEW t \in TransType, NEW n \in Nat, n = Cardinality(t.logged), NEW first \in Nat,
           first = t.start + NCommitBlk + revokelen(t)
    PROVE  /\ \A b \in t.logged : place(t, b) \in first .. first + n - 1
           /\ \A b, c \in t.logged : place(t, b) = place(t, c) => b = c
           /\ \A i \in first .. first + n - 1 : \E b \in t.logged : i = place(t, b)
  <1> DEFINE S == t.logged
  <1>1. S \in SUBSET Nat /\ IsFiniteSet(S)
    <2>1. S \subseteq Blocks BY DEF TransType
    <2>2. Blocks \subseteq Nat BY LogAssumption DEF Blocks
    <2> QED BY <2>1, <2>2, LoggedCount
  <1>2. \A b : place(t, b) = first + Cardinality(Below(S, b)) BY DEF place, Below
  <1> HIDE DEF S
  <1>3. /\ \A b \in S : Cardinality(Below(S, b)) \in 0 .. n - 1
        /\ \A b, c \in S : b < c => Cardinality(Below(S, b)) < Cardinality(Below(S, c))
        /\ \A k \in 0 .. n - 1 : \E b \in S : Cardinality(Below(S, b)) = k
    <2>1. n = Cardinality(S) BY DEF S
    <2> QED BY <1>1, <2>1, Rank
  <1>4. ASSUME NEW b \in S PROVE place(t, b) \in first .. first + n - 1 BY <1>2, <1>3
  <1>5. ASSUME NEW b \in S, NEW c \in S, place(t, b) = place(t, c) PROVE b = c
    <2>1. b \in Nat /\ c \in Nat BY <1>1
    <2>2. Cardinality(Below(S, b)) \in Nat /\ Cardinality(Below(S, c)) \in Nat BY <1>3
    <2>3. Cardinality(Below(S, b)) = Cardinality(Below(S, c)) BY <2>2, <1>2, <1>5
    <2> QED BY <2>1, <2>2, <2>3, <1>3
  <1>6. ASSUME NEW i \in first .. first + n - 1 PROVE \E b \in S : i = place(t, b)
    <2>1. i - first \in 0 .. n - 1
      OBVIOUS
    <2>2. PICK b \in S : Cardinality(Below(S, b)) = i - first BY <2>1, <1>3
    <2> QED BY <2>2, <1>2
  <1> QED BY <1>4, <1>5, <1>6 DEF S

\* A sequence with an element put before it.
LEMMA Prepended ==
    ASSUME NEW S, NEW x, NEW q \in Seq(S)
    PROVE  /\ <<x>> \o q # << >> /\ (<<x>> \o q)[1] = x
           /\ Len(<<x>> \o q) = Len(q) + 1
           /\ \A n \in 1 .. Len(q) : (<<x>> \o q)[n + 1] = q[n]
  <1>1. q \in Seq(S \cup {x}) /\ <<x>> \in Seq(S \cup {x})
    <2>1. q \in [1 .. Len(q) -> S] /\ Len(q) \in Nat
      OBVIOUS
    <2>2. q \in [1 .. Len(q) -> S \cup {x}] BY <2>1
    <2> QED BY <2>1, <2>2
  <1> QED BY <1>1

\* What is in the log once the pages of the committer's transaction are.
LEMMA ComPages ==
    ASSUME TypeOK, BlocksInv, ComInv, cpc \in {"ordered", "commithead"}, com.start # com.head
    PROVE  /\ IsTrans(Pages, com.start, com.head) /\ Words(Pages, com.start)[1] = CommitBlk
           /\ \A i \in com.start + 1 .. com.head - 1, b \in Blocks :
                 Words(Pages, com.start)[i - com.start + 1] = b
                    <=> b \in com.logged /\ i = place(com, b)
           /\ com.revoked # << >> =>
                 /\ Words(Pages, com.start)[2] = RevokeBlk
                 /\ Words(Pages, com.start + 1) = <<RevokeBlk>> \o com.revoked
  <1> DEFINE s == com.start
             e == com.head
             n == Cardinality(com.logged)
             first == s + NCommitBlk + revokelen(com)
             D == descriptor(com)
  <1>1. com \in TransType /\ s \in Nat /\ e \in Nat /\ com.revoked \in Seq(Blocks)
    BY LiveTypes DEF TransType
  <1>2. n \in Nat /\ revokelen(com) \in 0 .. 1 /\ IsFiniteSet(com.logged)
    BY <1>1, LoggedCount
  <1>3. cpc \in Pre /\ cpc # "commit" BY DEF Pre
  <1>4. ~(com.logged = {} /\ com.revoked = << >>) BY <1>1, <1>3 DEF ComInv
  <1>5. e = s + (1 + revokelen(com) + n) /\ first \in Nat /\ first = s + 1 + revokelen(com)
        /\ e = first + n
    <2>1. com.head = com.start + (IF com.logged = {} /\ com.revoked = << >> THEN 0
                                  ELSE NCommitBlk + revokelen(com) + Cardinality(com.logged))
      BY <1>3 DEF ComInv
    <2>2. com.head = com.start + (NCommitBlk + revokelen(com) + Cardinality(com.logged))
      BY <2>1, <1>4, Zenon
    <2> QED BY <2>2, <1>1, <1>2 DEF NCommitBlk
  <1>6. e - s >= 2
    <2>1. CASE com.revoked = << >>
      <3>1. com.logged # {} BY <1>4, <2>1
      <3>2. n # 0 BY <3>1, <1>2, FS_EmptySet
      <3> QED BY <3>2, <1>1, <1>2, <1>5
    <2>2. CASE com.revoked # << >>
      <3>1. revokelen(com) = 1 BY <2>2 DEF revokelen
      <3> QED BY <3>1, <1>1, <1>2, <1>5
    <2> QED BY <2>1, <2>2
  <1>7. \A i \in Int : /\ Words(Pages, i) = memlog[logindex(i)].desc
                       /\ Pages[logindex(i)].data = memlog[logindex(i)].data
    BY SlotType DEF Words, Pages, DestageLog
  <1>8. Words(Pages, s) = D BY <1>1, <1>3, <1>7 DEF ComInv
  <1>9. \A k \in 1 .. e - s : D[k] = LET l == memlog[logindex(s + k - 1)]
                                     IN  IF k = 1 THEN CommitBlk
                                         ELSE IF l.type = DataBlk THEN l.block ELSE l.type
    BY DEF descriptor
  <1>10. Len(D) = e - s
    <2>1. D \in Seq(Int) BY <1>1, DescriptorType
    <2>2. DOMAIN D = 1 .. e - s BY DEF descriptor
    <2>3. DOMAIN D = 1 .. Len(D) /\ Len(D) \in Nat BY <2>1
    <2>4. e - s \in Nat BY <1>1, <1>6
    <2> HIDE DEF D
    <2> QED BY <2>2, <2>3, <2>4
  <1>11. D[1] = CommitBlk BY <1>1, <1>6, <1>9
  <1>12. /\ \A b \in com.logged : place(com, b) \in first .. e - 1
         /\ \A b, c \in com.logged : place(com, b) = place(com, c) => b = c
         /\ \A i \in first .. e - 1 : \E b \in com.logged : i = place(com, b)
    <2>1. first + n - 1 = e - 1
      <3>1. e = first + n /\ e \in Nat /\ first \in Nat /\ n \in Nat BY <1>1, <1>2, <1>5
      <3> HIDE DEF e, first, n
      <3> QED BY <3>1
    <2>2. n = Cardinality(com.logged) /\ first = com.start + NCommitBlk + revokelen(com)
      OBVIOUS
    <2> HIDE DEF first, n, e, s
    <2>3. /\ \A b \in com.logged : place(com, b) \in first .. first + n - 1
          /\ \A b, c \in com.logged : place(com, b) = place(com, c) => b = c
          /\ \A i \in first .. first + n - 1 : \E b \in com.logged : i = place(com, b)
      BY <2>2, <1>1, <1>2, <1>5, Places
    <2> QED BY <2>1, <2>3, Zenon
  <1>13. ASSUME NEW i \in s + 1 .. e - 1
         PROVE  D[i - s + 1] = IF memlog[logindex(i)].type = DataBlk
                               THEN memlog[logindex(i)].block ELSE memlog[logindex(i)].type
    <2>1. i - s + 1 \in 1 .. e - s /\ i - s + 1 # 1 /\ s + (i - s + 1) - 1 = i BY <1>1
    <2> HIDE DEF D, e, s
    <2> QED BY <2>1, <1>9
  <1> HIDE DEF D, first, n, s, e
  <1>14. ASSUME NEW i \in s + 1 .. e - 1, i < first
         PROVE  /\ com.revoked # << >> /\ i = s + 1 /\ D[i - s + 1] = RevokeBlk
                /\ Words(Pages, i) = <<RevokeBlk>> \o com.revoked
    <2>1. revokelen(com) = 1 /\ i = s + 1 BY <1>14, <1>1, <1>2, <1>5
    <2>2. com.revoked # << >> BY <2>1 DEF revokelen
    <2>3. /\ memlog[logindex(i)].type = RevokeBlk
          /\ memlog[logindex(i)].desc = <<RevokeBlk>> \o com.revoked
      BY <1>3, <2>1, <2>2 DEF ComInv, s, NCommitBlk
    <2>4. D[i - s + 1] = RevokeBlk BY <1>13, <2>3 DEF RevokeBlk, DataBlk
    <2> QED BY <2>1, <2>2, <2>3, <2>4, <1>1, <1>7
  <1>15. ASSUME NEW b \in com.logged
         PROVE  /\ D[place(com, b) - s + 1] = b
                /\ Words(Pages, place(com, b)) = << >>
                /\ Pages[logindex(place(com, b))].data \in Vals
                /\ place(com, b) \in s + 1 .. e - 1 /\ place(com, b) \in Int
    <2>1. place(com, b) \in s + 1 .. e - 1 /\ place(com, b) \in Int
      BY <1>1, <1>2, <1>5, <1>12
    <2>2. /\ memlog[logindex(place(com, b))].type = DataBlk
          /\ memlog[logindex(place(com, b))].block = b
          /\ memlog[logindex(place(com, b))].desc = << >>
          /\ memlog[logindex(place(com, b))].data \in Vals
      BY <1>3 DEF ComInv
    <2> QED BY <2>1, <2>2, <1>7, <1>13
  <1>16. ASSUME NEW i \in s + 1 .. e - 1, ~(i < first)
         PROVE  \E b \in com.logged : i = place(com, b)
    <2>1. i \in first .. e - 1 BY <1>1, <1>5, <1>16
    <2> QED BY <2>1, <1>12
  <1>17. com.logged \subseteq LogBlks BY DEF BlocksInv, com, TypeOK, TransesType
  <1>18. IsTrans(Pages, s, e)
    <2>1. ASSUME NEW i \in s + 1 .. e - 1
          PROVE  LET w == Words(Pages, s)[i - s + 1]
                 IN  \/ w \in LogBlks /\ Words(Pages, i) = << >> /\ Pages[logindex(i)].data \in Vals
                     \/ /\ i = s + 1 /\ w = RevokeBlk
                        /\ Words(Pages, i) # << >> /\ Words(Pages, i)[1] = RevokeBlk
      <3>1. CASE i < first
        <4>1. /\ i = s + 1 /\ D[i - s + 1] = RevokeBlk
              /\ Words(Pages, i) = <<RevokeBlk>> \o com.revoked
          BY <3>1, <1>14
        <4>2. Words(Pages, i) # << >> /\ Words(Pages, i)[1] = RevokeBlk
          BY <4>1, <1>1, Prepended
        <4> QED BY <4>1, <4>2, <1>8
      <3>2. CASE ~(i < first)
        <4>1. PICK b \in com.logged : i = place(com, b) BY <3>2, <1>16
        <4>2. D[i - s + 1] = b /\ Words(Pages, i) = << >> /\ Pages[logindex(i)].data \in Vals
          BY <4>1, <1>15
        <4> QED BY <4>2, <1>8, <1>17
      <3> QED BY <3>1, <3>2
    <2> QED BY <2>1, <1>6, <1>8, <1>10 DEF IsTrans
  <1>19. ASSUME NEW i \in s + 1 .. e - 1, NEW b \in Blocks
         PROVE  D[i - s + 1] = b <=> b \in com.logged /\ i = place(com, b)
    <2>1. CASE i < first
      <3>1. D[i - s + 1] = RevokeBlk /\ b # RevokeBlk
        BY <2>1, <1>14, LogAssumption DEF Blocks, RevokeBlk
      <3>2. ASSUME b \in com.logged, i = place(com, b) PROVE FALSE
        <4>1. i \in first .. e - 1 BY <3>2, <1>12
        <4> QED BY <4>1, <2>1, <1>5
      <3> QED BY <3>1, <3>2
    <2>2. CASE ~(i < first)
      <3>1. PICK c \in com.logged : i = place(com, c) BY <2>2, <1>16
      <3>2. D[i - s + 1] = c BY <3>1, <1>15
      <3> QED BY <3>1, <3>2, <1>12
    <2> QED BY <2>1, <2>2
  <1>20. ASSUME com.revoked # << >>
         PROVE  /\ Words(Pages, s)[2] = RevokeBlk
                /\ Words(Pages, s + 1) = <<RevokeBlk>> \o com.revoked
    <2>1. revokelen(com) = 1 BY <1>20 DEF revokelen
    <2>2. s + 1 \in s + 1 .. e - 1 /\ s + 1 < first /\ (s + 1) - s + 1 = 2
      BY <2>1, <1>1, <1>2, <1>5, <1>6
    <2>3. D[(s + 1) - s + 1] = RevokeBlk /\ Words(Pages, s + 1) = <<RevokeBlk>> \o com.revoked
      BY <2>2, <1>14
    <2> QED BY <2>2, <2>3, <1>8
  <1> QED BY <1>8, <1>11, <1>18, <1>19, <1>20 DEF s, e

(***************************************************************************)
(* Steps of the file system's threads.                                     *)
(***************************************************************************)
\* A step of the file system leaves the disk, the committer and the position
\* of transactions alone.
FsFrame ==
    /\ curtrans' = curtrans /\ ct' = ct /\ early' = early /\ tail' = tail
    /\ translog' = translog /\ memlog' = memlog
    /\ mhome' = mhome /\ mlog' = mlog /\ mhdr' = mhdr /\ stable' = stable
    /\ whome' = whome /\ wlog' = wlog /\ whdr' = whdr /\ dma' = dma
    /\ ord' = ord /\ promised'.wait = promised.wait
    /\ cpc' = cpc \/ (cpc = "sleep" /\ cpc' = "wake")
    /\ LockFree
    /\ \A i \in {0, 1} : trans'[i].start = trans[i].start /\ trans'[i].head = trans[i].head
    /\ trans'[1 - curtrans] = trans[1 - curtrans]

\* It writes no block ...
NoWrite ==
    /\ cache' = cache
    /\ \A i \in {0, 1} : /\ trans'[i].logged = trans[i].logged
                         /\ trans'[i].ordered = trans[i].ordered
                         /\ trans'[i].revoked = trans[i].revoked

\* ... or one.
OneWrite(p, b, ordered) ==
    /\ pc[p] = "op"
    /\ b \in IF ordered THEN OrdBlks ELSE LogBlks
    /\ \E v \in Vals : cache' = [cache EXCEPT ![b] = v]
    /\ trans'[curtrans] = add_write(cur, b, ordered)

\* A transaction that is replaced by one with the same start and head.
LEMMA ReplaceCur ==
    ASSUME TypeOK, NEW t, trans' = [trans EXCEPT ![curtrans] = t],
           t.start = cur.start, t.head = cur.head
    PROVE  /\ trans'[curtrans] = t /\ trans'[1 - curtrans] = trans[1 - curtrans]
           /\ \A i \in {0, 1} : trans'[i].start = trans[i].start /\ trans'[i].head = trans[i].head
           /\ \A i \in {0, 1} : i # curtrans => trans'[i] = trans[i]
  <1>1. curtrans \in {0, 1} /\ trans \in [{0, 1} -> TransType] BY DEF TypeOK, TransesType
  <1>2. /\ trans'[curtrans] = t
        /\ \A i \in {0, 1} : i # curtrans => trans'[i] = trans[i]
    BY <1>1
  <1>3. 1 - curtrans \in {0, 1} /\ 1 - curtrans # curtrans BY <1>1
  <1> QED BY <1>1, <1>2, <1>3 DEF cur

LEMMA SignalStep ==
    ASSUME cpc' = Signal \/ cpc' = cpc
    PROVE  cpc' = cpc \/ (cpc = "sleep" /\ cpc' = "wake")
  BY DEF Signal

LEMMA FsEffects ==
    ASSUME TypeOK, NEW p \in Procs, Fs(p)
    PROVE  FsFrame /\ (NoWrite \/ \E b \in Blocks, o \in BOOLEAN : OneWrite(p, b, o))
  <1>0. cur \in TransType /\ curtrans \in {0, 1} /\ trans \in [{0, 1} -> TransType]
    BY LiveTypes DEF TypeOK, TransesType
  <1>1. CASE Op_begin(p)
    <2>1. /\ curtrans' = curtrans /\ ct' = ct /\ early' = early /\ tail' = tail
          /\ translog' = translog /\ memlog' = memlog
          /\ mhome' = mhome /\ mlog' = mlog /\ mhdr' = mhdr /\ stable' = stable
          /\ whome' = whome /\ wlog' = wlog /\ whdr' = whdr /\ dma' = dma
          /\ ord' = ord /\ promised' = promised /\ cpc' = cpc /\ cache' = cache /\ LockFree
      BY <1>1 DEF Op_begin, diskVars, histVars, Running
    <2>2. trans' = trans \/ trans' = [trans EXCEPT ![curtrans] = [cur EXCEPT !.inprogress = @ + 1]]
      BY <1>1 DEF Op_begin, cur
    <2> DEFINE t == [cur EXCEPT !.inprogress = @ + 1]
    <2>3. /\ t.start = cur.start /\ t.head = cur.head /\ t.logged = cur.logged
          /\ t.ordered = cur.ordered /\ t.revoked = cur.revoked
      BY <1>0 DEF TransType
    <2> HIDE DEF t
    <2>4. CASE trans' = trans BY <2>1, <2>4 DEF FsFrame, NoWrite
    <2>5. CASE trans' = [trans EXCEPT ![curtrans] = t]
      BY <1>0, <2>1, <2>3, <2>5, ReplaceCur DEF FsFrame, NoWrite, cur
    <2> QED BY <2>2, <2>4, <2>5 DEF t
  <1>2. ASSUME NEW b \in Blocks, NEW v \in Vals, NEW o \in BOOLEAN, Write(p, b, v, o),
               b \in IF o THEN OrdBlks ELSE LogBlks
        PROVE  FsFrame /\ OneWrite(p, b, o)
    <2>1. /\ curtrans' = curtrans /\ ct' = ct /\ early' = early /\ tail' = tail
          /\ translog' = translog /\ memlog' = memlog
          /\ mhome' = mhome /\ mlog' = mlog /\ mhdr' = mhdr /\ stable' = stable
          /\ whome' = whome /\ wlog' = wlog /\ whdr' = whdr /\ dma' = dma
          /\ ord' = ord /\ promised' = promised /\ cpc' = cpc /\ LockFree
          /\ cache' = [cache EXCEPT ![b] = v] /\ pc[p] = "op"
      BY <1>2 DEF Write, diskVars, histVars, Running
    <2> DEFINE t == add_write(cur, b, o)
    <2>2. trans' = [trans EXCEPT ![curtrans] = t] BY <1>2 DEF Write
    <2>3. t.start = cur.start /\ t.head = cur.head BY <1>0 DEF TransType, add_write
    <2> HIDE DEF t
    <2>4. FsFrame /\ trans'[curtrans] = t BY <2>1, <2>2, <2>3, ReplaceCur DEF FsFrame
    <2> QED BY <1>2, <2>1, <2>4 DEF OneWrite, t
  <1>3. CASE Op_end(p)
    <2>1. /\ curtrans' = curtrans /\ ct' = ct /\ early' = early /\ tail' = tail
          /\ translog' = translog /\ memlog' = memlog
          /\ mhome' = mhome /\ mlog' = mlog /\ mhdr' = mhdr /\ stable' = stable
          /\ whome' = whome /\ wlog' = wlog /\ whdr' = whdr /\ dma' = dma
          /\ ord' = ord /\ promised' = promised /\ cache' = cache /\ LockFree
      BY <1>3 DEF Op_end, diskVars, histVars, Running
    <2>2. cpc' = Signal \/ cpc' = cpc BY <1>3 DEF Op_end
    <2>3. \E c : trans' = [trans EXCEPT ![curtrans] =
                             [[cur EXCEPT !.inprogress = @ - 1] EXCEPT !.committing = c]]
      BY <1>3 DEF Op_end
    <2>4. PICK c : trans' = [trans EXCEPT ![curtrans] =
                             [[cur EXCEPT !.inprogress = @ - 1] EXCEPT !.committing = c]]
      BY <2>3
    <2> DEFINE t == [[cur EXCEPT !.inprogress = @ - 1] EXCEPT !.committing = c]
    <2>5. /\ t.start = cur.start /\ t.head = cur.head /\ t.logged = cur.logged
          /\ t.ordered = cur.ordered /\ t.revoked = cur.revoked
      BY <1>0 DEF TransType
    <2>6. trans' = [trans EXCEPT ![curtrans] = t] BY <2>4
    <2> HIDE DEF t
    <2> QED
      BY <1>0, <2>1, <2>2, <2>5, <2>6, ReplaceCur, SignalStep DEF FsFrame, NoWrite, cur
  <1>4. ASSUME NEW doapply, NEW stopping, LogForce(p, doapply, stopping)
        PROVE  FsFrame /\ NoWrite
    <2>1. /\ curtrans' = curtrans /\ ct' = ct /\ early' = early /\ tail' = tail
          /\ translog' = translog /\ memlog' = memlog
          /\ mhome' = mhome /\ mlog' = mlog /\ mhdr' = mhdr /\ stable' = stable
          /\ whome' = whome /\ wlog' = wlog /\ whdr' = whdr /\ dma' = dma
          /\ ord' = ord /\ cache' = cache /\ LockFree
      BY <1>4 DEF LogForce, diskVars, Running
    <2>2. cpc' = Signal \/ cpc' = cpc BY <1>4 DEF LogForce
    <2>3. promised' = promised \/ \E n : promised' = [promised EXCEPT !.all = n]
      BY <1>4 DEF LogForce
    <2>4. promised'.wait = promised.wait
      <3>1. promised \in [wait : Nat, all : Nat] BY DEF TypeOK, HistType
      <3> QED BY <2>3, <3>1
    <2>5. trans' = trans \/ trans' = [trans EXCEPT ![curtrans] = forced(cur, p, doapply)]
      BY <1>4 DEF LogForce
    <2> DEFINE t == forced(cur, p, doapply)
    <2>6. /\ t.start = cur.start /\ t.head = cur.head /\ t.logged = cur.logged
          /\ t.ordered = cur.ordered /\ t.revoked = cur.revoked
      BY <1>0 DEF TransType, forced
    <2> HIDE DEF t
    <2>7. CASE trans' = trans BY <2>1, <2>2, <2>4, <2>7, SignalStep DEF FsFrame, NoWrite
    <2>8. CASE trans' = [trans EXCEPT ![curtrans] = t]
      BY <1>0, <2>1, <2>2, <2>4, <2>6, <2>8, ReplaceCur, SignalStep DEF FsFrame, NoWrite, cur
    <2> QED BY <2>5, <2>7, <2>8 DEF t
  <1>5. CASE StopLog(p)
    <2>1. /\ curtrans' = curtrans /\ ct' = ct /\ early' = early /\ tail' = tail
          /\ translog' = translog /\ memlog' = memlog /\ trans' = trans
          /\ mhome' = mhome /\ mlog' = mlog /\ mhdr' = mhdr /\ stable' = stable
          /\ whome' = whome /\ wlog' = wlog /\ whdr' = whdr /\ dma' = dma
          /\ ord' = ord /\ promised' = promised /\ cache' = cache /\ LockFree /\ cpc' = Signal
      BY <1>5 DEF StopLog, transVars, diskVars, histVars, Running
    <2> QED BY <2>1, SignalStep DEF FsFrame, NoWrite
  <1>6. LogBlks \subseteq Blocks /\ OrdBlks \subseteq Blocks BY DEF Blocks
  <1> QED BY <1>1, <1>2, <1>3, <1>4, <1>5, <1>6 DEF Fs

\* An operation writes only while the committer's transaction is another one.
LEMMA WriteApart ==
    ASSUME TypeOK, LogInv, NEW p \in Procs, pc[p] = "op", cpc \in Committing
    PROVE  curtrans = 1 - ct /\ ct = 1 - curtrans /\ curtrans # ct
  <1>1. Active # {} BY DEF Active
  <1>2. ~cur.committing BY <1>1, CommittingQuiet
  <1>3. curtrans = 1 - ct \/ (curtrans = ct /\ com.committing) BY DEF LogInv, SpaceInv
  <1>4. curtrans \in {0, 1} /\ ct \in {0, 1} BY DEF TypeOK, TransesType
  <1> QED BY <1>2, <1>3, <1>4 DEF cur, com

\* The elements of a sequence with one more.
LEMMA AppendRange ==
    ASSUME NEW S, NEW q \in Seq(S), NEW x \in S
    PROVE  Range(Append(q, x)) = Range(q) \cup {x}
  <1> DEFINE r == Append(q, x)
             n == Len(q)
  <1>1. n \in Nat /\ r \in Seq(S) /\ Len(r) = n + 1 /\ r[n + 1] = x
        /\ \A k \in 1 .. n : r[k] = q[k]
    OBVIOUS
  <1>2. DOMAIN r = 1 .. n + 1 /\ DOMAIN q = 1 .. n BY <1>1
  <1> HIDE DEF r, n
  <1>3. \A k \in 1 .. n + 1 : k \in 1 .. n \/ k = n + 1 BY <1>1
  <1>4. 1 .. n \subseteq 1 .. n + 1 /\ n + 1 \in 1 .. n + 1 BY <1>1
  <1> QED BY <1>1, <1>2, <1>3, <1>4 DEF Range, r

\* The committer's transaction is the same for a step of the file system.
ComSame ==
    /\ com'.start = com.start /\ com'.head = com.head
    /\ com'.logged = com.logged /\ com'.ordered = com.ordered /\ com'.revoked = com.revoked

LEMMA FsCom ==
    ASSUME TypeOK, LogInv, NEW p \in Procs, FsFrame,
           NoWrite \/ \E b \in Blocks, o \in BOOLEAN : OneWrite(p, b, o)
    PROVE  /\ com'.start = com.start /\ com'.head = com.head
           /\ cur'.start = cur.start /\ cur'.head = cur.head
           /\ cpc \in Committing => ComSame
  <1>1. curtrans \in {0, 1} /\ ct \in {0, 1} /\ 1 - curtrans \in {0, 1}
    BY DEF TypeOK, TransesType
  <1>2. curtrans' = curtrans /\ ct' = ct BY DEF FsFrame
  <1>3. /\ com'.start = com.start /\ com'.head = com.head
        /\ cur'.start = cur.start /\ cur'.head = cur.head
    BY <1>1, <1>2 DEF FsFrame, cur, com
  <1>4. CASE NoWrite BY <1>1, <1>2, <1>3, <1>4 DEF ComSame, NoWrite, com
  <1>5. CASE \E b \in Blocks, o \in BOOLEAN : OneWrite(p, b, o)
    <2>1. pc[p] = "op" BY <1>5 DEF OneWrite
    <2>2. cpc \in Committing => ct = 1 - curtrans BY <2>1, WriteApart
    <2>3. cpc \in Committing => com' = com BY <1>2, <2>2 DEF FsFrame, com
    <2> QED BY <1>3, <2>3 DEF ComSame
  <1> QED BY <1>3, <1>4, <1>5

\* Parts of the invariant that no step of the file system touches.
LEMMA FsKeeps ==
    ASSUME TypeOK, LogInv, DiskInv, FsFrame, com'.start = com.start, com'.head = com.head,
           cur'.start = cur.start, cpc \in Committing => ComSame
    PROVE  HdrInv' /\ DriveInv' /\ ShapeInv' /\ SameInv' /\ ComInv' /\ TlogInv' /\ ReplayInv'
           /\ StableInv' /\ WaitedForceDurable'
  <1>1. /\ tail' = tail /\ translog' = translog /\ memlog' = memlog
        /\ mhome' = mhome /\ mlog' = mlog /\ mhdr' = mhdr /\ stable' = stable
        /\ whome' = whome /\ wlog' = wlog /\ whdr' = whdr /\ dma' = dma
        /\ ord' = ord /\ promised'.wait = promised.wait
    BY DEF FsFrame
  <1>2. /\ cpc' \in Pre <=> cpc \in Pre /\ cpc' = cpc
        /\ cpc' \in Post <=> cpc \in Post /\ cpc' = cpc
        /\ cpc' \in Committing <=> cpc \in Committing /\ cpc' = cpc
        /\ Down' <=> Down
        /\ \A c \in {"commit", "commithead", "applytail", "recover", "ordered", "apply"} :
              cpc' = c <=> cpc = c
        /\ cpc' \in {"commithead", "applytail", "recover"}
              <=> cpc \in {"commithead", "applytail", "recover"}
    BY DEF FsFrame, Pre, Post, Committing, Down
  <1>3. Pages' = Pages /\ NoWrites' = NoWrites BY <1>1 DEF Pages, DestageLog, NoWrites
  <1>4. HdrInv'
    <2>1. HdrInv BY DEF DiskInv
    <2>2. /\ cpc' = "commithead" => whdr' = <<[mhdr' EXCEPT !.head = com'.head]>>
                                    /\ com'.start # com'.head
          /\ cpc' = "applytail" => whdr' = <<[mhdr' EXCEPT !.tail = com'.head]>>
          /\ cpc' = "recover" => whdr' = <<[mhdr' EXCEPT !.tail = mhdr'.head]>>
      BY <1>1, <1>2, <2>1, Zenon DEF HdrInv
    <2>3. /\ cpc' \notin {"commithead", "applytail", "recover"} => whdr' = << >>
          /\ cpc' \in Pre => mhdr'.head = com'.start
          /\ cpc' \in Post => mhdr'.head = com'.head
          /\ ~Down' => mhdr'.tail = tail'
      BY <1>1, <1>2, <2>1 DEF HdrInv
    <2>4. cpc' \notin Committing /\ ~Down' => mhdr'.head = cur'.start
      <3>1. cpc' \notin Committing => cpc \notin Committing BY DEF FsFrame, Committing
      <3> QED BY <1>1, <1>2, <2>1, <3>1 DEF HdrInv
    <2> QED BY <2>2, <2>3, <2>4 DEF HdrInv
  <1>5. DriveInv' BY <1>1, <1>2, <1>3 DEF DiskInv, DriveInv
  <1>6. ShapeInv' /\ ReplayInv' /\ StableInv' /\ WaitedForceDurable'
    BY <1>1 DEF DiskInv, ShapeInv, ReplayInv, StableInv, WaitedForceDurable
  <1>7. SameInv' BY <1>1, <1>2, <1>3 DEF DiskInv, SameInv
  <1>8. cpc \in Pre => cpc \in Committing BY DEF Pre, Committing
  <1>9. ComInv'
    <2>1. SUFFICES ASSUME cpc' \in Pre PROVE ComInv' BY DEF ComInv
    <2>2. cpc \in Pre /\ cpc' = cpc /\ ComSame BY <2>1, <1>2, <1>8
    <2>3. revokelen(com)' = revokelen(com) /\ \A b : place(com, b)' = place(com, b)
      BY <2>2 DEF ComSame, revokelen, place
    <2>4. descriptor(com)' = descriptor(com) BY <1>1, <2>2 DEF ComSame, descriptor
    <2> QED BY <1>1, <2>2, <2>3, <2>4 DEF DiskInv, ComInv, ComSame
  <1>10. TlogInv'
    <2>1. \A b : islogged(b)' = islogged(b) BY <1>1 DEF islogged
    <2> QED BY <1>1, <1>2, <1>8, <2>1 DEF DiskInv, TlogInv, ComSame
  <1> QED BY <1>4, <1>5, <1>6, <1>7, <1>9, <1>10

\* The parts about the blocks of the current transaction.
LEMMA FsBlocks ==
    ASSUME TypeOK, LogInv, DiskInv, NEW p \in Procs, FsFrame,
           NoWrite \/ \E b \in Blocks, o \in BOOLEAN : OneWrite(p, b, o),
           cpc \in Committing => ComSame
    PROVE  OrdInv' /\ BlocksInv' /\ RevInv'
  <1>1. /\ curtrans \in {0, 1} /\ ct \in {0, 1} /\ cur \in TransType /\ com \in TransType
        /\ trans \in [{0, 1} -> TransType] /\ cache \in [Blocks -> Vals]
        /\ curtrans' = curtrans /\ ct' = ct /\ translog' = translog /\ ord' = ord
        /\ dma' = dma /\ whome' = whome /\ mhome' = mhome
    BY LiveTypes DEF TypeOK, TransesType, KernelType, FsFrame
  <1>2. \A b : islogged(b)' = islogged(b) BY <1>1 DEF islogged
  <1>3. /\ cpc' \in Pre => cpc \in Pre /\ cpc' = cpc
        /\ cpc' = "ordered" => cpc = "ordered"
        /\ cpc' \in {"commithead", "committed"} => cpc' = cpc
        /\ cpc \in Pre => cpc \in Committing
    BY DEF FsFrame, Pre, Committing
  <1>4. cpc' \in Pre => /\ com'.logged = com.logged /\ com'.revoked = com.revoked
                        /\ ComOrdered' = ComOrdered
    BY <1>1, <1>3 DEF ComSame, ComOrdered
  <1>5. CASE NoWrite
    <2>1. /\ cur'.ordered = cur.ordered /\ cur'.logged = cur.logged /\ cur'.revoked = cur.revoked
          /\ cache' = cache
      BY <1>1, <1>5 DEF NoWrite, cur
    <2>2. OrdInv' BY <1>1, <1>3, <2>1 DEF DiskInv, OrdInv, OrderedBeforeCommit
    <2>3. BlocksInv' BY <1>1, <1>5 DEF DiskInv, BlocksInv, NoWrite
    <2>4. RevInv' BY <1>1, <1>2, <1>3, <1>4, <2>1 DEF DiskInv, RevInv
    <2> QED BY <2>2, <2>3, <2>4
  <1>6. CASE \E b \in Blocks, o \in BOOLEAN : OneWrite(p, b, o)
    <2>1. PICK b \in Blocks, o \in BOOLEAN : OneWrite(p, b, o) BY <1>6
    <2>2. PICK v \in Vals : cache' = [cache EXCEPT ![b] = v] BY <2>1 DEF OneWrite
    <2>3. cur' = add_write(cur, b, o) /\ (b \in IF o THEN OrdBlks ELSE LogBlks)
      BY <1>1, <2>1 DEF OneWrite, cur
    <2>4. /\ cur'.logged = IF o THEN cur.logged \ {b} ELSE cur.logged \cup {b}
          /\ cur'.ordered = IF o THEN cur.ordered \cup {b} ELSE cur.ordered \ {b}
          /\ cur'.revoked = IF o /\ b \notin cur.ordered /\ islogged(b)
                            THEN Append(cur.revoked, b) ELSE cur.revoked
      <3>1. cur \in TransType BY <1>1
      <3>2. /\ add_write(cur, b, o).logged = IF o THEN cur.logged \ {b} ELSE cur.logged \cup {b}
            /\ add_write(cur, b, o).ordered = IF o THEN cur.ordered \cup {b} ELSE cur.ordered \ {b}
            /\ add_write(cur, b, o).revoked = IF o /\ b \notin cur.ordered /\ islogged(b)
                                              THEN Append(cur.revoked, b) ELSE cur.revoked
        BY <3>1 DEF add_write, TransType
      <3> QED BY <2>3, <3>2
    <2>5. cur'.ordered \cup cur'.logged = cur.ordered \cup cur.logged \cup {b} BY <2>4
    <2>6. OrdInv'
      <3>1. \A c \in Blocks \ {b} : cache'[c] = cache[c] BY <1>1, <2>2
      <3>2. ord.com \subseteq Blocks BY DEF TypeOK, HistType
      <3> QED BY <1>1, <1>3, <2>5, <3>1, <3>2 DEF DiskInv, OrdInv, OrderedBeforeCommit
    <2>7. /\ cur.revoked \in Seq(Blocks)
          /\ Range(Append(cur.revoked, b)) = Range(cur.revoked) \cup {b}
      <3>1. cur.revoked \in Seq(Blocks) BY <1>1 DEF TransType
      <3> QED BY <3>1, AppendRange
    <2>8. /\ cur.logged \subseteq LogBlks /\ cur.ordered \subseteq OrdBlks
          /\ Range(cur.revoked) \subseteq OrdBlks /\ cur.logged \cap cur.ordered = {}
      BY <1>1 DEF DiskInv, BlocksInv, cur
    <2>9. /\ cur'.logged \subseteq LogBlks /\ cur'.ordered \subseteq OrdBlks
          /\ Range(cur'.revoked) \subseteq OrdBlks /\ cur'.logged \cap cur'.ordered = {}
      BY <2>3, <2>4, <2>7, <2>8
    <2>10. BlocksInv'
      <3>1. \A i \in {0, 1} : i = curtrans \/ i = 1 - curtrans BY <1>1
      <3>2. ASSUME NEW i \in {0, 1}
            PROVE  /\ trans'[i].logged \subseteq LogBlks /\ trans'[i].ordered \subseteq OrdBlks
                   /\ Range(trans'[i].revoked) \subseteq OrdBlks
                   /\ trans'[i].logged \cap trans'[i].ordered = {}
        <4>1. CASE i = curtrans BY <1>1, <2>9, <4>1 DEF cur
        <4>2. CASE i = 1 - curtrans BY <4>2 DEF DiskInv, BlocksInv, FsFrame
        <4> QED BY <3>1, <4>1, <4>2
      <3> QED BY <1>1, <3>2 DEF DiskInv, BlocksInv
    <2>11. RevInv'
      <3>1. \A c \in cur'.ordered : islogged(c) => c \in Range(cur'.revoked)
        BY <2>4, <2>7 DEF DiskInv, RevInv
      <3> QED BY <1>2, <1>3, <1>4, <3>1 DEF DiskInv, RevInv
    <2> QED BY <2>6, <2>10, <2>11
  <1> QED BY <1>5, <1>6

LEMMA FsDisk ==
    ASSUME TypeOK, LogInv, DiskInv, NEW p \in Procs, Fs(p) PROVE DiskInv'
  <1>1. FsFrame /\ (NoWrite \/ \E b \in Blocks, o \in BOOLEAN : OneWrite(p, b, o))
    BY FsEffects
  <1>2. /\ com'.start = com.start /\ com'.head = com.head
        /\ cur'.start = cur.start /\ (cpc \in Committing => ComSame)
    BY <1>1, FsCom
  <1> QED BY <1>1, <1>2, FsKeeps, FsBlocks DEF DiskInv

(***************************************************************************)
(* Steps of the committer between two transactions.                        *)
(***************************************************************************)
\* The committer does not touch the log or the disk.
Untouched ==
    /\ memlog' = memlog /\ tail' = tail /\ cache' = cache
    /\ mhome' = mhome /\ mlog' = mlog /\ mhdr' = mhdr /\ stable' = stable
    /\ whome' = whome /\ wlog' = wlog /\ whdr' = whdr /\ dma' = dma
    /\ ord' = ord /\ promised' = promised

\* A fresh transaction has no blocks.
LEMMA FreshTrans ==
    ASSUME NEW n
    PROVE  /\ mk_trans(n).start = n /\ mk_trans(n).logged = {} /\ mk_trans(n).ordered = {}
           /\ mk_trans(n).revoked = << >> /\ Range(mk_trans(n).revoked) = {}
           /\ mk_trans(n).waiters = {} /\ ~mk_trans(n).forcedone /\ ~mk_trans(n).committing
  <1>1. Range(<< >>) = {} BY DEF Range
  <1> QED BY <1>1 DEF mk_trans

\* Between transactions.
LEMMA BetweenDisk ==
    ASSUME TypeOK, DiskInv, Untouched, translog' = translog,
           cpc \in {"wake", "run", "finish"}, cpc' \in {"sleep", "run", "exited"},
           cur'.start = mhdr.head,
           \A i \in {0, 1} : trans'[i] = trans[i] \/ \E n : trans'[i] = mk_trans(n),
           cur' = cur \/ \E n : cur' = mk_trans(n)
    PROVE  DiskInv'
  <1>1. /\ cpc \notin {"commit", "ordered", "commithead", "apply", "applytail", "recover"}
        /\ cpc \notin Pre /\ ~Down
        /\ cpc' \notin {"commit", "ordered", "commithead", "committed", "apply", "applytail", "recover"}
        /\ cpc' \notin Pre /\ cpc' \notin Post /\ ~Down'
    BY DEF Pre, Post, Down
  <1>2. HdrInv' BY <1>1 DEF DiskInv, HdrInv, Untouched
  <1>3. DriveInv'
    <2>1. NoWrites' = NoWrites BY DEF NoWrites
    <2> QED BY <1>1, <2>1 DEF DiskInv, DriveInv, Untouched
  <1>4. OrdInv' /\ ComInv' BY <1>1 DEF OrdInv, OrderedBeforeCommit, ComInv
  <1>5. BlocksInv'
    <2>1. ASSUME NEW i \in {0, 1}
          PROVE  /\ trans'[i].logged \subseteq LogBlks /\ trans'[i].ordered \subseteq OrdBlks
                 /\ Range(trans'[i].revoked) \subseteq OrdBlks
                 /\ trans'[i].logged \cap trans'[i].ordered = {}
      <3>1. CASE trans'[i] = trans[i] BY <3>1 DEF DiskInv, BlocksInv
      <3>2. CASE \E n : trans'[i] = mk_trans(n) BY <3>2, FreshTrans
      <3> QED BY <3>1, <3>2
    <2> QED BY <2>1 DEF DiskInv, BlocksInv, Untouched
  <1>6. ShapeInv' /\ ReplayInv' /\ StableInv' /\ WaitedForceDurable'
    BY DEF DiskInv, ShapeInv, ReplayInv, StableInv, WaitedForceDurable, Untouched
  <1>7. SameInv'
    <2>1. Pages' = Pages BY DEF Pages, DestageLog, Untouched
    <2> QED BY <1>1, <2>1 DEF DiskInv, SameInv, Untouched
  <1>8. \A b : islogged(b)' = islogged(b) BY DEF islogged
  <1>9. TlogInv' BY <1>1, <1>8 DEF DiskInv, TlogInv, Untouched
  <1>10. RevInv'
    <2>1. \A b \in cur'.ordered : islogged(b) => b \in Range(cur'.revoked)
      <3>1. CASE cur' = cur BY <3>1 DEF DiskInv, RevInv
      <3>2. CASE \E n : cur' = mk_trans(n) BY <3>2, FreshTrans
      <3> QED BY <3>1, <3>2
    <2> QED BY <1>1, <1>8, <2>1 DEF RevInv
  <1> QED BY <1>2, <1>3, <1>4, <1>5, <1>6, <1>7, <1>9, <1>10 DEF DiskInv

LEMMA BottomState == ASSUME NEW t, NEW s PROVE Bottom(t, s) \in {"sleep", "run"}
  BY DEF Bottom

LEMMA TopDisk ==
    ASSUME TypeOK, DiskInv, CommitterExit \/ CommitterIdle PROVE DiskInv'
  <1>1. /\ Untouched /\ translog' = translog /\ trans' = trans /\ curtrans' = curtrans
        /\ cpc \in {"wake", "run"} /\ cpc' \in {"sleep", "run", "exited"}
    BY BottomState DEF CommitterExit, CommitterIdle, AtTop, Untouched, transVars, diskVars, histVars
  <1>2. cur' = cur BY <1>1 DEF cur
  <1>3. cur.start = mhdr.head BY <1>1 DEF DiskInv, HdrInv, Committing, Down
  <1> QED BY <1>1, <1>2, <1>3, BetweenDisk

LEMMA FinishDisk ==
    ASSUME TypeOK, LogInv, DiskInv, CommitterFinish PROVE DiskInv'
  <1>1. /\ Untouched /\ translog' = translog /\ cpc = "finish" /\ cpc' \in {"sleep", "run", "exited"}
    BY BottomState DEF CommitterFinish, Untouched, diskVars, histVars
  <1>2. mhdr.head = com.head BY <1>1 DEF DiskInv, HdrInv, Post
  <1>3. ct \in {0, 1} /\ 1 - ct \in {0, 1} /\ trans \in [{0, 1} -> TransType]
    BY DEF TypeOK, TransesType
  <1>4. CASE early
    <2>1. trans' = trans /\ curtrans' = curtrans BY <1>4 DEF CommitterFinish
    <2>2. cur' = cur /\ cur.start = com.head
      BY <1>1, <1>4, <2>1 DEF cur, LogInv, SpaceInv, Committing
    <2> QED BY <1>1, <1>2, <2>1, <2>2, BetweenDisk
  <1>5. CASE ~early
    <2>1. trans' = [trans EXCEPT ![1 - ct] = mk_trans(com.head)] /\ curtrans' = 1 - ct
      BY <1>5 DEF CommitterFinish
    <2>2. /\ cur' = mk_trans(com.head)
          /\ \A i \in {0, 1} : trans'[i] = trans[i] \/ trans'[i] = mk_trans(com.head)
      BY <1>3, <2>1 DEF cur
    <2>3. cur'.start = mhdr.head BY <1>2, <2>2, FreshTrans
    <2>4. \E n : n = com.head
      OBVIOUS
    <2> QED BY <1>1, <2>2, <2>3, <2>4, BetweenDisk
  <1> QED BY <1>4, <1>5

(***************************************************************************)
(* The stages of a commit.                                                 *)
(***************************************************************************)
\* What copyrevoked and copylogged put into the in-memory log, and that they
\* leave the committed transactions alone.
LEMMA Copied ==
    ASSUME TypeOK, NEW t \in TransType, NEW e \in Nat,
           e = t.start + NCommitBlk + revokelen(t) + Cardinality(t.logged),
           tail <= t.start, e - tail <= loglen
    PROVE  /\ \A b \in t.logged :
                 copylogged(t)[logindex(place(t, b))]
                   = [type |-> DataBlk, block |-> b, desc |-> << >>, data |-> cache[b]]
           /\ t.revoked # << >> =>
                 copylogged(t)[logindex(t.start + NCommitBlk)]
                   = [type |-> RevokeBlk, block |-> t.revoked[1],
                      desc |-> <<RevokeBlk>> \o t.revoked, data |-> NoVal]
           /\ \A i \in tail .. t.start - 1 :
                 copylogged(t)[logindex(i)] = memlog[logindex(i)]
  <1> DEFINE s == t.start
             n == Cardinality(t.logged)
             first == s + NCommitBlk + revokelen(t)
  <1>1. s \in Nat /\ tail \in Nat /\ n \in Nat /\ revokelen(t) \in 0 .. 1
    BY LoggedCount DEF TransType, TypeOK, KernelType
  <1>2. first \in Nat /\ first + n = e /\ s + 1 <= first BY <1>1 DEF NCommitBlk
  <1>3. /\ \A b \in t.logged : place(t, b) \in first .. first + n - 1
        /\ \A b, c \in t.logged : place(t, b) = place(t, c) => b = c
    BY <1>1, <1>2, Places
  <1>4. \A i, j \in tail .. e - 1 : i # j => logindex(i) # logindex(j)
    <2>1. ASSUME NEW i \in tail .. e - 1, NEW j \in tail .. e - 1, i < j
          PROVE  logindex(i) # logindex(j)
      <3>1. i \in Nat /\ j \in Nat /\ j - i < loglen BY <1>1, Geometry
      <3> QED BY <2>1, <3>1, SlotsApart
    <2> QED BY <1>1, <2>1
  <1> HIDE DEF first, n, s
  <1>5. \A b \in t.logged : place(t, b) \in tail .. e - 1 /\ place(t, b) > s /\ place(t, b) \in Nat
    <2>1. tail <= s BY DEF s
    <2> QED BY <1>1, <1>2, <1>3, <2>1
  <1>6. t.revoked # << >> => /\ s + 1 \in tail .. e - 1 /\ first = s + 2 /\ NCommitBlk = 1
    <2>1. tail <= s BY DEF s
    <2>2. t.revoked # << >> => revokelen(t) = 1 BY DEF revokelen
    <2>3. first = s + 1 + revokelen(t) /\ NCommitBlk = 1 BY DEF first, NCommitBlk
    <2> QED BY <1>1, <1>2, <2>1, <2>2, <2>3
  <1>7. ASSUME NEW b \in t.logged
        PROVE  copylogged(t)[logindex(place(t, b))]
                 = [type |-> DataBlk, block |-> b, desc |-> << >>, data |-> cache[b]]
    <2>1. logindex(place(t, b)) \in Slots BY <1>5, SlotType
    <2>2. ~(t.revoked # << >> /\ logindex(place(t, b)) = logindex(s + NCommitBlk))
      <3>1. SUFFICES ASSUME t.revoked # << >> PROVE logindex(place(t, b)) # logindex(s + NCommitBlk)
        OBVIOUS
      <3>2. place(t, b) # s + 1 BY <3>1, <1>1, <1>3, <1>6
      <3> QED BY <3>1, <3>2, <1>4, <1>5, <1>6
    <2>3. \A c \in t.logged : logindex(place(t, b)) = logindex(place(t, c)) => c = b
      BY <1>3, <1>4, <1>5
    <2>4. (CHOOSE c \in t.logged : logindex(place(t, b)) = logindex(place(t, c))) = b
      BY <2>3
    <2> QED BY <2>1, <2>2, <2>4 DEF copylogged, s
  <1>8. ASSUME t.revoked # << >>
        PROVE  copylogged(t)[logindex(s + NCommitBlk)]
                 = [type |-> RevokeBlk, block |-> t.revoked[1],
                    desc |-> <<RevokeBlk>> \o t.revoked, data |-> NoVal]
    <2>1. logindex(s + NCommitBlk) \in Slots BY <1>1, SlotType DEF NCommitBlk
    <2> QED BY <1>8, <2>1 DEF copylogged, s
  <1>9. ASSUME NEW i \in tail .. s - 1
        PROVE  copylogged(t)[logindex(i)] = memlog[logindex(i)]
    <2>1. i \in tail .. e - 1 /\ i < s /\ i \in Int BY <1>1, <1>2
    <2>2. logindex(i) \in Slots BY <2>1, SlotType
    <2>3. ~(t.revoked # << >> /\ logindex(i) = logindex(s + NCommitBlk))
      BY <1>1, <1>4, <1>6, <2>1
    <2>4. ~ \E b \in t.logged : logindex(i) = logindex(place(t, b))
      BY <1>1, <1>4, <1>5, <2>1
    <2> QED BY <2>2, <2>3, <2>4 DEF copylogged, s
  <1> QED BY <1>7, <1>8, <1>9 DEF s

\* What the committer's first step does.
StartFrame(h) ==
    /\ cpc \in {"wake", "run"} /\ cpc' = "commit" /\ cur.committing
    /\ tail' = tail /\ cache' = cache
    /\ mhome' = mhome /\ mlog' = mlog /\ mhdr' = mhdr /\ stable' = stable
    /\ whome' = whome /\ wlog' = wlog /\ whdr' = whdr /\ dma' = dma
    /\ ord' = ord /\ promised' = promised
    /\ memlog' = copylogged(cur)
    /\ translog' = translog \cup {[head |-> h, logged |-> cur.logged]}
    /\ com' = [cur EXCEPT !.head = h]
    /\ cur' = IF early' THEN mk_trans(h) ELSE com'
    /\ \A i \in {0, 1} : trans'[i] = com' \/ trans'[i] = mk_trans(h) \/ trans'[i] = trans[i]
    /\ early' => trans'[1 - ct'] = mk_trans(h) /\ curtrans' = 1 - ct'
    /\ ~early' => curtrans' = ct'

LEMMA StartEffects ==
    ASSUME TypeOK, CommitterStart PROVE StartFrame(TransHead(cur))
  <1> DEFINE h == TransHead(cur)
             now == freespace(h, tail)
  <1>1. /\ cpc \in {"wake", "run"} /\ cpc' = "commit" /\ cur.committing
        /\ tail' = tail /\ cache' = cache
        /\ mhome' = mhome /\ mlog' = mlog /\ mhdr' = mhdr /\ stable' = stable
        /\ whome' = whome /\ wlog' = wlog /\ whdr' = whdr /\ dma' = dma
        /\ ord' = ord /\ promised' = promised
        /\ memlog' = copylogged(cur)
        /\ translog' = translog \cup {[head |-> h, logged |-> cur.logged]}
        /\ ct' = curtrans
    BY DEF CommitterStart, AtTop, diskVars, histVars
  <1>2. /\ early' = now
        /\ trans' = [i \in {0, 1} |-> IF i = curtrans THEN [cur EXCEPT !.head = h]
                                      ELSE IF now THEN mk_trans(h) ELSE trans[i]]
        /\ curtrans' = IF now THEN 1 - curtrans ELSE curtrans
    BY DEF CommitterStart
  <1> HIDE DEF h, now
  <1>3. curtrans \in {0, 1} /\ 1 - curtrans \in {0, 1} /\ 1 - curtrans # curtrans
    BY DEF TypeOK, TransesType
  <1>4. com' = [cur EXCEPT !.head = h] BY <1>1, <1>2, <1>3 DEF com
  <1>5. \A i \in {0, 1} : trans'[i] = com' \/ trans'[i] = mk_trans(h) \/ trans'[i] = trans[i]
    BY <1>2, <1>4
  <1>6. CASE now
    <2>1. early' /\ curtrans' = 1 - curtrans /\ trans'[1 - curtrans] = mk_trans(h)
      BY <1>2, <1>3, <1>6
    <2>2. cur' = mk_trans(h) BY <2>1 DEF cur
    <2> QED BY <1>1, <1>4, <1>5, <2>1, <2>2 DEF StartFrame, h
  <1>7. CASE ~now
    <2>1. ~early' /\ curtrans' = curtrans BY <1>2, <1>7
    <2>2. cur' = com' BY <1>1, <2>1 DEF cur, com
    <2> QED BY <1>1, <1>4, <1>5, <2>1, <2>2 DEF StartFrame, h
  <1> QED BY <1>6, <1>7

LEMMA StartHead ==
    ASSUME TypeOK, LogInv, cpc \in {"wake", "run"}
    PROVE  /\ TransHead(cur)
                = cur.start + (IF cur.logged = {} /\ cur.revoked = << >> THEN 0
                               ELSE NCommitBlk + revokelen(cur) + Cardinality(cur.logged))
           /\ tail <= cur.start /\ cur.start - tail < loglen
  <1>1. cur \in TransType /\ cur.start \in Nat /\ tail \in Nat
    BY LiveTypes DEF TransType, TypeOK, KernelType
  <1>2. /\ IsFiniteSet(cur.logged) /\ Cardinality(cur.logged) \in Nat /\ revokelen(cur) \in 0 .. 1
    BY <1>1, LoggedCount
  <1>3. Open(cur) BY DEF LogInv, SpaceInv, Committing
  <1>4. cur.head = cur.start + NCommitBlk /\ tail <= cur.start /\ cur.start - tail < loglen
    BY <1>1, <1>3, Geometry, LogAssumption DEF Open, freespace, space
  <1>5. Cardinality(cur.logged) + revokelen(cur) = 0 <=> cur.logged = {} /\ cur.revoked = << >>
    <2>1. Cardinality(cur.logged) = 0 <=> cur.logged = {} BY <1>2, FS_EmptySet
    <2>2. revokelen(cur) = 0 <=> cur.revoked = << >> BY DEF revokelen
    <2> QED BY <1>2, <2>1, <2>2
  <1>6. TransHead(cur) = IF Cardinality(cur.logged) + revokelen(cur) = 0 THEN cur.start
                         ELSE cur.head + (Cardinality(cur.logged) + revokelen(cur))
    BY DEF TransHead
  <1> QED BY <1>1, <1>2, <1>4, <1>5, <1>6 DEF NCommitBlk

\* What the copies of the transaction leave in the in-memory log.
LEMMA StartCopies ==
    ASSUME TypeOK, LogInv, LogInv', CommitterStart
    PROVE  /\ \A b \in cur.logged :
                 memlog'[logindex(place(cur, b))]
                   = [type |-> DataBlk, block |-> b, desc |-> << >>, data |-> cache[b]]
           /\ cur.revoked # << >> =>
                 memlog'[logindex(cur.start + NCommitBlk)]
                   = [type |-> RevokeBlk, block |-> cur.revoked[1],
                      desc |-> <<RevokeBlk>> \o cur.revoked, data |-> NoVal]
           /\ \A i \in tail .. cur.start - 1 : memlog'[logindex(i)] = memlog[logindex(i)]
  <1> DEFINE h == TransHead(cur)
             e == cur.start + NCommitBlk + revokelen(cur) + Cardinality(cur.logged)
  <1>1. StartFrame(h) BY StartEffects
  <1> HIDE DEF h
  <1>2. /\ cpc \in {"wake", "run"} /\ cpc' = "commit" /\ tail' = tail
        /\ memlog' = copylogged(cur) /\ com' = [cur EXCEPT !.head = h]
    BY <1>1 DEF StartFrame
  <1>3. cur \in TransType /\ cur.start \in Nat /\ tail \in Nat
    BY LiveTypes DEF TransType, TypeOK, KernelType
  <1>4. /\ h = cur.start + (IF cur.logged = {} /\ cur.revoked = << >> THEN 0
                            ELSE NCommitBlk + revokelen(cur) + Cardinality(cur.logged))
        /\ tail <= cur.start /\ cur.start - tail < loglen
    BY <1>2, StartHead DEF h
  <1>5. h - tail <= loglen
    <2>1. SpaceInv' /\ cpc' \in Committing /\ com'.head = h
      BY <1>2, <1>3 DEF LogInv, Committing, TransType
    <2> QED BY <1>2, <2>1 DEF SpaceInv
  <1>6. e \in Nat /\ e - tail <= loglen
    <2>1. /\ IsFiniteSet(cur.logged) /\ Cardinality(cur.logged) \in Nat /\ revokelen(cur) \in 0 .. 1
      BY <1>3, LoggedCount
    <2>2. CASE cur.logged = {} /\ cur.revoked = << >>
      <3>1. Cardinality(cur.logged) = 0 /\ revokelen(cur) = 0
        BY <2>2, FS_EmptySet DEF revokelen
      <3>2. e = cur.start + 1 BY <3>1, <1>3 DEF NCommitBlk
      <3> QED BY <3>2, <1>3, <1>4, Geometry
    <2>3. CASE ~(cur.logged = {} /\ cur.revoked = << >>)
      <3>1. h = cur.start + (NCommitBlk + revokelen(cur) + Cardinality(cur.logged))
        BY <1>4, <2>3, Zenon
      <3>2. e = h /\ e \in Nat BY <3>1, <1>3, <2>1 DEF NCommitBlk
      <3> QED BY <3>2, <1>5
    <2> QED BY <2>2, <2>3
  <1>7. e = cur.start + NCommitBlk + revokelen(cur) + Cardinality(cur.logged)
    OBVIOUS
  <1> HIDE DEF e
  <1> QED BY <1>2, <1>3, <1>4, <1>6, <1>7, Copied

LEMMA StartDisk ==
    ASSUME TypeOK, TypeOK', LogInv, LogInv', DiskInv, CommitterStart PROVE DiskInv'
  <1> DEFINE h == TransHead(cur)
  <1>1. StartFrame(h) BY StartEffects
  <1> HIDE DEF h
  <1>2. /\ cpc \in {"wake", "run"} /\ cpc' = "commit"
        /\ tail' = tail /\ cache' = cache
        /\ mhome' = mhome /\ mlog' = mlog /\ mhdr' = mhdr /\ stable' = stable
        /\ whome' = whome /\ wlog' = wlog /\ whdr' = whdr /\ dma' = dma
        /\ ord' = ord /\ promised' = promised
        /\ memlog' = copylogged(cur)
        /\ translog' = translog \cup {[head |-> h, logged |-> cur.logged]}
    BY <1>1 DEF StartFrame
  <1>3. /\ cpc \notin Committing /\ cpc \notin Pre /\ cpc \notin Post /\ ~Down /\ ~Down'
        /\ cpc' \in Pre /\ cpc' \notin Post /\ cpc' \in Committing
    BY <1>2 DEF Committing, Pre, Post, Down
  <1>4. cur \in TransType /\ cur.start \in Nat /\ tail \in Nat
    BY LiveTypes DEF TransType, TypeOK, KernelType
  <1>5. /\ com'.start = cur.start /\ com'.head = h /\ com'.logged = cur.logged
        /\ com'.ordered = cur.ordered /\ com'.revoked = cur.revoked
    BY <1>1, <1>4 DEF StartFrame, TransType
  <1>6. mhdr.head = cur.start BY <1>3 DEF DiskInv, HdrInv
  <1>7. HdrInv' BY <1>2, <1>3, <1>5, <1>6 DEF DiskInv, HdrInv
  <1>8. DriveInv'
    <2>1. NoWrites' = NoWrites BY DEF NoWrites
    <2> QED BY <1>2, <2>1 DEF DiskInv, DriveInv
  <1>9. OrdInv' BY <1>2 DEF OrdInv, OrderedBeforeCommit
  <1>10. /\ cur.logged \subseteq LogBlks /\ cur.ordered \subseteq OrdBlks
         /\ Range(cur.revoked) \subseteq OrdBlks /\ cur.logged \cap cur.ordered = {}
    BY DEF DiskInv, BlocksInv, cur, TypeOK, TransesType
  <1>11. BlocksInv'
    <2>1. ASSUME NEW i \in {0, 1}
          PROVE  /\ trans'[i].logged \subseteq LogBlks /\ trans'[i].ordered \subseteq OrdBlks
                 /\ Range(trans'[i].revoked) \subseteq OrdBlks
                 /\ trans'[i].logged \cap trans'[i].ordered = {}
      <3>1. CASE trans'[i] = com' BY <3>1, <1>5, <1>10
      <3>2. CASE trans'[i] = mk_trans(h) BY <3>2, FreshTrans
      <3>3. CASE trans'[i] = trans[i] BY <3>3 DEF DiskInv, BlocksInv
      <3> QED BY <1>1, <3>1, <3>2, <3>3 DEF StartFrame
    <2>2. \A e \in translog' : e.logged \subseteq LogBlks
      BY <1>2, <1>10 DEF DiskInv, BlocksInv
    <2> QED BY <1>2, <2>1, <2>2 DEF DiskInv, BlocksInv
  <1>12. ShapeInv' /\ ReplayInv' /\ StableInv' /\ WaitedForceDurable'
    BY <1>2 DEF DiskInv, ShapeInv, ReplayInv, StableInv, WaitedForceDurable
  <1>13. /\ h = cur.start + (IF cur.logged = {} /\ cur.revoked = << >> THEN 0
                             ELSE NCommitBlk + revokelen(cur) + Cardinality(cur.logged))
         /\ tail <= cur.start /\ cur.start - tail < loglen
    BY <1>2, StartHead DEF h
  <1>14. h - tail <= loglen
    <2>1. SpaceInv' BY DEF LogInv
    <2> QED BY <1>2, <1>3, <1>5, <2>1 DEF SpaceInv
  <1>15. /\ \A b \in cur.logged :
               memlog'[logindex(place(cur, b))]
                 = [type |-> DataBlk, block |-> b, desc |-> << >>, data |-> cache[b]]
         /\ cur.revoked # << >> =>
               memlog'[logindex(cur.start + NCommitBlk)]
                 = [type |-> RevokeBlk, block |-> cur.revoked[1],
                    desc |-> <<RevokeBlk>> \o cur.revoked, data |-> NoVal]
         /\ \A i \in tail .. cur.start - 1 : memlog'[logindex(i)] = memlog[logindex(i)]
    BY StartCopies
  <1>16. SameInv'
    <2>1. ASSUME NEW i \in tail .. cur.start - 1 PROVE mlog[logindex(i)] = Pages'[logindex(i)]
      <3>1. logindex(i) \in Slots BY <1>4, SlotType
      <3>2. mlog[logindex(i)] = Pages[logindex(i)] BY <1>3, <1>6 DEF DiskInv, SameInv
      <3>3. memlog'[logindex(i)] = memlog[logindex(i)] BY <1>15
      <3> QED BY <3>1, <3>2, <3>3 DEF Pages, DestageLog
    <2> QED BY <1>2, <1>6, <2>1 DEF SameInv
  <1>17. \A b : place(com, b)' = place(cur, b) BY <1>5 DEF place, revokelen
  <1>18. ComInv'
    <2>1. revokelen(com)' = revokelen(cur) BY <1>5 DEF revokelen
    <2>2. \A b \in cur.logged : cache[b] \in Vals
      BY <1>4 DEF TypeOK, KernelType, TransType
    <2>3. com'.head = com'.start + (IF com'.logged = {} /\ com'.revoked = << >> THEN 0
                      ELSE NCommitBlk + revokelen(com)' + Cardinality(com'.logged))
      BY <1>5, <1>13, <2>1
    <2>4. com'.start - tail' < loglen /\ com'.head - tail' <= loglen
      BY <1>2, <1>5, <1>13, <1>14
    <2>5. ASSUME NEW b \in com'.logged
          PROVE  /\ memlog'[logindex(place(com, b)')].type = DataBlk
                 /\ memlog'[logindex(place(com, b)')].block = b
                 /\ memlog'[logindex(place(com, b)')].desc = << >>
                 /\ memlog'[logindex(place(com, b)')].data \in Vals
      <3>1. b \in cur.logged /\ cache[b] \in Vals /\ place(com, b)' = place(cur, b)
        BY <1>5, <1>17, <2>2
      <3>2. memlog'[logindex(place(cur, b))]
              = [type |-> DataBlk, block |-> b, desc |-> << >>, data |-> cache[b]]
        BY <1>15, <3>1
      <3>3. memlog'[logindex(place(com, b)')]
              = [type |-> DataBlk, block |-> b, desc |-> << >>, data |-> cache[b]]
        BY <3>1, <3>2, Zenon
      <3> QED BY <3>1, <3>3
    <2>6. com'.revoked # << >> =>
              /\ memlog'[logindex(com'.start + NCommitBlk)].type = RevokeBlk
              /\ memlog'[logindex(com'.start + NCommitBlk)].desc = <<RevokeBlk>> \o com'.revoked
      BY <1>5, <1>15
    <2> QED BY <1>2, <2>3, <2>4, <2>5, <2>6 DEF ComInv
  <1>19. \A b : islogged(b)' <=> islogged(b) \/ b \in cur.logged
    <2> DEFINE x == [head |-> h, logged |-> cur.logged]
    <2>1. translog' = translog \cup {x} /\ x.logged = cur.logged BY <1>2
    <2> HIDE DEF x
    <2> QED BY <2>1 DEF islogged
  <1>20. TlogInv' BY <1>2, <1>3, <1>5, <1>19 DEF DiskInv, TlogInv
  <1>21. RevInv'
    <2>1. \A b \in cur.ordered : b \notin cur.logged /\ (islogged(b)' => b \in Range(cur.revoked))
      BY <1>10, <1>19 DEF DiskInv, RevInv
    <2>2. ComOrdered' = cur.ordered BY <1>2, <1>5 DEF ComOrdered
    <2>3. \A b \in cur'.ordered : islogged(b)' => b \in Range(cur'.revoked)
      <3>1. CASE cur' = com' BY <3>1, <1>5, <2>1
      <3>2. CASE cur' = mk_trans(h) BY <3>2, FreshTrans
      <3> QED BY <1>1, <3>1, <3>2 DEF StartFrame
    <2> QED BY <1>5, <2>1, <2>2, <2>3 DEF RevInv
  <1> QED BY <1>7, <1>8, <1>9, <1>11, <1>12, <1>16, <1>18, <1>20, <1>21 DEF DiskInv

\* Slots of the committed part of the log are not those of the transaction
\* that is being committed.
LEMMA ApartSlots ==
    ASSUME TypeOK, LogInv, DiskInv, cpc \in Pre,
           NEW i \in tail .. mhdr.head - 1, NEW j \in com.start .. com.head,
           j - tail < loglen
    PROVE  logindex(i) # logindex(j)
  <1>1. mhdr.head = com.start BY DEF DiskInv, HdrInv
  <1>2. com.start \in Nat /\ com.head \in Nat /\ tail \in Nat
    BY LiveTypes DEF TransType, TypeOK, KernelType
  <1>3. i \in Nat /\ j \in Nat /\ i < j /\ j - i < loglen BY <1>1, <1>2, Geometry
  <1> QED BY <1>3, SlotsApart

\* Nor are two slots of that transaction the same.
LEMMA ComSlots ==
    ASSUME TypeOK, LogInv, DiskInv, cpc \in Pre, com.start # com.head
    PROVE  /\ com.head > com.start
           /\ \A i, j \in com.start .. com.head - 1 : i # j => logindex(i) # logindex(j)
           /\ \A b \in com.logged : place(com, b) \in com.start + 1 .. com.head - 1
           /\ com.revoked # << >> => com.start + NCommitBlk \in com.start + 1 .. com.head - 1
  <1>1. com \in TransType /\ com.start \in Nat /\ com.head \in Nat /\ tail \in Nat
    BY LiveTypes DEF TransType, TypeOK, KernelType
  <1>2. com.head - tail <= loglen /\ tail <= com.start /\ com.start <= com.head
    BY DEF DiskInv, ComInv, LogInv, SpaceInv, Pre, Committing
  <1>3. ASSUME NEW i \in com.start .. com.head - 1, NEW j \in com.start .. com.head - 1, i < j
        PROVE  logindex(i) # logindex(j)
    <2>1. i \in Nat /\ j \in Nat /\ j - i < loglen BY <1>1, <1>2, Geometry
    <2> QED BY <1>3, <2>1, SlotsApart
  <1> DEFINE n == Cardinality(com.logged)
             first == com.start + NCommitBlk + revokelen(com)
  <1>4. n \in Nat /\ revokelen(com) \in 0 .. 1 BY <1>1, LoggedCount
  <1>5. com.head = com.start + (IF com.logged = {} /\ com.revoked = << >> THEN 0
                                ELSE NCommitBlk + revokelen(com) + n)
    BY DEF DiskInv, ComInv
  <1>6. ~(com.logged = {} /\ com.revoked = << >>) BY <1>1, <1>5
  <1>7. com.head = com.start + (NCommitBlk + revokelen(com) + n) BY <1>5, <1>6, Zenon
  <1>8. first \in Nat /\ first + n = com.head /\ first >= com.start + 1
    BY <1>1, <1>4, <1>7 DEF NCommitBlk
  <1>9. \A b \in com.logged : place(com, b) \in first .. first + n - 1
    <2>1. n = Cardinality(com.logged) /\ first = com.start + NCommitBlk + revokelen(com)
      OBVIOUS
    <2> HIDE DEF n, first
    <2> QED BY <1>1, <1>4, <1>8, <2>1, Places
  <1>10. \A b \in com.logged : place(com, b) \in com.start + 1 .. com.head - 1
    <2> HIDE DEF n, first
    <2> QED BY <1>1, <1>4, <1>8, <1>9
  <1>11. com.revoked # << >> => com.start + NCommitBlk \in com.start + 1 .. com.head - 1
    <2>1. com.revoked # << >> => revokelen(com) = 1 BY DEF revokelen
    <2> QED BY <1>1, <1>4, <1>7, <2>1 DEF NCommitBlk
  <1>12. com.head > com.start BY <1>1, <1>2
  <1>13. \A i, j \in com.start .. com.head - 1 : i # j => logindex(i) # logindex(j)
    BY <1>1, <1>3
  <1> QED BY <1>10, <1>11, <1>12, <1>13

\* commit() hands the transaction to the driver.
LEMMA WriteDisk ==
    ASSUME TypeOK, LogInv, DiskInv, CommitWrite PROVE DiskInv'
  <1>1. /\ cpc = "commit" /\ cpc' = "ordered" /\ tail' = tail /\ cache' = cache
        /\ ct' = ct /\ curtrans' = curtrans /\ translog' = translog
        /\ mhome' = mhome /\ mlog' = mlog /\ mhdr' = mhdr /\ stable' = stable
        /\ whome' = whome /\ whdr' = whdr /\ promised' = promised
        /\ wlog' = {logindex(i) : i \in com.start .. com.head - 1}
        /\ dma' = com.ordered
        /\ ord' = [ord EXCEPT !.com = com.ordered]
        /\ trans' = [trans EXCEPT ![ct].ordered = {}]
        /\ memlog' = [memlog EXCEPT ![logindex(com.start)] =
                        [@ EXCEPT !.type = CommitBlk, !.desc = descriptor(com), !.data = NoVal]]
    BY DEF CommitWrite, DiskInv, DriveInv
  <1>2. /\ cpc \in Pre /\ cpc' \in Pre /\ ~Down /\ ~Down' /\ cpc' \notin Post
        /\ cpc \in Committing /\ cpc' \in Committing
    BY <1>1 DEF Pre, Post, Down, Committing
  <1>3. /\ ct \in {0, 1} /\ curtrans \in {0, 1} /\ trans \in [{0, 1} -> TransType]
        /\ com \in TransType /\ com.start \in Nat /\ com.head \in Nat /\ tail \in Nat
        /\ ord \in [com : SUBSET Blocks, last : SUBSET Blocks]
        /\ memlog \in [Slots -> MemSlot]
    BY LiveTypes DEF TypeOK, TransesType, TransType, KernelType, HistType
  <1>4. \A i \in {0, 1} : /\ trans'[i].start = trans[i].start /\ trans'[i].head = trans[i].head
                          /\ trans'[i].logged = trans[i].logged
                          /\ trans'[i].revoked = trans[i].revoked
                          /\ trans'[i].ordered = IF i = ct THEN {} ELSE trans[i].ordered
    <2>1. ASSUME NEW i \in {0, 1}, i = ct PROVE trans'[i] = [trans[i] EXCEPT !.ordered = {}]
      BY <1>1, <1>3, <2>1
    <2>2. ASSUME NEW i \in {0, 1}, i # ct PROVE trans'[i] = trans[i] BY <1>1, <1>3, <2>2
    <2>3. \A i \in {0, 1} : trans[i] \in TransType BY <1>3
    <2> QED BY <2>1, <2>2, <2>3 DEF TransType
  <1>5. /\ com'.start = com.start /\ com'.head = com.head /\ com'.logged = com.logged
        /\ com'.revoked = com.revoked
        /\ cur'.ordered \subseteq cur.ordered /\ cur'.revoked = cur.revoked
        /\ cur'.start = cur.start
    BY <1>1, <1>3, <1>4 DEF com, cur
  <1>6. ord'.com = com.ordered /\ ord'.last = ord.last BY <1>1, <1>3
  <1>7. HdrInv' BY <1>1, <1>2, <1>5 DEF DiskInv, HdrInv
  <1>8. DriveInv'
    <2>1. whome = NoWrites BY <1>1 DEF DiskInv, DriveInv
    <2>2. \A b \in Blocks : whome[b] = NoVal BY <2>1 DEF NoWrites
    <2> QED BY <1>1, <1>5, <2>2 DEF DriveInv
  <1>9. OrdInv' BY <1>1, <1>6 DEF OrdInv, OrderedBeforeCommit
  <1>10. BlocksInv'
    <2>1. com.ordered \subseteq OrdBlks BY <1>3 DEF DiskInv, BlocksInv, com
    <2> QED BY <1>1, <1>4, <1>6, <2>1 DEF DiskInv, BlocksInv
  <1>11. ShapeInv' /\ ReplayInv' /\ StableInv' /\ WaitedForceDurable'
    BY <1>1, <1>6 DEF DiskInv, ShapeInv, ReplayInv, StableInv, WaitedForceDurable
  <1>12. /\ com.start - tail < loglen /\ tail <= com.start /\ com.start <= com.head
    BY <1>1, <1>2 DEF DiskInv, ComInv, LogInv, SpaceInv
  <1>13. \A s \in Slots \ {logindex(com.start)} : memlog'[s] = memlog[s] BY <1>1, <1>3
  <1>14. SameInv'
    <2>1. ASSUME NEW i \in tail .. mhdr.head - 1 PROVE mlog[logindex(i)] = Pages'[logindex(i)]
      <3>1. mlog[logindex(i)] = Pages[logindex(i)] BY <1>2 DEF DiskInv, SameInv
      <3>2. i \in Int
        OBVIOUS
      <3>3. com.start \in com.start .. com.head BY <1>3, <1>12
      <3>4. logindex(i) # logindex(com.start) BY <1>2, <1>12, <3>3, ApartSlots
      <3>5. logindex(i) \in Slots BY <3>2, SlotType
      <3>6. memlog'[logindex(i)] = memlog[logindex(i)] BY <1>13, <3>4, <3>5
      <3> QED BY <3>1, <3>5, <3>6 DEF Pages, DestageLog
    <2> QED BY <1>1, <2>1 DEF SameInv
  <1>15. \A b : place(com, b)' = place(com, b) BY <1>5 DEF place, revokelen
  <1>16. revokelen(com)' = revokelen(com) BY <1>5 DEF revokelen
  <1>17. ASSUME com.start # com.head, NEW i \in com.start + 1 .. com.head - 1
         PROVE  memlog'[logindex(i)] = memlog[logindex(i)]
    <2>1. i \in com.start .. com.head - 1 /\ com.start \in com.start .. com.head - 1 /\ i # com.start
      BY <1>3, <1>17, <1>12
    <2>2. logindex(i) # logindex(com.start) BY <1>2, <1>17, <2>1, ComSlots
    <2>3. logindex(i) \in Slots BY <2>1, <1>3, SlotType
    <2> QED BY <2>2, <2>3, <1>13
  <1>18. com.start # com.head => memlog'[logindex(com.start)].desc = descriptor(com)'
    <2>1. SUFFICES ASSUME com.start # com.head
                   PROVE  memlog'[logindex(com.start)].desc = descriptor(com)'
      OBVIOUS
    <2>2. logindex(com.start) \in Slots BY <1>3, SlotType
    <2>3. memlog'[logindex(com.start)].desc = descriptor(com)
      BY <1>1, <1>3, <2>2 DEF MemSlot
    <2>4. ASSUME NEW k \in 1 .. com.head - com.start, k # 1
          PROVE  memlog'[logindex(com.start + k - 1)] = memlog[logindex(com.start + k - 1)]
      <3>1. com.start + k - 1 \in com.start + 1 .. com.head - 1 BY <1>3, <2>4
      <3> QED BY <2>1, <3>1, <1>17
    <2>5. descriptor(com)' = descriptor(com) BY <1>5, <2>4 DEF descriptor
    <2> QED BY <2>3, <2>5
  <1>19. ComInv'
    <2>1. com.start = com.head => com.logged = {} /\ com.revoked = << >>
      <3>1. IsFiniteSet(com.logged) /\ Cardinality(com.logged) \in Nat /\ revokelen(com) \in 0 .. 1
        BY <1>3, LoggedCount
      <3>2. com.head = com.start + (IF com.logged = {} /\ com.revoked = << >> THEN 0
                                    ELSE NCommitBlk + revokelen(com) + Cardinality(com.logged))
        BY <1>2 DEF DiskInv, ComInv
      <3> QED BY <1>3, <3>1, <3>2 DEF NCommitBlk
    <2>2. ASSUME NEW b \in com.logged
          PROVE  memlog'[logindex(place(com, b))] = memlog[logindex(place(com, b))]
      <3>1. com.start # com.head BY <2>1
      <3>2. place(com, b) \in com.start + 1 .. com.head - 1 BY <1>2, <3>1, ComSlots
      <3> QED BY <3>1, <3>2, <1>17
    <2>3. com.revoked # << >> => memlog'[logindex(com.start + NCommitBlk)]
                                   = memlog[logindex(com.start + NCommitBlk)]
      <3>1. SUFFICES ASSUME com.revoked # << >>
                     PROVE  memlog'[logindex(com.start + NCommitBlk)]
                              = memlog[logindex(com.start + NCommitBlk)]
        OBVIOUS
      <3>2. com.start # com.head BY <2>1, <3>1
      <3>3. com.start + NCommitBlk \in com.start + 1 .. com.head - 1
        BY <1>2, <3>1, <3>2, ComSlots
      <3> QED BY <3>2, <3>3, <1>17
    <2>4. /\ com'.head = com'.start + (IF com'.logged = {} /\ com'.revoked = << >> THEN 0
                          ELSE NCommitBlk + revokelen(com)' + Cardinality(com'.logged))
          /\ com'.start - tail' < loglen /\ com'.head - tail' <= loglen
      BY <1>1, <1>2, <1>5, <1>16 DEF DiskInv, ComInv
    <2>5. ASSUME NEW b \in com'.logged
          PROVE  /\ memlog'[logindex(place(com, b)')].type = DataBlk
                 /\ memlog'[logindex(place(com, b)')].block = b
                 /\ memlog'[logindex(place(com, b)')].desc = << >>
                 /\ memlog'[logindex(place(com, b)')].data \in Vals
      <3>1. b \in com.logged /\ place(com, b)' = place(com, b) BY <1>5, <1>15
      <3>2. memlog'[logindex(place(com, b)')] = memlog[logindex(place(com, b))]
        BY <2>2, <3>1
      <3> QED BY <1>2, <3>1, <3>2 DEF DiskInv, ComInv
    <2>6. com'.revoked # << >> =>
              /\ memlog'[logindex(com'.start + NCommitBlk)].type = RevokeBlk
              /\ memlog'[logindex(com'.start + NCommitBlk)].desc = <<RevokeBlk>> \o com'.revoked
      BY <1>2, <1>5, <2>3 DEF DiskInv, ComInv
    <2>7. com'.start # com'.head => memlog'[logindex(com'.start)].desc = descriptor(com)'
      BY <1>5, <1>18
    <2> QED BY <2>4, <2>5, <2>6, <2>7 DEF ComInv
  <1>20. \A b : islogged(b)' = islogged(b) BY <1>1 DEF islogged
  <1>21. TlogInv' BY <1>1, <1>2, <1>5, <1>20 DEF DiskInv, TlogInv
  <1>22. RevInv'
    <2>1. ComOrdered' = com.ordered /\ ComOrdered = com.ordered
      BY <1>1, <1>6 DEF ComOrdered
    <2> QED BY <1>2, <1>5, <1>20, <2>1 DEF DiskInv, RevInv
  <1> QED BY <1>7, <1>8, <1>9, <1>10, <1>11, <1>14, <1>19, <1>21, <1>22 DEF DiskInv

\* The driver transfers an ordered block.
LEMMA TransferDisk ==
    ASSUME TypeOK, DiskInv, NEW b \in Blocks, TransferOrdered(b) PROVE DiskInv'
  <1>1. /\ cpc = "ordered" /\ cpc' = cpc /\ b \in dma
        /\ whome' = [whome EXCEPT ![b] = cache[b]] /\ dma' = dma \ {b}
        /\ trans' = trans /\ curtrans' = curtrans /\ ct' = ct /\ translog' = translog
        /\ memlog' = memlog /\ tail' = tail /\ cache' = cache
        /\ mhome' = mhome /\ mlog' = mlog /\ mhdr' = mhdr /\ stable' = stable
        /\ wlog' = wlog /\ whdr' = whdr /\ ord' = ord /\ promised' = promised
    BY DEF TransferOrdered, transVars, histVars, DiskInv, DriveInv
  <1>2. cur' = cur /\ com' = com /\ Pages' = Pages BY <1>1 DEF cur, com, Pages, DestageLog
  <1>3. \A c \in Blocks : whome'[c] = IF c = b THEN cache[b] ELSE whome[c]
    BY <1>1 DEF TypeOK, DiskType
  <1>4. HdrInv' /\ ShapeInv' /\ ReplayInv' /\ StableInv' /\ WaitedForceDurable'
    BY <1>1, <1>2 DEF DiskInv, HdrInv, ShapeInv, ReplayInv, StableInv, WaitedForceDurable, Down
  <1>5. DriveInv' BY <1>1, <1>2, <1>3 DEF DiskInv, DriveInv, OrdInv
  <1>6. OrdInv'
    <2>1. ord.com \subseteq Blocks BY DEF TypeOK, HistType
    <2>2. dma' \subseteq ord'.com BY <1>1 DEF DiskInv, OrdInv
    <2>3. \A c \in ord.com \ (cur.ordered \cup cur.logged \cup dma') : whome'[c] = cache[c]
      BY <1>1, <1>3, <2>1 DEF DiskInv, OrdInv
    <2> QED BY <1>1, <1>2, <2>2, <2>3 DEF OrdInv, OrderedBeforeCommit
  <1>7. BlocksInv' BY <1>1 DEF DiskInv, BlocksInv
  <1>8. SameInv' BY <1>1, <1>2 DEF DiskInv, SameInv, Down
  <1>9. \A c : islogged(c)' = islogged(c) BY <1>1 DEF islogged
  <1>10. TlogInv' BY <1>1, <1>2, <1>9 DEF DiskInv, TlogInv, Down
  <1>11. RevInv'
    <2>1. ComOrdered' = ComOrdered BY <1>1, <1>2 DEF ComOrdered
    <2> QED BY <1>1, <1>2, <1>9, <2>1 DEF DiskInv, RevInv
  <1>12. ComInv'
    <2>1. /\ \A c : place(com, c)' = place(com, c)
          /\ revokelen(com)' = revokelen(com) /\ descriptor(com)' = descriptor(com)
      BY <1>1, <1>2 DEF place, revokelen, descriptor
    <2> QED BY <1>1, <1>2, <2>1 DEF DiskInv, ComInv
  <1> QED BY <1>4, <1>5, <1>6, <1>7, <1>8, <1>10, <1>11, <1>12 DEF DiskInv

\* Whatever part of the drive's cache reaches the platter, the committed part
\* of the log stays as it is.
LEMMA DestageKept ==
    ASSUME TypeOK, LogInv, DiskInv, NEW S \in SUBSET wlog
    PROVE  /\ LogType(DestageLog(S)) /\ LogType(mlog)
           /\ Agree(mlog, DestageLog(S), mhdr.tail, mhdr.head)
           /\ wlog = {} => DestageLog(S) = mlog
  <1>1. LogType(DestageLog(S)) /\ LogType(mlog) BY FlushType DEF LogType, TypeOK, DiskType
  <1>2. wlog = {} => DestageLog(S) = mlog BY DEF DestageLog, TypeOK, DiskType
  <1>3. mhdr.tail \in Nat /\ mhdr.head \in Nat BY DEF TypeOK, DiskType, Header
  <1>4. CASE cpc # "ordered"
    <2>1. DestageLog(S) = mlog BY <1>2, <1>4 DEF DiskInv, DriveInv
    <2> QED BY <1>1, <1>2, <2>1 DEF Agree
  <1>5. CASE cpc = "ordered"
    <2>1. cpc \in Pre /\ mhdr.tail = tail /\ com.head - tail <= loglen
      BY <1>5 DEF DiskInv, HdrInv, ComInv, Pre, Down
    <2>2. com.start \in Nat /\ com.head \in Nat /\ tail \in Nat
      BY LiveTypes DEF TransType, TypeOK, KernelType
    <2>3. ASSUME NEW i \in mhdr.tail .. mhdr.head - 1
          PROVE  DestageLog(S)[logindex(i)] = mlog[logindex(i)]
      <3>1. logindex(i) \in Slots BY <1>3, SlotType
      <3>2. logindex(i) \notin wlog
        <4>1. SUFFICES ASSUME NEW j \in com.start .. com.head - 1 PROVE logindex(i) # logindex(j)
          BY <1>5 DEF DiskInv, DriveInv
        <4>2. j \in com.start .. com.head /\ j - tail < loglen BY <2>1, <2>2, Geometry
        <4>3. i \in tail .. mhdr.head - 1 BY <2>1
        <4> QED BY <2>1, <4>2, <4>3, ApartSlots
      <3> QED BY <3>1, <3>2 DEF DestageLog
    <2> QED BY <1>1, <1>2, <2>3 DEF Agree
  <1> QED BY <1>4, <1>5

\* A flush that leaves no write outstanding.
Flushed ==
    /\ mhome' = Destage(Blocks) /\ whome' = NoWrites
    /\ mlog' = DestageLog(wlog) /\ wlog' = {}
    /\ mhdr' = DestageHdr
    /\ stable' = Recovered(Destage(Blocks), DestageLog(wlog), DestageHdr)

\* What the flushes of commit and apply do when they pass no write.
LEMMA CoveredFlush ==
    ASSUME TypeOK, FlushCovers, CommitFlush \/ CommitHead \/ ApplyFlush \/ ApplyTail
    PROVE  Flushed /\ hdrleft = << >> /\ dma = {}
  <1>1. flush /\ Flushes BY DEF CommitFlush, CommitHead, ApplyFlush, ApplyTail, Flushes
  <1>2. whome' = NoWrites /\ wlog' = {} /\ mhdr' = DestageHdr /\ dma = {}
    BY <1>1 DEF FlushCovers
  <1>3. mhome' = Destage(Blocks)
    <2>1. PICK S \in SUBSET {b \in Blocks : whome[b] # NoVal} :
             /\ mhome' = Destage(Blocks \ S)
             /\ whome' = [b \in Blocks |-> IF b \in S THEN whome[b] ELSE NoVal]
      BY <1>1 DEF flush, Passed
    <2>2. S = {} BY <1>2, <2>1 DEF NoWrites
    <2> QED BY <2>1, <2>2
  <1>4. mlog' = DestageLog(wlog)
    <2>1. PICK S : mlog' = DestageLog(wlog \ S) /\ wlog' = S BY <1>1 DEF flush
    <2> QED BY <1>2, <2>1
  <1> QED BY <1>1, <1>2, <1>3, <1>4 DEF Flushed, flush, hdrleft

\* Recovery's flush passes nothing.
LEMMA RecoveryFlush == ASSUME RecoverFlush PROVE Flushed
  <1>1. flush /\ \A S : Passed(S) = {{}} BY DEF RecoverFlush, Passed
  <1>2. mhome' = Destage(Blocks) /\ whome' = NoWrites BY <1>1 DEF flush, NoWrites
  <1>3. mlog' = DestageLog(wlog) /\ wlog' = {} /\ mhdr' = DestageHdr BY <1>1 DEF flush
  <1> QED BY <1>1, <1>2, <1>3 DEF Flushed, flush

\* A step that changes nothing is no flush.
LEMMA CoversStep == ASSUME [FlushCovers]_vars PROVE FlushCovers
  BY DEF FlushCovers, Flushes, vars

\* What a flush does.
LEMMA FlushEffects ==
    ASSUME TypeOK, LogInv, DiskInv, Flushed
    PROVE  /\ whome' = NoWrites /\ wlog' = {} /\ mhome' = Destage(Blocks)
           /\ mlog' = DestageLog(wlog) /\ mhdr' = DestageHdr
           /\ StableInv'
           /\ LogType(mlog') /\ LogType(mlog) /\ Agree(mlog, mlog', mhdr.tail, mhdr.head)
           /\ cpc # "ordered" => mlog' = mlog
           /\ whdr = << >> => mhdr' = mhdr
           /\ \A h \in Header : whdr = <<h>> => mhdr' = h
  <1>1. /\ whome' = NoWrites /\ wlog' = {} /\ mhome' = Destage(Blocks)
        /\ mlog' = DestageLog(wlog) /\ mhdr' = DestageHdr
        /\ stable' = Recovered(Destage(Blocks), DestageLog(wlog), DestageHdr)
    BY DEF Flushed
  <1>2. StableInv' BY <1>1 DEF StableInv
  <1>3. /\ LogType(mlog') /\ LogType(mlog) /\ Agree(mlog, mlog', mhdr.tail, mhdr.head)
        /\ cpc # "ordered" => mlog' = mlog
    <2>1. wlog \in SUBSET wlog
      OBVIOUS
    <2>2. /\ LogType(DestageLog(wlog)) /\ LogType(mlog)
          /\ Agree(mlog, DestageLog(wlog), mhdr.tail, mhdr.head)
          /\ wlog = {} => DestageLog(wlog) = mlog
      BY <2>1, DestageKept
    <2>3. cpc # "ordered" => wlog = {} BY DEF DiskInv, DriveInv
    <2> QED BY <1>1, <2>2, <2>3
  <1>4. whdr = << >> => mhdr' = mhdr BY <1>1 DEF DestageHdr
  <1>5. ASSUME NEW h \in Header, whdr = <<h>> PROVE mhdr' = h BY <1>1, <1>5 DEF DestageHdr
  <1> QED BY <1>1, <1>2, <1>3, <1>4, <1>5

\* The committed part of the log is the same log.
LEMMA KeptLog ==
    ASSUME TypeOK, DiskInv, LogType(mlog), LogType(mlog'), mhdr' = mhdr,
           Agree(mlog, mlog', mhdr.tail, mhdr.head)
    PROVE  /\ ShapeInv'
           /\ \A i, b : Copy(mlog', mhdr.tail, mhdr.head, i, b)
                           <=> Copy(mlog, mhdr.tail, mhdr.head, i, b)
           /\ \A i, b : Cancels(mlog', mhdr.tail, mhdr.head, i, b)
                           <=> Cancels(mlog, mhdr.tail, mhdr.head, i, b)
           /\ install(mlog', mhdr, Blocks) = install(mlog, mhdr, Blocks)
  <1>1. mhdr \in Header /\ mhdr.tail \in Nat /\ mhdr.head \in Nat
    BY DEF TypeOK, DiskType, Header
  <1>2. WellFormed(mlog, mhdr.tail, mhdr.head) BY DEF DiskInv, ShapeInv
  <1> DEFINE new == mlog'
  <1>3. LogType(new) /\ Agree(mlog, new, mhdr.tail, mhdr.head)
    OBVIOUS
  <1> HIDE DEF new
  <1>4. /\ WellFormed(new, mhdr.tail, mhdr.head)
        /\ \A i, b : Copy(new, mhdr.tail, mhdr.head, i, b)
                           <=> Copy(mlog, mhdr.tail, mhdr.head, i, b)
        /\ \A i, b : Cancels(new, mhdr.tail, mhdr.head, i, b)
                           <=> Cancels(mlog, mhdr.tail, mhdr.head, i, b)
    BY <1>1, <1>2, <1>3, AgreeShape
  <1>5. install(new, mhdr, Blocks) = install(mlog, mhdr, Blocks)
    BY <1>1, <1>2, <1>3, AgreeInstall
  <1> QED BY <1>4, <1>5 DEF ShapeInv, new

\* Only blocks that the file system logs have copies.
LEMMA CopiesLogged ==
    ASSUME NEW log, LogType(log), NEW tl \in Nat, NEW hd \in Nat, WellFormed(log, tl, hd),
           NEW i, NEW b \in Blocks, Copy(log, tl, hd, i, b)
    PROVE  b \in LogBlks /\ i \in tl .. hd - 1
  <1>1. PICK s \in Starts(log, tl, hd) : /\ i \in s + 1 .. s + Len(Words(log, s)) - 1
                                         /\ Words(log, s)[i - s + 1] = b
    BY DEF Copy
  <1>2. IsTrans(log, s, s + Len(Words(log, s))) BY DEF WellFormed
  <1>3. b # RevokeBlk BY LogAssumption DEF Blocks, RevokeBlk
  <1>4. s \in Nat /\ tl <= s /\ Len(Words(log, s)) \in Nat /\ s + Len(Words(log, s)) <= hd
    BY TransEnd
  <1>5. b \in LogBlks
    <2> DEFINE e == s + Len(Words(log, s))
    <2>1. e \in Nat /\ IsTrans(log, s, e) /\ i \in s + 1 .. e - 1 BY <1>1, <1>2, <1>4
    <2> HIDE DEF e
    <2> QED BY <1>1, <1>3, <2>1 DEF IsTrans
  <1> QED BY <1>1, <1>4, <1>5

\* While the header that commits it is on its way, the transaction is the
\* last one of the log on the platter.
LEMMA CommitLog ==
    ASSUME TypeOK, LogInv, DiskInv, cpc = "commithead"
    PROVE  /\ tail = mhdr.tail /\ com.start = mhdr.head /\ com.start # com.head
           /\ WellFormed(mlog, tail, com.head)
           /\ Starts(mlog, tail, com.head) = Starts(mlog, tail, com.start) \cup {com.start}
           /\ \A i : \A b \in Blocks :
                 Copy(mlog, tail, com.head, i, b)
                    <=> Copy(mlog, tail, com.start, i, b) \/ (b \in com.logged /\ i = place(com, b))
           /\ \A i \in Nat, b \in Blocks :
                 Cancels(mlog, tail, com.head, i, b)
                    <=> \/ Cancels(mlog, tail, com.start, i, b)
                        \/ com.start > i /\ b \in Range(com.revoked)
  <1> DEFINE s == com.start
             e == com.head
  <1>1. tail = mhdr.tail /\ s = mhdr.head /\ s # e /\ cpc \in Pre /\ ~Down
    BY DEF DiskInv, HdrInv, Pre, Down
  <1>2. /\ com \in TransType /\ s \in Nat /\ e \in Nat /\ tail \in Nat
        /\ com.revoked \in Seq(Blocks) /\ com.logged \subseteq Blocks
    BY LiveTypes DEF TransType, TypeOK, KernelType
  <1>3. LogType(mlog) /\ LogType(Pages) BY FlushType DEF LogType, Pages, TypeOK, DiskType
  <1>4. e - tail <= loglen /\ tail <= s /\ s < e
    BY <1>1, ComSlots DEF DiskInv, ComInv, LogInv, SpaceInv, Pre, Committing
  <1>5. /\ IsTrans(Pages, s, e) /\ Words(Pages, s)[1] = CommitBlk
        /\ \A i \in s + 1 .. e - 1, b \in Blocks :
              Words(Pages, s)[i - s + 1] = b <=> b \in com.logged /\ i = place(com, b)
        /\ com.revoked # << >> =>
              /\ Words(Pages, s)[2] = RevokeBlk
              /\ Words(Pages, s + 1) = <<RevokeBlk>> \o com.revoked
    BY <1>1, ComPages DEF DiskInv
  <1>6. \A b \in com.logged : place(com, b) \in s + 1 .. e - 1 BY <1>1, ComSlots
  <1>7. Agree(mlog, Pages, tail, s) /\ Agree(Pages, mlog, tail, e)
    <2>1. \A i \in tail .. s - 1 : mlog[logindex(i)] = Pages[logindex(i)]
      BY <1>1 DEF DiskInv, SameInv
    <2>2. \A i \in s .. e - 1 : mlog[logindex(i)] = Pages[logindex(i)]
      BY DEF DiskInv, SameInv
    <2>3. \A i \in tail .. e - 1 : i \in tail .. s - 1 \/ i \in s .. e - 1 BY <1>2
    <2> QED BY <2>1, <2>2, <2>3 DEF Agree
  <1>8. WellFormed(mlog, tail, s) BY <1>1 DEF DiskInv, ShapeInv
  <1> HIDE DEF s, e
  <1>9. /\ WellFormed(Pages, tail, s) /\ Starts(Pages, tail, s) = Starts(mlog, tail, s)
        /\ \A i, b : Copy(Pages, tail, s, i, b) <=> Copy(mlog, tail, s, i, b)
        /\ \A i, b : Cancels(Pages, tail, s, i, b) <=> Cancels(mlog, tail, s, i, b)
    BY <1>2, <1>3, <1>7, <1>8, AgreeShape
  <1>10. /\ WellFormed(Pages, tail, e)
         /\ Starts(Pages, tail, e) = Starts(Pages, tail, s) \cup {s}
         /\ \A i, b : Copy(Pages, tail, e, i, b) <=>
               \/ Copy(Pages, tail, s, i, b)
               \/ i \in s + 1 .. e - 1 /\ Words(Pages, s)[i - s + 1] = b
         /\ \A i \in Nat : \A b : Cancels(Pages, tail, e, i, b) <=>
               \/ Cancels(Pages, tail, s, i, b)
               \/ /\ s > i /\ Words(Pages, s)[2] = RevokeBlk
                  /\ \E n \in 2 .. Len(Words(Pages, s + 1)) : Words(Pages, s + 1)[n] = b
    BY <1>2, <1>3, <1>4, <1>5, <1>9, ExtendShape
  <1>11. /\ WellFormed(mlog, tail, e) /\ Starts(mlog, tail, e) = Starts(Pages, tail, e)
         /\ \A i, b : Copy(mlog, tail, e, i, b) <=> Copy(Pages, tail, e, i, b)
         /\ \A i, b : Cancels(mlog, tail, e, i, b) <=> Cancels(Pages, tail, e, i, b)
    BY <1>2, <1>3, <1>7, <1>10, AgreeShape
  <1>12. ASSUME NEW i, NEW b \in Blocks
         PROVE  Copy(mlog, tail, e, i, b)
                  <=> Copy(mlog, tail, s, i, b) \/ (b \in com.logged /\ i = place(com, b))
    <2>1. i \in s + 1 .. e - 1 /\ Words(Pages, s)[i - s + 1] = b
            <=> b \in com.logged /\ i = place(com, b)
      BY <1>5, <1>6
    <2> QED BY <1>9, <1>10, <1>11, <2>1
  <1>13. ASSUME NEW b \in Blocks
         PROVE  (/\ Words(Pages, s)[2] = RevokeBlk
                 /\ \E n \in 2 .. Len(Words(Pages, s + 1)) : Words(Pages, s + 1)[n] = b)
                <=> b \in Range(com.revoked)
    <2>1. CASE com.revoked = << >>
      <3>1. b \notin Range(com.revoked) BY <2>1 DEF Range
      <3>2. Words(Pages, s)[2] # RevokeBlk
        <4> DEFINE n == Cardinality(com.logged)
                   first == s + NCommitBlk + revokelen(com)
        <4>1. n \in Nat /\ n = Cardinality(com.logged) /\ revokelen(com) = 0
          BY <1>2, <2>1, LoggedCount DEF revokelen
        <4>2. first = s + 1 /\ first \in Nat BY <1>2, <4>1 DEF NCommitBlk
        <4>3. e = s + (IF com.logged = {} /\ com.revoked = << >> THEN 0
                       ELSE NCommitBlk + revokelen(com) + n)
          BY <1>1 DEF DiskInv, ComInv, s, e
        <4>4. com.logged # {} BY <1>1, <1>2, <2>1, <4>3
        <4>5. e = s + (NCommitBlk + revokelen(com) + n) BY <4>3, <4>4, Zenon
        <4>6. first \in first .. first + n - 1
          <5>1. IsFiniteSet(com.logged) BY <1>2, LoggedCount
          <5>2. n # 0 BY <4>4, <5>1, FS_EmptySet
          <5> QED BY <4>1, <4>2, <5>2
        <4>7. first = com.start + NCommitBlk + revokelen(com) BY DEF s
        <4> HIDE DEF n, first
        <4>8. PICK c \in com.logged : first = place(com, c)
          BY <1>2, <4>1, <4>2, <4>6, <4>7, Places
        <4>9. c \in Blocks /\ s + 1 \in s + 1 .. e - 1 /\ (s + 1) - s + 1 = 2 /\ s + 1 = place(com, c)
          BY <1>2, <1>6, <4>2, <4>8
        <4>10. Words(Pages, s)[(s + 1) - s + 1] = c BY <1>5, <4>9
        <4>11. c # RevokeBlk BY <4>9, LogAssumption DEF Blocks, RevokeBlk
        <4> QED BY <4>9, <4>10, <4>11
      <3> QED BY <3>1, <3>2
    <2>2. CASE com.revoked # << >>
      <3> DEFINE q == com.revoked
                 w == <<RevokeBlk>> \o com.revoked
      <3>1. /\ Len(w) = Len(q) + 1 /\ Len(q) \in Nat
            /\ \A n \in 1 .. Len(q) : w[n + 1] = q[n]
        BY <1>2, Prepended
      <3>2. Words(Pages, s)[2] = RevokeBlk /\ Words(Pages, s + 1) = w BY <1>5, <2>2
      <3> HIDE DEF w, q
      <3>3. ASSUME NEW n \in 2 .. Len(w), w[n] = b PROVE b \in Range(q)
        <4>1. n - 1 \in 1 .. Len(q) /\ (n - 1) + 1 = n BY <3>1
        <4>2. w[(n - 1) + 1] = q[n - 1] BY <3>1, <4>1
        <4>3. DOMAIN q = 1 .. Len(q) BY <1>2 DEF q
        <4> QED BY <3>3, <4>1, <4>2, <4>3 DEF Range
      <3>4. ASSUME b \in Range(q) PROVE \E n \in 2 .. Len(w) : w[n] = b
        <4>1. PICK n \in DOMAIN q : q[n] = b BY <3>4 DEF Range
        <4>2. n \in 1 .. Len(q) BY <1>2 DEF q
        <4>3. n + 1 \in 2 .. Len(w) /\ w[n + 1] = b BY <3>1, <4>1, <4>2
        <4> QED BY <4>3
      <3> QED BY <3>2, <3>3, <3>4 DEF q
    <2> QED BY <2>1, <2>2
  <1>14. ASSUME NEW i \in Nat, NEW b \in Blocks
         PROVE  Cancels(mlog, tail, e, i, b)
                  <=> Cancels(mlog, tail, s, i, b) \/ (s > i /\ b \in Range(com.revoked))
    BY <1>9, <1>10, <1>11, <1>13
  <1> QED BY <1>1, <1>9, <1>10, <1>11, <1>12, <1>14 DEF s, e

\* The steps of commit() that end with a flush leave memory alone.
FlushFrame ==
    /\ trans' = trans /\ curtrans' = curtrans /\ ct' = ct /\ translog' = translog
    /\ memlog' = memlog /\ tail' = tail /\ cache' = cache /\ dma' = dma /\ promised' = promised

LEMMA FlushFrameKeeps ==
    ASSUME FlushFrame
    PROVE  /\ cur' = cur /\ com' = com /\ Pages' = Pages /\ NoWrites' = NoWrites
           /\ \A b : islogged(b)' = islogged(b)
           /\ \A b : place(com, b)' = place(com, b)
           /\ revokelen(com)' = revokelen(com) /\ descriptor(com)' = descriptor(com)
  <1>1. cur' = cur /\ com' = com BY DEF FlushFrame, cur, com
  <1>2. Pages' = Pages /\ NoWrites' = NoWrites
    BY DEF FlushFrame, Pages, DestageLog, NoWrites
  <1>3. \A b : islogged(b)' = islogged(b) BY DEF FlushFrame, islogged
  <1>4. /\ \A b : place(com, b)' = place(com, b)
        /\ revokelen(com)' = revokelen(com) /\ descriptor(com)' = descriptor(com)
    BY <1>1 DEF FlushFrame, place, revokelen, descriptor
  <1> QED BY <1>1, <1>2, <1>3, <1>4

\* A transaction that takes no place in the log has no blocks for it.
LEMMA NothingLogged ==
    ASSUME TypeOK, DiskInv, cpc \in Pre, com.start = com.head
    PROVE  com.logged = {} /\ com.revoked = << >>
  <1>1. /\ Cardinality(com.logged) \in Nat /\ revokelen(com) \in 0 .. 1
        /\ com.start \in Nat /\ com.head \in Nat
    BY LiveTypes, LoggedCount DEF TransType
  <1>2. com.head = com.start + (IF com.logged = {} /\ com.revoked = << >> THEN 0
                                ELSE NCommitBlk + revokelen(com) + Cardinality(com.logged))
    BY DEF DiskInv, ComInv
  <1> QED BY <1>1, <1>2 DEF NCommitBlk

\* commit()'s first flush.
LEMMA FlushDisk ==
    ASSUME TypeOK, LogInv, DiskInv, FlushCovers, CommitFlush PROVE DiskInv'
  <1>1. /\ cpc = "ordered" /\ dma = {} /\ Flushed /\ FlushFrame
        /\ com.start # com.head => /\ cpc' = "commithead" /\ whdr' = commit_head(com.head)
                                   /\ ord' = ord
        /\ com.start = com.head => /\ cpc' = "committed" /\ whdr' = << >>
                                   /\ ord' = [ord EXCEPT !.last = OrdCommitted]
    BY CoveredFlush DEF CommitFlush, FlushFrame, transVars
  <1>2. /\ cpc \in Pre /\ ~Down /\ ~Down' /\ cpc \in Committing /\ cpc' \in Committing
        /\ cpc' \in {"commithead", "committed"}
        /\ com.start # com.head <=> cpc' = "commithead"
        /\ com.start = com.head <=> cpc' = "committed"
    BY <1>1 DEF Pre, Down, Committing
  <1>3. /\ trans' = trans /\ memlog' = memlog /\ tail' = tail /\ cache' = cache
        /\ dma' = dma /\ promised' = promised /\ translog' = translog
    BY <1>1 DEF FlushFrame
  <1>4. /\ cur' = cur /\ com' = com /\ Pages' = Pages /\ NoWrites' = NoWrites
        /\ \A b : islogged(b)' = islogged(b)
        /\ \A b : place(com, b)' = place(com, b)
        /\ revokelen(com)' = revokelen(com) /\ descriptor(com)' = descriptor(com)
    BY <1>1, FlushFrameKeeps
  <1>5. whdr = << >> /\ mhdr.head = com.start /\ mhdr.tail = tail
    BY <1>1, <1>2 DEF DiskInv, HdrInv
  <1>6. /\ whome' = NoWrites /\ wlog' = {} /\ mhome' = Destage(Blocks)
        /\ mlog' = DestageLog(wlog) /\ mhdr' = mhdr
        /\ StableInv' /\ LogType(mlog') /\ LogType(mlog)
        /\ Agree(mlog, mlog', mhdr.tail, mhdr.head)
    BY <1>1, <1>5, FlushEffects
  <1>7. /\ ShapeInv'
        /\ \A i, b : Copy(mlog', mhdr.tail, mhdr.head, i, b)
                        <=> Copy(mlog, mhdr.tail, mhdr.head, i, b)
        /\ \A i, b : Cancels(mlog', mhdr.tail, mhdr.head, i, b)
                        <=> Cancels(mlog, mhdr.tail, mhdr.head, i, b)
    BY <1>6, KeptLog
  <1>8. /\ mhdr \in Header /\ mhdr.tail \in Nat /\ mhdr.head \in Nat
        /\ com.start \in Nat /\ com.head \in Nat
        /\ ord \in [com : SUBSET Blocks, last : SUBSET Blocks]
    BY LiveTypes DEF TypeOK, DiskType, Header, TransType, HistType
  <1>9. HdrInv'
    <2>1. CASE com.start # com.head
      <3>1. whdr' = <<[mhdr EXCEPT !.head = com.head]>>
        BY <1>1, <1>5, <2>1 DEF commit_head, DestageHdr
      <3>2. cpc' = "commithead" /\ cpc' \in Pre /\ cpc' \notin Post
        BY <1>1, <2>1 DEF Pre, Post
      <3> QED BY <1>2, <1>3, <1>4, <1>5, <1>6, <2>1, <3>1, <3>2 DEF HdrInv
    <2>2. CASE com.start = com.head
      <3>1. cpc' = "committed" /\ cpc' \notin Pre /\ cpc' \in Post /\ whdr' = << >>
        BY <1>1, <2>2 DEF Pre, Post
      <3> QED BY <1>2, <1>3, <1>4, <1>5, <1>6, <2>2, <3>1 DEF HdrInv
    <2> QED BY <2>1, <2>2
  <1>10. DriveInv' BY <1>1, <1>2, <1>3, <1>4, <1>6 DEF DriveInv
  <1>11. ord'.com = ord.com /\ \A b \in ord'.last : b \in ord.last \/ (b \in ord.com /\ com.start = com.head)
    BY <1>1, <1>8 DEF OrdCommitted
  <1>12. OrdInv'
    <2>1. ASSUME NEW b \in ord.com \ (cur.ordered \cup cur.logged) PROVE mhome'[b] = cache[b]
      <3>1. b \in Blocks /\ whome[b] = cache[b] /\ cache[b] # NoVal
        <4>1. b \in Blocks BY <1>8
        <4>2. whome[b] = cache[b] BY <1>1 DEF DiskInv, OrdInv
        <4>3. cache[b] \in Vals BY <4>1 DEF TypeOK, KernelType
        <4> QED BY <4>1, <4>2, <4>3, LogAssumption
      <3> QED BY <1>6, <3>1 DEF Destage
    <2> QED BY <1>2, <1>3, <1>4, <1>11, <2>1 DEF OrdInv, OrderedBeforeCommit
  <1>13. BlocksInv' BY <1>3, <1>11 DEF DiskInv, BlocksInv
  <1>14. SameInv'
    <2>1. ASSUME NEW i \in tail .. mhdr.head - 1 PROVE mlog'[logindex(i)] = Pages[logindex(i)]
      BY <1>2, <1>5, <1>6 DEF DiskInv, SameInv, Agree
    <2>2. ASSUME NEW i \in com.start .. com.head - 1 PROVE mlog'[logindex(i)] = Pages[logindex(i)]
      <3>1. logindex(i) \in Slots /\ logindex(i) \in wlog
        BY <1>1, <1>8, SlotType DEF DiskInv, DriveInv
      <3> QED BY <1>6, <3>1 DEF DestageLog, Pages
    <2> QED BY <1>3, <1>4, <1>6, <2>1, <2>2 DEF SameInv
  <1>15. ComInv' BY <1>1, <1>2, <1>3, <1>4 DEF DiskInv, ComInv
  <1>16. TlogInv' BY <1>2, <1>3, <1>4, <1>5, <1>6, <1>7 DEF DiskInv, TlogInv
  <1>17. RevInv'
    <2>1. ComOrdered' = ord.com /\ ComOrdered = ord.com
      BY <1>1, <1>2, <1>11 DEF ComOrdered
    <2> QED BY <1>2, <1>4, <2>1 DEF DiskInv, RevInv
  <1>18. ReplayInv'
    <2>1. ASSUME NEW b \in ord'.last, NEW i \in mhdr.tail .. mhdr.head - 1,
                 Copy(mlog, mhdr.tail, mhdr.head, i, b)
          PROVE  Cancels(mlog, mhdr.tail, mhdr.head, i, b)
      <3>1. CASE b \in ord.last BY <2>1, <3>1 DEF DiskInv, ReplayInv
      <3>2. CASE b \in ord.com /\ com.start = com.head
        <4>1. com.revoked = << >> BY <1>2, <3>2, NothingLogged
        <4>2. b \in Blocks /\ WellFormed(mlog, mhdr.tail, mhdr.head)
          BY <1>8, <3>2 DEF DiskInv, ShapeInv
        <4>3. b \in LogBlks BY <1>6, <1>8, <2>1, <4>2, CopiesLogged
        <4>4. islogged(b) BY <1>2, <1>5, <2>1, <4>3 DEF DiskInv, TlogInv
        <4>5. b \in Range(com.revoked)
          BY <1>1, <1>2, <3>2, <4>4 DEF DiskInv, RevInv, ComOrdered
        <4> QED BY <4>1, <4>5 DEF Range
      <3> QED BY <1>11, <3>1, <3>2
    <2> QED BY <1>6, <1>7, <2>1 DEF ReplayInv
  <1>19. WaitedForceDurable' BY <1>3, <1>6 DEF DiskInv, WaitedForceDurable
  <1> QED
    BY <1>6, <1>7, <1>9, <1>10, <1>12, <1>13, <1>14, <1>15, <1>16, <1>17, <1>18, <1>19 DEF DiskInv

\* With nothing cached for the home blocks, a flush leaves them alone.
LEMMA NothingToDestage ==
    ASSUME TypeOK, whome = NoWrites, NEW S PROVE Destage(S) = mhome
  <1>1. \A b \in Blocks : whome[b] = NoVal BY DEF NoWrites
  <1> QED BY <1>1 DEF Destage, TypeOK, DiskType

\* The header before and after its head moves.
LEMMA HeaderParts ==
    ASSUME NEW hdr \in Header, NEW n \in Nat
    PROVE  /\ [hdr EXCEPT !.head = n] \in Header /\ [hdr EXCEPT !.head = n].head = n
           /\ [hdr EXCEPT !.head = n].tail = hdr.tail
           /\ [hdr EXCEPT !.tail = n] \in Header /\ [hdr EXCEPT !.tail = n].tail = n
           /\ [hdr EXCEPT !.tail = n].head = hdr.head
           /\ hdr.head \in Nat /\ hdr.tail \in Nat
  BY DEF Header

\* Once the header that commits the transaction is on the platter, no ordered
\* block is replayed.
LEMMA CommittedReplay ==
    ASSUME TypeOK, LogInv, DiskInv, cpc = "commithead", NEW b \in OrdCommitted,
           NEW i \in tail .. com.head - 1, Copy(mlog, tail, com.head, i, b)
    PROVE  Cancels(mlog, tail, com.head, i, b)
  <1>1. /\ tail = mhdr.tail /\ com.start = mhdr.head
        /\ \A j : \A c \in Blocks :
              Copy(mlog, tail, com.head, j, c)
                 <=> Copy(mlog, tail, com.start, j, c) \/ (c \in com.logged /\ j = place(com, c))
        /\ \A j \in Nat, c \in Blocks :
              Cancels(mlog, tail, com.head, j, c)
                 <=> \/ Cancels(mlog, tail, com.start, j, c)
                     \/ com.start > j /\ c \in Range(com.revoked)
    BY CommitLog
  <1>2. /\ tail \in Nat /\ com.start \in Nat /\ com.head \in Nat /\ i \in Nat
        /\ ord \in [com : SUBSET Blocks, last : SUBSET Blocks]
    <2>1. /\ tail \in Nat /\ com.start \in Nat /\ com.head \in Nat
          /\ ord \in [com : SUBSET Blocks, last : SUBSET Blocks]
      BY LiveTypes DEF TypeOK, KernelType, TransType, HistType
    <2> QED BY <2>1
  <1>3. cpc \in Pre /\ ~Down /\ LogType(mlog) /\ WellFormed(mlog, tail, com.start)
    BY <1>1 DEF Pre, Down, LogType, TypeOK, DiskType, DiskInv, ShapeInv
  <1>4. b \in Blocks BY <1>2 DEF OrdCommitted
  <1>5. b \notin com.logged BY <1>3 DEF OrdCommitted, DiskInv, RevInv, ComOrdered
  <1>6. Copy(mlog, tail, com.start, i, b) BY <1>1, <1>4, <1>5
  <1>7. b \in LogBlks /\ i \in tail .. com.start - 1
    BY <1>2, <1>3, <1>4, <1>6, CopiesLogged
  <1>8. CASE b \in ord.last
    <2>1. Cancels(mlog, tail, com.start, i, b)
      BY <1>1, <1>6, <1>7, <1>8 DEF DiskInv, ReplayInv
    <2> QED BY <1>1, <1>2, <1>4, <2>1
  <1>9. CASE b \in ord.com
    <2>1. islogged(b) BY <1>1, <1>3, <1>6, <1>7 DEF DiskInv, TlogInv
    <2>2. b \in Range(com.revoked) BY <1>3, <1>9, <2>1 DEF DiskInv, RevInv, ComOrdered
    <2>3. com.start > i BY <1>2, <1>7
    <2> QED BY <1>1, <1>2, <1>4, <2>2, <2>3
  <1> QED BY <1>8, <1>9 DEF OrdCommitted

\* commit_head's flush.
LEMMA HeadDisk ==
    ASSUME TypeOK, LogInv, DiskInv, FlushCovers, CommitHead PROVE DiskInv'
  <1>1. /\ cpc = "commithead" /\ cpc' = "committed" /\ Flushed /\ FlushFrame /\ whdr' = << >>
        /\ ord' = [ord EXCEPT !.last = OrdCommitted]
    BY CoveredFlush DEF CommitHead, FlushFrame, transVars
  <1>2. /\ cpc \in Pre /\ cpc' \notin Pre /\ cpc' \in Post /\ ~Down /\ ~Down'
        /\ cpc \in Committing /\ cpc' \in Committing
    BY <1>1 DEF Pre, Post, Down, Committing
  <1>3. /\ trans' = trans /\ memlog' = memlog /\ tail' = tail /\ cache' = cache
        /\ dma' = dma /\ promised' = promised /\ translog' = translog
    BY <1>1 DEF FlushFrame
  <1>4. /\ cur' = cur /\ com' = com /\ Pages' = Pages /\ NoWrites' = NoWrites
        /\ \A b : islogged(b)' = islogged(b)
    BY <1>1, FlushFrameKeeps
  <1>5. /\ tail \in Nat /\ com.start \in Nat /\ com.head \in Nat /\ mhdr \in Header
        /\ ord \in [com : SUBSET Blocks, last : SUBSET Blocks]
        /\ promised \in [wait : Nat, all : Nat]
    BY LiveTypes DEF TypeOK, KernelType, TransType, HistType, DiskType
  <1>6. whdr = <<[mhdr EXCEPT !.head = com.head]>> /\ whome = NoWrites /\ wlog = {} /\ dma = {}
    BY <1>1 DEF DiskInv, HdrInv, DriveInv
  <1>7. /\ whome' = NoWrites /\ wlog' = {} /\ mhome' = mhome /\ mlog' = mlog
        /\ mhdr' = [mhdr EXCEPT !.head = com.head] /\ StableInv'
    <2>1. [mhdr EXCEPT !.head = com.head] \in Header BY <1>5, HeaderParts
    <2>2. /\ whome' = NoWrites /\ wlog' = {} /\ mhome' = Destage(Blocks)
          /\ StableInv' /\ mlog' = mlog
          /\ mhdr' = [mhdr EXCEPT !.head = com.head]
      BY <1>1, <1>6, <2>1, FlushEffects
    <2> QED BY <1>6, <2>2, NothingToDestage
  <1>8. mhdr'.head = com.head /\ mhdr'.tail = mhdr.tail BY <1>5, <1>7, HeaderParts
  <1>9. /\ tail = mhdr.tail /\ com.start = mhdr.head /\ com.start # com.head
        /\ WellFormed(mlog, tail, com.head)
        /\ \A i : \A b \in Blocks :
              Copy(mlog, tail, com.head, i, b)
                 <=> Copy(mlog, tail, com.start, i, b) \/ (b \in com.logged /\ i = place(com, b))
    BY <1>1, CommitLog
  <1>10. HdrInv' BY <1>1, <1>2, <1>3, <1>4, <1>8, <1>9 DEF HdrInv
  <1>11. DriveInv' BY <1>1, <1>3, <1>4, <1>6, <1>7 DEF DriveInv
  <1>12. ord'.com = ord.com /\ ord'.last = OrdCommitted BY <1>1, <1>5
  <1>13. OrdInv' BY <1>1, <1>3, <1>4, <1>7, <1>12 DEF DiskInv, OrdInv, OrderedBeforeCommit
  <1>14. BlocksInv' BY <1>3, <1>12 DEF DiskInv, BlocksInv
  <1>15. ShapeInv' BY <1>7, <1>8, <1>9 DEF ShapeInv
  <1>16. SameInv'
    <2>1. ASSUME NEW i \in tail .. com.head - 1 PROVE mlog[logindex(i)] = Pages[logindex(i)]
      <3>1. i \in tail .. mhdr.head - 1 \/ i \in com.start .. com.head - 1 BY <1>5, <1>9
      <3> QED BY <1>1, <1>2, <3>1 DEF DiskInv, SameInv
    <2> QED BY <1>1, <1>3, <1>4, <1>7, <1>8, <2>1 DEF SameInv
  <1>17. ComInv' BY <1>2 DEF ComInv
  <1>18. TlogInv'
    <2>1. ASSUME NEW i \in tail .. com.head - 1, NEW b \in LogBlks, Copy(mlog, tail, com.head, i, b)
          PROVE  islogged(b)
      <3>1. b \in Blocks BY DEF Blocks
      <3>2. CASE Copy(mlog, tail, com.start, i, b)
        <4>1. WellFormed(mlog, tail, com.start) /\ LogType(mlog)
          BY <1>9 DEF DiskInv, ShapeInv, LogType, TypeOK, DiskType
        <4>2. i \in tail .. com.start - 1 BY <1>5, <3>1, <3>2, <4>1, CopiesLogged
        <4> QED BY <1>2, <1>9, <3>2, <4>2 DEF DiskInv, TlogInv
      <3>3. CASE b \in com.logged BY <1>2, <3>3 DEF DiskInv, TlogInv
      <3> QED BY <1>9, <2>1, <3>1, <3>2, <3>3
    <2> QED BY <1>2, <1>3, <1>4, <1>7, <1>8, <1>9, <2>1 DEF TlogInv
  <1>19. RevInv' BY <1>2, <1>4 DEF DiskInv, RevInv
  <1>20. ReplayInv'
    <2>1. ASSUME NEW b \in OrdCommitted, NEW i \in tail .. com.head - 1,
                 Copy(mlog, tail, com.head, i, b)
          PROVE  Cancels(mlog, tail, com.head, i, b)
      BY <1>1, <2>1, CommittedReplay
    <2> QED BY <1>7, <1>8, <1>9, <1>12, <2>1 DEF ReplayInv
  <1>21. WaitedForceDurable'
    <2>1. com.start <= com.head BY <1>2 DEF LogInv, SpaceInv
    <2>2. promised.wait <= com.start BY <1>9 DEF DiskInv, WaitedForceDurable
    <2> QED BY <1>3, <1>5, <1>8, <2>1, <2>2 DEF WaitedForceDurable
  <1> QED
    BY <1>7, <1>10, <1>11, <1>13, <1>14, <1>15, <1>16, <1>17, <1>18, <1>19, <1>20, <1>21 DEF DiskInv

\* apply's flush.
LEMMA ApplyFlushDisk ==
    ASSUME TypeOK, LogInv, DiskInv, FlushCovers, ApplyFlush PROVE DiskInv'
  <1>1. /\ cpc = "apply" /\ cpc' = "applytail" /\ Flushed /\ FlushFrame
        /\ whdr' = commit_tail(com.head) /\ ord' = ord
    BY CoveredFlush DEF ApplyFlush, FlushFrame, transVars, histVars
  <1>2. /\ cpc \notin Pre /\ cpc' \notin Pre /\ cpc \in Post /\ cpc' \in Post /\ ~Down /\ ~Down'
        /\ cpc \in Committing /\ cpc' \in Committing
    BY <1>1 DEF Pre, Post, Down, Committing
  <1>3. /\ trans' = trans /\ memlog' = memlog /\ tail' = tail /\ cache' = cache
        /\ dma' = dma /\ promised' = promised /\ translog' = translog
    BY <1>1 DEF FlushFrame
  <1>4. /\ cur' = cur /\ com' = com /\ Pages' = Pages /\ NoWrites' = NoWrites
        /\ \A b : islogged(b)' = islogged(b)
    BY <1>1, FlushFrameKeeps
  <1>5. whdr = << >> /\ wlog = {} /\ dma = {} BY <1>1 DEF DiskInv, HdrInv, DriveInv
  <1>6. whome' = NoWrites /\ wlog' = {} /\ mlog' = mlog /\ mhdr' = mhdr /\ StableInv'
    BY <1>1, <1>5, FlushEffects
  <1>7. HdrInv'
    <2>1. whdr' = <<[mhdr EXCEPT !.tail = com.head]>>
      BY <1>1, <1>5 DEF commit_tail, DestageHdr
    <2> QED BY <1>1, <1>2, <1>3, <1>4, <1>6, <2>1 DEF DiskInv, HdrInv
  <1>8. DriveInv' /\ OrdInv' /\ ComInv'
    BY <1>1, <1>2, <1>3, <1>4, <1>5, <1>6 DEF DriveInv, OrdInv, OrderedBeforeCommit, ComInv
  <1>9. BlocksInv' /\ ShapeInv' /\ ReplayInv' /\ WaitedForceDurable'
    BY <1>1, <1>3, <1>6 DEF DiskInv, BlocksInv, ShapeInv, ReplayInv, WaitedForceDurable
  <1>10. SameInv' BY <1>1, <1>2, <1>3, <1>4, <1>6 DEF DiskInv, SameInv
  <1>11. TlogInv' /\ RevInv' BY <1>2, <1>3, <1>4, <1>6 DEF DiskInv, TlogInv, RevInv
  <1> QED BY <1>6, <1>7, <1>8, <1>9, <1>10, <1>11 DEF DiskInv

\* commit_tail's flush: the log is empty.
LEMMA ApplyTailDisk ==
    ASSUME TypeOK, TypeOK', LogInv, DiskInv, FlushCovers, ApplyTail PROVE DiskInv'
  <1>1. /\ cpc = "applytail" /\ cpc' = "finish" /\ Flushed /\ whdr' = << >>
        /\ trans' = trans /\ curtrans' = curtrans /\ ct' = ct /\ ord' = ord
        /\ memlog' = memlog /\ tail' = com.head /\ cache' = cache /\ dma' = dma
        /\ promised' = promised /\ translog' = {e \in translog : e.head > com.head}
    BY CoveredFlush DEF ApplyTail, histVars
  <1>2. /\ cpc \notin Pre /\ cpc' \notin Pre /\ cpc \in Post /\ cpc' \in Post /\ ~Down /\ ~Down'
        /\ cpc \in Committing /\ cpc' \in Committing
    BY <1>1 DEF Pre, Post, Down, Committing
  <1>3. cur' = cur /\ com' = com /\ NoWrites' = NoWrites BY <1>1 DEF cur, com, NoWrites
  <1>4. com.head \in Nat /\ mhdr \in Header /\ mlog' \in [Slots -> Page]
    BY LiveTypes DEF TypeOK, TransType, DiskType
  <1>5. whdr = <<[mhdr EXCEPT !.tail = com.head]>> /\ wlog = {} /\ dma = {} /\ mhdr.head = com.head
    BY <1>1, <1>2 DEF DiskInv, HdrInv, DriveInv
  <1>6. /\ whome' = NoWrites /\ wlog' = {} /\ mlog' = mlog
        /\ mhdr' = [mhdr EXCEPT !.tail = com.head] /\ StableInv'
    <2>1. [mhdr EXCEPT !.tail = com.head] \in Header BY <1>4, HeaderParts
    <2> QED BY <1>1, <1>5, <2>1, FlushEffects
  <1>7. mhdr'.head = com.head /\ mhdr'.tail = com.head BY <1>4, <1>5, <1>6, HeaderParts
  <1>8. com.head .. com.head - 1 = {} BY <1>4
  <1>9. ShapeInv' /\ ReplayInv' /\ SameInv' /\ TlogInv' /\ ComInv'
    <2>1. LogType(mlog') BY <1>4 DEF LogType
    <2> DEFINE new == mlog'
    <2>2. LogType(new) BY <2>1
    <2> HIDE DEF new
    <2>3. WellFormed(new, com.head, com.head) BY <1>4, <2>2, EmptyLog
    <2>4. ShapeInv' BY <1>7, <2>3 DEF ShapeInv, new
    <2> QED BY <1>1, <1>2, <1>7, <1>8, <2>4 DEF ReplayInv, SameInv, TlogInv, ComInv
  <1>10. HdrInv' BY <1>1, <1>2, <1>3, <1>7 DEF HdrInv
  <1>11. DriveInv' /\ OrdInv'
    BY <1>1, <1>3, <1>5, <1>6 DEF DriveInv, OrdInv, OrderedBeforeCommit
  <1>12. BlocksInv' BY <1>1 DEF DiskInv, BlocksInv
  <1>13. RevInv'
    <2>1. \A b : islogged(b)' => islogged(b) BY <1>1 DEF islogged
    <2> QED BY <1>2, <1>3, <2>1 DEF DiskInv, RevInv
  <1>14. WaitedForceDurable' BY <1>1, <1>5, <1>7 DEF DiskInv, WaitedForceDurable
  <1> QED BY <1>6, <1>9, <1>10, <1>11, <1>12, <1>13, <1>14 DEF DiskInv

\* Back under the mutex after a commit.
LEMMA DoneDisk ==
    ASSUME TypeOK, LogInv, DiskInv, CommitDone PROVE DiskInv'
  <1>1. /\ cpc = "committed" /\ cpc' \in {"apply", "finish"}
        /\ trans' = [trans EXCEPT ![ct] = [@ EXCEPT !.forcedone = TRUE, !.waiters = {}]]
        /\ curtrans' = curtrans /\ ct' = ct /\ tail' = tail /\ cache' = cache
        /\ mhome' = mhome /\ mlog' = mlog /\ mhdr' = mhdr /\ stable' = stable
        /\ wlog' = wlog /\ whdr' = whdr /\ dma' = dma /\ ord' = ord
        /\ cpc' = "finish" => whome' = whome
        /\ memlog' = memlog \/ \E revoked : memlog' = cancel(revoked)
        /\ translog' = translog
             \/ (tail = com.head /\ translog' = {e \in translog : e.head > tail})
        /\ promised' = promised \/ promised' = [wait |-> Max({promised.wait, com.head}),
                                                all  |-> Max({promised.all, com.head})]
    BY DEF CommitDone
  <1>2. /\ cpc \notin Pre /\ cpc' \notin Pre /\ cpc \in Post /\ cpc' \in Post /\ ~Down /\ ~Down'
        /\ cpc \in Committing /\ cpc' \in Committing
        /\ cpc' \notin {"commit", "ordered", "commithead", "committed", "applytail", "recover"}
    BY <1>1 DEF Pre, Post, Down, Committing
  <1>3. /\ ct \in {0, 1} /\ curtrans \in {0, 1} /\ trans \in [{0, 1} -> TransType]
        /\ com.head \in Nat /\ tail \in Nat /\ memlog \in [Slots -> MemSlot]
        /\ promised \in [wait : Nat, all : Nat]
    BY LiveTypes DEF TypeOK, TransesType, TransType, KernelType, HistType
  <1>4. \A i \in {0, 1} : /\ trans'[i].start = trans[i].start /\ trans'[i].head = trans[i].head
                          /\ trans'[i].logged = trans[i].logged
                          /\ trans'[i].revoked = trans[i].revoked
                          /\ trans'[i].ordered = trans[i].ordered
    <2>1. ASSUME NEW i \in {0, 1}, i = ct
          PROVE  trans'[i] = [trans[i] EXCEPT !.forcedone = TRUE, !.waiters = {}]
      BY <1>1, <1>3, <2>1
    <2>2. ASSUME NEW i \in {0, 1}, i # ct PROVE trans'[i] = trans[i] BY <1>1, <1>3, <2>2
    <2>3. \A i \in {0, 1} : trans[i] \in TransType BY <1>3
    <2> QED BY <2>1, <2>2, <2>3 DEF TransType
  <1>5. /\ com'.start = com.start /\ com'.head = com.head
        /\ cur'.ordered = cur.ordered /\ cur'.revoked = cur.revoked
    BY <1>1, <1>3, <1>4 DEF com, cur
  <1>6. Pages' = Pages
    <2>1. ASSUME NEW s \in Slots PROVE memlog'[s].desc = memlog[s].desc /\ memlog'[s].data = memlog[s].data
      <3>1. CASE memlog' = memlog BY <3>1
      <3>2. CASE \E revoked : memlog' = cancel(revoked)
        <4>1. memlog'[s] = memlog[s] \/ memlog'[s] = [memlog[s] EXCEPT !.type = Canceled]
          BY <3>2 DEF cancel
        <4>2. memlog[s] \in MemSlot BY <1>3
        <4> QED BY <4>1, <4>2 DEF MemSlot
      <3> QED BY <1>1, <3>1, <3>2
    <2> QED BY <2>1 DEF Pages, DestageLog
  <1>7. mhdr.head = com.head /\ mhdr.tail = tail /\ whdr = << >>
    BY <1>1, <1>2 DEF DiskInv, HdrInv
  <1>8. HdrInv' BY <1>1, <1>2, <1>5, <1>7 DEF HdrInv
  <1>9. DriveInv'
    <2>1. NoWrites' = NoWrites /\ whome = NoWrites /\ wlog = {} /\ dma = {}
      BY <1>1 DEF NoWrites, DiskInv, DriveInv
    <2> QED BY <1>1, <1>2, <2>1 DEF DriveInv
  <1>10. OrdInv' /\ ComInv' BY <1>2 DEF OrdInv, OrderedBeforeCommit, ComInv
  <1>11. BlocksInv' BY <1>1, <1>4 DEF DiskInv, BlocksInv
  <1>12. ShapeInv' /\ ReplayInv' /\ StableInv'
    BY <1>1 DEF DiskInv, ShapeInv, ReplayInv, StableInv
  <1>13. SameInv' BY <1>1, <1>2, <1>6 DEF DiskInv, SameInv
  <1>14. TlogInv'
    <2>1. CASE translog' = translog
      <3>1. \A b : islogged(b)' = islogged(b) BY <2>1 DEF islogged
      <3> QED BY <1>1, <1>2, <3>1 DEF DiskInv, TlogInv
    <2>2. CASE tail = com.head
      <3>1. tail .. mhdr.head - 1 = {} BY <1>3, <1>7, <2>2
      <3> QED BY <1>1, <1>2, <3>1 DEF TlogInv
    <2> QED BY <1>1, <2>1, <2>2
  <1>15. RevInv'
    <2>1. \A b : islogged(b)' => islogged(b) BY <1>1 DEF islogged
    <2> QED BY <1>2, <1>5, <2>1 DEF DiskInv, RevInv
  <1>16. WaitedForceDurable'
    <2>1. promised.wait <= mhdr.head /\ promised.wait \in Nat
      BY <1>3 DEF DiskInv, WaitedForceDurable
    <2>2. Max({promised.wait, com.head}) <= com.head BY <1>3, <1>7, <2>1 DEF Max
    <2>3. promised'.wait = promised.wait \/ promised'.wait = Max({promised.wait, com.head})
      BY <1>1
    <2> QED BY <1>1, <1>7, <2>1, <2>2, <2>3 DEF WaitedForceDurable
  <1> QED BY <1>8, <1>9, <1>10, <1>11, <1>12, <1>13, <1>14, <1>15, <1>16 DEF DiskInv

\* The log as StartLog leaves it: empty, on the disk and in memory.
Fresh ==
    /\ cpc = "wake" /\ trans = [i \in {0, 1} |-> mk_trans(mhdr.head)]
    /\ tail = mhdr.head /\ mhdr.tail = mhdr.head
    /\ whome = NoWrites /\ wlog = {} /\ whdr = << >> /\ dma = {}
    /\ StableInv /\ WaitedForceDurable
    /\ ord.com \subseteq OrdBlks /\ \A e \in translog : e.logged \subseteq LogBlks

LEMMA FreshDisk == TypeOK /\ Fresh => DiskInv
  <1> SUFFICES ASSUME TypeOK, Fresh PROVE DiskInv
    OBVIOUS
  <1>1. /\ cpc = "wake" /\ cpc \notin Pre /\ cpc \notin Post /\ cpc \notin Committing /\ ~Down
    BY DEF Fresh, Pre, Post, Committing, Down
  <1>2. mhdr.head \in Nat /\ mhdr.tail = mhdr.head /\ tail = mhdr.head /\ curtrans \in {0, 1}
    BY DEF Fresh, TypeOK, DiskType, Header, TransesType
  <1>3. /\ \A i \in {0, 1} : trans[i] = mk_trans(mhdr.head)
        /\ cur = mk_trans(mhdr.head)
    BY <1>2 DEF Fresh, cur
  <1>4. HdrInv BY <1>1, <1>2, <1>3, FreshTrans DEF HdrInv, Fresh
  <1>5. DriveInv /\ OrdInv /\ ComInv
    BY <1>1 DEF DriveInv, OrdInv, OrderedBeforeCommit, ComInv, Fresh
  <1>6. BlocksInv
    <2>1. ASSUME NEW i \in {0, 1}
          PROVE  /\ trans[i].logged = {} /\ trans[i].ordered = {} /\ Range(trans[i].revoked) = {}
      BY <1>3, FreshTrans
    <2> QED BY <2>1 DEF BlocksInv, Fresh
  <1>7. ShapeInv
    <2>1. LogType(mlog) BY DEF LogType, TypeOK, DiskType
    <2> QED BY <1>2, <2>1, EmptyLog DEF ShapeInv
  <1>8. mhdr.head .. mhdr.head - 1 = {} BY <1>2
  <1>9. SameInv /\ TlogInv /\ ReplayInv
    BY <1>1, <1>2, <1>8 DEF SameInv, TlogInv, ReplayInv
  <1>10. RevInv BY <1>1, <1>3, FreshTrans DEF RevInv
  <1> QED BY <1>4, <1>5, <1>6, <1>7, <1>9, <1>10 DEF DiskInv, Fresh

LEMMA FreshNext == TypeOK' /\ Fresh' => DiskInv'
  BY FreshDisk, PTL

LEMMA InitDisk == Init => DiskInv
  <1> SUFFICES ASSUME Init PROVE DiskInv
    OBVIOUS
  <1>1. TypeOK BY InitType
  <1>2. mhdr = [tail |-> InitIndex, head |-> InitIndex] /\ mhdr.head = InitIndex /\ mhdr.tail = InitIndex
    BY DEF Init
  <1>3. StableInv
    <2>1. LogType(mlog) /\ mhdr \in Header /\ mhome \in [Blocks -> Vals]
      BY <1>1 DEF LogType, TypeOK, DiskType
    <2>2. Recovered(mhome, mlog, mhdr) = mhome BY <1>2, <2>1, EmptyLog, LogAssumption
    <2> QED BY <2>2 DEF StableInv, Init
  <1>4. WaitedForceDurable BY <1>2, LogAssumption DEF Init, WaitedForceDurable
  <1>5. Fresh BY <1>2, <1>3, <1>4 DEF Init, Fresh
  <1> QED BY <1>1, <1>5, FreshDisk

\* recover().
LEMMA RecoverDisk ==
    ASSUME TypeOK, TypeOK', LogInv, DiskInv, Recover PROVE DiskInv'
  <1>1. /\ cpc = "boot" /\ curtrans' = curtrans /\ ct' = ct /\ translog' = translog
        /\ memlog' = memlog /\ mhome' = mhome /\ mlog' = mlog /\ mhdr' = mhdr /\ stable' = stable
        /\ wlog' = wlog /\ dma' = dma /\ promised' = promised /\ ord' = ord
    BY DEF Recover, histVars
  <1>2. whdr = << >> /\ whome = NoWrites /\ wlog = {} /\ dma = {} /\ NoWrites' = NoWrites
    BY <1>1 DEF DiskInv, HdrInv, DriveInv, NoWrites
  <1>3. StableInv' /\ WaitedForceDurable'
    BY <1>1 DEF DiskInv, StableInv, WaitedForceDurable
  <1>4. CASE mhdr.tail = mhdr.head
    <2>1. /\ tail' = mhdr.head /\ trans' = [i \in {0, 1} |-> mk_trans(mhdr.head)] /\ cpc' = "wake"
          /\ whome' = whome /\ whdr' = whdr
      BY <1>4 DEF Recover, StartLog
    <2>2. Fresh' BY <1>1, <1>2, <1>3, <1>4, <2>1 DEF Fresh, DiskInv, BlocksInv
    <2> QED BY <2>2, FreshNext
  <1>5. CASE mhdr.tail # mhdr.head
    <2>1. /\ whome' = install(mlog, mhdr, Blocks) /\ whdr' = commit_tail(mhdr.head)
          /\ cpc' = "recover" /\ trans' = trans /\ cache' = cache /\ tail' = tail
      BY <1>5 DEF Recover
    <2>2. /\ cpc' \notin Pre /\ cpc' \notin Post /\ Down' /\ cpc \notin Pre
      BY <2>1, <1>1 DEF Pre, Post, Down
    <2>3. cur' = cur BY <1>1, <2>1 DEF cur
    <2>4. HdrInv'
      <3>1. whdr' = <<[mhdr EXCEPT !.tail = mhdr.head]>>
        BY <1>2, <2>1 DEF commit_tail, DestageHdr
      <3> QED BY <1>1, <2>1, <2>2, <3>1 DEF HdrInv
    <2>5. DriveInv' /\ OrdInv' /\ ComInv' /\ SameInv' /\ TlogInv'
      BY <1>1, <1>2, <2>1, <2>2
         DEF DriveInv, OrdInv, OrderedBeforeCommit, ComInv, SameInv, TlogInv
    <2>6. BlocksInv' /\ ShapeInv' /\ ReplayInv'
      BY <1>1, <2>1 DEF DiskInv, BlocksInv, ShapeInv, ReplayInv
    <2>7. RevInv'
      <3>1. \A b : islogged(b)' = islogged(b) BY <1>1 DEF islogged
      <3> QED BY <2>2, <2>3, <3>1 DEF DiskInv, RevInv
    <2> QED BY <1>3, <2>4, <2>5, <2>6, <2>7 DEF DiskInv
  <1> QED BY <1>4, <1>5

LEMMA RecoverFlushDisk ==
    ASSUME TypeOK, TypeOK', LogInv, DiskInv, RecoverFlush PROVE DiskInv'
  <1>1. /\ cpc = "recover" /\ Flushed /\ whdr' = << >>
        /\ tail' = DestageHdr.head /\ trans' = [i \in {0, 1} |-> mk_trans(DestageHdr.head)]
        /\ cpc' = "wake" /\ translog' = translog /\ dma' = dma /\ promised' = promised /\ ord' = ord
    BY RecoveryFlush DEF RecoverFlush, StartLog, histVars
  <1>2. whdr = <<[mhdr EXCEPT !.tail = mhdr.head]>> /\ dma = {}
    BY <1>1 DEF DiskInv, HdrInv, DriveInv
  <1>3. mhdr \in Header /\ mhdr.head \in Nat BY DEF TypeOK, DiskType, Header
  <1>4. /\ whome' = NoWrites /\ wlog' = {} /\ mhdr' = [mhdr EXCEPT !.tail = mhdr.head]
        /\ mhdr' = DestageHdr /\ StableInv'
    <2>1. [mhdr EXCEPT !.tail = mhdr.head] \in Header BY <1>3, HeaderParts
    <2> QED BY <1>1, <1>2, <2>1, FlushEffects
  <1>5. mhdr'.tail = mhdr.head /\ mhdr'.head = mhdr.head BY <1>3, <1>4, HeaderParts
  <1>6. WaitedForceDurable' BY <1>1, <1>5 DEF DiskInv, WaitedForceDurable
  <1>7. Fresh'
    <2>1. NoWrites' = NoWrites BY DEF NoWrites
    <2>2. ord'.com \subseteq OrdBlks /\ \A e \in translog' : e.logged \subseteq LogBlks
      BY <1>1 DEF DiskInv, BlocksInv
    <2> QED BY <1>1, <1>2, <1>4, <1>5, <1>6, <2>1, <2>2 DEF Fresh
  <1> QED BY <1>7, FreshNext

\* A crash.
LEMMA CrashDisk ==
    ASSUME TypeOK, TypeOK', LogInv, DiskInv, Crash PROVE DiskInv'
  <1>1. /\ stable' = Recovered(mhome', mlog', mhdr')
        /\ whome' = NoWrites /\ wlog' = {} /\ whdr' = << >> /\ dma' = {}
        /\ trans' = [i \in {0, 1} |-> mk_trans(0)] /\ curtrans' = 0 /\ ct' = 0
        /\ translog' = {} /\ cpc' = "boot" /\ promised' = promised
        /\ \/ mhdr' = mhdr /\ ord' = [ord EXCEPT !.com = {}]
           \/ /\ whdr # << >> /\ mhdr' = DestageHdr
              /\ ord' = [com |-> {}, last |-> IF cpc = "commithead" THEN OrdCommitted ELSE ord.last]
    BY DEF Crash
  <1>2. PICK S \in SUBSET wlog : mlog' = DestageLog(S) BY DEF Crash
  <1>3. /\ LogType(mlog') /\ LogType(mlog) /\ Agree(mlog, mlog', mhdr.tail, mhdr.head)
        /\ wlog = {} => mlog' = mlog
    BY <1>2, DestageKept
  <1>4. /\ cpc' \notin Pre /\ cpc' \notin Post /\ Down' BY <1>1 DEF Pre, Post, Down
  <1>5. /\ ord \in [com : SUBSET Blocks, last : SUBSET Blocks]
        /\ promised \in [wait : Nat, all : Nat]
        /\ mhdr \in Header /\ mhdr.head \in Nat /\ mhdr.tail \in Nat
        /\ tail \in Nat /\ com.start \in Nat /\ com.head \in Nat
    BY LiveTypes DEF TypeOK, HistType, DiskType, Header, KernelType, TransType
  <1>6. ord'.com = {} BY <1>1, <1>5
  <1>7. \A i \in {0, 1} : /\ trans'[i].logged = {} /\ trans'[i].ordered = {}
                          /\ Range(trans'[i].revoked) = {}
    BY <1>1, FreshTrans
  <1>8. HdrInv' /\ StableInv' BY <1>1, <1>4 DEF HdrInv, StableInv
  <1>9. DriveInv'
    <2>1. NoWrites' = NoWrites BY DEF NoWrites
    <2> QED BY <1>1, <2>1 DEF DriveInv
  <1>10. OrdInv' /\ SameInv' /\ TlogInv' /\ ComInv'
    BY <1>1, <1>4 DEF OrdInv, OrderedBeforeCommit, SameInv, TlogInv, ComInv
  <1>11. BlocksInv' BY <1>1, <1>6, <1>7 DEF BlocksInv
  <1>12. RevInv' BY <1>1, <1>4, <1>7 DEF RevInv, cur
  <1>13. ShapeInv' /\ ReplayInv' /\ WaitedForceDurable'
    <2>1. CASE mhdr' = mhdr /\ ord' = [ord EXCEPT !.com = {}]
      <3>1. ord'.last = ord.last BY <1>5, <2>1
      <3>2. /\ ShapeInv'
            /\ \A i, b : Copy(mlog', mhdr.tail, mhdr.head, i, b)
                            <=> Copy(mlog, mhdr.tail, mhdr.head, i, b)
            /\ \A i, b : Cancels(mlog', mhdr.tail, mhdr.head, i, b)
                            <=> Cancels(mlog, mhdr.tail, mhdr.head, i, b)
        BY <1>3, <2>1, KeptLog
      <3> QED BY <1>1, <2>1, <3>1, <3>2 DEF DiskInv, ReplayInv, WaitedForceDurable
    <2>2. CASE cpc = "commithead" /\ mhdr' = DestageHdr /\ ord'.last = OrdCommitted
      <3>1. whdr = <<[mhdr EXCEPT !.head = com.head]>> /\ mlog' = mlog
        BY <1>3, <2>2 DEF DiskInv, HdrInv, DriveInv
      <3>2. mhdr' = [mhdr EXCEPT !.head = com.head]
        <4>1. [mhdr EXCEPT !.head = com.head] \in Header BY <1>5, HeaderParts
        <4> QED BY <2>2, <3>1, <4>1 DEF DestageHdr
      <3>3. mhdr'.head = com.head /\ mhdr'.tail = mhdr.tail BY <1>5, <3>2, HeaderParts
      <3>4. tail = mhdr.tail /\ com.start = mhdr.head /\ WellFormed(mlog, tail, com.head)
        BY <2>2, CommitLog
      <3>5. ASSUME NEW b \in OrdCommitted, NEW i \in tail .. com.head - 1,
                   Copy(mlog, tail, com.head, i, b)
            PROVE  Cancels(mlog, tail, com.head, i, b)
        BY <2>2, <3>5, CommittedReplay
      <3>6. ShapeInv' /\ ReplayInv'
        BY <2>2, <3>1, <3>3, <3>4, <3>5 DEF ShapeInv, ReplayInv
      <3>7. com.start <= com.head BY <2>2 DEF LogInv, SpaceInv, Committing
      <3>8. promised.wait <= com.start BY <3>4 DEF DiskInv, WaitedForceDurable
      <3>9. WaitedForceDurable' BY <1>1, <1>5, <3>3, <3>7, <3>8 DEF WaitedForceDurable
      <3> QED BY <3>6, <3>9
    <2>3. CASE cpc \in {"applytail", "recover"} /\ mhdr' = DestageHdr
      <3>1. whdr = <<[mhdr EXCEPT !.tail = mhdr.head]>> BY <2>3 DEF DiskInv, HdrInv, Post
      <3>2. mhdr' = [mhdr EXCEPT !.tail = mhdr.head]
        <4>1. [mhdr EXCEPT !.tail = mhdr.head] \in Header BY <1>5, HeaderParts
        <4> QED BY <2>3, <3>1, <4>1 DEF DestageHdr
      <3>3. mhdr'.head = mhdr.head /\ mhdr'.tail = mhdr.head /\ mhdr.head .. mhdr.head - 1 = {}
        BY <1>5, <3>2, HeaderParts
      <3> DEFINE new == mlog'
      <3>4. LogType(new) BY <1>3
      <3> HIDE DEF new
      <3>5. WellFormed(new, mhdr.head, mhdr.head) BY <1>5, <3>4, EmptyLog
      <3>6. ShapeInv' BY <3>3, <3>5 DEF ShapeInv, new
      <3> QED BY <1>1, <3>3, <3>6 DEF DiskInv, ReplayInv, WaitedForceDurable
    <2>4. whdr # << >> => cpc \in {"commithead", "applytail", "recover"}
      BY DEF DiskInv, HdrInv
    <2> QED BY <1>1, <2>1, <2>2, <2>3, <2>4
  <1> QED BY <1>8, <1>9, <1>10, <1>11, <1>12, <1>13 DEF DiskInv

\* A step that changes nothing.
LEMMA StutterDisk == ASSUME DiskInv, UNCHANGED vars PROVE DiskInv'
  <1>1. /\ trans' = trans /\ curtrans' = curtrans /\ ct' = ct /\ translog' = translog
        /\ cpc' = cpc /\ memlog' = memlog /\ tail' = tail /\ cache' = cache
        /\ mhome' = mhome /\ mlog' = mlog /\ mhdr' = mhdr /\ stable' = stable
        /\ whome' = whome /\ wlog' = wlog /\ whdr' = whdr /\ dma' = dma
        /\ promised' = promised /\ ord' = ord
    BY DEF vars, transVars, diskVars, histVars
  <1>2. FlushFrame BY <1>1 DEF FlushFrame
  <1>3. /\ cur' = cur /\ com' = com /\ Pages' = Pages /\ NoWrites' = NoWrites
        /\ \A b : islogged(b)' = islogged(b)
        /\ \A b : place(com, b)' = place(com, b)
        /\ revokelen(com)' = revokelen(com) /\ descriptor(com)' = descriptor(com)
    BY <1>2, FlushFrameKeeps
  <1>4. HdrInv' /\ DriveInv' /\ OrdInv' /\ BlocksInv'
    BY <1>1, <1>3 DEF DiskInv, HdrInv, DriveInv, OrdInv, OrderedBeforeCommit, BlocksInv, Down
  <1>5. ShapeInv' /\ SameInv' /\ ReplayInv' /\ StableInv' /\ WaitedForceDurable'
    BY <1>1, <1>3 DEF DiskInv, ShapeInv, SameInv, ReplayInv, StableInv, WaitedForceDurable, Down
  <1>6. TlogInv' /\ RevInv' BY <1>1, <1>3 DEF DiskInv, TlogInv, RevInv, ComOrdered, Down
  <1>7. ComInv' BY <1>1, <1>3 DEF DiskInv, ComInv
  <1> QED BY <1>4, <1>5, <1>6, <1>7 DEF DiskInv

LEMMA NextDisk ==
    ASSUME TypeOK, TypeOK', LogInv, LogInv', DiskInv, FlushCovers,
           [Next]_vars
    PROVE  DiskInv'
  <1>1. CASE \E p \in Procs : Fs(p) BY <1>1, FsDisk
  <1>2. CASE Committer
    BY <1>2, TopDisk, StartDisk, WriteDisk, TransferDisk, FlushDisk, HeadDisk, DoneDisk,
       ApplyFlushDisk, ApplyTailDisk, FinishDisk, RecoverDisk, RecoverFlushDisk DEF Committer
  <1>3. CASE Crash BY <1>3, CrashDisk
  <1>4. CASE UNCHANGED vars BY <1>4, StutterDisk
  <1> QED BY <1>1, <1>2, <1>3, <1>4 DEF Next

(***************************************************************************)
(* The theorems.  OpWrites < MaxBlkPerOp is the file system's duty: an     *)
(* operation writes fewer blocks than Op_begin reserves for it.  That      *)
(* flushes cover the writes before them, [][FlushCovers]_vars, is what the *)
(* log expects of the driver (the comment in start, ahci.go); the driver   *)
(* keeps it as long as every write finds a free command slot.              *)
(***************************************************************************)
\* At every moment, crashes during commit, apply and recovery included, the
\* committed part of the log on the platter is a sequence of whole
\* transactions, it is what the in-memory log says it is, and the drive's
\* cache holds only what the committer's stage allows.
THEOREM DiskInvariant ==
    ASSUME OpWrites < MaxBlkPerOp
    PROVE  Spec /\ [][FlushCovers]_vars => []DiskInv
  <1>1. TypeOK /\ TypeOK' /\ LogInv /\ LogInv' /\ DiskInv /\ [Next]_vars /\ [FlushCovers]_vars => DiskInv'
    BY NextDisk, CoversStep
  <1> QED BY <1>1, InitDisk, TypeCorrect, LogInvariant, PTL DEF Spec

\* A transaction that Force has waited for is below the head of the header on
\* the platter, and stays there across crashes: the header is flushed before
\* commit() returns, and no later write of it moves the head back.
THEOREM ForcedIsDurable ==
    ASSUME OpWrites < MaxBlkPerOp
    PROVE  Spec /\ [][FlushCovers]_vars => []WaitedForceDurable
  <1>1. DiskInv => WaitedForceDurable BY DEF DiskInv
  <1> QED BY <1>1, DiskInvariant, PTL

\* When the header that commits a transaction is written, the blocks the
\* transaction wrote in place are on the platter: commit() flushes them first,
\* although the file system may write them again meanwhile.
THEOREM OrderedComeFirst ==
    ASSUME OpWrites < MaxBlkPerOp
    PROVE  Spec /\ [][FlushCovers]_vars => []OrderedBeforeCommit
  <1>1. DiskInv => OrderedBeforeCommit BY DEF DiskInv, OrdInv
  <1> QED BY <1>1, DiskInvariant, PTL

\* Recovery never puts an old logged copy over a block that a later committed
\* transaction wrote in place: that transaction revokes the block, since
\* translog knows all copies in the log and is asked when the block is written.
THEOREM RevokedNotReplayed ==
    ASSUME OpWrites < MaxBlkPerOp
    PROVE  Spec /\ [][FlushCovers]_vars => []NoReplayOverOrdered
  <1>1. ASSUME TypeOK, DiskInv PROVE NoReplayOverOrdered
    <2>1. /\ LogType(mlog) /\ mhdr \in Header /\ WellFormed(mlog, mhdr.tail, mhdr.head)
          /\ ord \in [com : SUBSET Blocks, last : SUBSET Blocks]
      BY <1>1 DEF LogType, TypeOK, DiskType, DiskInv, ShapeInv, HistType
    <2>2. ASSUME NEW b \in ord.last PROVE install(mlog, mhdr, Blocks)[b] = NoVal
      <3>1. b \in Blocks BY <2>1
      <3>2. Live(mlog, mhdr.tail, mhdr.head, b) = {} BY <1>1 DEF DiskInv, ReplayInv, Live
      <3>3. install(mlog, mhdr, Blocks)[b]
              = IF Live(mlog, mhdr.tail, mhdr.head, b) = {} THEN NoVal
                ELSE mlog[logindex(Max(Live(mlog, mhdr.tail, mhdr.head, b)))].data
        BY <2>1, <3>1, InstallIs
      <3> QED BY <3>2, <3>3
    <2> QED BY <2>2 DEF NoReplayOverOrdered
  <1> QED BY <1>1, TypeCorrect, DiskInvariant, PTL

(***************************************************************************)
(* The contents of the disk and of the cache, when no block is written in  *)
(* both ways: the rest of the inductive invariant, in parts.               *)
(***************************************************************************)
\* Nothing is ever revoked.
NoRevokes ==
    /\ \A i \in {0, 1} : trans[i].revoked = << >>
    /\ \A i \in mhdr.tail .. mhdr.head - 1, b \in Blocks : ~Cancels(mlog, mhdr.tail, mhdr.head, i, b)

\* The in-memory log knows what its slots are.
MemInv ==
    /\ ~Down =>
         \A i \in tail .. mhdr.head - 1 :
            \/ /\ memlog[logindex(i)].type = CommitBlk
               /\ i \in Starts(mlog, tail, mhdr.head)
            \/ /\ memlog[logindex(i)].type = DataBlk
               /\ memlog[logindex(i)].block \in Blocks
               /\ Copy(mlog, tail, mhdr.head, i, memlog[logindex(i)].block)
    /\ cpc \in {"ordered", "commithead"} => memlog[logindex(com.start)].type = CommitBlk

\* The contents that the next commit makes stable.
Snap(b) ==
    IF cpc \in Pre /\ b \in com.logged THEN memlog[logindex(place(com, b))].data ELSE stable[b]

\* The cache differs from them only in blocks of the open transaction.
CacheInv ==
    ~Down => \A b \in LogBlks : b \notin cur.logged \/ (cpc \in Committing /\ ~early)
                                   => cache[b] = Snap(b)

\* What apply writes is what recovery would write.
ApplyInv ==
    /\ cpc = "apply" => whome = install(mlog, mhdr, Blocks)
    /\ cpc = "applytail" => mhome = stable

\* An ordered block that is on no list and on its way nowhere is on the disk.
CleanInv ==
    /\ ~Down => \A b \in OrdBlks \ (cur.ordered \cup dma) :
                   (cpc = "commit" => b \notin com.ordered) => DiskView(b) = cache[b]
    /\ cpc \in Committing \ {"commit"} => com.ordered = {}

AtomicInv == NoRevokes /\ MemInv /\ CacheInv /\ ApplyInv /\ CleanInv

\* Who stops the log is alone, and what it forced is the last transaction.
Applying == {"apply", "applytail", "finish"}

StopsInv ==
    /\ \A p, q \in Procs : pc[p] \in {"stopforce", "stopping", "stopped"} /\ q # p => pc[q] = "idle"
    /\ \A p \in Procs : pc[p] = "stopforce" =>
          \/ p \in cur.waiters /\ cur.committing
          \/ p \in com.waiters /\ isempty(cur) /\ early /\ cpc \in Committing
    /\ \A p \in Procs : pc[p] \in {"stopping", "stopped"} =>
          isempty(cur) \/ (cpc \in Applying /\ ~early)
    /\ stop => \E p \in Procs : pc[p] = "stopped"
    /\ cpc = "exited" => stop
    /\ cur.forcedone => cpc \in Applying /\ ~early
    /\ cpc \in Applying => com.waiters = {}

(***************************************************************************)
(* StopLog.                                                                *)
(***************************************************************************)
StopStates == {"stopforce", "stopping", "stopped"}

\* A step of the file system while no thread is stopping the log.
LEMMA RunningStops ==
    ASSUME StopsInv, LockFree, cpc' = cpc \/ (cpc = "sleep" /\ cpc' = "wake"), stop' = stop,
           ~Stopping, ~cur'.forcedone, \A q \in Procs : pc'[q] \notin StopStates
    PROVE  StopsInv'
  <1>1. /\ cpc' # "exited" /\ cpc' \notin Applying BY DEF LockFree, Applying
  <1>2. ~stop' BY DEF StopsInv, Stopping
  <1> QED BY <1>1, <1>2 DEF StopsInv, StopStates

LEMMA FsStops ==
    ASSUME TypeOK, LogInv, StopsInv, NEW p \in Procs, Fs(p) PROVE StopsInv'
  <1>1. /\ curtrans \in {0, 1} /\ trans \in [{0, 1} -> TransType] /\ cur \in TransType
        /\ pc \in [Procs -> {"idle", "admit", "admitwait", "op", "force",
                             "stopforce", "stopping", "stopped"}]
    BY LiveTypes DEF TypeOK, TransesType, ProcsType
  <1>2. /\ LockFree /\ curtrans' = curtrans /\ ct' = ct /\ early' = early
        /\ cpc' = cpc \/ (cpc = "sleep" /\ cpc' = "wake")
    BY FsEffects DEF FsFrame
  <1>3. ~cur.forcedone /\ cpc' # "exited" /\ cpc' \notin Applying
    BY <1>2 DEF StopsInv, LockFree, Applying
  <1>4. Stopping <=> \E q \in Procs : pc[q] \in StopStates BY DEF Stopping, StopStates
  <1>5. ASSUME pc[p] \notin StopStates, pc[p] # "idle" PROVE ~Stopping
    BY <1>4, <1>5 DEF StopsInv, StopStates
  <1>6. CASE Op_begin(p)
    <2>1. ~Stopping
      <3>1. pc[p] = "admit" \/ ~Stopping BY <1>6 DEF Op_begin
      <3> QED BY <1>5, <3>1 DEF StopStates
    <2>2. pc' = [pc EXCEPT ![p] = "admitwait"] \/ pc' = [pc EXCEPT ![p] = "op"]
      BY <1>6 DEF Op_begin
    <2>3. \A q \in Procs : pc'[q] \notin StopStates
      BY <1>1, <1>4, <2>1, <2>2 DEF StopStates
    <2>4. trans' = trans \/ trans' = [trans EXCEPT ![curtrans] = [cur EXCEPT !.inprogress = @ + 1]]
      BY <1>6 DEF Op_begin, cur
    <2>5. cur'.forcedone = cur.forcedone BY <1>1, <1>2, <2>4 DEF cur, TransType
    <2>6. stop' = stop BY <1>6 DEF Op_begin
    <2> QED BY <1>2, <1>3, <2>1, <2>3, <2>5, <2>6, RunningStops
  <1>7. ASSUME NEW b, NEW v, NEW o, Write(p, b, v, o) PROVE StopsInv'
    <2>1. pc[p] = "op" /\ pc' = pc /\ stop' = stop /\ trans' = [trans EXCEPT ![curtrans] = add_write(cur, b, o)]
      BY <1>7 DEF Write
    <2>2. ~Stopping BY <1>5, <2>1 DEF StopStates
    <2>3. add_write(cur, b, o).forcedone = cur.forcedone BY <1>1 DEF add_write, TransType
    <2>4. cur' = add_write(cur, b, o) BY <1>1, <1>2, <2>1 DEF cur
    <2>5. \A q \in Procs : pc'[q] \notin StopStates BY <1>4, <2>1, <2>2
    <2> QED BY <1>2, <1>3, <2>1, <2>2, <2>3, <2>4, <2>5, RunningStops
  <1>8. CASE Op_end(p)
    <2> DEFINE idle == [pc EXCEPT ![p] = "idle"]
    <2>1. pc[p] = "op" /\ stop' = stop /\ (pc' = idle \/ pc' = Broadcast(idle))
      BY <1>8 DEF Op_end
    <2>2. ~Stopping BY <1>5, <2>1 DEF StopStates
    <2>3. PICK c : trans' = [trans EXCEPT ![curtrans] =
                               [[cur EXCEPT !.inprogress = @ - 1] EXCEPT !.committing = c]]
      BY <1>8 DEF Op_end
    <2>4. cur'.forcedone = cur.forcedone
      <3>1. cur' = [[cur EXCEPT !.inprogress = @ - 1] EXCEPT !.committing = c]
        BY <1>1, <1>2, <2>3 DEF cur
      <3> QED BY <1>1, <3>1 DEF TransType
    <2>5. ASSUME NEW q \in Procs PROVE pc'[q] \notin StopStates
      <3>1. idle[q] \notin StopStates BY <1>1, <1>4, <2>2 DEF StopStates
      <3> HIDE DEF idle
      <3>2. pc'[q] = idle[q] \/ pc'[q] = "admit" BY <2>1 DEF Broadcast
      <3> QED BY <3>1, <3>2 DEF StopStates
    <2> QED BY <1>2, <1>3, <2>1, <2>2, <2>4, <2>5, RunningStops
  <1>9. ASSUME NEW doapply \in BOOLEAN, NEW stopping \in BOOLEAN, LogForce(p, doapply, stopping)
        PROVE  StopsInv'
    <2>1. /\ ~Stopping /\ stop' = stop /\ pc[p] = "idle"
          /\ stopping => \A q \in Procs : pc[q] = "idle"
      BY <1>9 DEF LogForce
    <2>2. \/ /\ isempty(cur) \/ cur.forcedone
             /\ pc' = [pc EXCEPT ![p] = IF stopping THEN "stopping" ELSE "idle"]
             /\ trans' = trans
          \/ /\ pc' = [pc EXCEPT ![p] = IF stopping THEN "stopforce" ELSE "force"]
             /\ trans' = [trans EXCEPT ![curtrans] = forced(cur, p, doapply)]
      BY <1>9 DEF LogForce
    <2>3. /\ forced(cur, p, doapply).forcedone = cur.forcedone
          /\ p \in forced(cur, p, doapply).waiters
          /\ cur.inprogress = 0 => forced(cur, p, doapply).committing
      BY <1>1 DEF forced, TransType, iscommittable
    <2>4. cur' = cur \/ cur' = forced(cur, p, doapply) BY <1>1, <1>2, <2>2 DEF cur
    <2>5. ~cur'.forcedone BY <1>3, <2>3, <2>4
    <2>6. CASE ~stopping
      <3>1. \A q \in Procs : pc'[q] \notin StopStates
        BY <1>1, <1>4, <2>1, <2>2, <2>6 DEF StopStates
      <3> QED BY <1>2, <2>1, <2>5, <3>1, RunningStops
    <2>7. CASE stopping
      <3>1. \A q \in Procs : pc[q] = "idle" BY <2>1, <2>7
      <3>2. \A q \in Procs : q # p => pc'[q] = "idle" BY <1>1, <2>2, <3>1
      <3>3. ~stop' BY <2>1 DEF StopsInv, Stopping
      <3>4. CASE isempty(cur) /\ pc'[p] = "stopping" /\ trans' = trans
        <4>1. cur' = cur /\ isempty(cur)' BY <1>2, <3>4 DEF cur, isempty
        <4> QED BY <1>3, <2>5, <3>2, <3>3, <3>4, <4>1 DEF StopsInv
      <3>5. CASE pc'[p] = "stopforce" /\ trans' = [trans EXCEPT ![curtrans] = forced(cur, p, doapply)]
        <4>1. cur' = forced(cur, p, doapply) BY <1>1, <1>2, <3>5 DEF cur
        <4>2. cur.inprogress = 0
          <5>1. Active = {} BY <3>1 DEF Active
          <5> QED BY <5>1, FS_EmptySet DEF LogInv, CountInv
        <4>3. p \in cur'.waiters /\ cur'.committing BY <2>3, <4>1, <4>2
        <4> QED BY <1>3, <2>5, <3>2, <3>3, <3>5, <4>3 DEF StopsInv
      <3> QED BY <1>1, <1>3, <2>2, <2>7, <3>4, <3>5
    <2> QED BY <2>6, <2>7
  <1>10. CASE StopLog(p)
    <2>1. /\ pc[p] = "stopping" /\ pc' = [pc EXCEPT ![p] = "stopped"] /\ stop' = TRUE /\ trans' = trans
      BY <1>10 DEF StopLog, transVars
    <2>2. cur' = cur BY <1>2, <2>1 DEF cur
    <2>3. \A q \in Procs : q # p => pc[q] = "idle" /\ pc'[q] = "idle"
      BY <1>1, <2>1 DEF StopsInv
    <2>4. pc'[p] = "stopped" BY <1>1, <2>1
    <2>5. isempty(cur) BY <1>2, <2>1 DEF StopsInv, LockFree, Applying
    <2>6. isempty(cur)' BY <2>2, <2>5 DEF isempty
    <2> QED BY <1>3, <2>1, <2>2, <2>3, <2>4, <2>6 DEF StopsInv
  <1> QED BY <1>6, <1>7, <1>8, <1>9, <1>10 DEF Fs

\* A step of the committer that wakes nobody and replaces no transaction.
LEMMA QuietStops ==
    ASSUME TypeOK, LogInv, StopsInv,
           \/ CommitterExit \/ CommitterIdle \/ CommitWrite \/ CommitFlush \/ CommitHead
           \/ ApplyFlush \/ ApplyTail \/ \E b \in Blocks : TransferOrdered(b)
    PROVE  StopsInv'
  <1>1. /\ pc' = pc /\ stop' = stop /\ curtrans' = curtrans /\ ct' = ct /\ early' = early
        /\ trans' = trans \/ trans' = [trans EXCEPT ![ct].ordered = {}]
    BY DEF CommitterExit, CommitterIdle, CommitWrite, CommitFlush, CommitHead, ApplyFlush,
           ApplyTail, TransferOrdered, procVars, transVars
  <1>2. /\ cpc \in Committing => cpc' \in Committing
        /\ cpc \in Applying <=> cpc' \in Applying
        /\ cpc' = "exited" => stop
    BY BottomState DEF CommitterExit, CommitterIdle, CommitWrite, CommitFlush, CommitHead,
           ApplyFlush, ApplyTail, TransferOrdered, AtTop, Committing, Applying, StopsInv
  <1>3. curtrans \in {0, 1} /\ ct \in {0, 1} /\ trans \in [{0, 1} -> TransType]
    BY DEF TypeOK, TransesType
  <1>4. ASSUME NEW i \in {0, 1}
        PROVE  /\ trans'[i].waiters = trans[i].waiters /\ trans'[i].committing = trans[i].committing
               /\ trans'[i].forcedone = trans[i].forcedone /\ trans'[i].logged = trans[i].logged
               /\ trans'[i].ordered = trans[i].ordered \/ trans'[i].ordered = {}
    <2>1. trans'[i] = trans[i] \/ trans'[i] = [trans[i] EXCEPT !.ordered = {}]
      BY <1>1, <1>3
    <2>2. trans[i] \in TransType BY <1>3
    <2> QED BY <2>1, <2>2 DEF TransType
  <1>5. /\ cur'.waiters = cur.waiters /\ cur'.committing = cur.committing
        /\ cur'.forcedone = cur.forcedone /\ com'.waiters = com.waiters
        /\ isempty(cur) => isempty(cur)'
    BY <1>1, <1>3, <1>4 DEF cur, com, isempty
  <1> QED BY <1>1, <1>2, <1>5 DEF StopsInv

\* A broadcast wakes no thread that stops the log.
LEMMA BroadcastStops ==
    ASSUME NEW q \in Procs
    PROVE  /\ Broadcast(pc)[q] \in StopStates <=> pc[q] \in StopStates
           /\ \A x \in StopStates \cup {"idle"} : Broadcast(pc)[q] = x <=> pc[q] = x
  BY DEF Broadcast, StopStates

LEMMA StartStops ==
    ASSUME TypeOK, LogInv, StopsInv, CommitterStart PROVE StopsInv'
  <1> DEFINE h == TransHead(cur)
  <1>1. StartFrame(h) BY StartEffects
  <1> HIDE DEF h
  <1>2. stop' = stop /\ (pc' = pc \/ pc' = Broadcast(pc)) BY DEF CommitterStart
  <1>3. \A q \in Procs : \A x \in StopStates \cup {"idle"} : pc'[q] = x <=> pc[q] = x
    BY <1>2, BroadcastStops
  <1>4. /\ cpc \in {"wake", "run"} /\ cpc' = "commit" /\ cur.committing
        /\ com' = [cur EXCEPT !.head = h]
        /\ cur' = IF early' THEN mk_trans(h) ELSE com'
    BY <1>1 DEF StartFrame
  <1>5. /\ cpc \notin Committing /\ cpc \notin Applying /\ cpc' \in Committing
        /\ cpc' \notin Applying /\ cpc' # "exited"
    BY <1>4 DEF Committing, Applying
  <1>6. cur \in TransType BY LiveTypes
  <1>7. /\ com'.waiters = cur.waiters /\ com'.committing = cur.committing
        /\ com'.forcedone = cur.forcedone /\ com'.logged = cur.logged /\ com'.ordered = cur.ordered
    BY <1>4, <1>6 DEF TransType
  <1>8. /\ mk_trans(h).logged = {} /\ mk_trans(h).ordered = {} /\ ~mk_trans(h).forcedone
    BY FreshTrans
  <1>9. ~cur.forcedone BY <1>5 DEF StopsInv
  <1>10. CASE early'
    <2>1. cur' = mk_trans(h) /\ isempty(cur)' BY <1>4, <1>8, <1>10 DEF isempty
    <2>2. \A p \in Procs : pc'[p] = "stopforce" => p \in com'.waiters
      BY <1>3, <1>5, <1>7 DEF StopsInv, StopStates
    <2> QED BY <1>2, <1>3, <1>5, <1>8, <1>10, <2>1, <2>2 DEF StopsInv, StopStates
  <1>11. CASE ~early'
    <2>1. cur' = com' BY <1>4, <1>11
    <2>2. isempty(cur) => isempty(cur)' BY <1>7, <2>1 DEF isempty
    <2>3. ASSUME NEW p \in Procs, pc'[p] = "stopforce" PROVE p \in cur'.waiters /\ cur'.committing
      <3>1. p \in cur.waiters BY <1>3, <1>5, <2>3 DEF StopsInv, StopStates
      <3>2. p \in cur'.waiters BY <1>7, <2>1, <3>1
      <3>3. cur'.committing BY <1>4, <1>7, <2>1, Zenon
      <3> QED BY <3>2, <3>3
    <2>4. ~cur'.forcedone BY <1>7, <1>9, <2>1
    <2> QED BY <1>2, <1>3, <1>5, <2>2, <2>3, <2>4 DEF StopsInv, StopStates
  <1> QED BY <1>10, <1>11

LEMMA DoneStops ==
    ASSUME TypeOK, LogInv, StopsInv, CommitDone PROVE StopsInv'
  <1>1. /\ cpc = "committed" /\ cpc' \in {"apply", "finish"} /\ pc' = forcedone /\ stop' = stop
        /\ trans' = [trans EXCEPT ![ct] = [@ EXCEPT !.forcedone = TRUE, !.waiters = {}]]
        /\ curtrans' = curtrans /\ ct' = ct /\ early' = early
    BY DEF CommitDone
  <1>2. /\ cpc \in Committing /\ cpc \notin Applying /\ cpc' \in Committing /\ cpc' \in Applying
        /\ cpc' # "exited"
    BY <1>1 DEF Committing, Applying
  <1>3. curtrans \in {0, 1} /\ ct \in {0, 1} /\ trans \in [{0, 1} -> TransType] /\ com \in TransType
    BY LiveTypes DEF TypeOK, TransesType
  <1>4. /\ com' = [com EXCEPT !.forcedone = TRUE, !.waiters = {}]
        /\ curtrans # ct => cur' = cur
    BY <1>1, <1>3 DEF com, cur
  <1>5. com'.waiters = {} /\ com'.logged = com.logged /\ com'.ordered = com.ordered
    BY <1>3, <1>4 DEF TransType
  <1>6. IF early THEN curtrans # ct ELSE curtrans = ct
    <2>1. (early => curtrans = 1 - ct) /\ (~early => curtrans = ct)
      BY <1>2 DEF LogInv, SpaceInv
    <2>2. 1 - ct # ct BY <1>3
    <2> QED BY <2>1, <2>2
  <1>7. isempty(cur) => isempty(cur)'
    <2>1. CASE curtrans = ct BY <1>1, <1>5, <2>1 DEF cur, com, isempty
    <2>2. CASE curtrans # ct BY <1>4, <2>2 DEF isempty
    <2> QED BY <2>1, <2>2
  <1>8. cur'.forcedone => ~early BY <1>2, <1>4, <1>6 DEF StopsInv
  <1>9. \A q \in Procs : pc'[q] = IF q \notin com.waiters THEN pc[q]
                                  ELSE IF pc[q] = "stopforce" THEN "stopping" ELSE "idle"
    BY <1>1 DEF forcedone
  <1>10. \A q \in com.waiters : pc[q] \in {"force", "stopforce"}
    BY <1>3 DEF LogInv, WaitInv, com
  <1>11. ASSUME NEW p \in Procs, NEW q \in Procs, pc'[p] \in {"stopforce", "stopping", "stopped"},
                q # p
         PROVE  pc'[q] = "idle"
    <2>1. pc[p] \in {"stopforce", "stopping", "stopped"} BY <1>9, <1>11
    <2>2. pc[q] = "idle" BY <1>11, <2>1 DEF StopsInv
    <2> QED BY <1>9, <1>10, <2>2
  <1>12. ASSUME NEW p \in Procs, pc'[p] = "stopforce"
         PROVE  p \in cur'.waiters /\ cur'.committing
    <2>1. p \notin com.waiters /\ pc[p] = "stopforce" BY <1>9, <1>12
    <2>2. p \in cur.waiters /\ cur.committing BY <2>1 DEF StopsInv
    <2>3. curtrans # ct BY <2>1, <2>2 DEF cur, com
    <2> QED BY <1>4, <2>2, <2>3
  <1>13. ASSUME NEW p \in Procs, pc'[p] \in {"stopping", "stopped"}
         PROVE  isempty(cur)' \/ ~early
    <2>1. CASE pc[p] \in {"stopping", "stopped"} BY <1>2, <1>7, <2>1 DEF StopsInv
    <2>2. CASE pc[p] = "stopforce" /\ p \in com.waiters
      <3>1. CASE p \in cur.waiters
        <4>1. curtrans = ct
          <5>1. p \in trans[curtrans].waiters /\ p \in trans[ct].waiters
            BY <2>2, <3>1 DEF cur, com
          <5>2. ~(p \in trans[0].waiters /\ p \in trans[1].waiters) BY DEF LogInv, WaitInv
          <5> QED BY <1>3, <5>1, <5>2
        <4> QED BY <1>6, <4>1
      <3>2. CASE p \notin cur.waiters BY <1>7, <2>2, <3>2 DEF StopsInv
      <3> QED BY <3>1, <3>2
    <2> QED BY <1>9, <1>13, <2>1, <2>2
  <1>14. stop' => \E p \in Procs : pc'[p] = "stopped"
    <2>1. SUFFICES ASSUME stop PROVE \E p \in Procs : pc'[p] = "stopped" BY <1>1
    <2>2. PICK p \in Procs : pc[p] = "stopped" BY <2>1 DEF StopsInv
    <2>3. pc'[p] = "stopped" BY <1>9, <1>10, <2>2
    <2> QED BY <2>3
  <1> QED BY <1>1, <1>2, <1>5, <1>8, <1>11, <1>12, <1>13, <1>14 DEF StopsInv

LEMMA FinishStops ==
    ASSUME TypeOK, LogInv, StopsInv, CommitterFinish PROVE StopsInv'
  <1>1. /\ cpc = "finish" /\ cpc' \in {"sleep", "run"} /\ stop' = stop /\ ct' = ct /\ early' = early
    BY BottomState DEF CommitterFinish
  <1>2. /\ cpc \in Applying /\ cpc \in Committing /\ cpc' \notin Applying /\ cpc' # "exited"
    BY <1>1 DEF Applying, Committing
  <1>3. ct \in {0, 1} /\ 1 - ct \in {0, 1} /\ trans \in [{0, 1} -> TransType] /\ com.waiters = {}
    BY <1>2 DEF TypeOK, TransesType, StopsInv
  <1>4. CASE early
    <2>1. trans' = trans /\ curtrans' = curtrans /\ pc' = pc BY <1>4 DEF CommitterFinish
    <2>2. cur' = cur /\ (isempty(cur) => isempty(cur)') BY <2>1 DEF cur, isempty
    <2>3. \A p \in Procs : pc[p] = "stopforce" => p \in cur.waiters /\ cur.committing
      BY <1>3 DEF StopsInv
    <2> QED BY <1>1, <1>2, <1>4, <2>1, <2>2, <2>3 DEF StopsInv
  <1>5. CASE ~early
    <2>1. /\ trans' = [trans EXCEPT ![1 - ct] = mk_trans(com.head)] /\ curtrans' = 1 - ct
          /\ pc' = Broadcast(pc)
      BY <1>5 DEF CommitterFinish
    <2>2. cur' = mk_trans(com.head) BY <1>3, <2>1 DEF cur
    <2>3. isempty(cur)' /\ ~cur'.forcedone BY <2>2, FreshTrans DEF isempty
    <2>4. \A q \in Procs : \A x \in StopStates \cup {"idle"} : pc'[q] = x <=> pc[q] = x
      BY <2>1, BroadcastStops
    <2>5. curtrans = ct BY <1>2, <1>5 DEF LogInv, SpaceInv
    <2>6. \A p \in Procs : pc'[p] # "stopforce"
      BY <1>3, <1>5, <2>4, <2>5 DEF StopsInv, StopStates, cur, com
    <2> QED BY <1>1, <1>2, <2>3, <2>4, <2>6 DEF StopsInv, StopStates
  <1> QED BY <1>4, <1>5

\* Nobody calls the log while it is down.
LEMMA IdleStops ==
    ASSUME \A p \in Procs : pc'[p] = "idle", ~stop', ~cur'.forcedone,
           cpc' \in {"boot", "recover", "wake"}
    PROVE  StopsInv'
  BY DEF StopsInv, Applying

LEMMA DownStops ==
    ASSUME TypeOK, LogInv, StopsInv, Recover \/ RecoverFlush PROVE StopsInv'
  <1>1. /\ cpc \in {"boot", "recover"} /\ pc' = pc /\ stop' = stop /\ curtrans' = curtrans
        /\ cpc' \in {"recover", "wake"}
        /\ trans' = trans \/ \E n : trans' = [i \in {0, 1} |-> mk_trans(n)]
    BY DEF Recover, RecoverFlush, StartLog, procVars
  <1>2. \A p \in Procs : pc[p] = "idle" BY <1>1 DEF LogInv, DownInv, Down
  <1>3. ~cur.forcedone BY <1>1 DEF StopsInv, Applying
  <1>4. curtrans \in {0, 1} BY DEF TypeOK, TransesType
  <1>5. ~cur'.forcedone
    <2>1. CASE trans' = trans BY <1>1, <1>3, <2>1 DEF cur
    <2>2. CASE \E n : trans' = [i \in {0, 1} |-> mk_trans(n)]
      <3>1. PICK n : trans' = [i \in {0, 1} |-> mk_trans(n)] BY <2>2
      <3>2. cur' = mk_trans(n) BY <1>1, <1>4, <3>1 DEF cur
      <3> QED BY <3>2, FreshTrans
    <2> QED BY <1>1, <2>1, <2>2
  <1>6. ~stop BY <1>2 DEF StopsInv
  <1> QED BY <1>1, <1>2, <1>5, <1>6, IdleStops

LEMMA CrashStops == ASSUME Crash PROVE StopsInv'
  <1>1. /\ \A p \in Procs : pc'[p] = "idle"
        /\ ~stop' /\ cpc' = "boot" /\ cur' = mk_trans(0)
    BY DEF Crash, cur
  <1> QED BY <1>1, FreshTrans, IdleStops

LEMMA InitStops == Init => StopsInv
  <1> SUFFICES ASSUME Init PROVE StopsInv
    OBVIOUS
  <1>1. /\ \A p \in Procs : pc[p] = "idle"
        /\ ~stop /\ cpc = "wake" /\ cur = mk_trans(InitIndex)
    BY DEF Init, cur
  <1>2. ~cur.forcedone BY <1>1, FreshTrans
  <1> QED BY <1>1, <1>2 DEF StopsInv, Applying

LEMMA NextStops == ASSUME TypeOK, LogInv, StopsInv, [Next]_vars PROVE StopsInv'
  <1>1. CASE \E p \in Procs : Fs(p) BY <1>1, FsStops
  <1>2. CASE Committer
    BY <1>2, QuietStops, StartStops, DoneStops, FinishStops, DownStops DEF Committer
  <1>3. CASE Crash BY <1>3, CrashStops
  <1>4. CASE UNCHANGED vars
    <2>1. /\ pc' = pc /\ trans' = trans /\ curtrans' = curtrans /\ ct' = ct /\ early' = early
          /\ cpc' = cpc /\ stop' = stop
      BY <1>4 DEF vars, procVars, transVars
    <2>2. cur' = cur /\ com' = com /\ (isempty(cur) <=> isempty(cur)')
      BY <2>1 DEF cur, com, isempty
    <2> QED BY <2>1, <2>2 DEF StopsInv
  <1> QED BY <1>1, <1>2, <1>3, <1>4 DEF Next

(***************************************************************************)
(* What recovery computes.                                                 *)
(***************************************************************************)
LEMMA RecoveredIs ==
    ASSUME NEW log, NEW hdr, NEW home \in [Blocks -> Vals], NEW b \in Blocks
    PROVE  Recovered(home, log, hdr)[b]
             = IF install(log, hdr, Blocks)[b] = NoVal THEN home[b] ELSE install(log, hdr, Blocks)[b]
  BY DEF Recovered

\* A revocation is after what it revokes.
LEMMA CancelsLater ==
    ASSUME NEW log, NEW tl \in Nat, NEW hd \in Nat, NEW i \in Nat, NEW b,
           Cancels(log, tl, hd, i, b)
    PROVE  i < hd
  BY DEF Cancels, Starts

\* Blocks that the file system does not log are left alone.
LEMMA NotInstalled ==
    ASSUME NEW log, LogType(log), NEW hdr \in Header, WellFormed(log, hdr.tail, hdr.head),
           NEW b \in Blocks, \A i \in hdr.tail .. hdr.head - 1 : ~Copy(log, hdr.tail, hdr.head, i, b)
    PROVE  install(log, hdr, Blocks)[b] = NoVal
  <1>1. Live(log, hdr.tail, hdr.head, b) = {} BY DEF Live
  <1> QED BY <1>1, InstallIs

\* An index holds at most one copy, and a descriptor is no copy.
LEMMA OneCopy ==
    ASSUME NEW log, LogType(log), NEW tl \in Nat, NEW hd \in Nat, WellFormed(log, tl, hd),
           NEW i, NEW b, Copy(log, tl, hd, i, b)
    PROVE  /\ i \notin Starts(log, tl, hd)
           /\ \A c : Copy(log, tl, hd, i, c) => c = b
  <1>1. PICK s \in Starts(log, tl, hd) : /\ i \in s + 1 .. s + Len(Words(log, s)) - 1
                                         /\ Words(log, s)[i - s + 1] = b
    BY DEF Copy
  <1>2. ASSUME NEW r \in Starts(log, tl, hd)
        PROVE  r \in Nat /\ Len(Words(log, r)) \in Nat /\ Len(Words(log, r)) >= 2
    BY TransEnd
  <1>3. s \in Nat /\ Len(Words(log, s)) \in Nat BY <1>2
  <1>4. i \in Nat /\ i > s /\ Covers(log, s, i) BY <1>1, <1>3 DEF Covers
  <1>5. ASSUME NEW r \in Starts(log, tl, hd), Covers(log, r, i) PROVE r = s
    BY <1>4, <1>5, OneStart
  <1>6. i \notin Starts(log, tl, hd)
    <2>1. SUFFICES ASSUME i \in Starts(log, tl, hd) PROVE FALSE
      OBVIOUS
    <2>2. Covers(log, i, i) BY <2>1, TransEnd
    <2>3. i = s BY <2>1, <2>2, <1>5
    <2> QED BY <1>3, <1>4, <2>3
  <1>7. ASSUME NEW c, Copy(log, tl, hd, i, c) PROVE c = b
    <2>1. PICK r \in Starts(log, tl, hd) : /\ i \in r + 1 .. r + Len(Words(log, r)) - 1
                                           /\ Words(log, r)[i - r + 1] = c
      BY <1>7 DEF Copy
    <2>2. r \in Nat /\ Len(Words(log, r)) \in Nat BY <1>2
    <2>3. Covers(log, r, i) BY <2>1, <2>2 DEF Covers
    <2>4. r = s BY <1>5, <2>3
    <2> QED BY <1>1, <2>1, <2>4
  <1> QED BY <1>6, <1>7

\* With part of the log installed, recovery computes the same contents; with
\* all of it installed, these contents are in place.
LEMMA InstalledPart ==
    ASSUME TypeOK, StableInv, whome = install(mlog, mhdr, Blocks)
    PROVE  /\ \A S : Recovered(Destage(S), mlog, mhdr) = stable
           /\ Destage(Blocks) = stable
  <1> DEFINE w == install(mlog, mhdr, Blocks)
  <1>1. /\ mhome \in [Blocks -> Vals] /\ stable \in [Blocks -> Vals]
        /\ stable = Recovered(mhome, mlog, mhdr)
        /\ \A S : Destage(S) \in [Blocks -> Vals]
    BY FlushType DEF TypeOK, DiskType, StableInv
  <1>2. \A b \in Blocks : stable[b] = IF w[b] = NoVal THEN mhome[b] ELSE w[b]
    BY <1>1, RecoveredIs
  <1>3. \A S : \A b \in Blocks : Destage(S)[b] = IF b \in S /\ w[b] # NoVal THEN w[b] ELSE mhome[b]
    BY DEF Destage
  <1>4. ASSUME NEW S PROVE Recovered(Destage(S), mlog, mhdr) = stable
    <2> DEFINE home == Destage(S)
               r == Recovered(home, mlog, mhdr)
    <2>1. home \in [Blocks -> Vals] BY <1>1
    <2>2. \A b \in Blocks : home[b] = IF b \in S /\ w[b] # NoVal THEN w[b] ELSE mhome[b]
      BY <1>3
    <2> HIDE DEF home
    <2>3. \A b \in Blocks : r[b] = IF w[b] = NoVal THEN home[b] ELSE w[b]
      BY <2>1, RecoveredIs
    <2>4. r = [b \in Blocks |-> r[b]] BY <2>1 DEF Recovered
    <2> HIDE DEF r, w
    <2>5. \A b \in Blocks : r[b] = stable[b] BY <1>2, <2>2, <2>3
    <2>6. r = stable BY <1>1, <2>4, <2>5
    <2> QED BY <2>6 DEF r, home
  <1>5. Destage(Blocks) = stable
    <2> DEFINE home == Destage(Blocks)
    <2>1. home \in [Blocks -> Vals] /\ \A b \in Blocks : home[b] = IF w[b] # NoVal THEN w[b] ELSE mhome[b]
      BY <1>1, <1>3
    <2> HIDE DEF home, w
    <2>2. \A b \in Blocks : home[b] = stable[b] BY <1>2, <2>1
    <2>3. home = stable BY <1>1, <2>1, <2>2
    <2> QED BY <2>3 DEF home
  <1> QED BY <1>4, <1>5

\* Recovery sees only the slots between tail and head, and only the home
\* blocks it does not install.
LEMMA SameRecovered ==
    ASSUME TypeOK, DiskInv, NEW log, LogType(log), Agree(mlog, log, mhdr.tail, mhdr.head),
           NEW home \in [Blocks -> Vals], NEW b \in Blocks, home[b] = mhome[b]
    PROVE  Recovered(home, log, mhdr)[b] = stable[b]
  <1>1. LogType(mlog) /\ mhdr \in Header /\ WellFormed(mlog, mhdr.tail, mhdr.head)
        /\ mhome \in [Blocks -> Vals] /\ stable = Recovered(mhome, mlog, mhdr)
    BY DEF LogType, TypeOK, DiskType, DiskInv, ShapeInv, StableInv
  <1>2. install(log, mhdr, Blocks) = install(mlog, mhdr, Blocks) BY <1>1, AgreeInstall
  <1> QED BY <1>1, <1>2, RecoveredIs

LEMMA MaxIs ==
    ASSUME NEW S, S \subseteq Int, NEW m \in S, \A x \in S : x <= m PROVE Max(S) = m
  <1>1. \A x \in S : (\A y \in S : x >= y) => x = m
    OBVIOUS
  <1>2. \A y \in S : m >= y
    OBVIOUS
  <1> QED BY <1>1, <1>2 DEF Max

\* Nothing is revoked by the transaction that is being committed either.
LEMMA NoneCanceled ==
    ASSUME TypeOK, LogInv, DiskInv, NoRevokes, cpc = "commithead",
           NEW i \in tail .. com.head - 1, NEW b \in Blocks
    PROVE  ~Cancels(mlog, tail, com.head, i, b)
  <1>1. /\ tail = mhdr.tail /\ com.start = mhdr.head
        /\ \A j \in Nat, c \in Blocks :
              Cancels(mlog, tail, com.head, j, c)
                 <=> \/ Cancels(mlog, tail, com.start, j, c)
                     \/ com.start > j /\ c \in Range(com.revoked)
    BY CommitLog
  <1>2. tail \in Nat /\ com.start \in Nat /\ com.head \in Nat /\ ct \in {0, 1}
    BY LiveTypes DEF TypeOK, KernelType, TransType, TransesType
  <1>3. i \in Nat BY <1>2
  <1>4. b \notin Range(com.revoked)
    <2>1. com.revoked = << >> BY <1>2 DEF NoRevokes, com
    <2> QED BY <2>1 DEF Range
  <1>5. ~Cancels(mlog, tail, com.start, i, b)
    <2>1. SUFFICES ASSUME Cancels(mlog, tail, com.start, i, b) PROVE FALSE
      OBVIOUS
    <2>2. i < com.start BY <1>2, <1>3, <2>1, CancelsLater
    <2>3. i \in mhdr.tail .. mhdr.head - 1 BY <1>1, <1>2, <2>2
    <2> QED BY <1>1, <2>1, <2>3 DEF NoRevokes
  <1> QED BY <1>1, <1>3, <1>4, <1>5

\* With the header that commits the transaction, recovery restores its snapshot.
LEMMA CommitStable ==
    ASSUME TypeOK, LogInv, DiskInv, NoRevokes, cpc = "commithead", NEW b \in Blocks,
           NEW hdr \in Header, hdr.tail = tail, hdr.head = com.head
    PROVE  Recovered(mhome, mlog, hdr)[b] = Snap(b)
  <1>1. /\ tail = mhdr.tail /\ com.start = mhdr.head /\ com.start # com.head
        /\ WellFormed(mlog, tail, com.head)
        /\ \A i : \A c \in Blocks :
              Copy(mlog, tail, com.head, i, c)
                 <=> Copy(mlog, tail, com.start, i, c) \/ (c \in com.logged /\ i = place(com, c))
    BY CommitLog
  <1>2. /\ tail \in Nat /\ com.start \in Nat /\ com.head \in Nat /\ LogType(mlog)
        /\ mhome \in [Blocks -> Vals] /\ mhdr \in Header
    BY LiveTypes DEF TypeOK, KernelType, TransType, DiskType, LogType
  <1>3. /\ WellFormed(mlog, tail, com.start) /\ cpc \in Pre /\ ~Down
        /\ tail <= com.start /\ com.start <= com.head
    BY <1>1 DEF DiskInv, ShapeInv, Pre, Down, LogInv, SpaceInv, Committing
  <1> DEFINE old == Live(mlog, tail, com.start, b)
             new == Live(mlog, tail, com.head, b)
  <1>4. new = {i \in tail .. com.head - 1 : Copy(mlog, tail, com.head, i, b)}
    BY NoneCanceled DEF Live
  <1>5. old = {i \in tail .. com.start - 1 : Copy(mlog, tail, com.start, i, b)}
    BY <1>1 DEF Live, NoRevokes
  <1>6. \A i : Copy(mlog, tail, com.start, i, b) => i \in tail .. com.start - 1
    BY <1>2, <1>3, CopiesLogged
  <1>7. install(mlog, hdr, Blocks)[b]
          = IF new = {} THEN NoVal ELSE mlog[logindex(Max(new))].data
    BY <1>1, <1>2, InstallIs
  <1>8. install(mlog, mhdr, Blocks)[b]
          = IF old = {} THEN NoVal ELSE mlog[logindex(Max(old))].data
    BY <1>1, <1>2, <1>3, InstallIs
  <1>9. Recovered(mhome, mlog, hdr)[b]
          = IF install(mlog, hdr, Blocks)[b] = NoVal THEN mhome[b] ELSE install(mlog, hdr, Blocks)[b]
    BY <1>2, RecoveredIs
  <1>10. stable[b]
          = IF install(mlog, mhdr, Blocks)[b] = NoVal THEN mhome[b] ELSE install(mlog, mhdr, Blocks)[b]
    BY <1>2, RecoveredIs DEF DiskInv, StableInv
  <1> HIDE DEF old, new
  <1>11. CASE b \in com.logged
    <2> DEFINE m == place(com, b)
    <2>1. m \in com.start + 1 .. com.head - 1 BY <1>1, <1>3, <1>11, ComSlots
    <2>2. m \in tail .. com.head - 1 BY <1>2, <1>3, <2>1
    <2>3. m \in new /\ new \subseteq Int /\ \A x \in new : x <= m
      <3>1. m \in new BY <1>1, <1>4, <1>11, <2>2
      <3>2. ASSUME NEW x \in new PROVE x \in Int /\ x <= m
        <4>1. x \in tail .. com.head - 1 /\ (Copy(mlog, tail, com.start, x, b) \/ x = m)
          BY <1>1, <1>4
        <4>2. x \in tail .. com.start - 1 \/ x = m BY <1>6, <4>1
        <4> HIDE DEF m
        <4> QED BY <1>2, <2>1, <4>2
      <3> QED BY <3>1, <3>2
    <2> HIDE DEF m
    <2>4. Max(new) = m BY <2>3, MaxIs
    <2>5. logindex(m) \in Slots BY <1>2, <2>2, SlotType
    <2>6. mlog[logindex(m)] = Pages[logindex(m)]
      <3>1. m \in com.start .. com.head - 1 BY <1>2, <2>1
      <3> QED BY <3>1 DEF DiskInv, SameInv
    <2>7. mlog[logindex(m)].data = memlog[logindex(m)].data
      BY <2>5, <2>6 DEF Pages, DestageLog
    <2>8. memlog[logindex(m)].data \in Vals BY <1>3, <1>11 DEF DiskInv, ComInv, m
    <2>9. install(mlog, hdr, Blocks)[b] = memlog[logindex(m)].data
      BY <1>7, <2>3, <2>4, <2>7
    <2>10. Recovered(mhome, mlog, hdr)[b] = memlog[logindex(m)].data
      BY <1>9, <2>8, <2>9, LogAssumption
    <2> QED BY <1>3, <1>11, <2>10 DEF Snap, m
  <1>12. CASE b \notin com.logged
    <2>1. \A i : Copy(mlog, tail, com.head, i, b) <=> Copy(mlog, tail, com.start, i, b)
      BY <1>1, <1>12
    <2>2. tail .. com.start - 1 \subseteq tail .. com.head - 1 BY <1>2, <1>3
    <2>3. new = old BY <1>4, <1>5, <1>6, <2>1, <2>2
    <2>4. Recovered(mhome, mlog, hdr)[b] = stable[b] BY <1>7, <1>8, <1>9, <1>10, <2>3
    <2> QED BY <1>12, <2>4 DEF Snap
  <1> QED BY <1>11, <1>12

\* apply reads off the in-memory log what recovery would read off the platter.
LEMMA ApplyIsInstall ==
    ASSUME TypeOK, LogInv, DiskInv, NoRevokes, MemInv, ~Down, tail # mhdr.head
    PROVE  apply(memlog, tail, mhdr.head, Blocks) = install(mlog, mhdr, Blocks)
  <1> DEFINE h == mhdr.head
             at(b) == {i \in tail + 1 .. h - 1 : /\ memlog[logindex(i)].type = DataBlk
                                                 /\ memlog[logindex(i)].block = b}
  <1>1. /\ tail \in Nat /\ h \in Nat /\ LogType(mlog) /\ mhdr \in Header /\ mhdr.tail = tail
        /\ WellFormed(mlog, tail, h) /\ tail < h
    <2>1. /\ tail \in Nat /\ h \in Nat /\ LogType(mlog) /\ mhdr \in Header
      BY DEF TypeOK, KernelType, DiskType, LogType, Header
    <2>2. mhdr.tail = tail BY DEF DiskInv, HdrInv
    <2>3. WellFormed(mlog, tail, h) BY <2>2 DEF DiskInv, ShapeInv
    <2>4. tail <= h BY <2>3 DEF WellFormed
    <2> QED BY <2>1, <2>2, <2>3, <2>4
  <1> HIDE DEF h
  <1>2. ASSUME NEW i \in tail .. h - 1
        PROVE  \/ memlog[logindex(i)].type = CommitBlk /\ i \in Starts(mlog, tail, h)
               \/ /\ memlog[logindex(i)].type = DataBlk
                  /\ memlog[logindex(i)].block \in Blocks
                  /\ Copy(mlog, tail, h, i, memlog[logindex(i)].block)
    BY DEF MemInv, h
  <1>3. ASSUME NEW b \in Blocks PROVE at(b) = Live(mlog, tail, h, b)
    <2>1. Live(mlog, tail, h, b) = {i \in tail .. h - 1 : Copy(mlog, tail, h, i, b)}
      BY <1>1 DEF Live, NoRevokes, h
    <2>2. ASSUME NEW i \in tail .. h - 1
          PROVE  Copy(mlog, tail, h, i, b)
                   <=> /\ i \in tail + 1 .. h - 1
                       /\ memlog[logindex(i)].type = DataBlk /\ memlog[logindex(i)].block = b
      <3>1. ASSUME Copy(mlog, tail, h, i, b)
            PROVE  /\ i \in tail + 1 .. h - 1
                   /\ memlog[logindex(i)].type = DataBlk /\ memlog[logindex(i)].block = b
        <4>1. /\ i \notin Starts(mlog, tail, h)
              /\ \A c : Copy(mlog, tail, h, i, c) => c = b
          BY <1>1, <3>1, OneCopy
        <4>2. tail \in Starts(mlog, tail, h) BY <1>1 DEF WellFormed
        <4>3. i # tail BY <4>1, <4>2
        <4>4. i \in tail + 1 .. h - 1 BY <1>1, <4>3
        <4> QED BY <1>2, <4>1, <4>4
      <3>2. ASSUME memlog[logindex(i)].type = DataBlk, memlog[logindex(i)].block = b
            PROVE  Copy(mlog, tail, h, i, b)
        BY <1>2, <3>2 DEF DataBlk, CommitBlk
      <3> QED BY <3>1, <3>2
    <2>3. tail + 1 .. h - 1 \subseteq tail .. h - 1 BY <1>1
    <2> QED BY <2>1, <2>2, <2>3
  <1>4. ASSUME NEW b \in Blocks
        PROVE  apply(memlog, tail, h, Blocks)[b] = install(mlog, mhdr, Blocks)[b]
    <2>1. apply(memlog, tail, h, Blocks)[b]
            = IF at(b) = {} THEN NoVal ELSE memlog[logindex(Max(at(b)))].data
      BY DEF apply
    <2>2. install(mlog, mhdr, Blocks)[b]
            = IF Live(mlog, tail, h, b) = {} THEN NoVal
              ELSE mlog[logindex(Max(Live(mlog, tail, h, b)))].data
      BY <1>1, InstallIs DEF h
    <2> DEFINE L == Live(mlog, tail, h, b)
    <2>3. ASSUME L # {} PROVE mlog[logindex(Max(L))].data = memlog[logindex(Max(L))].data
      <3>1. L \in SUBSET (tail .. h - 1) BY DEF Live
      <3>2. Max(L) \in tail .. h - 1
        <4>1. tail \in Int /\ h - 1 \in Int BY <1>1
        <4> HIDE DEF L
        <4>2. Max(L) \in L BY <2>3, <3>1, <4>1, MaxIndex
        <4> QED BY <3>1, <4>2
      <3> DEFINE m == Max(L)
      <3>3. m \in tail .. h - 1 BY <3>2
      <3> HIDE DEF m
      <3>4. mlog[logindex(m)] = Pages[logindex(m)] BY <3>3 DEF DiskInv, SameInv, h
      <3>5. logindex(m) \in Slots BY <1>1, <3>3, SlotType
      <3>6. mlog[logindex(m)].data = memlog[logindex(m)].data
        BY <3>4, <3>5 DEF Pages, DestageLog
      <3> QED BY <3>6 DEF m
    <2>4. at(b) = L BY <1>3
    <2> HIDE DEF L, at
    <2> QED BY <2>1, <2>2, <2>3, <2>4 DEF L
  <1>5. /\ apply(memlog, tail, h, Blocks) = [b \in Blocks |-> apply(memlog, tail, h, Blocks)[b]]
        /\ install(mlog, mhdr, Blocks) = [b \in Blocks |-> install(mlog, mhdr, Blocks)[b]]
    <2>1. install(mlog, mhdr, Blocks) \in [Blocks -> Vals \cup {NoVal}]
      BY <1>1, InstallType DEF LogType
    <2> QED BY <2>1 DEF apply
  <1> QED BY <1>4, <1>5 DEF h

(***************************************************************************)
(* AtomicInv, action by action, and what each action does to the contents  *)
(* of the logged blocks.                                                   *)
(***************************************************************************)
\* The stable contents of the logged blocks, and those that the next commit
\* makes stable, are the same.
Keeps == \A b \in LogBlks : stable'[b] = stable[b] /\ Snap(b)' = Snap(b)

LEMMA KeptSnap ==
    ASSUME NEW b \in Blocks, stable'[b] = stable[b], memlog' = memlog, cpc' \in Pre <=> cpc \in Pre,
           cpc \in Pre => /\ com'.start = com.start /\ com'.logged = com.logged
                          /\ com'.revoked = com.revoked
    PROVE  Snap(b)' = Snap(b)
  <1>1. CASE cpc \notin Pre BY <1>1 DEF Snap
  <1>2. CASE cpc \in Pre
    <2>1. place(com, b)' = place(com, b) BY <1>2 DEF place, revokelen
    <2> QED BY <1>2, <2>1 DEF Snap
  <1> QED BY <1>1, <1>2

\* What a write changes, when no block is written in both ways.
LEMMA OneWriteParts ==
    ASSUME TypeOK, LogInv, DiskInv, LogBlks \cap OrdBlks = {}, FsFrame, NEW p \in Procs,
           NEW b \in Blocks, NEW o \in BOOLEAN, OneWrite(p, b, o)
    PROVE  /\ cur'.revoked = cur.revoked
           /\ \A x \in Blocks : x # b => /\ cache'[x] = cache[x]
                                         /\ x \in cur'.logged <=> x \in cur.logged
                                         /\ x \in cur'.ordered <=> x \in cur.ordered
           /\ b \in LogBlks => b \in cur'.logged /\ (cpc \in Committing => early)
           /\ b \in OrdBlks => b \in cur'.ordered
  <1>1. /\ curtrans \in {0, 1} /\ ct \in {0, 1} /\ curtrans' = curtrans
        /\ cur \in TransType /\ cache \in [Blocks -> Vals]
    BY LiveTypes DEF TypeOK, TransesType, KernelType, FsFrame
  <1>2. pc[p] = "op" /\ cur' = add_write(cur, b, o) /\ b \in (IF o THEN OrdBlks ELSE LogBlks)
    BY <1>1 DEF OneWrite, cur
  <1>3. PICK v \in Vals : cache' = [cache EXCEPT ![b] = v] BY DEF OneWrite
  <1>4. \A x \in Blocks : x # b => cache'[x] = cache[x] BY <1>1, <1>3
  <1>5. /\ cur'.logged = IF o THEN cur.logged \ {b} ELSE cur.logged \cup {b}
        /\ cur'.ordered = IF o THEN cur.ordered \cup {b} ELSE cur.ordered \ {b}
        /\ cur'.revoked = IF o /\ b \notin cur.ordered /\ islogged(b)
                          THEN Append(cur.revoked, b) ELSE cur.revoked
    BY <1>1, <1>2 DEF add_write, TransType
  <1>6. o => ~islogged(b) BY <1>2 DEF islogged, DiskInv, BlocksInv
  <1>7. cpc \in Committing => early
    <2>1. SUFFICES ASSUME cpc \in Committing, ~early PROVE FALSE
      OBVIOUS
    <2>2. curtrans = ct BY <2>1 DEF LogInv, SpaceInv
    <2> QED BY <1>2, <2>1, <2>2, WriteApart
  <1> QED BY <1>2, <1>4, <1>5, <1>6, <1>7

LEMMA FsUp ==
    ASSUME FsFrame
    PROVE  /\ ~Down /\ ~Down' /\ cpc # "apply" /\ cpc # "applytail"
           /\ cpc' # "apply" /\ cpc' # "applytail"
           /\ cpc' \in Pre <=> cpc \in Pre
           /\ cpc' \in Committing <=> cpc \in Committing
           /\ cpc' \in Committing => cpc' = cpc
  BY DEF FsFrame, LockFree, Down, Pre, Committing

\* The parts of AtomicInv that no step of the file system touches.
LEMMA FsSame ==
    ASSUME TypeOK, LogInv, DiskInv, AtomicInv, FsFrame,
           com'.start = com.start, com'.head = com.head, cpc \in Committing => ComSame
    PROVE  MemInv' /\ ApplyInv' /\ Keeps
  <1>1. /\ memlog' = memlog /\ tail' = tail /\ mlog' = mlog /\ mhdr' = mhdr /\ stable' = stable
    BY DEF FsFrame
  <1>2. /\ ~Down /\ ~Down' /\ cpc' # "apply" /\ cpc' # "applytail"
        /\ cpc' \in Pre <=> cpc \in Pre
        /\ cpc' \in {"ordered", "commithead"} => cpc \in {"ordered", "commithead"}
    BY FsUp DEF FsFrame
  <1>3. MemInv' BY <1>1, <1>2 DEF AtomicInv, MemInv
  <1>4. ApplyInv' BY <1>2 DEF ApplyInv
  <1>5. Keeps
    <2>1. cpc \in Pre => /\ com'.start = com.start /\ com'.logged = com.logged
                         /\ com'.revoked = com.revoked
      BY DEF Pre, Committing, ComSame
    <2>2. ASSUME NEW b \in LogBlks PROVE Snap(b)' = Snap(b)
      BY <1>1, <1>2, <2>1, KeptSnap DEF Blocks
    <2> QED BY <1>1, <2>2 DEF Keeps
  <1> QED BY <1>3, <1>4, <1>5

LEMMA FsNoWrite ==
    ASSUME TypeOK, LogInv, DiskInv, AtomicInv, FsFrame, NoWrite, Keeps,
           cpc \in Committing => ComSame
    PROVE  NoRevokes' /\ CacheInv' /\ CleanInv'
  <1>1. /\ mlog' = mlog /\ mhdr' = mhdr /\ cache' = cache /\ dma' = dma /\ early' = early
        /\ curtrans' = curtrans /\ curtrans \in {0, 1}
        /\ mhome' = mhome /\ whome' = whome
    BY DEF FsFrame, NoWrite, TypeOK, TransesType
  <1>2. /\ ~Down /\ ~Down' /\ (cpc' \in Committing <=> cpc \in Committing)
        /\ cpc' \in Committing => cpc' = cpc
    BY FsUp
  <1>3. cur'.logged = cur.logged /\ cur'.ordered = cur.ordered BY <1>1 DEF NoWrite, cur
  <1>4. NoRevokes' BY <1>1 DEF AtomicInv, NoRevokes, NoWrite
  <1>5. CacheInv'
    <2>1. CacheInv BY DEF AtomicInv
    <2> QED BY <1>1, <1>2, <1>3, <2>1 DEF CacheInv, Keeps
  <1>6. CleanInv'
    <2>1. \A b : DiskView(b)' = DiskView(b) BY <1>1 DEF DiskView
    <2>2. /\ cpc' = "commit" => cpc = "commit" /\ com'.ordered = com.ordered
          /\ cpc' \in Committing \ {"commit"} => cpc \in Committing \ {"commit"} /\ com'.ordered = com.ordered
      BY <1>2 DEF ComSame, Committing
    <2>3. cpc = "commit" => cpc' = "commit" BY <1>2 DEF Committing
    <2>4. CleanInv BY DEF AtomicInv
    <2> QED BY <1>1, <1>2, <1>3, <2>1, <2>2, <2>3, <2>4 DEF CleanInv
  <1> QED BY <1>4, <1>5, <1>6

LEMMA FsOneWrite ==
    ASSUME TypeOK, LogInv, DiskInv, AtomicInv, LogBlks \cap OrdBlks = {}, FsFrame, Keeps,
           cpc \in Committing => ComSame,
           NEW p \in Procs, NEW b \in Blocks, NEW o \in BOOLEAN, OneWrite(p, b, o)
    PROVE  NoRevokes' /\ CacheInv' /\ CleanInv'
  <1>1. /\ mlog' = mlog /\ mhdr' = mhdr /\ dma' = dma /\ early' = early
        /\ curtrans' = curtrans /\ curtrans \in {0, 1}
        /\ mhome' = mhome /\ whome' = whome
        /\ trans'[1 - curtrans] = trans[1 - curtrans]
    BY DEF FsFrame, TypeOK, TransesType
  <1>2. /\ ~Down /\ ~Down' /\ (cpc' \in Committing <=> cpc \in Committing)
        /\ cpc' \in Committing => cpc' = cpc
    BY FsUp
  <1>3. /\ cur'.revoked = cur.revoked
        /\ \A x \in Blocks : x # b => /\ cache'[x] = cache[x]
                                      /\ x \in cur'.logged <=> x \in cur.logged
                                      /\ x \in cur'.ordered <=> x \in cur.ordered
        /\ b \in LogBlks => b \in cur'.logged /\ (cpc \in Committing => early)
        /\ b \in OrdBlks => b \in cur'.ordered
    BY OneWriteParts
  <1>4. NoRevokes'
    <2>1. \A i \in {0, 1} : i = curtrans \/ i = 1 - curtrans BY <1>1
    <2>2. \A i \in {0, 1} : trans'[i].revoked = << >>
      BY <1>1, <1>3, <2>1 DEF AtomicInv, NoRevokes, cur
    <2> QED BY <1>1, <2>2 DEF AtomicInv, NoRevokes
  <1>5. CacheInv'
    <2>1. ASSUME NEW x \in LogBlks, x \notin cur'.logged \/ (cpc' \in Committing /\ ~early')
          PROVE  cache'[x] = Snap(x)'
      <3>1. x # b BY <1>1, <1>2, <1>3, <2>1
      <3>2. x \in Blocks BY DEF Blocks
      <3>3. x \notin cur.logged \/ (cpc \in Committing /\ ~early)
        BY <1>1, <1>2, <1>3, <2>1, <3>1, <3>2
      <3>4. cache[x] = Snap(x)
        <4>1. CacheInv BY DEF AtomicInv
        <4> QED BY <1>2, <3>3, <4>1 DEF CacheInv
      <3> QED BY <1>3, <3>1, <3>2, <3>4 DEF Keeps
    <2> QED BY <2>1 DEF CacheInv
  <1>6. CleanInv'
    <2>1. \A x : DiskView(x)' = DiskView(x) BY <1>1 DEF DiskView
    <2>2. /\ cpc' = "commit" => cpc = "commit" /\ com'.ordered = com.ordered
          /\ cpc' \in Committing \ {"commit"} => cpc \in Committing \ {"commit"} /\ com'.ordered = com.ordered
          /\ cpc = "commit" => cpc' = "commit"
      BY <1>2 DEF ComSame, Committing
    <2>3. ASSUME NEW x \in OrdBlks, x \notin cur'.ordered \cup dma',
                 cpc' = "commit" => x \notin com'.ordered
          PROVE  DiskView(x)' = cache'[x]
      <3>1. x # b /\ x \in Blocks BY <1>3, <2>3 DEF Blocks
      <3>2. x \in OrdBlks \ (cur.ordered \cup dma) /\ (cpc = "commit" => x \notin com.ordered)
        BY <1>1, <1>3, <2>2, <2>3, <3>1
      <3>3. DiskView(x) = cache[x]
        <4>1. CleanInv BY DEF AtomicInv
        <4> QED BY <1>2, <3>2, <4>1 DEF CleanInv
      <3> QED BY <1>3, <2>1, <3>1, <3>3
    <2> QED BY <2>2, <2>3 DEF AtomicInv, CleanInv
  <1> QED BY <1>4, <1>5, <1>6

LEMMA FsAtomic ==
    ASSUME TypeOK, LogInv, DiskInv, AtomicInv, LogBlks \cap OrdBlks = {}, NEW p \in Procs, Fs(p)
    PROVE  AtomicInv' /\ Keeps
  <1>1. FsFrame /\ (NoWrite \/ \E b \in Blocks, o \in BOOLEAN : OneWrite(p, b, o))
    BY FsEffects
  <1>2. com'.start = com.start /\ com'.head = com.head /\ (cpc \in Committing => ComSame)
    BY <1>1, FsCom
  <1>3. MemInv' /\ ApplyInv' /\ Keeps BY <1>1, <1>2, FsSame
  <1>4. NoRevokes' /\ CacheInv' /\ CleanInv' BY <1>1, <1>2, <1>3, FsNoWrite, FsOneWrite
  <1> QED BY <1>3, <1>4 DEF AtomicInv

\* The committer between two transactions.
LEMMA BetweenAtomic ==
    ASSUME TypeOK, AtomicInv, Untouched,
           cpc \in {"wake", "run", "finish"}, cpc' \in {"sleep", "run", "exited"},
           \A i \in {0, 1} : trans'[i] = trans[i] \/ \E n : trans'[i] = mk_trans(n),
           cur' = cur \/ (cpc = "finish" /\ ~early /\ cur = com /\ \E n : cur' = mk_trans(n))
    PROVE  AtomicInv' /\ Keeps
  <1>1. /\ memlog' = memlog /\ tail' = tail /\ cache' = cache
        /\ mhome' = mhome /\ mlog' = mlog /\ mhdr' = mhdr /\ stable' = stable
        /\ whome' = whome /\ dma' = dma
    BY DEF Untouched
  <1>2. /\ ~Down /\ ~Down' /\ cpc \notin Pre /\ cpc' \notin Pre /\ cpc' \notin Committing
        /\ cpc' \notin {"ordered", "commithead", "apply", "applytail", "commit"}
        /\ cpc # "commit"
        /\ cpc = "finish" => cpc \in Committing \ {"commit"}
    BY DEF Down, Pre, Committing
  <1>3. NoRevokes'
    <2>1. \A i \in {0, 1} : trans'[i].revoked = << >>
      BY FreshTrans DEF AtomicInv, NoRevokes
    <2> QED BY <1>1, <2>1 DEF AtomicInv, NoRevokes
  <1>4. MemInv' BY <1>1, <1>2 DEF AtomicInv, MemInv
  <1>5. Keeps BY <1>1, <1>2 DEF Keeps, Snap
  <1>6. CacheInv'
    <2>1. ASSUME NEW b \in LogBlks, b \notin cur'.logged PROVE cache[b] = Snap(b)
      <3>1. b \notin cur.logged \/ (cpc \in Committing /\ ~early) BY <1>2, <2>1
      <3>2. CacheInv BY DEF AtomicInv
      <3> QED BY <1>2, <3>1, <3>2 DEF CacheInv
    <2> QED BY <1>1, <1>2, <1>5, <2>1 DEF CacheInv, Keeps
  <1>7. ApplyInv' BY <1>2 DEF ApplyInv
  <1>8. CleanInv'
    <2>1. CleanInv BY DEF AtomicInv
    <2>2. cur.ordered \subseteq cur'.ordered BY <1>2, <2>1 DEF CleanInv
    <2>3. \A b : DiskView(b)' = DiskView(b) BY <1>1 DEF DiskView
    <2> QED BY <1>1, <1>2, <2>1, <2>2, <2>3 DEF CleanInv
  <1> QED BY <1>3, <1>4, <1>5, <1>6, <1>7, <1>8 DEF AtomicInv

LEMMA TopAtomic ==
    ASSUME TypeOK, AtomicInv, CommitterExit \/ CommitterIdle PROVE AtomicInv' /\ Keeps
  <1>1. /\ Untouched /\ trans' = trans /\ curtrans' = curtrans
        /\ cpc \in {"wake", "run"} /\ cpc' \in {"sleep", "run", "exited"}
    BY BottomState DEF CommitterExit, CommitterIdle, AtTop, Untouched, transVars, diskVars, histVars
  <1>2. cur' = cur BY <1>1 DEF cur
  <1> QED BY <1>1, <1>2, BetweenAtomic

LEMMA FinishAtomic ==
    ASSUME TypeOK, LogInv, AtomicInv, CommitterFinish PROVE AtomicInv' /\ Keeps
  <1>1. Untouched /\ cpc = "finish" /\ cpc' \in {"sleep", "run", "exited"}
    BY BottomState DEF CommitterFinish, Untouched, diskVars, histVars
  <1>2. ct \in {0, 1} /\ 1 - ct \in {0, 1} /\ trans \in [{0, 1} -> TransType]
    BY DEF TypeOK, TransesType
  <1>3. CASE early
    <2>1. trans' = trans /\ curtrans' = curtrans BY <1>3 DEF CommitterFinish
    <2>2. cur' = cur BY <2>1 DEF cur
    <2> QED BY <1>1, <2>1, <2>2, BetweenAtomic
  <1>4. CASE ~early
    <2>1. trans' = [trans EXCEPT ![1 - ct] = mk_trans(com.head)] /\ curtrans' = 1 - ct
      BY <1>4 DEF CommitterFinish
    <2>2. /\ cur' = mk_trans(com.head)
          /\ \A i \in {0, 1} : trans'[i] = trans[i] \/ trans'[i] = mk_trans(com.head)
      BY <1>2, <2>1 DEF cur
    <2>3. cur = com BY <1>1, <1>4 DEF LogInv, SpaceInv, Committing, cur, com
    <2>4. \E n : n = com.head
      OBVIOUS
    <2> QED BY <1>1, <1>4, <2>2, <2>3, <2>4, BetweenAtomic
  <1> QED BY <1>3, <1>4

LEMMA TransferAtomic ==
    ASSUME TypeOK, LogInv, DiskInv, AtomicInv, NEW b \in Blocks, TransferOrdered(b)
    PROVE  AtomicInv' /\ Keeps
  <1>1. /\ cpc = "ordered" /\ cpc' = cpc /\ early' = early /\ b \in dma
        /\ whome' = [whome EXCEPT ![b] = cache[b]] /\ dma' = dma \ {b}
        /\ trans' = trans /\ curtrans' = curtrans /\ ct' = ct
        /\ memlog' = memlog /\ tail' = tail /\ cache' = cache
        /\ mhome' = mhome /\ mlog' = mlog /\ mhdr' = mhdr /\ stable' = stable
    BY DEF TransferOrdered, transVars, DiskInv, DriveInv
  <1>2. cur' = cur /\ com' = com /\ ~Down /\ ~Down' /\ cpc \in Pre /\ cpc \in Committing \ {"commit"}
    BY <1>1 DEF cur, com, Down, Pre, Committing
  <1>3. \A c \in Blocks : whome'[c] = IF c = b THEN cache[b] ELSE whome[c]
    BY <1>1 DEF TypeOK, DiskType
  <1>4. NoRevokes' /\ MemInv' /\ ApplyInv'
    BY <1>1, <1>2 DEF AtomicInv, NoRevokes, MemInv, ApplyInv
  <1>5. Keeps
    <2>1. ASSUME NEW c \in LogBlks PROVE Snap(c)' = Snap(c)
      BY <1>1, <1>2, KeptSnap DEF Blocks
    <2> QED BY <1>1, <2>1 DEF Keeps
  <1>6. CacheInv'
    <2>1. CacheInv BY DEF AtomicInv
    <2> QED BY <1>1, <1>2, <1>5, <2>1 DEF CacheInv, Keeps
  <1>7. CleanInv'
    <2>1. CleanInv BY DEF AtomicInv
    <2>2. ASSUME NEW c \in OrdBlks, c \notin cur.ordered \cup dma' PROVE DiskView(c)' = cache[c]
      <3>1. c \in Blocks BY DEF Blocks
      <3>2. CASE c = b
        <4>1. cache[b] # NoVal BY LogAssumption DEF TypeOK, KernelType
        <4> QED BY <1>3, <3>1, <3>2, <4>1 DEF DiskView
      <3>3. CASE c # b
        <4>1. DiskView(c)' = DiskView(c) BY <1>1, <1>3, <3>1, <3>3 DEF DiskView
        <4>2. c \in OrdBlks \ (cur.ordered \cup dma) BY <1>1, <2>2, <3>3
        <4> QED BY <1>1, <1>2, <2>1, <4>1, <4>2 DEF CleanInv
      <3> QED BY <3>2, <3>3
    <2> QED BY <1>1, <1>2, <2>1, <2>2 DEF CleanInv
  <1> QED BY <1>4, <1>5, <1>6, <1>7 DEF AtomicInv

\* CommitWrite fills in one slot of the in-memory log.
LEMMA WriteSlots ==
    ASSUME TypeOK, LogInv, DiskInv, CommitWrite
    PROVE  /\ memlog'[logindex(com.start)].type = CommitBlk
           /\ \A i \in tail .. mhdr.head - 1 : memlog'[logindex(i)] = memlog[logindex(i)]
           /\ \A b \in com.logged : memlog'[logindex(place(com, b))] = memlog[logindex(place(com, b))]
  <1>1. /\ cpc = "commit" /\ cpc \in Pre /\ cpc \in Committing
        /\ memlog' = [memlog EXCEPT ![logindex(com.start)] =
              [@ EXCEPT !.type = CommitBlk, !.desc = descriptor(com), !.data = NoVal]]
    BY DEF CommitWrite, Pre, Committing
  <1>2. /\ com.start \in Nat /\ com.head \in Nat /\ tail \in Nat /\ mhdr.head \in Nat
        /\ memlog \in [Slots -> MemSlot] /\ com \in TransType
    BY LiveTypes DEF TypeOK, TransType, KernelType, DiskType, Header
  <1>3. logindex(com.start) \in Slots BY <1>2, SlotType
  <1>4. memlog'[logindex(com.start)].type = CommitBlk BY <1>1, <1>2, <1>3 DEF MemSlot
  <1>5. \A s \in Slots \ {logindex(com.start)} : memlog'[s] = memlog[s] BY <1>1, <1>2
  <1>6. com.start - tail < loglen /\ tail <= com.start /\ com.start <= com.head
    BY <1>1 DEF DiskInv, ComInv, LogInv, SpaceInv
  <1>7. ASSUME NEW i \in tail .. mhdr.head - 1 PROVE memlog'[logindex(i)] = memlog[logindex(i)]
    <2>1. com.start \in com.start .. com.head BY <1>2, <1>6
    <2>2. logindex(i) # logindex(com.start) BY <1>1, <1>6, <2>1, ApartSlots
    <2>3. logindex(i) \in Slots BY SlotType
    <2> QED BY <1>5, <2>2, <2>3
  <1>8. ASSUME NEW b \in com.logged
        PROVE  memlog'[logindex(place(com, b))] = memlog[logindex(place(com, b))]
    <2>1. com.start # com.head BY <1>1, NothingLogged
    <2>2. place(com, b) \in com.start + 1 .. com.head - 1 BY <1>1, <2>1, ComSlots
    <2> DEFINE i == place(com, b)
    <2> HIDE DEF i
    <2>3. i \in com.start + 1 .. com.head - 1 BY <2>2 DEF i
    <2>4. i \in com.start .. com.head - 1 /\ com.start \in com.start .. com.head - 1 /\ i # com.start
      BY <1>2, <2>3
    <2>5. logindex(i) # logindex(com.start) BY <1>1, <2>1, <2>4, ComSlots
    <2>6. logindex(i) \in Slots BY <2>4, SlotType
    <2> QED BY <1>5, <2>5, <2>6 DEF i
  <1> QED BY <1>4, <1>7, <1>8

LEMMA WriteAtomic ==
    ASSUME TypeOK, LogInv, DiskInv, AtomicInv, CommitWrite PROVE AtomicInv' /\ Keeps
  <1>1. /\ cpc = "commit" /\ cpc' = "ordered" /\ early' = early
        /\ trans' = [trans EXCEPT ![ct].ordered = {}] /\ dma' = com.ordered
        /\ curtrans' = curtrans /\ ct' = ct /\ tail' = tail /\ cache' = cache
        /\ mhome' = mhome /\ mlog' = mlog /\ mhdr' = mhdr /\ stable' = stable /\ whome' = whome
    BY DEF CommitWrite, DiskInv, DriveInv
  <1>2. /\ ~Down /\ ~Down' /\ cpc \in Pre /\ cpc' \in Pre /\ cpc \in Committing
        /\ cpc' \in Committing /\ dma = {}
    BY <1>1 DEF Down, Pre, Committing, DiskInv, DriveInv
  <1>3. /\ trans \in [{0, 1} -> TransType] /\ ct \in {0, 1} /\ curtrans \in {0, 1}
    BY DEF TypeOK, TransesType
  <1>4. \A i \in {0, 1} : /\ trans'[i].start = trans[i].start /\ trans'[i].logged = trans[i].logged
                          /\ trans'[i].revoked = trans[i].revoked
                          /\ trans'[i].ordered = IF i = ct THEN {} ELSE trans[i].ordered
    <2>1. ASSUME NEW i \in {0, 1}, i = ct PROVE trans'[i] = [trans[i] EXCEPT !.ordered = {}]
      BY <1>1, <1>3, <2>1
    <2>2. ASSUME NEW i \in {0, 1}, i # ct PROVE trans'[i] = trans[i] BY <1>1, <1>3, <2>2
    <2>3. \A i \in {0, 1} : trans[i] \in TransType BY <1>3
    <2> QED BY <2>1, <2>2, <2>3 DEF TransType
  <1>5. /\ com'.start = com.start /\ com'.logged = com.logged /\ com'.revoked = com.revoked
        /\ com'.ordered = {} /\ cur'.logged = cur.logged
        /\ cur'.ordered = IF curtrans = ct THEN {} ELSE cur.ordered
    BY <1>1, <1>3, <1>4 DEF com, cur
  <1>6. /\ memlog'[logindex(com.start)].type = CommitBlk
        /\ \A i \in tail .. mhdr.head - 1 : memlog'[logindex(i)] = memlog[logindex(i)]
        /\ \A b \in com.logged : memlog'[logindex(place(com, b))] = memlog[logindex(place(com, b))]
    BY WriteSlots
  <1>7. NoRevokes' /\ ApplyInv' BY <1>1, <1>4 DEF AtomicInv, NoRevokes, ApplyInv
  <1>8. MemInv' BY <1>1, <1>2, <1>5, <1>6 DEF AtomicInv, MemInv
  <1>9. Keeps
    <2>1. \A b : place(com, b)' = place(com, b) BY <1>5 DEF place, revokelen
    <2>2. ASSUME NEW b \in LogBlks PROVE Snap(b)' = Snap(b)
      BY <1>1, <1>2, <1>5, <1>6, <2>1 DEF Snap
    <2> QED BY <1>1, <2>2 DEF Keeps
  <1>10. CacheInv'
    <2>1. CacheInv BY DEF AtomicInv
    <2> QED BY <1>1, <1>2, <1>5, <1>9, <2>1 DEF CacheInv, Keeps
  <1>11. CleanInv'
    <2>1. CleanInv BY DEF AtomicInv
    <2>2. \A b : DiskView(b)' = DiskView(b) BY <1>1 DEF DiskView
    <2>3. cur.ordered \subseteq cur'.ordered \cup dma' BY <1>1, <1>5 DEF cur, com
    <2> QED BY <1>1, <1>2, <1>5, <2>1, <2>2, <2>3 DEF CleanInv
  <1> QED BY <1>7, <1>8, <1>9, <1>10, <1>11 DEF AtomicInv

\* The committer takes a transaction: its copies are the contents of the cache.
LEMMA StartAtomic ==
    ASSUME TypeOK, LogInv, LogInv', DiskInv, AtomicInv, CommitterStart
    PROVE  /\ AtomicInv'
           /\ \A b \in LogBlks : /\ stable'[b] = stable[b] /\ Snap(b) = stable[b]
                                 /\ Snap(b)' = cache[b]
  <1> DEFINE h == TransHead(cur)
  <1>1. StartFrame(h) BY StartEffects
  <1> HIDE DEF h
  <1>2. /\ cpc \in {"wake", "run"} /\ cpc' = "commit"
        /\ tail' = tail /\ cache' = cache
        /\ mhome' = mhome /\ mlog' = mlog /\ mhdr' = mhdr /\ stable' = stable
        /\ whome' = whome /\ dma' = dma
    BY <1>1 DEF StartFrame
  <1>3. cpc \notin Pre /\ cpc' \in Pre /\ ~Down /\ ~Down' /\ cpc \notin Committing /\ cpc # "commit"
    BY <1>2 DEF Pre, Down, Committing
  <1>4. cur \in TransType /\ mhdr.head = cur.start /\ cur.revoked = << >>
    <2>1. curtrans \in {0, 1} BY DEF TypeOK, TransesType
    <2> QED BY <1>3, <2>1, LiveTypes DEF DiskInv, HdrInv, AtomicInv, NoRevokes, cur
  <1>5. /\ com'.start = cur.start /\ com'.logged = cur.logged
        /\ com'.ordered = cur.ordered /\ com'.revoked = cur.revoked
    BY <1>1, <1>4 DEF StartFrame, TransType
  <1>6. /\ \A b \in cur.logged :
               memlog'[logindex(place(cur, b))]
                 = [type |-> DataBlk, block |-> b, desc |-> << >>, data |-> cache[b]]
        /\ \A i \in tail .. cur.start - 1 : memlog'[logindex(i)] = memlog[logindex(i)]
    BY StartCopies
  <1>7. NoRevokes'
    <2>1. \A i \in {0, 1} : trans'[i].revoked = << >>
      <3>1. ASSUME NEW i \in {0, 1} PROVE trans'[i].revoked = << >>
        <4>1. trans'[i] = com' \/ trans'[i] = mk_trans(h) \/ trans'[i] = trans[i]
          BY <1>1 DEF StartFrame
        <4>2. mk_trans(h).revoked = << >> /\ trans[i].revoked = << >>
          BY FreshTrans DEF AtomicInv, NoRevokes
        <4> QED BY <1>4, <1>5, <4>1, <4>2
      <3> QED BY <3>1
    <2> QED BY <1>2, <2>1 DEF AtomicInv, NoRevokes
  <1>8. MemInv' BY <1>2, <1>3, <1>4, <1>6 DEF AtomicInv, MemInv
  <1>9. ASSUME NEW b \in LogBlks PROVE Snap(b) = stable[b] /\ Snap(b)' = cache[b]
    <2>1. Snap(b) = stable[b] BY <1>3 DEF Snap
    <2>2. CASE b \in cur.logged
      <3>1. place(com, b)' = place(cur, b) BY <1>5 DEF place, revokelen
      <3>2. memlog'[logindex(place(cur, b))].data = cache[b]
        <4>1. memlog'[logindex(place(cur, b))]
                = [type |-> DataBlk, block |-> b, desc |-> << >>, data |-> cache[b]]
          BY <1>6, <2>2, Zenon
        <4> QED BY <4>1
      <3> QED BY <1>3, <1>5, <2>1, <2>2, <3>1, <3>2 DEF Snap
    <2>3. CASE b \notin cur.logged
      <3>1. Snap(b)' = stable[b] BY <1>2, <1>5, <2>3 DEF Snap
      <3>2. CacheInv BY DEF AtomicInv
      <3> QED BY <1>3, <2>1, <2>3, <3>1, <3>2 DEF CacheInv
    <2> QED BY <2>2, <2>3
  <1>10. CacheInv' /\ ApplyInv' BY <1>2, <1>9 DEF CacheInv, ApplyInv
  <1>11. CleanInv'
    <2>1. CleanInv BY DEF AtomicInv
    <2>2. \A b : DiskView(b)' = DiskView(b) BY <1>2 DEF DiskView
    <2> QED BY <1>2, <1>3, <1>5, <2>1, <2>2 DEF CleanInv
  <1> QED BY <1>2, <1>7, <1>8, <1>9, <1>10, <1>11 DEF AtomicInv

\* A flush changes nothing of what a read from the drive returns.
LEMMA FlushView ==
    ASSUME TypeOK, Flushed, NEW b \in Blocks PROVE DiskView(b)' = DiskView(b)
  <1>1. mhome' = Destage(Blocks) /\ whome' = NoWrites BY DEF Flushed
  <1>2. whome'[b] = NoVal /\ mhome'[b] = IF whome[b] # NoVal THEN whome[b] ELSE mhome[b]
    BY <1>1 DEF NoWrites, Destage
  <1> QED BY <1>2 DEF DiskView

\* CleanInv survives a flush.
LEMMA FlushClean ==
    ASSUME TypeOK, AtomicInv, Flushed, FlushFrame, cpc \in Committing \ {"commit"},
           cpc' \in Committing \ {"commit"}
    PROVE  CleanInv'
  <1>1. /\ cur' = cur /\ com' = com /\ dma' = dma /\ cache' = cache
    BY FlushFrameKeeps DEF FlushFrame
  <1>2. CleanInv /\ ~Down /\ ~Down' BY DEF AtomicInv, Down, Committing
  <1>3. \A b \in OrdBlks : DiskView(b)' = DiskView(b) BY FlushView DEF Blocks
  <1> QED BY <1>1, <1>2, <1>3 DEF CleanInv

\* CacheInv survives a step that keeps the contents.
LEMMA KeptCache ==
    ASSUME AtomicInv, Keeps, FlushFrame, early' = early, cpc \in Committing, cpc' \in Committing
    PROVE  CacheInv'
  <1>1. cur' = cur /\ cache' = cache BY FlushFrameKeeps DEF FlushFrame
  <1>2. CacheInv /\ ~Down /\ ~Down' BY DEF AtomicInv, Down, Committing
  <1> QED BY <1>1, <1>2 DEF CacheInv, Keeps

LEMMA FlushAtomic ==
    ASSUME TypeOK, LogInv, DiskInv, AtomicInv, LogBlks \cap OrdBlks = {}, FlushCovers, CommitFlush
    PROVE  AtomicInv' /\ Keeps
  <1>1. /\ cpc = "ordered" /\ cpc' \in {"commithead", "committed"} /\ Flushed /\ FlushFrame
        /\ early' = early /\ (cpc' = "committed" => com.start = com.head)
    BY CoveredFlush DEF CommitFlush, FlushFrame, transVars
  <1>2. /\ cpc \in Pre /\ ~Down /\ ~Down' /\ cpc \in Committing \ {"commit"}
        /\ cpc' \in Committing \ {"commit"} /\ cpc' \notin {"apply", "applytail"}
    BY <1>1 DEF Pre, Down, Committing
  <1>3. /\ trans' = trans /\ memlog' = memlog /\ tail' = tail /\ com' = com
        /\ \A b : place(com, b)' = place(com, b)
    BY <1>1, FlushFrameKeeps DEF FlushFrame
  <1>4. /\ mhdr' = mhdr /\ mhome' = Destage(Blocks) /\ stable' = Recovered(mhome', mlog', mhdr)
        /\ LogType(mlog') /\ LogType(mlog) /\ Agree(mlog, mlog', mhdr.tail, mhdr.head)
    <2>1. whdr = << >> BY <1>1 DEF DiskInv, HdrInv
    <2>2. /\ mhdr' = mhdr /\ mhome' = Destage(Blocks) /\ StableInv'
          /\ LogType(mlog') /\ LogType(mlog) /\ Agree(mlog, mlog', mhdr.tail, mhdr.head)
      BY <1>1, <2>1, FlushEffects
    <2> QED BY <2>2 DEF StableInv
  <1>5. /\ mhdr.tail \in Nat /\ mhdr.head \in Nat /\ mhdr.tail = tail
        /\ WellFormed(mlog, mhdr.tail, mhdr.head)
    BY <1>2 DEF TypeOK, DiskType, Header, DiskInv, HdrInv, ShapeInv
  <1> DEFINE log == mlog'
             home == mhome'
  <1>6. LogType(log) /\ Agree(mlog, log, mhdr.tail, mhdr.head) /\ home \in [Blocks -> Vals]
    BY <1>4, FlushType
  <1> HIDE DEF log, home
  <1>7. /\ Starts(log, mhdr.tail, mhdr.head) = Starts(mlog, mhdr.tail, mhdr.head)
        /\ \A i, b : Copy(log, mhdr.tail, mhdr.head, i, b) <=> Copy(mlog, mhdr.tail, mhdr.head, i, b)
        /\ \A i, b : Cancels(log, mhdr.tail, mhdr.head, i, b)
                        <=> Cancels(mlog, mhdr.tail, mhdr.head, i, b)
    BY <1>4, <1>5, <1>6, AgreeShape
  <1>8. NoRevokes' BY <1>3, <1>4, <1>7 DEF AtomicInv, NoRevokes, log
  <1>9. MemInv' BY <1>1, <1>2, <1>3, <1>4, <1>5, <1>7 DEF AtomicInv, MemInv, log
  <1>10. ASSUME NEW b \in LogBlks PROVE stable'[b] = stable[b]
    <2>1. b \in Blocks /\ whome[b] = NoVal
      BY <1>1 DEF Blocks, DiskInv, DriveInv, BlocksInv
    <2>2. home[b] = mhome[b] BY <1>4, <2>1 DEF home, Destage
    <2>3. Recovered(home, log, mhdr)[b] = stable[b] BY <1>6, <2>1, <2>2, SameRecovered
    <2> QED BY <1>4, <2>3 DEF home, log
  <1>11. Keeps
    <2>1. ASSUME NEW b \in LogBlks PROVE Snap(b)' = Snap(b)
      <3>1. CASE cpc' = "commithead"
        <4>1. cpc' \in Pre /\ b \in Blocks BY <3>1 DEF Pre, Blocks
        <4> QED BY <1>2, <1>3, <1>10, <4>1, KeptSnap
      <3>2. CASE cpc' = "committed"
        <4>1. com.logged = {} BY <1>1, <1>2, <3>2, NothingLogged
        <4> QED BY <1>3, <1>10, <4>1 DEF Snap
      <3> QED BY <1>1, <3>1, <3>2
    <2> QED BY <1>10, <2>1 DEF Keeps
  <1>12. CacheInv' /\ CleanInv' /\ ApplyInv'
    BY <1>1, <1>2, <1>11, KeptCache, FlushClean DEF ApplyInv
  <1> QED BY <1>8, <1>9, <1>11, <1>12 DEF AtomicInv

\* The in-memory log knows the slots of the transaction that is being committed.
LEMMA ComMem ==
    ASSUME TypeOK, LogInv, DiskInv, AtomicInv, cpc = "commithead",
           NEW i \in com.start .. com.head - 1
    PROVE  \/ memlog[logindex(i)].type = CommitBlk /\ i \in Starts(mlog, tail, com.head)
           \/ /\ memlog[logindex(i)].type = DataBlk
              /\ memlog[logindex(i)].block \in Blocks
              /\ Copy(mlog, tail, com.head, i, memlog[logindex(i)].block)
  <1>1. /\ com.start # com.head
        /\ Starts(mlog, tail, com.head) = Starts(mlog, tail, com.start) \cup {com.start}
        /\ \A k : \A b \in Blocks :
              Copy(mlog, tail, com.head, k, b)
                 <=> Copy(mlog, tail, com.start, k, b) \/ (b \in com.logged /\ k = place(com, b))
    BY CommitLog
  <1>2. cpc \in Pre /\ com \in TransType /\ com.start \in Nat /\ com.head \in Nat
        /\ com.logged \subseteq Blocks /\ com.revoked = << >>
    <2>1. ct \in {0, 1} BY DEF TypeOK, TransesType
    <2> QED BY <2>1, LiveTypes DEF Pre, TransType, AtomicInv, NoRevokes, com
  <1>3. CASE i = com.start BY <1>1, <1>3 DEF AtomicInv, MemInv
  <1>4. CASE i # com.start
    <2> DEFINE n == Cardinality(com.logged)
               first == com.start + NCommitBlk + revokelen(com)
    <2>1. n \in Nat /\ revokelen(com) = 0 BY <1>2, LoggedCount DEF revokelen
    <2>2. first \in Nat /\ first = com.start + 1 BY <1>2, <2>1 DEF NCommitBlk
    <2>3. com.head = com.start + (IF com.logged = {} /\ com.revoked = << >> THEN 0
                                  ELSE NCommitBlk + revokelen(com) + Cardinality(com.logged))
      BY <1>2 DEF DiskInv, ComInv
    <2>4. com.head = com.start + 0 \/ com.head = com.start + (NCommitBlk + revokelen(com) + n)
      BY <2>3, Zenon
    <2> HIDE DEF n
    <2>5. com.head = first + n BY <1>1, <1>2, <2>1, <2>2, <2>4 DEF NCommitBlk
    <2>6. i \in first .. first + n - 1 BY <1>2, <1>4, <2>1, <2>2, <2>5
    <2>7. n = Cardinality(com.logged) /\ first = com.start + NCommitBlk + revokelen(com)
      BY DEF n
    <2> HIDE DEF first
    <2>8. PICK b \in com.logged : i = place(com, b)
      BY <1>2, <2>1, <2>2, <2>6, <2>7, Places
    <2>9. memlog[logindex(i)].type = DataBlk /\ memlog[logindex(i)].block = b
      BY <1>2, <2>8 DEF DiskInv, ComInv
    <2> QED BY <1>1, <1>2, <2>8, <2>9
  <1> QED BY <1>3, <1>4

\* commit_head's flush: the snapshot becomes stable.
LEMMA HeadAtomic ==
    ASSUME TypeOK, LogInv, DiskInv, AtomicInv, FlushCovers, CommitHead
    PROVE  AtomicInv' /\ \A b \in LogBlks : stable'[b] = Snap(b) /\ Snap(b)' = Snap(b)
  <1>1. /\ cpc = "commithead" /\ cpc' = "committed" /\ Flushed /\ FlushFrame /\ early' = early
    BY CoveredFlush DEF CommitHead, FlushFrame, transVars
  <1>2. /\ cpc' \notin Pre /\ ~Down /\ ~Down' /\ cpc \in Committing \ {"commit"}
        /\ cpc' \in Committing \ {"commit"}
    BY <1>1 DEF Pre, Down, Committing
  <1>3. trans' = trans /\ memlog' = memlog /\ tail' = tail /\ com' = com /\ cur' = cur /\ cache' = cache
    BY <1>1, FlushFrameKeeps DEF FlushFrame
  <1>4. /\ tail \in Nat /\ com.start \in Nat /\ com.head \in Nat /\ mhdr \in Header
    BY LiveTypes DEF TypeOK, KernelType, TransType, DiskType
  <1> DEFINE hdr == [mhdr EXCEPT !.head = com.head]
  <1>5. hdr \in Header /\ hdr.head = com.head /\ hdr.tail = mhdr.tail BY <1>4, HeaderParts
  <1>6. /\ tail = mhdr.tail /\ com.start = mhdr.head
        /\ Starts(mlog, tail, com.head) = Starts(mlog, tail, com.start) \cup {com.start}
        /\ \A i : \A b \in Blocks :
              Copy(mlog, tail, com.head, i, b)
                 <=> Copy(mlog, tail, com.start, i, b) \/ (b \in com.logged /\ i = place(com, b))
    BY <1>1, CommitLog
  <1>7. mhome' = mhome /\ mlog' = mlog /\ mhdr' = hdr /\ stable' = Recovered(mhome, mlog, hdr)
    <2>1. whdr = <<hdr>> /\ whome = NoWrites BY <1>1 DEF DiskInv, HdrInv, DriveInv
    <2> HIDE DEF hdr
    <2>2. mhome' = Destage(Blocks) /\ StableInv' /\ mlog' = mlog /\ mhdr' = hdr
      BY <1>1, <1>5, <2>1, FlushEffects
    <2> QED BY <2>1, <2>2, NothingToDestage DEF StableInv
  <1> HIDE DEF hdr
  <1>8. NoRevokes'
    <2>1. ASSUME NEW i \in tail .. com.head - 1, NEW b \in Blocks
          PROVE  ~Cancels(mlog, tail, com.head, i, b)
      BY <1>1, NoneCanceled DEF AtomicInv
    <2> QED BY <1>3, <1>5, <1>6, <1>7, <2>1 DEF AtomicInv, NoRevokes
  <1>9. MemInv'
    <2>1. ASSUME NEW i \in tail .. com.head - 1
          PROVE  \/ memlog[logindex(i)].type = CommitBlk /\ i \in Starts(mlog, tail, com.head)
                 \/ /\ memlog[logindex(i)].type = DataBlk
                    /\ memlog[logindex(i)].block \in Blocks
                    /\ Copy(mlog, tail, com.head, i, memlog[logindex(i)].block)
      <3>1. i \in tail .. mhdr.head - 1 \/ i \in com.start .. com.head - 1 BY <1>4, <1>6
      <3>2. CASE i \in tail .. mhdr.head - 1 BY <1>2, <1>6, <3>2 DEF AtomicInv, MemInv
      <3>3. CASE i \in com.start .. com.head - 1 BY <1>1, <3>3, ComMem
      <3> QED BY <3>1, <3>2, <3>3
    <2> QED BY <1>1, <1>3, <1>5, <1>7, <2>1 DEF MemInv
  <1>10. ASSUME NEW b \in LogBlks PROVE stable'[b] = Snap(b) /\ Snap(b)' = Snap(b)
    <2>1. Recovered(mhome, mlog, hdr)[b] = Snap(b)
      BY <1>1, <1>5, <1>6, CommitStable DEF AtomicInv, Blocks
    <2> QED BY <1>2, <1>7, <2>1 DEF Snap
  <1>11. CacheInv'
    <2>1. CacheInv BY DEF AtomicInv
    <2> QED BY <1>1, <1>2, <1>3, <1>10, <2>1 DEF CacheInv
  <1>12. CleanInv' /\ ApplyInv' BY <1>1, <1>2, FlushClean DEF ApplyInv
  <1> QED BY <1>8, <1>9, <1>10, <1>11, <1>12 DEF AtomicInv

\* With nothing revoked, cancel changes nothing, and apply writes home what
\* recovery would install.
LEMMA DoneAtomic ==
    ASSUME TypeOK, LogInv, DiskInv, AtomicInv, LogBlks \cap OrdBlks = {}, CommitDone
    PROVE  AtomicInv' /\ Keeps
  <1>1. /\ cpc = "committed" /\ cpc' \in {"apply", "finish"} /\ early' = early
        /\ trans' = [trans EXCEPT ![ct] = [@ EXCEPT !.forcedone = TRUE, !.waiters = {}]]
        /\ curtrans' = curtrans /\ ct' = ct /\ tail' = tail /\ cache' = cache
        /\ mhome' = mhome /\ mlog' = mlog /\ mhdr' = mhdr /\ stable' = stable /\ dma' = dma
    BY DEF CommitDone
  <1>2. /\ cpc \notin Pre /\ cpc' \notin Pre /\ ~Down /\ ~Down' /\ cpc \in Committing \ {"commit"}
        /\ cpc' \in Committing \ {"commit"} /\ cpc \in Post
    BY <1>1 DEF Pre, Post, Down, Committing
  <1>3. /\ ct \in {0, 1} /\ curtrans \in {0, 1} /\ trans \in [{0, 1} -> TransType]
        /\ memlog \in [Slots -> MemSlot]
    BY DEF TypeOK, TransesType, KernelType
  <1>4. \A i \in {0, 1} : /\ trans'[i].logged = trans[i].logged
                          /\ trans'[i].revoked = trans[i].revoked
                          /\ trans'[i].ordered = trans[i].ordered
    <2>1. ASSUME NEW i \in {0, 1}, i = ct
          PROVE  trans'[i] = [trans[i] EXCEPT !.forcedone = TRUE, !.waiters = {}]
      BY <1>1, <1>3, <2>1
    <2>2. ASSUME NEW i \in {0, 1}, i # ct PROVE trans'[i] = trans[i] BY <1>1, <1>3, <2>2
    <2>3. \A i \in {0, 1} : trans[i] \in TransType BY <1>3
    <2> QED BY <2>1, <2>2, <2>3 DEF TransType
  <1>5. com'.ordered = com.ordered /\ cur'.ordered = cur.ordered /\ cur'.logged = cur.logged
    BY <1>1, <1>3, <1>4 DEF com, cur
  <1>6. RevokesSeen = {{}} /\ cancel({}) = memlog
    <2>1. com.revoked = << >> BY <1>3 DEF AtomicInv, NoRevokes, com
    <2> QED BY <1>3, <2>1 DEF RevokesSeen, cancel
  <1>7. whome = NoWrites /\ mhdr.head = com.head
    BY <1>1, <1>2 DEF DiskInv, DriveInv, HdrInv
  <1>8. /\ memlog' = memlog
        /\ cpc' = "finish" => whome' = whome
        /\ cpc' = "apply" => whome' = install(mlog, mhdr, Blocks)
    <2>1. CASE Doapply /\ tail # com.head
      <3>1. PICK revoked \in RevokesSeen : /\ memlog' = cancel(revoked)
                                           /\ whome' = over(apply(cancel(revoked), tail, com.head, Blocks))
        BY <2>1 DEF CommitDone
      <3>2. memlog' = memlog /\ whome' = over(install(mlog, mhdr, Blocks))
        <4>1. apply(memlog, tail, com.head, Blocks) = install(mlog, mhdr, Blocks)
          BY <1>2, <1>7, <2>1, ApplyIsInstall DEF AtomicInv
        <4> QED BY <1>6, <3>1, <4>1
      <3>3. over(install(mlog, mhdr, Blocks)) = install(mlog, mhdr, Blocks)
        <4>1. install(mlog, mhdr, Blocks) \in [Blocks -> Vals \cup {NoVal}]
          BY InstallType DEF TypeOK, DiskType
        <4> QED BY <1>7, <4>1 DEF over, NoWrites
      <3>4. cpc' = "apply" BY <2>1 DEF CommitDone
      <3> QED BY <3>2, <3>3, <3>4
    <2>2. CASE ~(Doapply /\ tail # com.head) BY <2>2 DEF CommitDone
    <2> QED BY <2>1, <2>2
  <1>9. NoRevokes' BY <1>1, <1>4 DEF AtomicInv, NoRevokes
  <1>10. MemInv' BY <1>1, <1>2, <1>8 DEF AtomicInv, MemInv
  <1>11. ApplyInv' BY <1>1, <1>8 DEF ApplyInv
  <1>12. Keeps BY <1>1, <1>2 DEF Keeps, Snap
  <1>13. CacheInv'
    <2>1. CacheInv BY DEF AtomicInv
    <2> QED BY <1>1, <1>2, <1>5, <1>12, <2>1 DEF CacheInv, Keeps
  <1>14. CleanInv'
    <2>1. CleanInv BY DEF AtomicInv
    <2>2. ASSUME NEW b \in OrdBlks PROVE DiskView(b)' = DiskView(b)
      <3>1. b \in Blocks BY DEF Blocks
      <3>2. CASE cpc' = "finish" BY <1>1, <1>8, <3>2 DEF DiskView
      <3>3. CASE cpc' = "apply"
        <4>1. LogType(mlog) /\ mhdr \in Header /\ WellFormed(mlog, mhdr.tail, mhdr.head)
              /\ mhdr.tail \in Nat /\ mhdr.head \in Nat
          BY DEF LogType, TypeOK, DiskType, Header, DiskInv, ShapeInv
        <4>2. \A i \in mhdr.tail .. mhdr.head - 1 : ~Copy(mlog, mhdr.tail, mhdr.head, i, b)
          BY <3>1, <4>1, CopiesLogged
        <4>3. install(mlog, mhdr, Blocks)[b] = NoVal BY <3>1, <4>1, <4>2, NotInstalled
        <4>4. whome[b] = NoVal BY <1>7, <3>1 DEF NoWrites
        <4> QED BY <1>1, <1>8, <3>3, <4>3, <4>4 DEF DiskView
      <3> QED BY <1>1, <3>2, <3>3
    <2> QED BY <1>1, <1>2, <1>5, <2>1, <2>2 DEF CleanInv
  <1> QED BY <1>9, <1>10, <1>11, <1>12, <1>13, <1>14 DEF AtomicInv

LEMMA ApplyFlushAtomic ==
    ASSUME TypeOK, LogInv, DiskInv, AtomicInv, FlushCovers, ApplyFlush PROVE AtomicInv' /\ Keeps
  <1>1. cpc = "apply" /\ cpc' = "applytail" /\ Flushed /\ FlushFrame /\ early' = early
    BY CoveredFlush DEF ApplyFlush, FlushFrame, transVars, histVars
  <1>2. /\ cpc \notin Pre /\ cpc' \notin Pre /\ ~Down /\ ~Down' /\ cpc \in Committing \ {"commit"}
        /\ cpc' \in Committing \ {"commit"}
    BY <1>1 DEF Pre, Down, Committing
  <1>3. trans' = trans /\ memlog' = memlog /\ tail' = tail BY <1>1 DEF FlushFrame
  <1>4. mlog' = mlog /\ mhdr' = mhdr /\ mhome' = Destage(Blocks)
        /\ stable' = Recovered(Destage(Blocks), mlog, mhdr)
    <2>1. whdr = << >> BY <1>1 DEF DiskInv, HdrInv
    <2>2. mlog' = mlog /\ mhdr' = mhdr /\ mhome' = Destage(Blocks) /\ StableInv'
      BY <1>1, <2>1, FlushEffects
    <2> QED BY <2>2 DEF StableInv
  <1>5. mhome' = stable /\ stable' = stable
    <2>1. whome = install(mlog, mhdr, Blocks) /\ StableInv
      BY <1>1 DEF AtomicInv, ApplyInv, DiskInv
    <2> QED BY <1>4, <2>1, InstalledPart
  <1>6. NoRevokes' /\ ApplyInv'
    BY <1>1, <1>3, <1>4, <1>5 DEF AtomicInv, NoRevokes, ApplyInv
  <1>7. MemInv' BY <1>1, <1>2, <1>3, <1>4 DEF AtomicInv, MemInv
  <1>8. Keeps BY <1>2, <1>5 DEF Keeps, Snap
  <1>9. CacheInv' /\ CleanInv' BY <1>1, <1>2, <1>8, KeptCache, FlushClean
  <1> QED BY <1>6, <1>7, <1>8, <1>9 DEF AtomicInv

LEMMA ApplyTailAtomic ==
    ASSUME TypeOK, LogInv, DiskInv, AtomicInv, FlushCovers, ApplyTail PROVE AtomicInv' /\ Keeps
  <1>1. /\ cpc = "applytail" /\ cpc' = "finish" /\ Flushed /\ early' = early
        /\ trans' = trans /\ curtrans' = curtrans /\ ct' = ct /\ tail' = com.head
        /\ cache' = cache /\ dma' = dma
    BY CoveredFlush DEF ApplyTail
  <1>2. /\ cpc \notin Pre /\ cpc' \notin Pre /\ ~Down /\ ~Down' /\ cpc \in Committing \ {"commit"}
        /\ cpc' \in Committing \ {"commit"} /\ cpc \in Post
    BY <1>1 DEF Pre, Post, Down, Committing
  <1>3. cur' = cur /\ com' = com BY <1>1 DEF cur, com
  <1>4. mhdr \in Header /\ com.head \in Nat /\ mhdr.head = com.head
        /\ LogType(mlog) /\ mhome \in [Blocks -> Vals]
    BY <1>2, LiveTypes DEF TypeOK, DiskType, TransType, DiskInv, HdrInv, LogType
  <1> DEFINE hdr == [mhdr EXCEPT !.tail = com.head]
  <1>5. hdr \in Header /\ hdr.tail = com.head /\ hdr.head = com.head BY <1>4, HeaderParts
  <1>6. mhome' = mhome /\ mlog' = mlog /\ mhdr' = hdr /\ stable' = Recovered(mhome, mlog, hdr)
    <2>1. whdr = <<hdr>> /\ whome = NoWrites BY <1>1 DEF DiskInv, HdrInv, DriveInv
    <2> HIDE DEF hdr
    <2>2. mhome' = Destage(Blocks) /\ StableInv' /\ mlog' = mlog /\ mhdr' = hdr
      BY <1>1, <1>5, <2>1, FlushEffects
    <2> QED BY <2>1, <2>2, NothingToDestage DEF StableInv
  <1> HIDE DEF hdr
  <1>7. stable' = stable
    <2>1. Recovered(mhome, mlog, hdr) = mhome BY <1>4, <1>5, EmptyLog
    <2> QED BY <1>1, <1>6, <2>1 DEF AtomicInv, ApplyInv
  <1>8. mhdr'.tail .. mhdr'.head - 1 = {} /\ tail' .. mhdr'.head - 1 = {}
    BY <1>1, <1>4, <1>5, <1>6
  <1>9. NoRevokes' /\ MemInv' /\ ApplyInv'
    BY <1>1, <1>8 DEF AtomicInv, NoRevokes, MemInv, ApplyInv
  <1>10. Keeps BY <1>2, <1>7 DEF Keeps, Snap
  <1>11. CacheInv'
    <2>1. CacheInv BY DEF AtomicInv
    <2> QED BY <1>1, <1>2, <1>3, <1>10, <2>1 DEF CacheInv, Keeps
  <1>12. CleanInv'
    <2>1. CleanInv BY DEF AtomicInv
    <2>2. \A b \in OrdBlks : DiskView(b)' = DiskView(b) BY <1>1, FlushView DEF Blocks
    <2> QED BY <1>1, <1>2, <1>3, <2>1, <2>2 DEF CleanInv
  <1> QED BY <1>9, <1>10, <1>11, <1>12 DEF AtomicInv

\* A log that has just been started.
Started == Fresh /\ cache = mhome

LEMMA FreshAtomic == TypeOK /\ Started => AtomicInv
  <1> SUFFICES ASSUME TypeOK, Started PROVE AtomicInv
    OBVIOUS
  <1>1. /\ cpc = "wake" /\ trans = [i \in {0, 1} |-> mk_trans(mhdr.head)] /\ tail = mhdr.head
        /\ mhdr.tail = mhdr.head /\ whome = NoWrites /\ stable = Recovered(mhome, mlog, mhdr)
        /\ cache = mhome
    BY DEF Started, Fresh, StableInv
  <1>2. /\ mhdr \in Header /\ mhdr.head \in Nat /\ LogType(mlog) /\ mhome \in [Blocks -> Vals]
    BY DEF TypeOK, DiskType, Header, LogType
  <1>3. stable = mhome BY <1>1, <1>2, EmptyLog
  <1>4. tail .. mhdr.head - 1 = {} /\ mhdr.tail .. mhdr.head - 1 = {} BY <1>1, <1>2
  <1>5. \A i \in {0, 1} : trans[i].revoked = << >> BY <1>1, FreshTrans
  <1>6. NoRevokes /\ MemInv /\ ApplyInv
    BY <1>1, <1>4, <1>5 DEF NoRevokes, MemInv, ApplyInv
  <1>7. CacheInv BY <1>1, <1>3 DEF CacheInv, Snap, Pre
  <1>8. CleanInv
    <2>1. \A b \in OrdBlks : DiskView(b) = cache[b] BY <1>1 DEF DiskView, NoWrites, Blocks
    <2> QED BY <1>1, <2>1 DEF CleanInv, Committing
  <1> QED BY <1>6, <1>7, <1>8 DEF AtomicInv

LEMMA FreshAtomicNext == TypeOK' /\ Started' => AtomicInv'
  BY FreshAtomic, PTL

LEMMA InitAtomic == Init => AtomicInv
  <1> SUFFICES ASSUME Init PROVE AtomicInv
    OBVIOUS
  <1>1. TypeOK BY InitType
  <1>2. Fresh
    <2>1. /\ cpc = "wake" /\ trans = [i \in {0, 1} |-> mk_trans(mhdr.head)]
          /\ tail = mhdr.head /\ mhdr.tail = mhdr.head
          /\ whome = NoWrites /\ wlog = {} /\ whdr = << >> /\ dma = {}
          /\ ord.com \subseteq OrdBlks /\ \A e \in translog : e.logged \subseteq LogBlks
      BY DEF Init
    <2>2. StableInv /\ WaitedForceDurable BY InitDisk DEF DiskInv
    <2> QED BY <2>1, <2>2 DEF Fresh
  <1>3. cache = mhome BY DEF Init
  <1> QED BY <1>1, <1>2, <1>3, FreshAtomic DEF Started

LEMMA RecoverAtomic ==
    ASSUME TypeOK, TypeOK', LogInv, DiskInv, AtomicInv, Recover PROVE AtomicInv' /\ Keeps
  <1>1. /\ cpc = "boot" /\ curtrans' = curtrans /\ ct' = ct /\ translog' = translog
        /\ memlog' = memlog /\ mhome' = mhome /\ mlog' = mlog /\ mhdr' = mhdr /\ stable' = stable
        /\ wlog' = wlog /\ dma' = dma /\ promised' = promised /\ ord' = ord
    BY DEF Recover, histVars
  <1>2. whdr = << >> /\ whome = NoWrites /\ wlog = {} /\ dma = {} /\ NoWrites' = NoWrites
    BY <1>1 DEF DiskInv, HdrInv, DriveInv, NoWrites
  <1>3. StableInv' /\ WaitedForceDurable'
    BY <1>1 DEF DiskInv, StableInv, WaitedForceDurable
  <1>4. cpc' \in {"wake", "recover"} BY DEF Recover, StartLog
  <1>5. Keeps BY <1>1, <1>4 DEF Keeps, Snap, Pre
  <1>6. CASE mhdr.tail = mhdr.head
    <2>1. /\ tail' = mhdr.head /\ trans' = [i \in {0, 1} |-> mk_trans(mhdr.head)] /\ cpc' = "wake"
          /\ whome' = whome /\ whdr' = whdr /\ cache' = mhome
      BY <1>6 DEF Recover, StartLog
    <2>2. Started' BY <1>1, <1>2, <1>3, <1>6, <2>1 DEF Started, Fresh, DiskInv, BlocksInv
    <2> QED BY <1>5, <2>2, FreshAtomicNext
  <1>7. CASE mhdr.tail # mhdr.head
    <2>1. cpc' = "recover" /\ trans' = trans BY <1>7 DEF Recover
    <2>2. Down' BY <2>1 DEF Down
    <2>3. NoRevokes' BY <1>1, <2>1 DEF AtomicInv, NoRevokes
    <2>4. MemInv' /\ CacheInv' /\ ApplyInv' /\ CleanInv'
      BY <2>1, <2>2 DEF MemInv, CacheInv, ApplyInv, CleanInv, Committing
    <2> QED BY <1>5, <2>3, <2>4 DEF AtomicInv
  <1> QED BY <1>6, <1>7

LEMMA RecoverFlushAtomic ==
    ASSUME TypeOK, TypeOK', LogInv, DiskInv, AtomicInv, RecoverFlush PROVE AtomicInv' /\ Keeps
  <1>1. /\ cpc = "recover" /\ Flushed /\ whdr' = << >>
        /\ tail' = DestageHdr.head /\ trans' = [i \in {0, 1} |-> mk_trans(DestageHdr.head)]
        /\ cache' = Destage(Blocks)
        /\ cpc' = "wake" /\ translog' = translog /\ dma' = dma /\ promised' = promised /\ ord' = ord
    BY RecoveryFlush DEF RecoverFlush, StartLog, histVars
  <1>2. whdr = <<[mhdr EXCEPT !.tail = mhdr.head]>> /\ dma = {}
        /\ whome = install(mlog, mhdr, Blocks) /\ StableInv
    BY <1>1 DEF DiskInv, HdrInv, DriveInv
  <1>3. mhdr \in Header /\ mhdr.head \in Nat /\ LogType(mlog)
    BY DEF TypeOK, DiskType, Header, LogType
  <1> DEFINE hdr == [mhdr EXCEPT !.tail = mhdr.head]
  <1>4. hdr \in Header /\ hdr.tail = mhdr.head /\ hdr.head = mhdr.head
    BY <1>3, HeaderParts
  <1>5. /\ whome' = NoWrites /\ wlog' = {} /\ mhdr' = hdr /\ mhdr' = DestageHdr /\ StableInv'
        /\ mhome' = Destage(Blocks) /\ mlog' = mlog
    <2>1. whdr = <<hdr>> BY <1>2
    <2> HIDE DEF hdr
    <2> QED BY <1>1, <1>4, <2>1, FlushEffects
  <1> HIDE DEF hdr
  <1>6. stable' = stable
    <2>1. Destage(Blocks) = stable BY <1>2, InstalledPart
    <2>2. Destage(Blocks) \in [Blocks -> Vals] BY FlushType
    <2>3. stable' = Recovered(Destage(Blocks), mlog, hdr) BY <1>5 DEF StableInv
    <2> QED BY <1>3, <1>4, <2>1, <2>2, <2>3, EmptyLog
  <1>7. Keeps BY <1>1, <1>6 DEF Keeps, Snap, Pre
  <1>8. WaitedForceDurable' BY <1>1, <1>4, <1>5 DEF DiskInv, WaitedForceDurable
  <1>9. Started'
    <2>1. NoWrites' = NoWrites BY DEF NoWrites
    <2>2. ord'.com \subseteq OrdBlks /\ \A e \in translog' : e.logged \subseteq LogBlks
      BY <1>1 DEF DiskInv, BlocksInv
    <2> QED BY <1>1, <1>2, <1>4, <1>5, <1>8, <2>1, <2>2 DEF Started, Fresh
  <1> QED BY <1>7, <1>9, FreshAtomicNext

\* What a crash leaves on the disk: the home blocks and the log, with the
\* header as it was or as it was about to be.
LEMMA CrashParts ==
    ASSUME TypeOK, LogInv, DiskInv, Crash
    PROVE  /\ \E S : mhome' = Destage(S)
           /\ LogType(mlog') /\ Agree(mlog, mlog', mhdr.tail, mhdr.head)
           /\ cpc # "ordered" => mlog' = mlog
           /\ stable' = Recovered(mhome', mlog', mhdr')
           /\ \/ mhdr' = mhdr
              \/ cpc = "commithead" /\ mhdr' = [mhdr EXCEPT !.head = com.head]
              \/ cpc \in {"applytail", "recover"} /\ mhdr' = [mhdr EXCEPT !.tail = mhdr.head]
  <1>1. PICK W \in SUBSET wlog : mlog' = DestageLog(W) BY DEF Crash
  <1>2. /\ LogType(mlog') /\ Agree(mlog, mlog', mhdr.tail, mhdr.head)
        /\ wlog = {} => mlog' = mlog
    BY <1>1, DestageKept
  <1>3. cpc # "ordered" => wlog = {} BY DEF DiskInv, DriveInv
  <1>4. \/ mhdr' = mhdr
        \/ whdr # << >> /\ mhdr' = DestageHdr
    BY DEF Crash
  <1>5. ASSUME whdr # << >>, mhdr' = DestageHdr
        PROVE  \/ cpc = "commithead" /\ mhdr' = [mhdr EXCEPT !.head = com.head]
               \/ cpc \in {"applytail", "recover"} /\ mhdr' = [mhdr EXCEPT !.tail = mhdr.head]
    <2>1. mhdr' = whdr[1] BY <1>5 DEF DestageHdr
    <2>2. \/ cpc = "commithead" /\ whdr = <<[mhdr EXCEPT !.head = com.head]>>
          \/ cpc \in {"applytail", "recover"} /\ whdr = <<[mhdr EXCEPT !.tail = mhdr.head]>>
      BY <1>5 DEF DiskInv, HdrInv, Post
    <2>3. mhdr \in Header /\ mhdr.head \in Nat /\ com.head \in Nat
      BY LiveTypes DEF TypeOK, DiskType, Header, TransType
    <2>4. [mhdr EXCEPT !.head = com.head] \in Header /\ [mhdr EXCEPT !.tail = mhdr.head] \in Header
      BY <2>3, HeaderParts
    <2> QED BY <2>1, <2>2, <2>4
  <1>6. \E S : mhome' = Destage(S) BY DEF Crash
  <1>7. stable' = Recovered(mhome', mlog', mhdr') BY DEF Crash
  <1> QED BY <1>2, <1>3, <1>4, <1>5, <1>6, <1>7

LEMMA CrashAtomic ==
    ASSUME TypeOK, LogInv, DiskInv, AtomicInv, Crash
    PROVE  AtomicInv' /\ \A b \in LogBlks : Snap(b)' = stable'[b]
  <1>1. cpc' = "boot" /\ trans' = [i \in {0, 1} |-> mk_trans(0)] BY DEF Crash
  <1>2. /\ LogType(mlog') /\ Agree(mlog, mlog', mhdr.tail, mhdr.head)
        /\ cpc # "ordered" => mlog' = mlog
        /\ \/ mhdr' = mhdr
           \/ cpc = "commithead" /\ mhdr' = [mhdr EXCEPT !.head = com.head]
           \/ cpc \in {"applytail", "recover"} /\ mhdr' = [mhdr EXCEPT !.tail = mhdr.head]
    BY CrashParts
  <1>3. \A i \in {0, 1} : trans'[i].revoked = << >> BY <1>1, FreshTrans
  <1>4. /\ mhdr \in Header /\ mhdr.head \in Nat /\ mhdr.tail \in Nat /\ LogType(mlog)
        /\ com.head \in Nat /\ WellFormed(mlog, mhdr.tail, mhdr.head)
    BY LiveTypes DEF TypeOK, DiskType, Header, LogType, TransType, DiskInv, ShapeInv
  <1>5. \A i \in mhdr'.tail .. mhdr'.head - 1, b \in Blocks :
           ~Cancels(mlog', mhdr'.tail, mhdr'.head, i, b)
    <2>1. CASE mhdr' = mhdr
      <3> DEFINE log == mlog'
      <3>1. LogType(log) /\ Agree(mlog, log, mhdr.tail, mhdr.head) BY <1>2
      <3> HIDE DEF log
      <3>2. \A i, b : Cancels(log, mhdr.tail, mhdr.head, i, b)
                         <=> Cancels(mlog, mhdr.tail, mhdr.head, i, b)
        BY <1>4, <3>1, AgreeShape
      <3> QED BY <2>1, <3>2 DEF AtomicInv, NoRevokes, log
    <2>2. CASE cpc = "commithead" /\ mhdr' = [mhdr EXCEPT !.head = com.head]
      <3>1. mlog' = mlog /\ mhdr'.tail = mhdr.tail /\ mhdr'.head = com.head
        BY <1>2, <1>4, <2>2, HeaderParts
      <3>2. tail = mhdr.tail BY <2>2, CommitLog
      <3>3. ASSUME NEW i \in tail .. com.head - 1, NEW b \in Blocks
            PROVE  ~Cancels(mlog, tail, com.head, i, b)
        BY <2>2, NoneCanceled DEF AtomicInv
      <3> QED BY <3>1, <3>2, <3>3
    <2>3. CASE mhdr' = [mhdr EXCEPT !.tail = mhdr.head]
      <3>1. mhdr'.tail = mhdr.head /\ mhdr'.head = mhdr.head BY <1>4, <2>3, HeaderParts
      <3>2. mhdr'.tail .. mhdr'.head - 1 = {} BY <1>4, <3>1
      <3> QED BY <3>2
    <2> QED BY <1>2, <2>1, <2>2, <2>3
  <1>6. NoRevokes' BY <1>3, <1>5 DEF NoRevokes
  <1>7. MemInv' /\ CacheInv' /\ ApplyInv' /\ CleanInv'
    BY <1>1 DEF MemInv, CacheInv, ApplyInv, CleanInv, Down, Committing
  <1>8. \A b \in LogBlks : Snap(b)' = stable'[b] BY <1>1 DEF Snap, Pre
  <1> QED BY <1>6, <1>7, <1>8 DEF AtomicInv

\* Unless it happens while recovery is at work, a crash keeps or loses the
\* transaction that is being committed as a whole.
LEMMA CrashKeeps ==
    ASSUME TypeOK, LogInv, DiskInv, AtomicInv, LogBlks \cap OrdBlks = {}, Crash, cpc # "recover"
    PROVE  \/ \A b \in LogBlks : stable'[b] = stable[b]
           \/ \A b \in LogBlks : stable'[b] = Snap(b)
  <1>1. PICK S : mhome' = Destage(S) BY CrashParts
  <1> DEFINE log == mlog'
             hdr == mhdr'
  <1>2. /\ LogType(log) /\ Agree(mlog, log, mhdr.tail, mhdr.head)
        /\ cpc # "ordered" => log = mlog
        /\ stable' = Recovered(Destage(S), log, hdr)
        /\ \/ hdr = mhdr
           \/ cpc = "commithead" /\ hdr = [mhdr EXCEPT !.head = com.head]
           \/ cpc = "applytail" /\ hdr = [mhdr EXCEPT !.tail = mhdr.head]
    BY <1>1, CrashParts
  <1> HIDE DEF log, hdr
  <1>3. /\ mhdr \in Header /\ mhdr.head \in Nat /\ LogType(mlog) /\ com.head \in Nat
        /\ mhome \in [Blocks -> Vals] /\ Destage(S) \in [Blocks -> Vals]
    BY LiveTypes, FlushType DEF TypeOK, DiskType, Header, LogType, TransType
  <1>4. cpc \notin {"ordered", "apply"} => Destage(S) = mhome
    <2>1. cpc \notin {"ordered", "apply"} => whome = NoWrites BY DEF DiskInv, DriveInv
    <2> QED BY <2>1, NothingToDestage
  <1>5. CASE hdr = mhdr /\ cpc = "apply"
    <2>1. whome = install(mlog, mhdr, Blocks) /\ StableInv
      BY <1>5 DEF AtomicInv, ApplyInv, DiskInv
    <2>2. Recovered(Destage(S), mlog, mhdr) = stable BY <2>1, InstalledPart
    <2> QED BY <1>2, <1>5, <2>2
  <1>6. CASE hdr = mhdr /\ cpc # "apply"
    <2>1. ASSUME NEW b \in LogBlks PROVE Destage(S)[b] = mhome[b]
      <3>1. CASE cpc = "ordered"
        <4>1. b \in Blocks /\ whome[b] = NoVal
          BY <3>1 DEF Blocks, DiskInv, DriveInv, BlocksInv
        <4> QED BY <4>1 DEF Destage
      <3>2. CASE cpc # "ordered" BY <1>4, <1>6, <3>2
      <3> QED BY <3>1, <3>2
    <2> DEFINE home == Destage(S)
    <2>2. home \in [Blocks -> Vals] /\ \A b \in LogBlks : home[b] = mhome[b] BY <1>3, <2>1
    <2> HIDE DEF home
    <2>3. ASSUME NEW b \in LogBlks PROVE Recovered(home, log, mhdr)[b] = stable[b]
      <3>1. b \in Blocks BY DEF Blocks
      <3> QED BY <1>2, <2>2, <3>1, SameRecovered
    <2> QED BY <1>2, <1>6, <2>3 DEF home
  <1>7. CASE cpc = "commithead" /\ hdr = [mhdr EXCEPT !.head = com.head]
    <2>1. hdr \in Header /\ hdr.tail = mhdr.tail /\ hdr.head = com.head
      BY <1>3, <1>7, HeaderParts
    <2>2. tail = mhdr.tail BY <1>7, CommitLog
    <2>3. ASSUME NEW b \in LogBlks PROVE Recovered(mhome, mlog, hdr)[b] = Snap(b)
      BY <1>7, <2>1, <2>2, CommitStable DEF AtomicInv, Blocks
    <2> QED BY <1>2, <1>4, <1>7, <2>3
  <1>8. CASE cpc = "applytail" /\ hdr = [mhdr EXCEPT !.tail = mhdr.head]
    <2>1. hdr \in Header /\ hdr.tail = hdr.head BY <1>3, <1>8, HeaderParts
    <2>2. Recovered(mhome, mlog, hdr) = mhome BY <1>3, <2>1, EmptyLog
    <2>3. mhome = stable BY <1>8 DEF AtomicInv, ApplyInv
    <2> QED BY <1>2, <1>4, <1>8, <2>2, <2>3
  <1> QED BY <1>2, <1>5, <1>6, <1>7, <1>8

LEMMA StutterAtomic == ASSUME AtomicInv, UNCHANGED vars PROVE AtomicInv' /\ Keeps
  <1>1. /\ trans' = trans /\ curtrans' = curtrans /\ ct' = ct /\ early' = early
        /\ cpc' = cpc /\ memlog' = memlog /\ tail' = tail /\ cache' = cache
        /\ mhome' = mhome /\ mlog' = mlog /\ mhdr' = mhdr /\ stable' = stable
        /\ whome' = whome /\ dma' = dma
    BY DEF vars, transVars, diskVars
  <1>2. cur' = cur /\ com' = com /\ Down' = Down BY <1>1 DEF cur, com, Down
  <1>3. /\ \A b : Snap(b)' = Snap(b)
        /\ \A b : DiskView(b)' = DiskView(b)
    <2>1. \A b : place(com, b)' = place(com, b) BY <1>1, <1>2 DEF place, revokelen
    <2> QED BY <1>1, <1>2, <2>1 DEF Snap, DiskView
  <1>4. NoRevokes' /\ MemInv' /\ ApplyInv'
    BY <1>1, <1>2 DEF AtomicInv, NoRevokes, MemInv, ApplyInv
  <1>5. CacheInv'
    <2>1. CacheInv BY DEF AtomicInv
    <2> QED BY <1>1, <1>2, <1>3, <2>1 DEF CacheInv
  <1>6. CleanInv'
    <2>1. CleanInv BY DEF AtomicInv
    <2> QED BY <1>1, <1>2, <1>3, <2>1 DEF CleanInv
  <1> QED BY <1>1, <1>3, <1>4, <1>5, <1>6 DEF AtomicInv, Keeps

LEMMA NextAtomic ==
    ASSUME TypeOK, TypeOK', LogInv, LogInv', DiskInv, AtomicInv, LogBlks \cap OrdBlks = {},
           FlushCovers, [Next]_vars
    PROVE  AtomicInv'
  <1>1. CASE \E p \in Procs : Fs(p) BY <1>1, FsAtomic
  <1>2. CASE Committer
    BY <1>2, TopAtomic, StartAtomic, WriteAtomic, TransferAtomic, FlushAtomic, HeadAtomic, DoneAtomic,
       ApplyFlushAtomic, ApplyTailAtomic, FinishAtomic, RecoverAtomic, RecoverFlushAtomic DEF Committer
  <1>3. CASE Crash BY <1>3, CrashAtomic
  <1>4. CASE UNCHANGED vars BY <1>4, StutterAtomic
  <1> QED BY <1>1, <1>2, <1>3, <1>4 DEF Next

\* When no block is written in both ways, the contents of the disk, of the
\* in-memory log and of the cache are those the file system expects: what the
\* next commit makes stable is in the transaction's copies, and the cache
\* differs from it only in blocks of the open transaction.
THEOREM AtomicInvariant ==
    ASSUME OpWrites < MaxBlkPerOp, LogBlks \cap OrdBlks = {}
    PROVE  Spec /\ [][FlushCovers]_vars => []AtomicInv
  <1>1. Init => AtomicInv BY InitAtomic
  <1>2. TypeOK /\ TypeOK' /\ LogInv /\ LogInv' /\ DiskInv /\ AtomicInv
          /\ [Next]_vars /\ [FlushCovers]_vars => AtomicInv'
    BY NextAtomic, CoversStep
  <1> QED BY <1>1, <1>2, TypeCorrect, LogInvariant, DiskInvariant, PTL DEF Spec

\* A logged block that translog does not know has no copy in the log, so it is
\* in its home block.
LEMMA UnloggedHome ==
    ASSUME TypeOK, DiskInv, ~Down, NEW b \in Blocks, b \in LogBlks => ~islogged(b)
    PROVE  install(mlog, mhdr, Blocks)[b] = NoVal /\ stable[b] = mhome[b]
  <1>1. /\ LogType(mlog) /\ mhdr \in Header /\ WellFormed(mlog, mhdr.tail, mhdr.head)
        /\ mhdr.tail \in Nat /\ mhdr.head \in Nat /\ mhome \in [Blocks -> Vals] /\ mhdr.tail = tail
    BY DEF LogType, TypeOK, DiskType, Header, DiskInv, ShapeInv, HdrInv
  <1>2. \A i \in mhdr.tail .. mhdr.head - 1 : ~Copy(mlog, mhdr.tail, mhdr.head, i, b)
    <2>1. SUFFICES ASSUME NEW i \in mhdr.tail .. mhdr.head - 1, Copy(mlog, mhdr.tail, mhdr.head, i, b)
                   PROVE  FALSE
      OBVIOUS
    <2>2. b \in LogBlks BY <1>1, <2>1, CopiesLogged
    <2> QED BY <1>1, <2>1, <2>2 DEF DiskInv, TlogInv
  <1>3. install(mlog, mhdr, Blocks)[b] = NoVal BY <1>1, <1>2, NotInstalled
  <1> QED BY <1>1, <1>3, RecoveredIs DEF DiskInv, StableInv

LEMMA UnreferencedIsClean ==
    ASSUME TypeOK, DiskInv, AtomicInv, LogBlks \cap OrdBlks = {} PROVE UnreferencedClean
  <1>1. SUFFICES ASSUME ~Down, NEW b \in Blocks, b \notin Referenced PROVE DiskView(b) = cache[b]
    BY DEF UnreferencedClean
  <1>2. /\ b \notin cur.logged /\ b \notin cur.ordered /\ b \notin com.ordered /\ b \notin dma
        /\ ~islogged(b)
    BY <1>1 DEF Referenced, islogged
  <1>3. CASE b \in OrdBlks
    <2>1. CleanInv BY DEF AtomicInv
    <2> QED BY <1>1, <1>2, <1>3, <2>1 DEF CleanInv
  <1>4. CASE b \in LogBlks
    <2>1. install(mlog, mhdr, Blocks)[b] = NoVal /\ stable[b] = mhome[b]
      BY <1>1, <1>2, UnloggedHome
    <2>2. whome[b] = NoVal
      <3>1. CASE cpc \in {"ordered", "recover"}
        BY <1>1, <1>4, <3>1 DEF Down, DiskInv, DriveInv, BlocksInv
      <3>2. CASE cpc = "apply" BY <2>1, <3>2 DEF AtomicInv, ApplyInv
      <3>3. CASE cpc \notin {"ordered", "apply", "recover"}
        BY <3>3 DEF DiskInv, DriveInv, NoWrites
      <3> QED BY <3>1, <3>2, <3>3
    <2>3. Snap(b) = stable[b] BY <1>2 DEF Snap, DiskInv, TlogInv
    <2>4. cache[b] = Snap(b)
      <3>1. CacheInv BY DEF AtomicInv
      <3> QED BY <1>1, <1>2, <1>4, <3>1 DEF CacheInv
    <2> QED BY <2>1, <2>2, <2>3, <2>4 DEF DiskView
  <1> QED BY <1>3, <1>4 DEF Blocks

\* The cache may evict a block that the log does not refer to: a read returns
\* what was written last.
THEOREM UnreferencedAreClean ==
    ASSUME OpWrites < MaxBlkPerOp, LogBlks \cap OrdBlks = {}
    PROVE  Spec /\ [][FlushCovers]_vars => []UnreferencedClean
  <1>1. TypeOK /\ DiskInv /\ AtomicInv => UnreferencedClean BY UnreferencedIsClean
  <1> QED BY <1>1, TypeCorrect, DiskInvariant, AtomicInvariant, PTL

LEMMA ExitedIsClean ==
    ASSUME TypeOK, DiskInv, AtomicInv, StopsInv, LogBlks \cap OrdBlks = {} PROVE CleanShutdown
  <1>1. SUFFICES ASSUME cpc = "exited" PROVE whome = NoWrites /\ whdr = << >> /\ stable = cache
    BY DEF CleanShutdown
  <1>2. whome = NoWrites /\ whdr = << >> /\ dma = {} BY <1>1 DEF DiskInv, HdrInv, DriveInv
  <1>3. ~Down /\ cpc \notin Applying /\ cpc \notin Committing /\ cpc \notin Pre /\ cpc # "commit"
    BY <1>1 DEF Down, Applying, Committing, Pre
  <1>4. isempty(cur)
    <2>1. PICK p \in Procs : pc[p] = "stopped" BY <1>1 DEF StopsInv
    <2> QED BY <1>3, <2>1 DEF StopsInv
  <1>5. cur.logged = {} /\ cur.ordered = {} BY <1>4 DEF isempty
  <1>6. ASSUME NEW b \in Blocks PROVE stable[b] = cache[b]
    <2>1. CASE b \in LogBlks
      <3>1. CacheInv BY DEF AtomicInv
      <3> QED BY <1>3, <1>5, <2>1, <3>1 DEF CacheInv, Snap
    <2>2. CASE b \in OrdBlks
      <3>1. CleanInv BY DEF AtomicInv
      <3>2. DiskView(b) = cache[b] BY <1>2, <1>3, <1>5, <2>2, <3>1 DEF CleanInv
      <3>3. DiskView(b) = mhome[b] BY <1>2 DEF DiskView, NoWrites
      <3>4. b \notin LogBlks BY <2>2
      <3>5. stable[b] = mhome[b] BY <1>3, <3>4, UnloggedHome
      <3> QED BY <3>2, <3>3, <3>5
    <2> QED BY <2>1, <2>2 DEF Blocks
  <1>7. stable \in [Blocks -> Vals] /\ cache \in [Blocks -> Vals]
    BY DEF TypeOK, DiskType, KernelType
  <1> QED BY <1>2, <1>6, <1>7

\* Who stops the log is alone, and the log is empty once the committer exits.
THEOREM StopsInvariant == ASSUME OpWrites < MaxBlkPerOp PROVE Spec => []StopsInv
  <1>1. Init => StopsInv BY InitStops
  <1>2. TypeOK /\ LogInv /\ StopsInv /\ [Next]_vars => StopsInv' BY NextStops
  <1> QED BY <1>1, <1>2, TypeCorrect, LogInvariant, PTL DEF Spec

\* After StopLog nothing is left in the drive's cache, and a reboot finds the
\* contents the file system had.
THEOREM ShutdownIsClean ==
    ASSUME OpWrites < MaxBlkPerOp, LogBlks \cap OrdBlks = {}
    PROVE  Spec /\ [][FlushCovers]_vars => []CleanShutdown
  <1>1. TypeOK /\ DiskInv /\ AtomicInv /\ StopsInv => CleanShutdown BY ExitedIsClean
  <1> QED BY <1>1, TypeCorrect, DiskInvariant, AtomicInvariant, StopsInvariant, PTL

(***************************************************************************)
(* The log implements the journal.                                         *)
(***************************************************************************)
JMem    == Restrict(IF Down THEN stable ELSE cache, LogBlks)
JStable == Restrict(stable, LogBlks)
JSnap   == [b \in LogBlks |->
              IF cpc \in {"commit", "ordered", "commithead"} /\ b \in com.logged
              THEN memlog[logindex(place(com, b))].data ELSE stable[b]]

\* The contents of block b as the file system sees them.
Seen(b) == IF Down THEN stable[b] ELSE cache[b]

LEMMA JState ==
    /\ JMem = [b \in LogBlks |-> Seen(b)] /\ JMem' = [b \in LogBlks |-> Seen(b)']
    /\ JStable = [b \in LogBlks |-> stable[b]] /\ JStable' = [b \in LogBlks |-> stable'[b]]
    /\ JSnap = [b \in LogBlks |-> Snap(b)] /\ JSnap' = [b \in LogBlks |-> Snap(b)']
  BY DEF JMem, JStable, JSnap, Seen, Snap, Pre, Restrict

LEMMA JSteps ==
    /\ \A p : (/\ p \notin Active /\ Active' = Active \cup {p}
               /\ JMem' = JMem /\ JSnap' = JSnap /\ JStable' = JStable) => J!Begin(p)
    /\ \A p, b, v : (/\ p \in Active /\ JMem' = [JMem EXCEPT ![b] = v]
                     /\ JSnap' = JSnap /\ JStable' = JStable /\ Active' = Active) => J!Write(p, b, v)
    /\ \A p : (/\ p \in Active /\ Active' = Active \ {p}
               /\ JMem' = JMem /\ JSnap' = JSnap /\ JStable' = JStable) => J!End(p)
    /\ (/\ Active = {} /\ JSnap = JStable /\ JSnap' = JMem
        /\ JMem' = JMem /\ JStable' = JStable /\ Active' = Active) => J!Snapshot
    /\ (/\ JStable' = JSnap
        /\ JMem' = JMem /\ JSnap' = JSnap /\ Active' = Active) => J!Commit
    /\ (/\ JStable' \in {JStable, JSnap} /\ JMem' = JStable' /\ JSnap' = JStable'
        /\ Active' = {}) => J!Crash
    /\ (/\ JMem' = JMem /\ JSnap' = JSnap /\ JStable' = JStable /\ Active' = Active)
          => UNCHANGED J!vars
  BY Zenon DEF J!Begin, J!Write, J!End, J!Snapshot, J!Commit, J!Crash, J!vars,
         JMem, JSnap, JStable, Active

LEMMA InitJournal == ASSUME Init PROVE J!Init
  <1>1. /\ ~Down /\ cpc \notin Pre /\ Active = {}
        /\ \A b \in LogBlks : cache[b] = InitVal /\ stable[b] = InitVal
    BY DEF Init, Down, Pre, Active, Blocks
  <1>2. /\ \A b \in LogBlks : Seen(b) = InitVal /\ Snap(b) = InitVal
    BY <1>1 DEF Seen, Snap
  <1>3. /\ JMem = [b \in LogBlks |-> InitVal] /\ JSnap = JMem /\ JStable = JMem
    BY <1>1, <1>2, JState
  <1> QED BY <1>1, <1>3 DEF J!Init, JMem, JSnap, JStable, Active

\* A step that keeps the contents and the threads' operations is no step of
\* the journal.
LEMMA KeptJournal ==
    ASSUME Keeps, \A b \in LogBlks : Seen(b)' = Seen(b)
    PROVE  JMem' = JMem /\ JSnap' = JSnap /\ JStable' = JStable
  BY JState DEF Keeps

\* The operations in progress, thread by thread.
LEMMA SameActive ==
    ASSUME \A p \in Procs : pc'[p] = "op" <=> pc[p] = "op" PROVE Active' = Active
  BY DEF Active

LEMMA BroadcastActive ==
    ASSUME NEW f, NEW q \in Procs PROVE Broadcast(f)[q] = "op" <=> f[q] = "op"
  BY DEF Broadcast

LEMMA FsJournal ==
    ASSUME TypeOK, LogInv, DiskInv, AtomicInv, LogBlks \cap OrdBlks = {}, NEW p \in Procs, Fs(p)
    PROVE  [J!Next]_J!vars
  <1>1. Keeps /\ ~Down /\ ~Down'
    <2>1. FsFrame BY FsEffects
    <2> QED BY <2>1, FsUp, FsAtomic
  <1>2. pc \in [Procs -> {"idle", "admit", "admitwait", "op", "force",
                          "stopforce", "stopping", "stopped"}]
        /\ cache \in [Blocks -> Vals]
    BY DEF TypeOK, ProcsType, KernelType
  <1>3. cache' = cache => JMem' = JMem /\ JSnap' = JSnap /\ JStable' = JStable
    BY <1>1, KeptJournal DEF Seen
  <1>4. CASE Op_begin(p)
    <2>1. cache' = cache /\ pc[p] # "op" BY <1>4 DEF Op_begin
    <2>2. CASE pc' = [pc EXCEPT ![p] = "admitwait"]
      <3>1. Active' = Active BY <1>2, <2>1, <2>2, SameActive
      <3> QED BY <1>3, <2>1, <3>1, JSteps
    <2>3. CASE pc' = [pc EXCEPT ![p] = "op"]
      <3>1. p \notin Active /\ Active' = Active \cup {p} BY <1>2, <2>1, <2>3 DEF Active
      <3>2. J!Begin(p) BY <1>3, <2>1, <3>1, JSteps
      <3> QED BY <3>2 DEF J!Next
    <2> QED BY <1>4, <2>2, <2>3 DEF Op_begin
  <1>5. ASSUME NEW b \in LogBlks, NEW v \in Vals, Write(p, b, v, FALSE) PROVE [J!Next]_J!vars
    <2>1. pc' = pc /\ cache' = [cache EXCEPT ![b] = v] /\ pc[p] = "op" BY <1>5 DEF Write
    <2>2. p \in Active /\ Active' = Active BY <2>1 DEF Active
    <2>3. JSnap' = JSnap /\ JStable' = JStable BY <1>1, JState DEF Keeps
    <2>4. JMem' = [JMem EXCEPT ![b] = v]
      <3>1. \A c \in LogBlks : Seen(c)' = IF c = b THEN v ELSE Seen(c)
        BY <1>1, <1>2, <2>1 DEF Seen, Blocks
      <3> QED BY <3>1, JState
    <2>5. J!Write(p, b, v) BY <2>2, <2>3, <2>4, JSteps
    <2> QED BY <2>5 DEF J!Next
  <1>6. ASSUME NEW b \in OrdBlks, NEW v \in Vals, Write(p, b, v, TRUE) PROVE [J!Next]_J!vars
    <2>1. pc' = pc /\ cache' = [cache EXCEPT ![b] = v] BY <1>6 DEF Write
    <2>2. Active' = Active BY <2>1 DEF Active
    <2>3. \A c \in LogBlks : Seen(c)' = Seen(c) BY <1>1, <1>2, <2>1 DEF Seen, Blocks
    <2> QED BY <1>1, <2>2, <2>3, KeptJournal, JSteps
  <1>7. CASE Op_end(p)
    <2>1. cache' = cache /\ pc[p] = "op"
          /\ (pc' = [pc EXCEPT ![p] = "idle"] \/ pc' = Broadcast([pc EXCEPT ![p] = "idle"]))
      BY <1>7 DEF Op_end
    <2>2. ASSUME NEW q \in Procs PROVE pc'[q] = "op" <=> pc[q] = "op" /\ q # p
      <3>1. [pc EXCEPT ![p] = "idle"][q] = "op" <=> pc[q] = "op" /\ q # p BY <1>2
      <3> QED BY <2>1, <3>1, BroadcastActive
    <2>3. p \in Active /\ Active' = Active \ {p} BY <2>1, <2>2 DEF Active
    <2>4. J!End(p) BY <1>3, <2>1, <2>3, JSteps
    <2> QED BY <2>4 DEF J!Next
  <1>8. ASSUME NEW doapply, NEW stopping, LogForce(p, doapply, stopping) PROVE [J!Next]_J!vars
    <2>1. cache' = cache /\ pc[p] = "idle"
          /\ \E x \in {"stopping", "idle", "stopforce", "force"} : pc' = [pc EXCEPT ![p] = x]
      BY <1>8 DEF LogForce
    <2>2. Active' = Active BY <1>2, <2>1, SameActive
    <2> QED BY <1>3, <2>1, <2>2, JSteps
  <1>9. CASE StopLog(p)
    <2>1. cache' = cache /\ pc[p] = "stopping" /\ pc' = [pc EXCEPT ![p] = "stopped"]
      BY <1>9 DEF StopLog
    <2>2. Active' = Active BY <1>2, <2>1, SameActive
    <2> QED BY <1>3, <2>1, <2>2, JSteps
  <1> QED BY <1>4, <1>5, <1>6, <1>7, <1>8, <1>9 DEF Fs

\* The steps of the committer that the journal does not see.
LEMMA QuietJournal ==
    ASSUME TypeOK, LogInv, DiskInv, AtomicInv, LogBlks \cap OrdBlks = {},
           FlushCovers,
           \/ CommitterExit \/ CommitterIdle \/ CommitWrite \/ CommitFlush \/ CommitDone
           \/ ApplyFlush \/ ApplyTail \/ CommitterFinish \/ \E b \in Blocks : TransferOrdered(b)
    PROVE  [J!Next]_J!vars
  <1>1. Keeps
    BY TopAtomic, WriteAtomic, FlushAtomic, DoneAtomic, ApplyFlushAtomic, ApplyTailAtomic,
       FinishAtomic, TransferAtomic
  <1>2. cache' = cache /\ ~Down /\ ~Down'
    BY BottomState DEF CommitterExit, CommitterIdle, CommitWrite, CommitFlush, CommitDone, ApplyFlush,
       ApplyTail, CommitterFinish, TransferOrdered, AtTop, Down, DiskInv, DriveInv
  <1>3. Active' = Active
    <2>1. CASE pc' = pc BY <2>1 DEF Active
    <2>2. CASE pc' = Broadcast(pc) BY <2>2, BroadcastActive, SameActive
    <2>3. CASE pc' = forcedone
      <3>1. ASSUME NEW q \in Procs PROVE pc'[q] = "op" <=> pc[q] = "op"
        <4>1. CASE q \notin com.waiters BY <2>3, <4>1 DEF forcedone
        <4>2. CASE q \in com.waiters
          <5>1. ct \in {0, 1} BY DEF TypeOK, TransesType
          <5>2. q \in trans[0].waiters \cup trans[1].waiters BY <4>2, <5>1 DEF com
          <5>3. pc[q] \in {"force", "stopforce"} BY <5>2 DEF LogInv, WaitInv
          <5> QED BY <2>3, <4>2, <5>3 DEF forcedone
        <4> QED BY <4>1, <4>2
      <3> QED BY <3>1, SameActive
    <2>4. pc' = pc \/ pc' = Broadcast(pc) \/ pc' = forcedone
      BY DEF CommitterExit, CommitterIdle, CommitWrite, CommitFlush, CommitDone, ApplyFlush,
         ApplyTail, CommitterFinish, TransferOrdered, procVars
    <2> QED BY <2>1, <2>2, <2>3, <2>4
  <1> QED BY <1>1, <1>2, <1>3, KeptJournal, JSteps DEF Seen

LEMMA StartJournal ==
    ASSUME TypeOK, LogInv, LogInv', DiskInv, AtomicInv, CommitterStart PROVE [J!Next]_J!vars
  <1>1. /\ cur.committing /\ cache' = cache /\ (pc' = pc \/ pc' = Broadcast(pc))
        /\ cpc \in {"wake", "run"} /\ cpc' = "commit"
    BY DEF CommitterStart, AtTop
  <1>2. ~Down /\ ~Down' BY <1>1 DEF Down
  <1>3. Active = {} /\ Active' = Active
    <2>1. \A q \in Procs : pc'[q] = "op" <=> pc[q] = "op" BY <1>1, BroadcastActive
    <2> QED BY <1>1, <2>1, CommittingQuiet, SameActive
  <1>4. \A b \in LogBlks : /\ stable'[b] = stable[b] /\ Snap(b) = stable[b]
                           /\ Snap(b)' = Seen(b) /\ Seen(b)' = Seen(b)
    BY <1>1, <1>2, StartAtomic DEF Seen
  <1>5. JSnap = JStable /\ JSnap' = JMem /\ JMem' = JMem /\ JStable' = JStable
    BY <1>4, JState
  <1>6. J!Snapshot BY <1>3, <1>5, JSteps
  <1> QED BY <1>6 DEF J!Next

LEMMA HeadJournal ==
    ASSUME TypeOK, LogInv, DiskInv, AtomicInv, FlushCovers, CommitHead PROVE [J!Next]_J!vars
  <1>1. cache' = cache /\ pc' = pc /\ ~Down /\ ~Down' BY DEF CommitHead, procVars, Down
  <1>2. Active' = Active BY <1>1 DEF Active
  <1>3. \A b \in LogBlks : stable'[b] = Snap(b) /\ Snap(b)' = Snap(b) /\ Seen(b)' = Seen(b)
    BY <1>1, HeadAtomic DEF Seen
  <1>4. JStable' = JSnap /\ JSnap' = JSnap /\ JMem' = JMem BY <1>3, JState
  <1>5. J!Commit BY <1>2, <1>4, JSteps
  <1> QED BY <1>5 DEF J!Next

\* Recovery loads the cache with the stable contents.
LEMMA RecoverJournal ==
    ASSUME TypeOK, TypeOK', LogInv, DiskInv, AtomicInv, Recover \/ RecoverFlush
    PROVE  [J!Next]_J!vars
  <1>1. AtomicInv' /\ Keeps BY RecoverAtomic, RecoverFlushAtomic
  <1>2. /\ pc' = pc /\ Down /\ cpc' \in {"recover", "wake"} /\ curtrans' = curtrans
        /\ cpc' = "wake" => \E n : trans' = [i \in {0, 1} |-> mk_trans(n)]
    BY DEF Recover, RecoverFlush, StartLog, Down, procVars
  <1>3. Active' = Active BY <1>2 DEF Active
  <1>4. ASSUME NEW b \in LogBlks PROVE Seen(b)' = Seen(b)
    <2>1. stable'[b] = stable[b] /\ Snap(b)' = stable'[b]
      BY <1>1, <1>2 DEF Keeps, Snap, Pre
    <2>2. CASE cpc' = "recover" BY <1>2, <2>1, <2>2 DEF Seen, Down
    <2>3. CASE cpc' = "wake"
      <3>1. ~Down' /\ CacheInv' BY <1>1, <2>3 DEF Down, AtomicInv
      <3>2. cur'.logged = {}
        <4>1. curtrans' \in {0, 1} BY <1>2 DEF TypeOK, TransesType
        <4> QED BY <1>2, <2>3, <4>1, FreshTrans DEF cur
      <3>3. cache'[b] = Snap(b)' BY <3>1, <3>2 DEF CacheInv
      <3> QED BY <1>2, <2>1, <3>1, <3>3 DEF Seen
    <2> QED BY <1>2, <2>2, <2>3
  <1> QED BY <1>1, <1>3, <1>4, KeptJournal, JSteps

LEMMA CrashJournal ==
    ASSUME TypeOK, LogInv, DiskInv, AtomicInv, LogBlks \cap OrdBlks = {}, ~CrashInRecovery, Crash
    PROVE  [J!Next]_J!vars
  <1>1. cpc # "recover" /\ cpc' = "boot" /\ pc' = [q \in Procs |-> "idle"] BY DEF Crash
  <1>2. Down' /\ Active' = {} BY <1>1 DEF Down, Active
  <1>3. \/ \A b \in LogBlks : stable'[b] = stable[b]
        \/ \A b \in LogBlks : stable'[b] = Snap(b)
    BY <1>1, CrashKeeps
  <1>4. \A b \in LogBlks : Snap(b)' = stable'[b] /\ Seen(b)' = stable'[b]
    BY <1>2, CrashAtomic DEF Seen
  <1>5. JStable' \in {JStable, JSnap} /\ JMem' = JStable' /\ JSnap' = JStable'
    <2>1. JMem' = JStable' /\ JSnap' = JStable' BY <1>4, JState
    <2>2. JStable' = JStable \/ JStable' = JSnap BY <1>3, JState
    <2> QED BY <2>1, <2>2
  <1>6. J!Crash BY <1>2, <1>5, JSteps
  <1> QED BY <1>6 DEF J!Next

LEMMA NextJournal ==
    ASSUME TypeOK, TypeOK', LogInv, LogInv', DiskInv, AtomicInv, LogBlks \cap OrdBlks = {},
           ~CrashInRecovery, FlushCovers, [Next]_vars
    PROVE  [J!Next]_J!vars
  <1>1. CASE \E p \in Procs : Fs(p) BY <1>1, FsJournal
  <1>2. CASE Committer
    BY <1>2, QuietJournal, StartJournal, HeadJournal, RecoverJournal DEF Committer
  <1>3. CASE Crash BY <1>3, CrashJournal
  <1>4. CASE UNCHANGED vars
    <2>1. pc' = pc /\ cache' = cache /\ stable' = stable /\ cpc' = cpc /\ Keeps
      BY <1>4, StutterAtomic DEF vars, procVars, diskVars
    <2>2. Active' = Active /\ \A b \in LogBlks : Seen(b)' = Seen(b)
      BY <2>1 DEF Active, Seen, Down
    <2> QED BY <2>1, <2>2, KeptJournal, JSteps
  <1> QED BY <1>1, <1>2, <1>3, <1>4 DEF Next

\* The log implements the journal: whatever a crash interrupts short of
\* recovery itself, the operations on logged blocks are atomic.
THEOREM OperationsAreAtomic ==
    ASSUME OpWrites < MaxBlkPerOp, LogBlks \cap OrdBlks = {}, ~CrashInRecovery
    PROVE  Spec /\ [][FlushCovers]_vars => AtomicOps
  <1>1. Init => J!Init BY InitJournal
  <1>2. TypeOK /\ TypeOK' /\ LogInv /\ LogInv' /\ DiskInv /\ AtomicInv
          /\ [Next]_vars /\ [FlushCovers]_vars
          => [J!Next]_J!vars
    BY NextJournal, CoversStep
  <1> QED BY <1>1, <1>2, TypeCorrect, LogInvariant, DiskInvariant, AtomicInvariant, PTL
       DEF Spec, AtomicOps, J!Spec
==============================================================================
