------------------------------ MODULE ProcProofs -------------------------------
(***************************************************************************)
(* Proofs about Proc, for any number of processes and threads: a wait      *)
(* reports an exit once and when it is final, and nobody sleeps in wait    *)
(* who has been killed or has a status to collect.                         *)
(***************************************************************************)
EXTENDS Proc, WellFoundedInduction, TLAPS

-------------------------------------------------------------------------------
(***************************************************************************)
(* The inductive invariant.                                                *)
(***************************************************************************)
\* The list of statuses of p's children (b) or threads.
WList(p, b) == IF b THEN proc[p].pwait ELSE proc[p].twait
Listed(i) == \E p \in Ids, b \in BOOLEAN : \E k \in DOMAIN WList(p, b) : WList(p, b)[k].id = i

\* A thread that is about to enter a new id in a list.
Pending(t) == thr[t].pc \in {"procnew", "forked", "newtid"}
NewId(t)   == IF thr[t].pc = "newtid" THEN thr[t].tid ELSE thr[t].tgt

\* An id is on a list once, and never again after it has been reaped.
ListsInv ==
    /\ \A p, q \in Ids, b, c \in BOOLEAN :
         \A j \in DOMAIN WList(p, b), k \in DOMAIN WList(q, c) :
             WList(p, b)[j].id = WList(q, c)[k].id => p = q /\ b = c /\ j = k
    /\ \A i \in Ids : Listed(i) => i <= apid /\ reaped[i] = 0
    /\ \A i \in Ids : reaped[i] <= 1 /\ (i > apid => reaped[i] = 0)
    /\ \A t \in Ids : Pending(t) => /\ NewId(t) \in 1 .. apid /\ ~Listed(NewId(t))
                                    /\ reaped[NewId(t)] = 0
    /\ \A t, u \in Ids : Pending(t) /\ Pending(u) /\ t # u => NewId(t) # NewId(u)

\* Threads that have the note of a thread, their own or one that does not run.
Creates == {"procnew", "forked", "vmfork", "newtid"}
Ends    == {"puttid", "term", "putpid", "del"}
Holds   == Creates \cup Ends \cup {"dead"}

\* A thread's note is in its process until Thread_dead has removed it.
Ending(t) == thr[t].pc = "exit" \/ (thr[t].pc \in Ends /\ thr[t].tid = t)
Alive(t)  == thr[t].pc \notin {"none", "gone"} /\ ~Ending(t)

ThreadOK(t) ==
    /\ thr[t].pc # "none" => t <= apid
    /\ thr[t].pc \notin {"none", "gone"} => thr[t].p \in 1 .. apid
    /\ Alive(t) => t \in proc[thr[t].p].notes
    /\ Ending(t) => t \notin proc[thr[t].p].notes
    /\ thr[t].pc \in {"doom", "mark"} =>
         thr[t].tgt \in Ids /\ (thr[t].tid # None => thr[t].tid = t /\ thr[t].tgt = thr[t].p)
    /\ thr[t].pc \in Holds => /\ thr[t].tgt \in 1 .. apid /\ thr[t].tid \in 1 .. apid
                              /\ thr[t].tid = t => thr[t].tgt = thr[t].p
                              /\ thr[t].tid # t => thr[thr[t].tid].pc = "none"
    /\ thr[t].pc \in Creates => thr[t].tid # t
    /\ thr[t].pc \in Creates \cup {"dead"} => thr[t].tid \in proc[thr[t].tgt].notes
    /\ thr[t].pc = "newtid" => thr[t].tgt = thr[t].p
    /\ thr[t].pc \in {"putpid", "del"} => proc[thr[t].tgt].freed

ThreadsInv ==
    /\ \A t \in Ids : ThreadOK(t)
    /\ \A t, u \in Ids : thr[t].pc \in Holds /\ thr[u].pc \in Holds /\ t # u =>
                           thr[t].tid # thr[u].tid

NotesInv ==
    /\ \A p \in Ids : \A x \in proc[p].notes : x <= apid /\ (thr[x].pc = "none" \/ thr[x].p = p)
    /\ \A p, q \in Ids : p # q => proc[p].notes \cap proc[q].notes = {}
    /\ \A p \in Ids : proc[p].freed => proc[p].notes = {}

ExitInv ==
    \A p \in Ids : \A k \in DOMAIN proc[p].pwait :
        proc[p].pwait[k].valid => /\ proc[proc[p].pwait[k].id].freed
                                  /\ proc[p].pwait[k].status = proc[proc[p].pwait[k].id].status

OomInv ==
    /\ oom.pc # "idle" => oom.msg \in Ids
    /\ oom.pc \in {"doom", "mark", "wait"} => oom.vic \in Ids

IInv == TypeOK /\ ListsInv /\ ThreadsInv /\ NotesInv /\ ExitInv /\ SleepsForAReason /\ OomInv

-------------------------------------------------------------------------------
(***************************************************************************)
(* Types and operators.                                                    *)
(***************************************************************************)
\* Ids are positive numbers.
LEMMA IdsFacts == Ids \subseteq Nat /\ None \notin Ids /\ Any \notin Ids /\ Root \in Ids /\ 2 \in Ids
BY ProcAssumption DEF Ids, None, Any, Root

\* The fields of processes and threads.
LEMMA Fields ==
    ASSUME TypeOK
    PROVE  /\ apid \in Ids /\ apid \in Nat /\ 1 .. apid \subseteq Ids
           /\ \A p \in Ids : /\ proc[p] \in Procs /\ proc[p].notes \subseteq Ids
                             /\ proc[p].pwait \in Lists /\ proc[p].twait \in Lists
                             /\ proc[p].freed \in BOOLEAN /\ proc[p].status \in Statuses
           /\ \A t \in Ids : /\ thr[t] \in Thrs /\ thr[t].pc \in Places
                             /\ thr[t].p \in Ids \cup {None} /\ thr[t].tgt \in Ids \cup {None}
                             /\ thr[t].tid \in Ids \cup {None} /\ thr[t].isproc \in BOOLEAN
                             /\ thr[t].id \in Ids \cup {None, Any} /\ thr[t].killed \in BOOLEAN
           /\ \A i \in Ids : reaped[i] \in Nat
<1>1. apid \in Ids /\ apid \in Nat /\ 1 .. apid \subseteq Ids
  BY ProcAssumption DEF TypeOK, Ids
<1>2. \A p \in Ids : /\ proc[p] \in Procs /\ proc[p].notes \subseteq Ids
                     /\ proc[p].pwait \in Lists /\ proc[p].twait \in Lists
                     /\ proc[p].freed \in BOOLEAN /\ proc[p].status \in Statuses
  BY DEF TypeOK, Procs
<1>3. \A t \in Ids : /\ thr[t] \in Thrs /\ thr[t].pc \in Places
                     /\ thr[t].p \in Ids \cup {None} /\ thr[t].tgt \in Ids \cup {None}
                     /\ thr[t].tid \in Ids \cup {None} /\ thr[t].isproc \in BOOLEAN
                     /\ thr[t].id \in Ids \cup {None, Any} /\ thr[t].killed \in BOOLEAN
  BY DEF TypeOK, Thrs
<1>4. \A i \in Ids : reaped[i] \in Nat
  BY DEF TypeOK
<1> QED BY <1>1, <1>2, <1>3, <1>4

\* Sequences.
LEMMA Elements ==
    ASSUME NEW B, NEW q \in Seq(B)
    PROVE  Len(q) \in Nat /\ DOMAIN q = 1 .. Len(q) /\ \A k \in DOMAIN q : q[k] \in B
OBVIOUS

\* A function on 1 .. n is a sequence.
LEMMA IsSeq ==
    ASSUME NEW B, NEW n \in Nat, NEW f, f = [k \in 1 .. n |-> f[k]], \A k \in 1 .. n : f[k] \in B
    PROVE  f \in Seq(B)
OBVIOUS

\* Concatenation.
LEMMA Concat ==
    ASSUME NEW B, NEW a \in Seq(B), NEW b \in Seq(B)
    PROVE  /\ a \o b \in Seq(B) /\ Len(a \o b) = Len(a) + Len(b)
           /\ \A j \in 1 .. Len(a) : (a \o b)[j] = a[j]
           /\ \A j \in Len(a) + 1 .. Len(a) + Len(b) : (a \o b)[j] = b[j - Len(a)]
OBVIOUS

\* A list, and its elements.
LEMMA ListFacts ==
    ASSUME NEW l \in Lists
    PROVE  /\ Len(l) \in Nat /\ DOMAIN l = 1 .. Len(l)
           /\ \A k \in DOMAIN l : /\ l[k] \in [id : Ids, valid : BOOLEAN, status : Statuses]
                                  /\ l[k].id \in Ids /\ l[k].valid \in BOOLEAN
<1> DEFINE E == [id : Ids, valid : BOOLEAN, status : Statuses]
<1>1. l \in Seq(E)
  BY DEF Lists
<1> HIDE DEF E
<1>2. Len(l) \in Nat /\ DOMAIN l = 1 .. Len(l) /\ \A k \in DOMAIN l : l[k] \in E
  BY <1>1, Elements
<1>3. \A e \in E : e.id \in Ids /\ e.valid \in BOOLEAN
  BY DEF E
<1> QED BY <1>2, <1>3 DEF E

\* wpush puts an entry in front.
Pushed(l, i) == <<Entry(i)>> \o l

\* Its elements.
LEMMA PushFacts ==
    ASSUME NEW l \in Lists, NEW i \in Ids
    PROVE  /\ Pushed(l, i) \in Lists /\ DOMAIN Pushed(l, i) = 1 .. Len(l) + 1
           /\ Pushed(l, i)[1].id = i /\ ~Pushed(l, i)[1].valid
           /\ \A k \in DOMAIN l : k + 1 \in DOMAIN Pushed(l, i) /\ Pushed(l, i)[k + 1] = l[k]
           /\ \A k \in DOMAIN Pushed(l, i) :
                k = 1 \/ (k - 1 \in DOMAIN l /\ Pushed(l, i)[k] = l[k - 1])
<1> DEFINE e == Entry(i)
           m == <<e>> \o l
           E == [id : Ids, valid : BOOLEAN, status : Statuses]
<1>1. e \in E /\ e.id = i /\ ~e.valid
  BY ProcAssumption DEF Entry
<1>2. l \in Seq(E) /\ Len(l) \in Nat /\ DOMAIN l = 1 .. Len(l)
  BY DEF Lists
<1> HIDE DEF e, E
<1>3. /\ m \in Seq(E) /\ Len(m) = Len(l) + 1 /\ DOMAIN m = 1 .. Len(m) /\ m[1] = e
      /\ \A k \in DOMAIN m : k # 1 => m[k] = l[k - 1]
  BY <1>1, <1>2
<1>4. m \in Lists
  BY <1>3 DEF Lists, E
<1> HIDE DEF m
<1>5. \A k \in DOMAIN l : k + 1 \in DOMAIN m /\ m[k + 1] = l[k]
  BY <1>2, <1>3
<1>6. \A k \in DOMAIN m : k = 1 \/ (k - 1 \in DOMAIN l /\ m[k] = l[k - 1])
  BY <1>2, <1>3
<1> QED BY <1>1, <1>3, <1>4, <1>5, <1>6 DEF m, e, Pushed

\* wremove takes one entry out.
LEMMA RemoveFacts ==
    ASSUME NEW l \in Lists, NEW k \in DOMAIN l
    PROVE  LET m == wremove(l, k)
           IN  /\ m \in Lists
               /\ \A j \in DOMAIN m : j < k => j \in DOMAIN l /\ m[j] = l[j]
               /\ \A j \in DOMAIN m : ~(j < k) => j + 1 \in DOMAIN l /\ m[j] = l[j + 1]
               /\ \A j \in DOMAIN l : j < k => j \in DOMAIN m /\ m[j] = l[j]
               /\ \A j \in DOMAIN l : k < j => j - 1 \in DOMAIN m /\ m[j - 1] = l[j]
<1> DEFINE E == [id : Ids, valid : BOOLEAN, status : Statuses]
           a == SubSeq(l, 1, k - 1)
           b == SubSeq(l, k + 1, Len(l))
           m == a \o b
<1>1. l \in Seq(E) /\ Len(l) \in Nat /\ DOMAIN l = 1 .. Len(l) /\ k \in 1 .. Len(l)
  BY DEF Lists
<1> HIDE DEF E
<1>2. a \in Seq(E) /\ Len(a) = k - 1 /\ \A j \in 1 .. k - 1 : a[j] = l[j]
  BY <1>1
<1>3. b \in Seq(E) /\ Len(b) = Len(l) - k /\ \A j \in 1 .. Len(l) - k : b[j] = l[j + k]
  BY <1>1
<1> HIDE DEF a, b
<1>4. /\ m \in Seq(E) /\ Len(m) = Len(l) - 1 /\ DOMAIN m = 1 .. Len(l) - 1
      /\ \A j \in 1 .. k - 1 : m[j] = a[j]
      /\ \A j \in k .. Len(l) - 1 : m[j] = b[j - (k - 1)]
  <2>1. /\ m \in Seq(E) /\ Len(m) = Len(a) + Len(b)
        /\ \A j \in 1 .. Len(a) : m[j] = a[j]
        /\ \A j \in Len(a) + 1 .. Len(a) + Len(b) : m[j] = b[j - Len(a)]
    BY <1>2, <1>3, Concat
  <2> HIDE DEF m
  <2>2. DOMAIN m = 1 .. Len(m)
    BY <2>1, Elements
  <2>3. Len(m) = Len(l) - 1
    BY <1>1, <1>2, <1>3, <2>1
  <2>4. 1 .. k - 1 = 1 .. Len(a) /\ k .. Len(l) - 1 = Len(a) + 1 .. Len(a) + Len(b)
    BY <1>1, <1>2, <1>3
  <2>5. \A j \in k .. Len(l) - 1 : m[j] = b[j - (k - 1)]
    BY <1>2, <2>1, <2>4
  <2> QED BY <2>1, <2>2, <2>3, <2>4, <2>5
<1>5. m = wremove(l, k)
  BY DEF wremove, a, b
<1> HIDE DEF m
<1>6. \A j \in DOMAIN m : j < k => j \in DOMAIN l /\ m[j] = l[j]
  BY <1>1, <1>2, <1>4
<1>7. \A j \in DOMAIN m : ~(j < k) => j + 1 \in DOMAIN l /\ m[j] = l[j + 1]
  <2> SUFFICES ASSUME NEW j \in DOMAIN m, ~(j < k) PROVE j + 1 \in DOMAIN l /\ m[j] = l[j + 1]
    OBVIOUS
  <2>1. j \in k .. Len(l) - 1 /\ j - (k - 1) \in 1 .. Len(l) - k
    BY <1>1, <1>4
  <2>2. b[j - (k - 1)] = l[(j - (k - 1)) + k]
    BY <1>3, <2>1
  <2>3. (j - (k - 1)) + k = j + 1 /\ j + 1 \in 1 .. Len(l)
    BY <1>1, <2>1
  <2>4. m[j] = b[j - (k - 1)]
    BY <1>4, <2>1
  <2> QED BY <1>1, <2>2, <2>3, <2>4
<1>8. \A j \in DOMAIN l : j < k => j \in DOMAIN m /\ m[j] = l[j]
  <2> SUFFICES ASSUME NEW j \in DOMAIN l, j < k PROVE j \in DOMAIN m /\ m[j] = l[j]
    OBVIOUS
  <2>1. j \in 1 .. k - 1 /\ j \in 1 .. Len(l) - 1
    BY <1>1
  <2> QED BY <1>2, <1>4, <2>1
<1>9. \A j \in DOMAIN l : k < j => j - 1 \in DOMAIN m /\ m[j - 1] = l[j]
  <2> SUFFICES ASSUME NEW j \in DOMAIN l, k < j PROVE j - 1 \in DOMAIN m /\ m[j - 1] = l[j]
    OBVIOUS
  <2>1. j - 1 \in DOMAIN m /\ ~(j - 1 < k) /\ (j - 1) + 1 = j
    BY <1>1, <1>4
  <2> QED BY <1>7, <2>1
<1>10. m \in Lists
  BY <1>4 DEF Lists, E
<1> QED BY <1>5, <1>6, <1>7, <1>8, <1>9, <1>10

\* _put keeps the ids and changes the entries of one.
LEMMA PutFacts ==
    ASSUME NEW l \in Lists, NEW i, NEW st \in Statuses
    PROVE  /\ Put(l, i, st) \in Lists /\ DOMAIN Put(l, i, st) = DOMAIN l
           /\ \A k \in DOMAIN l :
                /\ Put(l, i, st)[k].id = l[k].id
                /\ l[k].id # i => Put(l, i, st)[k] = l[k]
                /\ l[k].id = i => Put(l, i, st)[k].status = st
<1> DEFINE E == [id : Ids, valid : BOOLEAN, status : Statuses]
           m == Put(l, i, st)
<1>1. Len(l) \in Nat /\ DOMAIN l = 1 .. Len(l) /\ \A k \in DOMAIN l : l[k] \in E
  BY ListFacts
<1>2. m = [k \in DOMAIN l |-> IF l[k].id = i THEN [l[k] EXCEPT !.valid = TRUE, !.status = st] ELSE l[k]]
  BY DEF Put
<1> HIDE DEF m
<1>3. \A k \in DOMAIN l : m[k] \in E /\ m[k].id = l[k].id /\ (l[k].id # i => m[k] = l[k])
                          /\ (l[k].id = i => m[k].status = st)
  BY <1>1, <1>2
<1> HIDE DEF E
<1>4. m \in Seq(E) /\ DOMAIN m = DOMAIN l
  <2>1. m = [k \in 1 .. Len(l) |-> m[k]] /\ DOMAIN m = DOMAIN l
    BY <1>1, <1>2
  <2> QED BY <1>1, <1>3, <2>1, IsSeq
<1>5. m \in Lists
  BY <1>4 DEF Lists, E
<1> QED BY <1>3, <1>4, <1>5 DEF m

\* A thread whose locals are out of scope.
LEMMA HomeFacts ==
    ASSUME NEW r \in Thrs, NEW place \in Places
    PROVE  /\ Home(r, place) \in Thrs /\ Home(r, place).p = r.p /\ Home(r, place).pc = place
           /\ Home(r, place).killed = r.killed
<1>1. 0 \in Statuses
  BY ProcAssumption
<1>2. r.p \in Ids \cup {None} /\ r.killed \in BOOLEAN /\ r.cur \in BOOLEAN
  BY DEF Thrs
<1>3. NullThr \in Thrs
  BY <1>1 DEF NullThr, Thrs, Places
<1> DEFINE n1 == [NullThr EXCEPT !.p = r.p]
           n2 == [n1 EXCEPT !.killed = r.killed]
           n3 == [n2 EXCEPT !.cur = r.cur]
           n4 == [n3 EXCEPT !.pc = place]
<1>4. n1 \in Thrs /\ n1.p = r.p
  BY <1>2, <1>3 DEF Thrs
<1> HIDE DEF n1
<1>5. n2 \in Thrs /\ n2.p = r.p /\ n2.killed = r.killed
  BY <1>2, <1>4 DEF Thrs
<1> HIDE DEF n2
<1>6. n3 \in Thrs /\ n3.p = r.p /\ n3.killed = r.killed
  BY <1>2, <1>5 DEF Thrs
<1> HIDE DEF n3
<1>7. n4 \in Thrs /\ n4.p = r.p /\ n4.killed = r.killed /\ n4.pc = place
  BY <1>6 DEF Thrs
<1>8. Home(r, place) = n4
  BY DEF Home, n1, n2, n3
<1> QED BY <1>7, <1>8

-------------------------------------------------------------------------------
(***************************************************************************)
(* What steps keep.                                                        *)
(***************************************************************************)
\* A thread that does not move; a broadcast may wake it, a kill may mark it.
Like(u) ==
    /\ thr'[u].p = thr[u].p /\ thr'[u].tgt = thr[u].tgt /\ thr'[u].tid = thr[u].tid
    /\ thr'[u].id = thr[u].id /\ thr'[u].isproc = thr[u].isproc
    /\ thr'[u].pc = thr[u].pc \/ (thr[u].pc = "asleep" /\ thr'[u].pc = "awake")
    /\ thr'[u].pc = "asleep" => thr'[u].killed = thr[u].killed

\* The notes of processes, but for x, which may go.
NotesKept(x) ==
    \A p \in 1 .. apid :
        /\ \A z \in 1 .. apid : z # x => (z \in proc'[p].notes <=> z \in proc[p].notes)
        /\ x \in proc'[p].notes => x \in proc[p].notes

FreedKept == \A p \in 1 .. apid : proc[p].freed => proc'[p].freed

\* The threads that do not move.
LEMMA OthersOK ==
    ASSUME IInv, TypeOK', NEW C \in SUBSET Ids, NEW x, apid <= apid',
           \A u \in Ids \ C : Like(u), NotesKept(x), FreedKept,
           x # None => \E c \in C : thr[c].pc \in Holds /\ thr[c].tid = x,
           \A c \in C : \/ thr[c].pc # "none"
                        \/ \E d \in C : thr[d].pc \in Holds /\ thr[d].tid = c
    PROVE  \A u \in Ids \ C : ThreadOK(u)'
<1> SUFFICES ASSUME NEW u \in Ids \ C PROVE ThreadOK(u)'
  OBVIOUS
<1>1. /\ thr'[u].p = thr[u].p /\ thr'[u].tgt = thr[u].tgt /\ thr'[u].tid = thr[u].tid
      /\ thr'[u].pc = thr[u].pc \/ (thr[u].pc = "asleep" /\ thr'[u].pc = "awake")
  BY DEF Like
<1>2. ThreadOK(u)
  BY DEF IInv, ThreadsInv
<1>3. /\ \A S \in {{"none"}, {"none", "gone"}, Holds, Creates, Creates \cup {"dead"},
                    {"doom", "mark"}, {"putpid", "del"}, Ends, {"newtid"}, {"exit"}} :
            thr'[u].pc \in S <=> thr[u].pc \in S
  BY <1>1 DEF Holds, Creates, Ends
<1>4. apid \in Nat /\ apid' \in Nat /\ u \in Nat /\ 1 .. apid \subseteq 1 .. apid'
  <2>1. apid \in Nat /\ apid' \in Nat /\ u \in Nat
    BY IdsFacts, Fields DEF IInv, TypeOK
  <2> QED BY <2>1
<1>5. (Alive(u)' <=> Alive(u)) /\ (Ending(u)' <=> Ending(u))
  BY <1>1, <1>3 DEF Alive, Ending
<1>6. x = u => thr[u].pc = "none"
  <2>1. None # u
    BY IdsFacts
  <2>2. ASSUME x = u PROVE thr[u].pc = "none"
    <3>1. PICK c \in C : thr[c].pc \in Holds /\ thr[c].tid = u
      BY <2>1, <2>2
    <3>2. ThreadOK(c) /\ u # c
      BY DEF IInv, ThreadsInv
    <3> QED BY <3>1, <3>2 DEF ThreadOK
  <2> QED BY <2>2
<1>7. thr[u].pc \in Holds => thr[u].tid # x
  <2> SUFFICES ASSUME thr[u].pc \in Holds, thr[u].tid = x PROVE FALSE
    OBVIOUS
  <2>1. x # None
    BY <1>2, IdsFacts, Fields DEF ThreadOK, IInv
  <2>2. PICK c \in C : thr[c].pc \in Holds /\ thr[c].tid = x
    BY <2>1
  <2> QED BY <2>2 DEF IInv, ThreadsInv
<1>8. Alive(u)' => u \in proc'[thr'[u].p].notes
  <2> SUFFICES ASSUME Alive(u) PROVE u \in proc'[thr[u].p].notes
    BY <1>1, <1>5
  <2>1. u \in proc[thr[u].p].notes /\ thr[u].p \in 1 .. apid /\ u \in 1 .. apid /\ u # x
    <3>1. thr[u].pc # "none" /\ thr[u].pc \notin {"none", "gone"}
      BY DEF Alive
    <3>2. u >= 1
      BY DEF Ids
    <3> QED BY <1>2, <1>4, <1>6, <3>1, <3>2 DEF ThreadOK
  <2> QED BY <2>1 DEF NotesKept
<1>9. Ending(u)' => u \notin proc'[thr'[u].p].notes
  <2> SUFFICES ASSUME Ending(u) PROVE u \notin proc'[thr[u].p].notes
    BY <1>1, <1>5
  <2>1. thr[u].pc \notin {"none", "gone"}
    BY DEF Ending, Ends
  <2>2. u \notin proc[thr[u].p].notes /\ thr[u].p \in 1 .. apid /\ u \in 1 .. apid
    <3>1. u >= 1
      BY DEF Ids
    <3> QED BY <1>2, <1>4, <2>1, <3>1 DEF ThreadOK
  <2>3. CASE u = x
    BY <2>2, <2>3 DEF NotesKept
  <2>4. CASE u # x
    BY <2>2, <2>4 DEF NotesKept
  <2> QED BY <2>3, <2>4
<1>10. thr[u].pc \in Holds /\ thr[u].tid # u => thr'[thr[u].tid].pc = "none"
  <2> SUFFICES ASSUME thr[u].pc \in Holds, thr[u].tid # u PROVE thr'[thr[u].tid].pc = "none"
    OBVIOUS
  <2>1. thr[u].tid \in Ids /\ thr[thr[u].tid].pc = "none"
    BY <1>2, Fields DEF ThreadOK, IInv
  <2>2. thr[u].tid \notin C
    <3> SUFFICES ASSUME thr[u].tid \in C PROVE FALSE
      OBVIOUS
    <3>1. PICK d \in C : thr[d].pc \in Holds /\ thr[d].tid = thr[u].tid
      BY <2>1
    <3> QED BY <3>1 DEF IInv, ThreadsInv
  <2> QED BY <2>1, <2>2 DEF Like
<1>11. thr[u].pc \in Creates \cup {"dead"} => thr[u].tid \in proc'[thr[u].tgt].notes
  <2> SUFFICES ASSUME thr[u].pc \in Creates \cup {"dead"} PROVE thr[u].tid \in proc'[thr[u].tgt].notes
    OBVIOUS
  <2>1. thr[u].pc \in Holds
    BY DEF Holds
  <2>2. /\ thr[u].tid \in proc[thr[u].tgt].notes /\ thr[u].tgt \in 1 .. apid
        /\ thr[u].tid \in 1 .. apid /\ thr[u].tid # x
    BY <1>2, <1>7, <2>1 DEF ThreadOK
  <2> QED BY <2>2 DEF NotesKept
<1>12. thr[u].pc \in {"putpid", "del"} => proc'[thr[u].tgt].freed
  <2>1. thr[u].pc \in {"putpid", "del"} => thr[u].pc \in Holds
    BY DEF Holds, Ends
  <2> QED BY <1>2, <2>1 DEF ThreadOK, FreedKept
<1>13. thr'[u].pc # "none" => u <= apid'
  BY <1>1, <1>2, <1>4 DEF ThreadOK
<1>14. thr'[u].pc \notin {"none", "gone"} => thr'[u].p \in 1 .. apid'
  BY <1>1, <1>2, <1>4 DEF ThreadOK
<1>15. thr'[u].pc \in {"doom", "mark"} =>
         thr'[u].tgt \in Ids /\ (thr'[u].tid # None => thr'[u].tid = u /\ thr'[u].tgt = thr'[u].p)
  BY <1>1, <1>2 DEF ThreadOK
<1>16. thr'[u].pc \in Holds => /\ thr'[u].tgt \in 1 .. apid' /\ thr'[u].tid \in 1 .. apid'
                               /\ thr'[u].tid = u => thr'[u].tgt = thr'[u].p
                               /\ thr'[u].tid # u => thr'[thr'[u].tid].pc = "none"
  BY <1>1, <1>2, <1>3, <1>4, <1>10 DEF ThreadOK
<1>17. /\ thr'[u].pc \in Creates => thr'[u].tid # u
       /\ thr'[u].pc \in Creates \cup {"dead"} => thr'[u].tid \in proc'[thr'[u].tgt].notes
  BY <1>1, <1>2, <1>3, <1>11 DEF ThreadOK
<1>18. /\ thr'[u].pc = "newtid" => thr'[u].tgt = thr'[u].p
       /\ thr'[u].pc \in {"putpid", "del"} => proc'[thr'[u].tgt].freed
  BY <1>1, <1>2, <1>12 DEF ThreadOK
<1> QED BY <1>8, <1>9, <1>13, <1>14, <1>15, <1>16, <1>17, <1>18 DEF ThreadOK

\* All threads: those in C move.
LEMMA ThreadsStep ==
    ASSUME IInv, TypeOK', NEW C \in SUBSET Ids, NEW x, apid <= apid',
           \A u \in Ids \ C : Like(u), NotesKept(x), FreedKept,
           x # None => \E c \in C : thr[c].pc \in Holds /\ thr[c].tid = x,
           \A c \in C : \/ thr[c].pc # "none"
                        \/ \E d \in C : thr[d].pc \in Holds /\ thr[d].tid = c,
           \A c \in C : ThreadOK(c)',
           \A c \in C : thr'[c].pc \in Holds =>
               /\ thr[c].pc # "none"
               /\ \/ thr[c].pc \in Holds /\ thr'[c].tid = thr[c].tid
                  \/ thr'[c].tid = c
                  \/ thr'[c].tid > apid,
           \A c, d \in C : c # d => ~(thr'[c].pc \in Holds /\ thr'[d].pc \in Holds)
    PROVE  ThreadsInv'
<1>1. \A u \in Ids \ C : ThreadOK(u)'
  BY OthersOK
<1>2. \A u \in Ids : ThreadOK(u)'
  BY <1>1
<1>3. \A u \in Ids \ C : thr'[u].tid = thr[u].tid /\ (thr'[u].pc \in Holds => thr[u].pc \in Holds)
  BY DEF Like, Holds, Creates, Ends
<1>4. ASSUME NEW u \in Ids \ C, NEW c \in C, thr'[u].pc \in Holds, thr'[c].pc \in Holds
      PROVE  thr'[u].tid # thr'[c].tid
  <2>1. thr[u].pc \in Holds /\ thr'[u].tid = thr[u].tid /\ u # c /\ ThreadOK(u)
    BY <1>3, <1>4 DEF IInv, ThreadsInv
  <2>2. CASE thr[c].pc \in Holds /\ thr'[c].tid = thr[c].tid
    BY <2>1, <2>2 DEF IInv, ThreadsInv
  <2>3. CASE thr'[c].tid = c
    BY <1>4, <2>1, <2>3 DEF ThreadOK
  <2>4. CASE thr'[c].tid > apid
    <3>1. thr[u].tid \in 1 .. apid /\ apid \in Nat
      BY <2>1, Fields DEF ThreadOK, IInv
    <3> QED BY <2>1, <2>4, <3>1
  <2> QED BY <1>4, <2>2, <2>3, <2>4
<1>5. ASSUME NEW t \in Ids, NEW u \in Ids, thr'[t].pc \in Holds, thr'[u].pc \in Holds, t # u
      PROVE  thr'[t].tid # thr'[u].tid
  <2>1. CASE t \in C /\ u \in C
    BY <1>5, <2>1
  <2>2. CASE t \notin C /\ u \in C
    BY <1>4, <1>5, <2>2
  <2>3. CASE t \in C /\ u \notin C
    BY <1>4, <1>5, <2>3
  <2>4. CASE t \notin C /\ u \notin C
    BY <1>3, <1>5, <2>4 DEF IInv, ThreadsInv
  <2> QED BY <2>1, <2>2, <2>3, <2>4
<1> QED BY <1>2, <1>5 DEF ThreadsInv

\* The lists: x is the id that is entered, y the one that is reaped.
UniqueIds ==
    \A p, q \in Ids, b, c \in BOOLEAN :
        \A j \in DOMAIN WList(p, b), k \in DOMAIN WList(q, c) :
            WList(p, b)[j].id = WList(q, c)[k].id => p = q /\ b = c /\ j = k

ListsChange(x, y) ==
    /\ UniqueIds' /\ \A i \in Ids : Listed(i)' => Listed(i) \/ i = x
    /\ x \in Ids => /\ x <= apid' /\ ~Listed(x) /\ reaped[x] = 0 /\ x # y
                    /\ \A u \in Ids : Pending(u)' => NewId(u)' # x
    /\ \A i \in Ids : reaped'[i] = reaped[i] \/ (i = y /\ reaped'[i] = reaped[i] + 1)
    /\ y \in Ids => Listed(y) /\ ~Listed(y)'
    /\ \A u \in Ids : Pending(u)' => \/ Pending(u) /\ NewId(u)' = NewId(u)
                                     \/ NewId(u)' \in apid + 1 .. apid'
    /\ \A t, u \in Ids : Pending(t)' /\ Pending(u)' /\ t # u =>
         \/ NewId(t)' # NewId(u)'
         \/ (Pending(t) /\ Pending(u) /\ NewId(t)' = NewId(t) /\ NewId(u)' = NewId(u))

\* The lists after such a step.
LEMMA ListsStep ==
    ASSUME IInv, TypeOK', NEW x, NEW y, apid <= apid', ListsChange(x, y)
    PROVE  ListsInv'
<1> USE DEF ListsChange
<1>0. apid \in Nat /\ apid' \in Nat /\ Ids \subseteq Nat /\ apid' \in Ids /\ \A i \in Ids : reaped[i] \in Nat /\ 1 <= i
  <2>1. apid \in Nat /\ Ids \subseteq Nat /\ apid' \in Ids /\ \A i \in Ids : reaped[i] \in Nat
    BY IdsFacts, Fields DEF IInv, TypeOK
  <2> QED BY <2>1 DEF Ids
<1>1. ASSUME NEW i \in Ids, Listed(i)' PROVE i <= apid' /\ reaped'[i] = 0
  <2>1. i # y
    BY <1>1
  <2>2. reaped'[i] = reaped[i]
    BY <2>1
  <2>3. CASE Listed(i)
    BY <1>0, <2>2, <2>3 DEF IInv, ListsInv
  <2>4. CASE i = x
    BY <2>2, <2>4
  <2> QED BY <1>1, <2>3, <2>4
<1>2. ASSUME NEW i \in Ids PROVE reaped'[i] <= 1 /\ (i > apid' => reaped'[i] = 0)
  <2>1. reaped[i] <= 1 /\ (i > apid => reaped[i] = 0) /\ (Listed(i) => i <= apid /\ reaped[i] = 0)
    BY DEF IInv, ListsInv
  <2>2. CASE reaped'[i] = reaped[i]
    BY <1>0, <2>1, <2>2
  <2>3. CASE i = y /\ reaped'[i] = reaped[i] + 1
    BY <1>0, <2>1, <2>3
  <2> QED BY <2>2, <2>3
<1>3. ASSUME NEW u \in Ids, Pending(u)'
      PROVE  \E n \in 1 .. apid' : n = NewId(u)' /\ ~Listed(n)' /\ reaped'[n] = 0
  <2>1. PICK n : n = NewId(u)'
    OBVIOUS
  <2>2. CASE Pending(u) /\ n = NewId(u)
    <3>1. n \in 1 .. apid /\ ~Listed(n) /\ reaped[n] = 0
      BY <2>2 DEF IInv, ListsInv
    <3>2. n \in Ids /\ n \in 1 .. apid' /\ n # y
      BY <1>0, <3>1, Fields DEF IInv
    <3>3. n # x
      BY <1>3, <2>1, <3>2
    <3>4. ~Listed(n)'
      BY <3>1, <3>2, <3>3
    <3> QED BY <2>1, <3>1, <3>2, <3>4
  <2>3. CASE n \in apid + 1 .. apid'
    <3>1. n \in Ids /\ n \in 1 .. apid' /\ n > apid
      BY <1>0, <2>3, ProcAssumption DEF Ids
    <3>2. reaped[n] = 0 /\ ~Listed(n)
      BY <1>0, <3>1 DEF IInv, ListsInv
    <3>3. n # x /\ n # y
      BY <1>3, <2>1, <3>1, <3>2
    <3> QED BY <2>1, <3>1, <3>2, <3>3
  <2> QED BY <1>3, <2>1, <2>2, <2>3
<1>4. ASSUME NEW u \in Ids, Pending(u)' PROVE ~Listed(NewId(u))'
  <2>1. PICK n : n = NewId(u)' /\ ~Listed(n)'
    BY <1>3, <1>4
  <2> QED BY <2>1 DEF Listed
<1>5. ASSUME NEW t \in Ids, NEW u \in Ids, Pending(t)', Pending(u)', t # u
      PROVE  NewId(t)' # NewId(u)'
  BY <1>5 DEF IInv, ListsInv
<1>6. \A u \in Ids : Pending(u)' => NewId(u)' \in 1 .. apid' /\ reaped'[NewId(u)'] = 0
  BY <1>3
<1> QED BY <1>1, <1>2, <1>4, <1>5, <1>6 DEF ListsInv, UniqueIds

\* The lists of a process.
LEMMA WListTypes ==
    ASSUME TypeOK
    PROVE  \A p \in Ids, b \in BOOLEAN : WList(p, b) \in Lists
BY Fields DEF WList

\* The ids on the lists stay: nothing is entered or removed.
LEMMA SameUnique ==
    ASSUME IInv,
           \A p \in Ids, b \in BOOLEAN :
               /\ DOMAIN WList(p, b)' = DOMAIN WList(p, b)
               /\ \A k \in DOMAIN WList(p, b) : WList(p, b)'[k].id = WList(p, b)[k].id
    PROVE  UniqueIds' /\ \A i \in Ids : Listed(i)' => Listed(i)
<1>1. UniqueIds'
  <2> SUFFICES ASSUME NEW p \in Ids, NEW q \in Ids, NEW b \in BOOLEAN, NEW c \in BOOLEAN,
                      NEW j \in DOMAIN WList(p, b)', NEW k \in DOMAIN WList(q, c)',
                      WList(p, b)'[j].id = WList(q, c)'[k].id
               PROVE  p = q /\ b = c /\ j = k
    BY DEF UniqueIds
  <2> QED BY DEF IInv, ListsInv
<1>2. \A i \in Ids : Listed(i)' => Listed(i)
  BY DEF Listed
<1> QED BY <1>1, <1>2

\* One id is entered in front of a list.
Enters(p0, b0, x) ==
    /\ \A k \in DOMAIN WList(p0, b0)' :
           \/ k = 1 /\ WList(p0, b0)'[k].id = x
           \/ k - 1 \in DOMAIN WList(p0, b0) /\ WList(p0, b0)'[k] = WList(p0, b0)[k - 1]
    /\ \A p \in Ids, b \in BOOLEAN : (p # p0 \/ b # b0) =>
           \A k \in DOMAIN WList(p, b)' :
               k \in DOMAIN WList(p, b) /\ WList(p, b)'[k] = WList(p, b)[k]

\* It is the only one with this id.
LEMMA PushUnique ==
    ASSUME IInv, TypeOK', NEW p0 \in Ids, NEW b0 \in BOOLEAN, NEW x \in Ids, ~Listed(x),
           Enters(p0, b0, x)
    PROVE  UniqueIds' /\ \A i \in Ids : Listed(i)' => Listed(i) \/ i = x
<1> USE DEF Enters
<1>1. ASSUME NEW p \in Ids, NEW b \in BOOLEAN, NEW k \in DOMAIN WList(p, b)'
      PROVE  \/ p = p0 /\ b = b0 /\ k = 1 /\ WList(p, b)'[k].id = x
             \/ \E j \in DOMAIN WList(p, b) :
                  /\ WList(p, b)'[k] = WList(p, b)[j]
                  /\ IF p = p0 /\ b = b0 THEN j = k - 1 ELSE j = k
  BY <1>1
<1>2. \A p \in Ids, b \in BOOLEAN : \A k \in DOMAIN WList(p, b) : WList(p, b)[k].id # x
  BY DEF Listed
<1>3. \A p \in Ids, b \in BOOLEAN : \A k \in DOMAIN WList(p, b)' : k \in Nat
  <2> SUFFICES ASSUME NEW p \in Ids, NEW b \in BOOLEAN, NEW k \in DOMAIN WList(p, b)' PROVE k \in Nat
    OBVIOUS
  <2>1. proc'[p].pwait \in Lists /\ proc'[p].twait \in Lists
    BY DEF TypeOK, Procs
  <2>2. WList(p, b)' \in Lists
    BY <2>1 DEF WList
  <2> QED BY <2>2, ListFacts
<1>4. UniqueIds'
  <2> SUFFICES ASSUME NEW p \in Ids, NEW q \in Ids, NEW b \in BOOLEAN, NEW c \in BOOLEAN,
                      NEW j \in DOMAIN WList(p, b)', NEW k \in DOMAIN WList(q, c)',
                      WList(p, b)'[j].id = WList(q, c)'[k].id
               PROVE  p = q /\ b = c /\ j = k
    BY DEF UniqueIds
  <2>1. CASE WList(p, b)'[j].id = x
    <3>1. p = p0 /\ b = b0 /\ j = 1
      BY <1>1, <1>2, <2>1
    <3>2. WList(q, c)'[k].id = x
      BY <2>1
    <3>3. q = p0 /\ c = b0 /\ k = 1
      BY <1>1, <1>2, <3>2
    <3> QED BY <3>1, <3>3
  <2>2. CASE WList(p, b)'[j].id # x
    <3>1. PICK m \in DOMAIN WList(p, b) : /\ WList(p, b)'[j] = WList(p, b)[m]
                                          /\ IF p = p0 /\ b = b0 THEN m = j - 1 ELSE m = j
      BY <1>1, <2>2
    <3>2. PICK n \in DOMAIN WList(q, c) : /\ WList(q, c)'[k] = WList(q, c)[n]
                                          /\ IF q = p0 /\ c = b0 THEN n = k - 1 ELSE n = k
      BY <1>1, <2>2
    <3>3. p = q /\ b = c /\ m = n
      BY <3>1, <3>2 DEF IInv, ListsInv
    <3>4. j \in Nat /\ k \in Nat
      BY <1>3
    <3> QED BY <3>1, <3>2, <3>3, <3>4
  <2> QED BY <2>1, <2>2
<1>5. \A i \in Ids : Listed(i)' => Listed(i) \/ i = x
  <2> SUFFICES ASSUME NEW i \in Ids, Listed(i)', i # x PROVE Listed(i)
    OBVIOUS
  <2>1. PICK p \in Ids, b \in BOOLEAN : \E k \in DOMAIN WList(p, b)' : WList(p, b)'[k].id = i
    BY DEF Listed
  <2>2. PICK k \in DOMAIN WList(p, b)' : WList(p, b)'[k].id = i
    BY <2>1
  <2>3. PICK j \in DOMAIN WList(p, b) : WList(p, b)'[k] = WList(p, b)[j]
    BY <1>1, <2>2
  <2> QED BY <2>2, <2>3 DEF Listed
<1> QED BY <1>4, <1>5

\* One entry is removed.
LEMMA RemoveUnique ==
    ASSUME IInv, TypeOK', NEW p0 \in Ids, NEW b0 \in BOOLEAN, NEW n \in DOMAIN WList(p0, b0),
           WList(p0, b0)' = wremove(WList(p0, b0), n),
           \A p \in Ids, b \in BOOLEAN : (p # p0 \/ b # b0) => WList(p, b)' = WList(p, b)
    PROVE  UniqueIds' /\ \A i \in Ids : Listed(i)' => Listed(i) /\ i # WList(p0, b0)[n].id
<1> DEFINE l == WList(p0, b0)
           m == WList(p0, b0)'
<1>1. l \in Lists
  BY WListTypes DEF IInv
<1>2. /\ m \in Lists
      /\ \A j \in DOMAIN m : j < n => j \in DOMAIN l /\ m[j] = l[j]
      /\ \A j \in DOMAIN m : ~(j < n) => j + 1 \in DOMAIN l /\ m[j] = l[j + 1]
  BY <1>1, RemoveFacts
<1>3. DOMAIN m = 1 .. Len(m) /\ Len(m) \in Nat /\ DOMAIN l = 1 .. Len(l) /\ Len(l) \in Nat
  BY <1>1, <1>2, ListFacts
<1>4. ASSUME NEW p \in Ids, NEW b \in BOOLEAN, NEW k \in DOMAIN WList(p, b)'
      PROVE  \E j \in DOMAIN WList(p, b) :
                  /\ WList(p, b)'[k] = WList(p, b)[j]
                  /\ (p = p0 /\ b = b0) => j # n /\ IF k < n THEN j = k ELSE j = k + 1
                  /\ (p # p0 \/ b # b0) => j = k
  <2>1. CASE p = p0 /\ b = b0
    <3>1. k \in DOMAIN m
      BY <2>1
    <3>2. CASE k < n
      BY <1>2, <1>3, <2>1, <3>1, <3>2
    <3>3. CASE ~(k < n)
      <4>1. k + 1 \in DOMAIN l /\ m[k] = l[k + 1] /\ k + 1 # n
        BY <1>2, <1>3, <3>1, <3>3
      <4> QED BY <2>1, <3>3, <4>1
    <3> QED BY <3>2, <3>3
  <2>2. CASE p # p0 \/ b # b0
    BY <2>2
  <2> QED BY <2>1, <2>2
<1> HIDE DEF l, m
<1>5. UniqueIds'
  <2> SUFFICES ASSUME NEW p \in Ids, NEW q \in Ids, NEW b \in BOOLEAN, NEW c \in BOOLEAN,
                      NEW j \in DOMAIN WList(p, b)', NEW k \in DOMAIN WList(q, c)',
                      WList(p, b)'[j].id = WList(q, c)'[k].id
               PROVE  p = q /\ b = c /\ j = k
    BY DEF UniqueIds
  <2>1. PICK e \in DOMAIN WList(p, b) :
                  /\ WList(p, b)'[j] = WList(p, b)[e]
                  /\ (p = p0 /\ b = b0) => e # n /\ IF j < n THEN e = j ELSE e = j + 1
                  /\ (p # p0 \/ b # b0) => e = j
    BY <1>4
  <2>2. PICK f \in DOMAIN WList(q, c) :
                  /\ WList(q, c)'[k] = WList(q, c)[f]
                  /\ (q = p0 /\ c = b0) => f # n /\ IF k < n THEN f = k ELSE f = k + 1
                  /\ (q # p0 \/ c # b0) => f = k
    BY <1>4
  <2>3. p = q /\ b = c /\ e = f
    BY <2>1, <2>2 DEF IInv, ListsInv
  <2>4. CASE p = p0 /\ b = b0
    <3>1. j \in Nat /\ k \in Nat /\ n \in Nat
      BY <1>3, <2>3, <2>4 DEF l, m
    <3> QED BY <2>1, <2>2, <2>3, <2>4, <3>1
  <2> QED BY <2>1, <2>2, <2>3, <2>4
<1>6. ASSUME NEW i \in Ids, Listed(i)' PROVE Listed(i) /\ i # WList(p0, b0)[n].id
  <2>1. PICK p \in Ids, b \in BOOLEAN : \E k \in DOMAIN WList(p, b)' : WList(p, b)'[k].id = i
    BY <1>6 DEF Listed
  <2>2. PICK k \in DOMAIN WList(p, b)' : WList(p, b)'[k].id = i
    BY <2>1
  <2>3. PICK j \in DOMAIN WList(p, b) : /\ WList(p, b)'[k] = WList(p, b)[j]
                                        /\ (p = p0 /\ b = b0) => j # n
    BY <1>4
  <2>4. i # WList(p0, b0)[n].id
    BY <2>2, <2>3 DEF IInv, ListsInv
  <2> QED BY <2>2, <2>3, <2>4 DEF Listed
<1> QED BY <1>5, <1>6

\* Threads that sleep in wait.
LEMMA SleepStep ==
    ASSUME IInv, TypeOK',
           \A u \in Ids : thr'[u].pc = "asleep" =>
               /\ thr'[u].p = thr[u].p /\ thr'[u].id = thr[u].id /\ thr'[u].isproc = thr[u].isproc
               /\ thr[u].p \in Ids
               /\ ~thr'[u].killed /\ Matches(u) # {} /\ Ready(u) = {},
           \A u \in Ids, p \in Ids, b \in BOOLEAN :
               thr'[u].pc = "asleep" /\ p = thr[u].p /\ b = thr[u].isproc =>
               /\ \A k \in DOMAIN WList(p, b)' : WList(p, b)'[k].valid =>
                      \E j \in DOMAIN WList(p, b) :
                          WList(p, b)[j].valid /\ WList(p, b)[j].id = WList(p, b)'[k].id
               /\ \A j \in DOMAIN WList(p, b) : ~WList(p, b)[j].valid =>
                      \E k \in DOMAIN WList(p, b)' : WList(p, b)[j].id = WList(p, b)'[k].id
    PROVE  SleepsForAReason'
<1> SUFFICES ASSUME NEW u \in Ids, thr'[u].pc = "asleep"
             PROVE  Matches(u)' # {} /\ Ready(u)' = {} /\ ~thr'[u].killed
  BY DEF SleepsForAReason
<1>1. PICK p \in Ids, b \in BOOLEAN : p = thr[u].p /\ b = thr[u].isproc
  BY Fields DEF IInv
<1>2. thr'[u].p = p /\ thr'[u].isproc = b /\ thr'[u].id = thr[u].id
  BY <1>1
<1>3. Waits(u) = WList(p, b) /\ Waits(u)' = WList(p, b)'
  BY <1>1, <1>2 DEF Waits, WList, Mine
<1>4. /\ \A k \in DOMAIN WList(p, b)' : WList(p, b)'[k].valid =>
            \E j \in DOMAIN WList(p, b) :
                WList(p, b)[j].valid /\ WList(p, b)[j].id = WList(p, b)'[k].id
      /\ \A j \in DOMAIN WList(p, b) : ~WList(p, b)[j].valid =>
            \E k \in DOMAIN WList(p, b)' : WList(p, b)[j].id = WList(p, b)'[k].id
  BY <1>1, SMTT(40)
<1>5. /\ \A k \in DOMAIN WList(p, b) : thr[u].id \in {Any, WList(p, b)[k].id} => ~WList(p, b)[k].valid
      /\ \E k \in DOMAIN WList(p, b) : thr[u].id \in {Any, WList(p, b)[k].id}
  BY <1>3 DEF Matches, Ready
<1>6. \E k \in DOMAIN WList(p, b)' : thr'[u].id \in {Any, WList(p, b)'[k].id}
  BY <1>2, <1>4, <1>5
<1>7. \A k \in DOMAIN WList(p, b)' : thr'[u].id \in {Any, WList(p, b)'[k].id} => ~WList(p, b)'[k].valid
  BY <1>2, <1>4, <1>5
<1>8. Matches(u)' # {} /\ Ready(u)' = {}
  BY <1>3, <1>6, <1>7 DEF Matches, Ready
<1> QED BY <1>8

\* Statuses that parents can see.
LEMMA ExitStep ==
    ASSUME IInv, NEW z,
           \A p \in Ids : \A k \in DOMAIN proc'[p].pwait : proc'[p].pwait[k].valid =>
               \/ \E j \in DOMAIN proc[p].pwait : proc'[p].pwait[k] = proc[p].pwait[j]
               \/ /\ proc'[p].pwait[k].id = z /\ proc'[z].freed
                  /\ proc'[p].pwait[k].status = proc'[z].status,
           \A q \in Ids : proc[q].freed /\ Listed(q) => proc'[q].freed /\ proc'[q].status = proc[q].status
    PROVE  ExitInv'
<1> SUFFICES ASSUME NEW p \in Ids, NEW k \in DOMAIN proc'[p].pwait, proc'[p].pwait[k].valid
             PROVE  /\ proc'[proc'[p].pwait[k].id].freed
                    /\ proc'[p].pwait[k].status = proc'[proc'[p].pwait[k].id].status
  BY DEF ExitInv
<1>1. CASE \E j \in DOMAIN proc[p].pwait : proc'[p].pwait[k] = proc[p].pwait[j]
  <2>1. PICK j \in DOMAIN proc[p].pwait : proc'[p].pwait[k] = proc[p].pwait[j]
    BY <1>1
  <2>2. PICK q \in Ids : q = proc[p].pwait[j].id
    BY Fields, ListFacts DEF IInv
  <2>3. proc[q].freed /\ proc[p].pwait[j].status = proc[q].status
    BY <2>1, <2>2 DEF IInv, ExitInv
  <2>4. Listed(q)
    <3>1. WList(p, TRUE) = proc[p].pwait
      BY DEF WList
    <3> QED BY <2>2, <3>1 DEF Listed
  <2> QED BY <2>1, <2>2, <2>3, <2>4
<1>2. CASE /\ proc'[p].pwait[k].id = z /\ proc'[z].freed
           /\ proc'[p].pwait[k].status = proc'[z].status
  BY <1>2
<1> QED BY <1>1, <1>2

\* Notes: x is the one that goes, n the new one of process q.
LEMMA NotesStep ==
    ASSUME IInv, apid <= apid', NEW n, NEW q, TypeOK',
           \A u \in Ids : \/ thr'[u].p = thr[u].p /\ (thr[u].pc = "none" => thr'[u].pc = "none")
                          \/ \A p \in Ids : u \in proc'[p].notes => thr'[u].p = p,
           \A p \in Ids : \A z \in proc'[p].notes : z \in proc[p].notes \/ (z = n /\ p = q),
           n \in Ids => n <= apid' /\ thr[n].pc = "none" /\ thr'[n].pc = "none" /\ \A p \in Ids : n \notin proc[p].notes,
           \A p \in Ids : proc'[p].freed => proc[p].freed \/ proc'[p].notes = {},
           \A p \in Ids : proc'[p].freed /\ p = q => n \notin Ids
    PROVE  NotesInv'
<1>0. apid \in Nat /\ apid' \in Nat /\ Ids \subseteq Nat
  BY IdsFacts, Fields DEF IInv, TypeOK
<1>1. ASSUME NEW p \in Ids, NEW z \in proc'[p].notes
      PROVE  z \in Ids /\ z <= apid' /\ (thr'[z].pc = "none" \/ thr'[z].p = p)
  <2>1. z \in Ids
    BY DEF TypeOK, Procs
  <2>2. CASE z \in proc[p].notes
    <3>1. z <= apid /\ (thr[z].pc = "none" \/ thr[z].p = p)
      BY <2>2 DEF IInv, NotesInv
    <3> QED BY <1>0, <1>1, <2>1, <3>1
  <2>3. CASE z = n /\ p = q
    BY <2>1, <2>3
  <2> QED BY <2>2, <2>3
<1>2. ASSUME NEW p \in Ids, NEW r \in Ids, p # r, NEW z, z \in proc'[p].notes, z \in proc'[r].notes
      PROVE  FALSE
  <2>1. z \in Ids
    BY <1>1, <1>2
  <2>2. ~(z \in proc[p].notes /\ z \in proc[r].notes)
    BY <1>2 DEF IInv, NotesInv
  <2> QED BY <1>2, <2>1, <2>2
<1>3. ASSUME NEW p \in Ids, proc'[p].freed PROVE proc'[p].notes = {}
  <2>1. CASE proc[p].freed
    <3>1. proc[p].notes = {}
      BY <2>1 DEF IInv, NotesInv
    <3>2. ASSUME NEW z \in proc'[p].notes PROVE FALSE
      <4>1. z = n /\ p = q /\ z \in Ids
        BY <1>1, <3>1, <3>2
      <4> QED BY <1>3, <4>1
    <3> QED BY <3>2
  <2> QED BY <1>3, <2>1
<1> QED BY <1>1, <1>2, <1>3 DEF NotesInv

-------------------------------------------------------------------------------
(***************************************************************************)
(* Steps that leave notes, lists and statuses alone.                       *)
(***************************************************************************)
Quiet ==
    /\ apid' = apid /\ reaped' = reaped
    /\ \A p \in Ids : /\ proc'[p].notes = proc[p].notes /\ proc'[p].freed = proc[p].freed
                      /\ proc'[p].status = proc[p].status
                      /\ proc'[p].pwait = proc[p].pwait /\ proc'[p].twait = proc[p].twait

\* Where a thread goes to sleep.
MaySleepNow(c) ==
    /\ thr'[c].id = thr[c].id /\ thr'[c].isproc = thr[c].isproc /\ thr'[c].p = thr[c].p
    /\ ~thr'[c].killed /\ Matches(c) # {} /\ Ready(c) = {}

\* An alive thread knows its process.
LEMMA AliveFacts ==
    ASSUME IInv, NEW t \in Ids, thr[t].pc \notin {"none", "gone"}
    PROVE  thr[t].p \in 1 .. apid /\ thr[t].p \in Ids /\ t \in 1 .. apid
<1>1. ThreadOK(t)
  BY DEF IInv, ThreadsInv
<1>2. t \in Nat /\ t >= 1 /\ apid \in Nat /\ 1 .. apid \subseteq Ids
  <2>1. t \in Nat /\ apid \in Nat /\ 1 .. apid \subseteq Ids
    BY IdsFacts, Fields DEF IInv
  <2> QED BY <2>1 DEF Ids
<1> QED BY <1>1, <1>2 DEF ThreadOK

\* Lists that do not change.
LEMMA SleepSame ==
    ASSUME IInv, TypeOK', NEW C \in SUBSET Ids, \A u \in Ids \ C : Like(u),
           \A c \in C : thr'[c].pc = "asleep" => MaySleepNow(c) /\ thr[c].p \in Ids,
           \A u \in Ids, p \in Ids, b \in BOOLEAN :
               thr'[u].pc = "asleep" /\ p = thr[u].p /\ b = thr[u].isproc =>
               /\ \A k \in DOMAIN WList(p, b)' : WList(p, b)'[k].valid =>
                      \E j \in DOMAIN WList(p, b) :
                          WList(p, b)[j].valid /\ WList(p, b)[j].id = WList(p, b)'[k].id
               /\ \A j \in DOMAIN WList(p, b) : ~WList(p, b)[j].valid =>
                      \E k \in DOMAIN WList(p, b)' : WList(p, b)[j].id = WList(p, b)'[k].id
    PROVE  SleepsForAReason'
<1>1. ASSUME NEW u \in Ids, thr'[u].pc = "asleep"
      PROVE  /\ thr'[u].p = thr[u].p /\ thr'[u].id = thr[u].id /\ thr'[u].isproc = thr[u].isproc
             /\ thr[u].p \in Ids
             /\ ~thr'[u].killed /\ Matches(u) # {} /\ Ready(u) = {}
  <2>1. CASE u \in C
    BY <1>1, <2>1 DEF MaySleepNow
  <2>2. CASE u \notin C
    <3>1. Like(u)
      BY <2>2
    <3>2. thr[u].pc = "asleep"
      BY <1>1, <3>1 DEF Like
    <3>3. Matches(u) # {} /\ Ready(u) = {} /\ ~thr[u].killed
      BY <3>2 DEF IInv, SleepsForAReason
    <3>4. thr[u].p \in Ids
      BY <3>2, AliveFacts
    <3>5. thr'[u].killed = thr[u].killed
      BY <1>1, <3>1 DEF Like
    <3> QED BY <3>1, <3>3, <3>4, <3>5 DEF Like
  <2> QED BY <2>1, <2>2
<1> QED BY <1>1, SleepStep

\* At most one thread moves.
LEMMA QuietInv ==
    ASSUME IInv, TypeOK', OomInv', Quiet, NEW C \in SUBSET Ids, \A c, d \in C : c = d,
           \A u \in Ids \ C : Like(u),
           \A c \in C : /\ thr[c].pc \notin {"none", "gone"}
                        /\ thr'[c].p = thr[c].p \/ Ending(c)
                        /\ ThreadOK(c)' /\ (Pending(c)' => Pending(c) /\ NewId(c)' = NewId(c))
                        /\ thr'[c].pc = "asleep" => MaySleepNow(c)
                        /\ thr'[c].pc \in Holds => \/ thr[c].pc \in Holds /\ thr'[c].tid = thr[c].tid
                                                   \/ thr'[c].tid = c
    PROVE  IInv'
<1>1. apid \in Nat /\ apid <= apid' /\ apid' = apid /\ 1 .. apid \subseteq Ids
  <2>1. apid \in Nat /\ apid' = apid /\ 1 .. apid \subseteq Ids
    BY Fields DEF IInv, Quiet
  <2> QED BY <2>1
<1>2. \A p \in Ids, b \in BOOLEAN : WList(p, b)' = WList(p, b)
  BY DEF Quiet, WList
<1>3. NotesKept(None) /\ FreedKept
  BY <1>1 DEF Quiet, NotesKept, FreedKept
<1>4. ThreadsInv'
  <2>1. \A c \in C : thr[c].pc # "none"
    OBVIOUS
  <2> QED BY <1>1, <1>3, <2>1, ThreadsStep
<1>5. NotesInv'
  <2>1. ASSUME NEW u \in Ids
        PROVE  \/ thr'[u].p = thr[u].p /\ (thr[u].pc = "none" => thr'[u].pc = "none")
               \/ \A p \in Ids : u \in proc'[p].notes => thr'[u].p = p
    <3>1. CASE u \notin C
      BY <3>1 DEF Like
    <3>2. CASE u \in C /\ thr'[u].p = thr[u].p
      BY <3>2
    <3>3. CASE u \in C /\ Ending(u)
      <4>1. u \notin proc[thr[u].p].notes /\ thr[u].pc # "none"
        BY <3>3 DEF IInv, ThreadsInv, ThreadOK
      <4>2. \A p \in Ids : u \notin proc[p].notes
        BY <4>1 DEF IInv, NotesInv
      <4> QED BY <4>2 DEF Quiet
    <3> QED BY <3>1, <3>2, <3>3
  <2>2. \A p \in Ids : proc'[p].notes = proc[p].notes /\ proc'[p].freed = proc[p].freed
    BY DEF Quiet
  <2>3. None \notin Ids
    BY IdsFacts
  <2> QED BY <1>1, <2>1, <2>2, <2>3, NotesStep
<1>6. ListsInv'
  <2>1. UniqueIds' /\ \A i \in Ids : Listed(i)' => Listed(i)
    BY <1>2, SameUnique
  <2>2. None \notin Ids /\ \A i \in Ids : reaped'[i] = reaped[i]
    BY IdsFacts DEF Quiet
  <2>3. \A u \in Ids \ C : Pending(u)' => Pending(u) /\ NewId(u)' = NewId(u)
    BY DEF Pending, NewId, Like
  <2>4. \A u \in Ids : Pending(u)' => Pending(u) /\ NewId(u)' = NewId(u)
    BY <2>3
  <2> QED BY <1>1, <2>1, <2>2, <2>4, ListsStep DEF ListsChange
<1>7. SleepsForAReason'
  <2>1. \A c \in C : thr'[c].pc = "asleep" => MaySleepNow(c) /\ thr[c].p \in Ids
    BY AliveFacts
  <2> QED BY <1>2, <2>1, SleepSame
<1>8. ExitInv'
  BY ExitStep DEF Quiet
<1> QED BY <1>4, <1>5, <1>6, <1>7, <1>8 DEF IInv

\* Thread t moves.
LEMMA QuietOne ==
    ASSUME IInv, TypeOK', OomInv', Quiet, NEW t \in Ids, \A u \in Ids \ {t} : Like(u),
           thr[t].pc \notin {"none", "gone"}, thr'[t].p = thr[t].p \/ Ending(t),
           ThreadOK(t)', Pending(t)' => Pending(t) /\ NewId(t)' = NewId(t),
           thr'[t].pc = "asleep" => MaySleepNow(t),
           thr'[t].pc \in Holds => \/ thr[t].pc \in Holds /\ thr'[t].tid = thr[t].tid
                                   \/ thr'[t].tid = t
    PROVE  IInv'
<1>1. PICK C \in SUBSET Ids : C = {t}
  OBVIOUS
<1>2. \A c \in C : c = t
  BY <1>1
<1>3. \A c, d \in C : c = d
  BY <1>1
<1>4. \A c \in C : ThreadOK(c)' /\ (Pending(c)' => Pending(c) /\ NewId(c)' = NewId(c))
  BY <1>2
<1>5. \A u \in Ids \ C : Like(u)
  BY <1>1
<1> QED BY <1>2, <1>3, <1>4, <1>5, QuietInv

\* Nobody moves.
LEMMA NobodyInv ==
    ASSUME IInv, TypeOK', OomInv', Quiet, \A u \in Ids : Like(u)
    PROVE  IInv'
BY QuietInv, {} \in SUBSET Ids

\* No thread moves.
LEMMA SameThreads ==
    ASSUME thr' = thr
    PROVE  \A u \in Ids : Like(u)
BY DEF Like

\* Thread t gets record r.
LEMMA OneThread ==
    ASSUME TypeOK, NEW t \in Ids, NEW r, thr' = [thr EXCEPT ![t] = r]
    PROVE  thr'[t] = r /\ (\A u \in Ids \ {t} : Like(u)) /\ (r \in Thrs => thr' \in [Ids -> Thrs])
<1>1. thr'[t] = r /\ \A u \in Ids \ {t} : thr'[u] = thr[u]
  BY DEF TypeOK
<1>2. r \in Thrs => thr' \in [Ids -> Thrs]
  BY DEF TypeOK
<1> QED BY <1>1, <1>2 DEF Like

\* Places without obligations.
Plain == {"reserve", "fork", "tfork", "resched", "user", "reap", "asleep", "awake", "oomsend", "oomwait"}

\* A thread goes to such a place.
LEMMA PlainInv ==
    ASSUME IInv, TypeOK', OomInv', Quiet, NEW t \in Ids, \A u \in Ids \ {t} : Like(u),
           Alive(t), thr'[t].p = thr[t].p, thr'[t].pc \in Plain,
           thr'[t].pc = "asleep" => MaySleepNow(t)
    PROVE  IInv'
<1>1. thr[t].pc \notin {"none", "gone"} /\ ThreadOK(t)
  BY DEF Alive, IInv, ThreadsInv
<1>2. thr'[t].pc \notin Holds /\ thr'[t].pc \notin {"none", "gone", "doom", "mark", "exit"}
  BY DEF Plain, Holds, Creates, Ends
<1>3. ThreadOK(t)'
  <2>1. ~Ending(t)' /\ thr'[t].pc \notin {"newtid", "putpid", "del"} /\ thr'[t].pc \notin Creates \cup {"dead"}
    BY <1>2 DEF Ending, Holds, Creates, Ends
  <2>2. t \in proc'[thr'[t].p].notes
    <3>1. t \in proc[thr[t].p].notes /\ thr[t].p \in Ids
      BY <1>1, AliveFacts DEF ThreadOK
    <3> QED BY <3>1 DEF Quiet
  <2>3. t <= apid' /\ thr'[t].p \in 1 .. apid'
    BY <1>1 DEF ThreadOK, Quiet
  <2> QED BY <1>2, <2>1, <2>2, <2>3 DEF ThreadOK
<1>4. ~Pending(t)'
  BY <1>2 DEF Pending, Holds, Creates
<1> QED BY <1>1, <1>2, <1>3, <1>4, QuietOne

\* A thread begins to exit, or to doom a process.
LEMMA ToDead ==
    ASSUME IInv, TypeOK', OomInv', Quiet, NEW t \in Ids, \A u \in Ids \ {t} : Like(u),
           Alive(t), thr'[t].p = thr[t].p,
           \/ thr'[t].pc = "dead" /\ thr'[t].tid = t /\ thr'[t].tgt = thr[t].p
           \/ thr'[t].pc \in {"doom", "mark"} /\ thr'[t].tid = t /\ thr'[t].tgt = thr[t].p
           \/ thr'[t].pc \in {"doom", "mark"} /\ thr'[t].tid = None /\ thr'[t].tgt \in Ids
    PROVE  IInv'
<1>1. thr[t].pc \notin {"none", "gone"} /\ ThreadOK(t)
  BY DEF Alive, IInv, ThreadsInv
<1>2. thr[t].p \in 1 .. apid /\ thr[t].p \in Ids /\ t \in 1 .. apid /\ t # None
  BY <1>1, AliveFacts, IdsFacts
<1>3. ~Pending(t)' /\ ~Ending(t)' /\ thr'[t].pc \in {"dead", "doom", "mark"}
      /\ (thr'[t].pc \in Holds => thr'[t].pc = "dead")
  BY DEF Pending, Ending, Ends, Holds, Creates
<1>4. t \in proc'[thr'[t].p].notes /\ apid' = apid
  BY <1>1, <1>2 DEF ThreadOK, Quiet
<1>5. ThreadOK(t)'
  <2>1. t <= apid'
    BY <1>1, <1>4 DEF ThreadOK
  <2> QED BY <1>2, <1>3, <1>4, <2>1 DEF ThreadOK, Creates
<1>6. thr'[t].pc \in Holds => thr'[t].tid = t
  BY <1>3
<1>7. thr'[t].pc # "asleep"
  BY <1>3
<1> QED BY <1>1, <1>3, <1>5, <1>6, <1>7, QuietOne

-------------------------------------------------------------------------------
(***************************************************************************)
(* Records of threads.                                                     *)
(***************************************************************************)
Going(r, pc) == [r EXCEPT !.pc = pc]
Aiming(r, pc, tgt, tid) == [r EXCEPT !.pc = pc, !.tgt = tgt, !.tid = tid]
Exiting(r, pc, tgt, tid, st) ==
    [r EXCEPT !.pc = pc, !.tgt = tgt, !.tid = tid, !.st = st, !.use = (pc = "doom")]

\* Only the place changes.
LEMMA AtPlace ==
    ASSUME NEW r \in Thrs, NEW pc \in Places
    PROVE  LET n == Going(r, pc)
           IN  /\ n \in Thrs /\ n.pc = pc /\ n.p = r.p /\ n.tgt = r.tgt /\ n.tid = r.tid
               /\ n.id = r.id /\ n.isproc = r.isproc /\ n.killed = r.killed
BY DEF Thrs, Going

\* The place and the target change.
LEMMA WithTarget ==
    ASSUME NEW r \in Thrs, NEW pc \in Places, NEW tgt \in Ids \cup {None}, NEW tid \in Ids \cup {None}
    PROVE  LET n == Aiming(r, pc, tgt, tid)
           IN  n \in Thrs /\ n.pc = pc /\ n.p = r.p /\ n.tgt = tgt /\ n.tid = tid
<1> DEFINE a == [r EXCEPT !.pc = pc]
           b == [a EXCEPT !.tgt = tgt]
           c == [b EXCEPT !.tid = tid]
<1>1. a \in Thrs /\ a.pc = pc /\ a.p = r.p
  BY DEF Thrs
<1> HIDE DEF a
<1>2. b \in Thrs /\ b.pc = pc /\ b.p = r.p /\ b.tgt = tgt
  BY <1>1 DEF Thrs
<1> HIDE DEF b
<1>3. c \in Thrs /\ c.pc = pc /\ c.p = r.p /\ c.tgt = tgt /\ c.tid = tid
  BY <1>2 DEF Thrs
<1> QED BY <1>3 DEF a, b, Aiming

\* The arguments of Thread_dead are set.
LEMMA Exits ==
    ASSUME NEW r \in Thrs, NEW pc \in Places, NEW tgt \in Ids \cup {None}, NEW tid \in Ids \cup {None},
           NEW st \in Statuses
    PROVE  LET n == Exiting(r, pc, tgt, tid, st)
           IN  n \in Thrs /\ n.pc = pc /\ n.p = r.p /\ n.tgt = tgt /\ n.tid = tid
<1> DEFINE a == [r EXCEPT !.pc = pc]
           b == [a EXCEPT !.tgt = tgt]
           c == [b EXCEPT !.tid = tid]
           d == [c EXCEPT !.st = st]
           e == [d EXCEPT !.use = (pc = "doom")]
<1>1. a \in Thrs /\ a.pc = pc /\ a.p = r.p
  BY DEF Thrs
<1> HIDE DEF a
<1>2. b \in Thrs /\ b.pc = pc /\ b.p = r.p /\ b.tgt = tgt
  BY <1>1 DEF Thrs
<1> HIDE DEF b
<1>3. c \in Thrs /\ c.pc = pc /\ c.p = r.p /\ c.tgt = tgt /\ c.tid = tid
  BY <1>2 DEF Thrs
<1> HIDE DEF c
<1>4. d \in Thrs /\ d.pc = pc /\ d.p = r.p /\ d.tgt = tgt /\ d.tid = tid
  BY <1>3 DEF Thrs
<1> HIDE DEF d
<1>5. e \in Thrs /\ e.pc = pc /\ e.p = r.p /\ e.tgt = tgt /\ e.tid = tid
  <2>1. PICK u \in BOOLEAN : u = (pc = "doom")
    OBVIOUS
  <2>2. e = [d EXCEPT !.use = u]
    BY <2>1
  <2> HIDE DEF e
  <2> QED BY <1>4, <2>2 DEF Thrs
<1> QED BY <1>5 DEF a, b, c, d, Exiting

\* The places, and status 0.
LEMMA PlacesFacts ==
    /\ {"none", "reserve", "fork", "procnew", "tfork", "resched", "user", "doom", "mark", "dead", "puttid", "term", "putpid", "del",
        "exit", "gone", "forked", "vmfork", "newtid", "reap", "asleep", "awake",
        "oomsend", "oomwait"} \subseteq Places
    /\ 0 \in Statuses
BY ProcAssumption DEF Places

\* The frame of a step that only moves threads.
LEMMA Frame ==
    ASSUME IInv, thr' \in [Ids -> Thrs], UNCHANGED <<apid, proc, reaped, oom>>,
           nooms' \in Nat, nthreads' \in Int, cwds' \in Int, ptable' \subseteq Ids
    PROVE  TypeOK' /\ Quiet /\ OomInv'
<1>1. TypeOK'
  BY DEF IInv, TypeOK
<1>2. Quiet
  BY DEF Quiet
<1>3. OomInv'
  BY DEF IInv, OomInv
<1> QED BY <1>1, <1>2, <1>3

\* Waking and marking threads.
LEMMA BroadcastFacts ==
    ASSUME NEW th \in [Ids -> Thrs], NEW p, NEW u \in Ids
    PROVE  /\ Broadcast(th, p)[u] \in Thrs
           /\ Broadcast(th, p)[u].p = th[u].p /\ Broadcast(th, p)[u].tgt = th[u].tgt
           /\ Broadcast(th, p)[u].tid = th[u].tid /\ Broadcast(th, p)[u].id = th[u].id
           /\ Broadcast(th, p)[u].isproc = th[u].isproc /\ Broadcast(th, p)[u].killed = th[u].killed
           /\ \/ Broadcast(th, p)[u].pc = th[u].pc /\ ~(th[u].pc = "asleep" /\ th[u].p = p)
              \/ th[u].pc = "asleep" /\ Broadcast(th, p)[u].pc = "awake"
<1>1. th[u] \in Thrs /\ "awake" \in Places
  BY PlacesFacts
<1>2. Broadcast(th, p)[u] = IF th[u].pc = "asleep" /\ th[u].p = p
                            THEN [th[u] EXCEPT !.pc = "awake"] ELSE th[u]
  BY DEF Broadcast
<1>3. CASE th[u].pc = "asleep" /\ th[u].p = p
  <2>1. Broadcast(th, p)[u] = [th[u] EXCEPT !.pc = "awake"]
    BY <1>2, <1>3
  <2>2. Broadcast(th, p)[u] = Going(th[u], "awake")
    BY <2>1 DEF Going
  <2> QED BY <1>1, <1>3, <2>2, AtPlace
<1>4. CASE ~(th[u].pc = "asleep" /\ th[u].p = p)
  BY <1>1, <1>2, <1>4
<1> QED BY <1>3, <1>4

\* A broadcast moves nobody but those who sleep in that process.
LEMMA BroadcastLike ==
    ASSUME TypeOK, NEW p, NEW C \in SUBSET Ids,
           \A u \in Ids \ C : thr'[u] = Broadcast(thr, p)[u]
    PROVE  \A u \in Ids \ C : Like(u) /\ ~(thr'[u].pc = "asleep" /\ thr'[u].p = p)
<1>1. thr \in [Ids -> Thrs]
  BY DEF TypeOK
<1> SUFFICES ASSUME NEW u \in Ids \ C
             PROVE  Like(u) /\ ~(thr'[u].pc = "asleep" /\ thr'[u].p = p)
  OBVIOUS
<1>2. /\ thr'[u].p = thr[u].p /\ thr'[u].tgt = thr[u].tgt
      /\ thr'[u].tid = thr[u].tid /\ thr'[u].id = thr[u].id
      /\ thr'[u].isproc = thr[u].isproc /\ thr'[u].killed = thr[u].killed
      /\ \/ thr'[u].pc = thr[u].pc /\ ~(thr[u].pc = "asleep" /\ thr[u].p = p)
         \/ thr[u].pc = "asleep" /\ thr'[u].pc = "awake"
  BY <1>1, BroadcastFacts
<1> QED BY <1>2 DEF Like

\* Doomall's marks.
LEMMA MarkedFacts ==
    ASSUME IInv, NEW p \in Ids, NEW u \in Ids
    PROVE  /\ Marked(p)[u] \in Thrs
           /\ Marked(p)[u].p = thr[u].p /\ Marked(p)[u].tgt = thr[u].tgt
           /\ Marked(p)[u].tid = thr[u].tid /\ Marked(p)[u].id = thr[u].id
           /\ Marked(p)[u].isproc = thr[u].isproc
           /\ Marked(p)[u].pc = thr[u].pc \/ (thr[u].pc = "asleep" /\ Marked(p)[u].pc = "awake")
           /\ Marked(p)[u].pc = "asleep" => Marked(p)[u].killed = thr[u].killed
<1> DEFINE th == [t \in Ids |-> IF t \in Notes(p) THEN [thr[t] EXCEPT !.killed = TRUE] ELSE thr[t]]
<1>1. \A t \in Ids : /\ th[t] \in Thrs /\ th[t].p = thr[t].p /\ th[t].tgt = thr[t].tgt
                     /\ th[t].tid = thr[t].tid /\ th[t].id = thr[t].id /\ th[t].pc = thr[t].pc
                     /\ th[t].isproc = thr[t].isproc
                     /\ t \notin Notes(p) => th[t] = thr[t]
  <2> SUFFICES ASSUME NEW t \in Ids
               PROVE /\ th[t] \in Thrs /\ th[t].p = thr[t].p /\ th[t].tgt = thr[t].tgt
                     /\ th[t].tid = thr[t].tid /\ th[t].id = thr[t].id /\ th[t].pc = thr[t].pc
                     /\ th[t].isproc = thr[t].isproc
                     /\ t \notin Notes(p) => th[t] = thr[t]
    OBVIOUS
  <2>1. thr[t] \in Thrs
    BY Fields DEF IInv
  <2>2. CASE t \in Notes(p)
    <3>1. th[t] = [thr[t] EXCEPT !.killed = TRUE]
      BY <2>2
    <3> HIDE DEF th
    <3> QED BY <2>1, <2>2, <3>1 DEF Thrs
  <2>3. CASE t \notin Notes(p)
    BY <2>1, <2>3
  <2> QED BY <2>2, <2>3
<1>2. th \in [Ids -> Thrs] /\ Marked(p) = Broadcast(th, p)
  BY <1>1 DEF Marked
<1> HIDE DEF th
<1>3. /\ Marked(p)[u] \in Thrs /\ Marked(p)[u].p = th[u].p /\ Marked(p)[u].tgt = th[u].tgt
      /\ Marked(p)[u].tid = th[u].tid /\ Marked(p)[u].id = th[u].id
      /\ Marked(p)[u].isproc = th[u].isproc /\ Marked(p)[u].killed = th[u].killed
      /\ \/ Marked(p)[u].pc = th[u].pc /\ ~(th[u].pc = "asleep" /\ th[u].p = p)
         \/ th[u].pc = "asleep" /\ Marked(p)[u].pc = "awake"
  BY <1>2, BroadcastFacts
<1>4. Marked(p)[u].pc = "asleep" => Marked(p)[u].killed = thr[u].killed
  <2> SUFFICES ASSUME Marked(p)[u].pc = "asleep" PROVE Marked(p)[u].killed = thr[u].killed
    OBVIOUS
  <2>1. thr[u].pc = "asleep" /\ thr[u].p # p
    BY <1>1, <1>3
  <2>2. u \notin Notes(p)
    BY <2>1 DEF IInv, NotesInv, Notes
  <2> QED BY <1>1, <1>3, <2>2
<1> QED BY <1>1, <1>3, <1>4

-------------------------------------------------------------------------------
(***************************************************************************)
(* run, resched and traps.                                                 *)
(***************************************************************************)
\* A thread of run() is alive at the places where it does nothing else.
LEMMA AliveAt ==
    ASSUME IInv, NEW t \in Ids,
           thr[t].pc \in Plain \cup {"doom", "mark", "dead"} \cup Creates
    PROVE  Alive(t) /\ thr[t] \in Thrs /\ thr[t].p \in Ids
<1>1. Alive(t)
  BY DEF Plain, Alive, Ending, Ends, Creates
<1>2. thr[t].pc \notin {"none", "gone"}
  BY <1>1 DEF Alive
<1> QED BY <1>1, <1>2, AliveFacts, Fields DEF IInv

\* resched: the thread dies or runs.
LEMMA ReschedInv ==
    ASSUME IInv, NEW t \in Ids, Resched(t)
    PROVE  IInv'
<1>1. Alive(t) /\ thr[t] \in Thrs /\ thr[t].p \in Ids
  BY AliveAt DEF Resched, At, Plain
<1>2. UNCHANGED <<apid, nthreads, ptable, proc, reaped, cwds, oom, nooms, panic>>
  BY DEF Resched
<1>3. CASE Mine(t).doomed
  <2>1. PICK n : n = Exiting(thr[t], "dead", thr[t].p, t, 0)
    OBVIOUS
  <2>2. n \in Thrs /\ n.pc = "dead" /\ n.p = thr[t].p /\ n.tgt = thr[t].p /\ n.tid = t
    <3>1. "dead" \in Places /\ 0 \in Statuses
      BY PlacesFacts
    <3>2. t \in Ids \cup {None} /\ thr[t].p \in Ids \cup {None}
      BY <1>1
    <3> QED BY <1>1, <2>1, <3>1, <3>2, Exits
  <2>3. thr' = [thr EXCEPT ![t] = n]
    BY <1>3, <2>1 DEF Resched, Exiting
  <2>4. thr'[t] = n /\ (\A u \in Ids \ {t} : Like(u)) /\ thr' \in [Ids -> Thrs]
    BY <2>2, <2>3, OneThread DEF IInv
  <2>5. TypeOK' /\ Quiet /\ OomInv'
    BY <1>2, <2>4, Frame DEF IInv, TypeOK
  <2> QED BY <1>1, <2>2, <2>4, <2>5, ToDead
<1>4. CASE ~Mine(t).doomed
  <2>1. PICK n : n = Going(thr[t], "user")
    OBVIOUS
  <2>2. n \in Thrs /\ n.pc = "user" /\ n.p = thr[t].p
    BY <1>1, <2>1, AtPlace, PlacesFacts
  <2>3. thr' = [thr EXCEPT ![t] = n]
    BY <1>4, <2>1 DEF Resched, Goto, Going
  <2>4. thr'[t] = n /\ (\A u \in Ids \ {t} : Like(u)) /\ thr' \in [Ids -> Thrs]
    BY <2>2, <2>3, OneThread DEF IInv
  <2>5. TypeOK' /\ Quiet /\ OomInv'
    BY <1>2, <2>4, Frame DEF IInv, TypeOK
  <2> QED BY <1>1, <2>2, <2>4, <2>5, PlainInv DEF Plain
<1> QED BY <1>3, <1>4

\* Thread t goes to a place without obligations, with record n.
LEMMA MovePlain ==
    ASSUME IInv, NEW t \in Ids, Alive(t), NEW n \in Thrs, n.p = thr[t].p, n.pc \in Plain \ {"asleep"},
           thr' = [thr EXCEPT ![t] = n], UNCHANGED <<apid, proc, reaped, oom>>,
           nooms' \in Nat, nthreads' \in Int, cwds' \in Int, ptable' \subseteq Ids
    PROVE  IInv'
<1>1. thr'[t] = n /\ (\A u \in Ids \ {t} : Like(u)) /\ thr' \in [Ids -> Thrs]
  BY OneThread DEF IInv
<1>2. TypeOK' /\ Quiet /\ OomInv'
  BY <1>1, Frame
<1> QED BY <1>1, <1>2, PlainInv

\* Thread t goes home: its call is over.
LEMMA MoveHome ==
    ASSUME IInv, NEW t \in Ids, Alive(t), thr' = [thr EXCEPT ![t] = Home(thr[t], "resched")],
           UNCHANGED <<apid, proc, reaped, oom>>,
           nooms' \in Nat, nthreads' \in Int, cwds' \in Int, ptable' \subseteq Ids
    PROVE  IInv'
<1>1. thr[t] \in Thrs /\ "resched" \in Places
  BY Fields, PlacesFacts DEF IInv
<1>2. PICK n \in Thrs : n = Home(thr[t], "resched") /\ n.p = thr[t].p /\ n.pc = "resched"
  BY <1>1, HomeFacts
<1> QED BY <1>2, MovePlain DEF Plain

\* Thread t begins to exit or to doom a process, with record n.
LEMMA MoveDead ==
    ASSUME IInv, NEW t \in Ids, Alive(t), NEW n \in Thrs, n.p = thr[t].p,
           \/ n.pc = "dead" /\ n.tid = t /\ n.tgt = thr[t].p
           \/ n.pc \in {"doom", "mark"} /\ n.tid = t /\ n.tgt = thr[t].p
           \/ n.pc \in {"doom", "mark"} /\ n.tid = None /\ n.tgt \in Ids,
           thr' = [thr EXCEPT ![t] = n], UNCHANGED <<apid, proc, reaped, oom>>,
           nooms' \in Nat, nthreads' \in Int, cwds' \in Int, ptable' \subseteq Ids
    PROVE  IInv'
<1>1. thr'[t] = n /\ (\A u \in Ids \ {t} : Like(u)) /\ thr' \in [Ids -> Thrs]
  BY OneThread DEF IInv
<1>2. TypeOK' /\ Quiet /\ OomInv'
  BY <1>1, Frame
<1> QED BY <1>1, <1>2, ToDead

\* The kernel stops, or nothing happens to threads and processes.
LEMMA StayInv ==
    ASSUME IInv, UNCHANGED <<apid, proc, reaped, oom, thr>>,
           nooms' \in Nat, nthreads' \in Int, cwds' \in Int, ptable' \subseteq Ids
    PROVE  IInv'
<1>1. \A u \in Ids : Like(u)
  BY SameThreads
<1>2. thr' \in [Ids -> Thrs]
  BY DEF IInv, TypeOK
<1>3. TypeOK' /\ Quiet /\ OomInv'
  BY <1>2, Frame
<1> QED BY <1>1, <1>3, NobodyInv

\* The frame of most steps.
LEMMA FrameTypes ==
    ASSUME IInv
    PROVE  nooms \in Nat /\ nthreads \in Int /\ cwds \in Int /\ ptable \subseteq Ids
BY DEF IInv, TypeOK

\* A trap, or the panic of a thread without its note.
LEMMA TrapInv ==
    ASSUME IInv, NEW t \in Ids, Trap(t)
    PROVE  IInv'
<1>1. Alive(t) /\ UNCHANGED <<apid, nthreads, ptable, proc, reaped, cwds, oom, nooms>>
  BY AliveAt DEF Trap, At, Plain
<1>2. thr' = [thr EXCEPT ![t] = Home(thr[t], "resched")] \/ thr' = thr
  BY DEF Trap, Trapped
<1>3. CASE thr' = [thr EXCEPT ![t] = Home(thr[t], "resched")]
  BY <1>1, <1>3, MoveHome, FrameTypes
<1>4. CASE thr' = thr
  BY <1>1, <1>4, StayInv, FrameTypes
<1> QED BY <1>2, <1>3, <1>4

\* exit.
LEMMA SysExitInv ==
    ASSUME IInv, NEW t \in Ids, NEW st \in Statuses, Sys_exit(t, st)
    PROVE  IInv'
<1>1. UNCHANGED <<apid, nthreads, ptable, proc, reaped, cwds, oom, nooms>> /\ At(t, "user")
  BY DEF Sys_exit, Syscall
<1>2. Alive(t) /\ thr[t] \in Thrs /\ thr[t].p \in Ids
  BY <1>1, AliveAt DEF At, Plain
<1>3. PICK n : n = Exiting(thr[t], "doom", thr[t].p, t, st)
  OBVIOUS
<1>4. n \in Thrs /\ n.pc = "doom" /\ n.p = thr[t].p /\ n.tgt = thr[t].p /\ n.tid = t
  <2>1. "doom" \in Places
    BY PlacesFacts
  <2>2. t \in Ids \cup {None} /\ thr[t].p \in Ids \cup {None}
    BY <1>2
  <2> QED BY <1>2, <1>3, <2>1, <2>2, Exits
<1>5. thr' = [thr EXCEPT ![t] = n] \/ thr' = thr
  BY <1>3 DEF Sys_exit, Syscall, Trapped, Exiting
<1>6. CASE thr' = [thr EXCEPT ![t] = n]
  BY <1>1, <1>2, <1>4, <1>6, MoveDead, FrameTypes
<1>7. CASE thr' = thr
  BY <1>1, <1>7, StayInv, FrameTypes
<1> QED BY <1>5, <1>6, <1>7

\* threxit.
LEMMA SysThrexitInv ==
    ASSUME IInv, NEW t \in Ids, NEW st \in Statuses, Sys_threxit(t, st)
    PROVE  IInv'
<1>1. UNCHANGED <<apid, nthreads, ptable, proc, reaped, cwds, oom, nooms>> /\ At(t, "user")
  BY DEF Sys_threxit, Syscall
<1>2. Alive(t) /\ thr[t] \in Thrs /\ thr[t].p \in Ids
  BY <1>1, AliveAt DEF At, Plain
<1>3. PICK n : n = Exiting(thr[t], "dead", thr[t].p, t, st)
  OBVIOUS
<1>4. n \in Thrs /\ n.pc = "dead" /\ n.p = thr[t].p /\ n.tgt = thr[t].p /\ n.tid = t
  <2>1. "dead" \in Places
    BY PlacesFacts
  <2>2. t \in Ids \cup {None} /\ thr[t].p \in Ids \cup {None}
    BY <1>2
  <2> QED BY <1>2, <1>3, <2>1, <2>2, Exits
<1>5. thr' = [thr EXCEPT ![t] = n] \/ thr' = thr
  BY <1>3 DEF Sys_threxit, Syscall, Trapped, Exiting
<1>6. CASE thr' = [thr EXCEPT ![t] = n]
  BY <1>1, <1>2, <1>4, <1>6, MoveDead, FrameTypes
<1>7. CASE thr' = thr
  BY <1>1, <1>7, StayInv, FrameTypes
<1> QED BY <1>5, <1>6, <1>7

\* kill.
LEMMA SysKillInv ==
    ASSUME IInv, NEW t \in Ids, NEW p \in Targets, Sys_kill(t, p)
    PROVE  IInv'
<1>1. UNCHANGED <<apid, nthreads, ptable, proc, reaped, cwds, oom, nooms>> /\ At(t, "user")
  BY DEF Sys_kill, Syscall
<1>2. Alive(t) /\ thr[t] \in Thrs /\ thr[t].p \in Ids
  BY <1>1, AliveAt DEF At, Plain
<1>3. PICK n : n = Aiming(thr[t], "doom", p, None)
  OBVIOUS
<1>4. n \in Thrs /\ n.pc = "doom" /\ n.p = thr[t].p /\ n.tgt \in Ids /\ n.tid = None
  <2>1. "doom" \in Places
    BY PlacesFacts
  <2>2. p \in Ids /\ p \in Ids \cup {None} /\ None \in Ids \cup {None}
    BY ProcAssumption
  <2>3. PICK v \in Ids \cup {None} : v = None
    OBVIOUS
  <2> QED BY <1>2, <1>3, <2>1, <2>2, <2>3, WithTarget
<1>5. thr' = [thr EXCEPT ![t] = n] \/ thr' = thr
  BY <1>3 DEF Sys_kill, Syscall, Trapped, Aiming
<1>6. CASE thr' = [thr EXCEPT ![t] = n]
  BY <1>1, <1>2, <1>4, <1>6, MoveDead, FrameTypes
<1>7. CASE thr' = thr
  BY <1>1, <1>7, StayInv, FrameTypes
<1> QED BY <1>5, <1>6, <1>7

\* wait4.
LEMMA SysWait4Inv ==
    ASSUME IInv, NEW t \in Ids, NEW id \in Ids \cup {Any}, NEW isproc \in BOOLEAN, NEW noblk \in BOOLEAN,
           Sys_wait4(t, id, isproc, noblk)
    PROVE  IInv'
<1>1. UNCHANGED <<apid, nthreads, ptable, proc, reaped, cwds, oom, nooms>> /\ At(t, "user")
  BY DEF Sys_wait4, Syscall
<1>2. Alive(t) /\ thr[t] \in Thrs /\ thr[t].p \in Ids
  BY <1>1, AliveAt DEF At, Plain
<1>3. PICK n : n = [thr[t] EXCEPT !.pc = "reap", !.id = id, !.isproc = isproc, !.noblk = noblk]
  OBVIOUS
<1>4. n \in Thrs /\ n.pc = "reap" /\ n.p = thr[t].p
  <2> DEFINE a == [thr[t] EXCEPT !.pc = "reap"]
             b == [a EXCEPT !.id = id]
             c == [b EXCEPT !.isproc = isproc]
             d == [c EXCEPT !.noblk = noblk]
  <2>1. a \in Thrs /\ a.pc = "reap" /\ a.p = thr[t].p
    BY <1>2, PlacesFacts DEF Thrs
  <2> HIDE DEF a
  <2>2. b \in Thrs /\ b.pc = "reap" /\ b.p = thr[t].p
    BY <2>1 DEF Thrs
  <2> HIDE DEF b
  <2>3. c \in Thrs /\ c.pc = "reap" /\ c.p = thr[t].p
    BY <2>2 DEF Thrs
  <2> HIDE DEF c
  <2>4. d \in Thrs /\ d.pc = "reap" /\ d.p = thr[t].p
    BY <2>3 DEF Thrs
  <2> QED BY <1>3, <2>4 DEF a, b, c
<1>5. thr' = [thr EXCEPT ![t] = n] \/ thr' = thr
  BY <1>3 DEF Sys_wait4, Syscall, Trapped
<1>6. CASE thr' = [thr EXCEPT ![t] = n]
  BY <1>1, <1>2, <1>4, <1>6, MovePlain, FrameTypes DEF Plain
<1>7. CASE thr' = thr
  BY <1>1, <1>7, StayInv, FrameTypes
<1> QED BY <1>5, <1>6, <1>7

\* A thread leaves run.
LEMMA LeaveInv ==
    ASSUME IInv, NEW t \in Ids, Leave(t)
    PROVE  IInv'
<1>1. /\ thr[t].pc = "exit" /\ nthreads' = nthreads - 1
      /\ UNCHANGED <<apid, ptable, proc, reaped, cwds, oom, nooms, panic>>
  BY DEF Leave, At
<1>2. PICK n : n = Going(NullThr, "gone")
  OBVIOUS
<1>3. n \in Thrs /\ n.pc = "gone"
  <2>1. NullThr \in Thrs /\ "gone" \in Places
    BY PlacesFacts DEF NullThr, Thrs
  <2> QED BY <1>2, <2>1, AtPlace
<1>4. thr' = [thr EXCEPT ![t] = n]
  BY <1>2 DEF Leave, Going
<1>5. thr'[t] = n /\ (\A u \in Ids \ {t} : Like(u)) /\ thr' \in [Ids -> Thrs]
  BY <1>3, <1>4, OneThread DEF IInv
<1>6. TypeOK' /\ Quiet /\ OomInv'
  <2>1. nthreads' \in Int
    BY <1>1 DEF IInv, TypeOK
  <2> QED BY <1>1, <1>5, <2>1, Frame, FrameTypes
<1>7. Ending(t) /\ ThreadOK(t) /\ thr[t].pc \notin {"none", "gone"}
  BY <1>1 DEF Ending, IInv, ThreadsInv
<1>8. ~Pending(t)' /\ thr'[t].pc \notin Holds /\ thr'[t].pc # "asleep"
  BY <1>3, <1>5 DEF Pending, Holds, Creates, Ends
<1>9. ThreadOK(t)'
  <2>1. t <= apid'
    BY <1>1, <1>7 DEF ThreadOK
  <2>2. ~Alive(t)' /\ ~Ending(t)' /\ thr'[t].pc = "gone"
    BY <1>3, <1>5 DEF Alive, Ending, Ends
  <2> QED BY <2>1, <2>2 DEF ThreadOK, Holds, Creates, Ends
<1> QED BY <1>5, <1>6, <1>7, <1>8, <1>9, QuietOne

\* One process changes.
LEMMA OneProc ==
    ASSUME TypeOK, NEW p \in Ids, NEW r \in Procs, proc' = [proc EXCEPT ![p] = r]
    PROVE  /\ proc'[p] = r /\ \A q \in Ids \ {p} : proc'[q] = proc[q]
           /\ proc' \in [Ids -> Procs]
BY DEF TypeOK

\* A process is doomed.
LEMMA DoomedQuiet ==
    ASSUME IInv, NEW p \in Ids, Doomed(p), apid' = apid, reaped' = reaped
    PROVE  Quiet /\ proc' \in [Ids -> Procs]
<1> DEFINE r == [proc[p] EXCEPT !.doomed = TRUE]
<1>1. proc' = [proc EXCEPT ![p] = r]
  BY DEF Doomed
<1>2. proc[p] \in Procs
  BY Fields DEF IInv
<1>3. /\ r \in Procs /\ r.notes = proc[p].notes /\ r.freed = proc[p].freed
      /\ r.status = proc[p].status /\ r.pwait = proc[p].pwait /\ r.twait = proc[p].twait
  BY <1>2 DEF Procs
<1> HIDE DEF r
<1>4. proc'[p] = r /\ (\A q \in Ids \ {p} : proc'[q] = proc[q]) /\ proc' \in [Ids -> Procs]
  BY <1>1, <1>3, OneProc DEF IInv
<1>5. \A q \in Ids : /\ proc'[q].notes = proc[q].notes /\ proc'[q].freed = proc[q].freed
                     /\ proc'[q].status = proc[q].status
                     /\ proc'[q].pwait = proc[q].pwait /\ proc'[q].twait = proc[q].twait
  BY <1>3, <1>4
<1> QED BY <1>4, <1>5 DEF Quiet

\* Doomall, its first half.
LEMMA DoomInv ==
    ASSUME IInv, NEW t \in Ids, Doom(t)
    PROVE  IInv'
<1>1. /\ thr[t].pc = "doom" /\ Doomed(thr[t].tgt)
      /\ UNCHANGED <<apid, nthreads, ptable, reaped, cwds, oom, nooms, panic>>
  BY DEF Doom, At
<1>2. Alive(t) /\ thr[t] \in Thrs /\ thr[t].p \in Ids
  BY <1>1, AliveAt
<1>3. thr[t].tgt \in Ids /\ (thr[t].tid # None => thr[t].tid = t /\ thr[t].tgt = thr[t].p)
  BY <1>1 DEF IInv, ThreadsInv, ThreadOK
<1>4. PICK n : n = Going(thr[t], "mark")
  OBVIOUS
<1>5. n \in Thrs /\ n.pc = "mark" /\ n.p = thr[t].p /\ n.tgt = thr[t].tgt /\ n.tid = thr[t].tid
  <2>1. "mark" \in Places
    BY PlacesFacts
  <2> QED BY <1>2, <1>4, <2>1, AtPlace
<1>6. thr' = [thr EXCEPT ![t] = n]
  BY <1>4 DEF Doom, Goto, Going
<1>7. thr'[t] = n /\ (\A u \in Ids \ {t} : Like(u)) /\ thr' \in [Ids -> Thrs]
  BY <1>5, <1>6, OneThread DEF IInv
<1>8. Quiet /\ proc' \in [Ids -> Procs]
  BY <1>1, <1>3, DoomedQuiet
<1>9. TypeOK' /\ OomInv'
  BY <1>1, <1>7, <1>8 DEF IInv, TypeOK, OomInv
<1> QED BY <1>2, <1>3, <1>5, <1>7, <1>8, <1>9, ToDead

\* Doomall, its second half.
LEMMA MarkInv ==
    ASSUME IInv, NEW t \in Ids, Mark(t)
    PROVE  IInv'
<1>1. /\ thr[t].pc = "mark"
      /\ UNCHANGED <<apid, nthreads, ptable, proc, reaped, cwds, oom, nooms, panic>>
  BY DEF Mark, At
<1>2. Alive(t) /\ thr[t] \in Thrs /\ thr[t].p \in Ids
  BY <1>1, AliveAt
<1>3. thr[t].tgt \in Ids /\ (thr[t].tid # None => thr[t].tid = t /\ thr[t].tgt = thr[t].p)
  BY <1>1 DEF IInv, ThreadsInv, ThreadOK
<1> DEFINE m == Marked(thr[t].tgt)
           n == IF thr[t].tid = None THEN Home(m[t], "resched") ELSE [m[t] EXCEPT !.pc = "dead"]
<1>4. m \in [Ids -> Thrs]
  <2>1. \A u \in Ids : m[u] \in Thrs
    BY <1>3, MarkedFacts
  <2>2. m = [u \in Ids |-> m[u]]
    BY DEF Marked, Broadcast
  <2> QED BY <2>1, <2>2
<1>5. \A u \in Ids : /\ m[u] \in Thrs /\ m[u].p = thr[u].p /\ m[u].tgt = thr[u].tgt
                     /\ m[u].tid = thr[u].tid /\ m[u].id = thr[u].id /\ m[u].isproc = thr[u].isproc
                     /\ m[u].pc = thr[u].pc \/ (thr[u].pc = "asleep" /\ m[u].pc = "awake")
                     /\ m[u].pc = "asleep" => m[u].killed = thr[u].killed
  BY <1>3, MarkedFacts
<1>6. thr' = [m EXCEPT ![t] = n]
  BY DEF Mark
<1> HIDE DEF m
<1>7. thr'[t] = n /\ \A u \in Ids \ {t} : thr'[u] = m[u]
  BY <1>4, <1>6
<1>8. \A u \in Ids \ {t} : Like(u)
  <2> HIDE DEF n
  <2> QED BY <1>5, <1>7 DEF Like
<1>9. CASE thr[t].tid = None
  <2>1. n = Home(m[t], "resched")
    BY <1>9
  <2>2. n \in Thrs /\ n.p = thr[t].p /\ n.pc = "resched"
    <3>1. "resched" \in Places /\ m[t] \in Thrs
      BY <1>5, PlacesFacts
    <3> HIDE DEF n
    <3>2. PICK r \in Thrs : r = m[t]
      BY <3>1
    <3>3. Home(r, "resched") \in Thrs /\ Home(r, "resched").p = r.p /\ Home(r, "resched").pc = "resched"
      BY <3>1, HomeFacts
    <3> QED BY <1>5, <2>1, <3>2, <3>3
  <2> HIDE DEF n
  <2>3. thr' \in [Ids -> Thrs]
    BY <1>4, <1>6, <2>2
  <2>4. TypeOK' /\ Quiet /\ OomInv'
    BY <1>1, <2>3, Frame, FrameTypes
  <2> QED BY <1>2, <1>7, <1>8, <2>2, <2>4, PlainInv DEF Plain
<1>10. CASE thr[t].tid # None
  <2>1. n = Going(m[t], "dead")
    BY <1>10 DEF Going
  <2>2. n \in Thrs /\ n.p = thr[t].p /\ n.pc = "dead" /\ n.tid = t /\ n.tgt = thr[t].p
    <3>1. "dead" \in Places /\ m[t] \in Thrs
      BY <1>5, PlacesFacts
    <3> HIDE DEF n
    <3>2. PICK r \in Thrs : r = m[t]
      BY <3>1
    <3>3. LET g == Going(r, "dead")
          IN  g \in Thrs /\ g.p = r.p /\ g.pc = "dead" /\ g.tid = r.tid /\ g.tgt = r.tgt
      BY <3>1, AtPlace
    <3> QED BY <1>3, <1>5, <1>10, <2>1, <3>2, <3>3
  <2> HIDE DEF n
  <2>3. thr' \in [Ids -> Thrs]
    BY <1>4, <1>6, <2>2
  <2>4. TypeOK' /\ Quiet /\ OomInv'
    BY <1>1, <2>3, Frame, FrameTypes
  <2> QED BY <1>2, <1>7, <1>8, <2>2, <2>4, ToDead
<1> QED BY <1>9, <1>10

\* A thread has finished Thread_dead: to user code, or out of run.
LEMMA DoneOK ==
    ASSUME IInv, NEW t \in Ids, thr[t].pc \in Ends, apid' = apid, thr'[t] = Done(t),
           \A p \in Ids : proc'[p].notes = proc[p].notes
    PROVE  /\ ThreadOK(t)' /\ ~Pending(t)' /\ thr'[t].pc \notin Holds /\ thr'[t].pc # "asleep"
           /\ thr'[t].p = thr[t].p /\ thr'[t] \in Thrs /\ thr[t].pc \notin {"none", "gone"}
<1>1. ThreadOK(t) /\ thr[t] \in Thrs /\ thr[t].pc \notin {"none", "gone"}
  BY Fields DEF IInv, ThreadsInv, Ends
<1>2. thr[t].p \in 1 .. apid /\ thr[t].p \in Ids /\ t \in 1 .. apid
  BY <1>1, AliveFacts
<1>3. CASE thr[t].tid = t
  <2>1. thr'[t] = Home(thr[t], "exit")
    BY <1>3 DEF Done
  <2>2. thr'[t] \in Thrs /\ thr'[t].p = thr[t].p /\ thr'[t].pc = "exit"
    <3>1. "exit" \in Places
      BY PlacesFacts
    <3>2. PICK r \in Thrs : r = thr[t]
      BY <1>1
    <3>3. Home(r, "exit") \in Thrs /\ Home(r, "exit").p = r.p /\ Home(r, "exit").pc = "exit"
      BY <3>1, HomeFacts
    <3> QED BY <2>1, <3>2, <3>3
  <2>3. t \notin proc'[thr'[t].p].notes
    BY <1>1, <1>2, <1>3, <2>2 DEF ThreadOK, Ending
  <2>4. thr'[t].pc \notin Holds /\ thr'[t].pc \notin Creates \cup {"dead"}
    BY <2>2 DEF Holds, Creates, Ends
  <2>5. ~Alive(t)' /\ ~Pending(t)'
    BY <2>2 DEF Alive, Ending, Pending
  <2>6. ThreadOK(t)'
    <3>1. t <= apid'
      BY <1>1 DEF ThreadOK
    <3> QED BY <1>2, <2>2, <2>3, <2>4, <2>5, <3>1 DEF ThreadOK
  <2> QED BY <1>1, <2>2, <2>4, <2>5, <2>6
<1>4. CASE thr[t].tid # t
  <2>1. thr'[t] = Home(thr[t], "resched")
    BY <1>4 DEF Done
  <2>2. thr'[t] \in Thrs /\ thr'[t].p = thr[t].p /\ thr'[t].pc = "resched"
    <3>1. "resched" \in Places
      BY PlacesFacts
    <3>2. PICK r \in Thrs : r = thr[t]
      BY <1>1
    <3>3. Home(r, "resched") \in Thrs /\ Home(r, "resched").p = r.p /\ Home(r, "resched").pc = "resched"
      BY <3>1, HomeFacts
    <3> QED BY <2>1, <3>2, <3>3
  <2>3. Alive(t)
    BY <1>4 DEF Alive, Ending, Ends
  <2>4. t \in proc'[thr'[t].p].notes
    BY <1>1, <1>2, <2>2, <2>3 DEF ThreadOK
  <2>5. thr'[t].pc \notin Holds /\ thr'[t].pc \notin Creates \cup {"dead"}
    BY <2>2 DEF Holds, Creates, Ends
  <2>6. ~Ending(t)' /\ ~Pending(t)'
    BY <2>2 DEF Ending, Pending, Ends
  <2>7. ThreadOK(t)'
    <3>1. t <= apid'
      BY <1>1 DEF ThreadOK
    <3> QED BY <1>2, <2>2, <2>4, <2>5, <2>6, <3>1 DEF ThreadOK
  <2> QED BY <1>1, <2>2, <2>5, <2>6, <2>7
<1> QED BY <1>3, <1>4

\* The process leaves the table.
LEMMA ProcDelInv ==
    ASSUME IInv, NEW t \in Ids, Proc_del(t)
    PROVE  IInv'
<1>1. /\ thr[t].pc = "del" /\ ptable' = ptable \ {thr[t].tgt} /\ thr' = [thr EXCEPT ![t] = Done(t)]
      /\ UNCHANGED <<apid, nthreads, proc, reaped, cwds, oom, nooms, panic>>
  BY DEF Proc_del, At
<1>2. thr'[t] = Done(t) /\ (\A u \in Ids \ {t} : Like(u))
      /\ (Done(t) \in Thrs => thr' \in [Ids -> Thrs])
  BY <1>1, OneThread DEF IInv
<1>3. /\ ThreadOK(t)' /\ ~Pending(t)' /\ thr'[t].pc \notin Holds /\ thr'[t].pc # "asleep"
      /\ thr'[t].p = thr[t].p /\ thr'[t] \in Thrs /\ thr[t].pc \notin {"none", "gone"}
  BY <1>1, <1>2, DoneOK DEF Ends
<1>4. TypeOK' /\ Quiet /\ OomInv'
  <2>1. thr' \in [Ids -> Thrs] /\ ptable' \subseteq Ids
    BY <1>1, <1>2, <1>3, FrameTypes
  <2> QED BY <1>1, <2>1, Frame, FrameTypes
<1> QED BY <1>2, <1>3, <1>4, QuietOne

-------------------------------------------------------------------------------
(***************************************************************************)
(* fork and wait: the steps that only move threads.                        *)
(***************************************************************************)
\* outproc takes the child back.
LEMMA OutprocInv ==
    ASSUME IInv, NEW t \in Ids, Alive(t), Outproc(t), UNCHANGED <<apid, reaped, cwds, oom, nooms>>
    PROVE  IInv'
<1>1. nthreads' \in Int /\ ptable' \subseteq Ids
  BY FrameTypes DEF Outproc
<1>2. thr' = [thr EXCEPT ![t] = Home(thr[t], "resched")] /\ proc' = proc
  BY DEF Outproc, Return
<1> QED BY <1>1, <1>2, MoveHome, FrameTypes

\* There is no page table for the child.
LEMMA ForkNoPmapInv ==
    ASSUME IInv, NEW t \in Ids, ForkNoPmap(t)
    PROVE  IInv'
<1>1. Alive(t)
  BY AliveAt DEF ForkNoPmap, At, Creates
<1> QED BY <1>1, OutprocInv DEF ForkNoPmap

\* A call begins, at a place without obligations.
LEMMA BeginInv ==
    ASSUME IInv, NEW t \in Ids, NEW pc \in {"fork", "tfork"}, Syscall(t, [thr[t] EXCEPT !.pc = pc]),
           UNCHANGED <<apid, nthreads, ptable, proc, reaped, cwds, oom, nooms>>
    PROVE  IInv'
<1>1. Alive(t) /\ thr[t] \in Thrs
  BY AliveAt DEF Syscall, At, Plain
<1>2. PICK n : n = Going(thr[t], pc)
  OBVIOUS
<1>3. n \in Thrs /\ n.pc = pc /\ n.p = thr[t].p
  <2>1. pc \in Places
    BY PlacesFacts
  <2> QED BY <1>1, <1>2, <2>1, AtPlace
<1>4. thr' = [thr EXCEPT ![t] = n] \/ thr' = thr
  BY <1>2 DEF Syscall, Trapped, Going
<1>5. CASE thr' = [thr EXCEPT ![t] = n]
  BY <1>1, <1>3, <1>5, MovePlain, FrameTypes DEF Plain
<1>6. CASE thr' = thr
  BY <1>6, StayInv, FrameTypes
<1> QED BY <1>4, <1>5, <1>6

\* fork, of a process or of a thread.
LEMMA SysForkInv ==
    ASSUME IInv, NEW t \in Ids, Sys_fork(t) \/ Sys_tfork(t)
    PROVE  IInv'
<1>1. CASE Sys_fork(t)
  <2>1. "fork" \in {"fork", "tfork"}
    OBVIOUS
  <2> QED BY <1>1, <2>1, BeginInv DEF Sys_fork
<1>2. CASE Sys_tfork(t)
  <2>1. "tfork" \in {"fork", "tfork"}
    OBVIOUS
  <2> QED BY <1>2, <2>1, BeginInv DEF Sys_tfork
<1> QED BY <1>1, <1>2

\* The parent's thread calls Thread_dead for a child without memory.
LEMMA ForkNoMemInv ==
    ASSUME IInv, NEW t \in Ids, ForkNoMem(t)
    PROVE  IInv'
<1>1. /\ thr[t].pc = "vmfork"
      /\ UNCHANGED <<apid, nthreads, ptable, proc, reaped, cwds, oom, nooms, panic>>
  BY DEF ForkNoMem, At
<1>2. Alive(t) /\ thr[t] \in Thrs /\ thr[t].p \in Ids /\ ThreadOK(t)
  BY <1>1, AliveAt DEF Creates, IInv, ThreadsInv
<1> DEFINE a == [thr[t] EXCEPT !.pc = "dead"]
           b == [a EXCEPT !.st = 0]
           n == [b EXCEPT !.use = FALSE]
<1>3. a \in Thrs /\ a.pc = "dead" /\ a.p = thr[t].p /\ a.tgt = thr[t].tgt /\ a.tid = thr[t].tid
  BY <1>2, PlacesFacts DEF Thrs
<1>4. thr' = [thr EXCEPT ![t] = n]
  BY DEF ForkNoMem
<1> HIDE DEF a
<1>5. b \in Thrs /\ b.pc = "dead" /\ b.p = thr[t].p /\ b.tgt = thr[t].tgt /\ b.tid = thr[t].tid
  BY <1>3, PlacesFacts DEF Thrs
<1> HIDE DEF b
<1>6. n \in Thrs /\ n.pc = "dead" /\ n.p = thr[t].p /\ n.tgt = thr[t].tgt /\ n.tid = thr[t].tid
  BY <1>5 DEF Thrs
<1> HIDE DEF n
<1>7. thr'[t] = n /\ (\A u \in Ids \ {t} : Like(u)) /\ thr' \in [Ids -> Thrs]
  BY <1>4, <1>6, OneThread DEF IInv
<1>8. TypeOK' /\ Quiet /\ OomInv'
  BY <1>1, <1>7, Frame, FrameTypes
<1>9. thr[t].pc \in Holds /\ thr[t].pc \in Creates /\ thr[t].pc \notin {"none", "gone"} /\ thr[t].pc # "none"
  BY <1>1 DEF Holds, Creates
<1>10. /\ thr[t].tgt \in 1 .. apid /\ thr[t].tid \in 1 .. apid /\ thr[t].tid # t
       /\ thr[thr[t].tid].pc = "none" /\ thr[t].tid \in proc[thr[t].tgt].notes
       /\ t \in proc[thr[t].p].notes /\ thr[t].p \in 1 .. apid /\ t <= apid
  BY <1>2, <1>9 DEF ThreadOK
<1>11. thr[t].tid \in Ids
  BY <1>10, Fields DEF IInv
<1>12. thr'[thr[t].tid].pc = "none"
  BY <1>7, <1>10, <1>11 DEF Like
<1>13. ~Ending(t)' /\ ~Pending(t)' /\ thr'[t].pc # "asleep" /\ thr'[t].pc \notin Creates
       /\ thr'[t].pc \notin {"doom", "mark", "newtid", "putpid", "del", "none", "gone"}
  BY <1>6, <1>7 DEF Ending, Pending, Ends, Creates
<1>14. ThreadOK(t)'
  BY <1>1, <1>6, <1>7, <1>10, <1>12, <1>13 DEF ThreadOK
<1> QED BY <1>6, <1>7, <1>8, <1>9, <1>13, <1>14, QuietOne

\* The child runs: its thread leaves its creator's hands.
LEMMA SchedAddInv ==
    ASSUME IInv, NEW t \in Ids, Sched_add(t)
    PROVE  IInv'
<1>1. /\ thr[t].pc = "vmfork"
      /\ UNCHANGED <<apid, nthreads, ptable, proc, reaped, cwds, oom, nooms, panic>>
  BY DEF Sched_add, At
<1>2. Alive(t) /\ thr[t] \in Thrs /\ thr[t].p \in Ids /\ ThreadOK(t)
  BY <1>1, AliveAt DEF Creates, IInv, ThreadsInv
<1>3. thr[t].pc \in Holds /\ thr[t].pc \in Creates /\ thr[t].pc \notin {"none", "gone"} /\ thr[t].pc # "none"
  BY <1>1 DEF Holds, Creates
<1>4. /\ thr[t].tgt \in 1 .. apid /\ thr[t].tid \in 1 .. apid /\ thr[t].tid # t
      /\ thr[thr[t].tid].pc = "none" /\ thr[t].tid \in proc[thr[t].tgt].notes
      /\ t \in proc[thr[t].p].notes /\ thr[t].p \in 1 .. apid /\ t <= apid
  BY <1>2, <1>3 DEF ThreadOK
<1>5. PICK c \in Ids : c = thr[t].tid
  BY <1>4, Fields DEF IInv
<1>6. PICK q \in Ids : q = thr[t].tgt
  BY <1>4, Fields DEF IInv
<1> DEFINE n == Home(thr[t], "resched")
           m == [thr[c] EXCEPT !.p = q, !.pc = "reserve"]
<1>7. n \in Thrs /\ n.p = thr[t].p /\ n.pc = "resched"
  <2>1. "resched" \in Places
    BY PlacesFacts
  <2> QED BY <1>2, <2>1, HomeFacts
<1>8. m \in Thrs /\ m.p = q /\ m.pc = "reserve"
  <2>1. thr[c] \in Thrs /\ "reserve" \in Places
    BY Fields, PlacesFacts DEF IInv
  <2> QED BY <2>1 DEF Thrs
<1>9. thr' = [thr EXCEPT ![t] = n, ![c] = m]
  <2>1. [thr EXCEPT ![t] = n][c] = thr[c]
    BY <1>4, <1>5 DEF IInv, TypeOK
  <2> QED BY <1>5, <1>6, <2>1 DEF Sched_add
<1> HIDE DEF n, m
<1>10. thr'[t] = n /\ thr'[c] = m /\ (\A u \in Ids \ {t, c} : thr'[u] = thr[u]) /\ thr' \in [Ids -> Thrs]
  BY <1>4, <1>5, <1>7, <1>8, <1>9 DEF IInv, TypeOK
<1>11. TypeOK' /\ Quiet /\ OomInv'
  BY <1>1, <1>10, Frame, FrameTypes
<1>12. PICK C \in SUBSET Ids : C = {t, c}
  OBVIOUS
<1>13. \A u \in Ids \ C : Like(u)
  BY <1>10, <1>12 DEF Like
<1>14. ThreadOK(t)' /\ ThreadOK(c)'
  <2>1. ASSUME NEW u \in {t, c} PROVE ThreadOK(u)'
    <3>1. thr'[u].pc \in {"resched", "reserve"} /\ thr'[u].p \in 1 .. apid /\ u <= apid /\ u \in proc[thr'[u].p].notes
      <4>1. apid \in Nat
        BY Fields DEF IInv
      <4>2. CASE u = t
        BY <1>4, <1>7, <1>10, <4>2
      <4>3. CASE u = c
        BY <1>4, <1>5, <1>6, <1>8, <1>10, <4>1, <4>3
      <4> QED BY <4>2, <4>3
    <3>2. ~Ending(u)' /\ thr'[u].pc \notin Holds /\ thr'[u].pc \notin Creates \cup {"dead"}
      BY <3>1 DEF Ending, Ends, Holds, Creates
    <3> QED BY <1>1, <3>1, <3>2 DEF ThreadOK
  <2>2. t \in {t, c} /\ c \in {t, c}
    OBVIOUS
  <2>3. ThreadOK(t)'
    BY <2>1, <2>2
  <2>4. ThreadOK(c)'
    BY <2>1, <2>2
  <2> QED BY <2>3, <2>4
<1>15. \A u \in C : thr'[u].pc \in {"resched", "reserve"}
  BY <1>7, <1>8, <1>10, <1>12
<1>16. apid \in Nat /\ apid <= apid' /\ apid' = apid /\ 1 .. apid \subseteq Ids /\ None \notin Ids
  <2>1. apid \in Nat /\ apid' = apid /\ 1 .. apid \subseteq Ids /\ None \notin Ids
    BY <1>1, Fields, IdsFacts DEF IInv
  <2> QED BY <2>1
<1>17. ThreadsInv'
  <2>1. NotesKept(None) /\ FreedKept
    BY <1>16, <1>11 DEF Quiet, NotesKept, FreedKept
  <2>2. \A d \in C : \/ thr[d].pc # "none" \/ \E e \in C : thr[e].pc \in Holds /\ thr[e].tid = d
    BY <1>3, <1>5, <1>12
  <2>3. \A d \in C : ThreadOK(d)'
    <3> SUFFICES ASSUME NEW d \in C PROVE ThreadOK(d)'
      OBVIOUS
    <3>1. CASE d = t
      BY <1>14, <3>1
    <3>2. CASE d = c
      BY <1>14, <3>2
    <3> QED BY <1>12, <3>1, <3>2
  <2>4. \A d \in C : thr'[d].pc \notin Holds
    BY <1>15 DEF Holds, Creates, Ends
  <2> QED BY <1>11, <1>13, <1>16, <2>1, <2>2, <2>3, <2>4, ThreadsStep
<1>18. NotesInv'
  <2>1. ASSUME NEW u \in Ids
        PROVE  \/ thr'[u].p = thr[u].p /\ (thr[u].pc = "none" => thr'[u].pc = "none")
               \/ \A p \in Ids : u \in proc'[p].notes => thr'[u].p = p
    <3>1. CASE u = t
      BY <1>3, <1>7, <1>10, <3>1
    <3>2. CASE u = c
      <4>1. c \in proc[q].notes /\ thr'[c].p = q
        BY <1>4, <1>5, <1>6, <1>8, <1>10
      <4>2. \A p \in Ids : c \in proc[p].notes => p = q
        BY <4>1 DEF IInv, NotesInv
      <4> QED BY <1>1, <3>2, <4>1, <4>2
    <3>3. CASE u \notin {t, c}
      BY <1>10, <3>3
    <3> QED BY <3>1, <3>2, <3>3
  <2>2. \A p \in Ids : proc'[p].notes = proc[p].notes /\ proc'[p].freed = proc[p].freed
    BY <1>1
  <2> QED BY <1>11, <1>16, <2>1, <2>2, NotesStep
<1>19. \A p \in Ids, b \in BOOLEAN : WList(p, b)' = WList(p, b)
  BY <1>1 DEF WList
<1>20. ListsInv'
  <2>1. UniqueIds' /\ \A i \in Ids : Listed(i)' => Listed(i)
    BY <1>19, SameUnique
  <2>2. \A i \in Ids : reaped'[i] = reaped[i]
    BY <1>1
  <2>3. \A u \in Ids : Pending(u)' => Pending(u) /\ NewId(u)' = NewId(u)
    BY <1>12, <1>13, <1>15 DEF Pending, NewId, Like
  <2> QED BY <1>11, <1>16, <2>1, <2>2, <2>3, ListsStep DEF ListsChange
<1>21. SleepsForAReason'
  <2>1. \A d \in C : thr'[d].pc # "asleep"
    BY <1>15
  <2> QED BY <1>11, <1>13, <1>19, <2>1, SleepSame
<1>22. ExitInv'
  BY <1>1, ExitStep
<1> QED BY <1>11, <1>17, <1>18, <1>20, <1>21, <1>22 DEF IInv

\* ECHILD.
LEMMA ReapNoneInv ==
    ASSUME IInv, NEW t \in Ids, ReapNone(t)
    PROVE  IInv'
<1>1. Alive(t)
  BY AliveAt DEF ReapNone, At, Plain
<1> QED BY <1>1, MoveHome, FrameTypes DEF ReapNone, Return

\* KillableWait: the thread sleeps only if it is not killed.
LEMMA ReapWaitInv ==
    ASSUME IInv, NEW t \in Ids, ReapWait(t)
    PROVE  IInv'
<1>1. Alive(t) /\ thr[t] \in Thrs /\ thr[t].p \in Ids
  BY AliveAt DEF ReapWait, At, Plain
<1>2. UNCHANGED <<apid, nthreads, ptable, proc, reaped, cwds, oom, nooms, panic>>
      /\ Matches(t) # {} /\ Ready(t) = {}
  BY DEF ReapWait
<1>3. CASE thr[t].noblk \/ ~MaySleep(t)
  BY <1>1, <1>2, <1>3, MoveHome, FrameTypes DEF ReapWait, Return
<1>4. CASE ~(thr[t].noblk \/ ~MaySleep(t))
  <2>1. PICK n : n = Going(thr[t], "asleep")
    OBVIOUS
  <2>2. /\ n \in Thrs /\ n.pc = "asleep" /\ n.p = thr[t].p /\ n.id = thr[t].id
        /\ n.isproc = thr[t].isproc /\ n.killed = thr[t].killed
    <3>1. "asleep" \in Places
      BY PlacesFacts
    <3> QED BY <1>1, <2>1, <3>1, AtPlace
  <2>3. thr' = [thr EXCEPT ![t] = n]
    BY <1>4, <2>1 DEF ReapWait, Goto, Going
  <2>4. thr'[t] = n /\ (\A u \in Ids \ {t} : Like(u)) /\ thr' \in [Ids -> Thrs]
    BY <2>2, <2>3, OneThread DEF IInv
  <2>5. TypeOK' /\ Quiet /\ OomInv'
    BY <1>2, <2>4, Frame, FrameTypes
  <2>6. MaySleepNow(t)
    BY <1>2, <1>4, <2>2, <2>4 DEF MaySleepNow, MaySleep
  <2> QED BY <1>1, <2>2, <2>4, <2>5, <2>6, PlainInv DEF Plain
<1> QED BY <1>3, <1>4

\* A thread goes on to a place without obligations.
LEMMA GoInv ==
    ASSUME IInv, NEW t \in Ids, Alive(t), NEW pc \in Plain \ {"asleep"}, Goto(t, pc),
           UNCHANGED <<apid, nthreads, ptable, proc, reaped, cwds, oom>>, nooms' \in Nat
    PROVE  IInv'
<1>1. thr[t] \in Thrs /\ pc \in Places
  BY Fields DEF Plain, Places, IInv
<1>2. PICK n : n = Going(thr[t], pc)
  OBVIOUS
<1>3. n \in Thrs /\ n.pc = pc /\ n.p = thr[t].p
  BY <1>1, <1>2, AtPlace
<1>4. thr' = [thr EXCEPT ![t] = n]
  BY <1>2 DEF Goto, Going
<1> QED BY <1>3, <1>4, MovePlain, FrameTypes

\* A reservation succeeds.
LEMMA ResbeginInv ==
    ASSUME IInv, NEW t \in Ids, Resbegin(t)
    PROVE  IInv'
<1>1. Alive(t) /\ Goto(t, "resched") /\ UNCHANGED <<apid, nthreads, ptable, proc, reaped, cwds, oom, nooms>>
  BY AliveAt DEF Resbegin, At, Plain
<1>2. "resched" \in Plain \ {"asleep"}
  BY DEF Plain
<1> QED BY <1>1, <1>2, GoInv, FrameTypes

\* A sleeper looks again, or returns EINTR.
LEMMA ReapWakeInv ==
    ASSUME IInv, NEW t \in Ids, ReapWake(t)
    PROVE  IInv'
<1>1. Alive(t) /\ UNCHANGED <<apid, nthreads, ptable, proc, reaped, cwds, oom, nooms>>
  BY AliveAt DEF ReapWake, At, Plain
<1>2. CASE thr[t].killed
  BY <1>1, <1>2, MoveHome, FrameTypes DEF ReapWake, Return
<1>3. CASE ~thr[t].killed
  <2>1. Goto(t, "reap") /\ "reap" \in Plain \ {"asleep"}
    BY <1>3 DEF ReapWake, Plain
  <2> QED BY <1>1, <2>1, GoInv, FrameTypes
<1> QED BY <1>2, <1>3

-------------------------------------------------------------------------------
(***************************************************************************)
(* Out of memory.                                                          *)
(***************************************************************************)
\* A reservation fails.
LEMMA ReserveInv ==
    ASSUME IInv, NEW t \in Ids, Reserve(t)
    PROVE  IInv'
<1>1. Alive(t) /\ nooms' \in Nat /\ UNCHANGED <<apid, nthreads, ptable, proc, reaped, cwds, oom>>
  BY AliveAt, FrameTypes DEF Reserve, At, Plain
<1>2. PICK pc \in Plain \ {"asleep"} : Goto(t, pc)
  <2>1. "resched" \in Plain \ {"asleep"} /\ "oomsend" \in Plain \ {"asleep"}
    BY DEF Plain
  <2>2. Goto(t, "resched") \/ Goto(t, "oomsend")
    BY DEF Reserve
  <2> QED BY <2>1, <2>2
<1> QED BY <1>1, <1>2, GoInv

\* The killer takes a message.
LEMMA OomRecvInv ==
    ASSUME IInv, NEW t \in Ids, OomRecv(t)
    PROVE  IInv'
<1>1. /\ thr[t].pc = "oomsend" /\ oom' = [pc |-> "judge", msg |-> t, vic |-> None]
      /\ UNCHANGED <<apid, nthreads, ptable, proc, reaped, cwds, nooms, panic>>
  BY DEF OomRecv, At
<1>2. Alive(t) /\ thr[t] \in Thrs
  BY <1>1, AliveAt DEF Plain
<1>3. PICK n : n = Going(thr[t], "oomwait")
  OBVIOUS
<1>4. n \in Thrs /\ n.pc = "oomwait" /\ n.p = thr[t].p
  <2>1. "oomwait" \in Places
    BY PlacesFacts
  <2> QED BY <1>2, <1>3, <2>1, AtPlace
<1>5. thr' = [thr EXCEPT ![t] = n]
  BY <1>3 DEF OomRecv, Goto, Going
<1>6. thr'[t] = n /\ (\A u \in Ids \ {t} : Like(u)) /\ thr' \in [Ids -> Thrs]
  BY <1>4, <1>5, OneThread DEF IInv
<1>7. TypeOK' /\ Quiet /\ OomInv'
  BY <1>1, <1>6 DEF IInv, TypeOK, Quiet, OomInv
<1> QED BY <1>2, <1>4, <1>6, <1>7, PlainInv DEF Plain

\* A thread that waits for memory is killed.
LEMMA OomKilledInv ==
    ASSUME IInv, NEW t \in Ids, OomKilled(t)
    PROVE  IInv'
<1>1. Alive(t)
  BY AliveAt DEF OomKilled, At, Plain
<1> QED BY <1>1, MoveHome, FrameTypes DEF OomKilled, Return

\* Only the killer moves.
LEMMA OomOnly ==
    ASSUME IInv, UNCHANGED <<apid, nthreads, ptable, proc, thr, reaped, cwds, nooms>>, OomInv',
           oom' \in [pc : {"idle", "judge", "doom", "mark", "wait"},
                     msg : Ids \cup {None}, vic : Ids \cup {None}]
    PROVE  IInv'
<1>1. \A u \in Ids : Like(u)
  BY SameThreads
<1>2. TypeOK' /\ Quiet
  BY DEF IInv, TypeOK, Quiet
<1> QED BY <1>1, <1>2, NobodyInv

\* The sender tries again.
LEMMA OomResumeInv ==
    ASSUME IInv, OomResume
    PROVE  IInv'
<1>1. /\ oom.pc = "judge" /\ oom' = [pc |-> "idle", msg |-> None, vic |-> None]
      /\ UNCHANGED <<apid, nthreads, ptable, proc, reaped, cwds, nooms, panic>>
  BY DEF OomResume
<1>2. PICK t \in Ids : t = oom.msg
  BY <1>1 DEF IInv, OomInv
<1>3. OomInv'
  BY <1>1 DEF OomInv
<1>4. oom' \in [pc : {"idle", "judge", "doom", "mark", "wait"},
                msg : Ids \cup {None}, vic : Ids \cup {None}]
  BY <1>1
<1>5. CASE thr[t].pc = "oomwait"
  <2>1. Alive(t) /\ thr[t] \in Thrs
    BY <1>5, AliveAt DEF Plain
  <2>2. PICK n : n = Going(thr[t], "reserve")
    OBVIOUS
  <2>3. n \in Thrs /\ n.pc = "reserve" /\ n.p = thr[t].p
    <3>1. "reserve" \in Places
      BY PlacesFacts
    <3> QED BY <2>1, <2>2, <3>1, AtPlace
  <2>4. thr' = [thr EXCEPT ![t] = n]
    BY <1>2, <1>5, <2>2 DEF OomResume, Goto, Going
  <2>5. thr'[t] = n /\ (\A u \in Ids \ {t} : Like(u)) /\ thr' \in [Ids -> Thrs]
    BY <2>3, <2>4, OneThread DEF IInv
  <2>6. TypeOK' /\ Quiet
    BY <1>1, <1>4, <2>5 DEF IInv, TypeOK, Quiet
  <2> QED BY <1>3, <2>1, <2>3, <2>5, <2>6, PlainInv DEF Plain
<1>6. CASE thr[t].pc # "oomwait"
  <2>1. thr' = thr
    BY <1>2, <1>6 DEF OomResume
  <2> QED BY <1>1, <1>3, <1>4, <2>1, OomOnly
<1> QED BY <1>5, <1>6

\* A victim is chosen.
LEMMA OomJudgeInv ==
    ASSUME IInv, OomJudge
    PROVE  IInv'
<1>1. oom.pc = "judge" /\ UNCHANGED <<apid, nthreads, ptable, proc, thr, reaped, cwds, nooms>>
  BY DEF OomJudge
<1>2. CASE oom' = oom
  BY <1>1, <1>2, StayInv, FrameTypes
<1>3. CASE oom' # oom
  <2>1. PICK p \in ptable : oom' = [oom EXCEPT !.pc = "doom", !.vic = p]
    BY <1>3 DEF OomJudge
  <2>2. p \in Ids
    BY FrameTypes
  <2>3. oom' \in [pc : {"idle", "judge", "doom", "mark", "wait"},
                  msg : Ids \cup {None}, vic : Ids \cup {None}]
        /\ oom'.msg = oom.msg /\ oom'.vic = p
    BY <2>1, <2>2 DEF IInv, TypeOK
  <2>4. OomInv'
    BY <1>1, <2>2, <2>3 DEF OomInv, IInv
  <2> QED BY <1>1, <2>3, <2>4, OomOnly
<1> QED BY <1>2, <1>3

\* The victim is doomed.
LEMMA OomDoomInv ==
    ASSUME IInv, OomDoom
    PROVE  IInv'
<1>1. /\ oom.pc = "doom" /\ Doomed(oom.vic) /\ oom' = [oom EXCEPT !.pc = "mark"]
      /\ UNCHANGED <<apid, nthreads, ptable, thr, reaped, cwds, nooms, panic>>
  BY DEF OomDoom
<1>2. PICK p \in Ids : p = oom.vic
  BY <1>1 DEF IInv, OomInv
<1>3. Quiet /\ proc' \in [Ids -> Procs]
  BY <1>1, <1>2, DoomedQuiet
<1>4. oom' \in [pc : {"idle", "judge", "doom", "mark", "wait"},
                msg : Ids \cup {None}, vic : Ids \cup {None}]
      /\ oom'.msg = oom.msg /\ oom'.vic = oom.vic
  BY <1>1 DEF IInv, TypeOK
<1>5. TypeOK' /\ OomInv'
  BY <1>1, <1>3, <1>4 DEF IInv, TypeOK, OomInv
<1>6. \A u \in Ids : Like(u)
  BY <1>1, SameThreads
<1> QED BY <1>3, <1>5, <1>6, NobodyInv

\* The threads of the victim are marked.
LEMMA OomMarkInv ==
    ASSUME IInv, OomMark
    PROVE  IInv'
<1>1. /\ oom.pc = "mark" /\ thr' = Marked(oom.vic) /\ oom' = [oom EXCEPT !.pc = "wait"]
      /\ UNCHANGED <<apid, nthreads, ptable, proc, reaped, cwds, nooms, panic>>
  BY DEF OomMark
<1>2. PICK p \in Ids : p = oom.vic
  BY <1>1 DEF IInv, OomInv
<1> DEFINE m == Marked(p)
<1>3. \A u \in Ids : /\ m[u] \in Thrs /\ m[u].p = thr[u].p /\ m[u].tgt = thr[u].tgt
                     /\ m[u].tid = thr[u].tid /\ m[u].id = thr[u].id /\ m[u].isproc = thr[u].isproc
                     /\ m[u].pc = thr[u].pc \/ (thr[u].pc = "asleep" /\ m[u].pc = "awake")
                     /\ m[u].pc = "asleep" => m[u].killed = thr[u].killed
  BY MarkedFacts
<1>4. m \in [Ids -> Thrs]
  <2>1. m = [u \in Ids |-> m[u]]
    BY DEF Marked, Broadcast
  <2> QED BY <1>3, <2>1
<1>5. thr' = m
  BY <1>1, <1>2
<1> HIDE DEF m
<1>6. \A u \in Ids : Like(u)
  BY <1>3, <1>5 DEF Like
<1>7. oom' \in [pc : {"idle", "judge", "doom", "mark", "wait"},
                msg : Ids \cup {None}, vic : Ids \cup {None}]
      /\ oom'.msg = oom.msg /\ oom'.vic = oom.vic
  BY <1>1 DEF IInv, TypeOK
<1>8. TypeOK' /\ OomInv' /\ Quiet
  BY <1>1, <1>4, <1>5, <1>7 DEF IInv, TypeOK, OomInv, Quiet
<1> QED BY <1>6, <1>8, NobodyInv

\* The victim has left the table.
LEMMA OomDeadInv ==
    ASSUME IInv, OomDead
    PROVE  IInv'
<1>1. /\ oom.pc = "wait" /\ oom' = [oom EXCEPT !.pc = "judge", !.vic = None]
      /\ UNCHANGED <<apid, nthreads, ptable, proc, thr, reaped, cwds, nooms, panic>>
  BY DEF OomDead
<1>2. oom' \in [pc : {"idle", "judge", "doom", "mark", "wait"},
                msg : Ids \cup {None}, vic : Ids \cup {None}]
      /\ oom'.msg = oom.msg /\ oom'.pc = "judge"
  BY <1>1 DEF IInv, TypeOK
<1>3. OomInv'
  BY <1>1, <1>2 DEF IInv, OomInv
<1> QED BY <1>1, <1>2, <1>3, OomOnly

-------------------------------------------------------------------------------
(***************************************************************************)
(* Steps that change processes.                                            *)
(***************************************************************************)
\* What a step leaves alone in process p.
Kept(p) ==
    /\ proc'[p].notes = proc[p].notes /\ proc'[p].freed = proc[p].freed
    /\ proc'[p].status = proc[p].status

\* A sleeper finds the same statuses.
SameStatuses ==
    \A u \in Ids, p \in Ids, b \in BOOLEAN :
        thr'[u].pc = "asleep" /\ p = thr[u].p /\ b = thr[u].isproc =>
        /\ \A k \in DOMAIN WList(p, b)' : WList(p, b)'[k].valid =>
               \E j \in DOMAIN WList(p, b) :
                   WList(p, b)[j].valid /\ WList(p, b)[j].id = WList(p, b)'[k].id
        /\ \A j \in DOMAIN WList(p, b) : ~WList(p, b)[j].valid =>
               \E k \in DOMAIN WList(p, b)' : WList(p, b)[j].id = WList(p, b)'[k].id

\* Note x may go, if thread t has it.
NoteGoes(t, x) ==
    NotesKept(x) /\ FreedKept /\ (x # None => thr[t].pc \in Holds /\ thr[t].tid = x)

\* Note n of process q is new.
NoteComes(n, q) ==
    /\ \A p \in Ids : \A z \in proc'[p].notes : z \in proc[p].notes \/ (z = n /\ p = q)
    /\ n \in Ids => /\ n <= apid' /\ thr[n].pc = "none" /\ thr'[n].pc = "none"
                    /\ \A p \in Ids : n \notin proc[p].notes
    /\ \A p \in Ids : proc'[p].freed => proc[p].freed \/ proc'[p].notes = {}
    /\ \A p \in Ids : proc'[p].freed /\ p = q => n \notin Ids

\* Thread t enters e in a list, or y is reaped.
ListsMove(t, e, y) ==
    /\ UniqueIds' /\ \A i \in Ids : Listed(i)' => Listed(i) \/ i = e
    /\ e \in Ids => /\ e <= apid' /\ ~Listed(e) /\ reaped[e] = 0 /\ e # y
                    /\ Pending(t)' => NewId(t)' # e
                    /\ e > apid \/ (Pending(t) /\ NewId(t) = e)
    /\ \A i \in Ids : reaped'[i] = reaped[i] \/ (i = y /\ reaped'[i] = reaped[i] + 1)
    /\ y \in Ids => Listed(y) /\ ~Listed(y)'
    /\ Pending(t)' => NewId(t)' \in apid + 1 .. apid'

\* The exit of z may be reported.
ExitMove(z) ==
    /\ \A p \in Ids : \A k \in DOMAIN proc'[p].pwait : proc'[p].pwait[k].valid =>
           \/ \E j \in DOMAIN proc[p].pwait : proc'[p].pwait[k] = proc[p].pwait[j]
           \/ /\ proc'[p].pwait[k].id = z /\ proc'[z].freed
              /\ proc'[p].pwait[k].status = proc'[z].status
    /\ \A p \in Ids : proc[p].freed /\ Listed(p) => proc'[p].freed /\ proc'[p].status = proc[p].status

\* Thread t moves.
Moved(t) ==
    /\ \A u \in Ids \ {t} : Like(u)
    /\ thr[t].pc \notin {"none", "gone"} /\ thr'[t].p = thr[t].p /\ ThreadOK(t)'
    /\ thr'[t].pc # "asleep"
    /\ thr'[t].pc \in Holds => \/ thr[t].pc \in Holds /\ thr'[t].tid = thr[t].tid
                               \/ thr'[t].tid = t
                               \/ thr'[t].tid > apid

\* The threads after a step of thread t.
LEMMA MovedThreads ==
    ASSUME IInv, TypeOK', apid <= apid', NEW t \in Ids, NEW x, Moved(t), NoteGoes(t, x)
    PROVE  ThreadsInv'
<1>1. PICK C \in SUBSET Ids : C = {t}
  OBVIOUS
<1>2. \A u \in Ids \ C : Like(u)
  BY <1>1 DEF Moved
<1>3. \A c \in C : c = t
  BY <1>1
<1>4. \A c \in C : ThreadOK(c)'
  <2>1. ThreadOK(t)'
    BY DEF Moved
  <2> QED BY <1>3, <2>1
<1>5. NotesKept(x) /\ FreedKept /\ (x # None => \E c \in C : thr[c].pc \in Holds /\ thr[c].tid = x)
  BY <1>1 DEF NoteGoes
<1>6. \A c \in C : \/ thr[c].pc # "none" \/ \E d \in C : thr[d].pc \in Holds /\ thr[d].tid = c
  BY <1>3 DEF Moved
<1>7. \A c \in C : thr'[c].pc \in Holds =>
               /\ thr[c].pc # "none"
               /\ \/ thr[c].pc \in Holds /\ thr'[c].tid = thr[c].tid
                  \/ thr'[c].tid = c
                  \/ thr'[c].tid > apid
  BY <1>3 DEF Moved
<1>8. \A c, d \in C : c # d => ~(thr'[c].pc \in Holds /\ thr'[d].pc \in Holds)
  BY <1>1
<1> QED BY <1>2, <1>4, <1>5, <1>6, <1>7, <1>8, ThreadsStep

\* The notes after a step of thread t.
LEMMA MovedNotes ==
    ASSUME IInv, TypeOK', apid <= apid', NEW t \in Ids, NEW n, NEW q, Moved(t), NoteComes(n, q)
    PROVE  NotesInv'
<1>1. \A u \in Ids : \/ thr'[u].p = thr[u].p /\ (thr[u].pc = "none" => thr'[u].pc = "none")
                     \/ \A p \in Ids : u \in proc'[p].notes => thr'[u].p = p
  BY DEF Moved, Like
<1>2. /\ \A p \in Ids : \A z \in proc'[p].notes : z \in proc[p].notes \/ (z = n /\ p = q)
      /\ n \in Ids => n <= apid' /\ thr[n].pc = "none" /\ thr'[n].pc = "none" /\ \A p \in Ids : n \notin proc[p].notes
      /\ \A p \in Ids : proc'[p].freed => proc[p].freed \/ proc'[p].notes = {}
      /\ \A p \in Ids : proc'[p].freed /\ p = q => n \notin Ids
  BY DEF NoteComes
<1> QED BY <1>1, <1>2, NotesStep

\* The lists after a step of thread t.
LEMMA MovedLists ==
    ASSUME IInv, TypeOK', apid <= apid', NEW t \in Ids, NEW e, NEW y, Moved(t), ListsMove(t, e, y)
    PROVE  ListsInv'
<1>0. apid \in Nat /\ apid' \in Nat
  BY IdsFacts, Fields DEF IInv, TypeOK
<1>1. \A u \in Ids \ {t} : Pending(u)' => Pending(u) /\ NewId(u)' = NewId(u)
  BY DEF Pending, NewId, Like, Moved
<1>2. \A u \in Ids : Pending(u) => NewId(u) \in 1 .. apid
  BY DEF IInv, ListsInv
<1>3. Pending(t)' => NewId(t)' \in apid + 1 .. apid'
  BY DEF ListsMove
<1>4. \A u \in Ids : Pending(u)' => \/ Pending(u) /\ NewId(u)' = NewId(u)
                                    \/ NewId(u)' \in apid + 1 .. apid'
  BY <1>1, <1>3
<1>5. ASSUME NEW u \in Ids, NEW v \in Ids, Pending(u)', Pending(v)', u # v
      PROVE  \/ NewId(u)' # NewId(v)'
             \/ (Pending(u) /\ Pending(v) /\ NewId(u)' = NewId(u) /\ NewId(v)' = NewId(v))
  <2>1. CASE u # t /\ v # t
    BY <1>1, <1>5, <2>1
  <2>2. CASE u = t /\ v # t
    <3>1. NewId(v)' \in 1 .. apid /\ NewId(u)' \in apid + 1 .. apid'
      BY <1>1, <1>2, <1>3, <1>5, <2>2
    <3> QED BY <1>0, <3>1
  <2>3. CASE u # t /\ v = t
    <3>1. NewId(u)' \in 1 .. apid /\ NewId(v)' \in apid + 1 .. apid'
      BY <1>1, <1>2, <1>3, <1>5, <2>3
    <3> QED BY <1>0, <3>1
  <2> QED BY <1>5, <2>1, <2>2, <2>3
<1>6. ASSUME e \in Ids, NEW u \in Ids, Pending(u)' PROVE NewId(u)' # e
  <2>1. (Pending(t)' => NewId(t)' # e) /\ (e > apid \/ (Pending(t) /\ NewId(t) = e))
    BY <1>6 DEF ListsMove
  <2>2. CASE u = t
    BY <1>6, <2>1, <2>2
  <2>3. CASE u # t
    <3>1. Pending(u) /\ NewId(u)' = NewId(u) /\ NewId(u) \in 1 .. apid
      BY <1>1, <1>2, <1>6, <2>3
    <3>2. CASE e > apid
      BY <1>0, <3>1, <3>2
    <3>3. CASE Pending(t) /\ NewId(t) = e
      BY <2>3, <3>1, <3>3 DEF IInv, ListsInv
    <3> QED BY <2>1, <3>2, <3>3
  <2> QED BY <2>2, <2>3
<1>7. e \in Ids => /\ e <= apid' /\ ~Listed(e) /\ reaped[e] = 0 /\ e # y
                   /\ \A u \in Ids : Pending(u)' => NewId(u)' # e
  BY <1>6 DEF ListsMove
<1>8. /\ UniqueIds' /\ \A i \in Ids : Listed(i)' => Listed(i) \/ i = e
      /\ \A i \in Ids : reaped'[i] = reaped[i] \/ (i = y /\ reaped'[i] = reaped[i] + 1)
      /\ y \in Ids => Listed(y) /\ ~Listed(y)'
  BY DEF ListsMove
<1>9. \A v, u \in Ids : Pending(v)' /\ Pending(u)' /\ v # u =>
         \/ NewId(v)' # NewId(u)'
         \/ (Pending(v) /\ Pending(u) /\ NewId(v)' = NewId(v) /\ NewId(u)' = NewId(u))
  BY <1>5
<1>10. ListsChange(e, y)
  BY <1>4, <1>7, <1>8, <1>9 DEF ListsChange
<1> QED BY <1>10, ListsStep

\* The invariant after a step of thread t.
LEMMA MoveInv ==
    ASSUME IInv, TypeOK', OomInv', apid <= apid', NEW t \in Ids, Moved(t),
           NEW x, NoteGoes(t, x), NEW n, NEW q, NoteComes(n, q), NEW e, NEW y, ListsMove(t, e, y),
           NEW z, ExitMove(z), SameStatuses
    PROVE  IInv'
<1>1. ThreadsInv'
  BY MovedThreads
<1>2. NotesInv'
  BY MovedNotes
<1>3. ListsInv'
  BY MovedLists
<1>4. SleepsForAReason'
  <2>1. PICK C \in SUBSET Ids : C = {t}
    OBVIOUS
  <2>2. \A u \in Ids \ C : Like(u)
    BY <2>1 DEF Moved
  <2>3. \A c \in C : thr'[c].pc = "asleep" => MaySleepNow(c) /\ thr[c].p \in Ids
    BY <2>1 DEF Moved
  <2> QED BY <2>2, <2>3, SleepSame DEF SameStatuses
<1>5. ExitInv'
  BY ExitStep DEF ExitMove
<1> QED BY <1>1, <1>2, <1>3, <1>4, <1>5 DEF IInv

\* A step that leaves the lists alone.
LEMMA SameLists ==
    ASSUME IInv, NEW t \in Ids, Pending(t)' => NewId(t)' \in apid + 1 .. apid', reaped' = reaped,
           \A p \in Ids : proc'[p].pwait = proc[p].pwait /\ proc'[p].twait = proc[p].twait,
           \A p \in Ids : proc[p].freed /\ Listed(p) => proc'[p].freed /\ proc'[p].status = proc[p].status
    PROVE  ListsMove(t, None, None) /\ ExitMove(None) /\ SameStatuses
<1>1. \A p \in Ids, b \in BOOLEAN : WList(p, b)' = WList(p, b)
  BY DEF WList
<1>2. UniqueIds' /\ \A i \in Ids : Listed(i)' => Listed(i)
  BY <1>1, SameUnique
<1>3. SameStatuses
  BY <1>1 DEF SameStatuses
<1>4. ListsMove(t, None, None)
  BY <1>2, IdsFacts DEF ListsMove
<1>5. ExitMove(None)
  BY DEF ExitMove
<1> QED BY <1>3, <1>4, <1>5

\* A step that leaves the notes alone.
LEMMA SameNotes ==
    ASSUME IInv, NEW t \in Ids,
           \A p \in Ids : proc'[p].notes = proc[p].notes /\ proc'[p].freed = proc[p].freed
    PROVE  NoteGoes(t, None) /\ NoteComes(None, None)
<1>1. 1 .. apid \subseteq Ids /\ None \notin Ids
  BY Fields, IdsFacts DEF IInv
<1>2. NoteGoes(t, None)
  BY <1>1 DEF NoteGoes, NotesKept, FreedKept
<1>3. NoteComes(None, None)
  BY <1>1 DEF NoteComes
<1> QED BY <1>2, <1>3

\* Thread_dead: the note goes.
LEMMA ThreadDeadInv ==
    ASSUME IInv, NEW t \in Ids, Thread_dead(t)
    PROVE  IInv'
<1>1. thr[t].pc = "dead" /\ UNCHANGED <<apid, nthreads, ptable, reaped, cwds, oom, nooms, panic>>
  BY DEF Thread_dead, At
<1>2. Alive(t) /\ thr[t] \in Thrs /\ thr[t].p \in Ids /\ ThreadOK(t)
  BY <1>1, AliveAt DEF IInv, ThreadsInv
<1>3. thr[t].pc \in Holds /\ thr[t].pc \notin {"none", "gone"}
  BY <1>1 DEF Holds
<1>4. /\ thr[t].tgt \in 1 .. apid /\ thr[t].tid \in 1 .. apid
      /\ thr[t].tid = t => thr[t].tgt = thr[t].p
      /\ thr[t].tid # t => thr[thr[t].tid].pc = "none"
      /\ thr[t].tid \in proc[thr[t].tgt].notes
      /\ t \in proc[thr[t].p].notes /\ thr[t].p \in 1 .. apid /\ t <= apid
  BY <1>1, <1>2, <1>3 DEF ThreadOK
<1>5. PICK p \in Ids : p = thr[t].tgt
  BY <1>4, Fields DEF IInv
<1>6. PICK x \in Ids : x = thr[t].tid
  BY <1>4, Fields DEF IInv
<1> DEFINE s == IF thr[t].use THEN thr[t].st ELSE proc[p].status
           r1 == [proc[p] EXCEPT !.notes = @ \ {x}]
           r == [r1 EXCEPT !.status = s]
           a == [thr[t] EXCEPT !.pc = "puttid"]
           b == [a EXCEPT !.cur = FALSE]
           n == [b EXCEPT !.last = Last(p, x)]
<1>7. proc' = [proc EXCEPT ![p] = r] /\ thr' = [thr EXCEPT ![t] = n]
  <2>1. proc' = [proc EXCEPT ![p].notes = @ \ {x},
                             ![p].status = IF thr[t].use THEN thr[t].st ELSE @]
    BY <1>5, <1>6 DEF Thread_dead
  <2>2. proc[p] \in Procs /\ proc \in [Ids -> Procs]
    BY Fields DEF IInv, TypeOK
  <2>3. proc' = [proc EXCEPT ![p] = r]
    <3> DEFINE f == [proc EXCEPT ![p] = r1]
    <3>1. r1.status = proc[p].status
      BY <2>2 DEF Procs
    <3>2. f = [proc EXCEPT ![p].notes = @ \ {x}]
      OBVIOUS
    <3>3. f[p] = r1
      BY <2>2
    <3>4. proc' = [f EXCEPT ![p].status = IF thr[t].use THEN thr[t].st ELSE @]
      BY <2>1, <3>2
    <3>5. proc' = [f EXCEPT ![p].status = s]
      BY <3>1, <3>3, <3>4
    <3>6. proc' = [f EXCEPT ![p] = r]
      <4> HIDE DEF s, f, r1
      <4> QED BY <3>3, <3>5
    <3> QED BY <2>2, <3>6
  <2>4. thr' = [thr EXCEPT ![t] = n]
    BY <1>5, <1>6 DEF Thread_dead
  <2> QED BY <2>3, <2>4
<1>8. s \in Statuses
  BY <1>2, Fields DEF IInv, Thrs
<1> HIDE DEF s
<1>9. /\ r \in Procs /\ r.notes = proc[p].notes \ {x} /\ r.freed = proc[p].freed
      /\ r.pwait = proc[p].pwait /\ r.twait = proc[p].twait
  <2>1. proc[p] \in Procs
    BY Fields DEF IInv
  <2>2. /\ r1 \in Procs /\ r1.notes = proc[p].notes \ {x} /\ r1.freed = proc[p].freed
        /\ r1.pwait = proc[p].pwait /\ r1.twait = proc[p].twait
    BY <2>1 DEF Procs
  <2> HIDE DEF r1
  <2> QED BY <1>8, <2>2 DEF Procs
<1>10. n \in Thrs /\ n.pc = "puttid" /\ n.p = thr[t].p /\ n.tgt = p /\ n.tid = x
  <2>1. a \in Thrs /\ a.pc = "puttid" /\ a.p = thr[t].p /\ a.tgt = p /\ a.tid = x
    BY <1>2, <1>5, <1>6, PlacesFacts DEF Thrs
  <2> HIDE DEF a
  <2>2. b \in Thrs /\ b.pc = "puttid" /\ b.p = thr[t].p /\ b.tgt = p /\ b.tid = x
    BY <2>1 DEF Thrs
  <2> HIDE DEF b
  <2>3. Last(p, x) \in BOOLEAN
    BY DEF Last
  <2> QED BY <2>2, <2>3 DEF Thrs
<1> HIDE DEF r, n
<1>11. proc'[p] = r /\ (\A q \in Ids \ {p} : proc'[q] = proc[q]) /\ proc' \in [Ids -> Procs]
  BY <1>7, <1>9, OneProc DEF IInv
<1>12. thr'[t] = n /\ (\A u \in Ids \ {t} : Like(u)) /\ thr' \in [Ids -> Thrs]
  BY <1>7, <1>10, OneThread DEF IInv
<1>13. TypeOK' /\ OomInv'
  BY <1>1, <1>11, <1>12 DEF IInv, TypeOK, OomInv
<1>14. \A q \in Ids : \A v : v \in proc'[q].notes <=> v \in proc[q].notes /\ ~(v = x /\ q = p)
  BY <1>9, <1>11
<1>15. apid \in Nat /\ apid' = apid /\ apid <= apid' /\ 1 .. apid \subseteq Ids /\ None \notin Ids
  <2>1. apid \in Nat /\ apid' = apid /\ 1 .. apid \subseteq Ids /\ None \notin Ids
    BY <1>1, Fields, IdsFacts DEF IInv
  <2> QED BY <2>1
<1>16. NotesKept(x) /\ FreedKept
  <2>1. \A q \in 1 .. apid : proc'[q].freed = proc[q].freed
    BY <1>9, <1>11, <1>15
  <2> QED BY <1>14, <1>15, <2>1 DEF NotesKept, FreedKept
<1>17. ThreadOK(t)'
  <2>1. thr'[t].pc = "puttid" /\ thr'[t].p = thr[t].p /\ thr'[t].tgt = p /\ thr'[t].tid = x
    BY <1>10, <1>12
  <2>2. /\ thr'[t].pc \notin {"none", "gone", "doom", "mark", "newtid", "putpid", "del"}
        /\ thr'[t].pc \notin Creates \cup {"dead"}
        /\ (Ending(t)' <=> x = t) /\ (Alive(t)' <=> x # t)
    BY <2>1 DEF Creates, Ending, Alive, Ends
  <2>3. x = t => t \notin proc'[thr'[t].p].notes
    BY <1>4, <1>5, <1>6, <1>14, <2>1
  <2>4. x # t => t \in proc'[thr'[t].p].notes
    BY <1>2, <1>4, <1>14, <2>1
  <2>5. x # t => thr'[x].pc = "none"
    BY <1>4, <1>6, <1>12 DEF Like
  <2> QED BY <1>4, <1>5, <1>6, <1>15, <2>1, <2>2, <2>3, <2>4, <2>5 DEF ThreadOK
<1>18. \A q \in Ids : proc[q].freed => proc'[q].freed /\ proc'[q].status = proc[q].status
  <2>1. ~proc[p].freed
    BY <1>4, <1>5, <1>6 DEF IInv, NotesInv
  <2> QED BY <1>11, <2>1
<1>19. \A q \in Ids : /\ proc'[q].freed => proc[q].freed
                      /\ proc'[q].pwait = proc[q].pwait /\ proc'[q].twait = proc[q].twait
  BY <1>9, <1>11
<1>20. Moved(t) /\ ~Pending(t)'
  BY <1>3, <1>6, <1>10, <1>12, <1>17 DEF Moved, Pending
<1>21. NoteGoes(t, x)
  BY <1>3, <1>6, <1>16 DEF NoteGoes
<1>22. NoteComes(None, None)
  BY <1>14, <1>15, <1>19 DEF NoteComes
<1>23. ListsMove(t, None, None) /\ ExitMove(None) /\ SameStatuses
  BY <1>1, <1>18, <1>19, <1>20, SameLists
<1> QED BY <1>13, <1>15, <1>20, <1>21, <1>22, <1>23, MoveInv

\* One field of one process changes.
LEMMA WithTwait ==
    ASSUME NEW f \in [Ids -> Procs], NEW p \in Ids, NEW v \in Lists
    PROVE  LET g == [f EXCEPT ![p].twait = v]
           IN  /\ g \in [Ids -> Procs] /\ g[p].twait = v
               /\ \A q \in Ids : /\ q # p => g[q].twait = f[q].twait
                                 /\ g[q].status = f[q].status /\ g[q].notes = f[q].notes
                                 /\ g[q].pwait = f[q].pwait /\ g[q].freed = f[q].freed
<1> DEFINE r == [f[p] EXCEPT !.twait = v]
           g == [f EXCEPT ![p] = r]
<1>1. r \in Procs /\ r.twait = v /\ r.status = f[p].status /\ r.notes = f[p].notes /\ r.pwait = f[p].pwait /\ r.freed = f[p].freed
  BY DEF Procs
<1>2. g = [f EXCEPT ![p].twait = v]
  OBVIOUS
<1> HIDE DEF r
<1>3. g \in [Ids -> Procs] /\ g[p] = r /\ \A q \in Ids \ {p} : g[q] = f[q]
  BY <1>1
<1> HIDE DEF g
<1> QED BY <1>1, <1>2, <1>3

\* The same for Pwait of its children.
LEMMA WithPwait ==
    ASSUME NEW f \in [Ids -> Procs], NEW p \in Ids, NEW v \in Lists
    PROVE  LET g == [f EXCEPT ![p].pwait = v]
           IN  /\ g \in [Ids -> Procs] /\ g[p].pwait = v
               /\ \A q \in Ids : /\ q # p => g[q].pwait = f[q].pwait
                                 /\ g[q].status = f[q].status /\ g[q].notes = f[q].notes
                                 /\ g[q].twait = f[q].twait /\ g[q].freed = f[q].freed
<1> DEFINE r == [f[p] EXCEPT !.pwait = v]
           g == [f EXCEPT ![p] = r]
<1>1. r \in Procs /\ r.pwait = v /\ r.status = f[p].status /\ r.notes = f[p].notes /\ r.twait = f[p].twait /\ r.freed = f[p].freed
  BY DEF Procs
<1>2. g = [f EXCEPT ![p].pwait = v]
  OBVIOUS
<1> HIDE DEF r
<1>3. g \in [Ids -> Procs] /\ g[p] = r /\ \A q \in Ids \ {p} : g[q] = f[q]
  BY <1>1
<1> HIDE DEF g
<1> QED BY <1>1, <1>2, <1>3

\* The same for the pointer to the parent.
LEMMA WithPw ==
    ASSUME NEW f \in [Ids -> Procs], NEW p \in Ids, NEW v \in Ids \cup {None}
    PROVE  LET g == [f EXCEPT ![p].pw = v]
           IN  /\ g \in [Ids -> Procs] /\ g[p].pw = v
               /\ \A q \in Ids : /\ q # p => g[q].pw = f[q].pw
                                 /\ g[q].status = f[q].status /\ g[q].notes = f[q].notes
                                 /\ g[q].pwait = f[q].pwait /\ g[q].twait = f[q].twait /\ g[q].freed = f[q].freed
<1> DEFINE r == [f[p] EXCEPT !.pw = v]
           g == [f EXCEPT ![p] = r]
<1>1. r \in Procs /\ r.pw = v /\ r.status = f[p].status /\ r.notes = f[p].notes /\ r.pwait = f[p].pwait /\ r.twait = f[p].twait /\ r.freed = f[p].freed
  BY DEF Procs
<1>2. g = [f EXCEPT ![p].pw = v]
  OBVIOUS
<1> HIDE DEF r
<1>3. g \in [Ids -> Procs] /\ g[p] = r /\ \A q \in Ids \ {p} : g[q] = f[q]
  BY <1>1
<1> HIDE DEF g
<1> QED BY <1>1, <1>2, <1>3

\* The same for its notes.
LEMMA WithNotes ==
    ASSUME NEW f \in [Ids -> Procs], NEW p \in Ids, NEW v \in SUBSET Ids
    PROVE  LET g == [f EXCEPT ![p].notes = v]
           IN  /\ g \in [Ids -> Procs] /\ g[p].notes = v
               /\ \A q \in Ids : /\ q # p => g[q].notes = f[q].notes
                                 /\ g[q].status = f[q].status /\ g[q].pwait = f[q].pwait
                                 /\ g[q].twait = f[q].twait /\ g[q].freed = f[q].freed
<1> DEFINE r == [f[p] EXCEPT !.notes = v]
           g == [f EXCEPT ![p] = r]
<1>1. r \in Procs /\ r.notes = v /\ r.status = f[p].status /\ r.pwait = f[p].pwait /\ r.twait = f[p].twait /\ r.freed = f[p].freed
  BY DEF Procs
<1>2. g = [f EXCEPT ![p].notes = v]
  OBVIOUS
<1> HIDE DEF r
<1>3. g \in [Ids -> Procs] /\ g[p] = r /\ \A q \in Ids \ {p} : g[q] = f[q]
  BY <1>1
<1> HIDE DEF g
<1> QED BY <1>1, <1>2, <1>3

\* A broadcast on p's condition, and thread t moves to record n.
LEMMA BroadcastMove ==
    ASSUME IInv, NEW t \in Ids, NEW p, NEW n \in Thrs, thr' = [Broadcast(thr, p) EXCEPT ![t] = n]
    PROVE  /\ thr'[t] = n /\ thr' \in [Ids -> Thrs]
           /\ \A u \in Ids \ {t} : Like(u) /\ ~(thr'[u].pc = "asleep" /\ thr'[u].p = p)
<1> DEFINE m == Broadcast(thr, p)
<1>1. m \in [Ids -> Thrs]
  <2>1. thr \in [Ids -> Thrs]
    BY DEF IInv, TypeOK
  <2>2. \A u \in Ids : m[u] \in Thrs
    BY <2>1, BroadcastFacts
  <2>3. m = [u \in Ids |-> m[u]]
    BY DEF Broadcast
  <2> QED BY <2>2, <2>3
<1>2. thr' = [m EXCEPT ![t] = n]
  OBVIOUS
<1> HIDE DEF m
<1>3. thr'[t] = n /\ thr' \in [Ids -> Thrs] /\ \A u \in Ids \ {t} : thr'[u] = m[u]
  BY <1>1, <1>2
<1>4. PICK C \in SUBSET Ids : C = {t}
  OBVIOUS
<1>5. \A u \in Ids \ C : thr'[u] = Broadcast(thr, p)[u]
  BY <1>3, <1>4 DEF m
<1>6. \A u \in Ids \ C : Like(u) /\ ~(thr'[u].pc = "asleep" /\ thr'[u].p = p)
  BY <1>5, BroadcastLike DEF IInv
<1> QED BY <1>3, <1>4, <1>6

\* A thread in Thread_dead.
LEMMA EndsFacts ==
    ASSUME IInv, NEW t \in Ids, thr[t].pc \in Ends
    PROVE  /\ ThreadOK(t) /\ thr[t] \in Thrs /\ thr[t].pc \in Holds /\ thr[t].pc \notin {"none", "gone"}
           /\ thr[t].tgt \in 1 .. apid /\ thr[t].tid \in 1 .. apid /\ thr[t].tgt \in Ids /\ thr[t].tid \in Ids
           /\ thr[t].tid = t => thr[t].tgt = thr[t].p
           /\ thr[t].tid # t => thr[thr[t].tid].pc = "none" /\ t \in proc[thr[t].p].notes
           /\ thr[t].tid = t => t \notin proc[thr[t].p].notes
           /\ thr[t].p \in 1 .. apid /\ thr[t].p \in Ids /\ t <= apid
<1>1. thr[t].pc \in Holds /\ thr[t].pc \notin {"none", "gone"} /\ thr[t].pc # "none"
  BY DEF Holds, Ends
<1>2. ThreadOK(t) /\ thr[t] \in Thrs /\ 1 .. apid \subseteq Ids
  BY Fields DEF IInv, ThreadsInv
<1>3. (thr[t].tid # t => Alive(t)) /\ (thr[t].tid = t => Ending(t))
  BY <1>1 DEF Alive, Ending, Ends
<1>4. /\ thr[t].tid # t => t \in proc[thr[t].p].notes
      /\ thr[t].tid = t => t \notin proc[thr[t].p].notes
  BY <1>2, <1>3 DEF ThreadOK
<1> QED BY <1>1, <1>2, <1>4 DEF ThreadOK

\* A thread goes on with Thread_dead.
LEMMA EndsOK ==
    ASSUME IInv, NEW t \in Ids, thr[t].pc \in Ends, apid' = apid,
           thr'[t].pc \in Ends, thr'[t].p = thr[t].p, thr'[t].tgt = thr[t].tgt, thr'[t].tid = thr[t].tid,
           \A u \in Ids \ {t} : Like(u),
           thr'[t].pc \in {"putpid", "del"} => proc'[thr[t].tgt].freed,
           \A p \in Ids : proc'[p].notes = proc[p].notes
    PROVE  Moved(t) /\ ~Pending(t)'
<1>1. /\ ThreadOK(t) /\ thr[t] \in Thrs /\ thr[t].pc \in Holds /\ thr[t].pc \notin {"none", "gone"}
      /\ thr[t].tgt \in 1 .. apid /\ thr[t].tid \in 1 .. apid /\ thr[t].tgt \in Ids /\ thr[t].tid \in Ids
      /\ thr[t].tid = t => thr[t].tgt = thr[t].p
      /\ thr[t].tid # t => thr[thr[t].tid].pc = "none" /\ t \in proc[thr[t].p].notes
      /\ thr[t].tid = t => t \notin proc[thr[t].p].notes
      /\ thr[t].p \in 1 .. apid /\ thr[t].p \in Ids /\ t <= apid
  BY EndsFacts
<1>2. /\ thr'[t].pc \notin {"none", "gone", "doom", "mark", "newtid", "exit", "asleep"}
      /\ thr'[t].pc \notin Creates \cup {"dead"}
      /\ (Ending(t)' <=> thr[t].tid = t) /\ (Alive(t)' <=> thr[t].tid # t)
      /\ thr'[t].pc \in Holds
  BY DEF Creates, Ending, Alive, Ends, Holds
<1>3. thr[t].tid # t => thr'[thr[t].tid].pc = "none"
  BY <1>1 DEF Like
<1>4. ThreadOK(t)'
  BY <1>1, <1>2, <1>3 DEF ThreadOK
<1>5. ~Pending(t)'
  BY <1>2 DEF Pending, Creates
<1> QED BY <1>1, <1>2, <1>4, <1>5 DEF Moved

\* Puttid: the thread's status is there.
LEMMA PuttidInv ==
    ASSUME IInv, NEW t \in Ids, Puttid(t)
    PROVE  IInv'
<1>1. thr[t].pc = "puttid" /\ UNCHANGED <<apid, nthreads, ptable, reaped, cwds, oom, nooms>>
  BY DEF Puttid, At
<1>2. thr[t].pc \in Ends
  BY <1>1 DEF Ends
<1>3. thr[t] \in Thrs /\ thr[t].tgt \in Ids /\ thr[t].pc \notin {"none", "gone"}
  BY <1>2, EndsFacts
<1>4. PICK p \in Ids : p = thr[t].tgt
  BY <1>3
<1>5. CASE thr' = thr /\ proc' = proc
  BY <1>1, <1>5, StayInv, FrameTypes
<1>6. CASE ~(thr' = thr /\ proc' = proc)
  <2> DEFINE l == Put(proc[p].twait, thr[t].tid, thr[t].st)
             n == IF thr[t].last THEN Going(thr[t], "term") ELSE Done(t)
  <2>1. proc' = [proc EXCEPT ![p].twait = l]
    BY <1>4, <1>6 DEF Puttid
  <2>2. Broadcast(thr, p)[t] = thr[t]
    BY <1>1 DEF Broadcast
  <2>3. thr' = [Broadcast(thr, p) EXCEPT ![t] = n]
    <3>1. thr' = [Broadcast(thr, p) EXCEPT ![t] = IF thr[t].last THEN [@ EXCEPT !.pc = "term"] ELSE Done(t)]
      BY <1>4, <1>6 DEF Puttid
    <3> QED BY <2>2, <3>1 DEF Going
  <2>4. /\ l \in Lists /\ DOMAIN l = DOMAIN proc[p].twait
        /\ \A k \in DOMAIN proc[p].twait : l[k].id = proc[p].twait[k].id
    <3>1. proc[p].twait \in Lists /\ thr[t].st \in Statuses
      BY <1>3, Fields DEF IInv, Thrs
    <3> QED BY <3>1, PutFacts
  <2> HIDE DEF l
  <2>5. /\ proc' \in [Ids -> Procs] /\ proc'[p].twait = l
        /\ \A q \in Ids : /\ q # p => proc'[q].twait = proc[q].twait
                          /\ proc'[q].status = proc[q].status /\ proc'[q].notes = proc[q].notes
                          /\ proc'[q].pwait = proc[q].pwait /\ proc'[q].freed = proc[q].freed
    <3>1. proc \in [Ids -> Procs]
      BY DEF IInv, TypeOK
    <3> QED BY <2>1, <2>4, <3>1, WithTwait
  <2>6. n \in Thrs
    <3>1. "term" \in Places /\ "exit" \in Places /\ "resched" \in Places
      BY PlacesFacts
    <3>2. Going(thr[t], "term") \in Thrs
      BY <1>3, <3>1, AtPlace
    <3>3. Home(thr[t], "exit") \in Thrs /\ Home(thr[t], "resched") \in Thrs
      BY <1>3, <3>1, HomeFacts
    <3>4. Done(t) \in Thrs
      BY <3>3 DEF Done
    <3> QED BY <3>2, <3>4
  <2>7. /\ thr'[t] = n /\ thr' \in [Ids -> Thrs]
        /\ \A u \in Ids \ {t} : Like(u) /\ ~(thr'[u].pc = "asleep" /\ thr'[u].p = p)
    <3> HIDE DEF n
    <3> QED BY <2>3, <2>6, BroadcastMove
  <2>8. TypeOK' /\ OomInv' /\ apid <= apid'
    <3>1. apid \in Nat
      BY Fields DEF IInv
    <3> QED BY <1>1, <2>5, <2>7, <3>1 DEF IInv, TypeOK, OomInv
  <2>9. Moved(t) /\ ~Pending(t)'
    <3>1. CASE thr[t].last
      <4>1. /\ thr'[t].pc = "term" /\ thr'[t].p = thr[t].p /\ thr'[t].tgt = thr[t].tgt
            /\ thr'[t].tid = thr[t].tid
        <5>1. "term" \in Places /\ thr'[t] = Going(thr[t], "term")
          BY <2>7, <3>1, PlacesFacts
        <5> QED BY <1>3, <5>1, AtPlace
      <4>2. thr'[t].pc \in Ends /\ thr'[t].pc \notin {"putpid", "del"}
        BY <4>1 DEF Ends
      <4> QED BY <1>1, <1>2, <2>5, <2>7, <4>1, <4>2, EndsOK
    <3>2. CASE ~thr[t].last
      <4>1. thr'[t] = Done(t)
        BY <2>7, <3>2
      <4>2. /\ ThreadOK(t)' /\ ~Pending(t)' /\ thr'[t].pc \notin Holds /\ thr'[t].pc # "asleep"
            /\ thr'[t].p = thr[t].p
        BY <1>1, <1>2, <2>5, <4>1, DoneOK
      <4> QED BY <1>3, <2>7, <4>2 DEF Moved
    <3> QED BY <3>1, <3>2
  <2>10. NoteGoes(t, None) /\ NoteComes(None, None)
    BY <2>5, SameNotes
  <2>11. \A q \in Ids, b \in BOOLEAN :
               /\ DOMAIN WList(q, b)' = DOMAIN WList(q, b)
               /\ \A k \in DOMAIN WList(q, b) : WList(q, b)'[k].id = WList(q, b)[k].id
               /\ q # p => WList(q, b)' = WList(q, b)
    BY <2>4, <2>5 DEF WList
  <2>12. ListsMove(t, None, None)
    <3>1. UniqueIds' /\ \A i \in Ids : Listed(i)' => Listed(i)
      BY <2>11, SameUnique
    <3> QED BY <1>1, <2>9, <3>1, IdsFacts DEF ListsMove
  <2>13. ExitMove(None)
    BY <2>5 DEF ExitMove
  <2>14. SameStatuses
    <3>1. \A u \in Ids, q \in Ids : thr'[u].pc = "asleep" /\ q = thr[u].p => q # p
      BY <2>7, <2>9 DEF Like, Moved
    <3> QED BY <2>11, <3>1 DEF SameStatuses
  <2> QED BY <2>8, <2>9, <2>10, <2>12, <2>13, <2>14, MoveInv
<1> QED BY <1>5, <1>6

\* terminate: files and memory are gone, and there is no thread left.
LEMMA TerminateInv ==
    ASSUME IInv, NEW t \in Ids, Terminate(t)
    PROVE  IInv'
<1>1. thr[t].pc = "term" /\ UNCHANGED <<apid, nthreads, ptable, reaped, oom, nooms>>
  BY DEF Terminate, At
<1>2. thr[t].pc \in Ends
  BY <1>1 DEF Ends
<1>3. thr[t] \in Thrs /\ thr[t].tgt \in Ids
  BY <1>2, EndsFacts
<1>4. PICK p \in Ids : p = thr[t].tgt
  BY <1>3
<1>5. CASE p = Root \/ proc[p].notes # {}
  <2>1. UNCHANGED <<proc, cwds, thr>>
    BY <1>4, <1>5 DEF Terminate
  <2> QED BY <1>1, <2>1, StayInv, FrameTypes
<1>6. CASE ~(p = Root \/ proc[p].notes # {})
  <2>1. /\ proc[p].notes = {} /\ proc' = [proc EXCEPT ![p].freed = TRUE] /\ cwds' = cwds - 1
        /\ Goto(t, "putpid")
    BY <1>4, <1>6 DEF Terminate
  <2> DEFINE r == [proc[p] EXCEPT !.freed = TRUE]
  <2>2. proc' = [proc EXCEPT ![p] = r]
    BY <2>1
  <2>3. /\ r \in Procs /\ r.freed = TRUE /\ r.notes = proc[p].notes /\ r.status = proc[p].status
        /\ r.pwait = proc[p].pwait /\ r.twait = proc[p].twait
    <3>1. proc[p] \in Procs
      BY Fields DEF IInv
    <3> QED BY <3>1 DEF Procs
  <2> HIDE DEF r
  <2>4. proc'[p] = r /\ (\A q \in Ids \ {p} : proc'[q] = proc[q]) /\ proc' \in [Ids -> Procs]
    BY <2>2, <2>3, OneProc DEF IInv
  <2>5. \A q \in Ids : /\ proc'[q].status = proc[q].status /\ proc'[q].notes = proc[q].notes
                       /\ proc'[q].pwait = proc[q].pwait /\ proc'[q].twait = proc[q].twait
                       /\ q # p => proc'[q].freed = proc[q].freed
    BY <2>3, <2>4
  <2>6. PICK n : n = Going(thr[t], "putpid")
    OBVIOUS
  <2>7. n \in Thrs /\ n.pc = "putpid" /\ n.p = thr[t].p /\ n.tgt = thr[t].tgt /\ n.tid = thr[t].tid
    <3>1. "putpid" \in Places
      BY PlacesFacts
    <3> QED BY <1>3, <2>6, <3>1, AtPlace
  <2>8. thr' = [thr EXCEPT ![t] = n]
    BY <2>1, <2>6 DEF Goto, Going
  <2>9. thr'[t] = n /\ (\A u \in Ids \ {t} : Like(u)) /\ thr' \in [Ids -> Thrs]
    BY <2>7, <2>8, OneThread DEF IInv
  <2>10. TypeOK' /\ OomInv' /\ apid <= apid'
    <3>1. apid \in Nat
      BY Fields DEF IInv
    <3> QED BY <1>1, <2>1, <2>4, <2>9, <3>1 DEF IInv, TypeOK, OomInv
  <2>11. proc'[p].freed
    BY <2>3, <2>4
  <2>12. Moved(t) /\ ~Pending(t)'
    <3>1. thr'[t].pc \in Ends
      BY <2>7, <2>9 DEF Ends
    <3> QED BY <1>1, <1>2, <1>4, <2>5, <2>7, <2>9, <2>11, <3>1, EndsOK
  <2>13. NoteGoes(t, None) /\ NoteComes(None, None)
    <3>1. 1 .. apid \subseteq Ids /\ None \notin Ids
      BY Fields, IdsFacts DEF IInv
    <3>2. NoteGoes(t, None)
      BY <2>5, <2>11, <3>1 DEF NoteGoes, NotesKept, FreedKept
    <3>3. NoteComes(None, None)
      BY <2>1, <2>5, <3>1 DEF NoteComes
    <3> QED BY <3>2, <3>3
  <2>14. ListsMove(t, None, None) /\ ExitMove(None) /\ SameStatuses
    <3>1. \A q \in Ids : proc[q].freed => proc'[q].freed /\ proc'[q].status = proc[q].status
      BY <2>5, <2>11
    <3> QED BY <1>1, <2>5, <2>12, <3>1, SameLists
  <2> QED BY <2>10, <2>12, <2>13, <2>14, MoveInv
<1> QED BY <1>5, <1>6

\* Putpid: the parent can see the status, which is final.
LEMMA PutpidInv ==
    ASSUME IInv, NEW t \in Ids, Putpid(t)
    PROVE  IInv'
<1>1. thr[t].pc = "putpid" /\ UNCHANGED <<apid, nthreads, ptable, reaped, cwds, oom, nooms>>
  BY DEF Putpid, At
<1>2. thr[t].pc \in Ends
  BY <1>1 DEF Ends
<1>3. thr[t] \in Thrs /\ thr[t].tgt \in Ids /\ proc[thr[t].tgt].freed
  BY <1>1, <1>2, EndsFacts DEF ThreadOK
<1>4. PICK p \in Ids : p = thr[t].tgt
  BY <1>3
<1>5. CASE thr' = thr /\ proc' = proc
  BY <1>1, <1>5, StayInv, FrameTypes
<1>6. CASE ~(thr' = thr /\ proc' = proc)
  <2>1. PICK w \in Ids : w = proc[p].pw
    <3>1. proc[p].pw \in Ids \cup {None}
      BY Fields DEF IInv, Procs
    <3>2. proc[p].pw # None
      BY <1>4, <1>6 DEF Putpid
    <3> QED BY <3>1, <3>2
  <2> DEFINE l == Put(proc[w].pwait, p, proc[p].status)
             f == [proc EXCEPT ![w].pwait = l]
             n == Going(thr[t], "del")
  <2>2. proc' = [f EXCEPT ![p].pw = None]
    BY <1>4, <1>6, <2>1 DEF Putpid
  <2>3. Broadcast(thr, w)[t] = thr[t] /\ t \in DOMAIN Broadcast(thr, w)
    BY <1>1 DEF Broadcast
  <2>4. thr' = [Broadcast(thr, w) EXCEPT ![t] = n]
    <3>1. thr' = [Broadcast(thr, w) EXCEPT ![t].pc = "del"]
      BY <1>4, <1>6, <2>1 DEF Putpid
    <3> QED BY <2>3, <3>1 DEF Going
  <2>5. /\ l \in Lists /\ DOMAIN l = DOMAIN proc[w].pwait
        /\ \A k \in DOMAIN proc[w].pwait :
             /\ l[k].id = proc[w].pwait[k].id
             /\ proc[w].pwait[k].id # p => l[k] = proc[w].pwait[k]
             /\ proc[w].pwait[k].id = p => l[k].status = proc[p].status
    <3>1. proc[w].pwait \in Lists /\ proc[p].status \in Statuses
      BY Fields DEF IInv
    <3> QED BY <3>1, PutFacts
  <2> HIDE DEF l
  <2>6. /\ f \in [Ids -> Procs] /\ f[w].pwait = l
        /\ \A q \in Ids : /\ q # w => f[q].pwait = proc[q].pwait
                          /\ f[q].status = proc[q].status /\ f[q].notes = proc[q].notes
                          /\ f[q].twait = proc[q].twait /\ f[q].freed = proc[q].freed
    <3>1. proc \in [Ids -> Procs]
      BY DEF IInv, TypeOK
    <3> QED BY <2>5, <3>1, WithPwait
  <2> HIDE DEF f
  <2>7. /\ proc' \in [Ids -> Procs]
        /\ \A q \in Ids : /\ proc'[q].status = f[q].status /\ proc'[q].notes = f[q].notes
                          /\ proc'[q].pwait = f[q].pwait /\ proc'[q].twait = f[q].twait
                          /\ proc'[q].freed = f[q].freed
    <3>1. PICK v \in Ids \cup {None} : v = None
      OBVIOUS
    <3>2. proc' = [f EXCEPT ![p].pw = v]
      BY <2>2, <3>1
    <3> QED BY <2>6, <3>2, WithPw
  <2>8. /\ proc'[w].pwait = l
        /\ \A q \in Ids : /\ q # w => proc'[q].pwait = proc[q].pwait
                          /\ proc'[q].status = proc[q].status /\ proc'[q].notes = proc[q].notes
                          /\ proc'[q].twait = proc[q].twait /\ proc'[q].freed = proc[q].freed
    BY <2>6, <2>7
  <2>9. n \in Thrs /\ n.pc = "del" /\ n.p = thr[t].p /\ n.tgt = thr[t].tgt /\ n.tid = thr[t].tid
    <3>1. "del" \in Places
      BY PlacesFacts
    <3> QED BY <1>3, <3>1, AtPlace
  <2> HIDE DEF n
  <2>10. /\ thr'[t] = n /\ thr' \in [Ids -> Thrs]
         /\ \A u \in Ids \ {t} : Like(u) /\ ~(thr'[u].pc = "asleep" /\ thr'[u].p = w)
    BY <2>4, <2>9, BroadcastMove
  <2>11. TypeOK' /\ OomInv' /\ apid <= apid'
    <3>1. apid \in Nat
      BY Fields DEF IInv
    <3> QED BY <1>1, <2>7, <2>10, <3>1 DEF IInv, TypeOK, OomInv
  <2>12. Moved(t) /\ ~Pending(t)'
    <3>1. thr'[t].pc \in Ends
      BY <2>9, <2>10 DEF Ends
    <3>2. proc'[thr[t].tgt].freed
      BY <1>3, <2>8
    <3> QED BY <1>1, <1>2, <2>8, <2>9, <2>10, <3>1, <3>2, EndsOK
  <2>13. NoteGoes(t, None) /\ NoteComes(None, None)
    BY <2>8, SameNotes
  <2>14. \A q \in Ids, b \in BOOLEAN :
               /\ DOMAIN WList(q, b)' = DOMAIN WList(q, b)
               /\ \A k \in DOMAIN WList(q, b) : WList(q, b)'[k].id = WList(q, b)[k].id
               /\ q # w => WList(q, b)' = WList(q, b)
    BY <2>5, <2>8 DEF WList
  <2>15. ListsMove(t, None, None)
    <3>1. UniqueIds' /\ \A i \in Ids : Listed(i)' => Listed(i)
      BY <2>14, SameUnique
    <3> QED BY <1>1, <2>12, <3>1, IdsFacts DEF ListsMove
  <2>16. ExitMove(p)
    <3>1. ASSUME NEW q \in Ids, NEW k \in DOMAIN proc'[q].pwait
          PROVE  \/ \E j \in DOMAIN proc[q].pwait : proc'[q].pwait[k] = proc[q].pwait[j]
                 \/ /\ proc'[q].pwait[k].id = p /\ proc'[p].freed
                    /\ proc'[q].pwait[k].status = proc'[p].status
      <4>1. CASE q # w
        BY <2>8, <3>1, <4>1
      <4>2. CASE q = w /\ proc[w].pwait[k].id # p
        BY <2>5, <2>8, <3>1, <4>2
      <4>3. CASE q = w /\ proc[w].pwait[k].id = p
        <5>1. proc'[p].freed /\ proc'[p].status = proc[p].status
          BY <1>3, <1>4, <2>8
        <5>2. k \in DOMAIN proc[w].pwait
          BY <2>5, <2>8, <3>1, <4>3
        <5> QED BY <2>5, <2>8, <4>3, <5>1, <5>2
      <4> QED BY <4>1, <4>2, <4>3
    <3> QED BY <2>8, <3>1 DEF ExitMove
  <2>17. SameStatuses
    <3>1. \A u \in Ids, q \in Ids : thr'[u].pc = "asleep" /\ q = thr[u].p => q # w
      BY <2>10, <2>12 DEF Like, Moved
    <3> QED BY <2>14, <3>1 DEF SameStatuses
  <2> QED BY <2>11, <2>12, <2>13, <2>15, <2>16, <2>17, MoveInv
<1> QED BY <1>5, <1>6

-------------------------------------------------------------------------------
(***************************************************************************)
(* fork: new notes and new ids.                                            *)
(***************************************************************************)
\* A thread that creates another.
LEMMA CreatesFacts ==
    ASSUME IInv, NEW t \in Ids, thr[t].pc \in Creates
    PROVE  /\ ThreadOK(t) /\ thr[t] \in Thrs /\ thr[t].pc \in Holds /\ thr[t].pc \notin {"none", "gone"}
           /\ thr[t].tgt \in 1 .. apid /\ thr[t].tid \in 1 .. apid /\ thr[t].tgt \in Ids /\ thr[t].tid \in Ids
           /\ thr[t].tid # t /\ thr[thr[t].tid].pc = "none" /\ t \in proc[thr[t].p].notes
           /\ thr[t].tid \in proc[thr[t].tgt].notes
           /\ thr[t].p \in 1 .. apid /\ thr[t].p \in Ids /\ t <= apid
<1>1. thr[t].pc \in Holds /\ thr[t].pc \notin {"none", "gone"} /\ thr[t].pc # "none"
  BY DEF Holds, Creates
<1>2. ThreadOK(t) /\ thr[t] \in Thrs /\ 1 .. apid \subseteq Ids
  BY Fields DEF IInv, ThreadsInv
<1>3. Alive(t)
  BY DEF Alive, Creates, Ending, Ends
<1> QED BY <1>1, <1>2, <1>3 DEF ThreadOK

\* The child is in the list: its thread is created.
LEMMA CreatesOK ==
    ASSUME IInv, NEW t \in Ids, thr[t].pc \in Creates, apid' = apid,
           thr'[t].pc = "vmfork", thr'[t].p = thr[t].p, thr'[t].tgt = thr[t].tgt, thr'[t].tid = thr[t].tid,
           \A u \in Ids \ {t} : Like(u),
           \A p \in Ids : proc'[p].notes = proc[p].notes
    PROVE  Moved(t) /\ ~Pending(t)'
<1>1. /\ ThreadOK(t) /\ thr[t] \in Thrs /\ thr[t].pc \in Holds /\ thr[t].pc \notin {"none", "gone"}
      /\ thr[t].tgt \in 1 .. apid /\ thr[t].tid \in 1 .. apid /\ thr[t].tgt \in Ids /\ thr[t].tid \in Ids
      /\ thr[t].tid # t /\ thr[thr[t].tid].pc = "none" /\ t \in proc[thr[t].p].notes
      /\ thr[t].tid \in proc[thr[t].tgt].notes
      /\ thr[t].p \in 1 .. apid /\ thr[t].p \in Ids /\ t <= apid
  BY CreatesFacts
<1>2. ~Ending(t)' /\ thr'[t].pc \in Holds /\ ~Pending(t)'
  BY DEF Creates, Ending, Ends, Holds, Pending
<1>3. thr'[thr[t].tid].pc = "none"
  BY <1>1 DEF Like
<1>4. ThreadOK(t)'
  BY <1>1, <1>2, <1>3 DEF ThreadOK
<1> QED BY <1>1, <1>2, <1>4 DEF Moved

\* An id is entered in the list b0 of process p0 by the thread that has it pending.
LEMMA EnterLists ==
    ASSUME IInv, TypeOK', NEW t \in Ids, Moved(t), ~Pending(t)', Pending(t), apid' = apid, reaped' = reaped,
           NEW x \in Ids, x = NewId(t), NEW p0 \in Ids, NEW b0 \in BOOLEAN,
           WList(p0, b0)' = <<Entry(x)>> \o WList(p0, b0),
           \A p \in Ids, b \in BOOLEAN : (p # p0 \/ b # b0) => WList(p, b)' = WList(p, b)
    PROVE  ListsMove(t, x, None) /\ SameStatuses
<1>1. x \in 1 .. apid /\ ~Listed(x) /\ reaped[x] = 0
  <2>1. NewId(t) \in 1 .. apid /\ ~Listed(NewId(t)) /\ reaped[NewId(t)] = 0
    BY DEF IInv, ListsInv
  <2> QED BY <2>1
<1>2. PICK l \in Lists : l = WList(p0, b0)
  BY WListTypes DEF IInv
<1>3. PICK m : m = Pushed(l, x)
  OBVIOUS
<1>4. /\ m \in Lists /\ DOMAIN m = 1 .. Len(l) + 1
      /\ m[1].id = x /\ ~m[1].valid
      /\ \A k \in DOMAIN l : k + 1 \in DOMAIN m /\ m[k + 1] = l[k]
      /\ \A k \in DOMAIN m : k = 1 \/ (k - 1 \in DOMAIN l /\ m[k] = l[k - 1])
  <2>1. /\ Pushed(l, x) \in Lists /\ DOMAIN Pushed(l, x) = 1 .. Len(l) + 1
        /\ Pushed(l, x)[1].id = x /\ ~Pushed(l, x)[1].valid
        /\ \A k \in DOMAIN l : k + 1 \in DOMAIN Pushed(l, x) /\ Pushed(l, x)[k + 1] = l[k]
        /\ \A k \in DOMAIN Pushed(l, x) :
             k = 1 \/ (k - 1 \in DOMAIN l /\ Pushed(l, x)[k] = l[k - 1])
    BY ONLY l \in Lists, x \in Ids, PushFacts
  <2> QED BY <1>3, <2>1
<1>5. WList(p0, b0)' = m
  BY <1>2, <1>3 DEF Pushed
<1>6. UniqueIds' /\ \A i \in Ids : Listed(i)' => Listed(i) \/ i = x
  <2>1. \A k \in DOMAIN WList(p0, b0)' :
               \/ k = 1 /\ WList(p0, b0)'[k].id = x
               \/ k - 1 \in DOMAIN WList(p0, b0) /\ WList(p0, b0)'[k] = WList(p0, b0)[k - 1]
    BY <1>2, <1>4, <1>5
  <2>2. \A p \in Ids, b \in BOOLEAN : (p # p0 \/ b # b0) =>
               \A k \in DOMAIN WList(p, b)' :
                   k \in DOMAIN WList(p, b) /\ WList(p, b)'[k] = WList(p, b)[k]
    OBVIOUS
  <2>3. Enters(p0, b0, x)
    BY <2>1, <2>2 DEF Enters
  <2> QED BY <1>1, <2>3, PushUnique
<1>7. ListsMove(t, x, None)
  <2>1. apid \in Nat /\ None \notin Ids
    BY Fields, IdsFacts DEF IInv
  <2> QED BY <1>1, <1>6, <2>1 DEF ListsMove
<1>8. SameStatuses
  <2>1. ASSUME NEW p \in Ids, NEW b \in BOOLEAN
        PROVE  /\ \A k \in DOMAIN WList(p, b)' : WList(p, b)'[k].valid =>
                      \E j \in DOMAIN WList(p, b) :
                          WList(p, b)[j].valid /\ WList(p, b)[j].id = WList(p, b)'[k].id
               /\ \A j \in DOMAIN WList(p, b) : ~WList(p, b)[j].valid =>
                      \E k \in DOMAIN WList(p, b)' : WList(p, b)[j].id = WList(p, b)'[k].id
    <3>1. CASE p = p0 /\ b = b0
      <4>1. WList(p, b) = l /\ WList(p, b)' = m
        BY <1>2, <1>5, <3>1
      <4>2. \A k \in DOMAIN m : m[k].valid => \E j \in DOMAIN l : l[j].valid /\ l[j].id = m[k].id
        BY <1>4
      <4>3. \A j \in DOMAIN l : \E k \in DOMAIN m : l[j].id = m[k].id
        BY <1>4
      <4> QED BY <4>1, <4>2, <4>3
    <3>2. CASE p # p0 \/ b # b0
      <4>1. WList(p, b)' = WList(p, b)
        BY <3>2
      <4> QED BY <4>1
    <3> QED BY <3>1, <3>2
  <2> QED BY <2>1 DEF SameStatuses
<1> QED BY <1>7, <1>8

\* Start_proc: the parent can wait for the child.
LEMMA StartProcInv ==
    ASSUME IInv, NEW t \in Ids, Start_proc(t)
    PROVE  IInv'
<1>1. thr[t].pc = "forked" /\ UNCHANGED <<apid, reaped, cwds, oom, nooms, panic>>
  BY DEF Start_proc, At
<1>2. thr[t].pc \in Creates /\ Alive(t)
  BY <1>1, AliveAt DEF Creates
<1>3. thr[t] \in Thrs /\ thr[t].tgt \in Ids /\ thr[t].p \in Ids
  BY <1>2, CreatesFacts
<1>4. CASE TooMany(thr[t].p)
  BY <1>1, <1>2, <1>4, OutprocInv DEF Start_proc
<1>5. CASE ~TooMany(thr[t].p)
  <2>1. PICK p \in Ids : p = thr[t].p
    BY <1>3
  <2>2. PICK x \in Ids : x = thr[t].tgt
    BY <1>3
  <2> DEFINE l == <<Entry(x)>> \o proc[p].pwait
             f == [proc EXCEPT ![p].pwait = l]
             n == Going(thr[t], "vmfork")
  <2>3. proc' = [f EXCEPT ![x].pw = p] /\ thr' = [thr EXCEPT ![t] = n] /\ UNCHANGED <<nthreads, ptable>>
    BY <1>5, <2>1, <2>2 DEF Start_proc, Goto, Going
  <2>4. /\ l \in Lists /\ ~l[1].valid
        /\ \A k \in DOMAIN l : k = 1 \/ (k - 1 \in DOMAIN proc[p].pwait /\ l[k] = proc[p].pwait[k - 1])
    <3>1. PICK v \in Lists : v = proc[p].pwait
      BY Fields DEF IInv
    <3>2. l = Pushed(v, x)
      BY <3>1 DEF Pushed
    <3> HIDE DEF l
    <3>3. /\ Pushed(v, x) \in Lists /\ ~Pushed(v, x)[1].valid
          /\ \A k \in DOMAIN Pushed(v, x) :
               k = 1 \/ (k - 1 \in DOMAIN v /\ Pushed(v, x)[k] = v[k - 1])
      BY PushFacts
    <3> QED BY <3>1, <3>2, <3>3
  <2>5. /\ f \in [Ids -> Procs] /\ f[p].pwait = l
        /\ \A q \in Ids : /\ q # p => f[q].pwait = proc[q].pwait
                          /\ f[q].status = proc[q].status /\ f[q].notes = proc[q].notes
                          /\ f[q].twait = proc[q].twait /\ f[q].freed = proc[q].freed
    <3>1. proc \in [Ids -> Procs]
      BY DEF IInv, TypeOK
    <3> HIDE DEF l
    <3> QED BY <2>4, <3>1, WithPwait
  <2> HIDE DEF f
  <2>6. /\ proc' \in [Ids -> Procs]
        /\ \A q \in Ids : /\ proc'[q].status = f[q].status /\ proc'[q].notes = f[q].notes
                          /\ proc'[q].pwait = f[q].pwait /\ proc'[q].twait = f[q].twait
                          /\ proc'[q].freed = f[q].freed
    <3>1. p \in Ids \cup {None}
      OBVIOUS
    <3> QED BY <2>3, <2>5, <3>1, WithPw
  <2>7. /\ proc'[p].pwait = l
        /\ \A q \in Ids : /\ q # p => proc'[q].pwait = proc[q].pwait
                          /\ proc'[q].status = proc[q].status /\ proc'[q].notes = proc[q].notes
                          /\ proc'[q].twait = proc[q].twait /\ proc'[q].freed = proc[q].freed
    BY <2>5, <2>6
  <2>8. n \in Thrs /\ n.pc = "vmfork" /\ n.p = thr[t].p /\ n.tgt = thr[t].tgt /\ n.tid = thr[t].tid
    <3>1. "vmfork" \in Places
      BY PlacesFacts
    <3> QED BY <1>3, <3>1, AtPlace
  <2> HIDE DEF n
  <2>9. thr'[t] = n /\ (\A u \in Ids \ {t} : Like(u)) /\ thr' \in [Ids -> Thrs]
    BY <2>3, <2>8, OneThread DEF IInv
  <2>10. TypeOK' /\ OomInv' /\ apid <= apid'
    <3>1. apid \in Nat
      BY Fields DEF IInv
    <3> QED BY <1>1, <2>3, <2>6, <2>9, <3>1 DEF IInv, TypeOK, OomInv
  <2>11. Moved(t) /\ ~Pending(t)'
    BY <1>1, <1>2, <2>7, <2>8, <2>9, CreatesOK
  <2>12. NoteGoes(t, None) /\ NoteComes(None, None)
    BY <2>7, SameNotes
  <2>13. Pending(t) /\ x = NewId(t)
    BY <1>1, <2>2 DEF Pending, NewId
  <2>14. /\ WList(p, TRUE)' = <<Entry(x)>> \o WList(p, TRUE)
         /\ \A q \in Ids, b \in BOOLEAN : (q # p \/ b # TRUE) => WList(q, b)' = WList(q, b)
    BY <2>7 DEF WList
  <2>15. ListsMove(t, x, None) /\ SameStatuses
    <3>1. PICK b0 \in BOOLEAN : b0 = TRUE
      OBVIOUS
    <3>2. /\ WList(p, b0)' = <<Entry(x)>> \o WList(p, b0)
          /\ \A q \in Ids, b \in BOOLEAN : (q # p \/ b # b0) => WList(q, b)' = WList(q, b)
      BY <2>14, <3>1
    <3> QED BY <1>1, <2>10, <2>11, <2>13, <3>2, EnterLists
  <2>16. ExitMove(None)
    <3> HIDE DEF l
    <3>1. \A k \in DOMAIN l : l[k].valid => \E j \in DOMAIN proc[p].pwait : l[k] = proc[p].pwait[j]
      BY <2>4
    <3> QED BY <2>7, <3>1 DEF ExitMove
  <2> QED BY <2>10, <2>11, <2>12, <2>15, <2>16, MoveInv
<1> QED BY <1>4, <1>5

\* Start_thread: the process can wait for its new thread, or the note is undone.
LEMMA StartThreadInv ==
    ASSUME IInv, NEW t \in Ids, Start_thread(t)
    PROVE  IInv'
<1>1. thr[t].pc = "newtid" /\ UNCHANGED <<apid, ptable, reaped, cwds, oom, nooms, panic>>
  BY DEF Start_thread, At
<1>2. thr[t].pc \in Creates /\ Alive(t)
  BY <1>1, AliveAt DEF Creates
<1>3. /\ ThreadOK(t) /\ thr[t] \in Thrs /\ thr[t].pc \in Holds /\ thr[t].pc \notin {"none", "gone"}
      /\ thr[t].tid \in Ids /\ thr[t].tid # t /\ t \in proc[thr[t].p].notes
      /\ thr[t].p \in 1 .. apid /\ thr[t].p \in Ids /\ t <= apid
  BY <1>2, CreatesFacts
<1>4. PICK p \in Ids : p = thr[t].p
  BY <1>3
<1>5. PICK x \in Ids : x = thr[t].tid
  BY <1>3
<1>6. proc \in [Ids -> Procs] /\ apid \in Nat /\ 1 .. apid \subseteq Ids /\ None \notin Ids
  BY Fields, IdsFacts DEF IInv, TypeOK
<1>7. CASE TooMany(p)
  <2> DEFINE s == proc[p].notes \ {x}
             n == Home(thr[t], "resched")
  <2>1. nthreads' = nthreads - 1 /\ proc' = [proc EXCEPT ![p].notes = s] /\ thr' = [thr EXCEPT ![t] = n]
    BY <1>4, <1>5, <1>7 DEF Start_thread, Return
  <2>2. s \in SUBSET Ids
    BY Fields DEF IInv
  <2>3. /\ proc' \in [Ids -> Procs] /\ proc'[p].notes = s
        /\ \A q \in Ids : /\ q # p => proc'[q].notes = proc[q].notes
                          /\ proc'[q].status = proc[q].status /\ proc'[q].pwait = proc[q].pwait
                          /\ proc'[q].twait = proc[q].twait /\ proc'[q].freed = proc[q].freed
    <3> HIDE DEF s
    <3>1. PICK v \in SUBSET Ids : v = s
      BY <2>2
    <3>2. proc' = [proc EXCEPT ![p].notes = v]
      BY <2>1, <3>1
    <3> QED BY <1>6, <3>1, <3>2, WithNotes
  <2>4. n \in Thrs /\ n.pc = "resched" /\ n.p = thr[t].p
    <3>1. "resched" \in Places
      BY PlacesFacts
    <3> QED BY <1>3, <3>1, HomeFacts
  <2> HIDE DEF n
  <2>5. thr'[t] = n /\ (\A u \in Ids \ {t} : Like(u)) /\ thr' \in [Ids -> Thrs]
    BY <2>1, <2>4, OneThread DEF IInv
  <2>6. TypeOK' /\ OomInv' /\ apid <= apid'
    BY <1>1, <1>6, <2>1, <2>3, <2>5 DEF IInv, TypeOK, OomInv
  <2>7. ThreadOK(t)' /\ ~Pending(t)' /\ thr'[t].pc \notin Holds
    <3>1. ~Ending(t)' /\ ~Pending(t)' /\ thr'[t].pc \notin Holds /\ thr'[t].pc \notin Creates \cup {"dead"}
      BY <2>4, <2>5 DEF Ending, Ends, Pending, Holds, Creates
    <3>2. t \in proc'[thr'[t].p].notes
      BY <1>3, <1>4, <1>5, <2>3, <2>4, <2>5
    <3>3. ThreadOK(t)'
      BY <1>1, <1>3, <2>4, <2>5, <3>1, <3>2 DEF ThreadOK
    <3> QED BY <3>1, <3>3
  <2>8. Moved(t)
    BY <1>3, <2>4, <2>5, <2>7 DEF Moved
  <2>9. NoteGoes(t, x)
    <3>1. NotesKept(x) /\ FreedKept
      BY <1>6, <2>3 DEF NotesKept, FreedKept
    <3> QED BY <1>3, <1>5, <3>1 DEF NoteGoes
  <2>10. NoteComes(None, None)
    BY <1>6, <2>3 DEF NoteComes
  <2>11. ListsMove(t, None, None) /\ ExitMove(None) /\ SameStatuses
    BY <1>1, <2>3, <2>7, SameLists
  <2> QED BY <2>6, <2>8, <2>9, <2>10, <2>11, MoveInv
<1>8. CASE ~TooMany(p)
  <2> DEFINE l == <<Entry(x)>> \o proc[p].twait
             n == Going(thr[t], "vmfork")
  <2>1. proc' = [proc EXCEPT ![p].twait = l] /\ thr' = [thr EXCEPT ![t] = n] /\ nthreads' = nthreads
    BY <1>4, <1>5, <1>8 DEF Start_thread, Goto, Going
  <2>2. l \in Lists
    <3>1. PICK v \in Lists : v = proc[p].twait
      BY Fields DEF IInv
    <3>2. l = Pushed(v, x)
      BY <3>1 DEF Pushed
    <3> HIDE DEF l
    <3>3. Pushed(v, x) \in Lists
      BY PushFacts
    <3> QED BY <3>2, <3>3
  <2>3. /\ proc' \in [Ids -> Procs] /\ proc'[p].twait = l
        /\ \A q \in Ids : /\ q # p => proc'[q].twait = proc[q].twait
                          /\ proc'[q].status = proc[q].status /\ proc'[q].notes = proc[q].notes
                          /\ proc'[q].pwait = proc[q].pwait /\ proc'[q].freed = proc[q].freed
    <3> HIDE DEF l
    <3> QED BY <1>6, <2>1, <2>2, WithTwait
  <2>4. n \in Thrs /\ n.pc = "vmfork" /\ n.p = thr[t].p /\ n.tgt = thr[t].tgt /\ n.tid = thr[t].tid
    <3>1. "vmfork" \in Places
      BY PlacesFacts
    <3> QED BY <1>3, <3>1, AtPlace
  <2> HIDE DEF n
  <2>5. thr'[t] = n /\ (\A u \in Ids \ {t} : Like(u)) /\ thr' \in [Ids -> Thrs]
    BY <2>1, <2>4, OneThread DEF IInv
  <2>6. TypeOK' /\ OomInv' /\ apid <= apid'
    BY <1>1, <1>6, <2>1, <2>3, <2>5 DEF IInv, TypeOK, OomInv
  <2>7. Moved(t) /\ ~Pending(t)'
    BY <1>1, <1>2, <2>3, <2>4, <2>5, CreatesOK
  <2>8. NoteGoes(t, None) /\ NoteComes(None, None)
    BY <2>3, SameNotes
  <2>9. Pending(t) /\ x = NewId(t)
    BY <1>1, <1>5 DEF Pending, NewId
  <2>10. ListsMove(t, x, None) /\ SameStatuses
    <3>1. PICK b0 \in BOOLEAN : b0 = FALSE
      OBVIOUS
    <3>2. /\ WList(p, b0)' = <<Entry(x)>> \o WList(p, b0)
          /\ \A q \in Ids, b \in BOOLEAN : (q # p \/ b # b0) => WList(q, b)' = WList(q, b)
      BY <2>3, <3>1 DEF WList
    <3> QED BY <1>1, <2>6, <2>7, <2>9, <3>2, EnterLists
  <2>11. ExitMove(None)
    BY <2>3 DEF ExitMove
  <2> QED BY <2>6, <2>7, <2>8, <2>10, <2>11, MoveInv
<1> QED BY <1>7, <1>8

\* Ids beyond atomic_pid are new.
LEMMA NewIds ==
    ASSUME IInv, NEW x \in Ids, x > apid
    PROVE  /\ thr[x].pc = "none" /\ ~Listed(x) /\ reaped[x] = 0
           /\ \A p \in Ids : x \notin proc[p].notes
<1>1. apid \in Nat /\ x \in Nat
  BY Fields, IdsFacts DEF IInv
<1>2. ThreadOK(x)
  BY DEF IInv, ThreadsInv
<1>3. thr[x].pc = "none"
  BY <1>1, <1>2 DEF ThreadOK
<1>4. ~Listed(x) /\ reaped[x] = 0
  BY <1>1 DEF IInv, ListsInv
<1>5. \A p \in Ids : x \notin proc[p].notes
  BY <1>1 DEF IInv, NotesInv
<1> QED BY <1>3, <1>4, <1>5

\* The thread that has made a note x for a new thread of process p.
LEMMA CreatingOK ==
    ASSUME IInv, NEW t \in Ids, thr[t].pc \in {"fork", "tfork"}, NEW p \in Ids, NEW x \in Ids, x > apid,
           x <= apid', p <= apid', apid' \in Nat, NEW pc \in {"procnew", "newtid"},
           thr' = [thr EXCEPT ![t] = Aiming(thr[t], pc, p, x)],
           pc = "newtid" => p = thr[t].p, pc = "procnew" => p > apid,
           x \in proc'[p].notes, t \in proc'[thr[t].p].notes
    PROVE  /\ Moved(t) /\ thr' \in [Ids -> Thrs] /\ thr'[x].pc = "none"
           /\ Pending(t)' => NewId(t)' = IF pc = "procnew" THEN p ELSE x
<1>1. /\ thr[t] \in Thrs /\ thr[t].p \in 1 .. apid /\ t \in 1 .. apid /\ apid \in Nat
      /\ thr \in [Ids -> Thrs] /\ 1 .. apid \subseteq 1 .. apid'
  <2>1. thr[t].pc \notin {"none", "gone"}
    OBVIOUS
  <2>2. thr[t] \in Thrs /\ thr[t].p \in 1 .. apid /\ t \in 1 .. apid /\ apid \in Nat /\ thr \in [Ids -> Thrs]
    BY <2>1, AliveFacts, Fields DEF IInv, TypeOK
  <2>3. x \in Nat
    BY IdsFacts
  <2> QED BY <2>2, <2>3
<1>2. thr[x].pc = "none" /\ x # t /\ x \in 1 .. apid' /\ p \in 1 .. apid'
  <2>1. thr[x].pc = "none" /\ x \in Nat /\ p \in Nat /\ x >= 1 /\ p >= 1
    BY NewIds, IdsFacts DEF Ids
  <2> QED BY <1>1, <2>1
<1>3. PICK n : n = Aiming(thr[t], pc, p, x)
  OBVIOUS
<1>4. n \in Thrs /\ n.pc = pc /\ n.p = thr[t].p /\ n.tgt = p /\ n.tid = x
  <2>1. pc \in Places /\ p \in Ids \cup {None} /\ x \in Ids \cup {None}
    BY PlacesFacts
  <2> QED BY <1>1, <1>3, <2>1, WithTarget
<1>5. thr'[t] = n /\ (\A u \in Ids \ {t} : Like(u)) /\ thr' \in [Ids -> Thrs]
  BY <1>3, <1>4, OneThread DEF IInv
<1>6. thr'[x].pc = "none"
  BY <1>2, <1>5 DEF Like
<1>7. ~Ending(t)' /\ thr'[t].pc \in Holds /\ thr'[t].pc \in Creates
      /\ thr'[t].pc \notin {"none", "gone", "doom", "mark", "putpid", "del", "asleep"}
  BY <1>4, <1>5 DEF Ending, Ends, Holds, Creates
<1>8. ThreadOK(t)'
  <2>1. t <= apid' /\ thr[t].p \in 1 .. apid'
    BY <1>1
  <2> QED BY <1>2, <1>4, <1>5, <1>6, <1>7, <2>1 DEF ThreadOK
<1>9. Pending(t)' => NewId(t)' = IF pc = "procnew" THEN p ELSE x
  BY <1>4, <1>5 DEF NewId
<1>10. Moved(t)
  <2>1. thr'[t].tid > apid /\ thr[t].pc \notin {"none", "gone"}
    BY <1>4, <1>5
  <2> QED BY <1>4, <1>5, <1>7, <1>8, <2>1 DEF Moved
<1> QED BY <1>5, <1>6, <1>9, <1>10

\* Thread_new: one more note.
LEMMA ThreadNewInv ==
    ASSUME IInv, NEW t \in Ids, Thread_new(t)
    PROVE  IInv'
<1>1. thr[t].pc = "tfork" /\ UNCHANGED <<ptable, reaped, cwds, oom, nooms>>
  BY DEF Thread_new, At
<1>2. CASE nthreads + 1 > Sysprocs \/ apid + 1 > MaxId
  <2>1. Alive(t)
    BY <1>1, AliveAt DEF Plain
  <2>2. UNCHANGED <<apid, nthreads, proc>> /\ thr' = [thr EXCEPT ![t] = Home(thr[t], "resched")]
    BY <1>2 DEF Thread_new, Return
  <2> QED BY <1>1, <2>1, <2>2, MoveHome, FrameTypes
<1>3. CASE ~(nthreads + 1 > Sysprocs \/ apid + 1 > MaxId)
  <2>1. /\ apid \in Nat /\ 1 .. apid \subseteq Ids /\ None \notin Ids /\ proc \in [Ids -> Procs]
        /\ Ids \subseteq Nat
    BY Fields, IdsFacts DEF IInv, TypeOK
  <2>2. PICK x \in Ids : x = apid + 1
    BY <1>3, <2>1, ProcAssumption DEF Ids
  <2>3. /\ thr' = [thr EXCEPT ![t] = [thr[t] EXCEPT !.pc = "newtid", !.tgt = thr[t].p, !.tid = x]]
        /\ apid' = x /\ nthreads' = nthreads + 1
        /\ proc' = [proc EXCEPT ![thr[t].p].notes = @ \cup {x}]
    BY <1>3, <2>2 DEF Thread_new
  <2>4. thr[t].pc \in {"fork", "tfork"}
    BY <1>1
  <2>5. thr[t] \in Thrs /\ thr[t].p \in Ids /\ t \in proc[thr[t].p].notes /\ thr[t].p \in 1 .. apid
    <3>1. Alive(t) /\ thr[t].pc \notin {"none", "gone"}
      BY <2>4, AliveAt DEF Plain
    <3> QED BY <3>1, AliveFacts, Fields DEF IInv, ThreadsInv, ThreadOK
  <2>6. PICK p \in Ids : p = thr[t].p
    BY <2>5
  <2>7. thr' = [thr EXCEPT ![t] = Aiming(thr[t], "newtid", p, x)]
    BY <2>3, <2>6 DEF Aiming
  <2> DEFINE s == proc[p].notes \cup {x}
  <2>8. proc' = [proc EXCEPT ![p].notes = s] /\ s \in SUBSET Ids
    BY <2>3, <2>6, Fields DEF IInv
  <2>9. /\ proc' \in [Ids -> Procs] /\ proc'[p].notes = s
        /\ \A q \in Ids : /\ q # p => proc'[q].notes = proc[q].notes
                          /\ proc'[q].status = proc[q].status /\ proc'[q].pwait = proc[q].pwait
                          /\ proc'[q].twait = proc[q].twait /\ proc'[q].freed = proc[q].freed
    <3> HIDE DEF s
    <3>1. PICK v \in SUBSET Ids : v = s
      BY <2>8
    <3>2. proc' = [proc EXCEPT ![p].notes = v]
      BY <2>8, <3>1
    <3>3. /\ proc' \in [Ids -> Procs] /\ proc'[p].notes = v
          /\ \A q \in Ids : /\ q # p => proc'[q].notes = proc[q].notes
                            /\ proc'[q].status = proc[q].status /\ proc'[q].pwait = proc[q].pwait
                            /\ proc'[q].twait = proc[q].twait /\ proc'[q].freed = proc[q].freed
      <4>1. proc \in [Ids -> Procs]
        BY <2>1
      <4> QED BY ONLY p \in Ids, v \in SUBSET Ids, <3>2, <4>1, WithNotes
    <3> QED BY <3>1, <3>3
  <2>10. x > apid /\ x <= apid' /\ p <= apid' /\ apid' \in Nat /\ apid <= apid' /\ p \in 1 .. apid
    BY <2>1, <2>2, <2>3, <2>5, <2>6
  <2>11. /\ Moved(t) /\ thr' \in [Ids -> Thrs] /\ thr'[x].pc = "none"
         /\ Pending(t)' => NewId(t)' = x
    <3>1. x \in proc'[p].notes /\ t \in proc'[thr[t].p].notes
      BY <2>5, <2>6, <2>9
    <3>2. PICK pc \in {"procnew", "newtid"} : pc = "newtid"
      OBVIOUS
    <3>3. thr' = [thr EXCEPT ![t] = Aiming(thr[t], pc, p, x)]
      BY <2>7, <3>2
    <3>4. (pc = "newtid" => p = thr[t].p) /\ (pc = "procnew" => p > apid)
      BY <2>6, <3>2
    <3>5. /\ Moved(t) /\ thr' \in [Ids -> Thrs] /\ thr'[x].pc = "none"
          /\ Pending(t)' => NewId(t)' = IF pc = "procnew" THEN p ELSE x
      BY <2>4, <2>10, <3>1, <3>3, <3>4, CreatingOK
    <3> QED BY <3>2, <3>5
  <2>12. TypeOK' /\ OomInv'
    BY <1>1, <2>3, <2>9, <2>11 DEF IInv, TypeOK, OomInv
  <2>13. thr[x].pc = "none" /\ \A q \in Ids : x \notin proc[q].notes
    BY <2>10, NewIds
  <2>14. NoteGoes(t, None)
    <3>1. \A v \in 1 .. apid : v # x
      BY <2>1, <2>10
    <3>2. NotesKept(None) /\ FreedKept
      BY <2>1, <2>9, <3>1 DEF NotesKept, FreedKept
    <3> QED BY <3>2 DEF NoteGoes
  <2>15. NoteComes(x, p)
    <3>1. ~proc'[p].freed
      BY <2>5, <2>6, <2>9 DEF IInv, NotesInv
    <3> QED BY <2>9, <2>10, <2>11, <2>13, <3>1 DEF NoteComes
  <2>16. ListsMove(t, None, None) /\ ExitMove(None) /\ SameStatuses
    <3>1. Pending(t)' => NewId(t)' \in apid + 1 .. apid'
      BY <2>1, <2>2, <2>3, <2>10, <2>11
    <3> QED BY <1>1, <2>9, <3>1, SameLists
  <2> QED BY <2>10, <2>11, <2>12, <2>14, <2>15, <2>16, MoveInv
<1> QED BY <1>2, <1>3

\* Proc_new: a process with one note and one id in its list.
LEMMA ProcNewInv ==
    ASSUME IInv, NEW t \in Ids, Proc_new(t)
    PROVE  IInv'
<1>1. thr[t].pc = "fork" /\ UNCHANGED <<reaped, oom, nooms>>
  BY DEF Proc_new, At
<1>2. CASE nthreads + 1 >= Sysprocs \/ apid + 2 > MaxId
  <2>1. Alive(t)
    BY <1>1, AliveAt DEF Plain
  <2>2. UNCHANGED <<apid, nthreads, ptable, proc, cwds>> /\ thr' = [thr EXCEPT ![t] = Home(thr[t], "resched")]
    BY <1>2 DEF Proc_new, Return
  <2> QED BY <1>1, <2>1, <2>2, MoveHome, FrameTypes
<1>3. CASE ~(nthreads + 1 >= Sysprocs \/ apid + 2 > MaxId)
  <2>1. /\ apid \in Nat /\ 1 .. apid \subseteq Ids /\ None \notin Ids /\ proc \in [Ids -> Procs]
        /\ Ids \subseteq Nat
    BY Fields, IdsFacts DEF IInv, TypeOK
  <2>2. PICK p \in Ids, x \in Ids : p = apid + 1 /\ x = apid + 2
    <3>1. apid + 1 \in Ids /\ apid + 2 \in Ids
      BY <1>3, <2>1, ProcAssumption DEF Ids
    <3> QED BY <3>1
  <2> DEFINE r == [NullProc EXCEPT !.notes = {x}, !.twait = <<Entry(x)>>]
  <2>3. /\ thr' = [thr EXCEPT ![t] = [thr[t] EXCEPT !.pc = "procnew", !.tgt = p, !.tid = x]]
        /\ apid' = x /\ nthreads' = nthreads + 1 /\ ptable' = ptable \cup {p} /\ cwds' = cwds + 1
        /\ proc' = [proc EXCEPT ![p] = r]
    BY <1>3, <2>2 DEF Proc_new
  <2>4. thr[t].pc \in {"fork", "tfork"}
    BY <1>1
  <2>5. thr[t] \in Thrs /\ thr[t].p \in Ids /\ t \in proc[thr[t].p].notes /\ thr[t].p \in 1 .. apid
    <3>1. Alive(t) /\ thr[t].pc \notin {"none", "gone"}
      BY <2>4, AliveAt DEF Plain
    <3> QED BY <3>1, AliveFacts, Fields DEF IInv, ThreadsInv, ThreadOK
  <2>6. thr' = [thr EXCEPT ![t] = Aiming(thr[t], "procnew", p, x)]
    BY <2>3 DEF Aiming
  <2>7. /\ r \in Procs /\ r.notes = {x} /\ r.freed = FALSE /\ DOMAIN r.pwait = {}
        /\ DOMAIN r.twait = {1} /\ r.twait[1].id = x
    <3>1. Entry(x) \in [id : Ids, valid : BOOLEAN, status : Statuses] /\ Entry(x).id = x
      BY ProcAssumption DEF Entry
    <3>2. <<Entry(x)>> \in Lists /\ DOMAIN <<Entry(x)>> = {1} /\ <<Entry(x)>>[1].id = x
      BY <3>1 DEF Lists
    <3>3. PICK l \in Lists : l = <<Entry(x)>>
      BY <3>2
    <3>4. <<>> \in Lists /\ DOMAIN <<>> = {}
      BY DEF Lists
    <3> DEFINE a == [NullProc EXCEPT !.notes = {x}]
    <3>5. a \in Procs /\ a.notes = {x} /\ a.freed = FALSE /\ a.pwait = <<>>
      BY <3>4, ProcAssumption DEF NullProc, Procs
    <3>6. r = [a EXCEPT !.twait = l]
      BY <3>3
    <3> HIDE DEF a, r
    <3>7. r \in Procs /\ r.notes = {x} /\ r.freed = FALSE /\ r.pwait = <<>> /\ r.twait = l
      BY <3>5, <3>6 DEF Procs
    <3> QED BY <3>2, <3>3, <3>4, <3>7
  <2> HIDE DEF r
  <2>8. proc'[p] = r /\ (\A q \in Ids \ {p} : proc'[q] = proc[q]) /\ proc' \in [Ids -> Procs]
    BY <2>3, <2>7, OneProc DEF IInv
  <2>9. x > apid /\ p > apid /\ x <= apid' /\ p <= apid' /\ apid' \in Nat /\ apid <= apid' /\ p # x
    BY <2>1, <2>2, <2>3
  <2>10. /\ Moved(t) /\ thr' \in [Ids -> Thrs] /\ thr'[x].pc = "none"
         /\ Pending(t)' => NewId(t)' = p
    <3>1. x \in proc'[p].notes /\ t \in proc'[thr[t].p].notes
      <4>1. thr[t].p # p
        BY <2>1, <2>5, <2>9
      <4> QED BY <2>5, <2>7, <2>8, <4>1
    <3>2. PICK pc \in {"procnew", "newtid"} : pc = "procnew"
      OBVIOUS
    <3>3. thr' = [thr EXCEPT ![t] = Aiming(thr[t], pc, p, x)]
      BY <2>6, <3>2
    <3>4. (pc = "newtid" => p = thr[t].p) /\ (pc = "procnew" => p > apid)
      BY <2>9, <3>2
    <3>5. /\ Moved(t) /\ thr' \in [Ids -> Thrs] /\ thr'[x].pc = "none"
          /\ Pending(t)' => NewId(t)' = IF pc = "procnew" THEN p ELSE x
      BY <2>4, <2>9, <3>1, <3>3, <3>4, CreatingOK
    <3> QED BY <3>2, <3>5
  <2>11. TypeOK' /\ OomInv'
    BY <1>1, <2>3, <2>8, <2>10 DEF IInv, TypeOK, OomInv
  <2>12. /\ thr[x].pc = "none" /\ ~Listed(x) /\ reaped[x] = 0 /\ \A q \in Ids : x \notin proc[q].notes
    BY <2>9, NewIds
  <2>13. \A q \in 1 .. apid : q \in Ids /\ q # p /\ proc'[q] = proc[q]
    BY <2>1, <2>8, <2>9
  <2>14. NoteGoes(t, None)
    BY <2>13 DEF NoteGoes, NotesKept, FreedKept
  <2>15. NoteComes(x, p)
    BY <2>7, <2>8, <2>9, <2>10, <2>12 DEF NoteComes
  <2>16. /\ WList(p, TRUE)' = r.pwait /\ WList(p, FALSE)' = r.twait
         /\ \A q \in Ids, b \in BOOLEAN : q # p => WList(q, b)' = WList(q, b)
    BY <2>8 DEF WList
  <2>17. UniqueIds' /\ \A i \in Ids : Listed(i)' => Listed(i) \/ i = x
    <3>1. PICK b0 \in BOOLEAN : b0 = FALSE
      OBVIOUS
    <3>2. Enters(p, b0, x)
      <4>1. \A k \in DOMAIN WList(p, b0)' : k = 1 /\ WList(p, b0)'[k].id = x
        BY <2>7, <2>16, <3>1
      <4>2. ASSUME NEW q \in Ids, NEW b \in BOOLEAN, q # p \/ b # b0, NEW k \in DOMAIN WList(q, b)'
            PROVE  k \in DOMAIN WList(q, b) /\ WList(q, b)'[k] = WList(q, b)[k]
        <5>1. CASE q # p
          BY <2>16, <4>2, <5>1
        <5>2. CASE q = p
          <6>1. b = TRUE
            BY <3>1, <4>2, <5>2
          <6> QED BY <2>7, <2>16, <4>2, <5>2, <6>1
        <5> QED BY <5>1, <5>2
      <4> QED BY <4>1, <4>2 DEF Enters
    <3> QED BY <2>11, <2>12, <3>2, PushUnique
  <2>18. ListsMove(t, x, None)
    <3>1. Pending(t)' => NewId(t)' \in apid + 1 .. apid' /\ NewId(t)' # x
      BY <2>1, <2>2, <2>3, <2>9, <2>10
    <3>2. \A i \in Ids : reaped'[i] = reaped[i]
      BY <1>1
    <3>3. x # None
      BY <2>1
    <3> QED BY <2>1, <2>9, <2>12, <2>17, <3>1, <3>2, <3>3 DEF ListsMove
  <2>19. SameStatuses
    <3>1. ASSUME NEW u \in Ids, thr'[u].pc = "asleep", NEW q \in Ids, q = thr[u].p
          PROVE  q # p
      <4>1. thr[u].pc = "asleep"
        BY <2>10, <3>1 DEF Moved, Like
      <4>2. q \in 1 .. apid
        BY <3>1, <4>1, AliveFacts
      <4> QED BY <2>13, <4>2
    <3> QED BY <2>16, <3>1 DEF SameStatuses
  <2>20. ExitMove(None)
    <3>1. \A q \in Ids : Listed(q) => q # p
      BY <2>9, NewIds
    <3>2. DOMAIN proc'[p].pwait = {}
      BY <2>7, <2>8
    <3> QED BY <2>8, <3>1, <3>2 DEF ExitMove
  <2> QED BY <2>9, <2>10, <2>11, <2>14, <2>15, <2>18, <2>19, <2>20, MoveInv
<1> QED BY <1>2, <1>3

\* The first note of the child can be found.
LEMMA FirstNoteInv ==
    ASSUME IInv, NEW t \in Ids, First_note(t)
    PROVE  IInv'
<1>1. /\ thr[t].pc = "procnew" /\ Goto(t, "forked")
      /\ UNCHANGED <<apid, nthreads, ptable, proc, reaped, cwds, oom, nooms, panic>>
  BY DEF First_note, At
<1>2. /\ ThreadOK(t) /\ thr[t] \in Thrs /\ thr[t].pc \in Holds /\ thr[t].pc \notin {"none", "gone"}
      /\ thr[t].tgt \in 1 .. apid /\ thr[t].tid \in 1 .. apid /\ thr[t].tid \in Ids
      /\ thr[t].tid # t /\ thr[thr[t].tid].pc = "none" /\ t \in proc[thr[t].p].notes
      /\ thr[t].tid \in proc[thr[t].tgt].notes /\ thr[t].p \in 1 .. apid /\ t <= apid
  BY <1>1, CreatesFacts DEF Creates
<1>3. PICK n : n = Going(thr[t], "forked")
  OBVIOUS
<1>4. n \in Thrs /\ n.pc = "forked" /\ n.p = thr[t].p /\ n.tgt = thr[t].tgt /\ n.tid = thr[t].tid
  <2>1. "forked" \in Places
    BY PlacesFacts
  <2> QED BY <1>2, <1>3, <2>1, AtPlace
<1>5. thr'[t] = n /\ (\A u \in Ids \ {t} : Like(u)) /\ thr' \in [Ids -> Thrs]
  <2>1. thr' = [thr EXCEPT ![t] = n]
    BY <1>1, <1>3 DEF Goto, Going
  <2> QED BY <1>4, <2>1, OneThread DEF IInv
<1>6. TypeOK' /\ Quiet /\ OomInv'
  BY <1>1, <1>5, Frame, FrameTypes
<1>7. Pending(t)' => Pending(t) /\ NewId(t)' = NewId(t)
  BY <1>1, <1>4, <1>5 DEF Pending, NewId
<1>8. ThreadOK(t)'
  <2>1. ~Ending(t)' /\ thr'[thr[t].tid].pc = "none"
    BY <1>2, <1>4, <1>5 DEF Ending, Ends, Like
  <2> QED BY <1>1, <1>2, <1>4, <1>5, <2>1 DEF ThreadOK
<1> QED BY <1>2, <1>4, <1>5, <1>6, <1>7, <1>8, QuietOne

\* The first status that is ready.
LEMMA MinIndex ==
    ASSUME NEW S, S \subseteq Nat, S # {}
    PROVE  \E k \in S : \A j \in S : k <= j
<1>1. PICK x \in S : \A y \in S : ~(<<y, x>> \in OpToRel(<, Nat))
  BY NatLessThanWellFounded, WFMin
<1>2. \A u, v \in Nat : u < v => <<u, v>> \in OpToRel(<, Nat)
  BY Zenon DEF OpToRel
<1>3. \A y \in S : ~(y < x)
  BY <1>1, <1>2, Zenon
<1>4. \A y \in S : x <= y
  BY <1>3
<1> QED BY <1>4

\* A status is collected: it is on the list of the process no more.
LEMMA ReapReadyInv ==
    ASSUME IInv, NEW t \in Ids, ReapReady(t)
    PROVE  IInv'
<1>1. /\ thr[t].pc = "reap" /\ Ready(t) # {}
      /\ UNCHANGED <<apid, nthreads, ptable, cwds, oom, nooms, panic>>
  BY DEF ReapReady, At
<1>2. Alive(t) /\ thr[t] \in Thrs /\ thr[t].p \in Ids /\ ThreadOK(t)
  BY <1>1, AliveAt DEF Plain, IInv, ThreadsInv
<1>3. PICK p \in Ids, b \in BOOLEAN : p = thr[t].p /\ b = thr[t].isproc
  BY <1>2, Fields DEF IInv
<1>4. Waits(t) = WList(p, b)
  BY <1>3 DEF Waits, Mine, WList
<1>5. WList(p, b) \in Lists
  BY WListTypes DEF IInv
<1>6. Ready(t) \subseteq DOMAIN WList(p, b) /\ Ready(t) \subseteq Nat
  <2>1. Ready(t) \subseteq DOMAIN WList(p, b)
    BY <1>4 DEF Ready, Matches
  <2>2. DOMAIN WList(p, b) \subseteq Nat
    BY <1>5, ListFacts
  <2> QED BY <2>1, <2>2
<1>7. PICK k : k = CHOOSE i \in Ready(t) : \A j \in Ready(t) : i <= j
  OBVIOUS
<1>8. k \in DOMAIN WList(p, b)
  <2>1. \E j \in Ready(t) : \A i \in Ready(t) : j <= i
    BY <1>1, <1>6, MinIndex
  <2>2. k \in Ready(t)
    BY <1>7, <2>1
  <2> QED BY <1>6, <2>2
<1>9. PICK y \in Ids : y = WList(p, b)[k].id
  BY <1>5, <1>8, ListFacts
<1>10. /\ proc' = IF b THEN [proc EXCEPT ![p].pwait = wremove(@, k)]
                  ELSE [proc EXCEPT ![p].twait = wremove(@, k)]
       /\ reaped' = [reaped EXCEPT ![y] = @ + 1]
       /\ thr' = [thr EXCEPT ![t] = Home(thr[t], "resched")]
  BY <1>3, <1>4, <1>7, <1>9 DEF ReapReady, Return, Reaped
<1>11. PICK m \in Lists : m = wremove(WList(p, b), k)
  BY <1>5, <1>8, RemoveFacts
<1>12. proc \in [Ids -> Procs] /\ apid \in Nat /\ 1 .. apid \subseteq Ids /\ None \notin Ids
  BY Fields, IdsFacts DEF IInv, TypeOK
<1>13. /\ proc' \in [Ids -> Procs]
       /\ \A q \in Ids : /\ proc'[q].status = proc[q].status /\ proc'[q].notes = proc[q].notes
                         /\ proc'[q].freed = proc[q].freed
       /\ WList(p, b)' = m
       /\ \A q \in Ids, c \in BOOLEAN : (q # p \/ c # b) => WList(q, c)' = WList(q, c)
  <2>1. CASE b = TRUE
    <3>1. proc' = [proc EXCEPT ![p].pwait = m]
      BY <1>10, <1>11, <2>1 DEF WList
    <3>2. /\ proc' \in [Ids -> Procs] /\ proc'[p].pwait = m
          /\ \A q \in Ids : /\ q # p => proc'[q].pwait = proc[q].pwait
                            /\ proc'[q].status = proc[q].status /\ proc'[q].notes = proc[q].notes
                            /\ proc'[q].twait = proc[q].twait /\ proc'[q].freed = proc[q].freed
      BY <1>12, <3>1, WithPwait
    <3> QED BY <2>1, <3>2 DEF WList
  <2>2. CASE b = FALSE
    <3>1. proc' = [proc EXCEPT ![p].twait = m]
      BY <1>10, <1>11, <2>2 DEF WList
    <3>2. /\ proc' \in [Ids -> Procs] /\ proc'[p].twait = m
          /\ \A q \in Ids : /\ q # p => proc'[q].twait = proc[q].twait
                            /\ proc'[q].status = proc[q].status /\ proc'[q].notes = proc[q].notes
                            /\ proc'[q].pwait = proc[q].pwait /\ proc'[q].freed = proc[q].freed
      BY <1>12, <3>1, WithTwait
    <3> QED BY <2>2, <3>2 DEF WList
  <2> QED BY <2>1, <2>2
<1> DEFINE n == Home(thr[t], "resched")
<1>14. n \in Thrs /\ n.pc = "resched" /\ n.p = thr[t].p
  <2>1. "resched" \in Places
    BY PlacesFacts
  <2> QED BY <1>2, <2>1, HomeFacts
<1>15. thr'[t] = n /\ (\A u \in Ids \ {t} : Like(u)) /\ thr' \in [Ids -> Thrs]
  <2> HIDE DEF n
  <2>1. thr' = [thr EXCEPT ![t] = n]
    BY <1>10 DEF n
  <2> QED BY <1>14, <2>1, OneThread DEF IInv
<1> HIDE DEF n
<1>16. /\ reaped' \in [Ids -> Nat] /\ reaped'[y] = reaped[y] + 1
       /\ \A i \in Ids : i # y => reaped'[i] = reaped[i]
  BY <1>10 DEF IInv, TypeOK
<1>17. TypeOK' /\ OomInv' /\ apid <= apid'
  BY <1>1, <1>12, <1>13, <1>15, <1>16 DEF IInv, TypeOK, OomInv
<1>18. Moved(t) /\ ~Pending(t)'
  <2>1. /\ ~Ending(t)' /\ ~Pending(t)' /\ thr'[t].pc \notin Holds
        /\ thr'[t].pc \notin Creates \cup {"dead"}
    BY <1>14, <1>15 DEF Ending, Ends, Pending, Holds, Creates
  <2>2. thr[t].pc \notin {"none", "gone"} /\ thr[t].p \in 1 .. apid /\ t \in proc[thr[t].p].notes /\ t <= apid
    BY <1>1, <1>2 DEF ThreadOK, Alive
  <2>3. t \in proc'[thr'[t].p].notes
    BY <1>2, <1>13, <1>14, <1>15, <2>2
  <2>4. ThreadOK(t)'
    BY <1>1, <1>14, <1>15, <2>1, <2>2, <2>3 DEF ThreadOK
  <2> QED BY <1>14, <1>15, <2>1, <2>2, <2>4 DEF Moved
<1>19. NoteGoes(t, None) /\ NoteComes(None, None)
  BY <1>13, SameNotes
<1>20. UniqueIds' /\ \A i \in Ids : Listed(i)' => Listed(i) /\ i # y
  <2>1. WList(p, b)' = wremove(WList(p, b), k)
    BY <1>11, <1>13
  <2> QED BY <1>8, <1>9, <1>13, <1>17, <2>1, RemoveUnique
<1>21. ListsMove(t, None, y)
  <2>1. Listed(y)
    BY <1>8, <1>9 DEF Listed
  <2> QED BY <1>12, <1>16, <1>18, <1>20, <2>1 DEF ListsMove
<1>22. /\ \A j \in DOMAIN m : j < k => j \in DOMAIN WList(p, b) /\ m[j] = WList(p, b)[j]
       /\ \A j \in DOMAIN m : ~(j < k) => j + 1 \in DOMAIN WList(p, b) /\ m[j] = WList(p, b)[j + 1]
       /\ \A j \in DOMAIN WList(p, b) : j < k => j \in DOMAIN m /\ m[j] = WList(p, b)[j]
       /\ \A j \in DOMAIN WList(p, b) : k < j => j - 1 \in DOMAIN m /\ m[j - 1] = WList(p, b)[j]
  BY <1>5, <1>8, <1>11, RemoveFacts
<1>23. \A j \in DOMAIN m : \E i \in DOMAIN WList(p, b) : m[j] = WList(p, b)[i]
  BY <1>22
<1>24. \A i \in DOMAIN WList(p, b) : i # k => \E j \in DOMAIN m : m[j] = WList(p, b)[i]
  <2>1. \A i \in DOMAIN WList(p, b) : i \in Nat
    BY <1>5, ListFacts
  <2>2. \A i \in DOMAIN WList(p, b) : i # k => i < k \/ k < i
    BY <1>8, <2>1
  <2> QED BY <1>22, <2>2
<1>25. WList(p, b)[k].valid
  <2>1. \E j \in Ready(t) : \A i \in Ready(t) : j <= i
    BY <1>1, <1>6, MinIndex
  <2>2. k \in Ready(t)
    BY <1>7, <2>1
  <2> QED BY <1>4, <2>2 DEF Ready
<1>26. SameStatuses
  <2>1. ASSUME NEW q \in Ids, NEW c \in BOOLEAN
        PROVE  /\ \A j \in DOMAIN WList(q, c)' : WList(q, c)'[j].valid =>
                      \E i \in DOMAIN WList(q, c) :
                          WList(q, c)[i].valid /\ WList(q, c)[i].id = WList(q, c)'[j].id
               /\ \A i \in DOMAIN WList(q, c) : ~WList(q, c)[i].valid =>
                      \E j \in DOMAIN WList(q, c)' : WList(q, c)[i].id = WList(q, c)'[j].id
    <3>1. CASE q = p /\ c = b
      <4>1. WList(q, c)' = m /\ WList(q, c) = WList(p, b)
        BY <1>13, <3>1
      <4> QED BY <1>23, <1>24, <1>25, <4>1
    <3>2. CASE q # p \/ c # b
      <4>1. WList(q, c)' = WList(q, c)
        BY <1>13, <3>2
      <4> QED BY <4>1
    <3> QED BY <3>1, <3>2
  <2> QED BY <2>1 DEF SameStatuses
<1>27. ExitMove(None)
  <2>1. ASSUME NEW q \in Ids, NEW j \in DOMAIN proc'[q].pwait
        PROVE  \E i \in DOMAIN proc[q].pwait : proc'[q].pwait[j] = proc[q].pwait[i]
    <3>1. proc'[q].pwait = WList(q, TRUE)' /\ proc[q].pwait = WList(q, TRUE)
      BY DEF WList
    <3>2. CASE q = p /\ b = TRUE
      <4>1. WList(q, TRUE)' = m /\ WList(q, TRUE) = WList(p, b)
        BY <1>13, <3>2
      <4>2. proc'[q].pwait = m /\ proc[q].pwait = WList(p, b)
        BY <3>1, <4>1
      <4>3. j \in DOMAIN m
        BY <2>1, <4>2
      <4> QED BY <1>23, <4>2, <4>3
    <3>3. CASE q # p \/ b = FALSE
      BY <1>13, <2>1, <3>1, <3>3
    <3> QED BY <3>2, <3>3
  <2> QED BY <1>13, <2>1 DEF ExitMove
<1> QED BY <1>17, <1>18, <1>19, <1>21, <1>26, <1>27, MoveInv

-------------------------------------------------------------------------------
(***************************************************************************)
(* The theorems.                                                           *)
(***************************************************************************)
\* The first state.
LEMMA InitInv == Init => IInv
<1> SUFFICES ASSUME Init PROVE IInv
  OBVIOUS
<1>0. /\ Ids \subseteq Nat /\ None \notin Ids /\ Any \notin Ids /\ Root \in Ids /\ 2 \in Ids
      /\ Root = 1 /\ Root # 2 /\ apid = 2
  BY IdsFacts DEF Init, Root
<1> DEFINE l == <<Entry(2)>>
           a == [NullProc EXCEPT !.notes = {2}]
           r == [a EXCEPT !.twait = l]
           b == [NullThr EXCEPT !.p = Root]
           n == [b EXCEPT !.pc = "reserve"]
<1>1. l \in Lists /\ DOMAIN l = {1} /\ l[1].id = 2 /\ <<>> \in Lists /\ DOMAIN <<>> = {}
  <2>1. Entry(2) \in [id : Ids, valid : BOOLEAN, status : Statuses] /\ Entry(2).id = 2
    BY <1>0, ProcAssumption DEF Entry
  <2> QED BY <2>1 DEF Lists
<1>2. NullProc \in Procs /\ NullProc.pwait = <<>> /\ NullProc.twait = <<>>
      /\ NullProc.notes = {} /\ ~NullProc.freed
  BY <1>1, ProcAssumption DEF NullProc, Procs
<1>3. proc = [p \in Ids |-> IF p # Root THEN NullProc ELSE r]
  BY DEF Init
<1>4. a \in Procs /\ a.notes = {2} /\ a.pwait = <<>> /\ ~a.freed
  BY <1>0, <1>2 DEF Procs
<1> HIDE DEF l, a
<1>5. r \in Procs /\ r.notes = {2} /\ r.twait = l /\ r.pwait = <<>> /\ ~r.freed
  BY <1>1, <1>4 DEF Procs
<1> HIDE DEF r
<1>6. /\ proc \in [Ids -> Procs]
      /\ \A p \in Ids : /\ ~proc[p].freed /\ proc[p].pwait = <<>>
                        /\ p # Root => proc[p].notes = {} /\ proc[p].twait = <<>>
      /\ proc[Root].notes = {2} /\ proc[Root].twait = l
  BY <1>0, <1>2, <1>3, <1>5
<1>7. NullThr \in Thrs /\ NullThr.pc = "none"
  BY PlacesFacts DEF NullThr, Thrs
<1>8. thr = [t \in Ids |-> IF t # 2 THEN NullThr ELSE n]
  BY DEF Init
<1>9. b \in Thrs /\ b.p = Root
  BY <1>0, <1>7 DEF Thrs
<1> HIDE DEF b
<1>10. n \in Thrs /\ n.p = Root /\ n.pc = "reserve"
  BY <1>9, PlacesFacts DEF Thrs
<1> HIDE DEF n
<1>11. /\ thr \in [Ids -> Thrs] /\ thr[2].p = Root /\ thr[2].pc = "reserve"
       /\ \A t \in Ids : t # 2 => thr[t].pc = "none"
  BY <1>0, <1>7, <1>8, <1>10
<1>12. /\ reaped \in [Ids -> Nat] /\ (\A i \in Ids : reaped[i] = 0)
       /\ oom = [pc |-> "idle", msg |-> None, vic |-> None]
       /\ nthreads \in Int /\ cwds \in Int /\ nooms \in Nat /\ ptable \subseteq Ids
  BY <1>0 DEF Init
<1>13. TypeOK
  BY <1>0, <1>6, <1>11, <1>12 DEF TypeOK
<1>14. \A p \in Ids, c \in BOOLEAN : \A k \in DOMAIN WList(p, c) :
          p = Root /\ c = FALSE /\ k = 1 /\ WList(p, c)[k].id = 2
  BY <1>1, <1>6 DEF WList
<1>15. \A t \in Ids : ~Pending(t)
  BY <1>11 DEF Pending
<1>16. ListsInv
  <2>1. \A i \in Ids : Listed(i) => i = 2
    BY <1>14 DEF Listed
  <2>2. \A p, q \in Ids, c, d \in BOOLEAN :
          \A j \in DOMAIN WList(p, c), k \in DOMAIN WList(q, d) : p = q /\ c = d /\ j = k
    BY <1>14
  <2> QED BY <1>0, <1>12, <1>15, <2>1, <2>2 DEF ListsInv
<1>17. ThreadsInv
  <2>1. \A t \in Ids : thr[t].pc \notin Holds
    BY <1>11 DEF Holds, Creates, Ends
  <2>2. ASSUME NEW t \in Ids PROVE ThreadOK(t)
    <3>1. CASE t = 2
      <4>1. ~Ending(t)
        BY <1>11, <3>1 DEF Ending, Ends
      <4> QED BY <1>0, <1>6, <1>11, <2>1, <3>1, <4>1 DEF ThreadOK, Holds, Creates, Ends
    <3>2. CASE t # 2
      <4>1. ~Ending(t) /\ ~Alive(t)
        BY <1>11, <3>2 DEF Ending, Alive, Ends
      <4> QED BY <1>11, <3>2, <4>1 DEF ThreadOK, Holds, Creates, Ends
    <3> QED BY <3>1, <3>2
  <2> QED BY <2>1, <2>2 DEF ThreadsInv
<1>18. NotesInv
  BY <1>0, <1>6, <1>11 DEF NotesInv
<1>19. ExitInv
  BY <1>1, <1>6 DEF ExitInv
<1>20. SleepsForAReason
  BY <1>11 DEF SleepsForAReason
<1>21. OomInv
  BY <1>12 DEF OomInv
<1> QED BY <1>13, <1>16, <1>17, <1>18, <1>19, <1>20, <1>21 DEF IInv

\* Every step of a thread by itself.
LEMMA MovesInv ==
    ASSUME IInv, NEW t \in Ids, Moves(t)
    PROVE  IInv'
<1>1. CASE Resbegin(t) \/ Resched(t) \/ Trap(t) \/ OomKilled(t)
  BY <1>1, ResbeginInv, ReschedInv, TrapInv, OomKilledInv
<1>2. CASE Doom(t) \/ Mark(t) \/ Thread_dead(t) \/ Puttid(t)
  BY <1>2, DoomInv, MarkInv, ThreadDeadInv, PuttidInv
<1>3. CASE Terminate(t) \/ Putpid(t) \/ Proc_del(t) \/ Leave(t)
  BY <1>3, TerminateInv, PutpidInv, ProcDelInv, LeaveInv
<1>4. CASE ForkNoPmap(t) \/ Start_proc(t) \/ Sched_add(t) \/ ForkNoMem(t) \/ Start_thread(t)
  BY <1>4, ForkNoPmapInv, StartProcInv, SchedAddInv, ForkNoMemInv, StartThreadInv
<1>5. CASE ReapNone(t) \/ ReapReady(t) \/ ReapWait(t) \/ ReapWake(t)
  BY <1>5, ReapNoneInv, ReapReadyInv, ReapWaitInv, ReapWakeInv
<1>6. CASE Proc_new(t) \/ First_note(t) \/ Thread_new(t)
  BY <1>6, ProcNewInv, FirstNoteInv, ThreadNewInv
<1> QED BY <1>1, <1>2, <1>3, <1>4, <1>5, <1>6 DEF Moves, Dying, Forking, Reaping

\* Every system call.
LEMMA CallInv ==
    ASSUME IInv, NEW t \in Ids, Call(t)
    PROVE  IInv'
<1>1. CASE \E st \in Statuses : Sys_exit(t, st) \/ Sys_threxit(t, st)
  BY <1>1, SysExitInv, SysThrexitInv
<1>2. CASE \E p \in Targets : Sys_kill(t, p)
  BY <1>2, SysKillInv
<1>3. CASE Sys_fork(t) \/ Sys_tfork(t) \/ Reserve(t)
  BY <1>3, SysForkInv, ReserveInv
<1>4. CASE \E id \in Ids \cup {Any}, isproc \in BOOLEAN, noblk \in BOOLEAN : Sys_wait4(t, id, isproc, noblk)
  BY <1>4, SysWait4Inv
<1>5. ASSUME NEW id \in Ids \cup {Any}, NEW isproc \in BOOLEAN, Sys_wait4(t, id, isproc, FALSE)
      PROVE  \E noblk \in BOOLEAN : Sys_wait4(t, id, isproc, noblk)
  BY <1>5, FALSE \in BOOLEAN, Zenon
<1>6. ASSUME NEW id \in Ids \cup {Any}, NEW isproc \in BOOLEAN, Sys_wait4(t, id, isproc, TRUE)
      PROVE  \E noblk \in BOOLEAN : Sys_wait4(t, id, isproc, noblk)
  BY <1>6, TRUE \in BOOLEAN, Zenon
<1> QED BY <1>1, <1>2, <1>3, <1>4, <1>5, <1>6 DEF Call

\* Every step.
LEMMA NextInv == IInv /\ [Next]_vars => IInv'
<1> SUFFICES ASSUME IInv, [Next]_vars PROVE IInv'
  OBVIOUS
<1>1. CASE \E t \in Ids : Moves(t) \/ Call(t)
  BY <1>1, MovesInv, CallInv
<1>2. CASE Ooms
  BY <1>2, OomRecvInv, OomResumeInv, OomJudgeInv, OomDoomInv, OomMarkInv, OomDeadInv DEF Ooms
<1>3. CASE UNCHANGED vars
  BY <1>3, StayInv, FrameTypes DEF vars
<1> QED BY <1>1, <1>2, <1>3 DEF Next

\* The inductive invariant, and with it the types of the state.
THEOREM ProcInvariant == Spec => [](TypeOK /\ IInv)
<1>1. Init => IInv
  BY InitInv
<1>2. IInv /\ [Next]_vars => IInv'
  BY NextInv
<1>3. IInv => TypeOK /\ IInv
  BY DEF IInv
<1> QED BY <1>1, <1>2, <1>3, PTL DEF Spec

\* wait4 and _reap: only one wait for a pid or a tid succeeds, whoever races
\* for it.
THEOREM WaitsReportOnce == Spec => []ReapedOnce
<1>1. IInv => ReapedOnce
  BY DEF IInv, ListsInv, ReapedOnce
<1> QED BY <1>1, ProcInvariant, PTL

\* Thread_dead and terminate: when a parent can see the exit of a child, the
\* child has no threads, its files and memory are gone, and the status is final.
THEOREM ExitsAreFinal == Spec => []ExitFinal
<1>1. IInv => ExitFinal
  <2> SUFFICES ASSUME IInv, NEW p \in Ids, NEW k \in DOMAIN proc[p].pwait, proc[p].pwait[k].valid
               PROVE  /\ proc[proc[p].pwait[k].id].notes = {} /\ proc[proc[p].pwait[k].id].freed
                      /\ proc[p].pwait[k].status = proc[proc[p].pwait[k].id].status
    BY DEF ExitFinal
  <2>1. PICK q \in Ids : q = proc[p].pwait[k].id
    BY Fields, ListFacts DEF IInv
  <2>2. proc[q].freed /\ proc[p].pwait[k].status = proc[q].status
    BY <2>1 DEF IInv, ExitInv
  <2>3. proc[q].notes = {}
    BY <2>2 DEF IInv, NotesInv
  <2> QED BY <2>1, <2>2, <2>3
<1> QED BY <1>1, ProcInvariant, PTL

\* KillableWait: no thread sleeps in wait that has been killed, has nobody to
\* wait for, or has a status to collect: no wakeup is lost.
THEOREM NobodySleepsForNothing == Spec => []SleepsForAReason
<1>1. IInv => SleepsForAReason
  BY DEF IInv
<1> QED BY <1>1, ProcInvariant, PTL

===============================================================================
