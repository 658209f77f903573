------------------------------ MODULE NamesProofs ------------------------------
(***************************************************************************)
(* Theorems about Names, for every tree, every set of threads and every    *)
(* calls: an inode is never freed while somebody needs it, and references, *)
(* names and directories are right until the code makes one of the         *)
(* mistakes that Names lists.                                              *)
(***************************************************************************)
EXTENDS NamesInv, FiniteSetTheorems, WellFoundedInduction, NaturalsInduction, TLAPS

--------------------------------------------------------------------------------
(* The operations on inodes, field by field. *)
LEMMA RootIno == iroot \in Inums /\ Nil \notin Inums /\ NoThread \notin Threads /\ iroot # Nil
  BY NamesAssumption DEF Nil, iroot

LEMMA ilockFields ==
    ASSUME NEW s \in Nodes, NEW i \in Inums, NEW t \in Tids
    PROVE  /\ ilock(s, i, t) \in Nodes
           /\ SameNames(s, ilock(s, i, t)) /\ SameLinks(s, ilock(s, i, t))
           /\ SameGone(s, ilock(s, i, t)) /\ SameRef(s, ilock(s, i, t))
           /\ \A j \in Inums : ilock(s, i, t)[j].lock = IF j = i THEN t ELSE s[j].lock
  BY DEF Nodes, Node, ilock, SameNames, SameLinks, SameGone, SameRef

LEMMA iunlockFields ==
    ASSUME NEW s \in Nodes, NEW i \in Inums
    PROVE  /\ iunlock(s, i) \in Nodes
           /\ SameNames(s, iunlock(s, i)) /\ SameLinks(s, iunlock(s, i))
           /\ SameGone(s, iunlock(s, i)) /\ SameRef(s, iunlock(s, i))
           /\ \A j \in Inums : iunlock(s, i)[j].lock = IF j = i THEN NoThread ELSE s[j].lock
  BY DEF Nodes, Node, iunlock, SameNames, SameLinks, SameGone, SameRef, Tids

LEMMA RefupFields ==
    ASSUME NEW s \in Nodes, NEW i \in Inums
    PROVE  /\ Refup(s, i) \in Nodes
           /\ SameNames(s, Refup(s, i)) /\ SameLinks(s, Refup(s, i))
           /\ SameGone(s, Refup(s, i)) /\ SameLock(s, Refup(s, i))
           /\ \A j \in Inums : Refup(s, i)[j].ref = s[j].ref + B(j = i)
  BY DEF Nodes, Node, Refup, SameNames, SameLinks, SameGone, SameLock, B

LEMMA RefdownFields ==
    ASSUME NEW s \in Nodes, NEW i \in Inums
    PROVE  /\ Refdown(s, i) \in Nodes
           /\ SameNames(s, Refdown(s, i)) /\ SameLinks(s, Refdown(s, i)) /\ SameLock(s, Refdown(s, i))
           /\ \A j \in Inums : Refdown(s, i)[j].ref = s[j].ref - B(j = i)
           /\ \A j \in Inums : Refdown(s, i)[j].gone <=> s[j].gone \/ (j = i /\ LastRef(s, i))
  <1>1. PICK g \in BOOLEAN : g <=> s[i].gone \/ LastRef(s, i) OBVIOUS
  <1>2. PICK n \in Int : n = s[i].ref - 1 BY DEF Nodes, Node
  <1>3. PICK r : r = [s[i] EXCEPT !.ref = n, !.gone = g] OBVIOUS
  <1>4. s[i] \in Node BY DEF Nodes
  <1>6. /\ r \in Node /\ r.ref = n /\ r.gone = g
        /\ r.itype = s[i].itype /\ r.links = s[i].links /\ r.ents = s[i].ents
        /\ r.dotdot = s[i].dotdot /\ r.fresh = s[i].fresh /\ r.lock = s[i].lock BY <1>3, <1>4 DEF Node
  <1>7. /\ Refdown(s, i) \in Nodes
        /\ \A j \in Inums : Refdown(s, i)[j] = IF j = i THEN r ELSE s[j]
    BY <1>1, <1>2, <1>3, <1>4, <1>6 DEF Nodes, Refdown, Node
  <1>8. \A j \in Inums : s[j].ref \in Int BY DEF Nodes, Node
  <1>9. ASSUME NEW j \in Inums PROVE Refdown(s, i)[j].gone <=> s[j].gone \/ (j = i /\ LastRef(s, i))
    BY <1>1, <1>6, <1>7, Zenon
  <1> QED BY <1>2, <1>6, <1>7, <1>8, <1>9 DEF SameNames, SameLinks, SameLock, B

\* Sameness composes.
LEMMA SameTrans ==
    ASSUME NEW s, NEW x, NEW y
    PROVE  /\ SameNames(s, x) /\ SameNames(x, y) => SameNames(s, y)
           /\ SameLinks(s, x) /\ SameLinks(x, y) => SameLinks(s, y)
           /\ SameLock(s, x) /\ SameLock(x, y) => SameLock(s, y)
           /\ SameGone(s, x) /\ SameGone(x, y) => SameGone(s, y)
           /\ SameRef(s, x) /\ SameRef(x, y) => SameRef(s, y)
  <1>3. SameGone(s, x) /\ SameGone(x, y) => SameGone(s, y) BY Zenon DEF SameGone
  <1> QED BY <1>3 DEF SameNames, SameLinks, SameLock, SameRef

LEMMA iunlock_refdownFields ==
    ASSUME NEW s \in Nodes, NEW i \in Inums
    PROVE  LET x == iunlock_refdown(s, i)
           IN  /\ x \in Nodes /\ SameNames(s, x) /\ SameLinks(s, x)
               /\ \A j \in Inums : x[j].ref = s[j].ref - B(j = i)
               /\ \A j \in Inums : x[j].gone <=> s[j].gone \/ (j = i /\ LastRef(s, i))
               /\ \A j \in Inums : x[j].lock = IF j = i THEN NoThread ELSE s[j].lock
  <1> DEFINE d == Refdown(s, i)
             x == iunlock_refdown(s, i)
  <1>1. /\ d \in Nodes /\ SameNames(s, d) /\ SameLinks(s, d) /\ SameLock(s, d)
        /\ \A j \in Inums : d[j].ref = s[j].ref - B(j = i) BY RefdownFields
  <1>2. \A j \in Inums : d[j].gone <=> s[j].gone \/ (j = i /\ LastRef(s, i)) BY RefdownFields, Zenon
  <1>3. x = iunlock(d, i) BY DEF iunlock_refdown
  <1> HIDE DEF d, x
  <1>4. /\ x \in Nodes /\ SameNames(d, x) /\ SameLinks(d, x) /\ SameRef(d, x)
        /\ \A j \in Inums : x[j].lock = IF j = i THEN NoThread ELSE d[j].lock BY <1>1, <1>3, iunlockFields
  <1>5. SameGone(d, x) BY <1>1, <1>3, iunlockFields
  <1>7. \A j \in Inums : x[j].gone <=> s[j].gone \/ (j = i /\ LastRef(s, i)) BY <1>2, <1>5, Zenon DEF SameGone
  <1> QED BY <1>4, <1>1, SameTrans, <1>7 DEF x, SameRef, SameLock

LEMMA _linkupFields ==
    ASSUME NEW s \in Nodes, NEW i \in Inums
    PROVE  LET x == _linkup(s, i)
           IN  /\ x \in Nodes /\ SameNames(s, x) /\ SameRef(s, x) /\ SameLock(s, x) /\ SameGone(s, x)
               /\ \A j \in Inums : x[j].links = s[j].links + B(j = i)
  BY DEF Nodes, Node, _linkup, SameNames, SameRef, SameGone, SameLock, B

LEMMA _linkdownFields ==
    ASSUME NEW s \in Nodes, NEW i \in Inums
    PROVE  LET x == _linkdown(s, i)
           IN  /\ x \in Nodes /\ SameNames(s, x) /\ SameRef(s, x) /\ SameLock(s, x) /\ SameGone(s, x)
               /\ \A j \in Inums : x[j].links = s[j].links - B(j = i)
  <1>1. PICK g \in BOOLEAN : g <=> s[i].orphan \/ s[i].links <= 1 OBVIOUS
  <1>0. PICK n \in Int : n = s[i].links - 1 BY DEF Nodes, Node
  <1>2. PICK r : r = [s[i] EXCEPT !.links = n, !.orphan = g] OBVIOUS
  <1>4. _linkdown(s, i) = [s EXCEPT ![i] = r] BY <1>0, <1>1, <1>2 DEF _linkdown, Nodes, Node
  <1>5. /\ r \in Node /\ r.links = n
        /\ r.itype = s[i].itype /\ r.ref = s[i].ref /\ r.ents = s[i].ents /\ r.gone = s[i].gone
        /\ r.dotdot = s[i].dotdot /\ r.fresh = s[i].fresh /\ r.lock = s[i].lock BY <1>2 DEF Node, Nodes
  <1> QED BY <1>0, <1>5, <1>4 DEF SameNames, SameRef, SameGone, SameLock, B, Nodes, Node

LEMMA do_insertFields ==
    ASSUME NEW s \in Nodes, NEW i \in Inums, NEW n \in Fns, NEW c \in Inums
    PROVE  LET x == do_insert(s, i, n, c)
           IN  /\ x \in Nodes /\ SetEntry(s, x, i, n, c)
               /\ SameLinks(s, x) /\ SameRef(s, x) /\ SameLock(s, x) /\ SameGone(s, x)
  <1>1. PICK r : r = [s[i] EXCEPT !.ents = [@ EXCEPT ![n] = c], !.fresh = @ \cup {n}] OBVIOUS
  <1>4. /\ r \in Node /\ r.ents = [s[i].ents EXCEPT ![n] = c] /\ r.fresh = s[i].fresh \cup {n}
        /\ r.itype = s[i].itype /\ r.ref = s[i].ref /\ r.links = s[i].links /\ r.gone = s[i].gone
        /\ r.dotdot = s[i].dotdot /\ r.lock = s[i].lock BY <1>1 DEF Node, Inos, Nodes
  <1> QED BY <1>4, <1>1, RootIno DEF SetEntry, SameLinks, SameRef, SameGone, SameLock, Node, Nodes, do_insert

LEMMA do_unlinkFields ==
    ASSUME NEW s \in Nodes, NEW i \in Inums, NEW n \in Fns
    PROVE  LET x == do_unlink(s, i, n)
           IN  /\ x \in Nodes /\ SetEntry(s, x, i, n, Nil)
               /\ SameLinks(s, x) /\ SameRef(s, x) /\ SameLock(s, x) /\ SameGone(s, x)
  <1>1. PICK r : r = [s[i] EXCEPT !.ents = [@ EXCEPT ![n] = Nil], !.fresh = @ \ {n}] OBVIOUS
  <1>4. /\ r \in Node /\ r.ents = [s[i].ents EXCEPT ![n] = Nil] /\ r.fresh = s[i].fresh \ {n}
        /\ r.itype = s[i].itype /\ r.ref = s[i].ref /\ r.links = s[i].links /\ r.gone = s[i].gone
        /\ r.dotdot = s[i].dotdot /\ r.lock = s[i].lock BY <1>1 DEF Node, Inos, Nodes
  <1> QED BY <1>4, <1>1 DEF SetEntry, SameLinks, SameRef, SameGone, SameLock, Node, Nodes, do_unlink

LEMMA KnowsFields ==
    ASSUME NEW s \in Nodes, NEW i \in Inums, NEW n
    PROVE  LET x == Knows(s, i, n)
           IN  /\ x \in Nodes /\ SameNames(s, x) /\ SameLinks(s, x)
               /\ SameRef(s, x) /\ SameLock(s, x) /\ SameGone(s, x)
  BY DEF Nodes, Node, Knows, SameNames, SameLinks, SameRef, SameGone, SameLock

LEMMA ilookupFields ==
    ASSUME NEW s \in Nodes, NEW i \in Inums, NEW n \in Fns, s[i].ents[n] # Nil
    PROVE  LET x == ilookup(s, i, n)
           IN  /\ x \in Nodes /\ SameNames(s, x) /\ SameLinks(s, x) /\ SameLock(s, x) /\ SameGone(s, x)
               /\ \A j \in Inums : x[j].ref = s[j].ref + B(j = s[i].ents[n])
  <1> DEFINE u == Refup(s, s[i].ents[n])
             x == ilookup(s, i, n)
  <1>2. /\ u \in Nodes /\ SameNames(s, u) /\ SameLinks(s, u) /\ SameLock(s, u)
        /\ \A j \in Inums : u[j].ref = s[j].ref + B(j = s[i].ents[n]) BY RefupFields DEF Nodes, Node, Inos
  <1>3. SameGone(s, u) BY RefupFields DEF Nodes, Node, Inos
  <1>4. x = Knows(u, i, n) BY DEF ilookup, Knows
  <1> HIDE DEF u, x
  <1> QED BY <1>2, <1>4, KnowsFields, SameTrans, <1>3 DEF x, SameRef

\* A validation may take a reference.
LEMMA ilookup_validateFields ==
    ASSUME NEW s \in Nodes, NEW i \in Inums, NEW n \in Fns, n \in s[i].fresh => s[i].ents[n] # Nil
    PROVE  LET x == ilookup_validate(s, i, n)
           IN  /\ x \in Nodes /\ SameNames(s, x) /\ SameLinks(s, x) /\ SameLock(s, x) /\ SameGone(s, x)
               /\ n \in s[i].fresh => \A j \in Inums : x[j].ref = s[j].ref + B(j = s[i].ents[n])
               /\ n \notin s[i].fresh => x = s
  <1>1. CASE n \in s[i].fresh BY <1>1, ilookupFields DEF ilookup_validate
  <1>2. CASE n \notin s[i].fresh BY <1>2 DEF ilookup_validate, SameNames, SameLinks, SameLock, SameGone
  <1> QED BY <1>1, <1>2

LEMMA NoEntriesType == NoEntries \in [Fns -> Inos] /\ \A n \in Fns : NoEntries[n] = Nil
  BY DEF NoEntries, Inos

LEMMA ifreeFields ==
    ASSUME NEW s \in Nodes, NEW dead \in SUBSET Inums
    PROVE  ifree(s, dead) \in Nodes /\ Freed(s, ifree(s, dead), dead)
  <1> DEFINE f(j) == [s[j] EXCEPT !.itype = "dead", !.orphan = FALSE, !.ents = NoEntries, !.fresh = {}]
  <1>2. ASSUME NEW j \in Inums
        PROVE  /\ f(j) \in Node /\ f(j).links = s[j].links /\ f(j).ref = s[j].ref
               /\ f(j).lock = s[j].lock /\ f(j).gone = s[j].gone /\ f(j).dotdot = s[j].dotdot
               /\ f(j).itype = "dead" /\ f(j).ents = NoEntries /\ f(j).fresh = {}
    <2>1. PICK e : e = NoEntries OBVIOUS
    <2>2. PICK r : r = [s[j] EXCEPT !.itype = "dead", !.orphan = FALSE, !.ents = e, !.fresh = {}] OBVIOUS
    <2> QED BY <2>1, <2>2, NoEntriesType DEF Node, Nodes
  <1>3. ifree(s, dead) = [j \in Inums |-> IF j \in dead THEN f(j) ELSE s[j]] BY DEF ifree, Nodes
  <1> HIDE DEF f
  <1>4. \A j \in Inums : ifree(s, dead)[j] = IF j \in dead THEN f(j) ELSE s[j] BY <1>3
  <1>6. Freed(s, ifree(s, dead), dead) BY <1>2, <1>4 DEF Freed
  <1> QED BY <1>2, <1>3, <1>6 DEF Nodes

\* A set of natural numbers has a least element.
LEMMA LeastNumber ==
    ASSUME NEW S \in SUBSET Nat, S # {}
    PROVE  \E x \in S : \A y \in S : x <= y
  <1>1. PICK x \in S : \A y \in S : ~(<<y, x>> \in OpToRel(<, Nat)) BY NatLessThanWellFounded, WFMin
  <1>2. ASSUME NEW y \in S PROVE x <= y
    <2>1. SUFFICES ASSUME y < x PROVE FALSE OBVIOUS
    <2> QED BY <1>1, <2>1 DEF OpToRel
  <1> QED BY <1>2

LEMMA MinOf ==
    ASSUME NEW S \in SUBSET Inums, S # {}
    PROVE  Min(S) \in S
  BY NamesAssumption, LeastNumber DEF Min

LEMMA IallocNone ==
    ASSUME NEW s, \E i \in Inums : s[i].itype = "none"
    PROVE  Ialloc(s) \in Inums /\ s[Ialloc(s)].itype = "none"
  <1> DEFINE S == {i \in Inums : s[i].itype = "none"}
  <1>2. PICK x \in S : \A y \in S : x <= y BY NamesAssumption, LeastNumber
  <1> QED BY <1>2 DEF Ialloc

LEMMA icreateFields ==
    ASSUME NEW s \in Nodes, NEW p \in Inums, NEW n \in Fns, NEW itype \in {"file", "dir"},
           \E i \in Inums : s[i].itype = "none", s[p].itype # "none"
    PROVE  /\ icreate(s, p, n, itype) \in Nodes
           /\ Created(s, icreate(s, p, n, itype), p, n, Ialloc(s), itype)
           /\ Ialloc(s) \in Inums /\ Ialloc(s) # p /\ s[Ialloc(s)].itype = "none"
  <1>1. PICK c \in Inums : c = Ialloc(s) /\ s[c].itype = "none" BY IallocNone
  <1>2. PICK e \in [Fns -> Inos] : e = NoEntries BY NoEntriesType
  <1>q. PICK q : q = Inode(itype, e, Nil) OBVIOUS
  <1>0. /\ q \in Node /\ q.itype = itype /\ q.links = 1 /\ q.lock = NoThread
        /\ q.gone = FALSE /\ q.ents = e /\ q.fresh = {} /\ q.dotdot = Nil BY <1>q DEF Node, Inode, Tids, Inos
  <1>3. PICK r : r = [q EXCEPT !.ref = 1] OBVIOUS
  <1> DEFINE y == [s EXCEPT ![c] = r]
             x == do_insert(y, p, n, c)
  <1>5. y \in Nodes /\ \A j \in Inums : y[j] = IF j = c THEN r ELSE s[j] BY <1>0, <1>3 DEF Nodes, Node
  <1>6. icreate(s, p, n, itype) = x BY <1>q, <1>1, <1>2, <1>3 DEF icreate
  <1> HIDE DEF y, x
  <1>7. /\ x \in Nodes /\ SetEntry(y, x, p, n, c)
        /\ SameLinks(y, x) /\ SameRef(y, x) /\ SameLock(y, x) BY <1>5, do_insertFields DEF x
  <1>8. SameGone(y, x) BY <1>5, do_insertFields DEF x
  <1>9. c # p /\ c # Nil BY <1>1, RootIno
  <1>11. Created(s, x, p, n, c, itype)
    <2>2. \A j \in Inums \ {c} : x[j].gone = s[j].gone BY <1>5, <1>8, Zenon DEF SameGone
    <2>3. \A j \in Inums \ {c, p} : x[j].ents = s[j].ents /\ x[j].fresh = s[j].fresh
      BY <1>1, <1>5, <1>6, <1>9 DEF x, do_insert, Nodes
    <2> QED
      BY <1>5, <1>7, <2>2, <2>3, <1>9, <1>2, <1>0, <1>3, <1>8 DEF Created, SetEntry, SameLinks, SameRef,
         SameLock, SameGone, Node
  <1> QED BY <1>1, <1>6, <1>7, <1>9, <1>11

--------------------------------------------------------------------------------
(* How often an inode is in a sequence. *)
LEMMA ShiftCard ==
    ASSUME NEW A \in SUBSET Int, IsFiniteSet(A), NEW C \in SUBSET Int, NEW d \in Int, Shifted(A, C, d)
    PROVE  IsFiniteSet(C) /\ Cardinality(C) = Cardinality(A)
  <1> DEFINE f == [k \in A |-> k + d]
  <1>1. f \in [A -> C] /\ \A k \in A : f[k] = k + d BY DEF Shifted
  <1>3. ASSUME NEW y \in C PROVE \E k \in A : f[k] = y BY <1>1 DEF Shifted
  <1> HIDE DEF f
  <1>4. f \in Bijection(A, C) BY <1>1, <1>3 DEF Bijection, Injection, Surjection, IsInjective
  <1> QED BY <1>4, FS_Bijection DEF ExistsBijection

LEMMA CntNat ==
    ASSUME NEW X, NEW q \in Seq(X), NEW i
    PROVE  /\ IsFiniteSet(Spots(q, i)) /\ Cnt(q, i) \in Nat
           /\ Cnt(q, i) = 0 <=> \A k \in DOMAIN q : q[k] # i
  <1>3. IsFiniteSet(Spots(q, i)) BY FS_Interval, FS_Subset DEF Spots
  <1> QED BY <1>3, FS_EmptySet, FS_CardinalityType DEF Spots, Cnt

LEMMA CntTail ==
    ASSUME NEW X, NEW q \in Seq(X), q # <<>>, NEW i
    PROVE  Cnt(q, i) = B(Head(q) = i) + Cnt(Tail(q), i)
  <1> DEFINE D == Spots(Tail(q), i)
             C == {k \in 2 .. Len(q) : q[k] = i}
             A == Spots(q, i)
  <1>1. /\ Len(q) \in Nat \ {0} /\ DOMAIN q = 1 .. Len(q) /\ Head(q) = q[1]
        /\ Tail(q) \in Seq(X) /\ DOMAIN Tail(q) = 1 .. (Len(q) - 1)
        /\ \A k \in 1 .. (Len(q) - 1) : Tail(q)[k] = q[k + 1] OBVIOUS
  <1>0. Cnt(q, i) = Cardinality(A) /\ Cnt(Tail(q), i) = Cardinality(D) BY DEF Cnt
  <1>2. IsFiniteSet(D) BY <1>1, CntNat
  <1>4. \A k \in C : k - 1 \in D
    <2> SUFFICES ASSUME NEW k \in C PROVE k - 1 \in D OBVIOUS
    <2> QED BY <1>1 DEF Spots
  <1>5. D \in SUBSET Int /\ C \in SUBSET Int /\ Shifted(D, C, 1) BY <1>1, <1>4 DEF Spots, Shifted
  <1>6. IsFiniteSet(C) /\ Cardinality(C) = Cardinality(D)
    <2> HIDE DEF C, D
    <2> QED BY <1>2, <1>5, ShiftCard
  <1>7. CASE Head(q) = i
    <2>1. A = C \cup {1} /\ 1 \notin C BY <1>1, <1>7 DEF Spots
    <2>2. Cardinality(A) = Cardinality(C) + 1 BY <1>6, <2>1, FS_AddElement
    <2> HIDE DEF A, C, D
    <2> QED BY <1>0, <1>6, <1>7, <2>2, FS_CardinalityType DEF B
  <1>8. CASE Head(q) # i
    <2>1. A = C BY <1>1, <1>8 DEF Spots
    <2> HIDE DEF A, C, D
    <2> QED BY <1>0, <1>6, <1>8, <2>1, FS_CardinalityType DEF B
  <1> QED BY <1>7, <1>8

LEMMA CntCat ==
    ASSUME NEW X, NEW p \in Seq(X), NEW q \in Seq(X), NEW i
    PROVE  Cnt(p \o q, i) = Cnt(p, i) + Cnt(q, i)
  <1> DEFINE D == Spots(q, i)
             C == {k \in (Len(p) + 1) .. (Len(p) + Len(q)) : (p \o q)[k] = i}
             P == Spots(p, i)
             A == Spots(p \o q, i)
  <1>1. /\ Len(p) \in Nat /\ Len(q) \in Nat /\ DOMAIN p = 1 .. Len(p) /\ DOMAIN q = 1 .. Len(q)
        /\ DOMAIN (p \o q) = 1 .. (Len(p) + Len(q))
        /\ \A k \in 1 .. Len(p) : (p \o q)[k] = p[k] OBVIOUS
  <1>0. Cnt(p \o q, i) = Cardinality(A) /\ Cnt(q, i) = Cardinality(D) /\ Cnt(p, i) = Cardinality(P) BY DEF Cnt
  <1>3. IsFiniteSet(D) /\ IsFiniteSet(P) BY CntNat
  <1>5. \A k \in C : k - Len(p) \in D
    <2> SUFFICES ASSUME NEW k \in C PROVE k - Len(p) \in D OBVIOUS
    <2> QED BY <1>1 DEF Spots
  <1>6. IsFiniteSet(C) /\ Cardinality(C) = Cardinality(D)
    <2>1. D \in SUBSET Int /\ C \in SUBSET Int /\ Shifted(D, C, Len(p)) BY <1>1, <1>5 DEF Spots, Shifted
    <2> HIDE DEF C, D
    <2> QED BY <1>1, <1>3, <2>1, ShiftCard
  <1>7. A = P \cup C /\ P \cap C = {} BY <1>1 DEF Spots
  <1>8. Cardinality(A) = Cardinality(P) + Cardinality(C) - Cardinality({})
    <2> HIDE DEF A, P, C
    <2> QED BY <1>3, <1>6, <1>7, FS_Union
  <1> HIDE DEF A, P, C, D
  <1> QED BY <1>0, <1>6, <1>8, <1>3, FS_CardinalityType, FS_EmptySet

LEMMA CntFew ==
    ASSUME NEW i
    PROVE  /\ Cnt(<<>>, i) = 0
           /\ \A a : Cnt(<<a>>, i) = B(a = i)
           /\ \A a, b : Cnt(<<a, b>>, i) = B(a = i) + B(b = i)
           /\ \A a, b, c : Cnt(<<a, b, c>>, i) = B(a = i) + B(b = i) + B(c = i)
  <1>1. Cnt(<<>>, i) = 0 BY FS_EmptySet DEF Cnt, Spots
  <1>2. ASSUME NEW a PROVE Cnt(<<a>>, i) = B(a = i)
    <2>1. <<a>> \in Seq({a}) /\ <<a>> # <<>> /\ Head(<<a>>) = a /\ Tail(<<a>>) = <<>> OBVIOUS
    <2>2. Cnt(<<a>>, i) = B(a = i) + 0 BY <1>1, <2>1, CntTail DEF B
    <2> QED BY <2>2 DEF B
  <1>3. ASSUME NEW a, NEW b PROVE Cnt(<<a, b>>, i) = B(a = i) + B(b = i)
    <2>1. <<a, b>> \in Seq({a, b}) /\ <<a, b>> # <<>> /\ Head(<<a, b>>) = a /\ Tail(<<a, b>>) = <<b>> OBVIOUS
    <2> QED BY <1>2, <2>1, CntTail DEF B
  <1>4. ASSUME NEW a, NEW b, NEW c PROVE Cnt(<<a, b, c>>, i) = B(a = i) + B(b = i) + B(c = i)
    <2>1. /\ <<a, b, c>> \in Seq({a, b, c}) /\ <<a, b, c>> # <<>>
          /\ Head(<<a, b, c>>) = a /\ Tail(<<a, b, c>>) = <<b, c>> OBVIOUS
    <2>2. Cnt(<<a, b, c>>, i) = B(Head(<<a, b, c>>) = i) + Cnt(Tail(<<a, b, c>>), i) BY <2>1, CntTail
    <2> QED BY <1>3, <2>1, <2>2 DEF B
  <1> QED BY <1>1, <1>2, <1>3, <1>4

LEMMA CntTwo ==
    ASSUME NEW i, NEW a, NEW b
    PROVE  Cnt(<<a, b>>, i) = B(a = i) + B(b = i)
  <1>1. \A c, d : Cnt(<<c, d>>, i) = B(c = i) + B(d = i) BY CntFew
  <1> QED BY <1>1

--------------------------------------------------------------------------------
(* What a call has in its hands, by its place in the code. *)
LEMMA HeldIs ==
    ASSUME NEW t
    PROVE  Held(t) = HeldOf(th[t], Op(t).op)
  BY DEF Held, HeldOf, Body, Again, SecondOf, Second, Triple

LEMMA BNat == \A p : B(p) \in Nat
  BY DEF B

LEMMA BodyCount ==
    ASSUME NEW r \in Frame, NEW cs, LocalOK(r, cs), NEW op, op = OpOf(cs), NEW i \in Inums
    PROVE  /\ HeldOf(r, op) \in Seq(Inos)
           /\ r.pc = "idle" => N(r, op, i) = B(r.file = i)
           /\ r.pc # "idle" => N(r, op, i) = Cnt(Body(r, op), i)
  <1>2. r.refs \in Seq(Inos) BY DEF Inos, Frame
  <1>3. iroot \in Inos /\ i # Nil BY RootIno DEF Inos
  <1>6. Body(r, op) \in Seq(Inos) BY <1>2, <1>3 DEF Body, SecondOf, Again, LocalOK, Frame
  <1>b. PICK b \in Seq(Inos) : b = Body(r, op) BY <1>6
  <1> DEFINE f == IF r.file = Nil THEN <<>> ELSE <<r.file>>
  <1>7. f \in Seq(Inos) BY DEF Frame
  <1>8. Cnt(f, i) = B(r.file = i) BY <1>3, CntFew DEF B
  <1>9. HeldOf(r, op) = f \o b BY <1>b DEF HeldOf
  <1> HIDE DEF f
  <1>10. N(r, op, i) = Cnt(f, i) + Cnt(Body(r, op), i) BY <1>b, <1>7, <1>9, CntCat DEF N
  <1>14. HeldOf(r, op) \in Seq(Inos) BY <1>7, <1>9
  <1>12. CASE r.pc = "idle" BY <1>12, <1>14, <1>8, <1>10, CntFew DEF B, Body
  <1>13. CASE r.pc # "idle" BY <1>8, <1>10, <1>6, CntNat, <1>13, <1>14, <1>3 DEF B, LocalOK
  <1> QED BY <1>12, <1>13

LEMMA HeldWalking ==
    ASSUME NEW r \in Frame, NEW cs, LocalOK(r, cs), NEW op, op = OpOf(cs), NEW i \in Inums
    PROVE  /\ r.pc \in {"namei", "verify"} =>
                N(r, op, i) = B(iroot = i) + B(r.opar = i) + B(r.ochild = i)
           /\ r.pc \in {"slow", "got"} =>
                N(r, op, i) = B(r.cur = i) + B(r.opar = i) + B(r.ochild = i)
  <1>1. r.opar \in Inos /\ r.ochild \in Inos /\ r.cur \in Inos /\ iroot \in Inos /\ r.stg \in {1, 2}
    BY RootIno DEF Frame, Inos
  <1>2. i # Nil /\ SecondOf(r, op) \in Seq(Inos) BY <1>1, RootIno DEF SecondOf
  <1> SUFFICES ASSUME r.pc \in Walking
               PROVE  /\ r.pc \in {"namei", "verify"} =>
                           N(r, op, i) = B(iroot = i) + B(r.opar = i) + B(r.ochild = i)
                      /\ r.pc \in {"slow", "got"} =>
                           N(r, op, i) = B(r.cur = i) + B(r.opar = i) + B(r.ochild = i) BY DEF Walking
  <1>3. Cnt(SecondOf(r, op), i) = B(r.opar = i) + B(r.ochild = i)
    <2>1. CASE r.stg = 1 BY <1>2, <2>1, CntFew DEF SecondOf, B, LocalOK
    <2>2. CASE r.stg = 2 /\ op = "link"
      <3>1. r.opar = Nil BY <2>2 DEF LocalOK
      <3> QED BY <1>2, <2>2, <3>1, CntFew DEF SecondOf, B
    <2>3. CASE r.stg = 2 /\ op # "link" BY <2>3, CntFew DEF SecondOf
    <2> QED BY <1>1, <2>1, <2>2, <2>3
  <1>4. \A a \in Inos : Cnt(<<a>> \o SecondOf(r, op), i) = B(a = i) + B(r.opar = i) + B(r.ochild = i)
    <2> TAKE a \in Inos
    <2>0. <<a>> \in Seq(Inos) OBVIOUS
    <2>1. Cnt(<<a>> \o SecondOf(r, op), i) = Cnt(<<a>>, i) + Cnt(SecondOf(r, op), i) BY <1>2, <2>0, CntCat, Zenon
    <2>2. Cnt(<<a>>, i) = B(a = i) BY CntFew
    <2> QED BY <1>3, <2>1, <2>2 DEF B
  <1>5. N(r, op, i) = Cnt(Body(r, op), i) BY BodyCount DEF Walking
  <1>6. CASE r.pc \in {"namei", "verify"} BY <1>1, <1>4, <1>5, <1>6 DEF Body
  <1>7. CASE r.pc \in {"slow", "got"} BY <1>1, <1>4, <1>5, <1>7 DEF Body
  <1> QED BY <1>6, <1>7 DEF Walking

LEMMA HeldChild ==
    ASSUME NEW r \in Frame, NEW cs, LocalOK(r, cs), NEW op, op = OpOf(cs), NEW i \in Inums
    PROVE  /\ r.pc = "child" /\ op = "create" => N(r, op, i) = B(r.ochild = i)
           /\ r.pc = "child" /\ op = "mkdir" => N(r, op, i) = B(r.ochild = i) + B(r.cur = i)
           /\ r.pc = "undo" => N(r, op, i) = B(r.ochild = i)
           /\ r.pc \in {"lockall", "locked"} /\ op = "unlink" => N(r, op, i) = B(r.opar = i) + B(r.ochild = i)
           /\ r.pc = "look" => N(r, op, i) = T3(r, i)
  <1>1. r.ochild \in Inos /\ r.cur \in Inos BY DEF Frame
  <1>0. r.pc # "idle" => N(r, op, i) = Cnt(Body(r, op), i) BY BodyCount
  <1>2. CASE r.pc = "child" /\ op = "create" BY <1>2, <1>0, <1>1, CntFew DEF Body
  <1>3. CASE r.pc = "child" /\ op = "mkdir"
    <2> DEFINE p == <<r.ochild>>
               q == <<r.cur>>
    <2>1. Body(r, op) = p \o q BY <1>3 DEF Body
    <2>2. p \in Seq(Inos) /\ q \in Seq(Inos) BY <1>1
    <2>3. Cnt(p, i) = B(r.ochild = i) /\ Cnt(q, i) = B(r.cur = i) BY CntFew
    <2> HIDE DEF p, q
    <2>5. N(r, op, i) = Cnt(p \o q, i) BY <1>0, <1>3, <2>1
    <2> QED BY <1>3, <2>3, <2>2, CntCat, <2>5
  <1>4. CASE r.pc = "undo" BY <1>0, <1>4, CntFew DEF Body
  <1>5. CASE r.pc \in {"lockall", "locked"} /\ op = "unlink"
    <2>1. Body(r, op) = <<r.opar, r.ochild>> BY <1>5 DEF Body
    <2> QED BY <1>0, <1>5, <2>1, CntFew
  <1>6. CASE r.pc = "look"
    <2>1. Body(r, op) = <<r.opar, r.ochild, r.npar>> BY <1>6 DEF Body
    <2> QED BY <1>0, <1>6, <2>1, CntFew DEF T3
  <1> QED BY <1>2, <1>3, <1>4, <1>5, <1>6

LEMMA FoundCount ==
    ASSUME NEW r \in Frame, NEW i \in Inums
    PROVE  Cnt(Found(r), i) = T3(r, i) + B(r.nchild = i)
  <1> DEFINE p == <<r.opar, r.ochild, r.npar>>
             q == IF r.nchild = Nil THEN <<>> ELSE <<r.nchild>>
  <1>2. p \in Seq(Inos) /\ q \in Seq(Inos) BY RootIno DEF Frame
  <1>3. Cnt(p, i) = T3(r, i) BY CntFew DEF T3
  <1>4. Cnt(q, i) = B(r.nchild = i) BY RootIno, CntFew DEF B, Frame
  <1>5. Found(r) = p \o q BY DEF Found
  <1> HIDE DEF p, q
  <1> QED BY <1>2, <1>3, <1>4, <1>5, CntCat

LEMMA HeldLocked ==
    ASSUME NEW r \in Frame, NEW cs, LocalOK(r, cs), r.pc \in {"lockall", "locked"}, OpOf(cs) = "rename",
           NEW i \in Inums
    PROVE  N(r, OpOf(cs), i) = T3(r, i) + B(r.nchild = i)
  <1>3. N(r, OpOf(cs), i) = Cnt(Body(r, OpOf(cs)), i) BY BodyCount
  <1> QED BY <1>3, FoundCount DEF LocalOK, Body

LEMMA HeldRename ==
    ASSUME NEW r \in Frame, NEW cs, LocalOK(r, cs), NEW op, op = OpOf(cs), NEW i \in Inums
    PROVE  /\ r.pc = "up" => N(r, op, i) = B(r.cur = i) + T3(r, i)
           /\ r.pc = "unlock" => N(r, op, i) = Cnt(r.refs, i)
           /\ r.pc = "refdown" => N(r, op, i) = Cnt(r.refs, i) + A3(r, i)
           /\ r.pc = "reflinks" => N(r, op, i) = Cnt(Tail(r.refs), i) + A3(r, i)
  <1>1. r.opar \in Inos /\ r.ochild \in Inos /\ r.npar \in Inos /\ r.cur \in Inos /\ r.refs \in Seq(Inos)
    BY DEF Frame, Inos
  <1>3. Cnt(Again(r), i) = A3(r, i) BY CntFew DEF Again, A3, T3
  <1>0. r.pc # "idle" => N(r, op, i) = Cnt(Body(r, op), i) BY BodyCount
  <1>5. CASE r.pc = "up"
    <2> DEFINE p == <<r.cur>>
               q == <<r.opar, r.ochild, r.npar>>
    <2>1. Body(r, op) = p \o q BY <1>5 DEF Body
    <2>2. p \in Seq(Inos) /\ q \in Seq(Inos) BY <1>1
    <2>3. Cnt(p, i) = B(r.cur = i) /\ Cnt(q, i) = T3(r, i) BY CntFew DEF T3
    <2> HIDE DEF p, q
    <2> QED BY <1>5, <2>3, <2>2, CntCat, <1>0, <2>1
  <1>6. CASE r.pc = "unlock" BY <1>0, <1>6 DEF Body
  <1>7. CASE r.pc = "refdown"
    <2> DEFINE p == r.refs
               q == Again(r)
    <2>1. Body(r, op) = p \o q BY <1>7 DEF Body
    <2>2. p \in Seq(Inos) /\ q \in Seq(Inos) BY <1>1 DEF Again
    <2>3. Cnt(p, i) = Cnt(r.refs, i) /\ Cnt(q, i) = Cnt(Again(r), i) OBVIOUS
    <2> HIDE DEF p, q
    <2> QED BY <1>3, <1>7, <2>3, <2>2, CntCat, <1>0, <2>1
  <1>8. CASE r.pc = "reflinks"
    <2> DEFINE p == Tail(r.refs)
               q == Again(r)
    <2>1. Body(r, op) = p \o q BY <1>8 DEF Body
    <2>2. p \in Seq(Inos) /\ q \in Seq(Inos) BY <1>1, <1>8 DEF LocalOK, Again
    <2>3. Cnt(p, i) = Cnt(Tail(r.refs), i) /\ Cnt(q, i) = Cnt(Again(r), i) OBVIOUS
    <2> HIDE DEF p, q
    <2> QED BY <1>3, <1>8, <2>3, <2>2, CntCat, <1>0, <2>1
  <1> QED BY <1>5, <1>6, <1>7, <1>8

--------------------------------------------------------------------------------
(* The references of all threads. *)
LEMMA TagCard ==
    ASSUME NEW t, NEW A, IsFiniteSet(A)
    PROVE  IsFiniteSet({t} \X A) /\ Cardinality({t} \X A) = Cardinality(A)
  <1> DEFINE f == [a \in A |-> <<t, a>>]
             C == {t} \X A
  <1>1. f \in [A -> C] /\ \A a \in A : f[a] = <<t, a>> OBVIOUS
  <1> HIDE DEF f, C
  <1> QED BY <1>1, FS_Bijection DEF C, ExistsBijection, Bijection, Injection, Surjection, IsInjective

LEMMA PairsFinite ==
    ASSUME NEW H, FiniteAll(H), NEW U \in SUBSET Threads
    PROVE  IsFiniteSet(UNION {{u} \X H[u] : u \in U})
  <1> DEFINE F == {{u} \X H[u] : u \in U}
             f == [u \in U |-> {u} \X H[u]]
  <1>2. f \in [U -> F] /\ \A y \in F : \E u \in U : f[u] = y OBVIOUS
  <1>3. f \in Surjection(U, F)
    <2> HIDE DEF f, F
    <2> QED BY <1>2 DEF Surjection
  <1>5. \A A \in F : IsFiniteSet(A)
    <2> SUFFICES ASSUME NEW u \in U PROVE IsFiniteSet({u} \X H[u]) OBVIOUS
    <2> QED BY TagCard DEF FiniteAll
  <1> HIDE DEF F
  <1> QED BY NamesAssumption, FS_Subset, <1>3, FS_Surjection, <1>5, FS_UNION DEF F

LEMMA PairsSplit ==
    ASSUME NEW H, FiniteAll(H), NEW t \in Threads
    PROVE  LET R == UNION {{u} \X H[u] : u \in Threads \ {t}}
           IN  /\ IsFiniteSet(R) /\ IsFiniteSet(Pairs(H))
               /\ Cardinality(Pairs(H)) = Cardinality(R) + Cardinality(H[t])
               /\ Cardinality(R) \in Nat /\ Cardinality(H[t]) \in Nat
  <1> DEFINE R == UNION {{u} \X H[u] : u \in Threads \ {t}}
             C == {t} \X H[t]
  <1>1. IsFiniteSet(R) /\ IsFiniteSet(Pairs(H)) /\ IsFiniteSet(H[t]) BY PairsFinite DEF FiniteAll, Pairs
  <1>2. IsFiniteSet(C) /\ Cardinality(C) = Cardinality(H[t]) BY <1>1, TagCard
  <1>3. Pairs(H) = R \cup C BY DEF Pairs
  <1>4. R \cap C = {} OBVIOUS
  <1> HIDE DEF R, C
  <1>5. Cardinality(Pairs(H)) = Cardinality(R) + Cardinality(C) - Cardinality({}) BY <1>1, <1>2, <1>3, <1>4, FS_Union
  <1> QED BY <1>1, <1>2, <1>5, FS_CardinalityType, FS_EmptySet DEF R

LEMMA PairsChange ==
    ASSUME NEW H, NEW G, FiniteAll(H), FiniteAll(G), NEW t \in Threads,
           \A u \in Threads \ {t} : G[u] = H[u]
    PROVE  Cardinality(Pairs(G)) = Cardinality(Pairs(H)) - Cardinality(H[t]) + Cardinality(G[t])
  <1> DEFINE R == UNION {{u} \X H[u] : u \in Threads \ {t}}
             Q == UNION {{u} \X G[u] : u \in Threads \ {t}}
  <1>2. R = Q OBVIOUS
  <1>3. /\ Cardinality(Pairs(H)) = Cardinality(R) + Cardinality(H[t])
        /\ Cardinality(R) \in Nat /\ Cardinality(H[t]) \in Nat BY PairsSplit
  <1>4. /\ Cardinality(Pairs(G)) = Cardinality(Q) + Cardinality(G[t]) /\ Cardinality(G[t]) \in Nat BY PairsSplit
  <1> HIDE DEF R, Q
  <1> QED BY <1>2, <1>3, <1>4

--------------------------------------------------------------------------------
(* What a step of t has to do to keep it. *)
LEMMA OpIs == \A t : Op(t).op = OpOf(calls[t])
  BY DEF Op, OpOf

LEMMA CoreParts ==
    ASSUME CoreInv, NEW t \in Threads
    PROVE  /\ ino \in Nodes /\ th \in [Threads -> Frame] /\ th[t] \in Frame /\ calls[t] \in Seq(Call)
           /\ LocalOK(th[t], calls[t]) /\ KindOK(ino, th[t], OpOf(calls[t]))
           /\ KeptOK(ino, th[t], OpOf(calls[t])) /\ DeadOK(ino, th[t])
           /\ Shape(ino) /\ Marks(ino) /\ RootOK(ino)
  BY DEF CoreInv, TypeInv, FramesInv, FrameOK

LEMMA NTypes ==
    ASSUME NEW r \in Frame, NEW cs, LocalOK(r, cs), NEW i \in Inums
    PROVE  N(r, OpOf(cs), i) \in Nat /\ IsFiniteSet(Spots(HeldOf(r, OpOf(cs)), i))
  BY BodyCount, CntNat DEF N

LEMMA RefsToIs == RefsAre
  <1> SUFFICES ASSUME NEW i PROVE RefsTo(i) = Pairs(SpotsOf(th, calls, i)) BY DEF RefsAre
  <1> QED BY HeldIs, OpIs DEF RefsTo, Pairs, SpotsOf, HeldOn, Spots

LEMMA SpotsFinite ==
    ASSUME NEW f \in [Threads -> Frame], NEW g, \A t \in Threads : LocalOK(f[t], g[t]), NEW i \in Inums
    PROVE  /\ FiniteAll(SpotsOf(f, g, i))
           /\ \A t \in Threads : Cardinality(SpotsOf(f, g, i)[t]) = N(f[t], OpOf(g[t]), i)
  BY NTypes DEF FiniteAll, N, Cnt, SpotsOf

\* A reference that a call has is one of those to the inode.
LEMMA HeldCounts ==
    ASSUME CoreInv, NEW t \in Threads, NEW i \in Inums
    PROVE  /\ N(th[t], OpOf(calls[t]), i) <= ino[i].ref /\ N(th[t], OpOf(calls[t]), i) \in Nat
           /\ ino[i].ref \in Nat
  <1>1. FiniteAll(SpotsOf(th, calls, i)) /\ Cardinality(SpotsOf(th, calls, i)[t]) = N(th[t], OpOf(calls[t]), i)
    BY SpotsFinite DEF CoreInv, TypeInv, FramesInv, FrameOK
  <1>2. PICK R : /\ Cardinality(RefsTo(i)) = Cardinality(R) + N(th[t], OpOf(calls[t]), i)
                 /\ Cardinality(R) \in Nat BY <1>1, PairsSplit, RefsToIs DEF RefsAre
  <1> QED BY <1>2, NTypes, CoreParts DEF CoreInv, RefsHeld, TypeInv, Nodes, Node

LEMMA RefsChange ==
    ASSUME CoreInv, NEW t \in Threads, TypeStep(t), LocalOK(th'[t], calls'[t]), NEW i \in Inums
    PROVE  /\ Cardinality(RefsTo(i))' =
                Cardinality(RefsTo(i)) - N(th[t], OpOf(calls[t]), i) + N(th'[t], OpOf(calls'[t]), i)
           /\ \A u \in Threads : Cardinality(RefsTo(i))' >= N(th'[u], OpOf(calls'[u]), i)
           /\ Cardinality(RefsTo(i)) \in Nat /\ Cardinality(RefsTo(i))' \in Nat
           /\ \A u \in Threads : N(th'[u], OpOf(calls'[u]), i) \in Nat
  <1> DEFINE H == SpotsOf(th, calls, i)
             G == SpotsOf(th', calls', i)
  <1>1. /\ th \in [Threads -> Frame] /\ th' \in [Threads -> Frame]
        /\ \A u \in Threads : LocalOK(th[u], calls[u]) BY DEF CoreInv, TypeInv, FramesInv, FrameOK, TypeStep
  <1>3. FiniteAll(H) /\ \A u \in Threads : Cardinality(H[u]) = N(th[u], OpOf(calls[u]), i) BY <1>1, SpotsFinite
  <1>4. FiniteAll(G) /\ \A u \in Threads : Cardinality(G[u]) = N(th'[u], OpOf(calls'[u]), i)
    BY <1>1, SpotsFinite DEF TypeStep, Others
  <1>5. \A u \in Threads \ {t} : G[u] = H[u] BY DEF SpotsOf, TypeStep, Others
  <1>6. RefsTo(i) = Pairs(H) BY RefsToIs DEF RefsAre
  <1>7. RefsTo(i)' = Pairs(G)
    <2>1. RefsAre' BY RefsToIs, PTL
    <2> QED BY <2>1 DEF RefsAre
  <1> HIDE DEF H, G
  <1>9. \A u \in Threads : /\ Cardinality(Pairs(G)) >= Cardinality(G[u]) /\ Cardinality(G[u]) \in Nat
                           /\ Cardinality(Pairs(G)) \in Nat
    <2> TAKE u \in Threads
    <2>1. PICK R : /\ Cardinality(Pairs(G)) = Cardinality(R) + Cardinality(G[u])
                   /\ Cardinality(R) \in Nat /\ Cardinality(G[u]) \in Nat BY <1>4, PairsSplit
    <2> QED BY <2>1
  <1>10. Cardinality(Pairs(H)) \in Nat BY <1>3, PairsSplit, FS_CardinalityType
  <1> QED BY <1>3, <1>4, <1>6, <1>7, <1>5, PairsChange, <1>9, <1>10

LEMMA NamesFinite ==
    ASSUME NEW s \in Nodes, NEW i
    PROVE  /\ NamesIn(s, i) \subseteq Inums \X Fns /\ IsFiniteSet(NamesIn(s, i))
           /\ Cardinality(NamesIn(s, i)) \in Nat
  BY NamesAssumption, FS_Product, FS_Subset, FS_CardinalityType DEF NamesIn, LiveIn, Nodes

\* The names of i, without LiveIn.
LEMMA NamesAre ==
    ASSUME NEW s \in Nodes, NEW i \in Inums
    PROVE  NamesIn(s, i) = {e \in Inums \X Fns : s[e[1]].itype = "dir" /\ s[e[1]].ents[e[2]] = i}
  BY RootIno DEF NamesIn, LiveIn, Entry, IsDir, Nodes

LEMMA PendingIs == \A i : Pending(i) = PendSet(th, calls, i)
  BY OpIs DEF Pending, PendSet, PendOf, Walking

LEMMA PendFinite ==
    ASSUME NEW f, NEW g, NEW i
    PROVE  IsFiniteSet(PendSet(f, g, i)) /\ Cardinality(PendSet(f, g, i)) \in Nat
  BY NamesAssumption, FS_Subset, FS_CardinalityType DEF PendSet

LEMMA PendChange ==
    ASSUME NEW t \in Threads, NEW f, NEW g, NEW f2, NEW g2, NEW i,
           \A u \in Threads \ {t} : f2[u] = f[u] /\ g2[u] = g[u]
    PROVE  Cardinality(PendSet(f2, g2, i)) =
             Cardinality(PendSet(f, g, i)) - B(PendOf(f[t], OpOf(g[t]), i)) + B(PendOf(f2[t], OpOf(g2[t]), i))
  <1> DEFINE R == {u \in Threads \ {t} : PendOf(f[u], OpOf(g[u]), i)}
  <1>2. Cardinality(R) \in Nat /\ Cardinality(R \cup {t}) = Cardinality(R) + 1
    BY NamesAssumption, FS_Subset, FS_CardinalityType, FS_AddElement
  <1>3. PendSet(f, g, i) = IF PendOf(f[t], OpOf(g[t]), i) THEN R \cup {t} ELSE R BY DEF PendSet
  <1>4. PendSet(f2, g2, i) = IF PendOf(f2[t], OpOf(g2[t]), i) THEN R \cup {t} ELSE R BY DEF PendSet
  <1> HIDE DEF R
  <1> QED BY <1>2, <1>3, <1>4 DEF B

LEMMA PendingPrime ==
    ASSUME NEW i PROVE Pending(i)' = PendSet(th', calls', i)
  BY DEF Pending, PendSet, PendOf, Walking, OpOf, Op

LEMMA HasNpar ==
    ASSUME NEW r \in Frame, NEW cs, LocalOK(r, cs), NEW op, op = OpOf(cs),
           \/ r.pc \in {"look", "up"} \/ r.next = "look"
           \/ r.pc \in {"lockall", "locked"} /\ op = "rename"
    PROVE  r.npar \in Inums /\ Has(r, op, r.npar)
  <1>1. r.npar \in Inums /\ r.pc \in Places BY DEF LocalOK, Frame, Inos
  <1>2. B(r.npar = r.npar) = 1 /\ \A p : B(p) \in {0, 1} BY DEF B
  <1>3. T3(r, r.npar) \in Nat \ {0} BY DEF T3, B
  <1>4. CASE r.pc = "look" BY <1>1, <1>3, <1>4, HeldChild DEF Has, B
  <1>5. CASE r.pc = "up" BY <1>1, <1>3, <1>5, HeldRename DEF Has, B
  <1>6. CASE r.pc \in {"lockall", "locked"} /\ op = "rename"
    <2>0. \A i \in Inums : N(r, op, i) = T3(r, i) + B(r.nchild = i)
      <3>1. r.pc \in {"lockall", "locked"} /\ OpOf(cs) = "rename" BY <1>6
      <3> TAKE i \in Inums
      <3> QED BY <3>1, HeldLocked
    <2>1. N(r, op, r.npar) = T3(r, r.npar) + B(r.nchild = r.npar) BY <1>1, <2>0, Zenon
    <2> QED BY <1>1, <1>3, <1>6, <2>1 DEF Has, B
  <1>7. CASE r.pc \in {"refdown", "reflinks"} /\ r.next = "look"
    <2>1. A3(r, r.npar) = T3(r, r.npar) /\ r.refs \in Seq(Inums) BY <1>7 DEF A3, Frame
    <2>3. r.pc = "reflinks" => Cnt(Tail(r.refs), r.npar) \in Nat
      <3>1. r.pc = "reflinks" => Tail(r.refs) \in Seq(Inums) BY <2>1 DEF LocalOK
      <3> QED BY <3>1, CntNat
    <2> QED BY <1>1, <1>3, <1>7, <2>1, CntNat, <2>3, HeldRename DEF Has, B
  <1>8. r.next = "look" => r.pc \in {"look", "lockall", "locked", "refdown", "reflinks"} /\ op = "rename"
    <2> SUFFICES ASSUME r.next = "look" PROVE r.pc \in {"look", "lockall", "locked", "refdown", "reflinks"} /\ op = "rename"
      OBVIOUS
    <2> QED BY <1>1 DEF LocalOK, Places, Walking, Idle
  <1> QED BY <1>4, <1>5, <1>6, <1>7, <1>8

LEMMA HasOchild ==
    ASSUME NEW r \in Frame, NEW cs, LocalOK(r, cs), NEW op, op = OpOf(cs),
           \/ r.pc \in Walking \cup {"undo", "lockall", "locked"} /\ r.stg = 2
           \/ r.pc \in {"child", "look", "up"}
    PROVE  r.ochild \in Inums /\ Has(r, op, r.ochild)
  <1>1. r.ochild \in Inums /\ r.pc \in Places BY DEF LocalOK, Frame, Inos
  <1>2. B(r.ochild = r.ochild) = 1 /\ \A p : B(p) \in {0, 1} BY DEF B
  <1>4. CASE r.pc \in Walking BY <1>1, <1>4, HeldWalking DEF Has, B, Walking
  <1>5. CASE r.pc = "child" BY <1>1, <1>5, HeldChild DEF Has, B, LocalOK
  <1>6. CASE r.pc = "undo" BY <1>1, <1>6, HeldChild DEF Has, B
  <1>7. CASE r.pc \in {"lockall", "locked"} /\ r.stg = 2
    <2>2. \A i \in Inums : N(r, op, i) = T3(r, i) + B(r.nchild = i)
      <3> TAKE i \in Inums
      <3> QED BY <1>7, HeldLocked DEF LocalOK
    <2>1. N(r, op, r.ochild) = T3(r, r.ochild) + B(r.nchild = r.ochild) BY <1>1, <2>2, Zenon
    <2> QED BY <1>1, <1>7, <2>1 DEF Has, B, T3
  <1>8. CASE r.pc = "look" BY <1>1, <1>8, HeldChild DEF Has, B, T3
  <1>9. CASE r.pc = "up" BY <1>1, <1>9, HeldRename DEF Has, B, T3
  <1> QED BY <1>4, <1>5, <1>6, <1>7, <1>8, <1>9

LEMMA HeldAfter ==
    ASSUME CoreInv, NEW t \in Threads, CoreStep(t), NEW i \in Inums
    PROVE  /\ ino'[i].ref >= Cardinality(RefsTo(i))'
           /\ \A u \in Threads : ino'[i].ref >= N(th'[u], OpOf(calls'[u]), i)
           /\ \A u \in Threads : N(th'[u], OpOf(calls'[u]), i) \in Nat
  <1>4. ino[i].ref \in Int /\ ino'[i].ref \in Int BY DEF CoreInv, TypeInv, Nodes, Node, CoreStep, TypeStep, OwnStep
  <1> QED BY <1>4, HeldCounts, RefsChange DEF CoreInv, RefsHeld, CoreStep, RefStep, TypeStep, OwnStep

LEMMA CoreStepInv ==
    ASSUME CoreInv, NEW t \in Threads, CoreStep(t)
    PROVE  CoreInv'
  <1> USE DEF CoreStep
  <1>1. /\ TypeStep(t) /\ TypeInv' /\ Shape(ino') /\ Marks(ino') /\ RootOK(ino') /\ Evolves(ino, ino')
        /\ LocalOK(th'[t], calls'[t]) BY DEF TypeStep, TreeStep, OwnStep
  <1>2. ASSUME NEW i \in Inums
        PROVE  /\ ino'[i].ref >= Cardinality(RefsTo(i))'
               /\ \A u \in Threads : ino'[i].ref >= N(th'[u], OpOf(calls'[u]), i)
               /\ \A u \in Threads : N(th'[u], OpOf(calls'[u]), i) \in Nat BY HeldAfter
  <1>4. LinksHeld'
    <2> SUFFICES ASSUME NEW i \in Inums
                 PROVE  ino'[i].links >= Cardinality(NamesIn(ino', i)) + Cardinality(PendSet(th', calls', i))
      BY PendingPrime DEF LinksHeld, NamesOf
    <2>4. /\ Cardinality(NamesIn(ino, i)) \in Nat /\ Cardinality(NamesIn(ino', i)) \in Nat
          /\ ino[i].links \in Int /\ ino'[i].links \in Int BY <1>1, NamesFinite DEF CoreInv, TypeInv, Nodes, Node
    <2> QED
      BY PendingIs, <1>1, PendChange, <2>4, PendFinite DEF CoreInv, LinksHeld, NamesOf, LinkStep, TypeStep, Others, B
  <1>5. ASSUME NEW u \in Threads PROVE FrameOK(ino', th'[u], calls'[u])
    <2>1. CASE u = t
      <3>1. KeptOK(ino', th'[t], OpOf(calls'[t]))
        <4> SUFFICES ASSUME NEW i \in Inums, ino'[i].gone
                     PROVE  N(th'[t], OpOf(calls'[t]), i) <= B(th'[t].pc = "up" /\ th'[t].cur = i) BY DEF KeptOK
        <4>1. CASE ino[i].gone BY <4>1 DEF OwnStep
        <4>2. CASE ~ino[i].gone BY <1>2, <1>1, <4>2 DEF B, Evolves
        <4> QED BY <4>1, <4>2
      <3> QED BY <2>1, <3>1 DEF OwnStep, FrameOK
    <2>2. CASE u # t
      <3>2. /\ th[u] \in Frame /\ LocalOK(th[u], calls[u]) /\ KindOK(ino, th[u], OpOf(calls[u]))
            /\ KeptOK(ino, th[u], OpOf(calls[u])) /\ DeadOK(ino, th[u]) BY CoreParts
      <3>3. KeptOK(ino', th[u], OpOf(calls[u]))
        <4> SUFFICES ASSUME NEW i \in Inums, ino'[i].gone
                     PROVE  N(th[u], OpOf(calls[u]), i) <= B(th[u].pc = "up" /\ th[u].cur = i) BY DEF KeptOK
        <4>1. CASE ino[i].gone BY <3>2, <4>1 DEF KeptOK
        <4>2. CASE ~ino[i].gone BY <1>2, <2>2, <1>1, <4>2 DEF B, Evolves, TypeStep, Others
        <4> QED BY <4>1, <4>2
      <3>5. \A i \in Inums : Has(th[u], OpOf(calls[u]), i) /\ ino[i].itype # "none" => ino'[i].itype = ino[i].itype
        <4> SUFFICES ASSUME NEW i \in Inums, ino[i].itype # "none",
                            N(th[u], OpOf(calls[u]), i) > B(th[u].pc = "up" /\ th[u].cur = i)
                     PROVE  ino'[i].itype = ino[i].itype BY DEF Has
        <4>2. SUFFICES ASSUME ino'[i].gone PROVE FALSE BY <1>1 DEF Marks, Evolves
        <4> QED BY <3>3, <4>2, HeldCounts DEF KeptOK, B
      <3>6. KindOK(ino', th[u], OpOf(calls[u]))
        <4> DEFINE r == th[u]
                   op == OpOf(calls[u])
        <4>3. r.pc \in {"namei", "verify"} => ino'[r.cur].itype # "none"
          BY <1>1, <3>5, <3>2 DEF KindOK, Evolves, LocalOK, Frame, Inos, Walking
        <4>7. r.pc = "reflinks" => ino'[Head(r.refs)].itype # "none"
          BY <1>1, <3>5, <3>2 DEF KindOK, Evolves, LocalOK, Frame
        <4> QED BY <4>3, <3>2, <3>5, HasOchild, HasNpar, <4>7 DEF KindOK
      <3> QED BY <2>2, <3>2, <3>3, <1>1, <3>6 DEF FrameOK, DeadOK, Evolves, Frame, TypeStep, Others
    <2> QED BY <2>1, <2>2
  <1> QED BY <1>1, <1>2, <1>4, <1>5 DEF CoreInv, FramesInv, TypeStep, RefsHeld

--------------------------------------------------------------------------------
(* Kinds of steps. *)
LEMMA ShapeSame ==
    ASSUME NEW s \in Nodes, NEW x \in Nodes, SameNames(s, x), Shape(s)
    PROVE  Shape(x) /\ \A i \in Inums : NamesIn(x, i) = NamesIn(s, i)
  <1>1. Shape(x)
    <2> SUFFICES ASSUME NEW i \in Inums
                 PROVE  /\ x[i].itype # "dir" => x[i].ents = NoEntries
                        /\ x[i].itype \in {"none", "file"} => x[i].dotdot = Nil
                        /\ \A n \in Fns : x[i].ents[n] # Nil => x[i].ents[n] # iroot /\ x[x[i].ents[n]].itype # "none"
                        /\ \A n \in x[i].fresh : x[i].ents[n] # Nil
                        /\ x[i].dotdot # Nil => x[x[i].dotdot].itype # "none" BY DEF Shape
    <2> QED BY DEF Shape, SameNames, Nodes, Node, Inos
  <1>2. ASSUME NEW i \in Inums PROVE NamesIn(x, i) = NamesIn(s, i)
    <2>5. \A e : e \in NamesIn(x, i) <=> e \in NamesIn(s, i) BY NamesAre DEF SameNames
    <2> QED BY <2>5
  <1> QED BY <1>1, <1>2

\* A step that leaves names and links alone.
LEMMA QuietTree ==
    ASSUME CoreInv, NEW x \in Nodes, SameNames(ino, x), SameLinks(ino, x),
           \A j \in Inums : ino[j].gone => x[j].gone,
           \A j \in Inums : x[j].gone => ino[j].gone \/ (ino[j].links = 0 /\ x[j].ref = 0 /\ ino[j].itype # "none"),
           \A j \in Inums : ino[j].itype = "none" => x[j].ref = 0
    PROVE  TreeTo(x) /\ \A i \in Inums : NamesIn(x, i) = NamesIn(ino, i)
  <1>3. \A j \in Inums : x[j].itype = ino[j].itype /\ x[j].links = ino[j].links BY DEF SameNames, SameLinks
  <1> QED BY ShapeSame, <1>3, RootIno DEF TreeTo, Marks, RootOK, CoreInv, TypeInv, Evolves

\* What is free has no names.
LEMMA FreeTree ==
    ASSUME CoreInv, NEW s, TreeTo(s), NEW dead \in SUBSET Inums, \A i \in dead : s[i].gone
    PROVE  /\ TreeTo(ifree(s, dead))
           /\ \A i \in Inums : /\ NamesIn(ifree(s, dead), i) \subseteq NamesIn(s, i)
                               /\ ifree(s, dead)[i].links = s[i].links /\ ifree(s, dead)[i].ref = s[i].ref
                               /\ ifree(s, dead)[i].gone = s[i].gone
  <1> DEFINE x == ifree(s, dead)
  <1>1. s \in Nodes /\ Shape(s) /\ Marks(s) /\ RootOK(s) /\ Evolves(ino, s) BY DEF TreeTo
  <1>2. x \in Nodes /\ Freed(s, x, dead) BY <1>1, ifreeFields
  <1> HIDE DEF x
  <1>3. \A j \in Inums :
          /\ x[j].links = s[j].links /\ x[j].ref = s[j].ref /\ x[j].dotdot = s[j].dotdot
          /\ x[j].itype = (IF j \in dead THEN "dead" ELSE s[j].itype)
          /\ x[j].ents = (IF j \in dead THEN NoEntries ELSE s[j].ents)
          /\ x[j].fresh = (IF j \in dead THEN {} ELSE s[j].fresh) BY <1>2 DEF Freed
  <1>4. \A j \in Inums : x[j].gone = s[j].gone BY <1>2, Zenon DEF Freed
  <1>6. Shape(x)
    <2> SUFFICES ASSUME NEW i \in Inums
                 PROVE  /\ x[i].itype # "dir" => x[i].ents = NoEntries
                        /\ x[i].itype \in {"none", "file"} => x[i].dotdot = Nil
                        /\ \A n \in Fns : x[i].ents[n] # Nil => x[i].ents[n] # iroot /\ x[x[i].ents[n]].itype # "none"
                        /\ \A n \in x[i].fresh : x[i].ents[n] # Nil
                        /\ x[i].dotdot # Nil => x[x[i].dotdot].itype # "none" BY DEF Shape
    <2>5. CASE i \in dead BY <1>1, <1>3, <2>5, NoEntriesType DEF Nodes, Node, Inos, Shape
    <2>6. CASE i \notin dead BY <1>1, <1>3, <2>6 DEF Nodes, Node, Inos, Shape
    <2> QED BY <2>5, <2>6
  <1>10. ASSUME NEW i \in Inums PROVE NamesIn(x, i) \subseteq NamesIn(s, i) BY <1>1, <1>2, <1>3, NamesAre
  <1> QED BY <1>4, <1>2, <1>6, <1>1, RootIno, <1>3, <1>10 DEF x, TreeTo, Marks, RootOK, Evolves

\* A step that goes on with the frame r.
LEMMA GotoStep ==
    ASSUME CoreInv, NEW t \in Threads, NEW r \in Frame, NEW x, TreeTo(x),
           ino' = x, th' = [th EXCEPT ![t] = r], rlock' \in Tids, calls' = calls, fatal' = fatal,
           LocalOK(r, calls[t]), KindOK(x, r, OpOf(calls[t])), DeadOK(x, r),
           \A i \in Inums : x[i].links - Cardinality(NamesIn(x, i)) - B(PendOf(r, OpOf(calls[t]), i)) >=
              ino[i].links - Cardinality(NamesIn(ino, i)) - B(PendOf(th[t], OpOf(calls[t]), i)),
           \A i \in Inums : x[i].ref - ino[i].ref >= N(r, OpOf(calls[t]), i) - N(th[t], OpOf(calls[t]), i),
           \A i \in Inums : ino[i].gone => N(r, OpOf(calls[t]), i) <= B(r.pc = "up" /\ r.cur = i)
    PROVE  CoreStep(t) /\ th'[t] = r
  BY DEF CoreStep, TypeStep, Others, TypeInv, TreeTo, TreeStep, LinkStep, RefStep, OwnStep, CoreInv

LEMMA TidyTail ==
    ASSUME NEW cs \in Seq(Call), cs # <<>>, Tidy(cs)
    PROVE  /\ Tail(cs) \in Seq(Call) /\ Tidy(Tail(cs))
           /\ OpOf(cs) \in {"create", "open"} => Tail(cs) # <<>> /\ OpOf(Tail(cs)) = "close"
  <1>1. /\ Len(cs) \in Nat \ {0} /\ DOMAIN cs = 1 .. Len(cs) /\ Head(cs) = cs[1]
        /\ Tail(cs) \in Seq(Call) /\ Len(Tail(cs)) = Len(cs) - 1
        /\ \A k \in 1 .. (Len(cs) - 1) : Tail(cs)[k] = cs[k + 1] OBVIOUS
  <1>3. Tidy(Tail(cs))
    <2> SUFFICES ASSUME NEW k \in 1 .. (Len(cs) - 1), Tail(cs)[k].op \in {"create", "open"}
                 PROVE  k < Len(Tail(cs)) /\ Tail(cs)[k + 1].op = "close" BY <1>1 DEF Tidy
    <2>2. k + 1 < Len(cs) /\ cs[(k + 1) + 1].op = "close" BY <1>1 DEF Tidy
    <2> QED BY <1>1, <2>2
  <1>4. ASSUME OpOf(cs) \in {"create", "open"}
        PROVE  Tail(cs) # <<>> /\ OpOf(Tail(cs)) = "close"
    <2>1. 1 \in DOMAIN cs /\ cs[1].op \in {"create", "open"} BY <1>1, <1>4 DEF OpOf
    <2>2. 1 < Len(cs) /\ cs[1 + 1].op = "close" BY <2>1 DEF Tidy
    <2>3. Len(Tail(cs)) # 0 /\ Tail(cs)[1] = cs[1 + 1] BY <1>1, <2>2
    <2>4. Head(Tail(cs)) = Tail(cs)[1] BY <1>1, <2>3
    <2> QED BY <1>1, <2>2, <2>3, <2>4 DEF OpOf
  <1> QED BY <1>1, <1>3, <1>4

LEMMA IdleFrame ==
    ASSUME NEW f \in Inos
    PROVE  LET r == [Idle EXCEPT !.file = f]
           IN  /\ r \in Frame /\ r.pc = "idle" /\ r.file = f /\ r.stg = 1 /\ r.next = "idle" /\ r.dead = {}
               /\ r.cur = Nil /\ r.opar = Nil /\ r.ochild = Nil /\ r.npar = Nil /\ r.nchild = Nil
               /\ r.defers = <<>> /\ r.refs = <<>> /\ r.chk = TRUE /\ r.tolock = {} /\ r.rest = <<>>
  <1>1. /\ Idle \in Frame /\ Idle.pc = "idle" /\ Idle.stg = 1 /\ Idle.next = "idle" /\ Idle.dead = {}
        /\ Idle.cur = Nil /\ Idle.opar = Nil /\ Idle.ochild = Nil /\ Idle.npar = Nil /\ Idle.nchild = Nil
        /\ Idle.defers = <<>> /\ Idle.refs = <<>> /\ Idle.chk = TRUE /\ Idle.tolock = {} /\ Idle.rest = <<>>
    BY DEF Idle, Frame, Places, Inos
  <1> QED BY <1>1 DEF Frame

\* A call that returns.
LEMMA FinishStep ==
    ASSUME CoreInv, NEW t \in Threads, calls[t] # <<>>, NEW s, TreeTo(s), NEW dead \in SUBSET Inums,
           \A i \in dead : s[i].gone, NEW f \in Inos,
           f # Nil => OpOf(calls[t]) \in {"create", "open"} /\ ~ino[f].gone,
           Finish(t, s, dead, f), rlock' \in Tids,
           \A i \in Inums : s[i].links - Cardinality(NamesIn(s, i)) >=
              ino[i].links - Cardinality(NamesIn(ino, i)) - B(PendOf(th[t], OpOf(calls[t]), i)),
           \A i \in Inums : s[i].ref - ino[i].ref >= B(f = i) - N(th[t], OpOf(calls[t]), i)
    PROVE  /\ CoreStep(t) /\ \A i \in Inums : ino'[i].ref = s[i].ref /\ N(th'[t], OpOf(calls'[t]), i) = B(f = i)
           /\ th'[t] = [Idle EXCEPT !.file = f] /\ calls'[t] = Tail(calls[t])
  <1>2. PICK r : r = [Idle EXCEPT !.file = f] OBVIOUS
  <1>3. r \in Frame /\ r.pc = "idle" /\ r.file = f /\ r.stg = 1 /\ r.next = "idle" /\ r.dead = {} BY <1>2, IdleFrame
  <1>4. /\ ino' = ifree(s, dead) /\ th' = [th EXCEPT ![t] = r] /\ calls' = [calls EXCEPT ![t] = Tail(@)]
        /\ fatal' = fatal BY <1>2 DEF Finish
  <1>6. /\ th'[t] = r /\ calls'[t] = Tail(calls[t])
        /\ \A u \in Threads \ {t} : th'[u] = th[u] /\ calls'[u] = calls[u]
        /\ th' \in [Threads -> Frame] /\ calls' \in [Threads -> Seq(Call)]
    BY CoreParts, <1>3, <1>4, TidyTail DEF CoreInv, TypeInv, LocalOK
  <1>7. /\ TreeTo(ino')
        /\ \A i \in Inums : /\ NamesIn(ino', i) \subseteq NamesIn(s, i)
                            /\ ino'[i].links = s[i].links /\ ino'[i].ref = s[i].ref BY <1>4, FreeTree
  <1>9. LocalOK(r, calls'[t]) BY <1>3, CoreParts, TidyTail, <1>6, <1>2 DEF LocalOK, Walking, CoreInv, TypeInv
  <1>10. \A i \in Inums : N(r, OpOf(calls'[t]), i) = B(f = i) BY <1>3, <1>9, BodyCount
  <1>11. LinkStep(t)
    <2> SUFFICES ASSUME NEW i \in Inums
                 PROVE  ino'[i].links - Cardinality(NamesIn(ino', i)) - B(PendOf(th'[t], OpOf(calls'[t]), i)) >=
                        ino[i].links - Cardinality(NamesIn(ino, i)) - B(PendOf(th[t], OpOf(calls[t]), i))
      BY DEF LinkStep
    <2>1. B(PendOf(th'[t], OpOf(calls'[t]), i)) = 0 BY <1>3, <1>6 DEF B, PendOf, Walking
    <2>3. Cardinality(NamesIn(ino', i)) <= Cardinality(NamesIn(s, i)) BY <1>7, NamesFinite, FS_Subset DEF TreeTo
    <2>4. Cardinality(NamesIn(ino', i)) \in Nat /\ Cardinality(NamesIn(s, i)) \in Nat /\ Cardinality(NamesIn(ino, i)) \in Nat
      BY <1>7, NamesFinite DEF CoreInv, TypeInv, TreeTo
    <2>5. s[i].links \in Int /\ ino[i].links \in Int BY <1>7 DEF Nodes, Node, CoreInv, TypeInv, TreeTo
    <2>6. B(PendOf(th[t], OpOf(calls[t]), i)) \in Int BY DEF B
    <2>7. s[i].links - Cardinality(NamesIn(s, i)) >=
              ino[i].links - Cardinality(NamesIn(ino, i)) - B(PendOf(th[t], OpOf(calls[t]), i)) OBVIOUS
    <2>8. ino'[i].links = s[i].links BY <1>7
    <2> QED BY <2>1, <2>3, <2>4, <2>5, <2>6, <2>7, <2>8
  <1>12. RefStep(t)
    <2> SUFFICES ASSUME NEW i \in Inums
                 PROVE  ino'[i].ref - ino[i].ref >= N(th'[t], OpOf(calls'[t]), i) - N(th[t], OpOf(calls[t]), i)
      BY DEF RefStep
    <2> QED BY <1>6, <1>7, <1>10
  <1>13. OwnStep(t)
    <2>3. ASSUME NEW i \in Inums, ino[i].gone PROVE N(r, OpOf(calls'[t]), i) <= B(r.pc = "up" /\ r.cur = i)
      BY <1>10, <2>3, RootIno DEF B
    <2> QED BY <1>6, <1>9, <1>3, <2>3 DEF OwnStep, KindOK, Walking, DeadOK
  <1> QED
    BY <1>2, <1>6, <1>7, <1>10, CoreParts, <1>4, <1>11, <1>12, <1>13 DEF CoreStep, TypeStep, Others, TypeInv,
       TreeTo, TreeStep, CoreInv

LEMMA PanicStep ==
    ASSUME CoreInv, NEW t \in Threads, Panic
    PROVE  CoreStep(t) /\ RefExact(t)
  <1>5. ASSUME NEW i \in Inums
        PROVE  /\ ino[i].links \in Int /\ ino[i].ref \in Int /\ N(th[t], OpOf(calls[t]), i) \in Int
               /\ Cardinality(NamesIn(ino, i)) \in Int /\ B(PendOf(th[t], OpOf(calls[t]), i)) \in Int
    <2>1. ino \in Nodes BY DEF CoreInv, TypeInv
    <2> QED BY <2>1, HeldCounts, NamesFinite DEF Nodes, Node, B
  <1> QED
    BY <1>5, CoreParts DEF CoreStep, CoreInv, TypeInv, TypeStep, Others, TreeStep, Evolves, LinkStep, RefStep,
       RefExact, Panic, OwnStep, KeptOK

--------------------------------------------------------------------------------
(* Steps that change references and locks only. *)
LEMMA KindSame ==
    ASSUME NEW r \in Frame, NEW cs, LocalOK(r, cs), NEW s, NEW x, SameNames(s, x), KindOK(s, r, OpOf(cs))
    PROVE  KindOK(x, r, OpOf(cs))
  BY DEF KindOK, Walking, SameNames, LocalOK, Frame, Inos

LEMMA TouchTree ==
    ASSUME CoreInv, NEW x, Touches(x)
    PROVE  /\ TreeTo(x) /\ \A i \in Inums : NamesIn(x, i) = NamesIn(ino, i)
           /\ \A i \in Inums : /\ ino[i].links \in Int /\ ino[i].ref \in Int /\ x[i].ref \in Int
                               /\ Cardinality(NamesIn(ino, i)) \in Int /\ x[i].links = ino[i].links
  <1>1. ino \in Nodes /\ x \in Nodes /\ Marks(ino) BY DEF CoreInv, TypeInv, Touches
  <1> QED BY QuietTree, <1>1, NamesFinite DEF SameLinks, Nodes, Node, Marks, Touches

\* The call goes on with r, and has the references it had and those it took.
LEMMA QuietGoto ==
    ASSUME CoreInv, NEW t \in Threads, NEW r \in Frame, NEW x, Touches(x),
           ino' = x, th' = [th EXCEPT ![t] = r], rlock' \in Tids, calls' = calls, fatal' = fatal,
           LocalOK(r, calls[t]), KindOK(ino, r, OpOf(calls[t])),
           \A i \in r.dead : x[i].gone,
           \A i \in Inums : PendOf(r, OpOf(calls[t]), i) <=> PendOf(th[t], OpOf(calls[t]), i),
           \A i \in Inums : N(r, OpOf(calls[t]), i) = N(th[t], OpOf(calls[t]), i) + (x[i].ref - ino[i].ref),
           \A i \in Inums : ino[i].gone => N(r, OpOf(calls[t]), i) <= B(r.pc = "up" /\ r.cur = i)
    PROVE  Quiet(t) /\ th'[t] = r
  <1>1. /\ TreeTo(x) /\ \A i \in Inums : NamesIn(x, i) = NamesIn(ino, i)
        /\ \A i \in Inums : /\ ino[i].links \in Int /\ ino[i].ref \in Int /\ x[i].ref \in Int
                            /\ Cardinality(NamesIn(ino, i)) \in Int /\ x[i].links = ino[i].links BY TouchTree
  <1>4. ASSUME NEW i \in Inums
        PROVE  x[i].links - Cardinality(NamesIn(x, i)) - B(PendOf(r, OpOf(calls[t]), i)) >=
               ino[i].links - Cardinality(NamesIn(ino, i)) - B(PendOf(th[t], OpOf(calls[t]), i)) BY <1>1 DEF B
  <1>5. ASSUME NEW i \in Inums
        PROVE  x[i].ref - ino[i].ref = N(r, OpOf(calls[t]), i) - N(th[t], OpOf(calls[t]), i) BY <1>1, HeldCounts
  <1>6. \A i \in Inums : x[i].ref - ino[i].ref >= N(r, OpOf(calls[t]), i) - N(th[t], OpOf(calls[t]), i) BY <1>1, <1>5
  <1>7. CoreStep(t) /\ th'[t] = r BY <1>1, KindSame, <1>4, <1>6, GotoStep DEF Touches, DeadOK
  <1> QED BY <1>7, <1>5 DEF Quiet, RefExact, Calm, CalmTree, Touches, SameNames, SameLinks, PendSame

\* A call that returns.
LEMMA QuietFinish ==
    ASSUME CoreInv, NEW t \in Threads, NEW s, NEW dead \in SUBSET Inums, NEW f \in Inos,
           MayFinish(t, s, dead, f)
    PROVE  Quiet(t) /\ th'[t] = [Idle EXCEPT !.file = f] /\ calls'[t] = Tail(calls[t])
  <1>0. /\ calls[t] # <<>> /\ Touches(s) /\ Finish(t, s, dead, f) /\ rlock' \in Tids
        /\ \A i \in dead : s[i].gone
        /\ f # Nil => OpOf(calls[t]) \in {"create", "open"} /\ ~ino[f].gone
        /\ \A i \in Inums : ~PendOf(th[t], OpOf(calls[t]), i)
        /\ \A i \in Inums : B(f = i) = N(th[t], OpOf(calls[t]), i) + (s[i].ref - ino[i].ref) BY DEF MayFinish
  <1>1. /\ TreeTo(s) /\ \A i \in Inums : NamesIn(s, i) = NamesIn(ino, i)
        /\ \A i \in Inums : /\ ino[i].links \in Int /\ ino[i].ref \in Int /\ s[i].ref \in Int
                            /\ Cardinality(NamesIn(ino, i)) \in Int /\ s[i].links = ino[i].links BY <1>0, TouchTree
  <1>2. \A i \in Inums : s[i].links - Cardinality(NamesIn(s, i)) >=
              ino[i].links - Cardinality(NamesIn(ino, i)) - B(PendOf(th[t], OpOf(calls[t]), i)) BY <1>0, <1>1 DEF B
  <1>4. \A i \in Inums : s[i].ref - ino[i].ref >= B(f = i) - N(th[t], OpOf(calls[t]), i) BY <1>1, <1>0, HeldCounts
  <1>5. /\ CoreStep(t) /\ \A i \in Inums : ino'[i].ref = s[i].ref /\ N(th'[t], OpOf(calls'[t]), i) = B(f = i)
        /\ th'[t] = [Idle EXCEPT !.file = f] /\ calls'[t] = Tail(calls[t]) BY <1>0, <1>1, <1>2, <1>4, FinishStep
  <1>7. CalmTree BY ifreeFields, <1>0 DEF CalmTree, Freed, SameNames, SameLinks, Touches, Finish
  <1>9. PendSame(t) BY <1>0, <1>5 DEF PendSame, PendOf, Walking, Idle
  <1> QED BY <1>5, <1>0, <1>1, HeldCounts, <1>7, <1>9 DEF Quiet, Calm, RefExact

\* An entry leads to an inode that is in use.
LEMMA Named ==
    ASSUME CoreInv, NEW i \in Inums, NEW n \in Fns, Entry(ino, i, n) # Nil
    PROVE  LET c == Entry(ino, i, n)
           IN  /\ c = ino[i].ents[n] /\ ino[i].itype = "dir"
               /\ c \in Inums /\ c # iroot /\ ino[c].links > 0 /\ ~ino[c].gone
               /\ ino[c].itype \in {"file", "dir"}
  <1> DEFINE c == Entry(ino, i, n)
  <1>1. ino \in Nodes /\ Shape(ino) /\ Marks(ino) /\ LinksHeld BY DEF CoreInv, TypeInv
  <1>3. c \in Inums /\ c # iroot /\ ino[c].itype # "none" BY <1>1 DEF Shape, Nodes, Node, Inos, Entry, IsDir
  <1>4. <<i, n>> \in NamesIn(ino, c) BY <1>1, <1>3, NamesAre DEF Entry, IsDir
  <1> HIDE DEF c
  <1>6. ino[c].links > 0
    <2>2. Cardinality(Pending(c)) \in Nat /\ ino[c].links \in Int BY <1>1, <1>3, PendFinite, PendingIs DEF Nodes, Node
    <2> QED BY <1>4, NamesFinite, FS_EmptySet, <1>1, <1>3, <2>2 DEF LinksHeld, NamesOf
  <1> QED BY <1>3, <1>6, <1>1 DEF c, Marks, Nodes, Node, Entry, IsDir

\* What a call has is in use.
LEMMA HasLive ==
    ASSUME CoreInv, NEW t \in Threads, NEW i \in Inums
    PROVE  /\ N(th[t], OpOf(calls[t]), i) > 0 => ino[i].itype # "none" /\ ino[i].ref > 0
           /\ N(th[t], OpOf(calls[t]), i) > 0 /\ th[t].pc # "up" =>
                ~ino[i].gone /\ ino[i].itype \in {"file", "dir"}
           /\ ino[i].ref \in Nat /\ N(th[t], OpOf(calls[t]), i) \in Nat
  BY HeldCounts, CoreParts DEF Marks, KeptOK, B, Nodes, Node

LEMMA CallParts ==
    ASSUME CoreInv, NEW t \in Threads, calls[t] # <<>>
    PROVE  /\ Op(t).op = OpOf(calls[t]) /\ Op(t).old.name \in Fns /\ Op(t).new.name \in Fns
           /\ \A stg : Comps(t, stg) \in Seq(Fns)
  <1>2. Op(t) \in Call BY CoreParts DEF Op
  <1> QED BY <1>2, OpIs DEF Comps, Whole, Path, Call

\* What the provers have to know of t to follow it.
LEMMA Ready ==
    ASSUME CoreInv, NEW t \in Threads
    PROVE  /\ ino \in Nodes /\ th[t] \in Frame /\ th \in [Threads -> Frame]
           /\ LocalOK(th[t], calls[t]) /\ KindOK(ino, th[t], OpOf(calls[t]))
           /\ \A i \in th[t].dead : ino[i].gone
           /\ rlock \in Tids /\ Op(t).op = OpOf(calls[t])
           /\ \A i \in Inums : ino[i].ref \in Int
           /\ th[t].pc # "up" => \A i \in Inums : ino[i].gone => N(th[t], OpOf(calls[t]), i) = 0
  BY CoreParts, HasLive, OpIs DEF DeadOK, CoreInv, TypeInv, Nodes, Node

--------------------------------------------------------------------------------
(* namei *)
LEMMA RefNat ==
    ASSUME CoreInv
    PROVE  /\ ino \in Nodes /\ \A j \in Inums : ino[j].ref \in Nat /\ ino[j].links \in Int
           /\ ino[iroot].itype = "dir" /\ ino[iroot].links > 0 /\ ~ino[iroot].gone /\ iroot \in Inums
           /\ \A j \in Inums : ino[j].itype = "none" => ino[j].ref = 0
  <1>3. \A j \in Inums : Cardinality(RefsTo(j)) \in Nat
    <2> TAKE j \in Inums
    <2> DEFINE H == SpotsOf(th, calls, j)
    <2>2. RefsTo(j) = Pairs(H) BY RefsToIs DEF RefsAre
    <2> HIDE DEF H
    <2>3. IsFiniteSet(UNION {{u} \X H[u] : u \in Threads})
      BY SpotsFinite, PairsFinite DEF H, CoreInv, TypeInv, FramesInv, FrameOK
    <2> QED BY <2>2, <2>3, FS_CardinalityType DEF Pairs
  <1> QED BY <1>3, RootIno DEF Marks, RootOK, CoreInv, RefsHeld, Nodes, Node, TypeInv

LEMMA TouchSelf ==
    ASSUME CoreInv
    PROVE  Touches(ino)
  BY RefNat DEF Touches, SameNames, SameLinks

\* The references that a lookup takes.
LEMMA TouchUp ==
    ASSUME CoreInv, NEW i \in Inums, ino[i].itype # "none"
    PROVE  Touches(Refup(ino, i)) /\ \A j \in Inums : Refup(ino, i)[j].ref = ino[j].ref + B(j = i)
  <1> DEFINE x == Refup(ino, i)
  <1>1. ino \in Nodes /\ \A j \in Inums : ino[j].ref \in Nat BY RefNat
  <1>3. SameGone(ino, x) BY <1>1, RefupFields
  <1> HIDE DEF x
  <1>5. \A j \in Inums : x[j].gone <=> ino[j].gone BY <1>3, Zenon DEF SameGone
  <1> QED BY RefupFields, <1>1, <1>5 DEF x, Touches, B

LEMMA TouchLookup ==
    ASSUME CoreInv, NEW i \in Inums, NEW n \in Fns, Entry(ino, i, n) # Nil
    PROVE  /\ Touches(ilookup(ino, i, n)) /\ SameLock(ino, ilookup(ino, i, n)) /\ SameGone(ino, ilookup(ino, i, n))
           /\ \A j \in Inums : ilookup(ino, i, n)[j].ref = ino[j].ref + B(j = Entry(ino, i, n))
  <1> DEFINE x == ilookup(ino, i, n)
             c == Entry(ino, i, n)
  <1>4. SameGone(ino, x) BY RefNat, Named, ilookupFields
  <1> HIDE DEF x, c
  <1>6. \A j \in Inums : x[j].gone <=> ino[j].gone BY <1>4, Zenon DEF SameGone
  <1> QED BY ilookupFields, <1>4, Named, RefNat, <1>6 DEF x, c, Touches, B

\* A reference that was there is given back.
LEMMA TouchUnlock ==
    ASSUME NEW y, Touches(y), NEW i \in Inums
    PROVE  Touches(iunlock(y, i)) /\ SameRef(y, iunlock(y, i)) /\ SameGone(y, iunlock(y, i))
  <1> DEFINE x == iunlock(y, i)
  <1>2. x \in Nodes /\ SameNames(y, x) /\ SameLinks(y, x) /\ SameRef(y, x) BY iunlockFields DEF Touches
  <1>3. SameGone(y, x) BY iunlockFields DEF Touches
  <1> HIDE DEF x
  <1>6. \A j \in Inums : x[j].gone <=> y[j].gone BY <1>3, Zenon DEF SameGone
  <1> QED BY <1>2, <1>3, SameTrans, <1>6 DEF x, Touches, SameRef

LEMMA TouchLock ==
    ASSUME NEW y, Touches(y), NEW i \in Inums, NEW t \in Tids
    PROVE  Touches(ilock(y, i, t)) /\ SameRef(y, ilock(y, i, t)) /\ SameGone(y, ilock(y, i, t))
  <1> DEFINE x == ilock(y, i, t)
  <1>2. x \in Nodes /\ SameNames(y, x) /\ SameLinks(y, x) /\ SameRef(y, x) BY ilockFields DEF Touches
  <1>3. SameGone(y, x) BY ilockFields DEF Touches
  <1> HIDE DEF x
  <1>6. \A j \in Inums : x[j].gone <=> y[j].gone BY <1>3, Zenon DEF SameGone
  <1> QED BY <1>2, <1>3, SameTrans, <1>6 DEF x, Touches, SameRef

\* A reference that was there is given back.
LEMMA TouchDown ==
    ASSUME CoreInv, NEW y, Touches(y), NEW i \in Inums, y[i].ref >= 1, ino[i].ref >= 1
    PROVE  /\ Touches(Refdown(y, i)) /\ Touches(iunlock_refdown(y, i))
           /\ \A j \in Inums : Refdown(y, i)[j].ref = y[j].ref - B(j = i)
           /\ \A j \in Inums : iunlock_refdown(y, i)[j].ref = y[j].ref - B(j = i)
  <1> DEFINE x == Refdown(y, i)
  <1>1. y \in Nodes /\ \A j \in Inums : y[j].ref \in Int /\ ino[j].ref \in Nat BY RefNat DEF Touches, Nodes, Node
  <1>2. /\ x \in Nodes /\ SameNames(y, x) /\ SameLinks(y, x)
        /\ \A j \in Inums : x[j].ref = y[j].ref - B(j = i) BY <1>1, RefdownFields
  <1>3. \A j \in Inums : x[j].gone <=> y[j].gone \/ (j = i /\ LastRef(y, i)) BY <1>1, RefdownFields, Zenon
  <1> HIDE DEF x
  <1>5. \A j \in Inums : x[j].ref # ino[j].ref => ino[j].itype # "none"
    <2> SUFFICES ASSUME NEW j \in Inums, x[j].ref # ino[j].ref PROVE ino[j].itype # "none" OBVIOUS
    <2>1. CASE j = i BY <2>1, RefNat
    <2>2. CASE j # i BY <1>1, <1>2, <2>2 DEF Touches, B
    <2> QED BY <2>1, <2>2
  <1>6. ASSUME NEW j \in Inums
        PROVE  /\ ino[j].gone => x[j].gone
               /\ x[j].gone => ino[j].gone \/ (ino[j].links = 0 /\ x[j].ref = 0 /\ ino[j].itype # "none")
    <2>0. /\ ino[j].gone => y[j].gone
          /\ y[j].gone => ino[j].gone \/ (ino[j].links = 0 /\ y[j].ref = 0 /\ ino[j].itype # "none") BY DEF Touches
    <2>1. CASE j = i
      <3>3. LastRef(y, i) => ino[i].links = 0 /\ x[i].ref = 0 /\ ino[i].itype # "none"
        BY <1>1, <1>2, RefNat DEF LastRef, B, Touches, SameLinks
      <3>4. y[i].gone <=> ino[i].gone BY <1>1, <2>0, <2>1
      <3> QED BY <1>3, <2>1, <3>3, <3>4, Zenon
    <2>2. CASE j # i
      <3>1. x[j].ref = y[j].ref BY <1>1, <1>2, <2>2 DEF B
      <3>2. x[j].gone <=> y[j].gone BY <1>3, <2>2, Zenon
      <3> QED BY <2>0, <3>1, <3>2, Zenon
    <2> QED BY <2>1, <2>2
  <1> QED BY <1>2, SameTrans, <1>5, <1>6, TouchUnlock DEF x, iunlock_refdown, SameRef, Touches

\* A call that has an inode can give it back.
LEMMA HeldRef ==
    ASSUME CoreInv, NEW t \in Threads, NEW i \in Inums, N(th[t], OpOf(calls[t]), i) >= 1
    PROVE  ino[i].ref >= 1 /\ ino[i].itype # "none"
  BY HasLive

LEMMA WalkPend ==
    ASSUME NEW r, NEW q, NEW op, r.pc \in Walking, q.pc \in Walking, r.stg = q.stg, r.ochild = q.ochild
    PROVE  \A i \in Inums : PendOf(r, op, i) <=> PendOf(q, op, i)
  BY DEF PendOf

LEMMA IdleLocal ==
    ASSUME NEW r \in Frame, NEW cs, LocalOK(r, cs), r.pc = "idle"
    PROVE  /\ r.opar = Nil /\ r.ochild = Nil /\ r.npar = Nil /\ r.nchild = Nil /\ r.next = "idle"
           /\ r.stg = 1 /\ r.cur = Nil /\ r.defers = <<>> /\ r.refs = <<>> /\ r.dead = {} /\ r.tolock = {}
           /\ r.file # Nil => cs # <<>> /\ OpOf(cs) = "close"
           /\ cs # <<>> /\ OpOf(cs) # "close" => r.file = Nil
  <1>1. PICK f \in Inos : f = r.file BY DEF Frame
  <1>2. r = [Idle EXCEPT !.file = f] /\ (r.file # Nil => cs # <<>> /\ OpOf(cs) = "close") BY <1>1 DEF LocalOK
  <1> QED BY <1>2, IdleFrame

LEMMA BeginStep ==
    ASSUME CoreInv, NEW t \in Threads, Begin(t)
    PROVE  Quiet(t)
  <1>1. /\ ino \in Nodes /\ th[t] \in Frame /\ LocalOK(th[t], calls[t]) /\ \A i \in th[t].dead : ino[i].gone
        /\ rlock \in Tids /\ Op(t).op = OpOf(calls[t]) /\ \A i \in Inums : ino[i].ref \in Int BY Ready
  <1>2. th[t].pc = "idle" /\ calls[t] # <<>> /\ OpOf(calls[t]) # "close" BY <1>1 DEF Begin, At
  <1>3. PICK c \in Seq(Fns) : c = Comps(t, 1) BY <1>2, CallParts
  <1>4. PICK r : r = [[th[t] EXCEPT !.stg = 1, !.cur = iroot, !.rest = c] EXCEPT !.pc = "namei"] OBVIOUS
  <1>5. /\ ino' = Refup(ino, iroot) /\ th' = [th EXCEPT ![t] = r] /\ rlock' = rlock /\ calls' = calls /\ fatal' = fatal
    BY <1>3, <1>4 DEF Begin, EnterNamei, Goto
  <1>6. /\ th[t].file = Nil /\ th[t].opar = Nil /\ th[t].ochild = Nil /\ th[t].npar = Nil /\ th[t].nchild = Nil
        /\ th[t].next = "idle" BY <1>1, <1>2, IdleLocal
  <1>7. /\ r \in Frame /\ r.pc = "namei" /\ r.stg = 1 /\ r.cur = iroot /\ r.file = Nil /\ r.opar = Nil
        /\ r.ochild = Nil /\ r.npar = Nil /\ r.nchild = Nil /\ r.next = "idle" /\ r.dead = th[t].dead
    <2>1. iroot \in Inos BY RootIno DEF Inos
    <2> QED BY <1>1, <1>3, <1>4, <1>6, <2>1 DEF Frame, Places
  <1>8. LocalOK(r, calls[t]) BY <1>1, <1>2, <1>7, RootIno DEF LocalOK, Walking
  <1>9. KindOK(ino, r, OpOf(calls[t])) BY <1>7, RefNat DEF KindOK
  <1>10. Touches(Refup(ino, iroot)) /\ \A j \in Inums : Refup(ino, iroot)[j].ref = ino[j].ref + B(j = iroot)
    BY TouchUp, RefNat
  <1>x. PICK x : x = Refup(ino, iroot) OBVIOUS
  <1>11. \A i \in Inums : N(r, OpOf(calls[t]), i) = N(th[t], OpOf(calls[t]), i) + (x[i].ref - ino[i].ref)
    <2> TAKE i \in Inums
    <2> QED BY <1>1, <1>6, <1>7, <1>8, HeldWalking, <1>2, BodyCount, <1>10, <1>x, RootIno DEF B
  <1>12. \A i \in Inums : ino[i].gone => N(r, OpOf(calls[t]), i) <= B(r.pc = "up" /\ r.cur = i)
    <2> SUFFICES ASSUME NEW i \in Inums, ino[i].gone PROVE N(r, OpOf(calls[t]), i) <= B(r.pc = "up" /\ r.cur = i)
      OBVIOUS
    <2> QED BY <1>7, <1>8, HeldWalking, RootIno, RefNat DEF B
  <1>13. \A i \in Inums : PendOf(r, OpOf(calls[t]), i) <=> PendOf(th[t], OpOf(calls[t]), i)
    BY <1>2, <1>7 DEF PendOf, Walking
  <1>14. \A i \in r.dead : x[i].gone BY <1>1, <1>7, <1>x, <1>10 DEF Touches, Frame
  <1> QED BY <1>1, <1>5, <1>7, <1>8, <1>9, <1>10, <1>x, <1>11, <1>12, <1>13, <1>14, QuietGoto

LEMMA WalkStep ==
    ASSUME CoreInv, NEW t \in Threads, th[t].pc \in Walking, NEW r \in Frame, r.pc \in Walking, r.cur # Nil,
           r.stg = th[t].stg, r.opar = th[t].opar, r.ochild = th[t].ochild, r.npar = th[t].npar,
           r.nchild = th[t].nchild, r.next = th[t].next, r.file = th[t].file, r.dead = th[t].dead,
           NEW x, Touches(x), ino' = x, th' = [th EXCEPT ![t] = r],
           rlock' = rlock, calls' = calls, fatal' = fatal,
           r.pc \in {"namei", "verify"} => ino[r.cur].itype # "none",
           \A i \in Inums : x[i].ref = ino[i].ref + B(i = Hand(r)) - B(i = Hand(th[t])),
           Hand(r) \in Inums => ~ino[Hand(r)].gone
    PROVE  Quiet(t) /\ th'[t] = r
  <1>1. /\ ino \in Nodes /\ th[t] \in Frame /\ LocalOK(th[t], calls[t]) /\ KindOK(ino, th[t], OpOf(calls[t]))
        /\ \A i \in th[t].dead : ino[i].gone
        /\ rlock \in Tids /\ \A i \in Inums : ino[i].ref \in Int BY Ready
  <1>2. LocalOK(r, calls[t]) BY <1>1 DEF LocalOK, Walking
  <1>3. KindOK(ino, r, OpOf(calls[t])) BY <1>1, <1>2 DEF KindOK, Walking, LocalOK
  <1>4. ASSUME NEW i \in Inums
        PROVE  /\ N(r, OpOf(calls[t]), i) = N(th[t], OpOf(calls[t]), i) + (x[i].ref - ino[i].ref)
               /\ N(r, OpOf(calls[t]), i) = B(Hand(r) = i) + B(r.opar = i) + B(r.ochild = i)
               /\ N(th[t], OpOf(calls[t]), i) = B(Hand(th[t]) = i) + B(r.opar = i) + B(r.ochild = i)
    <2> QED BY <1>2, HeldWalking, <1>1 DEF B, Walking, Hand
  <1>5. \A i \in Inums : ino[i].gone => N(r, OpOf(calls[t]), i) <= B(r.pc = "up" /\ r.cur = i)
    <2> SUFFICES ASSUME NEW i \in Inums, ino[i].gone PROVE N(r, OpOf(calls[t]), i) <= B(r.pc = "up" /\ r.cur = i)
      OBVIOUS
    <2> QED BY Ready, <1>4 DEF B, Walking
  <1>7. \A i \in r.dead : x[i].gone BY <1>1 DEF Touches, Frame
  <1>8. \A i \in Inums : N(r, OpOf(calls[t]), i) = N(th[t], OpOf(calls[t]), i) + (x[i].ref - ino[i].ref) BY <1>4
  <1> QED BY <1>2, <1>3, <1>5, WalkPend, <1>7, <1>8, <1>1, QuietGoto

LEMMA WalkFacts ==
    ASSUME CoreInv, NEW t \in Threads, th[t].pc \in Walking
    PROVE  /\ th[t] \in Frame /\ th[t].cur \in Inums /\ Hand(th[t]) \in Inums
           /\ ino[Hand(th[t])].ref >= 1 /\ ~ino[Hand(th[t])].gone /\ ino[Hand(th[t])].itype \in {"file", "dir"}
           /\ ino[th[t].cur].itype # "none" /\ th[t].rest \in Seq(Fns)
           /\ calls[t] # <<>> /\ OpOf(calls[t]) # "close" /\ th[t].next = "idle"
  <1>2. /\ th[t].cur \in Inums /\ calls[t] # <<>> /\ OpOf(calls[t]) # "close" /\ th[t].rest \in Seq(Fns)
        /\ th[t].next = "idle" BY Ready DEF LocalOK, Frame, Inos, Walking
  <1> QED BY Ready, <1>2, RootIno, HeldWalking, HasLive DEF KindOK, Hand, Walking, B

LEMMA NameiFastStep ==
    ASSUME CoreInv, NEW t \in Threads, NameiFast(t)
    PROVE  Quiet(t)
  <1>0. th[t].pc = "namei" /\ th[t].pc \in Walking /\ th[t].rest # <<>> BY DEF NameiFast, At, Walking
  <1>1. th[t] \in Frame /\ th[t].cur \in Inums /\ th[t].rest \in Seq(Fns) BY <1>0, WalkFacts
  <1>2. Head(th[t].rest) \in Fns /\ Tail(th[t].rest) \in Seq(Fns) BY <1>0, <1>1
  <1>3. PICK n : n = Entry(ino, th[t].cur, Head(th[t].rest)) /\ n # Nil BY DEF NameiFast
  <1>4. n \in Inums /\ ~ino[n].gone /\ ino[n].itype # "none" /\ n \in Inos /\ n # Nil
    BY <1>1, <1>2, <1>3, Named DEF Inos
  <1>5. PICK pc \in {"verify", "namei"} : pc = IF Len(th[t].rest) = 1 THEN "verify" ELSE "namei" OBVIOUS
  <1>6. PICK r : r = [[th[t] EXCEPT !.cur = n, !.rest = Tail(@)] EXCEPT !.pc = pc] OBVIOUS
  <1>7. th' = [th EXCEPT ![t] = r] /\ ino' = ino /\ rlock' = rlock /\ calls' = calls /\ fatal' = fatal
    BY <1>3, <1>5, <1>6 DEF NameiFast, Goto
  <1>8. /\ r \in Frame /\ r.pc = pc /\ r.cur = n /\ r.stg = th[t].stg /\ r.opar = th[t].opar /\ r.ochild = th[t].ochild
        /\ r.npar = th[t].npar /\ r.nchild = th[t].nchild /\ r.next = th[t].next /\ r.file = th[t].file
        /\ r.dead = th[t].dead BY <1>1, <1>2, <1>4, <1>5, <1>6 DEF Frame, Places
  <1>10. \A i \in Inums : ino[i].ref = ino[i].ref + B(i = Hand(r)) - B(i = Hand(th[t]))
    BY <1>0, <1>5, <1>8, RefNat DEF B, Hand, Walking
  <1> QED BY <1>0, <1>4, <1>7, <1>8, <1>5, <1>10, TouchSelf, RefNat, WalkStep DEF Hand, Walking

\* The walk starts again.
LEMMA WalkAgain ==
    ASSUME CoreInv, NEW t \in Threads, th[t].pc \in {"namei", "verify"},
           Goto(t, [th[t] EXCEPT !.cur = iroot, !.rest = Comps(t, th[t].stg)], "slow"),
           UNCHANGED <<ino, rlock, calls, fatal>>
    PROVE  Quiet(t)
  <1>1. th[t] \in Frame /\ calls[t] # <<>> BY WalkFacts DEF Walking
  <1>2. PICK c \in Seq(Fns) : c = Comps(t, th[t].stg) BY <1>1, CallParts
  <1>6. PICK r : r = [[th[t] EXCEPT !.cur = iroot, !.rest = c] EXCEPT !.pc = "slow"] OBVIOUS
  <1>7. th' = [th EXCEPT ![t] = r] /\ ino' = ino /\ rlock' = rlock /\ calls' = calls /\ fatal' = fatal
    BY <1>2, <1>6 DEF Goto
  <1>8. /\ r \in Frame /\ r.pc = "slow" /\ r.cur = iroot /\ r.stg = th[t].stg /\ r.opar = th[t].opar /\ r.ochild = th[t].ochild
        /\ r.npar = th[t].npar /\ r.nchild = th[t].nchild /\ r.next = th[t].next /\ r.file = th[t].file
        /\ r.dead = th[t].dead BY <1>1, <1>2, <1>6, RootIno DEF Frame, Places, Inos
  <1>10. \A i \in Inums : ino[i].ref = ino[i].ref + B(i = Hand(r)) - B(i = Hand(th[t]))
    BY <1>8, RefNat DEF B, Hand, Walking
  <1> QED BY <1>7, <1>8, <1>10, TouchSelf, RefNat, RootIno, WalkStep DEF Walking, Hand

LEMMA NameiMissStep ==
    ASSUME CoreInv, NEW t \in Threads, NameiMiss(t)
    PROVE  Quiet(t)
  BY WalkAgain DEF NameiMiss, At

LEMMA NameiVerifyStep ==
    ASSUME CoreInv, NEW t \in Threads, NameiVerify(t)
    PROVE  Quiet(t)
  <1>1. /\ th[t] \in Frame /\ th[t].cur \in Inums /\ ino[th[t].cur].itype # "none" /\ Hand(th[t]) = iroot
        /\ ino[iroot].ref >= 1 /\ iroot \in Inums BY WalkFacts, RootIno DEF Hand, NameiVerify, At, Walking
  <1>2. CASE ~Verified(th[t].cur) BY <1>2, WalkAgain DEF NameiVerify, At, Walking
  <1>3. CASE Verified(th[t].cur)
    <2> DEFINE i == th[t].cur
    <2>1. PICK u : u = Refup(ino, i) OBVIOUS
    <2>2. PICK y : y = ilock(u, i, t) OBVIOUS
    <2>3. PICK x : x = Refdown(y, iroot) OBVIOUS
    <2>4. PICK r : r = [th[t] EXCEPT !.pc = "got"] OBVIOUS
    <2>5. ino' = x /\ th' = [th EXCEPT ![t] = r] /\ rlock' = rlock /\ calls' = calls /\ fatal' = fatal
      BY <1>3, <2>1, <2>2, <2>3, <2>4 DEF NameiVerify, Goto
    <2>7. Touches(y) /\ \A j \in Inums : y[j].ref = u[j].ref BY <1>1, <2>2, <2>1, TouchUp, TouchLock DEF SameRef, Tids
    <2>9. Touches(x) /\ \A j \in Inums : x[j].ref = y[j].ref - B(j = iroot)
      BY <1>1, <2>3, <2>7, <2>1, TouchUp, RefNat, TouchDown DEF B
    <2>10. /\ r \in Frame /\ r.pc = "got" /\ r.cur = i /\ r.stg = th[t].stg /\ r.opar = th[t].opar /\ r.ochild = th[t].ochild
           /\ r.npar = th[t].npar /\ r.nchild = th[t].nchild /\ r.next = th[t].next /\ r.file = th[t].file
           /\ r.dead = th[t].dead BY <1>1, <2>4 DEF Frame, Places
    <2>11. Hand(r) = i /\ r.pc \in Walking /\ ~ino[i].gone BY <1>3, <2>10 DEF Hand, Walking, Verified
    <2>12. \A j \in Inums : x[j].ref = ino[j].ref + B(j = Hand(r)) - B(j = Hand(th[t]))
      BY <1>1, <2>1, TouchUp, <2>7, <2>9, <2>11, RefNat DEF B
    <2>13. r.cur # Nil /\ (r.pc \in {"namei", "verify"} => ino[r.cur].itype # "none") /\ ~ino[Hand(r)].gone
      BY <1>1, <2>10, <2>11, RootIno
    <2> QED BY <2>5, <2>9, <2>10, <2>11, <2>12, <2>13, WalkStep DEF NameiVerify, At, Walking
  <1> QED BY <1>2, <1>3

LEMMA NameiLockStep ==
    ASSUME CoreInv, NEW t \in Threads, NameiLock(t)
    PROVE  Quiet(t)
  <1>1. th[t] \in Frame /\ th[t].cur \in Inums /\ Hand(th[t]) = th[t].cur /\ ~ino[th[t].cur].gone
    BY WalkFacts DEF Hand, NameiLock, At, Walking
  <1>2. PICK x : x = ilock(ino, th[t].cur, t) OBVIOUS
  <1>3. PICK r : r = [th[t] EXCEPT !.pc = "got"] OBVIOUS
  <1>4. ino' = x /\ th' = [th EXCEPT ![t] = r] /\ rlock' = rlock /\ calls' = calls /\ fatal' = fatal
    BY <1>2, <1>3 DEF NameiLock, Goto
  <1>5. Touches(x) /\ \A j \in Inums : x[j].ref = ino[j].ref BY <1>1, <1>2, TouchSelf, TouchLock DEF SameRef, Tids
  <1>6. /\ r \in Frame /\ r.pc = "got" /\ r.cur = th[t].cur /\ r.stg = th[t].stg /\ r.opar = th[t].opar /\ r.ochild = th[t].ochild
        /\ r.npar = th[t].npar /\ r.nchild = th[t].nchild /\ r.next = th[t].next /\ r.file = th[t].file
        /\ r.dead = th[t].dead BY <1>1, <1>3 DEF Frame, Places
  <1>8. \A j \in Inums : x[j].ref = ino[j].ref + B(j = Hand(r)) - B(j = Hand(th[t]))
    BY <1>1, <1>5, <1>6, RefNat DEF B, Hand, Walking
  <1>9. r.cur # Nil /\ (r.pc \in {"namei", "verify"} => ino[r.cur].itype # "none") /\ ~ino[Hand(r)].gone
    BY <1>1, <1>6, RootIno DEF Hand, Walking
  <1> QED BY <1>4, <1>5, <1>6, <1>8, <1>9, WalkStep DEF NameiLock, At, Walking, Hand

\* The inodes of a step that are in the list of dead ones are gone.
LEMMA DeadGone ==
    ASSUME NEW s, NEW S \in SUBSET Inums
    PROVE  Dead(s, S) \in SUBSET Inums /\ \A i \in Dead(s, S) : s[i].gone
  BY DEF Dead

LEMMA FewSeqs ==
    \A a, b, c \in Inums : <<a>> \in Seq(Inums) /\ <<a, b>> \in Seq(Inums) /\ <<a, b, c>> \in Seq(Inums)
  OBVIOUS

\* A walk that fails: the reference to its inode is given back.
LEMMA WalkEnd ==
    ASSUME CoreInv, NEW t \in Threads, th[t].pc \in Walking, th[t].stg = 1,
           NEW s, Touches(s), \A i \in Inums : s[i].ref = ino[i].ref - B(i = Hand(th[t])),
           NEW dead \in SUBSET Inums, \A i \in dead : s[i].gone, Return(t, s, dead)
    PROVE  Quiet(t) /\ th'[t] = [Idle EXCEPT !.file = Nil] /\ calls'[t] = Tail(calls[t])
  <1>2. th[t].file = Nil /\ th[t].opar = Nil /\ th[t].ochild = Nil /\ calls[t] # <<>> BY Ready DEF LocalOK, Walking
  <1>4. ASSUME NEW i \in Inums PROVE B(Nil = i) = N(th[t], OpOf(calls[t]), i) + (s[i].ref - ino[i].ref)
    BY <1>2, Ready, HeldWalking, RootIno, RefNat DEF B, Walking, Hand
  <1> QED BY Ready, <1>2, <1>4, QuietFinish DEF MayFinish, Return, PendOf, Inos

LEMMA NameiFailedStep ==
    ASSUME CoreInv, NEW t \in Threads, th[t].pc = "slow",
           NEW s, Touches(s), \A i \in Inums : s[i].ref = ino[i].ref - B(i = th[t].cur),
           NEW dead \in SUBSET Inums, \A i \in dead : s[i].gone, NameiFailed(t, s, dead)
    PROVE  Quiet(t)
  <1>0. th[t].pc \in Walking /\ Hand(th[t]) = th[t].cur BY DEF Walking, Hand
  <1>1. /\ th[t] \in Frame /\ LocalOK(th[t], calls[t]) /\ KindOK(ino, th[t], OpOf(calls[t])) /\ rlock \in Tids
        /\ Op(t).op = OpOf(calls[t])
        /\ \A i \in Inums : ino[i].gone => N(th[t], OpOf(calls[t]), i) = 0 BY Ready
  <1>2. /\ th[t].file = Nil /\ calls[t] # <<>> /\ OpOf(calls[t]) # "close" /\ th[t].stg \in {1, 2}
        /\ th[t].npar = Nil /\ th[t].next = "idle" /\ th[t].nchild = Nil /\ th[t].ochild \in Inos /\ th[t].opar \in Inos
        /\ th[t].cur # Nil BY <1>1, <1>0 DEF LocalOK, Walking, Frame
  <1>4. CASE th[t].stg = 1 BY <1>0, <1>4, WalkEnd DEF NameiFailed
  <1>5. CASE th[t].stg = 2 /\ OpOf(calls[t]) = "rename"
    <2>2. PICK rs \in Seq(Inums) : rs = <<th[t].opar, th[t].ochild>> BY <1>1, <1>2, <1>5, FewSeqs DEF LocalOK, Inos
    <2>3. PICK r : r = [[th[t] EXCEPT !.dead = dead, !.refs = rs] EXCEPT !.pc = "refdown"] OBVIOUS
    <2>4. ino' = s /\ th' = [th EXCEPT ![t] = r] /\ rlock' = rlock /\ calls' = calls /\ fatal' = fatal
      BY <1>1, <1>5, <2>2, <2>3 DEF NameiFailed, Goto
    <2>5. /\ r \in Frame /\ r.pc = "refdown" /\ r.dead = dead /\ r.refs = rs /\ r.stg = 2 /\ r.opar = th[t].opar
          /\ r.ochild = th[t].ochild /\ r.npar = th[t].npar /\ r.next = "idle" /\ r.file = Nil
      BY <1>1, <1>2, <1>5, <2>2, <2>3 DEF Frame, Places
    <2>8. ASSUME NEW i \in Inums
          PROVE  /\ N(r, OpOf(calls[t]), i) = N(th[t], OpOf(calls[t]), i) + (s[i].ref - ino[i].ref)
                 /\ ino[i].gone => N(r, OpOf(calls[t]), i) <= B(r.pc = "up" /\ r.cur = i)
      <3>1. N(r, OpOf(calls[t]), i) = Cnt(r.refs, i) + A3(r, i)
        BY <2>5, <1>1, <1>2, <1>5, RootIno, HeldRename DEF LocalOK, Walking, Inos
      <3>2. Cnt(r.refs, i) = B(th[t].opar = i) + B(th[t].ochild = i)
        <4>0. PICK a, b : a = th[t].opar /\ b = th[t].ochild OBVIOUS
        <4> QED BY <2>2, <2>5, <4>0, CntTwo
      <3>3. N(th[t], OpOf(calls[t]), i) = B(th[t].cur = i) + B(th[t].opar = i) + B(th[t].ochild = i)
        BY <1>1, HeldWalking
      <3> QED BY <1>1, <2>5, <3>1, <3>2, <3>3, RefNat DEF B, A3
    <2> QED BY <1>1, <2>4, <2>5, <1>2, RootIno, <2>8, <1>5, QuietGoto DEF KindOK, Walking, PendOf, LocalOK, Inos
  <1>6. CASE th[t].stg = 2 /\ OpOf(calls[t]) # "rename"
    <2>1. th[t].ochild \in Inums /\ OpOf(calls[t]) = "link" /\ th[t].opar = Nil BY <1>1, <1>2, <1>6 DEF LocalOK, Inos
    <2>3. PICK r : r = [[th[t] EXCEPT !.dead = dead] EXCEPT !.pc = "undo"] OBVIOUS
    <2>4. ino' = s /\ th' = [th EXCEPT ![t] = r] /\ rlock' = rlock /\ calls' = calls /\ fatal' = fatal
      BY <1>1, <1>6, <2>3 DEF NameiFailed, Goto
    <2>5. /\ r \in Frame /\ r.pc = "undo" /\ r.dead = dead /\ r.stg = 2 /\ r.opar = Nil
          /\ r.ochild = th[t].ochild /\ r.npar = th[t].npar /\ r.next = "idle" /\ r.file = Nil
      BY <1>1, <1>2, <1>6, <2>1, <2>3 DEF Frame, Places
    <2>6. LocalOK(r, calls[t]) BY <1>1, <1>2, <1>6, <2>1, <2>5, RootIno DEF LocalOK, Walking
    <2>7. KindOK(ino, r, OpOf(calls[t])) BY <1>0, <1>1, <1>6, <2>1, <2>5 DEF KindOK
    <2>8. ASSUME NEW i \in Inums
          PROVE  /\ N(r, OpOf(calls[t]), i) = N(th[t], OpOf(calls[t]), i) + (s[i].ref - ino[i].ref)
                 /\ ino[i].gone => N(r, OpOf(calls[t]), i) <= B(r.pc = "up" /\ r.cur = i)
      BY <1>1, <2>1, <2>5, <2>6, HeldChild, HeldWalking, RefNat, RootIno DEF B
    <2>9. \A i \in Inums : PendOf(r, OpOf(calls[t]), i) <=> PendOf(th[t], OpOf(calls[t]), i)
      BY <1>0, <1>6, <2>1, <2>5 DEF PendOf
    <2> QED BY <1>1, <2>4, <2>5, <2>6, <2>7, <2>8, <2>9, QuietGoto
  <1> QED BY <1>2, <1>4, <1>5, <1>6

LEMMA NameiSlowStep ==
    ASSUME CoreInv, NEW t \in Threads, NameiSlow(t)
    PROVE  Quiet(t)
  <1>0. th[t].pc = "slow" /\ th[t].pc \in Walking /\ th[t].rest # <<>> BY DEF NameiSlow, At, Walking
  <1>1. /\ th[t] \in Frame /\ th[t].cur \in Inums /\ Hand(th[t]) = th[t].cur /\ ~ino[th[t].cur].gone
        /\ ino[th[t].cur].ref >= 1 /\ th[t].rest \in Seq(Fns) BY <1>0, WalkFacts DEF Hand
  <1>2. PICK m \in Fns : m = Head(th[t].rest) BY <1>0, <1>1
  <1>3. Tail(th[t].rest) \in Seq(Fns) BY <1>0, <1>1
  <1>4. PICK n : n = IF ino[th[t].cur].links = 0 THEN Nil ELSE Entry(ino, th[t].cur, m) OBVIOUS
  <1>5. PICK y : y = IF n = Nil THEN ino ELSE ilookup(ino, th[t].cur, m) OBVIOUS
  <1>6. PICK s : s = Refdown(y, th[t].cur) OBVIOUS
  <1>7. \/ /\ n # Nil /\ ino' = s /\ Goto(t, [th[t] EXCEPT !.cur = n, !.rest = Tail(@)], "slow")
           /\ UNCHANGED <<rlock, calls, fatal>>
        \/ n = Nil /\ NameiFailed(t, s, Dead(s, {th[t].cur})) BY <1>2, <1>4, <1>5, <1>6 DEF NameiSlow
  <1>8. CASE n = Nil BY <1>0, <1>7, <1>8, <1>5, <1>6, TouchSelf, TouchDown, <1>1, DeadGone, NameiFailedStep
  <1>9. CASE n # Nil
    <2>2. Touches(y) /\ \A j \in Inums : y[j].ref = ino[j].ref + B(j = n)
      BY <1>1, <1>5, <1>9, <1>4, Named, TouchLookup
    <2>4. Touches(s) /\ \A j \in Inums : s[j].ref = y[j].ref - B(j = th[t].cur)
      BY <1>1, <1>6, <2>2, RefNat, TouchDown DEF B
    <2>5. PICK r : r = [[th[t] EXCEPT !.cur = n, !.rest = Tail(@)] EXCEPT !.pc = "slow"] OBVIOUS
    <2>7. n \in Inos BY <1>1, <1>4, <1>9, Named DEF Inos
    <2>8. /\ r \in Frame /\ r.pc = "slow" /\ r.cur = n /\ r.stg = th[t].stg /\ r.opar = th[t].opar /\ r.ochild = th[t].ochild
          /\ r.npar = th[t].npar /\ r.nchild = th[t].nchild /\ r.next = th[t].next /\ r.file = th[t].file
          /\ r.dead = th[t].dead BY <1>1, <1>3, <2>5, <2>7 DEF Frame, Places
    <2>9. Hand(r) = n /\ r.pc \in Walking BY <2>8 DEF Hand, Walking
    <2>10. \A j \in Inums : s[j].ref = ino[j].ref + B(j = Hand(r)) - B(j = Hand(th[t]))
      BY <1>1, <2>2, <2>4, <2>9, RefNat DEF B
    <2>11. r.cur # Nil /\ (r.pc \in {"namei", "verify"} => ino[r.cur].itype # "none") /\ ~ino[Hand(r)].gone
      BY <1>9, <1>1, <1>4, Named, <2>8, <2>9
    <2> QED BY <1>0, <2>4, <1>7, <1>9, <2>5, <2>8, <2>9, <2>10, <2>11, WalkStep DEF Goto
  <1> QED BY <1>8, <1>9

--------------------------------------------------------------------------------
(* open and close *)
\* The locked end of a walk.
LEMMA GotFacts ==
    ASSUME CoreInv, NEW t \in Threads, th[t].pc = "got"
    PROVE  /\ th[t] \in Frame /\ LocalOK(th[t], calls[t]) /\ KindOK(ino, th[t], OpOf(calls[t]))
           /\ th[t].pc \in Walking /\ Hand(th[t]) = th[t].cur
           /\ th[t].cur \in Inums /\ ino[th[t].cur].ref >= 1 /\ ~ino[th[t].cur].gone
           /\ ino[th[t].cur].itype \in {"file", "dir"} /\ th[t].cur \in Inos /\ th[t].cur # Nil
           /\ calls[t] # <<>> /\ OpOf(calls[t]) # "close" /\ Op(t).op = OpOf(calls[t])
           /\ th[t].file = Nil /\ th[t].npar = Nil /\ th[t].nchild = Nil /\ th[t].next = "idle"
           /\ th[t].stg = 1 => th[t].opar = Nil /\ th[t].ochild = Nil
           /\ OpOf(calls[t]) \notin {"rename", "link"} => th[t].stg = 1
           /\ th[t].stg \in {1, 2} /\ rlock \in Tids
           /\ Op(t).old.name \in Fns /\ Op(t).new.name \in Fns
           /\ \A i \in Inums : N(th[t], OpOf(calls[t]), i) = B(th[t].cur = i) + B(th[t].opar = i) + B(th[t].ochild = i)
           /\ \A i \in Inums : ino[i].gone => N(th[t], OpOf(calls[t]), i) = 0
           /\ \A i \in th[t].dead : ino[i].gone
  <1>6. \A i \in Inums : N(th[t], OpOf(calls[t]), i) = B(th[t].cur = i) + B(th[t].opar = i) + B(th[t].ochild = i)
    BY WalkFacts, Ready, HeldWalking DEF Walking, Hand
  <1> QED BY WalkFacts, Ready, CallParts, <1>6, RootIno DEF LocalOK, Frame, Inos, Walking, Hand

LEMMA OpenedStep ==
    ASSUME CoreInv, NEW t \in Threads, NEW i \in Inums, Opened(t, i), calls[t] # <<>>,
           OpOf(calls[t]) \in {"create", "open"}, ~ino[i].gone,
           \A j \in Inums : N(th[t], OpOf(calls[t]), j) = B(i = j),
           \A j \in Inums : ~PendOf(th[t], OpOf(calls[t]), j)
    PROVE  Quiet(t) /\ th'[t] = [Idle EXCEPT !.file = i] /\ calls'[t] = Tail(calls[t])
  <1>1. PICK s : s = iunlock(ino, i) OBVIOUS
  <1>3. Touches(s) /\ \A j \in Inums : s[j].ref = ino[j].ref BY <1>1, TouchSelf, TouchUnlock DEF SameRef
  <1> QED BY Ready, <1>1, <1>3, RefNat, QuietFinish DEF MayFinish, Opened, B, Inos

LEMMA OpenStep ==
    ASSUME CoreInv, NEW t \in Threads, Open(t)
    PROVE  Quiet(t)
  <1>1. th[t].pc = "got" /\ Opened(t, th[t].cur) BY DEF Open, AtOp, At
  <1>2. OpOf(calls[t]) = "open" BY <1>1, GotFacts DEF Open, AtOp
  <1>3. th[t].stg = 1 /\ th[t].opar = Nil /\ th[t].ochild = Nil BY <1>1, <1>2, GotFacts
  <1>4. \A j \in Inums : N(th[t], OpOf(calls[t]), j) = B(th[t].cur = j)
    <2> TAKE j \in Inums
    <2> QED BY <1>3, <1>1, GotFacts, RootIno DEF B
  <1> QED BY <1>1, <1>2, <1>4, <1>3, GotFacts, OpenedStep DEF PendOf

LEMMA CreateQuiet ==
    ASSUME CoreInv, NEW t \in Threads, Create(t),
           Entry(ino, th[t].cur, Op(t).old.name) # Nil \/ ~IsDir(ino, th[t].cur) \/ ~CanAlloc
    PROVE  Quiet(t)
  <1>1. th[t].pc = "got" BY DEF Create, AtOp, At
  <1>2. OpOf(calls[t]) = "create" BY <1>1, GotFacts DEF Create, AtOp
  <1>3. th[t].stg = 1 /\ th[t].opar = Nil /\ th[t].ochild = Nil /\ th[t].cur \in Inums BY <1>1, <1>2, GotFacts
  <1>4. PICK c : c = Entry(ino, th[t].cur, Op(t).old.name) OBVIOUS
  <1>5. PICK n \in Fns : n = Op(t).old.name BY <1>1, GotFacts
  <1>6. CASE c = Nil
    <2>1. PICK s : s = iunlock_refdown(ino, th[t].cur) OBVIOUS
    <2> QED BY <1>3, <1>4, <1>6, <2>1, <1>1, GotFacts, TouchSelf, TouchDown, WalkEnd DEF Create
  <1>7. CASE c # Nil
    <2>0. c \in Inums /\ ~ino[c].gone /\ c \in Inos BY <1>3, <1>4, <1>5, <1>7, Named DEF Inos
    <2>1. PICK y : y = ilookup(ino, th[t].cur, n) OBVIOUS
    <2>2. PICK x : x = iunlock_refdown(y, th[t].cur) OBVIOUS
    <2>3. PICK k \in BOOLEAN : k = (c = Nil) OBVIOUS
    <2>4. PICK r : r = [[th[t] EXCEPT !.ochild = c, !.chk = k] EXCEPT !.pc = "child"] OBVIOUS
    <2>5. ino' = x /\ th' = [th EXCEPT ![t] = r] /\ rlock' = rlock /\ calls' = calls /\ fatal' = fatal
      BY <1>4, <1>5, <1>7, <2>1, <2>2, <2>3, <2>4 DEF Create, Goto
    <2>6. Touches(y) /\ \A j \in Inums : y[j].ref = ino[j].ref + B(j = c) BY <1>3, <1>4, <1>5, <1>7, <2>1, TouchLookup
    <2>8. Touches(x) /\ \A j \in Inums : x[j].ref = y[j].ref - B(j = th[t].cur)
      BY <1>3, <2>2, <2>6, <1>1, GotFacts, RefNat, TouchDown DEF B
    <2>9. th[t] \in Frame /\ LocalOK(th[t], calls[t]) /\ th[t].file = Nil /\ th[t].next = "idle" /\ th[t].cur # Nil /\ calls[t] # <<>>
      BY <1>1, GotFacts
    <2>10. /\ r \in Frame /\ r.pc = "child" /\ r.ochild = c /\ r.stg = 1 /\ r.cur = th[t].cur /\ r.opar = Nil
           /\ r.next = "idle" /\ r.file = Nil /\ r.dead = th[t].dead BY <1>3, <2>0, <2>3, <2>4, <2>9 DEF Frame, Places
    <2>11. LocalOK(r, calls[t]) BY <1>2, <1>7, <2>9, <2>10 DEF LocalOK, Walking
    <2>13. ASSUME NEW i \in Inums
           PROVE  /\ N(r, OpOf(calls[t]), i) = N(th[t], OpOf(calls[t]), i) + (x[i].ref - ino[i].ref)
                  /\ ino[i].gone => N(r, OpOf(calls[t]), i) <= B(r.pc = "up" /\ r.cur = i)
      <3>2. N(th[t], OpOf(calls[t]), i) = B(th[t].cur = i) + B(th[t].opar = i) + B(th[t].ochild = i) BY <1>1, GotFacts
      <3> QED BY <1>3, <2>0, <2>6, <2>8, <1>2, <2>10, <2>11, HeldChild, <3>2, RefNat, RootIno DEF B
    <2>14. \A i \in Inums : PendOf(r, OpOf(calls[t]), i) <=> PendOf(th[t], OpOf(calls[t]), i) BY <1>2 DEF PendOf
    <2>15. rlock' \in Tids /\ \A i \in r.dead : x[i].gone
      BY <1>1, <2>5, <2>8, <2>9, <2>10, GotFacts DEF Touches, Frame
    <2> QED BY <2>5, <2>8, <2>10, <2>11, <1>2, <2>13, <2>14, <2>15, QuietGoto DEF KindOK, Walking
  <1> QED BY <1>6, <1>7

LEMMA CreateOpenStep ==
    ASSUME CoreInv, NEW t \in Threads, CreateOpen(t)
    PROVE  Quiet(t)
  <1>1. th[t].pc = "child" /\ OpOf(calls[t]) = "create" BY OpIs DEF CreateOpen, AtOp, At
  <1>3. th[t].ochild \in Inums /\ calls[t] # <<>> /\ th[t].stg = 1 /\ th[t].file = Nil
    BY <1>1, Ready DEF LocalOK, Frame, Inos
  <1>4. PICK c \in Inums : c = th[t].ochild BY <1>3
  <1>5. \A i \in Inums : N(th[t], OpOf(calls[t]), i) = B(c = i)
    <2> TAKE i \in Inums
    <2> QED BY <1>4, <1>1, Ready, HeldChild
  <1>6. ino[c].ref >= 1 /\ ~ino[c].gone BY <1>1, <1>5, HasLive DEF B
  <1>7. \A i \in Inums : ~PendOf(th[t], OpOf(calls[t]), i) BY <1>1 DEF PendOf
  <1>8. CASE Opened(t, c) BY <1>1, <1>3, <1>5, <1>6, <1>7, <1>8, OpenedStep
  <1>9. CASE Return(t, Refdown(ino, c), {})
    <2>1. PICK s : s = Refdown(ino, c) OBVIOUS
    <2>d. PICK d \in SUBSET Inums : d = {} OBVIOUS
    <2>6. MayFinish(t, s, d, Nil) /\ Nil \in Inos
      BY <1>7, <1>3, <1>9, <2>1, <2>d, Ready, <1>6, TouchSelf, TouchDown, <1>5, RefNat, RootIno DEF MayFinish,
         Inos, Return, B
    <2> QED BY <2>6, QuietFinish
  <1> QED BY <1>4, <1>8, <1>9 DEF CreateOpen

LEMMA CloseStep ==
    ASSUME CoreInv, NEW t \in Threads, Fs_close(t)
    PROVE  Quiet(t)
  <1>3. PICK f \in Inos : f = th[t].file BY Ready DEF Frame
  <1>4. \A i \in Inums : N(th[t], OpOf(calls[t]), i) = B(f = i)
    <2> TAKE i \in Inums
    <2> QED BY <1>3, Ready, BodyCount DEF Fs_close, At
  <1>6. PICK s : s = IF f = Nil THEN ino ELSE Refdown(ino, f) OBVIOUS
  <1>7. PICK d : d = IF f = Nil THEN {} ELSE Dead(s, {f}) OBVIOUS
  <1>9. Touches(s) /\ \A j \in Inums : s[j].ref = ino[j].ref - B(j = f)
    <2>1. CASE f = Nil BY <1>6, <2>1, TouchSelf, RefNat, RootIno DEF B
    <2>2. CASE f # Nil BY <1>6, <2>2, <1>4, HeldRef, TouchSelf, TouchDown DEF B, Inos
    <2> QED BY <2>1, <2>2
  <1>12. MayFinish(t, s, d, Nil)
    BY Ready, <1>3, <1>6, <1>7, <1>9, DeadGone, <1>4, RefNat, RootIno DEF MayFinish, PendOf, Walking,
       Fs_close, Return, At, Inos, B
  <1> QED BY <1>7, DeadGone, <1>12, QuietFinish DEF Inos

--------------------------------------------------------------------------------
(* mkdir, unlink and link, as far as they leave the tree alone. *)
\* A step that may take references that nobody gives back.
LEMMA LeakGoto ==
    ASSUME CoreInv, NEW t \in Threads, NEW r \in Frame, NEW x, Touches(x),
           ino' = x, th' = [th EXCEPT ![t] = r], rlock' \in Tids, calls' = calls, fatal' = fatal,
           LocalOK(r, calls[t]), KindOK(ino, r, OpOf(calls[t])),
           \A i \in r.dead : x[i].gone,
           \A i \in Inums : PendOf(r, OpOf(calls[t]), i) <=> PendOf(th[t], OpOf(calls[t]), i),
           \A i \in Inums : N(r, OpOf(calls[t]), i) <= N(th[t], OpOf(calls[t]), i) + (x[i].ref - ino[i].ref),
           \A i \in Inums : ino[i].gone => N(r, OpOf(calls[t]), i) <= B(r.pc = "up" /\ r.cur = i)
    PROVE  CoreStep(t) /\ Calm(t) /\ th'[t] = r
  <1>4. ASSUME NEW i \in Inums
        PROVE  x[i].links - Cardinality(NamesIn(x, i)) - B(PendOf(r, OpOf(calls[t]), i)) >=
               ino[i].links - Cardinality(NamesIn(ino, i)) - B(PendOf(th[t], OpOf(calls[t]), i)) BY TouchTree DEF B
  <1>5. \A i \in Inums : x[i].ref - ino[i].ref >= N(r, OpOf(calls[t]), i) - N(th[t], OpOf(calls[t]), i)
    <2> TAKE i \in Inums
    <2> QED BY TouchTree, NTypes, HeldCounts
  <1> QED
    BY TouchTree, KindSame, <1>4, <1>5, GotoStep DEF Calm, CalmTree, Touches, SameNames, SameLinks, PendSame, DeadOK

LEMMA MkdirQuiet ==
    ASSUME CoreInv, NEW t \in Threads, Mkdir(t),
           Entry(ino, th[t].cur, Op(t).old.name) # Nil \/ ~IsDir(ino, th[t].cur) \/ ~CanAlloc
    PROVE  CoreStep(t) /\ Calm(t) /\ (~Leaks(t) => RefExact(t))
  <1>1. th[t].pc = "got" /\ ~fatal BY DEF Mkdir, AtOp, At
  <1>2. OpOf(calls[t]) = "mkdir" BY <1>1, GotFacts DEF Mkdir, AtOp
  <1>3. th[t].stg = 1 /\ th[t].opar = Nil /\ th[t].ochild = Nil /\ th[t].cur \in Inums BY <1>1, <1>2, GotFacts
  <1>4. PICK c : c = Entry(ino, th[t].cur, Op(t).old.name) OBVIOUS
  <1>5. PICK n \in Fns : n = Op(t).old.name BY <1>1, GotFacts
  <1>6. PICK y : y = IF c = Nil THEN ino ELSE ilookup(ino, th[t].cur, n) OBVIOUS
  <1>7. PICK x : x = iunlock(y, th[t].cur) OBVIOUS
  <1>8. PICK p \in Inums : p = th[t].cur BY <1>3
  <1>9. PICK rs \in Seq(Inums) : rs = <<p>> BY FewSeqs
  <1>10. PICK r : r = [[th[t] EXCEPT !.refs = rs, !.chk = TRUE] EXCEPT !.pc = "refdown"] OBVIOUS
  <1>11. ino' = x /\ th' = [th EXCEPT ![t] = r] /\ rlock' = rlock /\ calls' = calls /\ fatal' = fatal
    BY <1>4, <1>5, <1>6, <1>7, <1>8, <1>9, <1>10 DEF Mkdir, GiveBack, Goto
  <1>12. /\ Touches(y)
         /\ c = Nil => \A j \in Inums : y[j].ref = ino[j].ref
         /\ c # Nil => \A j \in Inums : y[j].ref = ino[j].ref + B(j = c)
    BY <1>3, <1>4, <1>5, <1>6, TouchLookup, TouchSelf
  <1>13. Touches(x) /\ \A j \in Inums : x[j].ref = y[j].ref BY <1>3, <1>7, <1>12, TouchUnlock DEF SameRef
  <1>14. th[t] \in Frame /\ LocalOK(th[t], calls[t]) /\ th[t].file = Nil /\ th[t].next = "idle" /\ calls[t] # <<>>
    BY <1>1, GotFacts
  <1>15. /\ r \in Frame /\ r.pc = "refdown" /\ r.refs = rs /\ r.stg = 1 /\ r.opar = Nil
         /\ r.next = "idle" /\ r.file = Nil /\ r.dead = th[t].dead BY <1>3, <1>9, <1>10, <1>14 DEF Frame, Places
  <1>16. LocalOK(r, calls[t]) BY <1>2, <1>14, <1>15 DEF LocalOK, Walking
  <1>18. ASSUME NEW i \in Inums
         PROVE  /\ N(r, OpOf(calls[t]), i) = N(th[t], OpOf(calls[t]), i)
                /\ N(th[t], OpOf(calls[t]), i) = B(p = i)
                /\ x[i].ref - ino[i].ref \in Nat /\ (c = Nil => x[i].ref - ino[i].ref = 0)
    <2>2. Cnt(<<p>>, i) = B(p = i) BY CntFew
    <2>5. N(th[t], OpOf(calls[t]), i) = B(p = i) BY <1>3, <1>8, <1>1, GotFacts, RootIno DEF B
    <2> QED BY <1>12, <1>13, <1>9, <1>15, <1>16, HeldRename, <2>2, <2>5, RefNat DEF B, A3
  <1>19. \A i \in Inums : ino[i].gone => N(r, OpOf(calls[t]), i) <= B(r.pc = "up" /\ r.cur = i)
    BY <1>1, <1>18, GotFacts DEF B
  <1>21. rlock' \in Tids /\ \A i \in r.dead : x[i].gone
    BY <1>1, <1>11, <1>13, <1>14, <1>15, GotFacts DEF Touches, Frame
  <1>22. \A i \in Inums : N(r, OpOf(calls[t]), i) <= N(th[t], OpOf(calls[t]), i) + (x[i].ref - ino[i].ref)
    BY <1>18 DEF B
  <1>23. CoreStep(t) /\ Calm(t) /\ th'[t] = r
    BY <1>11, <1>13, <1>15, <1>16, <1>19, <1>2, <1>21, <1>22, LeakGoto DEF PendOf, KindOK, Walking
  <1>24. ASSUME ~Leaks(t) PROVE RefExact(t)
    BY <1>11, <1>23, <1>18, <1>1, <1>2, <1>4, <1>24, OpIs DEF RefExact, B, Leaks, AtOp, At
  <1> QED BY <1>23, <1>24

LEMMA UnlinkStep ==
    ASSUME CoreInv, NEW t \in Threads, Unlink(t)
    PROVE  Quiet(t)
  <1>1. th[t].pc = "got" BY DEF Unlink, AtOp, At
  <1>2. OpOf(calls[t]) = "unlink" BY <1>1, GotFacts DEF Unlink, AtOp
  <1>3. th[t].stg = 1 /\ th[t].opar = Nil /\ th[t].ochild = Nil /\ th[t].cur \in Inums BY <1>1, <1>2, GotFacts
  <1>4. PICK c : c = Entry(ino, th[t].cur, Op(t).old.name) OBVIOUS
  <1>5. PICK n \in Fns : n = Op(t).old.name BY <1>1, GotFacts
  <1>6. CASE c = Nil
    <2>1. PICK s : s = iunlock_refdown(ino, th[t].cur) OBVIOUS
    <2> QED BY <1>3, <1>4, <1>6, <2>1, <1>1, GotFacts, TouchSelf, TouchDown, WalkEnd DEF Unlink
  <1>7. CASE c # Nil
    <2>0. c \in Inums /\ ~ino[c].gone /\ c \in Inos BY <1>3, <1>4, <1>5, <1>7, Named DEF Inos
    <2>1. PICK y : y = ilookup(ino, th[t].cur, n) OBVIOUS
    <2>2. PICK x : x = iunlock(y, th[t].cur) OBVIOUS
    <2>p. PICK p \in Inums : p = th[t].cur BY <1>3
    <2>3. PICK L \in SUBSET Inums : L = {p, c} BY <2>0
    <2>4. PICK r : r = [[th[t] EXCEPT !.opar = p, !.ochild = c, !.tolock = L] EXCEPT !.pc = "lockall"] OBVIOUS
    <2>5. ino' = x /\ th' = [th EXCEPT ![t] = r] /\ rlock' = rlock /\ calls' = calls /\ fatal' = fatal
      BY <1>4, <1>5, <1>7, <2>1, <2>2, <2>p, <2>3, <2>4 DEF Unlink, Goto
    <2>6. Touches(y) /\ \A j \in Inums : y[j].ref = ino[j].ref + B(j = c) BY <1>3, <1>4, <1>5, <1>7, <2>1, TouchLookup
    <2>8. Touches(x) /\ \A j \in Inums : x[j].ref = y[j].ref BY <1>3, <2>2, <2>6, TouchUnlock DEF SameRef
    <2>9. th[t] \in Frame /\ LocalOK(th[t], calls[t]) /\ th[t].file = Nil /\ th[t].next = "idle" /\ calls[t] # <<>>
      BY <1>1, GotFacts
    <2>10. /\ r \in Frame /\ r.pc = "lockall" /\ r.ochild = c /\ r.stg = 1 /\ r.opar = p /\ r.tolock = L
           /\ r.next = "idle" /\ r.file = Nil /\ r.dead = th[t].dead
      BY <1>3, <2>0, <2>3, <2>4, <2>9, RootIno DEF Frame, Places, Inos
    <2>11. LocalOK(r, calls[t]) BY <1>2, <1>7, <2>3, <2>9, <2>10, RootIno DEF LocalOK, Walking, Inos
    <2>13. ASSUME NEW i \in Inums
           PROVE  /\ N(r, OpOf(calls[t]), i) = N(th[t], OpOf(calls[t]), i) + (x[i].ref - ino[i].ref)
                  /\ ino[i].gone => N(r, OpOf(calls[t]), i) <= B(r.pc = "up" /\ r.cur = i)
      <3>2. N(th[t], OpOf(calls[t]), i) = B(th[t].cur = i) + B(th[t].opar = i) + B(th[t].ochild = i) BY <1>1, GotFacts
      <3>3. ino[i].gone => N(th[t], OpOf(calls[t]), i) = 0 BY <1>1, GotFacts
      <3> QED BY <1>3, <2>0, <2>p, <2>6, <2>8, <2>10, <1>2, <2>11, HeldChild, <3>2, <3>3, RefNat, RootIno DEF B
    <2>15. rlock' \in Tids /\ \A i \in r.dead : x[i].gone
      BY <1>1, <2>5, <2>8, <2>9, <2>10, GotFacts DEF Touches, Frame
    <2> QED BY <2>5, <2>8, <2>10, <2>11, <1>2, <2>13, <2>15, QuietGoto DEF KindOK, Walking, PendOf
  <1> QED BY <1>6, <1>7

LEMMA Appended ==
    ASSUME NEW q \in Seq(Inums), NEW i \in Inums
    PROVE  Append(q, i) \in Seq(Inums) /\ Append(q, i) # <<>>
  <1>2. Append(q, i) = <<>> => FALSE
    <2>1. Len(q) \in Nat /\ Len(Append(q, i)) = Len(q) + 1 OBVIOUS
    <2> QED BY <2>1
  <1> QED BY <1>2

LEMMA LockAllStep ==
    ASSUME CoreInv, NEW t \in Threads, LockAll(t)
    PROVE  Quiet(t)
  <1>1. th[t].pc = "lockall" BY DEF LockAll, At
  <1>2. /\ th[t] \in Frame /\ LocalOK(th[t], calls[t]) /\ KindOK(ino, th[t], OpOf(calls[t])) /\ rlock \in Tids
        /\ \A i \in Inums : ino[i].gone => N(th[t], OpOf(calls[t]), i) = 0
        /\ \A i \in th[t].dead : ino[i].gone BY <1>1, Ready
  <1>3. th[t].tolock \in SUBSET Inums /\ th[t].tolock # {} /\ th[t].defers \in Seq(Inums)
    BY <1>1, <1>2 DEF LocalOK, Frame
  <1>4. PICK i \in Inums : i = Min(th[t].tolock) BY <1>3, MinOf
  <1>5. PICK L \in SUBSET Inums : L = th[t].tolock \ {i} BY <1>3
  <1>6. PICK d \in Seq(Inums) : d = Append(th[t].defers, i) /\ d # <<>> BY <1>3, Appended
  <1>7. PICK pc \in {"locked", "lockall"} : pc = IF th[t].tolock = {i} THEN "locked" ELSE "lockall" OBVIOUS
  <1>8. PICK r : r = [[th[t] EXCEPT !.tolock = L, !.defers = d] EXCEPT !.pc = pc] OBVIOUS
  <1>9. PICK x : x = ilock(ino, i, t) OBVIOUS
  <1>10. ino' = x /\ th' = [th EXCEPT ![t] = r] /\ rlock' = rlock /\ calls' = calls /\ fatal' = fatal
    BY <1>2, <1>4, <1>5, <1>6, <1>7, <1>8, <1>9 DEF LockAll, Goto, Frame
  <1>11. Touches(x) /\ \A j \in Inums : x[j].ref = ino[j].ref BY <1>9, TouchSelf, TouchLock DEF SameRef, Tids
  <1>12. /\ r \in Frame /\ r.pc = pc /\ r.tolock = L /\ r.defers = d /\ r.stg = th[t].stg /\ r.cur = th[t].cur
         /\ r.opar = th[t].opar /\ r.ochild = th[t].ochild /\ r.npar = th[t].npar /\ r.nchild = th[t].nchild
         /\ r.next = th[t].next /\ r.file = th[t].file /\ r.dead = th[t].dead /\ r.refs = th[t].refs
    BY <1>2, <1>5, <1>6, <1>7, <1>8 DEF Frame, Places
  <1>15. Found(r) = Found(th[t]) BY <1>12 DEF Found
  <1>16. LocalOK(r, calls[t]) BY <1>1, <1>2, <1>7, <1>12, <1>3, <1>5, <1>6, <1>15 DEF LocalOK, Walking
  <1>17. KindOK(ino, r, OpOf(calls[t])) BY <1>1, <1>2, <1>7, <1>12 DEF KindOK, Walking
  <1>18. ASSUME NEW j \in Inums
         PROVE  N(r, OpOf(calls[t]), j) = N(th[t], OpOf(calls[t]), j) BY <1>1, <1>7, <1>12 DEF N, HeldOf, Body
  <1>19. \A j \in Inums : N(r, OpOf(calls[t]), j) = N(th[t], OpOf(calls[t]), j) + (x[j].ref - ino[j].ref)
    BY <1>11, <1>18, HeldCounts
  <1>20. \A j \in Inums : ino[j].gone => N(r, OpOf(calls[t]), j) <= B(r.pc = "up" /\ r.cur = j) BY <1>2, <1>18 DEF B
  <1>22. rlock' \in Tids /\ \A j \in r.dead : x[j].gone BY <1>2, <1>10, <1>11, <1>12 DEF Touches, Frame
  <1> QED BY <1>10, <1>11, <1>12, <1>16, <1>17, <1>19, <1>20, <1>1, <1>7, <1>22, QuietGoto DEF PendOf, Walking

\* link gives a directory back.
LEMMA LinkQuiet ==
    ASSUME CoreInv, NEW t \in Threads, Link(t), IsDir(ino, th[t].cur)
    PROVE  CoreStep(t) /\ RefExact(t) /\ Calm(t)
  <1>2. PICK s : s = iunlock_refdown(ino, th[t].cur) OBVIOUS
  <1>3. CASE Panic BY <1>3, PanicStep DEF Panic, Calm, CalmTree, PendSame
  <1>4. CASE Return(t, s, {}) BY <1>4, <1>2, GotFacts, TouchSelf, TouchDown, WalkEnd DEF Quiet, Link, AtOp, At
  <1> QED BY <1>2, <1>3, <1>4 DEF Link

LEMMA LinkInsertQuiet ==
    ASSUME CoreInv, NEW t \in Threads, LinkInsert(t),
           ~IsDir(ino, th[t].cur) \/ ino[th[t].cur].ents[Op(t).new.name] # Nil
    PROVE  Quiet(t)
  <1>1. th[t].pc = "got" /\ th[t].stg = 2 BY DEF LinkInsert, AtOp, At
  <1>2. OpOf(calls[t]) = "link" BY <1>1, GotFacts DEF LinkInsert, AtOp
  <1>3. PICK x : x = iunlock_refdown(ino, th[t].cur) OBVIOUS
  <1>4. PICK r : r = [th[t] EXCEPT !.pc = "undo"] OBVIOUS
  <1>5. ino' = x /\ th' = [th EXCEPT ![t] = r] /\ rlock' = rlock /\ calls' = calls /\ fatal' = fatal
    BY <1>3, <1>4 DEF LinkInsert, Goto
  <1>6. Touches(x) /\ \A j \in Inums : x[j].ref = ino[j].ref - B(j = th[t].cur)
    BY <1>1, <1>3, GotFacts, TouchSelf, TouchDown
  <1>7. th[t] \in Frame /\ LocalOK(th[t], calls[t]) /\ KindOK(ino, th[t], OpOf(calls[t])) /\ th[t].file = Nil
        /\ th[t].next = "idle" /\ calls[t] # <<>> /\ th[t].pc \in Walking BY <1>1, GotFacts
  <1>8. /\ r \in Frame /\ r.pc = "undo" /\ r.ochild = th[t].ochild /\ r.stg = 2 /\ r.opar = th[t].opar
        /\ r.next = "idle" /\ r.file = Nil /\ r.dead = th[t].dead BY <1>1, <1>4, <1>7 DEF Frame, Places
  <1>9. LocalOK(r, calls[t]) BY <1>1, <1>2, <1>7, <1>8 DEF LocalOK, Walking
  <1>10. KindOK(ino, r, OpOf(calls[t])) BY <1>1, <1>2, <1>7, <1>8 DEF KindOK
  <1>12. ASSUME NEW i \in Inums
         PROVE  /\ N(r, OpOf(calls[t]), i) = N(th[t], OpOf(calls[t]), i) + (x[i].ref - ino[i].ref)
                /\ ino[i].gone => N(r, OpOf(calls[t]), i) <= B(r.pc = "up" /\ r.cur = i)
    <2>1. N(r, OpOf(calls[t]), i) = B(r.ochild = i) BY <1>8, <1>9, HeldChild
    <2>2. N(th[t], OpOf(calls[t]), i) = B(th[t].cur = i) + B(th[t].opar = i) + B(th[t].ochild = i) BY <1>1, GotFacts
    <2>3. ino[i].gone => N(th[t], OpOf(calls[t]), i) = 0 BY <1>1, GotFacts
    <2> QED BY <1>6, <1>8, <1>1, <1>2, <1>7, <2>1, <2>2, <2>3, RefNat, RootIno DEF B, LocalOK
  <1>13. \A i \in Inums : PendOf(r, OpOf(calls[t]), i) <=> PendOf(th[t], OpOf(calls[t]), i)
    BY <1>1, <1>7, <1>8 DEF PendOf
  <1>14. rlock' \in Tids /\ \A i \in r.dead : x[i].gone BY <1>1, <1>5, <1>6, <1>7, <1>8, GotFacts DEF Touches, Frame
  <1> QED BY <1>5, <1>6, <1>8, <1>9, <1>10, <1>12, <1>13, <1>14, QuietGoto

--------------------------------------------------------------------------------
(* rename, up to the move. *)
LEMMA TouchUpOf ==
    ASSUME CoreInv, NEW y, Touches(y), SameGone(ino, y), NEW i \in Inums, ino[i].itype # "none"
    PROVE  Touches(Refup(y, i)) /\ \A j \in Inums : Refup(y, i)[j].ref = y[j].ref + B(j = i)
  <1> DEFINE x == Refup(y, i)
  <1>2. /\ x \in Nodes /\ SameNames(y, x) /\ SameLinks(y, x)
        /\ \A j \in Inums : x[j].ref = y[j].ref + B(j = i) BY RefupFields DEF Touches, Nodes, Node
  <1>3. SameGone(y, x) BY RefupFields DEF Touches, Nodes, Node
  <1> HIDE DEF x
  <1>5. SameGone(ino, x) BY <1>3, SameTrans
  <1>6. \A j \in Inums : x[j].gone <=> ino[j].gone BY <1>5, Zenon DEF SameGone
  <1>7. \A j \in Inums : x[j].ref # ino[j].ref => ino[j].itype # "none"
    <2> SUFFICES ASSUME NEW j \in Inums, j # i, x[j].ref # ino[j].ref PROVE ino[j].itype # "none" OBVIOUS
    <2> QED BY <1>2 DEF Touches, B, Nodes, Node
  <1> QED BY <1>2, SameTrans, <1>6, <1>7 DEF x, Touches

LEMMA RenameOldStep ==
    ASSUME CoreInv, NEW t \in Threads, RenameOld(t)
    PROVE  Quiet(t)
  <1>1. th[t].pc = "got" /\ th[t].stg = 1 BY DEF RenameOld, AtOp, At
  <1>2. OpOf(calls[t]) = "rename" BY <1>1, GotFacts DEF RenameOld, AtOp
  <1>3. th[t].opar = Nil /\ th[t].ochild = Nil /\ th[t].cur \in Inums /\ calls[t] # <<>> BY <1>1, <1>2, GotFacts
  <1>4. PICK c : c = Entry(ino, th[t].cur, Op(t).old.name) OBVIOUS
  <1>5. PICK n \in Fns : n = Op(t).old.name BY <1>1, GotFacts
  <1>6. CASE c = Nil
    <2>1. PICK s : s = iunlock_refdown(ino, th[t].cur) OBVIOUS
    <2> QED BY <1>1, <1>4, <1>6, <2>1, <1>3, TouchSelf, TouchDown, GotFacts, WalkEnd DEF RenameOld
  <1>7. CASE c # Nil
    <2>0. c \in Inums /\ ~ino[c].gone /\ c \in Inos BY <1>3, <1>4, <1>5, <1>7, Named DEF Inos
    <2>1. PICK y : y = ilookup(ino, th[t].cur, n) OBVIOUS
    <2>2. PICK z : z = iunlock(y, th[t].cur) OBVIOUS
    <2>x. PICK x : x = Refup(z, iroot) OBVIOUS
    <2>p. PICK p \in Inums : p = th[t].cur BY <1>3
    <2>q. p \in Inos /\ p # Nil /\ iroot \in Inos /\ iroot # Nil BY RootIno DEF Inos
    <2>3. PICK cs \in Seq(Fns) : cs = Comps(t, 2) BY <1>3, CallParts
    <2>4. PICK r : r = [[[th[t] EXCEPT !.opar = p, !.ochild = c] EXCEPT !.stg = 2, !.cur = iroot, !.rest = cs] EXCEPT !.pc = "namei"]
      OBVIOUS
    <2>5. ino' = x /\ th' = [th EXCEPT ![t] = r] /\ rlock' = rlock /\ calls' = calls /\ fatal' = fatal
      BY <1>4, <1>5, <1>7, <2>1, <2>2, <2>x, <2>p, <2>3, <2>4 DEF RenameOld, EnterNamei, Goto
    <2>6. Touches(y) /\ SameGone(ino, y) /\ \A j \in Inums : y[j].ref = ino[j].ref + B(j = c)
      BY <1>3, <1>4, <1>5, <1>7, <2>1, TouchLookup
    <2>7. Touches(z) /\ SameGone(ino, z) /\ \A j \in Inums : z[j].ref = y[j].ref
      <3>1. Touches(z) /\ SameGone(y, z) /\ SameRef(y, z) BY <1>3, <2>2, <2>6, TouchUnlock
      <3> QED BY <3>1, <2>6, SameTrans DEF SameRef
    <2>8. Touches(x) /\ \A j \in Inums : x[j].ref = z[j].ref + B(j = iroot) BY <2>x, <2>7, TouchUpOf, RefNat
    <2>9. th[t] \in Frame /\ LocalOK(th[t], calls[t]) /\ th[t].file = Nil /\ th[t].next = "idle" /\ th[t].npar = Nil /\ th[t].nchild = Nil
      BY <1>1, GotFacts
    <2>10. /\ r \in Frame /\ r.pc = "namei" /\ r.ochild = c /\ r.stg = 2 /\ r.opar = p /\ r.cur = iroot
           /\ r.next = "idle" /\ r.file = Nil /\ r.dead = th[t].dead /\ r.npar = Nil /\ r.nchild = Nil
      BY <1>3, <2>0, <2>3, <2>4, <2>9, <2>q DEF Frame, Places
    <2>11. LocalOK(r, calls[t]) BY <1>2, <1>3, <1>7, <2>9, <2>10, <2>q DEF LocalOK, Walking
    <2>13. ASSUME NEW i \in Inums
           PROVE  /\ N(r, OpOf(calls[t]), i) = N(th[t], OpOf(calls[t]), i) + (x[i].ref - ino[i].ref)
                  /\ ino[i].gone => N(r, OpOf(calls[t]), i) <= B(r.pc = "up" /\ r.cur = i)
      <3>1. N(r, OpOf(calls[t]), i) = B(iroot = i) + B(r.opar = i) + B(r.ochild = i) BY <2>10, <2>11, HeldWalking
      <3>2. N(th[t], OpOf(calls[t]), i) = B(th[t].cur = i) + B(th[t].opar = i) + B(th[t].ochild = i) BY <1>1, GotFacts
      <3>3. ino[i].gone => N(th[t], OpOf(calls[t]), i) = 0 /\ i # iroot BY <1>1, GotFacts, RefNat
      <3> QED BY <1>3, <2>0, <2>p, <2>6, <2>7, <2>8, <2>10, <3>1, <3>2, <3>3, RefNat, RootIno DEF B
    <2>14. \A i \in Inums : PendOf(r, OpOf(calls[t]), i) <=> PendOf(th[t], OpOf(calls[t]), i) BY <1>2 DEF PendOf
    <2>15. rlock' \in Tids /\ \A i \in r.dead : x[i].gone
      BY <1>1, <2>5, <2>8, <2>9, <2>10, GotFacts DEF Touches, Frame
    <2> QED BY <2>5, <2>8, <2>10, <2>11, <1>2, RefNat, <2>13, <2>14, <2>15, QuietGoto DEF KindOK
  <1> QED BY <1>6, <1>7

LEMMA RenameLockStep ==
    ASSUME CoreInv, NEW t \in Threads, RenameLock(t)
    PROVE  Quiet(t)
  <1>1. th[t].pc = "got" /\ th[t].stg = 2 BY DEF RenameLock, AtOp, At
  <1>2. OpOf(calls[t]) = "rename" BY <1>1, GotFacts DEF RenameLock, AtOp
  <1>3. PICK p \in Inums : p = th[t].cur /\ p \in Inos /\ p # Nil BY <1>1, GotFacts
  <1>4. PICK x : x = IF p = iroot THEN iunlock(ino, p) ELSE Refup(ino, p) OBVIOUS
  <1>5. PICK pc \in {"look", "up"} : pc = IF p = iroot THEN "look" ELSE "up" OBVIOUS
  <1>6. PICK r : r = [[th[t] EXCEPT !.npar = p] EXCEPT !.pc = pc] OBVIOUS
  <1>7. ino' = x /\ th' = [th EXCEPT ![t] = r] /\ rlock' \in Tids /\ calls' = calls /\ fatal' = fatal
    BY <1>1, <1>3, <1>4, <1>5, <1>6, GotFacts DEF RenameLock, Goto, Tids
  <1>9. Touches(x) /\ \A j \in Inums : x[j].ref = ino[j].ref + B(pc = "up" /\ p = j)
    <2>1. CASE p = iroot BY <1>5, <2>1, <1>4, TouchSelf, TouchUnlock, RefNat DEF B, SameRef
    <2>2. CASE p # iroot BY <1>4, <1>5, <1>1, <1>3, GotFacts, <2>2, TouchUp DEF B
    <2> QED BY <2>1, <2>2
  <1>10. th[t] \in Frame /\ LocalOK(th[t], calls[t]) /\ th[t].file = Nil /\ th[t].next = "idle" /\ calls[t] # <<>>
    BY <1>1, GotFacts
  <1>11. /\ r \in Frame /\ r.pc = pc /\ r.ochild = th[t].ochild /\ r.stg = 2 /\ r.opar = th[t].opar /\ r.cur = p
         /\ r.next = "idle" /\ r.file = Nil /\ r.dead = th[t].dead /\ r.npar = p
    BY <1>1, <1>3, <1>5, <1>6, <1>10 DEF Frame, Places
  <1>12. LocalOK(r, calls[t]) BY <1>1, <1>2, <1>3, <1>5, <1>10, <1>11 DEF LocalOK, Walking
  <1>13. KindOK(ino, r, OpOf(calls[t])) BY <1>2, <1>5, <1>11, RefNat DEF KindOK, Walking
  <1>14. ASSUME NEW i \in Inums
         PROVE  /\ N(r, OpOf(calls[t]), i) = N(th[t], OpOf(calls[t]), i) + (x[i].ref - ino[i].ref)
                /\ ino[i].gone => N(r, OpOf(calls[t]), i) <= B(r.pc = "up" /\ r.cur = i)
    <2>1. N(th[t], OpOf(calls[t]), i) = B(p = i) + B(r.opar = i) + B(r.ochild = i) BY <1>3, <1>11, <1>1, GotFacts
    <2>3. ino[i].gone => N(th[t], OpOf(calls[t]), i) = 0 BY <1>1, GotFacts
    <2>4. CASE pc = "look" BY <1>9, <2>1, <2>3, <2>4, <1>11, <1>12, HeldChild, RefNat DEF B, T3
    <2>5. CASE pc = "up" BY <1>9, <1>11, <2>1, <2>3, <2>5, <1>12, HeldRename, RefNat DEF B, T3
    <2> QED BY <1>5, <2>4, <2>5
  <1>15. \A i \in Inums : PendOf(r, OpOf(calls[t]), i) <=> PendOf(th[t], OpOf(calls[t]), i) BY <1>2 DEF PendOf
  <1>16. \A i \in r.dead : x[i].gone BY <1>1, <1>9, <1>10, <1>11, GotFacts DEF Touches, Frame
  <1> QED BY <1>7, <1>9, <1>11, <1>12, <1>13, <1>14, <1>15, <1>16, QuietGoto

LEMMA CntThree ==
    ASSUME NEW a, NEW b, NEW c, NEW i
    PROVE  Cnt(<<a, b, c>>, i) = B(a = i) + B(b = i) + B(c = i)
  BY CntFew

LEMMA UpFacts ==
    ASSUME CoreInv, NEW t \in Threads, th[t].pc = "up"
    PROVE  /\ th[t] \in Frame /\ LocalOK(th[t], calls[t]) /\ KindOK(ino, th[t], OpOf(calls[t])) /\ rlock \in Tids
           /\ OpOf(calls[t]) = "rename" /\ th[t].stg = 2 /\ th[t].next = "idle" /\ th[t].file = Nil
           /\ th[t].cur \in Inums /\ th[t].npar \in Inums /\ th[t].npar # iroot
           /\ th[t].opar \in Inums /\ th[t].ochild \in Inums /\ calls[t] # <<>>
           /\ ino[th[t].cur].ref >= 1 /\ ino[th[t].cur].itype # "none"
           /\ \A i \in Inums : N(th[t], OpOf(calls[t]), i) = B(th[t].cur = i) + T3(th[t], i)
           /\ \A i \in Inums : ino[i].gone => T3(th[t], i) = 0
           /\ \A i \in Inums : T3(th[t], i) \in Nat
           /\ \A i \in th[t].dead : ino[i].gone
  <1>1. /\ th[t] \in Frame /\ LocalOK(th[t], calls[t]) /\ KindOK(ino, th[t], OpOf(calls[t])) /\ rlock \in Tids
        /\ \A i \in th[t].dead : ino[i].gone BY Ready
  <1>3. \A i \in Inums : N(th[t], OpOf(calls[t]), i) = B(th[t].cur = i) + T3(th[t], i) BY <1>1, HeldRename
  <1>4. \A i \in Inums : T3(th[t], i) \in Nat BY DEF T3, B
  <1>5. \A i \in Inums : ino[i].gone => T3(th[t], i) = 0
    <2> SUFFICES ASSUME NEW i \in Inums, ino[i].gone PROVE T3(th[t], i) = 0 OBVIOUS
    <2> QED BY <1>3, <1>4, CoreParts DEF B, KeptOK
  <1> QED BY <1>1, <1>3, <1>4, <1>5, HeldRef DEF B, LocalOK, Frame, Inos

\* _isancestor ends, and everything is given back.
LEMMA UpEnds ==
    ASSUME CoreInv, NEW t \in Threads, th[t].pc = "up", NEW x, Touches(x),
           \A j \in Inums : x[j].ref = ino[j].ref - B(j = th[t].cur),
           GiveBack(t, x, th[t], Triple(t), FALSE)
    PROVE  Quiet(t)
  <1>1. PICK rs \in Seq(Inums) : rs = Triple(t) BY UpFacts, FewSeqs DEF Triple
  <1>2. PICK r : r = [[th[t] EXCEPT !.refs = rs, !.chk = FALSE] EXCEPT !.pc = "refdown"] OBVIOUS
  <1>4. /\ th[t] \in Frame /\ LocalOK(th[t], calls[t]) /\ rlock \in Tids /\ calls[t] # <<>>
        /\ OpOf(calls[t]) = "rename" /\ th[t].stg = 2 /\ th[t].next = "idle" /\ th[t].file = Nil BY UpFacts
  <1>5. /\ r \in Frame /\ r.pc = "refdown" /\ r.refs = rs /\ r.stg = 2 /\ r.opar = th[t].opar /\ r.ochild = th[t].ochild
        /\ r.next = "idle" /\ r.file = Nil /\ r.dead = th[t].dead /\ r.npar = th[t].npar
    BY <1>2, <1>4 DEF Frame, Places
  <1>6. LocalOK(r, calls[t]) BY <1>4, <1>5 DEF LocalOK, Walking
  <1>8. ASSUME NEW i \in Inums
        PROVE  /\ N(r, OpOf(calls[t]), i) = N(th[t], OpOf(calls[t]), i) + (x[i].ref - ino[i].ref)
               /\ ino[i].gone => N(r, OpOf(calls[t]), i) <= B(r.pc = "up" /\ r.cur = i)
    <2>2. PICK a, b, c : a = th[t].opar /\ b = th[t].ochild /\ c = th[t].npar OBVIOUS
    <2>5. /\ N(th[t], OpOf(calls[t]), i) = B(th[t].cur = i) + T3(th[t], i) /\ T3(th[t], i) \in Nat
          /\ ino[i].gone => T3(th[t], i) = 0 BY UpFacts
    <2> QED BY <2>5, <1>5, <1>6, HeldRename, <1>1, <2>2, CntThree, RefNat DEF B, A3, T3, Triple
  <1>10. rlock' \in Tids /\ \A i \in r.dead : x[i].gone
    BY <1>1, <1>2, <1>4, <1>5, UpFacts DEF Touches, Frame, GiveBack, Goto
  <1> QED BY <1>1, <1>2, <1>5, <1>6, <1>8, <1>4, <1>10, QuietGoto DEF PendOf, KindOK, Walking, GiveBack, Goto

LEMMA IsAncestorStep ==
    ASSUME CoreInv, NEW t \in Threads, IsAncestor(t)
    PROVE  Quiet(t)
  <1>2. PICK x : x = Refdown(ino, th[t].cur) OBVIOUS
  <1>3. Touches(x) /\ \A j \in Inums : x[j].ref = ino[j].ref - B(j = th[t].cur)
    BY <1>2, UpFacts, TouchSelf, TouchDown DEF IsAncestor, At
  <1> QED BY <1>2, <1>3, UpEnds DEF IsAncestor, At

\* _isancestor goes on, at h, or is done.
LEMMA UpGoes ==
    ASSUME CoreInv, NEW t \in Threads, th[t].pc = "up", NEW x, Touches(x), NEW h \in Inums,
           NEW pc \in {"up", "look"},
           \A j \in Inums : x[j].ref = ino[j].ref + B(pc = "up" /\ h = j) - B(j = th[t].cur),
           ino' = x, Goto(t, [th[t] EXCEPT !.cur = h], pc), UNCHANGED <<rlock, calls, fatal>>,
           ino[th[t].npar].itype = "dir"
    PROVE  Quiet(t)
  <1>2. PICK r : r = [[th[t] EXCEPT !.cur = h] EXCEPT !.pc = pc] OBVIOUS
  <1>3. ino' = x /\ th' = [th EXCEPT ![t] = r] /\ rlock' = rlock /\ calls' = calls /\ fatal' = fatal BY <1>2 DEF Goto
  <1>4. /\ th[t] \in Frame /\ LocalOK(th[t], calls[t]) /\ rlock \in Tids /\ calls[t] # <<>> /\ th[t].npar # iroot
        /\ OpOf(calls[t]) = "rename" /\ th[t].stg = 2 /\ th[t].next = "idle" /\ th[t].file = Nil BY UpFacts
  <1>0. h # Nil /\ h \in Inos BY RootIno DEF Inos
  <1>5. /\ r \in Frame /\ r.pc = pc /\ r.cur = h /\ r.stg = 2 /\ r.opar = th[t].opar /\ r.ochild = th[t].ochild
        /\ r.next = "idle" /\ r.file = Nil /\ r.dead = th[t].dead /\ r.npar = th[t].npar
    BY <1>0, <1>2, <1>4 DEF Frame, Places
  <1>6. LocalOK(r, calls[t]) BY <1>0, <1>4, <1>5 DEF LocalOK, Walking
  <1>7. KindOK(ino, r, OpOf(calls[t])) BY <1>4, <1>5 DEF KindOK, Walking
  <1>8. ASSUME NEW i \in Inums
        PROVE  /\ N(r, OpOf(calls[t]), i) = N(th[t], OpOf(calls[t]), i) + (x[i].ref - ino[i].ref)
               /\ ino[i].gone => N(r, OpOf(calls[t]), i) <= B(r.pc = "up" /\ r.cur = i)
    <2>2. N(r, OpOf(calls[t]), i) = B(pc = "up" /\ h = i) + T3(th[t], i)
      <3>1. CASE pc = "up" BY <1>5, <3>1, <1>6, HeldRename DEF B, T3
      <3>2. CASE pc = "look" BY <1>5, <1>6, <3>2, HeldChild DEF B, T3
      <3> QED BY <3>1, <3>2
    <2>6. x[i].ref = ino[i].ref + B(pc = "up" /\ h = i) - B(i = th[t].cur) /\ ino[i].ref \in Int BY RefNat
    <2>7. B(i = th[t].cur) = B(th[t].cur = i) /\ B(i = th[t].cur) \in Int /\ B(pc = "up" /\ h = i) \in Int
          /\ B(r.pc = "up" /\ r.cur = i) = B(pc = "up" /\ h = i) BY <1>5 DEF B
    <2> QED BY <2>2, UpFacts, <2>6, <2>7
  <1>10. rlock' \in Tids /\ \A i \in r.dead : x[i].gone BY <1>3, <1>4, <1>5, UpFacts DEF Touches, Frame
  <1> QED BY <1>3, <1>5, <1>6, <1>7, <1>8, <1>4, <1>10, QuietGoto DEF PendOf

LEMMA AncestorRootStep ==
    ASSUME CoreInv, NEW t \in Threads, AncestorRoot(t)
    PROVE  Quiet(t)
  <1>1. th[t].pc = "up" /\ th[t].cur = iroot BY DEF AncestorRoot, At
  <1>2. PICK x : x = Refdown(ino, th[t].cur) OBVIOUS
  <1>6. [th[t] EXCEPT !.cur = iroot] = th[t] BY <1>1, UpFacts DEF Frame
  <1>8. PICK pc \in {"up", "look"} : pc = "look" OBVIOUS
  <1>9. \A j \in Inums : x[j].ref = ino[j].ref + B(pc = "up" /\ iroot = j) - B(j = th[t].cur)
    BY <1>1, <1>2, UpFacts, TouchSelf, TouchDown, <1>8, RefNat DEF B
  <1> QED BY <1>1, TouchSelf, TouchDown, UpFacts, <1>2, <1>6, <1>8, <1>9, RootIno, UpGoes DEF KindOK, AncestorRoot

LEMMA AncestorStep ==
    ASSUME CoreInv, NEW t \in Threads, Ancestor(t)
    PROVE  CoreStep(t) /\ RefExact(t) /\ Calm(t)
  <1>1. th[t].pc = "up" BY DEF Ancestor, At
  <1>2. PICK h \in Inums : h = th[t].cur BY <1>1, UpFacts
  <1>3. PICK up : up = ino[h].dotdot OBVIOUS
  <1>4. CASE up = Nil
    <2>1. PICK x : x = iunlock_refdown(ino, h) OBVIOUS
    <2>2. Touches(x) /\ \A j \in Inums : x[j].ref = ino[j].ref - B(j = th[t].cur)
      BY <1>1, <1>2, <2>1, UpFacts, TouchSelf, TouchDown
    <2> QED BY <1>1, <2>2, <1>2, <1>3, <1>4, <2>1, UpEnds DEF Quiet, Ancestor
  <1>5. CASE up # Nil
    <2>1. up \in Inums /\ ino[up].itype # "none" BY <1>2, <1>3, <1>5, RefNat, CoreParts DEF Shape, Nodes, Node, Inos
    <2>2. PICK y : y = Refup(ino, up) OBVIOUS
    <2>3. PICK x : x = iunlock_refdown(y, h) OBVIOUS
    <2>4. Touches(y) /\ \A j \in Inums : y[j].ref = ino[j].ref + B(j = up) BY <2>1, <2>2, TouchUp
    <2>6. Touches(x) /\ \A j \in Inums : x[j].ref = y[j].ref - B(j = h)
      BY <2>3, <2>4, <1>1, <1>2, UpFacts, RefNat, TouchDown DEF B
    <2>8. CASE Panic BY <2>8, PanicStep DEF Panic, Calm, CalmTree, PendSame
    <2>9. CASE ~Panic
      <3>1. ino[th[t].npar].itype = "dir"
        <4>1. CASE h # th[t].npar BY <1>1, <1>2, <4>1, UpFacts DEF KindOK
        <4>2. CASE h = th[t].npar
          <5>2. ~ino[h].gone BY <1>1, <4>2, UpFacts DEF T3, B
          <5> QED BY <4>2, <1>3, <1>5, <5>2, CoreParts, RefNat DEF Nodes, Node, Shape, Marks
        <4> QED BY <4>1, <4>2
      <3>2. PICK pc \in {"up", "look"} : pc = "up" OBVIOUS
      <3>4. ino' = x /\ Goto(t, [th[t] EXCEPT !.cur = up], pc) /\ UNCHANGED <<rlock, calls, fatal>>
        BY <1>2, <1>3, <1>5, <2>2, <2>3, <2>9, <3>2 DEF Ancestor
      <3> QED BY <1>1, <2>1, <2>6, <3>1, <1>2, <2>4, <3>2, RefNat, <3>4, UpGoes DEF Quiet, B
    <2> QED BY <2>8, <2>9
  <1> QED BY <1>4, <1>5

LEMMA FoundSeq ==
    ASSUME NEW a \in Inums, NEW b \in Inums, NEW c \in Inums, NEW d \in Inos
    PROVE  LET f == <<a, b, c>> \o (IF d = Nil THEN <<>> ELSE <<d>>)
           IN  f \in Seq(Inums) /\ Range(f) \in SUBSET Inums /\ Range(f) # {}
  <1> DEFINE p == <<a, b, c>>
             q == IF d = Nil THEN <<>> ELSE <<d>>
             f == p \o q
  <1> HIDE DEF p, q
  <1> QED BY DEF p, q, Range, Inos

\* The lookup of the new name.
LEMMA RenameLookStep ==
    ASSUME CoreInv, NEW t \in Threads, RenameLook(t)
    PROVE  Quiet(t)
  <1>1. th[t].pc = "look" BY DEF RenameLook, At
  <1>2. /\ th[t] \in Frame /\ LocalOK(th[t], calls[t]) /\ KindOK(ino, th[t], OpOf(calls[t])) /\ rlock \in Tids
        /\ \A i \in Inums : ino[i].gone => N(th[t], OpOf(calls[t]), i) = 0
        /\ \A i \in th[t].dead : ino[i].gone BY <1>1, Ready
  <1>3. /\ OpOf(calls[t]) = "rename" /\ th[t].stg = 2 /\ calls[t] # <<>> /\ th[t].file = Nil
        /\ th[t].opar \in Inums /\ th[t].ochild \in Inums /\ th[t].npar \in Inums
    BY <1>1, <1>2 DEF LocalOK, Frame, Inos
  <1>4. PICK n \in Fns : n = Op(t).new.name BY <1>3, CallParts
  <1>5. PICK c : c = Entry(ino, th[t].npar, n) OBVIOUS
  <1>6. c \in Inos /\ (c # Nil => c \in Inums /\ ~ino[c].gone) BY <1>3, <1>5, Named DEF Inos
  <1>7. PICK f : f = Triple(t) \o (IF c = Nil THEN <<>> ELSE <<c>>) OBVIOUS
  <1>9. PICK L \in SUBSET Inums : L = Range(f) /\ L # {} BY <1>3, <1>6, <1>7, FoundSeq DEF Triple
  <1>10. PICK x : x = IF c = Nil THEN ino ELSE ilookup(ino, th[t].npar, n) OBVIOUS
  <1>11. PICK r : r = [[th[t] EXCEPT !.nchild = c, !.refs = f, !.tolock = L] EXCEPT !.pc = "lockall"] OBVIOUS
  <1>12. ino' = x /\ th' = [th EXCEPT ![t] = r] /\ rlock' = rlock /\ calls' = calls /\ fatal' = fatal
    BY <1>4, <1>5, <1>7, <1>9, <1>10, <1>11 DEF RenameLook, Goto
  <1>13. Touches(x) /\ \A j \in Inums : x[j].ref = ino[j].ref + B(c = j)
    <2>1. CASE c = Nil BY <1>10, <2>1, TouchSelf, RefNat, RootIno DEF B
    <2>2. CASE c # Nil BY <1>3, <1>5, <1>10, <2>2, TouchLookup DEF B
    <2> QED BY <2>1, <2>2
  <1>14. /\ r \in Frame /\ r.pc = "lockall" /\ r.stg = 2 /\ r.opar = th[t].opar /\ r.ochild = th[t].ochild
         /\ r.npar = th[t].npar /\ r.nchild = c /\ r.refs = f /\ r.tolock = L /\ r.next = th[t].next
         /\ r.file = Nil /\ r.dead = th[t].dead BY <1>2, <1>3, <1>6, <1>7, FoundSeq, <1>11 DEF Frame, Places, Triple
  <1>16. LocalOK(r, calls[t]) BY <1>1, <1>2, <1>3, <1>9, <1>14, <1>7 DEF LocalOK, Walking, Found, Triple
  <1>17. KindOK(ino, r, OpOf(calls[t])) BY <1>1, <1>2, <1>14 DEF KindOK, Walking
  <1>18. ASSUME NEW i \in Inums
         PROVE  /\ N(r, OpOf(calls[t]), i) = N(th[t], OpOf(calls[t]), i) + (x[i].ref - ino[i].ref)
                /\ ino[i].gone => N(r, OpOf(calls[t]), i) <= B(r.pc = "up" /\ r.cur = i)
    <2>3. T3(r, i) = T3(th[t], i) /\ T3(r, i) \in Nat BY <1>14 DEF T3, B
    <2> QED BY <1>13, <1>14, <1>3, <1>16, HeldLocked, <1>1, <1>2, HeldChild, <2>3, <1>6, RootIno, RefNat DEF B
  <1>19. \A i \in Inums : PendOf(r, OpOf(calls[t]), i) <=> PendOf(th[t], OpOf(calls[t]), i) BY <1>3 DEF PendOf
  <1>20. rlock' \in Tids /\ \A i \in r.dead : x[i].gone BY <1>2, <1>12, <1>13, <1>14 DEF Touches, Frame
  <1> QED BY <1>12, <1>13, <1>14, <1>16, <1>17, <1>18, <1>19, <1>20, QuietGoto

LEMMA Shortened ==
    ASSUME NEW q \in Seq(Inums), q # <<>>
    PROVE  /\ Len(q) \in Nat \ {0} /\ q[Len(q)] \in Inums /\ SubSeq(q, 1, Len(q) - 1) \in Seq(Inums)
           /\ Len(q) # 1 => SubSeq(q, 1, Len(q) - 1) # <<>>
  <1>1. Len(q) \in Nat \ {0} /\ q[Len(q)] \in Inums OBVIOUS
  <1>2. SubSeq(q, 1, Len(q) - 1) \in Seq(Inums) /\ Len(SubSeq(q, 1, Len(q) - 1)) = Len(q) - 1 BY <1>1
  <1>3. Len(q) # 1 => Len(SubSeq(q, 1, Len(q) - 1)) # 0 BY <1>1, <1>2
  <1>4. Len(<<>>) = 0 OBVIOUS
  <1>5. Len(q) # 1 => SubSeq(q, 1, Len(q) - 1) # <<>> BY <1>3, <1>4, Zenon
  <1> QED BY <1>1, <1>2, <1>5

LEMMA RenameUnlockStep ==
    ASSUME CoreInv, NEW t \in Threads, RenameUnlock(t)
    PROVE  Quiet(t)
  <1>1. th[t].pc = "unlock" BY DEF RenameUnlock, At
  <1>2. /\ th[t] \in Frame /\ LocalOK(th[t], calls[t]) /\ KindOK(ino, th[t], OpOf(calls[t])) /\ rlock \in Tids
        /\ \A i \in Inums : ino[i].gone => N(th[t], OpOf(calls[t]), i) = 0
        /\ \A i \in th[t].dead : ino[i].gone BY <1>1, Ready
  <1>3. /\ OpOf(calls[t]) = "rename" /\ th[t].stg = 2 /\ calls[t] # <<>> /\ th[t].file = Nil
        /\ th[t].next = "idle" /\ th[t].defers \in Seq(Inums) /\ th[t].defers # <<>> BY <1>1, <1>2 DEF LocalOK, Frame
  <1>4. CASE Panic BY <1>4, PanicStep DEF Quiet, Panic, Calm, CalmTree, PendSame
  <1>5. CASE ~Panic
    <2>1. PICK d : d = th[t].defers OBVIOUS
    <2>2. PICK i \in Inums : i = d[Len(d)] BY <1>3, <2>1, Shortened
    <2>3. PICK e \in Seq(Inums) : e = SubSeq(d, 1, Len(d) - 1) /\ (Len(d) # 1 => e # <<>>) BY <1>3, <2>1, Shortened
    <2>4. PICK x : x = iunlock(ino, i) OBVIOUS
    <2>5. PICK pc \in {"refdown", "unlock"} : pc = IF Len(d) = 1 THEN "refdown" ELSE "unlock" OBVIOUS
    <2>6. PICK r : r = [[th[t] EXCEPT !.defers = e] EXCEPT !.pc = pc] OBVIOUS
    <2>7. ino' = x /\ th' = [th EXCEPT ![t] = r] /\ rlock' \in Tids /\ calls' = calls /\ fatal' = fatal
      BY <1>2, <1>5, <2>1, <2>2, <2>3, <2>4, <2>5, <2>6 DEF RenameUnlock, Goto, Tids
    <2>8. Touches(x) /\ \A j \in Inums : x[j].ref = ino[j].ref BY <2>4, TouchSelf, TouchUnlock DEF SameRef
    <2>9. /\ r \in Frame /\ r.pc = pc /\ r.stg = 2 /\ r.opar = th[t].opar /\ r.ochild = th[t].ochild
          /\ r.npar = th[t].npar /\ r.refs = th[t].refs /\ r.defers = e /\ r.next = "idle"
          /\ r.file = Nil /\ r.dead = th[t].dead BY <1>2, <1>3, <2>5, <2>6 DEF Frame, Places
    <2>10. LocalOK(r, calls[t]) BY <1>1, <1>2, <1>3, <2>3, <2>5, <2>9 DEF LocalOK, Walking
    <2>12. ASSUME NEW j \in Inums
           PROVE  N(r, OpOf(calls[t]), j) = N(th[t], OpOf(calls[t]), j)
      BY <2>9, <1>1, <1>2, HeldRename, <2>5, <2>10, HeldCounts DEF A3
    <2>13. \A j \in Inums : N(r, OpOf(calls[t]), j) = N(th[t], OpOf(calls[t]), j) + (x[j].ref - ino[j].ref)
      BY <2>8, <2>12, HeldCounts
    <2>14. \A j \in Inums : ino[j].gone => N(r, OpOf(calls[t]), j) <= B(r.pc = "up" /\ r.cur = j) BY <1>2, <2>12 DEF B
    <2>16. \A j \in r.dead : x[j].gone BY <1>2, <2>8, <2>9 DEF Touches, Frame
    <2> QED BY <2>7, <2>8, <2>9, <2>10, <1>3, <2>5, <2>13, <2>14, <2>16, QuietGoto DEF KindOK, Walking, PendOf
  <1> QED BY <1>4, <1>5

--------------------------------------------------------------------------------
(* References that are given back without the inode's lock. *)
LEMMA RefFacts ==
    ASSUME CoreInv, NEW t \in Threads, th[t].pc \in {"refdown", "reflinks"}
    PROVE  /\ th[t] \in Frame /\ LocalOK(th[t], calls[t]) /\ KindOK(ino, th[t], OpOf(calls[t])) /\ rlock \in Tids
           /\ \A i \in Inums : ino[i].gone => N(th[t], OpOf(calls[t]), i) = 0
           /\ \A i \in th[t].dead : ino[i].gone
           /\ calls[t] # <<>> /\ th[t].file = Nil /\ th[t].refs \in Seq(Inums)
           /\ OpOf(calls[t]) # "close" /\ th[t].next \in {"idle", "look"}
           /\ th[t].refs # <<>> => Head(th[t].refs) \in Inums /\ Tail(th[t].refs) \in Seq(Inums)
           /\ \A i \in Inums : A3(th[t], i) \in Nat
           /\ \A i \in Inums : ~PendOf(th[t], OpOf(calls[t]), i)
  <1>1. /\ th[t] \in Frame /\ LocalOK(th[t], calls[t]) /\ KindOK(ino, th[t], OpOf(calls[t])) /\ rlock \in Tids
        /\ \A i \in Inums : ino[i].gone => N(th[t], OpOf(calls[t]), i) = 0
        /\ \A i \in th[t].dead : ino[i].gone BY Ready
  <1> QED BY <1>1 DEF LocalOK, Frame, A3, T3, B, PendOf, Walking

\* A step that only gives references back.
LEMMA RefStepOf ==
    ASSUME CoreInv, NEW t \in Threads, th[t].pc \in {"refdown", "reflinks"},
           NEW x, Touches(x), NEW q \in Seq(Inums), NEW d \in SUBSET Inums, NEW pc \in {"refdown", "reflinks"},
           ino' = x, th' = [th EXCEPT ![t] = [[th[t] EXCEPT !.refs = q, !.dead = d] EXCEPT !.pc = pc]],
           rlock' = rlock, calls' = calls, fatal' = fatal,
           \A i \in d : x[i].gone,
           pc = "reflinks" => q # <<>> /\ ino[Head(q)].itype # "none",
           \A i \in Inums :
             (IF pc = "reflinks" THEN Cnt(Tail(q), i) ELSE Cnt(q, i)) =
             (IF th[t].pc = "reflinks" THEN Cnt(Tail(th[t].refs), i) ELSE Cnt(th[t].refs, i)) + (x[i].ref - ino[i].ref),
           \A i \in Inums : x[i].ref <= ino[i].ref
    PROVE  Quiet(t)
  <1>1. PICK r : r = [[th[t] EXCEPT !.refs = q, !.dead = d] EXCEPT !.pc = pc] OBVIOUS
  <1>2. /\ th[t] \in Frame /\ LocalOK(th[t], calls[t]) /\ KindOK(ino, th[t], OpOf(calls[t])) /\ rlock \in Tids
        /\ \A i \in Inums : ino[i].gone => N(th[t], OpOf(calls[t]), i) = 0
        /\ calls[t] # <<>> /\ th[t].file = Nil /\ OpOf(calls[t]) # "close" BY RefFacts
  <1>3. /\ r \in Frame /\ r.pc = pc /\ r.refs = q /\ r.dead = d /\ r.stg = th[t].stg /\ r.opar = th[t].opar
        /\ r.ochild = th[t].ochild /\ r.npar = th[t].npar /\ r.next = th[t].next /\ r.file = Nil
    BY <1>1, <1>2 DEF Frame, Places
  <1>4. LocalOK(r, calls[t]) BY <1>2, <1>3 DEF LocalOK, Walking
  <1>6. ASSUME NEW i \in Inums
        PROVE  N(r, OpOf(calls[t]), i) = N(th[t], OpOf(calls[t]), i) + (x[i].ref - ino[i].ref)
    <2>1. PICK a : a = IF pc = "reflinks" THEN Cnt(Tail(q), i) ELSE Cnt(q, i) OBVIOUS
    <2>2. PICK b : b = IF th[t].pc = "reflinks" THEN Cnt(Tail(th[t].refs), i) ELSE Cnt(th[t].refs, i) OBVIOUS
    <2>4. N(th[t], OpOf(calls[t]), i) = b + A3(th[t], i) BY <1>2, <2>2, HeldRename
    <2>5. A3(r, i) = A3(th[t], i) /\ A3(r, i) \in Nat BY <1>3, RefFacts DEF A3, T3
    <2>6. a = b + (x[i].ref - ino[i].ref) BY <2>1, <2>2
    <2>7. x[i].ref \in Int /\ ino[i].ref \in Int BY TouchTree
    <2>8. b \in Nat
      <3>1. th[t].refs \in Seq(Inums) /\ (th[t].pc = "reflinks" => Tail(th[t].refs) \in Seq(Inums))
        BY <1>2 DEF LocalOK, Frame
      <3> QED BY <2>2, <3>1, CntNat
    <2> QED BY <1>3, <1>4, <2>1, HeldRename, <2>4, <2>5, <2>6, <2>7, <2>8
  <1>7. \A i \in Inums : ino[i].gone => N(r, OpOf(calls[t]), i) <= B(r.pc = "up" /\ r.cur = i)
    <2> SUFFICES ASSUME NEW i \in Inums, ino[i].gone PROVE N(r, OpOf(calls[t]), i) <= B(r.pc = "up" /\ r.cur = i)
      OBVIOUS
    <2> QED BY <1>6, <1>2, TouchTree DEF B
  <1> QED BY <1>3, <1>4, <1>6, <1>7, <1>1, <1>2, QuietGoto DEF PendOf, Walking, KindOK

LEMMA DecFields ==
    ASSUME NEW s \in Nodes, NEW i \in Inums
    PROVE  LET x == Dec(s, i)
           IN  /\ x \in Nodes /\ SameNames(s, x) /\ SameLinks(s, x) /\ SameLock(s, x) /\ SameGone(s, x)
               /\ \A j \in Inums : x[j].ref = s[j].ref - B(j = i)
  BY DEF Dec, Nodes, Node, SameNames, SameLinks, SameGone, SameLock, B

LEMMA RefDecStep ==
    ASSUME CoreInv, NEW t \in Threads, RefDec(t)
    PROVE  Quiet(t)
  <1>1. th[t].pc = "refdown" /\ th[t].refs # <<>> BY DEF RefDec, At
  <1>2. PICK i \in Inums : i = Head(th[t].refs) BY <1>1, RefFacts
  <1>3. PICK x : x = Dec(ino, i) OBVIOUS
  <1>4. PICK q \in Seq(Inums) : q = IF ino[i].ref = 1 THEN th[t].refs ELSE Tail(th[t].refs) BY <1>1, RefFacts
  <1>5. PICK d \in SUBSET Inums : d = th[t].dead BY <1>1, RefFacts DEF Frame
  <1>6. PICK pc \in {"refdown", "reflinks"} : pc = IF ino[i].ref = 1 THEN "reflinks" ELSE "refdown" OBVIOUS
  <1>9. /\ ino' = x /\ th' = [th EXCEPT ![t] = [[th[t] EXCEPT !.refs = q, !.dead = d] EXCEPT !.pc = pc]]
        /\ rlock' = rlock /\ calls' = calls /\ fatal' = fatal
    BY <1>2, <1>3, <1>4, <1>6, <1>1, RefFacts, <1>5 DEF RefDec, Goto, Frame, Dec
  <1>10. \A j \in Inums : Cnt(th[t].refs, j) = B(i = j) + Cnt(Tail(th[t].refs), j) /\ Cnt(Tail(th[t].refs), j) \in Nat
    <2>1. PICK rs \in Seq(Inums) : rs = th[t].refs /\ rs # <<>> /\ Head(rs) = i BY <1>1, <1>2, RefFacts
    <2>2. Tail(rs) \in Seq(Inums) BY <2>1
    <2>4. PICK q0 \in Seq(Inums) : q0 = Tail(rs) BY <2>2
    <2>5. \A j \in Inums : Cnt(q0, j) \in Nat BY CntNat
    <2> QED BY <2>1, CntTail, <2>4, <2>5
  <1>11. ino[i].ref >= 1 /\ ino[i].itype # "none" BY <1>1, <1>10, HeldRename, RefFacts, HeldRef DEF B
  <1>12. /\ x \in Nodes /\ SameNames(ino, x) /\ SameLinks(ino, x)
         /\ \A j \in Inums : x[j].ref = ino[j].ref - B(j = i) BY <1>3, RefNat, DecFields
  <1>13. SameGone(ino, x) BY <1>3, RefNat, DecFields
  <1>14. \A j \in Inums : x[j].gone <=> ino[j].gone BY <1>13, Zenon DEF SameGone
  <1>16. Touches(x) BY <1>11, <1>12, <1>14, RefNat DEF Touches, B
  <1>17. \A j \in Inums :
             (IF pc = "reflinks" THEN Cnt(Tail(q), j) ELSE Cnt(q, j)) =
             (IF th[t].pc = "reflinks" THEN Cnt(Tail(th[t].refs), j) ELSE Cnt(th[t].refs, j)) + (x[j].ref - ino[j].ref)
    <2> TAKE j \in Inums
    <2> QED BY <1>1, <1>10, <1>4, <1>6, <1>12, RefNat DEF B
  <1>19. (\A j \in d : x[j].gone) /\ \A j \in Inums : x[j].ref <= ino[j].ref
    BY <1>14, <1>1, <1>5, RefFacts, <1>12, RefNat DEF B
  <1> QED BY <1>1, <1>9, <1>16, <1>17, <1>2, <1>4, <1>6, <1>11, <1>19, RefStepOf

LEMMA GoneFields ==
    ASSUME NEW s \in Nodes, NEW i \in Inums, NEW b \in BOOLEAN
    PROVE  LET x == SetGone(s, i, b)
           IN  /\ x \in Nodes /\ SameNames(s, x) /\ SameLinks(s, x) /\ SameLock(s, x) /\ SameRef(s, x)
               /\ \A j \in Inums : x[j].gone = IF j = i THEN b ELSE s[j].gone
  BY DEF SetGone, Nodes, Node, SameNames, SameLinks, SameRef, SameLock

LEMMA RefLinksStep ==
    ASSUME CoreInv, NEW t \in Threads, RefLinks(t)
    PROVE  Quiet(t)
  <1>1. th[t].pc = "reflinks" BY DEF RefLinks, At
  <1>0. th[t] \in Frame /\ LocalOK(th[t], calls[t]) /\ KindOK(ino, th[t], OpOf(calls[t])) /\ th[t].refs # <<>>
    BY <1>1, RefFacts DEF LocalOK
  <1>2. PICK i \in Inums : i = Head(th[t].refs) BY <1>0, <1>1, RefFacts
  <1>3. CASE Panic BY <1>3, PanicStep DEF Quiet, Panic, Calm, CalmTree, PendSame
  <1>4. CASE ~Panic
    <2>1. PICK b \in BOOLEAN : b <=> ino[i].gone \/ ino[i].links = 0 OBVIOUS
    <2>2. PICK x : x = SetGone(ino, i, b) OBVIOUS
    <2>3. PICK q \in Seq(Inums) : q = Tail(th[t].refs) BY <1>0, <1>1, RefFacts
    <2>4. PICK d \in SUBSET Inums : d = IF ino[i].links = 0 /\ th[t].chk THEN th[t].dead \cup {i} ELSE th[t].dead
      BY <1>0 DEF Frame
    <2>5. PICK pc \in {"refdown", "reflinks"} : pc = "refdown" OBVIOUS
    <2>8. x = [ino EXCEPT ![i].gone = @ \/ ino[i].links = 0]
      <3>3. b = (ino[i].gone \/ ino[i].links = 0) BY <2>1, RefNat DEF Node, Nodes
      <3> QED BY <2>2, <3>3, Zenon DEF SetGone
    <2>9. /\ ino' = x /\ th' = [th EXCEPT ![t] = [[th[t] EXCEPT !.refs = q, !.dead = d] EXCEPT !.pc = pc]]
          /\ rlock' = rlock /\ calls' = calls /\ fatal' = fatal
      BY <1>0, <1>2, <1>4, <2>3, <2>4, <2>5, <2>8 DEF RefLinks, Goto, Frame
    <2>10. /\ x \in Nodes /\ SameNames(ino, x) /\ SameLinks(ino, x) /\ SameRef(ino, x)
           /\ \A j \in Inums : x[j].gone = IF j = i THEN b ELSE ino[j].gone BY <2>2, RefNat, GoneFields
    <2>12. \A j \in Inums : x[j].gone <=> ino[j].gone \/ (j = i /\ ino[i].links = 0) BY <2>1, <2>10, Zenon
    <2>14. Touches(x) BY <1>2, <1>4, <2>10, <1>0, <1>1, <2>12 DEF Touches, RefLinks, SameRef, KindOK
    <2>15. \A j \in Inums :
             (IF pc = "reflinks" THEN Cnt(Tail(q), j) ELSE Cnt(q, j)) =
             (IF th[t].pc = "reflinks" THEN Cnt(Tail(th[t].refs), j) ELSE Cnt(th[t].refs, j)) + (x[j].ref - ino[j].ref)
      <3> TAKE j \in Inums
      <3>1. Cnt(q, j) \in Nat BY CntNat
      <3> QED BY <1>1, <2>3, <2>5, <2>10, <3>1, RefNat DEF SameRef
    <2>16. (\A j \in d : x[j].gone) /\ \A j \in Inums : x[j].ref <= ino[j].ref
      BY <1>1, <2>4, <2>12, <2>10, RefFacts, RefNat DEF SameRef
    <2> QED BY <1>1, <2>9, <2>14, <2>15, <2>16, <2>5, RefStepOf
  <1> QED BY <1>3, <1>4

LEMMA RefDoneStep ==
    ASSUME CoreInv, NEW t \in Threads, RefDone(t)
    PROVE  Quiet(t)
  <1>2. /\ th[t] \in Frame /\ LocalOK(th[t], calls[t]) /\ KindOK(ino, th[t], OpOf(calls[t])) /\ rlock \in Tids
        /\ \A i \in Inums : ino[i].gone => N(th[t], OpOf(calls[t]), i) = 0
        /\ \A i \in th[t].dead : ino[i].gone
        /\ calls[t] # <<>> /\ th[t].file = Nil /\ OpOf(calls[t]) # "close"
        /\ \A i \in Inums : ~PendOf(th[t], OpOf(calls[t]), i) BY RefFacts DEF RefDone, At
  <1>3. ASSUME NEW i \in Inums PROVE N(th[t], OpOf(calls[t]), i) = A3(th[t], i)
    BY <1>2, HeldRename, CntFew, RefFacts DEF RefDone, At
  <1>4. CASE th[t].next = "look"
    <2>1. PICK r : r = [[th[t] EXCEPT !.chk = TRUE] EXCEPT !.pc = "look"] OBVIOUS
    <2>2. PICK x : x = ino OBVIOUS
    <2>3. ino' = x /\ th' = [th EXCEPT ![t] = r] /\ rlock' = rlock /\ calls' = calls /\ fatal' = fatal
      BY <1>4, <2>1, <2>2 DEF RefDone, Goto
    <2>4. /\ r \in Frame /\ r.pc = "look" /\ r.stg = th[t].stg /\ r.opar = th[t].opar /\ r.dead = th[t].dead
          /\ r.ochild = th[t].ochild /\ r.npar = th[t].npar /\ r.next = "look" /\ r.file = Nil
      BY <1>2, <1>4, <2>1 DEF Frame, Places
    <2>5. LocalOK(r, calls[t]) BY <1>2, <1>4, <2>4 DEF LocalOK, Walking
    <2>7. ASSUME NEW i \in Inums PROVE N(r, OpOf(calls[t]), i) = N(th[t], OpOf(calls[t]), i)
      BY <1>3, <1>4, <2>4, <2>5, HeldChild DEF A3, T3
    <2>8. \A i \in Inums : N(r, OpOf(calls[t]), i) = N(th[t], OpOf(calls[t]), i) + (x[i].ref - ino[i].ref)
      BY <2>2, <2>7, HeldCounts
    <2>9. \A i \in Inums : ino[i].gone => N(r, OpOf(calls[t]), i) <= B(r.pc = "up" /\ r.cur = i) BY <1>2, <2>7 DEF B
    <2>11. rlock' \in Tids /\ (\A i \in r.dead : x[i].gone) /\ Touches(x) BY <1>2, <2>2, <2>3, <2>4, TouchSelf
    <2> QED BY <2>3, <2>4, <2>5, <1>2, <1>4, <2>8, <2>9, <2>11, QuietGoto DEF KindOK, Walking, PendOf
  <1>5. CASE th[t].next # "look"
    <2>2. PICK s : s = ino OBVIOUS
    <2>3. PICK d \in SUBSET Inums : d = th[t].dead BY <1>2 DEF Frame
    <2>7. MayFinish(t, s, d, Nil) /\ Nil \in Inos
      BY <1>5, <1>2, <2>2, <2>3, TouchSelf, <1>3, RefNat, RootIno DEF MayFinish, Inos, RefDone, Tids, PendOf,
         Walking, B, A3
    <2> QED BY <2>7, QuietFinish
  <1> QED BY <1>4, <1>5

--------------------------------------------------------------------------------
(* The checks of a rename that holds all locks. *)
LEMMA ValidateTouch ==
    ASSUME CoreInv, NEW y, Touches(y), SameGone(ino, y), NEW i \in Inums, NEW n \in Fns,
           \A j \in Inums : y[j].ref >= ino[j].ref
    PROVE  LET x == ilookup_validate(y, i, n)
           IN  /\ Touches(x) /\ SameGone(ino, x) /\ SameLock(y, x)
               /\ \A j \in Inums : x[j].ref >= ino[j].ref
               /\ n \notin y[i].fresh => x = y
  <1> DEFINE x == ilookup_validate(y, i, n)
  <1>1. y \in Nodes /\ SameNames(ino, y) /\ SameLinks(ino, y) /\ Shape(ino) /\ ino \in Nodes
    BY DEF Touches, CoreInv, TypeInv
  <1>4. /\ x \in Nodes /\ SameNames(y, x) /\ SameLinks(y, x) /\ SameLock(y, x)
        /\ n \in y[i].fresh => \A j \in Inums : x[j].ref = y[j].ref + B(j = y[i].ents[n])
        /\ n \notin y[i].fresh => x = y BY <1>1, ShapeSame, ilookup_validateFields DEF Shape
  <1>5. SameGone(y, x) BY <1>1, ShapeSame, ilookup_validateFields DEF Shape
  <1> HIDE DEF x
  <1>7. SameGone(ino, x) BY <1>5, SameTrans
  <1>8. \A j \in Inums : x[j].gone <=> ino[j].gone BY <1>7, Zenon DEF SameGone
  <1>9. n \in y[i].fresh => y[i].ents[n] \in Inums /\ ino[y[i].ents[n]].itype # "none"
    <2> SUFFICES ASSUME n \in y[i].fresh PROVE y[i].ents[n] \in Inums /\ ino[y[i].ents[n]].itype # "none" OBVIOUS
    <2> QED BY <1>1, ShapeSame DEF SameNames, Shape, Nodes, Node, Inos
  <1>11. ASSUME NEW j \in Inums
         PROVE  x[j].ref >= ino[j].ref /\ (x[j].ref # ino[j].ref => ino[j].itype # "none")
    <2>1. CASE n \notin y[i].fresh BY <1>4, <2>1 DEF Touches
    <2>2. CASE n \in y[i].fresh
      <3>1. x[j].ref = y[j].ref + B(j = y[i].ents[n]) BY <1>4, <2>2
      <3> QED BY <1>9, <1>1, <2>2, <3>1 DEF B, Nodes, Node, Touches
    <2> QED BY <2>1, <2>2
  <1> QED BY <1>4, <1>7, <1>11, <1>1, SameTrans, <1>8 DEF x, Touches

LEMMA KnowsTouch ==
    ASSUME CoreInv, NEW y, Touches(y), SameGone(ino, y), NEW i \in Inums, NEW n
    PROVE  Touches(Knows(y, i, n)) /\ SameGone(ino, Knows(y, i, n)) /\ SameRef(y, Knows(y, i, n)) /\ SameLock(y, Knows(y, i, n))
  <1> DEFINE x == Knows(y, i, n)
  <1>3. SameGone(y, x) BY KnowsFields DEF Touches
  <1> HIDE DEF x
  <1>5. SameGone(ino, x) BY <1>3, SameTrans
  <1>6. \A j \in Inums : x[j].gone <=> ino[j].gone BY <1>5, Zenon DEF SameGone
  <1> QED BY KnowsFields, <1>5, SameTrans, <1>6 DEF x, Touches, SameRef

LEMMA LockedFacts ==
    ASSUME CoreInv, NEW t \in Threads, AtOp(t, "rename", "locked")
    PROVE  /\ th[t].pc = "locked" /\ ~fatal /\ th[t] \in Frame /\ LocalOK(th[t], calls[t]) /\ rlock \in Tids
           /\ KindOK(ino, th[t], OpOf(calls[t])) /\ OpOf(calls[t]) = "rename" /\ th[t].stg = 2 /\ calls[t] # <<>>
           /\ th[t].file = Nil /\ th[t].opar \in Inums /\ th[t].ochild \in Inums /\ th[t].npar \in Inums
           /\ th[t].nchild \in Inos /\ th[t].refs = Found(th[t]) /\ th[t].defers # <<>>
           /\ ino[th[t].npar].itype = "dir" /\ Op(t).old.name \in Fns /\ Op(t).new.name \in Fns
           /\ \A i \in Inums : N(th[t], OpOf(calls[t]), i) = T3(th[t], i) + B(th[t].nchild = i)
           /\ \A i \in Inums : ino[i].gone => N(th[t], OpOf(calls[t]), i) = 0
           /\ \A i \in th[t].dead : ino[i].gone
           /\ th[t].nchild # Nil => th[t].nchild \in Inums
  <1>5. \A i \in Inums : N(th[t], OpOf(calls[t]), i) = T3(th[t], i) + B(th[t].nchild = i)
    <2> TAKE i \in Inums
    <2> QED BY OpIs, Ready, HeldLocked DEF AtOp, At
  <1> QED BY OpIs, Ready, <1>5, CallParts DEF KindOK, LocalOK, Frame, Inos, AtOp, At

\* They change nothing, except that they may take references.
LEMMA CheckedTouch ==
    ASSUME CoreInv, NEW t \in Threads, AtOp(t, "rename", "locked")
    PROVE  /\ Touches(Checked(t)) /\ SameGone(ino, Checked(t)) /\ SameLock(ino, Checked(t))
           /\ \A j \in Inums : Checked(t)[j].ref >= ino[j].ref
           /\ ~Leaks(t) => \A j \in Inums : Checked(t)[j].ref = ino[j].ref
  <1>1. PICK m \in Fns : m = Op(t).old.name BY LockedFacts
  <1>2. PICK n \in Fns : n = Op(t).new.name BY LockedFacts
  <1>3. PICK p \in Inums : p = th[t].opar BY LockedFacts
  <1>4. PICK q \in Inums : q = th[t].npar BY LockedFacts
  <1>5. PICK s : s = ilookup_validate(ino, p, m) OBVIOUS
  <1>7. /\ Touches(s) /\ SameGone(ino, s) /\ SameLock(ino, s) /\ (\A j \in Inums : s[j].ref >= ino[j].ref)
        /\ m \notin ino[p].fresh => s = ino BY <1>5, TouchSelf, RefNat, ValidateTouch DEF SameGone
  <1>8. Checked(t) = IF OldGone(t) THEN s ELSE IF th[t].nchild # Nil THEN ilookup_validate(s, q, n) ELSE Knows(s, q, n)
    BY <1>1, <1>2, <1>3, <1>4, <1>5 DEF Checked, Knows
  <1>9. ~Leaks(t) => m \notin ino[p].fresh /\ (th[t].nchild # Nil => n \notin ino[q].fresh)
    BY <1>1, <1>2, <1>3, <1>4, LockedFacts DEF Leaks, At
  <1>10. CASE OldGone(t) BY <1>7, <1>8, <1>9, <1>10, RefNat
  <1>11. CASE ~OldGone(t) /\ th[t].nchild # Nil
    <2>1. PICK x : x = ilookup_validate(s, q, n) OBVIOUS
    <2>2. /\ Touches(x) /\ SameGone(ino, x) /\ SameLock(s, x) /\ (\A j \in Inums : x[j].ref >= ino[j].ref)
          /\ n \notin s[q].fresh => x = s BY <1>7, <2>1, ValidateTouch
    <2> QED BY <1>7, <1>8, <1>9, <1>11, <2>1, <2>2, SameTrans, RefNat
  <1>12. CASE ~OldGone(t) /\ th[t].nchild = Nil
    <2>1. PICK x : x = Knows(s, q, n) OBVIOUS
    <2>3. SameLock(ino, x) /\ \A j \in Inums : x[j].ref = s[j].ref BY <1>7, <2>1, KnowsTouch, SameTrans DEF SameRef
    <2> QED BY <1>7, <1>8, <1>9, <1>12, <2>1, KnowsTouch, <2>3, RefNat
  <1> QED BY <1>10, <1>11, <1>12

LEMMA LoosenFields ==
    ASSUME NEW y \in Nodes, NEW H
    PROVE  LET x == Loosen(y, H)
           IN  /\ x \in Nodes /\ SameNames(y, x) /\ SameLinks(y, x) /\ SameRef(y, x) /\ SameGone(y, x)
               /\ \A j \in Inums : x[j].lock = IF j \in H THEN NoThread ELSE y[j].lock
  <1>3. Loosen(y, H) \in Nodes /\ \A i \in Inums : Loosen(y, H)[i] = IF i \in H THEN iunlock(y, i)[i] ELSE y[i]
    BY iunlockFields DEF Loosen, Nodes
  <1>4. \A i \in Inums : /\ SameNames(y, iunlock(y, i)) /\ SameLinks(y, iunlock(y, i)) /\ SameRef(y, iunlock(y, i))
                         /\ iunlock(y, i)[i].lock = NoThread BY iunlockFields
  <1>5. \A i \in Inums : SameGone(y, iunlock(y, i)) BY iunlockFields
  <1>6. \A i \in Inums : Loosen(y, H)[i].gone = y[i].gone BY <1>3, <1>5, Zenon DEF SameGone
  <1> QED BY <1>3, <1>6, <1>4 DEF SameNames, SameLinks, SameRef, SameGone

LEMMA RenameRetryStep ==
    ASSUME CoreInv, NEW t \in Threads, RenameRetry(t)
    PROVE  CoreStep(t) /\ Calm(t) /\ (~Leaks(t) => RefExact(t))
  <1>1. AtOp(t, "rename", "locked") BY DEF RenameRetry
  <1>2. PICK y : y = Checked(t) OBVIOUS
  <1>3. PICK H : H = IF th[t].nchild = Nil THEN {th[t].opar, th[t].ochild, th[t].npar}
                     ELSE {th[t].opar, th[t].ochild, th[t].npar, th[t].nchild} OBVIOUS
  <1>4. PICK x : x = Loosen(y, H) OBVIOUS
  <1>5. PICK rs \in Seq(Inums) : rs = IF th[t].nchild = Nil THEN <<>> ELSE <<th[t].nchild>>
    <2>1. <<>> \in Seq(Inums) /\ \A c \in Inums : <<c>> \in Seq(Inums) OBVIOUS
    <2> QED BY <1>1, <2>1, LockedFacts
  <1>6. PICK r : r = [[th[t] EXCEPT !.refs = rs, !.chk = FALSE, !.nchild = Nil, !.next = "look"] EXCEPT !.pc = "refdown"]
    OBVIOUS
  <1>7. ino' = x /\ th' = [th EXCEPT ![t] = r] /\ rlock' = rlock /\ calls' = calls /\ fatal' = fatal
    BY <1>2, <1>3, <1>4, <1>5, <1>6 DEF RenameRetry, Goto, Loosen
  <1>8. /\ Touches(y) /\ SameGone(ino, y) /\ (\A j \in Inums : y[j].ref >= ino[j].ref)
        /\ ~Leaks(t) => \A j \in Inums : y[j].ref = ino[j].ref BY <1>1, <1>2, CheckedTouch
  <1>12. \A j \in Inums : (x[j].gone <=> ino[j].gone)
    <2>1. SameGone(ino, x) BY <1>8, <1>4, LoosenFields, SameTrans DEF Touches
    <2> QED BY <2>1, Zenon DEF SameGone
  <1>13. \A j \in Inums : x[j].ref = y[j].ref BY <1>4, <1>8, LoosenFields DEF SameRef, Touches
  <1>14. Touches(x) BY <1>8, <1>4, LoosenFields, SameTrans, <1>12, <1>13 DEF Touches
  <1>15. /\ th[t] \in Frame /\ LocalOK(th[t], calls[t]) /\ rlock \in Tids /\ calls[t] # <<>> /\ th[t].file = Nil
         /\ OpOf(calls[t]) = "rename" /\ th[t].stg = 2 /\ th[t].npar \in Inums /\ th[t].opar \in Inums
         /\ ino[th[t].npar].itype = "dir" /\ th[t].ochild \in Inums BY <1>1, LockedFacts
  <1>16. /\ r \in Frame /\ r.pc = "refdown" /\ r.refs = rs /\ r.stg = 2 /\ r.opar = th[t].opar /\ r.dead = th[t].dead
         /\ r.ochild = th[t].ochild /\ r.npar = th[t].npar /\ r.next = "look" /\ r.file = Nil
    <2>1. Nil \in Inos BY DEF Inos
    <2> QED BY <1>6, <1>15, <2>1 DEF Frame, Places
  <1>17. LocalOK(r, calls[t]) BY <1>15, <1>16, RootIno DEF LocalOK, Walking
  <1>18. KindOK(ino, r, OpOf(calls[t])) BY <1>15, <1>16 DEF KindOK, Walking
  <1>19. ASSUME NEW i \in Inums
         PROVE  N(r, OpOf(calls[t]), i) = N(th[t], OpOf(calls[t]), i) /\ N(th[t], OpOf(calls[t]), i) \in Nat
    <2>2. PICK c : c = th[t].nchild OBVIOUS
    <2>3. Cnt(<<>>, i) = 0 /\ Cnt(<<c>>, i) = B(c = i) BY CntFew
    <2>6. N(th[t], OpOf(calls[t]), i) = T3(th[t], i) + B(c = i) BY <1>1, <2>2, LockedFacts
    <2> QED BY <1>16, <1>17, HeldRename, <1>5, <2>2, <2>3, RootIno, <2>6 DEF B, A3, T3
  <1>20. ASSUME NEW i \in Inums
         PROVE  /\ N(r, OpOf(calls[t]), i) <= N(th[t], OpOf(calls[t]), i) + (x[i].ref - ino[i].ref)
                /\ ino[i].gone => N(r, OpOf(calls[t]), i) <= B(r.pc = "up" /\ r.cur = i)
    BY <1>19, <1>8, <1>13, <1>14, TouchTree, <1>1, LockedFacts DEF B
  <1>22. rlock' \in Tids /\ (\A i \in r.dead : x[i].gone) BY <1>1, <1>7, <1>12, <1>15, <1>16, LockedFacts DEF Frame
  <1>23. CoreStep(t) /\ Calm(t) /\ th'[t] = r
    BY <1>7, <1>14, <1>16, <1>17, <1>18, <1>20, <1>15, <1>22, LeakGoto DEF PendOf
  <1>24. ASSUME ~Leaks(t) PROVE RefExact(t) BY <1>7, <1>23, <1>8, <1>13, <1>19, <1>24, RefNat DEF RefExact
  <1> QED BY <1>23, <1>24

LEMMA RenameFrame ==
    ASSUME CoreInv, NEW t \in Threads, AtOp(t, "rename", "locked"), NEW r,
           r = MovedFrame(t)
    PROVE  /\ r \in Frame /\ LocalOK(r, calls[t]) /\ r.dead = th[t].dead /\ r.pc = "unlock" /\ r.next = "idle"
           /\ \A s : KindOK(s, r, OpOf(calls[t]))
           /\ \A i \in Inums : /\ N(r, OpOf(calls[t]), i) = N(th[t], OpOf(calls[t]), i)
                               /\ N(th[t], OpOf(calls[t]), i) \in Nat
                               /\ ino[i].gone => N(r, OpOf(calls[t]), i) <= B(r.pc = "up" /\ r.cur = i)
           /\ \A i \in Inums : ~PendOf(r, OpOf(calls[t]), i) /\ ~PendOf(th[t], OpOf(calls[t]), i)
  <1>1. /\ th[t] \in Frame /\ LocalOK(th[t], calls[t]) /\ rlock \in Tids /\ calls[t] # <<>> /\ th[t].file = Nil
        /\ OpOf(calls[t]) = "rename" /\ th[t].stg = 2 /\ th[t].npar \in Inums /\ th[t].opar \in Inums
        /\ th[t].ochild \in Inums /\ th[t].refs = Found(th[t]) /\ th[t].defers # <<>> BY LockedFacts
  <1>2. /\ r \in Frame /\ r.pc = "unlock" /\ r.refs = th[t].refs /\ r.stg = 2 /\ r.opar = th[t].opar /\ r.dead = th[t].dead
        /\ r.ochild = th[t].ochild /\ r.npar = th[t].npar /\ r.next = "idle" /\ r.file = Nil /\ r.defers = th[t].defers
    BY <1>1 DEF Frame, Places, MovedFrame
  <1>3. LocalOK(r, calls[t]) BY <1>1, <1>2, RootIno DEF LocalOK, Walking
  <1>5. ASSUME NEW i \in Inums
        PROVE  /\ N(r, OpOf(calls[t]), i) = N(th[t], OpOf(calls[t]), i)
               /\ N(th[t], OpOf(calls[t]), i) \in Nat
               /\ ino[i].gone => N(r, OpOf(calls[t]), i) <= B(r.pc = "up" /\ r.cur = i)
    BY <1>1, <1>2, <1>3, HeldRename, FoundCount, LockedFacts, HeldCounts DEF B
  <1> QED BY <1>2, <1>3, <1>1, <1>5 DEF KindOK, Walking, PendOf

LEMMA RenameStopped ==
    ASSUME CoreInv, NEW t \in Threads, Rename(t), Stopped(t)
    PROVE  CoreStep(t) /\ Calm(t) /\ (~Leaks(t) => RefExact(t))
  <1>2. PICK x : x = Checked(t) OBVIOUS
  <1>3. PICK r : r = MovedFrame(t) OBVIOUS
  <1>4. ino' = x /\ th' = [th EXCEPT ![t] = r] /\ rlock' = rlock /\ calls' = calls /\ fatal' = fatal
    BY <1>2, <1>3 DEF Rename, Goto, MovedFrame
  <1>5. /\ Touches(x) /\ SameGone(ino, x) /\ (\A j \in Inums : x[j].ref >= ino[j].ref)
        /\ ~Leaks(t) => \A j \in Inums : x[j].ref = ino[j].ref BY <1>2, CheckedTouch DEF Rename
  <1>6. /\ r \in Frame /\ LocalOK(r, calls[t]) /\ r.dead = th[t].dead /\ KindOK(ino, r, OpOf(calls[t]))
        /\ \A i \in Inums : /\ N(r, OpOf(calls[t]), i) = N(th[t], OpOf(calls[t]), i)
                            /\ N(th[t], OpOf(calls[t]), i) \in Nat
                            /\ ino[i].gone => N(r, OpOf(calls[t]), i) <= B(r.pc = "up" /\ r.cur = i)
        /\ \A i \in Inums : PendOf(r, OpOf(calls[t]), i) <=> PendOf(th[t], OpOf(calls[t]), i)
    BY <1>3, RenameFrame DEF Rename
  <1>7. ASSUME NEW i \in Inums
        PROVE  N(r, OpOf(calls[t]), i) <= N(th[t], OpOf(calls[t]), i) + (x[i].ref - ino[i].ref)
    BY <1>6, <1>5, TouchTree
  <1>8. rlock' \in Tids /\ (\A i \in r.dead : x[i].gone) BY <1>4, <1>5, <1>6, LockedFacts DEF Touches, Frame, Rename
  <1>10. ASSUME ~Leaks(t) PROVE RefExact(t) BY <1>4, <1>7, <1>8, LeakGoto, <1>5, <1>6, <1>10, RefNat DEF RefExact
  <1> QED BY <1>4, <1>5, <1>6, <1>7, <1>8, LeakGoto, <1>10

--------------------------------------------------------------------------------
(* Changes of the tree. *)
\* How many names an inode has after an entry has changed.
LEMMA NamesSet ==
    ASSUME NEW s \in Nodes, NEW x \in Nodes, NEW p \in Inums, NEW n \in Fns, NEW c, SetEntry(s, x, p, n, c),
           s[p].itype = "dir", NEW i \in Inums
    PROVE  /\ NamesIn(x, i) = (NamesIn(s, i) \ {<<p, n>>}) \cup (IF c = i THEN {<<p, n>>} ELSE {})
           /\ Cardinality(NamesIn(x, i)) = Cardinality(NamesIn(s, i)) - B(s[p].ents[n] = i) + B(c = i)
  <1>2. ASSUME NEW j \in Inums, NEW m \in Fns
        PROVE  /\ x[j].itype = s[j].itype
               /\ x[j].ents[m] = IF j = p /\ m = n THEN c ELSE s[j].ents[m] BY DEF SetEntry
  <1>3. ASSUME NEW e \in Inums \X Fns
        PROVE  e \in NamesIn(x, i) <=> (IF e = <<p, n>> THEN c = i ELSE e \in NamesIn(s, i))
    <2>1. PICK j \in Inums, m \in Fns : e = <<j, m>> OBVIOUS
    <2> QED BY NamesAre, <1>2, <2>1
  <1>5. NamesIn(x, i) = (NamesIn(s, i) \ {<<p, n>>}) \cup (IF c = i THEN {<<p, n>>} ELSE {}) BY <1>3, NamesAre
  <1>6. <<p, n>> \in NamesIn(s, i) <=> s[p].ents[n] = i BY NamesAre
  <1>7. IsFiniteSet(NamesIn(s, i)) /\ Cardinality(NamesIn(s, i)) \in Nat BY NamesFinite
  <1>8. PICK R : R = NamesIn(s, i) \ {<<p, n>>} OBVIOUS
  <1>10. Cardinality(R) = Cardinality(NamesIn(s, i)) - B(s[p].ents[n] = i)
    <2>1. CASE <<p, n>> \in NamesIn(s, i) BY <1>6, <2>1, <1>7, <1>8, FS_RemoveElement DEF B
    <2>2. CASE <<p, n>> \notin NamesIn(s, i)
      <3>1. R = NamesIn(s, i) BY <1>8, <2>2
      <3> QED BY <1>6, <1>7, <2>2, <3>1 DEF B
    <2> QED BY <2>1, <2>2
  <1>11. Cardinality(NamesIn(x, i)) = Cardinality(R) + B(c = i)
    <2>1. CASE c = i BY <2>1, <1>5, <1>8, <1>7, FS_Subset, FS_CardinalityType, FS_AddElement DEF B
    <2>2. CASE c # i BY <1>7, FS_Subset, FS_CardinalityType, <2>2, <1>5, <1>8 DEF B
    <2> QED BY <2>1, <2>2
  <1> QED BY <1>5, <1>10, <1>11

\* Nothing but locks changes.
LEMMA SameTree ==
    ASSUME NEW y, TreeTo(y), NEW x \in Nodes, SameNames(y, x), SameLinks(y, x), SameGone(y, x), SameRef(y, x)
    PROVE  TreeTo(x) /\ \A i \in Inums : NamesIn(x, i) = NamesIn(y, i)
  <1>4. \A j \in Inums : x[j].gone <=> y[j].gone BY Zenon DEF SameGone
  <1> QED BY ShapeSame, <1>4, RootIno DEF TreeTo, Marks, RootOK, Evolves, SameNames, SameLinks, SameRef

\* A reference is given back.
LEMMA DownTree ==
    ASSUME NEW y, TreeTo(y), NEW i \in Inums, y[i].ref >= 1, ~ino[i].gone, y[i].itype # "none"
    PROVE  LET x == iunlock_refdown(y, i)
               z == Refdown(y, i)
           IN  /\ TreeTo(x) /\ TreeTo(z)
               /\ SameNames(y, x) /\ SameLinks(y, x) /\ SameNames(y, z) /\ SameLinks(y, z)
               /\ \A j \in Inums : x[j].ref = y[j].ref - B(j = i) /\ z[j].ref = y[j].ref - B(j = i)
               /\ \A j \in Inums : (x[j].gone <=> y[j].gone \/ (j = i /\ LastRef(y, i)))
               /\ \A j \in Inums : (z[j].gone <=> y[j].gone \/ (j = i /\ LastRef(y, i)))
               /\ \A j \in Inums : NamesIn(x, j) = NamesIn(y, j) /\ NamesIn(z, j) = NamesIn(y, j)
  <1> DEFINE x == iunlock_refdown(y, i)
             z == Refdown(y, i)
  <1>1. y \in Nodes /\ Shape(y) /\ Marks(y) /\ RootOK(y) /\ Evolves(ino, y) BY DEF TreeTo
  <1>2. /\ z \in Nodes /\ SameNames(y, z) /\ SameLinks(y, z) /\ (\A j \in Inums : z[j].ref = y[j].ref - B(j = i))
    BY <1>1, RefdownFields
  <1>3. \A j \in Inums : (z[j].gone <=> y[j].gone \/ (j = i /\ LastRef(y, i))) BY <1>1, RefdownFields, Zenon
  <1>4. x = iunlock(z, i) BY DEF iunlock_refdown
  <1> HIDE DEF x, z
  <1>6. SameGone(z, x) BY <1>2, <1>4, iunlockFields
  <1>9. \A j \in Inums : y[j].ref \in Int /\ (j # i => z[j].ref = y[j].ref) BY <1>1, <1>2 DEF Nodes, Node, B
  <1>13. Evolves(ino, z)
    <2> SUFFICES ASSUME NEW j \in Inums
                 PROVE  /\ ino[j].gone => z[j].gone
                        /\ z[j].gone => ino[j].gone \/ z[j].ref = 0
                        /\ \/ z[j].itype = ino[j].itype \/ ino[j].itype = "none" \/ z[j].itype = "dead"
                        /\ z[j].itype = "none" => ino[j].itype = "none" BY DEF Evolves
    <2> QED BY <1>2, <1>9, <1>1, <1>3 DEF Evolves, SameNames, SameLinks, LastRef, B
  <1>14. TreeTo(z)
    BY <1>2, ShapeSame, <1>1, <1>3, <1>9, RootIno, <1>13 DEF TreeTo, Marks, RootOK, SameNames, SameLinks, LastRef, B
  <1>18. \A j \in Inums : (x[j].gone <=> y[j].gone \/ (j = i /\ LastRef(y, i))) BY <1>3, <1>6, Zenon DEF SameGone
  <1> QED
    BY <1>2, <1>3, <1>14, <1>6, SameTree, <1>4, iunlockFields, SameTrans, <1>18, <1>1, ShapeSame DEF x, z, SameRef

\* An entry changes.
LEMMA EntryTree ==
    ASSUME NEW y, TreeTo(y), NEW x \in Nodes, NEW p \in Inums, NEW n \in Fns, NEW c,
           SetEntry(y, x, p, n, c), SameLinks(y, x), SameGone(y, x), SameRef(y, x),
           y[p].itype = "dir", c = Nil \/ (c \in Inums /\ c # iroot /\ y[c].itype # "none")
    PROVE  /\ TreeTo(x)
           /\ \A i \in Inums : Cardinality(NamesIn(x, i)) = Cardinality(NamesIn(y, i)) - B(y[p].ents[n] = i) + B(c = i)
  <1>3. \A j \in Inums : x[j].itype = y[j].itype /\ x[j].links = y[j].links /\ x[j].ref = y[j].ref /\ x[j].dotdot = y[j].dotdot
    BY DEF SetEntry, SameLinks, SameRef
  <1>4. \A j \in Inums : x[j].gone <=> y[j].gone BY Zenon DEF SameGone
  <1>7. Shape(x)
    <2> SUFFICES ASSUME NEW i \in Inums
                 PROVE  /\ x[i].itype # "dir" => x[i].ents = NoEntries
                        /\ x[i].itype \in {"none", "file"} => x[i].dotdot = Nil
                        /\ \A m \in Fns : x[i].ents[m] # Nil => x[i].ents[m] # iroot /\ x[x[i].ents[m]].itype # "none"
                        /\ \A m \in x[i].fresh : x[i].ents[m] # Nil
                        /\ x[i].dotdot # Nil => x[x[i].dotdot].itype # "none" BY DEF Shape
    <2>4. CASE i # p BY <1>3, <2>4 DEF SetEntry, Shape, Nodes, Node, TreeTo, Inos
    <2>5. CASE i = p BY <1>3, <2>5, RootIno DEF SetEntry, Shape, Nodes, Node, TreeTo, Inos
    <2> QED BY <2>4, <2>5
  <1> QED BY NamesSet, <1>3, <1>4, RootIno, <1>7 DEF TreeTo, Marks, RootOK, Evolves

\* A link is counted.
LEMMA LinkTree ==
    ASSUME NEW y, TreeTo(y), NEW x \in Nodes, NEW i \in Inums, SameNames(y, x), SameGone(y, x), SameRef(y, x),
           \A j \in Inums : j # i => x[j].links = y[j].links,
           i # iroot \/ x[i].links > 0, y[i].itype # "none", ~y[i].gone
    PROVE  TreeTo(x) /\ \A j \in Inums : NamesIn(x, j) = NamesIn(y, j)
  <1>4. \A j \in Inums : x[j].gone <=> y[j].gone BY Zenon DEF SameGone
  <1> QED BY ShapeSame, <1>4, RootIno DEF TreeTo, Marks, RootOK, Evolves, SameNames, SameRef

LEMMA DotFields ==
    ASSUME NEW s \in Nodes, NEW i \in Inums, NEW p \in Inums
    PROVE  LET x == SetDotdot(s, i, p)
           IN  /\ x \in Nodes /\ SameLinks(s, x) /\ SameLock(s, x) /\ SameRef(s, x) /\ SameGone(s, x)
               /\ \A j \in Inums : /\ x[j].itype = s[j].itype /\ x[j].ents = s[j].ents /\ x[j].fresh = s[j].fresh
                                   /\ x[j].dotdot = IF j = i THEN p ELSE s[j].dotdot
  BY DEF SetDotdot, Nodes, Node, Inos, SameLinks, SameRef, SameLock, SameGone

LEMMA DotTree ==
    ASSUME NEW y, TreeTo(y), NEW i \in Inums, y[i].itype = "dir", NEW p \in Inums, y[p].itype # "none"
    PROVE  LET x == SetDotdot(y, i, p)
           IN  TreeTo(x) /\ \A j \in Inums : NamesIn(x, j) = NamesIn(y, j)
  <1> DEFINE x == SetDotdot(y, i, p)
  <1>1. y \in Nodes /\ Shape(y) /\ Marks(y) /\ RootOK(y) /\ Evolves(ino, y) BY DEF TreeTo
  <1>2. /\ x \in Nodes /\ SameLinks(y, x) /\ SameRef(y, x)
        /\ \A j \in Inums : /\ x[j].itype = y[j].itype /\ x[j].ents = y[j].ents /\ x[j].fresh = y[j].fresh
                            /\ x[j].dotdot = IF j = i THEN p ELSE y[j].dotdot BY <1>1, DotFields
  <1>3. SameGone(y, x) BY <1>1, DotFields
  <1> HIDE DEF x
  <1>4. \A j \in Inums : x[j].gone <=> y[j].gone BY <1>3, Zenon DEF SameGone
  <1>8. Shape(x)
    <2> SUFFICES ASSUME NEW j \in Inums
                 PROVE  /\ x[j].itype # "dir" => x[j].ents = NoEntries
                        /\ x[j].itype \in {"none", "file"} => x[j].dotdot = Nil
                        /\ \A m \in Fns : x[j].ents[m] # Nil => x[j].ents[m] # iroot /\ x[x[j].ents[m]].itype # "none"
                        /\ \A m \in x[j].fresh : x[j].ents[m] # Nil
                        /\ x[j].dotdot # Nil => x[x[j].dotdot].itype # "none" BY DEF Shape
    <2> QED BY <1>2, <1>1 DEF Shape, Inos, Nodes, Node
  <1>9. \A j \in Inums : NamesIn(x, j) = NamesIn(y, j)
    <2> TAKE j \in Inums
    <2>3. \A e : e \in NamesIn(x, j) <=> e \in NamesIn(y, j) BY <1>1, <1>2, NamesAre
    <2> QED BY <2>3
  <1> QED BY <1>2, <1>1, <1>4, RootIno, <1>8, <1>9 DEF TreeTo, x, Marks, RootOK, Evolves, SameLinks, SameRef

\* A new inode and its name.
LEMMA CreatedTree ==
    ASSUME CoreInv, NEW p \in Inums, NEW n \in Fns, NEW itype \in {"file", "dir"}, CanAlloc,
           ino[p].itype = "dir", ino[p].ents[n] = Nil
    PROVE  LET x == icreate(ino, p, n, itype)
               c == Ialloc(ino)
           IN  /\ TreeTo(x) /\ Created(ino, x, p, n, c, itype)
               /\ c \in Inums /\ c # p /\ c # iroot /\ ino[c].itype = "none" /\ ~ino[c].gone
               /\ ino[c].links = 0 /\ ino[c].ref = 0 /\ ino[c].ents = NoEntries
               /\ \A i \in Inums : Cardinality(NamesIn(x, i)) = Cardinality(NamesIn(ino, i)) + B(i = c)
               /\ \A i \in Inums : x[i].links = ino[i].links + B(i = c) /\ x[i].ref = ino[i].ref + B(i = c)
  <1> DEFINE x == icreate(ino, p, n, itype)
             c == Ialloc(ino)
  <1>1. ino \in Nodes /\ Shape(ino) /\ Marks(ino) /\ RootOK(ino) BY DEF CoreInv, TypeInv
  <1>2. x \in Nodes /\ Created(ino, x, p, n, c, itype) /\ c \in Inums /\ c # p /\ ino[c].itype = "none"
    BY <1>1, icreateFields DEF CanAlloc
  <1> HIDE DEF x, c
  <1>4. \A j \in Inums \ {c} : /\ x[j].itype = ino[j].itype /\ x[j].links = ino[j].links /\ x[j].ref = ino[j].ref
                               /\ x[j].dotdot = ino[j].dotdot BY <1>2 DEF Created
  <1>5. \A j \in Inums \ {c} : x[j].gone <=> ino[j].gone BY <1>2, Zenon DEF Created
  <1>6. /\ x[c].itype = itype /\ x[c].links = 1 /\ x[c].ref = 1 /\ ~x[c].gone /\ x[c].ents = NoEntries
        /\ x[c].fresh = {} /\ x[c].dotdot = Nil BY <1>2 DEF Created
  <1>7. /\ \A j \in Inums \ {c, p} : x[j].ents = ino[j].ents /\ x[j].fresh = ino[j].fresh
        /\ \A m \in Fns : x[p].ents[m] = IF m = n THEN c ELSE ino[p].ents[m]
        /\ x[p].fresh \subseteq ino[p].fresh \cup {n} BY <1>2 DEF Created
  <1>13. Shape(x)
    <2> SUFFICES ASSUME NEW j \in Inums
                 PROVE  /\ x[j].itype # "dir" => x[j].ents = NoEntries
                        /\ x[j].itype \in {"none", "file"} => x[j].dotdot = Nil
                        /\ \A m \in Fns : x[j].ents[m] # Nil => x[j].ents[m] # iroot /\ x[x[j].ents[m]].itype # "none"
                        /\ \A m \in x[j].fresh : x[j].ents[m] # Nil
                        /\ x[j].dotdot # Nil => x[x[j].dotdot].itype # "none" BY DEF Shape
    <2>2. ino[j].dotdot \in Inos /\ (\A m \in Fns : ino[j].ents[m] \in Inos) /\ x[j].fresh \subseteq Fns
      BY <1>1, <1>2 DEF Nodes, Node
    <2>0. \A k \in Inums : ino[k].itype # "none" => x[k].itype # "none" BY <1>4, <1>6
    <2>4. CASE j = c BY <1>6, <2>4, NoEntriesType
    <2>5. CASE j = p BY <2>0, <1>1, <2>2, <2>5, <1>2, <1>6, <1>7, RootIno, <1>4 DEF Shape, Marks, RootOK, Inos
    <2>6. CASE j # c /\ j # p BY <2>0, <1>1, <2>2, <1>4, <1>7, <2>6 DEF Shape, Inos
    <2> QED BY <2>4, <2>5, <2>6
  <1>14. ASSUME NEW i \in Inums
         PROVE  Cardinality(NamesIn(x, i)) = Cardinality(NamesIn(ino, i)) + B(i = c)
    <2>1. /\ NamesIn(x, i) = {e \in Inums \X Fns : x[e[1]].itype = "dir" /\ x[e[1]].ents[e[2]] = i}
          /\ NamesIn(ino, i) = {e \in Inums \X Fns : ino[e[1]].itype = "dir" /\ ino[e[1]].ents[e[2]] = i}
      BY <1>1, <1>2, NamesAre
    <2>2. ASSUME NEW j \in Inums, NEW m \in Fns
          PROVE  (x[j].itype = "dir" /\ x[j].ents[m] = i) <=>
                 (IF j = p /\ m = n THEN i = c ELSE ino[j].itype = "dir" /\ ino[j].ents[m] = i)
      <3>1. CASE j = c BY <1>2, <3>1, <1>6, NoEntriesType, RootIno
      <3>2. CASE j = p BY <1>2, <1>4, <1>7, <3>2
      <3>3. CASE j # c /\ j # p BY <1>4, <1>7, <3>3
      <3> QED BY <3>1, <3>2, <3>3
    <2>3. ASSUME NEW e \in Inums \X Fns
          PROVE  e \in NamesIn(x, i) <=> (IF e = <<p, n>> THEN i = c ELSE e \in NamesIn(ino, i))
      <3>1. PICK j \in Inums, m \in Fns : e = <<j, m>> OBVIOUS
      <3> QED BY <2>1, <2>2, <3>1
    <2>6. CASE i = c
      <3>2. Cardinality(NamesIn(ino, i) \cup {<<p, n>>}) = Cardinality(NamesIn(ino, i)) + 1
        BY <2>1, RootIno, <1>1, NamesFinite, FS_AddElement
      <3> QED BY <2>6, <2>1, <2>3, RootIno, <3>2 DEF B
    <2>7. CASE i # c
      <3>1. NamesIn(x, i) = NamesIn(ino, i) BY <2>1, <2>3, RootIno, <2>7
      <3> QED BY <1>1, NamesFinite, <2>7, <3>1 DEF B
    <2> QED BY <2>6, <2>7
  <1>15. TreeTo(x) BY <1>2, <1>1, <1>4, <1>5, <1>6, RootIno, <1>13 DEF TreeTo, Marks, RootOK, Evolves, Shape
  <1> QED BY <1>2, <1>4, <1>6, <1>1, <1>14, <1>15 DEF x, c, B, Nodes, Node, Marks, RootOK, Shape

--------------------------------------------------------------------------------
(* The steps that change the tree. *)
LEMMA IntFacts ==
    ASSUME CoreInv, NEW i \in Inums
    PROVE  ino[i].links \in Int /\ ino[i].ref \in Int /\ Cardinality(NamesIn(ino, i)) \in Nat
  BY NamesFinite DEF Nodes, Node, CoreInv, TypeInv

LEMMA ExactGoto ==
    ASSUME CoreInv, NEW t \in Threads, NEW r \in Frame, NEW x, TreeTo(x),
           ino' = x, th' = [th EXCEPT ![t] = r], rlock' \in Tids, calls' = calls, fatal' = fatal,
           LocalOK(r, calls[t]), KindOK(x, r, OpOf(calls[t])), \A i \in r.dead : x[i].gone,
           \A i \in Inums : x[i].links - Cardinality(NamesIn(x, i)) - B(PendOf(r, OpOf(calls[t]), i)) =
              ino[i].links - Cardinality(NamesIn(ino, i)) - B(PendOf(th[t], OpOf(calls[t]), i)),
           \A i \in Inums : N(r, OpOf(calls[t]), i) = N(th[t], OpOf(calls[t]), i) + (x[i].ref - ino[i].ref),
           \A i \in Inums : ino[i].gone => N(r, OpOf(calls[t]), i) <= B(r.pc = "up" /\ r.cur = i)
    PROVE  CoreStep(t) /\ RefExact(t) /\ LinkExact(t) /\ th'[t] = r
  <1>1. ino \in Nodes /\ x \in Nodes /\ th \in [Threads -> Frame] BY DEF CoreInv, TypeInv, TreeTo
  <1>2. ASSUME NEW i \in Inums
        PROVE  /\ ino[i].ref \in Int /\ x[i].ref \in Int /\ ino[i].links \in Int /\ x[i].links \in Int
               /\ Cardinality(NamesIn(x, i)) \in Int /\ Cardinality(NamesIn(ino, i)) \in Int
               /\ N(r, OpOf(calls[t]), i) \in Int /\ N(th[t], OpOf(calls[t]), i) \in Int
    <2>2. Cardinality(NamesIn(x, i)) \in Int /\ Cardinality(NamesIn(ino, i)) \in Int BY <1>1, NamesFinite
    <2> QED BY <1>1, <2>2, NTypes, HeldCounts DEF Nodes, Node
  <1>3. ASSUME NEW i \in Inums
        PROVE  x[i].ref - ino[i].ref = N(r, OpOf(calls[t]), i) - N(th[t], OpOf(calls[t]), i) BY <1>2
  <1>4. \A i \in Inums : x[i].ref - ino[i].ref >= N(r, OpOf(calls[t]), i) - N(th[t], OpOf(calls[t]), i) BY <1>2, <1>3
  <1>5. ASSUME NEW i \in Inums
        PROVE  x[i].links - Cardinality(NamesIn(x, i)) - B(PendOf(r, OpOf(calls[t]), i)) >=
                ino[i].links - Cardinality(NamesIn(ino, i)) - B(PendOf(th[t], OpOf(calls[t]), i)) BY <1>2 DEF B
  <1> QED BY <1>3, <1>4, <1>5, GotoStep DEF RefExact, LinkExact, DeadOK

LEMMA CreateNew ==
    ASSUME CoreInv, NEW t \in Threads, Create(t),
           Entry(ino, th[t].cur, Op(t).old.name) = Nil, IsDir(ino, th[t].cur), CanAlloc
    PROVE  /\ CoreStep(t) /\ RefExact(t) /\ LinkExact(t)
           /\ ino' = iunlock_refdown(icreate(ino, th[t].cur, Op(t).old.name, "file"), th[t].cur)
  <1>1. th[t].pc = "got" BY DEF Create, AtOp, At
  <1>2. OpOf(calls[t]) = "create" BY <1>1, GotFacts DEF Create, AtOp
  <1>3. th[t].stg = 1 /\ th[t].opar = Nil /\ th[t].ochild = Nil /\ th[t].cur \in Inums BY <1>1, <1>2, GotFacts
  <1>4. PICK p \in Inums : p = th[t].cur BY <1>3
  <1>5. PICK n \in Fns : n = Op(t).old.name BY <1>1, GotFacts
  <1>7. PICK y : y = icreate(ino, p, n, "file") OBVIOUS
  <1>8. PICK c : c = Ialloc(ino) OBVIOUS
  <1>9. /\ TreeTo(y) /\ Created(ino, y, p, n, c, "file")
        /\ c \in Inums /\ c # p /\ c # iroot /\ ino[c].itype = "none" /\ ~ino[c].gone /\ ino[c].ref = 0
        /\ \A i \in Inums : Cardinality(NamesIn(y, i)) = Cardinality(NamesIn(ino, i)) + B(i = c)
        /\ \A i \in Inums : y[i].links = ino[i].links + B(i = c) /\ y[i].ref = ino[i].ref + B(i = c)
    BY <1>4, <1>5, <1>7, <1>8, CreatedTree DEF IsDir, Entry
  <1>10. PICK x : x = iunlock_refdown(y, p) OBVIOUS
  <1>12. /\ TreeTo(x) /\ SameNames(y, x) /\ SameLinks(y, x)
         /\ \A i \in Inums : x[i].ref = y[i].ref - B(i = p)
         /\ \A i \in Inums : NamesIn(x, i) = NamesIn(y, i)
    BY <1>9, <1>10, <1>5, <1>1, <1>4, GotFacts, DownTree DEF Created, IsDir, Entry
  <1>13. PICK k \in BOOLEAN : k = (Nil = Nil) OBVIOUS
  <1>14. PICK r : r = [[th[t] EXCEPT !.ochild = c, !.chk = k] EXCEPT !.pc = "child"] OBVIOUS
  <1>15. ino' = x /\ th' = [th EXCEPT ![t] = r] /\ rlock' = rlock /\ calls' = calls /\ fatal' = fatal
    BY <1>4, <1>5, <1>7, <1>8, <1>10, <1>13, <1>14 DEF Create, Goto
  <1>16. th[t] \in Frame /\ LocalOK(th[t], calls[t]) /\ th[t].file = Nil /\ th[t].next = "idle" /\ th[t].cur # Nil /\ calls[t] # <<>>
    BY <1>1, GotFacts
  <1>17. c \in Inos /\ c # Nil BY <1>9, RootIno DEF Inos
  <1>18. /\ r \in Frame /\ r.pc = "child" /\ r.ochild = c /\ r.stg = 1 /\ r.cur = th[t].cur /\ r.opar = Nil
         /\ r.next = "idle" /\ r.file = Nil /\ r.dead = th[t].dead
    BY <1>3, <1>13, <1>14, <1>16, <1>17 DEF Frame, Places
  <1>19. LocalOK(r, calls[t]) BY <1>2, <1>16, <1>17, <1>18 DEF LocalOK, Walking
  <1>21. ASSUME NEW i \in Inums
         PROVE  /\ N(r, OpOf(calls[t]), i) = N(th[t], OpOf(calls[t]), i) + (x[i].ref - ino[i].ref)
                /\ ino[i].gone => N(r, OpOf(calls[t]), i) <= B(r.pc = "up" /\ r.cur = i)
    <2>1. N(r, OpOf(calls[t]), i) = B(c = i) BY <1>2, <1>18, <1>19, HeldChild
    <2>2. N(th[t], OpOf(calls[t]), i) = B(th[t].cur = i) + B(th[t].opar = i) + B(th[t].ochild = i) BY <1>1, GotFacts
    <2> QED BY <1>3, <1>4, <1>9, <1>12, <2>1, <2>2, RefNat, RootIno DEF B
  <1>22. ASSUME NEW i \in Inums
         PROVE  x[i].links - Cardinality(NamesIn(x, i)) - B(PendOf(r, OpOf(calls[t]), i)) =
                ino[i].links - Cardinality(NamesIn(ino, i)) - B(PendOf(th[t], OpOf(calls[t]), i))
    BY <1>2, <1>9, <1>12, IntFacts DEF B, PendOf, SameLinks
  <1>23. rlock' \in Tids /\ \A i \in r.dead : x[i].gone
    BY <1>15, <1>1, <1>18, GotFacts, <1>12 DEF Evolves, Frame, TreeTo
  <1>24. CoreStep(t) /\ RefExact(t) /\ LinkExact(t)
    BY <1>12, <1>15, <1>18, <1>19, <1>2, <1>21, <1>22, <1>23, ExactGoto DEF KindOK, Walking
  <1> QED BY <1>4, <1>5, <1>7, <1>10, <1>15, <1>24

LEMMA MkdirNew ==
    ASSUME CoreInv, NEW t \in Threads, Mkdir(t),
           Entry(ino, th[t].cur, Op(t).old.name) = Nil, IsDir(ino, th[t].cur), CanAlloc
    PROVE  /\ CoreStep(t) /\ RefExact(t) /\ LinkExact(t)
           /\ ino' = icreate(ino, th[t].cur, Op(t).old.name, "dir")
           /\ th'[t] = [[th[t] EXCEPT !.ochild = Ialloc(ino)] EXCEPT !.pc = "child"]
  <1>1. th[t].pc = "got" BY DEF Mkdir, AtOp, At
  <1>2. OpOf(calls[t]) = "mkdir" BY <1>1, GotFacts DEF Mkdir, AtOp
  <1>3. th[t].stg = 1 /\ th[t].opar = Nil /\ th[t].ochild = Nil /\ th[t].cur \in Inums BY <1>1, <1>2, GotFacts
  <1>4. PICK p \in Inums : p = th[t].cur BY <1>3
  <1>5. PICK n \in Fns : n = Op(t).old.name BY <1>1, GotFacts
  <1>7. PICK x : x = icreate(ino, p, n, "dir") OBVIOUS
  <1>8. PICK c : c = Ialloc(ino) OBVIOUS
  <1>9. /\ TreeTo(x) /\ Created(ino, x, p, n, c, "dir")
        /\ c \in Inums /\ c # p /\ c # iroot /\ ino[c].itype = "none" /\ ~ino[c].gone /\ ino[c].ref = 0
        /\ \A i \in Inums : Cardinality(NamesIn(x, i)) = Cardinality(NamesIn(ino, i)) + B(i = c)
        /\ \A i \in Inums : x[i].links = ino[i].links + B(i = c) /\ x[i].ref = ino[i].ref + B(i = c)
    BY <1>4, <1>5, <1>7, <1>8, CreatedTree DEF IsDir, Entry
  <1>14. PICK r : r = [[th[t] EXCEPT !.ochild = c] EXCEPT !.pc = "child"] OBVIOUS
  <1>15. ino' = x /\ th' = [th EXCEPT ![t] = r] /\ rlock' = rlock /\ calls' = calls /\ fatal' = fatal
    BY <1>4, <1>5, <1>7, <1>8, <1>14 DEF Mkdir, Goto
  <1>16. th[t] \in Frame /\ LocalOK(th[t], calls[t]) /\ th[t].file = Nil /\ th[t].next = "idle" /\ th[t].cur # Nil /\ calls[t] # <<>>
    BY <1>1, GotFacts
  <1>17. c \in Inos /\ c # Nil BY <1>9, RootIno DEF Inos
  <1>18. /\ r \in Frame /\ r.pc = "child" /\ r.ochild = c /\ r.stg = 1 /\ r.cur = th[t].cur /\ r.opar = Nil
         /\ r.next = "idle" /\ r.file = Nil /\ r.dead = th[t].dead BY <1>3, <1>14, <1>16, <1>17 DEF Frame, Places
  <1>19. LocalOK(r, calls[t]) BY <1>2, <1>16, <1>17, <1>18 DEF LocalOK, Walking
  <1>20. KindOK(x, r, OpOf(calls[t])) BY <1>2, <1>9, <1>18 DEF KindOK, Walking, Created
  <1>21. ASSUME NEW i \in Inums
         PROVE  /\ N(r, OpOf(calls[t]), i) = N(th[t], OpOf(calls[t]), i) + (x[i].ref - ino[i].ref)
                /\ ino[i].gone => N(r, OpOf(calls[t]), i) <= B(r.pc = "up" /\ r.cur = i)
    <2>2. N(th[t], OpOf(calls[t]), i) = B(th[t].cur = i) + B(th[t].opar = i) + B(th[t].ochild = i) BY <1>1, GotFacts
    <2>3. ino[i].gone => i # c /\ i # p BY <1>1, <1>4, <1>9, GotFacts
    <2> QED BY <1>3, <1>4, <1>9, <1>18, <1>2, <1>19, HeldChild, <2>2, <2>3, RefNat, RootIno DEF B
  <1>22. ASSUME NEW i \in Inums
         PROVE  x[i].links - Cardinality(NamesIn(x, i)) - B(PendOf(r, OpOf(calls[t]), i)) =
                ino[i].links - Cardinality(NamesIn(ino, i)) - B(PendOf(th[t], OpOf(calls[t]), i))
    BY <1>2, <1>9, IntFacts DEF B, PendOf
  <1>23. rlock' \in Tids /\ \A i \in r.dead : x[i].gone
    BY <1>15, <1>1, <1>18, GotFacts, <1>9 DEF Evolves, Frame, TreeTo
  <1>e1. r \in Frame /\ TreeTo(x) BY <1>18, <1>9
  <1>e3. \A i \in Inums : ino[i].gone => N(r, OpOf(calls[t]), i) <= B(r.pc = "up" /\ r.cur = i) BY <1>21
  <1>24. CoreStep(t) /\ RefExact(t) /\ LinkExact(t) /\ th'[t] = r
    BY <1>e1, <1>21, <1>e3, <1>15, <1>19, <1>20, <1>22, <1>23, ExactGoto
  <1> QED BY <1>4, <1>5, <1>7, <1>8, <1>14, <1>15, <1>24

LEMMA ExactFinish ==
    ASSUME CoreInv, NEW t \in Threads, calls[t] # <<>>, NEW s, TreeTo(s), NEW dead \in SUBSET Inums,
           \A i \in dead : s[i].gone, Finish(t, s, dead, Nil), rlock' \in Tids,
           \A i \in Inums : s[i].links - Cardinality(NamesIn(s, i)) =
              ino[i].links - Cardinality(NamesIn(ino, i)) - B(PendOf(th[t], OpOf(calls[t]), i)),
           \A i \in Inums : 0 = N(th[t], OpOf(calls[t]), i) + (s[i].ref - ino[i].ref)
    PROVE  /\ CoreStep(t) /\ RefExact(t)
           /\ th'[t] = [Idle EXCEPT !.file = Nil] /\ calls'[t] = Tail(calls[t])
  <1>2. ASSUME NEW i \in Inums
        PROVE  /\ s[i].ref \in Int /\ s[i].links \in Int /\ Cardinality(NamesIn(s, i)) \in Nat
               /\ ino[i].ref \in Int /\ ino[i].links \in Int /\ Cardinality(NamesIn(ino, i)) \in Nat
               /\ N(th[t], OpOf(calls[t]), i) \in Nat /\ B(PendOf(th[t], OpOf(calls[t]), i)) \in Nat
    BY NamesFinite, HeldCounts, IntFacts DEF B, Nodes, Node, TreeTo
  <1>3. \A i \in Inums : B(Nil = i) = 0 BY RootIno DEF B
  <1>4. \A i \in Inums : s[i].ref - ino[i].ref = B(Nil = i) - N(th[t], OpOf(calls[t]), i) BY <1>2, <1>3
  <1>6. \A i \in Inums : s[i].links - Cardinality(NamesIn(s, i)) >=
              ino[i].links - Cardinality(NamesIn(ino, i)) - B(PendOf(th[t], OpOf(calls[t]), i)) BY <1>2
  <1>7. Nil \in Inos /\ (Nil # Nil => OpOf(calls[t]) \in {"create", "open"} /\ ~ino[Nil].gone) BY DEF Inos
  <1>8. /\ CoreStep(t) /\ \A i \in Inums : ino'[i].ref = s[i].ref /\ N(th'[t], OpOf(calls'[t]), i) = B(Nil = i)
        /\ th'[t] = [Idle EXCEPT !.file = Nil] /\ calls'[t] = Tail(calls[t])
    BY <1>2, <1>3, <1>4, <1>6, <1>7, FinishStep
  <1> QED BY <1>4, <1>8 DEF RefExact

LEMMA SelfTree ==
    ASSUME CoreInv
    PROVE  TreeTo(ino)
  BY DEF CoreInv, TypeInv, TreeTo, Evolves

\* A reference is taken.
LEMMA UpTree ==
    ASSUME NEW y, TreeTo(y), NEW i \in Inums, ~y[i].gone, y[i].itype # "none"
    PROVE  LET x == Refup(y, i)
           IN  /\ TreeTo(x) /\ SameNames(y, x) /\ SameLinks(y, x) /\ SameGone(y, x)
               /\ \A j \in Inums : x[j].ref = y[j].ref + B(j = i)
               /\ \A j \in Inums : NamesIn(x, j) = NamesIn(y, j)
  <1> DEFINE x == Refup(y, i)
  <1>1. y \in Nodes /\ Shape(y) /\ Marks(y) /\ RootOK(y) /\ Evolves(ino, y) BY DEF TreeTo
  <1>2. x \in Nodes /\ SameNames(y, x) /\ SameLinks(y, x) /\ (\A j \in Inums : x[j].ref = y[j].ref + B(j = i))
    BY <1>1, RefupFields
  <1>3. SameGone(y, x) BY <1>1, RefupFields
  <1> HIDE DEF x
  <1>5. \A j \in Inums : x[j].itype = y[j].itype /\ x[j].links = y[j].links /\ (j # i => x[j].ref = y[j].ref)
    BY <1>1, <1>2 DEF SameNames, SameLinks, B, Nodes, Node
  <1>6. \A j \in Inums : x[j].gone <=> y[j].gone BY <1>3, Zenon DEF SameGone
  <1> QED BY <1>2, <1>3, <1>1, ShapeSame, <1>5, <1>6, RootIno DEF TreeTo, x, Marks, RootOK, Evolves

LEMMA UnlockTree ==
    ASSUME NEW y, TreeTo(y), NEW i \in Inums
    PROVE  LET x == iunlock(y, i)
           IN  /\ TreeTo(x) /\ SameNames(y, x) /\ SameLinks(y, x) /\ SameGone(y, x) /\ SameRef(y, x)
               /\ \A j \in Inums : NamesIn(x, j) = NamesIn(y, j)
  <1> DEFINE x == iunlock(y, i)
  <1> HIDE DEF x
  <1> QED BY iunlockFields, SameTree DEF x, TreeTo

LEMMA MkdirDotsStep ==
    ASSUME CoreInv, NEW t \in Threads, MkdirDots(t)
    PROVE  /\ CoreStep(t) /\ RefExact(t) /\ LinkExact(t) /\ th'[t].pc = "refdown"
           /\ th[t].ochild \in Inums /\ th[t].cur \in Inums
           /\ ino' = iunlock(SetDotdot(ino, th[t].ochild, th[t].cur), th[t].cur)
  <1>1. th[t].pc = "child" /\ OpOf(calls[t]) = "mkdir" BY OpIs DEF MkdirDots, AtOp, At
  <1>2. /\ th[t] \in Frame /\ LocalOK(th[t], calls[t]) /\ rlock \in Tids /\ KindOK(ino, th[t], OpOf(calls[t]))
        /\ \A i \in Inums : ino[i].gone => N(th[t], OpOf(calls[t]), i) = 0
        /\ \A i \in th[t].dead : ino[i].gone BY <1>1, Ready
  <1>3. th[t].ochild \in Inums /\ th[t].cur \in Inums /\ calls[t] # <<>> /\ th[t].stg = 1 /\ th[t].file = Nil /\ th[t].next = "idle"
    BY <1>1, <1>2 DEF LocalOK, Frame, Inos
  <1>4. PICK c \in Inums, p \in Inums : c = th[t].ochild /\ p = th[t].cur BY <1>3
  <1>5. \A i \in Inums : N(th[t], OpOf(calls[t]), i) = B(c = i) + B(p = i)
    <2> TAKE i \in Inums
    <2> QED BY <1>4, <1>1, <1>2, HeldChild
  <1>7. PICK y : y = SetDotdot(ino, c, p) OBVIOUS
  <1>8. PICK x : x = iunlock(y, p) OBVIOUS
  <1>10. SameLinks(ino, y) /\ SameRef(ino, y) BY <1>7, DotFields DEF CoreInv, TypeInv
  <1>11. /\ TreeTo(x) /\ SameLinks(y, x) /\ SameRef(y, x) /\ \A j \in Inums : NamesIn(x, j) = NamesIn(y, j)
    BY <1>8, <1>1, <1>2, <1>4, <1>5, HasLive, <1>7, SelfTree, DotTree, UnlockTree DEF KindOK, B
  <1>12. PICK rs \in Seq(Inums) : rs = <<p, c>> BY FewSeqs
  <1>13. PICK r : r = [[th[t] EXCEPT !.refs = rs, !.chk = TRUE] EXCEPT !.pc = "refdown"] OBVIOUS
  <1>14. ino' = x /\ th' = [th EXCEPT ![t] = r] /\ rlock' = rlock /\ calls' = calls /\ fatal' = fatal
    BY <1>4, <1>7, <1>8, <1>12, <1>13 DEF MkdirDots, GiveBack, Goto, SetDotdot
  <1>15. /\ r \in Frame /\ r.pc = "refdown" /\ r.refs = rs /\ r.stg = 1
         /\ r.next = "idle" /\ r.file = Nil /\ r.dead = th[t].dead BY <1>2, <1>3, <1>12, <1>13 DEF Frame, Places
  <1>16. LocalOK(r, calls[t]) BY <1>1, <1>2, <1>3, <1>15 DEF LocalOK, Walking
  <1>17. KindOK(x, r, OpOf(calls[t])) BY <1>1, <1>15 DEF KindOK, Walking
  <1>18. ASSUME NEW i \in Inums
         PROVE  /\ N(r, OpOf(calls[t]), i) = N(th[t], OpOf(calls[t]), i) + (x[i].ref - ino[i].ref)
                /\ ino[i].gone => N(r, OpOf(calls[t]), i) <= B(r.pc = "up" /\ r.cur = i)
    <2>2. Cnt(<<p, c>>, i) = B(p = i) + B(c = i) BY CntFew
    <2> QED BY <1>5, <1>12, <1>15, <1>16, HeldRename, <2>2, <1>10, <1>11, IntFacts, <1>2 DEF A3, B, SameRef
  <1>19. ASSUME NEW i \in Inums
         PROVE  x[i].links - Cardinality(NamesIn(x, i)) - B(PendOf(r, OpOf(calls[t]), i)) =
                ino[i].links - Cardinality(NamesIn(ino, i)) - B(PendOf(th[t], OpOf(calls[t]), i))
    BY <1>1, <1>2, <1>4, <1>5, HasLive, <1>7, SelfTree, DotTree, <1>10, <1>11 DEF B, PendOf, SameLinks, KindOK
  <1>20. rlock' \in Tids /\ \A i \in r.dead : x[i].gone BY <1>2, <1>14, <1>15, <1>11 DEF Evolves, Frame, TreeTo
  <1> QED BY <1>4, <1>7, <1>8, <1>14, <1>15, <1>11, <1>16, <1>17, <1>18, <1>19, <1>20, ExactGoto

LEMMA LinkNew ==
    ASSUME CoreInv, NEW t \in Threads, Link(t), ~IsDir(ino, th[t].cur)
    PROVE  /\ CoreStep(t) /\ RefExact(t) /\ LinkExact(t) /\ th'[t].stg = 2 /\ th'[t].pc = "namei"
           /\ th[t].cur \in Inums
           /\ ino' = Refup(iunlock(_linkup(ino, th[t].cur), th[t].cur), iroot)
  <1>1. th[t].pc = "got" /\ th[t].stg = 1 BY DEF Link, AtOp, At
  <1>2. OpOf(calls[t]) = "link" BY <1>1, GotFacts DEF Link, AtOp
  <1>3. /\ th[t].opar = Nil /\ th[t].ochild = Nil /\ th[t].cur \in Inums /\ th[t].cur \in Inos /\ th[t].cur # Nil
        /\ ~ino[th[t].cur].gone /\ ino[th[t].cur].itype = "file" BY <1>1, <1>2, GotFacts DEF IsDir
  <1>4. PICK i \in Inums : i = th[t].cur BY <1>3
  <1>5. PICK rest \in Seq(Fns) : rest = Comps(t, 2) BY <1>1, GotFacts, CallParts
  <1>6. PICK y : y = _linkup(ino, i) OBVIOUS
  <1>7. PICK z : z = iunlock(y, i) OBVIOUS
  <1>8. PICK x : x = Refup(z, iroot) OBVIOUS
  <1>9. y \in Nodes /\ SameNames(ino, y) /\ SameRef(ino, y) /\ SameGone(ino, y) /\ \A j \in Inums : y[j].links = ino[j].links + B(j = i)
    BY <1>6, RefNat, _linkupFields
  <1>12. TreeTo(y) /\ \A j \in Inums : NamesIn(y, j) = NamesIn(ino, j)
    BY <1>9, <1>3, <1>4, RefNat, SelfTree, LinkTree DEF B
  <1>13. /\ TreeTo(z) /\ SameNames(y, z) /\ SameLinks(y, z) /\ SameGone(y, z) /\ SameRef(y, z)
         /\ \A j \in Inums : NamesIn(z, j) = NamesIn(y, j) BY <1>7, <1>12, UnlockTree
  <1>15. /\ TreeTo(x) /\ SameNames(z, x) /\ SameLinks(z, x)
         /\ \A j \in Inums : x[j].ref = z[j].ref + B(j = iroot)
         /\ \A j \in Inums : NamesIn(x, j) = NamesIn(z, j) BY <1>8, <1>13, RootIno, UpTree DEF Marks, RootOK, TreeTo
  <1>16. PICK q : q = [th[t] EXCEPT !.ochild = i] OBVIOUS
  <1>17. PICK r : r = [[q EXCEPT !.stg = 2, !.cur = iroot, !.rest = rest] EXCEPT !.pc = "namei"] OBVIOUS
  <1>18. ino' = x /\ th' = [th EXCEPT ![t] = r] /\ rlock' = rlock /\ calls' = calls /\ fatal' = fatal
    BY <1>4, <1>5, <1>6, <1>7, <1>8, <1>16, <1>17 DEF Link, EnterNamei, Goto
  <1>19. /\ th[t] \in Frame /\ LocalOK(th[t], calls[t]) /\ th[t].file = Nil /\ th[t].next = "idle" /\ calls[t] # <<>>
         /\ th[t].npar = Nil /\ th[t].nchild = Nil BY <1>1, GotFacts
  <1>21. q \in Frame /\ q.ochild = i /\ q.opar = Nil /\ q.npar = Nil /\ q.nchild = Nil /\ q.next = "idle" /\ q.file = Nil /\ q.dead = th[t].dead
    BY <1>3, <1>16, <1>19, RootIno DEF Frame, Inos
  <1>22. /\ r \in Frame /\ r.pc = "namei" /\ r.ochild = i /\ r.stg = 2 /\ r.cur = iroot /\ r.opar = Nil /\ r.npar = Nil
         /\ r.nchild = Nil /\ r.next = "idle" /\ r.file = Nil /\ r.dead = th[t].dead
    BY <1>17, RootIno, <1>21 DEF Frame, Places, Inos
  <1>23. LocalOK(r, calls[t]) BY <1>2, <1>19, <1>22, RootIno DEF LocalOK, Walking, Inos
  <1>24. x[i].itype = "file" /\ x[iroot].itype # "none"
    BY <1>3, <1>4, <1>9, <1>13, <1>15, RootIno DEF SameNames, Marks, RootOK, TreeTo
  <1>26. ASSUME NEW j \in Inums
         PROVE  /\ N(r, OpOf(calls[t]), j) = N(th[t], OpOf(calls[t]), j) + (x[j].ref - ino[j].ref)
                /\ ino[j].gone => N(r, OpOf(calls[t]), j) <= B(r.pc = "up" /\ r.cur = j)
    <2>2. N(th[t], OpOf(calls[t]), j) = B(th[t].cur = j) + B(th[t].opar = j) + B(th[t].ochild = j) BY <1>1, GotFacts
    <2> QED BY <1>3, <1>4, <1>22, <1>23, HeldWalking, <2>2, <1>9, <1>13, <1>15, RefNat, RootIno DEF B, SameRef
  <1>27. ASSUME NEW j \in Inums
         PROVE  x[j].links - Cardinality(NamesIn(x, j)) - B(PendOf(r, OpOf(calls[t]), j)) =
                ino[j].links - Cardinality(NamesIn(ino, j)) - B(PendOf(th[t], OpOf(calls[t]), j))
    BY <1>1, <1>2, <1>22, <1>9, <1>12, <1>13, <1>15, IntFacts DEF B, PendOf, Walking, SameLinks
  <1>28. rlock' \in Tids /\ \A j \in r.dead : x[j].gone
    BY <1>18, <1>1, <1>22, GotFacts, <1>15 DEF Evolves, Frame, TreeTo
  <1>e2. \A j \in Inums : N(r, OpOf(calls[t]), j) = N(th[t], OpOf(calls[t]), j) + (x[j].ref - ino[j].ref) BY <1>26
  <1>29. CoreStep(t) /\ RefExact(t) /\ LinkExact(t) /\ th'[t] = r
    BY <1>15, <1>e2, <1>26, <1>18, <1>23, <1>2, <1>22, <1>24, <1>27, <1>28, ExactGoto DEF KindOK, Walking
  <1> QED BY <1>4, <1>6, <1>7, <1>8, <1>18, <1>22, <1>29

LEMMA LinkInsertNew ==
    ASSUME CoreInv, NEW t \in Threads, LinkInsert(t), IsDir(ino, th[t].cur), ino[th[t].cur].ents[Op(t).new.name] = Nil
    PROVE  /\ CoreStep(t) /\ RefExact(t) /\ LinkExact(t) /\ th'[t].pc = "refdown"
           /\ th[t].ochild \in Inums /\ ino[th[t].ochild].itype = "file" /\ th[t].cur \in Inums
           /\ ino' = iunlock_refdown(do_insert(ino, th[t].cur, Op(t).new.name, th[t].ochild), th[t].cur)
  <1>1. th[t].pc = "got" /\ th[t].stg = 2 BY DEF LinkInsert, AtOp, At
  <1>2. OpOf(calls[t]) = "link" BY <1>1, GotFacts DEF LinkInsert, AtOp
  <1>3. /\ th[t] \in Frame /\ LocalOK(th[t], calls[t]) /\ KindOK(ino, th[t], OpOf(calls[t])) /\ th[t].cur \in Inums
        /\ ino[th[t].cur].ref >= 1 /\ ~ino[th[t].cur].gone /\ th[t].file = Nil /\ th[t].next = "idle" /\ calls[t] # <<>>
        /\ th[t].npar = Nil /\ th[t].nchild = Nil BY <1>1, GotFacts
  <1>4. th[t].opar = Nil /\ th[t].ochild \in Inums BY <1>1, <1>2, <1>3 DEF LocalOK, Frame, Inos
  <1>6. PICK p \in Inums, i \in Inums : p = th[t].cur /\ i = th[t].ochild BY <1>3, <1>4
  <1>7. PICK n \in Fns : n = Op(t).new.name BY <1>1, GotFacts
  <1>8. PICK y : y = do_insert(ino, p, n, i) OBVIOUS
  <1>9. PICK x : x = iunlock_refdown(y, p) OBVIOUS
  <1>10. y \in Nodes /\ SetEntry(ino, y, p, n, i) /\ SameLinks(ino, y) /\ SameRef(ino, y) /\ SameGone(ino, y)
    BY <1>8, RefNat, do_insertFields
  <1>11. ino[p].itype = "dir" /\ ino[p].ents[n] = Nil /\ i # iroot /\ ino[i].itype # "none"
    BY <1>1, <1>2, <1>3, <1>6, <1>7, RefNat DEF IsDir, KindOK, Walking
  <1>12. TreeTo(y) /\ \A j \in Inums : Cardinality(NamesIn(y, j)) = Cardinality(NamesIn(ino, j)) - B(ino[p].ents[n] = j) + B(i = j)
    BY <1>10, <1>11, SelfTree, EntryTree
  <1>14. /\ TreeTo(x) /\ SameNames(y, x) /\ SameLinks(y, x)
         /\ \A j \in Inums : x[j].ref = y[j].ref - B(j = p)
         /\ \A j \in Inums : NamesIn(x, j) = NamesIn(y, j)
    BY <1>9, <1>12, <1>3, <1>6, <1>10, <1>11, DownTree DEF SameRef, SetEntry
  <1>15. PICK rs \in Seq(Inums) : rs = <<i>> BY FewSeqs
  <1>16. PICK r : r = [[th[t] EXCEPT !.refs = rs, !.chk = FALSE] EXCEPT !.pc = "refdown"] OBVIOUS
  <1>17. ino' = x /\ th' = [th EXCEPT ![t] = r] /\ rlock' = rlock /\ calls' = calls /\ fatal' = fatal
    BY <1>6, <1>7, <1>8, <1>9, <1>15, <1>16 DEF LinkInsert, GiveBack, Goto
  <1>18. /\ r \in Frame /\ r.pc = "refdown" /\ r.refs = rs /\ r.stg = 2 /\ r.opar = Nil /\ r.ochild = i
         /\ r.next = "idle" /\ r.file = Nil /\ r.dead = th[t].dead
    BY <1>1, <1>3, <1>4, <1>6, <1>15, <1>16 DEF Frame, Places
  <1>19. LocalOK(r, calls[t]) BY <1>2, <1>3, <1>18, RootIno DEF LocalOK, Walking
  <1>20. KindOK(x, r, OpOf(calls[t])) BY <1>2, <1>18 DEF KindOK, Walking
  <1>21. ASSUME NEW j \in Inums
         PROVE  /\ N(r, OpOf(calls[t]), j) = N(th[t], OpOf(calls[t]), j) + (x[j].ref - ino[j].ref)
                /\ ino[j].gone => N(r, OpOf(calls[t]), j) <= B(r.pc = "up" /\ r.cur = j)
    <2>2. Cnt(<<i>>, j) = B(i = j) BY CntFew
    <2>5. ino[j].gone => N(th[t], OpOf(calls[t]), j) = 0 BY <1>1, GotFacts
    <2>7. N(th[t], OpOf(calls[t]), j) = B(p = j) + B(i = j) BY <1>4, <1>6, <1>1, GotFacts, RootIno DEF B
    <2> QED BY <1>10, <1>14, <2>5, <1>15, <1>18, <1>19, HeldRename, <2>2, <2>7, IntFacts DEF B, SameRef, A3
  <1>22. ASSUME NEW j \in Inums
         PROVE  x[j].links - Cardinality(NamesIn(x, j)) - B(PendOf(r, OpOf(calls[t]), j)) =
                ino[j].links - Cardinality(NamesIn(ino, j)) - B(PendOf(th[t], OpOf(calls[t]), j))
    <2>1. ~PendOf(r, OpOf(calls[t]), j) /\ (PendOf(th[t], OpOf(calls[t]), j) <=> i = j)
      BY <1>1, <1>2, <1>6, <1>18 DEF PendOf, Walking
    <2>2. x[j].links = ino[j].links /\ Cardinality(NamesIn(x, j)) = Cardinality(NamesIn(ino, j)) + B(i = j)
      BY <1>10, <1>11, <1>12, <1>14, IntFacts, RootIno DEF SameLinks, B
    <2> QED BY <2>1, <2>2, IntFacts DEF B
  <1>23. rlock' \in Tids /\ \A j \in r.dead : x[j].gone
    BY <1>17, <1>1, <1>18, GotFacts, <1>14 DEF Evolves, Frame, TreeTo
  <1>e1. r \in Frame /\ TreeTo(x) BY <1>18, <1>14
  <1>e3. \A j \in Inums : ino[j].gone => N(r, OpOf(calls[t]), j) <= B(r.pc = "up" /\ r.cur = j) BY <1>21
  <1>24. CoreStep(t) /\ RefExact(t) /\ LinkExact(t) /\ th'[t] = r
    BY <1>e1, <1>21, <1>e3, <1>17, <1>19, <1>20, <1>22, <1>23, ExactGoto
  <1> QED BY <1>3, <1>4, <1>1, <1>2, <1>6, <1>7, <1>8, <1>9, <1>17, <1>18, <1>24 DEF KindOK, Walking

LEMMA LinkUndoStep ==
    ASSUME CoreInv, NEW t \in Threads, LinkUndo(t)
    PROVE  /\ CoreStep(t) /\ RefExact(t) /\ th'[t].pc = "idle" /\ th[t].ochild \in Inums
           /\ \E s, dead : /\ s = Refdown(_linkdown(ino, th[t].ochild), th[t].ochild) /\ TreeTo(s)
                           /\ dead \in SUBSET Inums /\ (\A i \in dead : s[i].gone)
                           /\ ino' = ifree(s, dead)
  <1>1. th[t].pc = "undo" BY DEF LinkUndo, At
  <1>2. /\ th[t] \in Frame /\ LocalOK(th[t], calls[t]) /\ rlock \in Tids /\ KindOK(ino, th[t], OpOf(calls[t]))
        /\ \A i \in Inums : ino[i].gone => N(th[t], OpOf(calls[t]), i) = 0
        /\ \A i \in th[t].dead : ino[i].gone BY <1>1, Ready
  <1>3. /\ th[t].ochild \in Inums /\ calls[t] # <<>> /\ th[t].stg = 2 /\ th[t].file = Nil /\ th[t].next = "idle"
        /\ OpOf(calls[t]) = "link" BY <1>1, <1>2 DEF LocalOK, Frame, Inos
  <1>4. PICK i \in Inums : i = th[t].ochild BY <1>3
  <1>5. \A j \in Inums : N(th[t], OpOf(calls[t]), j) = B(i = j)
    <2> TAKE j \in Inums
    <2> QED BY <1>4, <1>1, <1>2, HeldChild
  <1>6. ino[i].itype = "file" /\ ino[i].ref >= 1 /\ ~ino[i].gone /\ i # iroot
    BY <1>5, HasLive, <1>1, <1>2, <1>3, <1>4, RefNat DEF KindOK, B
  <1>7. PICK y : y = _linkdown(ino, i) OBVIOUS
  <1>8. PICK s : s = Refdown(y, i) OBVIOUS
  <1>9. y \in Nodes /\ SameNames(ino, y) /\ SameRef(ino, y) /\ SameGone(ino, y) /\ \A j \in Inums : y[j].links = ino[j].links - B(j = i)
    BY <1>7, RefNat, _linkdownFields
  <1>11. TreeTo(y) /\ \A j \in Inums : NamesIn(y, j) = NamesIn(ino, j) BY <1>6, <1>9, RefNat, SelfTree, LinkTree DEF B
  <1>13. /\ TreeTo(s) /\ SameNames(y, s) /\ SameLinks(y, s)
         /\ \A j \in Inums : s[j].ref = y[j].ref - B(j = i)
         /\ \A j \in Inums : NamesIn(s, j) = NamesIn(y, j) BY <1>6, <1>8, <1>11, <1>9, DownTree DEF SameNames, SameRef
  <1>14. PICK dead : dead = Dead(s, {i}) \cup th[t].dead OBVIOUS
  <1>15. dead \in SUBSET Inums /\ \A j \in dead : s[j].gone BY <1>14, <1>13, DeadGone, <1>2 DEF Evolves, TreeTo, Frame
  <1>16. Finish(t, s, dead, Nil) /\ rlock' = rlock BY <1>3, <1>4, <1>7, <1>8, <1>14 DEF LinkUndo, Return
  <1>17. ASSUME NEW j \in Inums
         PROVE  s[j].links - Cardinality(NamesIn(s, j)) =
                ino[j].links - Cardinality(NamesIn(ino, j)) - B(PendOf(th[t], OpOf(calls[t]), j))
    BY <1>1, <1>3, <1>4, <1>9, <1>11, <1>13, IntFacts DEF B, PendOf, SameLinks
  <1>18. ASSUME NEW j \in Inums
         PROVE  0 = N(th[t], OpOf(calls[t]), j) + (s[j].ref - ino[j].ref)
    BY <1>5, <1>9, <1>13, IntFacts DEF B, SameRef
  <1>19. CoreStep(t) /\ RefExact(t) /\ th'[t] = [Idle EXCEPT !.file = Nil]
    BY <1>2, <1>3, <1>13, <1>15, <1>16, <1>17, <1>18, ExactFinish
  <1> QED BY <1>3, <1>4, <1>7, <1>8, <1>13, <1>15, <1>19, <1>16 DEF Idle, Finish

LEMMA RemoveTree ==
    ASSUME NEW v, TreeTo(v), NEW p \in Inums, NEW n \in Fns, NEW c \in Inums, v[p].itype = "dir",
           v[p].ents[n] = c, c # iroot, ~v[c].gone
    PROVE  LET y == _linkdown(do_unlink(v, p, n), c)
           IN  /\ TreeTo(y) /\ SameRef(v, y) /\ SameGone(v, y) /\ SameLock(v, y) /\ RemovedEntry(v, y, p, n, c)
               /\ \A i \in Inums : Cardinality(NamesIn(y, i)) = Cardinality(NamesIn(v, i)) - B(c = i)
  <1>1. PICK u : u = do_unlink(v, p, n) OBVIOUS
  <1>2. PICK y : y = _linkdown(u, c) OBVIOUS
  <1>3. v \in Nodes /\ Shape(v) BY DEF TreeTo
  <1>4. u \in Nodes /\ SetEntry(v, u, p, n, Nil) /\ SameLinks(v, u) /\ SameRef(v, u) /\ SameLock(v, u)
    BY <1>1, <1>3, do_unlinkFields
  <1>5. SameGone(v, u) BY <1>1, <1>3, do_unlinkFields
  <1>7. /\ y \in Nodes /\ SameNames(u, y) /\ SameRef(u, y) /\ SameLock(u, y)
        /\ \A j \in Inums : y[j].links = u[j].links - B(j = c) BY <1>2, <1>4, _linkdownFields
  <1>8. SameGone(u, y) BY <1>2, <1>4, _linkdownFields
  <1>9. \A j \in Inums : v[j].links \in Int /\ u[j].links = v[j].links BY <1>3, <1>4 DEF Nodes, Node, SameLinks
  <1>11. u[c].itype # "none" /\ ~u[c].gone BY <1>4, <1>5, <1>3, RootIno DEF SetEntry, SameGone, Shape
  <1>12. TreeTo(y) /\ \A j \in Inums : NamesIn(y, j) = NamesIn(u, j)
    BY <1>4, <1>5, EntryTree, <1>7, <1>8, <1>9, <1>11, LinkTree DEF B
  <1>17. \A i \in Inums : Cardinality(NamesIn(y, i)) = Cardinality(NamesIn(v, i)) - B(c = i)
    <2> TAKE i \in Inums
    <2> QED BY <1>12, <1>3, NamesFinite, <1>4, <1>5, EntryTree, RootIno DEF B
  <1> QED BY <1>1, <1>2, <1>12, <1>4, <1>7, SameTrans, <1>5, <1>8, <1>9, <1>17 DEF RemovedEntry, SetEntry, SameNames

LEMMA UnlinkedStep ==
    ASSUME CoreInv, NEW t \in Threads, Unlinked(t)
    PROVE  /\ CoreStep(t) /\ (~Leaks(t) => RefExact(t)) /\ th'[t].pc = "idle"
           /\ \E s, dead : /\ TreeTo(s) /\ UnlinkedTo(t, s) /\ dead \in SUBSET Inums /\ (\A i \in dead : s[i].gone)
                           /\ ino' = ifree(s, dead)
                           /\ \A i \in Inums : s[i].links - Cardinality(NamesIn(s, i)) = ino[i].links - Cardinality(NamesIn(ino, i))
  <1>1. th[t].pc = "locked" /\ OpOf(calls[t]) = "unlink" /\ ~fatal BY OpIs DEF Unlinked, AtOp, At
  <1>3. /\ th[t].opar \in Inums /\ th[t].ochild \in Inums /\ calls[t] # <<>> /\ th[t].stg = 1 /\ th[t].file = Nil
    BY <1>1, Ready DEF LocalOK, Frame, Inos
  <1>4. PICK p \in Inums, c \in Inums : p = th[t].opar /\ c = th[t].ochild BY <1>3
  <1>5. PICK n \in Fns : n = Op(t).old.name BY <1>3, CallParts
  <1>6. \A j \in Inums : N(th[t], OpOf(calls[t]), j) = B(p = j) + B(c = j)
    <2> TAKE j \in Inums
    <2> QED BY <1>4, <1>1, Ready, HeldChild
  <1>7. /\ ino[p].ref >= B(p = p) + B(c = p) /\ ino[c].ref >= B(p = c) + B(c = c)
        /\ ~ino[p].gone /\ ~ino[c].gone /\ ino[p].itype # "none" /\ ino[c].itype # "none"
    BY <1>1, <1>6, HeldCounts, HasLive, RefNat DEF B
  <1>8. PICK v : v = ilookup_validate(ino, p, n) OBVIOUS
  <1>10. /\ Touches(v) /\ SameGone(ino, v) /\ (\A j \in Inums : v[j].ref >= ino[j].ref)
         /\ n \notin ino[p].fresh => v = ino BY <1>8, TouchSelf, RefNat, ValidateTouch DEF SameGone
  <1>11. /\ TreeTo(v) /\ \A i \in Inums : NamesIn(v, i) = NamesIn(ino, i)
         /\ SameNames(ino, v) /\ SameLinks(ino, v) BY <1>10, TouchTree DEF Touches
  <1>12. PICK ok \in BOOLEAN : ok <=> Valid(ino, p, n, c) /\ do_dirchk(ino, c, Op(t).flag) OBVIOUS
  <1>13. PICK y : y = IF ok THEN _linkdown(do_unlink(v, p, n), c) ELSE v OBVIOUS
  <1>14. /\ TreeTo(y) /\ SameRef(v, y)
         /\ \A i \in Inums : y[i].links - Cardinality(NamesIn(y, i)) = ino[i].links - Cardinality(NamesIn(ino, i))
         /\ UnlinkedTo(t, y)
    <2>1. CASE ok
      <3>3. /\ TreeTo(y) /\ SameRef(v, y) /\ RemovedEntry(v, y, p, n, c)
            /\ \A i \in Inums : Cardinality(NamesIn(y, i)) = Cardinality(NamesIn(v, i)) - B(c = i)
        BY <1>11, <1>13, <2>1, <1>12, RootIno, Named, <1>7, <1>10, RemoveTree DEF SameNames, SameGone, Valid
      <3>4. \A i \in Inums : y[i].links - Cardinality(NamesIn(y, i)) = ino[i].links - Cardinality(NamesIn(ino, i))
        <4> TAKE i \in Inums
        <4> QED BY <1>11, <3>3, IntFacts DEF B, RemovedEntry, SameLinks
      <3> QED
        BY <3>3, <3>4, <1>4, <1>5, <1>12, <2>1, <1>11 DEF UnlinkedTo, RemovedEntry, SameLinks, SetEntry, SameNames
    <2>2. CASE ~ok BY <1>11, <1>13, <2>2 DEF SameRef, SameLinks, UnlinkedTo
    <2> QED BY <2>1, <2>2
  <1>15. PICK x : x = iunlock_refdown(y, c) OBVIOUS
  <1>16. PICK s : s = iunlock_refdown(x, p) OBVIOUS
  <1>17. \A j \in Inums : y[j].ref >= ino[j].ref /\ y[j].ref \in Int BY <1>10, <1>14 DEF SameRef, Nodes, Node, TreeTo
  <1>20. /\ TreeTo(x) /\ SameNames(y, x) /\ SameLinks(y, x)
         /\ \A j \in Inums : x[j].ref = y[j].ref - B(j = c)
         /\ \A j \in Inums : NamesIn(x, j) = NamesIn(y, j)
    BY <1>7, <1>14, <1>15, <1>17, RefNat, DownTree DEF B, TreeTo, Evolves
  <1>22. /\ TreeTo(s) /\ SameNames(x, s) /\ SameLinks(x, s)
         /\ \A j \in Inums : s[j].ref = x[j].ref - B(j = p)
         /\ \A j \in Inums : NamesIn(s, j) = NamesIn(x, j)
    BY <1>7, <1>16, <1>20, <1>17, <1>14, RefNat, DownTree DEF B, SameNames, TreeTo, Evolves
  <1>24. PICK dead : dead = Dead(x, {c}) OBVIOUS
  <1>25. dead \in SUBSET Inums /\ \A j \in dead : s[j].gone
    BY <1>7, <1>16, <1>20, <1>17, <1>14, RefNat, DownTree, <1>24, DeadGone DEF B, SameNames, TreeTo, Evolves
  <1>26. Finish(t, s, dead, Nil) /\ rlock' = rlock
    BY <1>3, <1>4, <1>5, <1>8, <1>12, <1>13, <1>15, <1>16, <1>24 DEF Unlinked, Return
  <1>29. \A i \in Inums : s[i].links - Cardinality(NamesIn(s, i)) >=
              ino[i].links - Cardinality(NamesIn(ino, i)) - B(PendOf(th[t], OpOf(calls[t]), i))
    BY <1>14, <1>20, <1>22, <1>1, IntFacts DEF B, PendOf, Walking, SameLinks
  <1>30. ASSUME NEW i \in Inums
         PROVE  /\ s[i].ref - ino[i].ref >= B(Nil = i) - N(th[t], OpOf(calls[t]), i)
                /\ ~Leaks(t) => s[i].ref - ino[i].ref = B(Nil = i) - N(th[t], OpOf(calls[t]), i)
    <2> QED BY <1>6, <1>17, <1>20, <1>22, <1>10, <1>14, <1>1, <1>4, <1>5, RefNat, RootIno DEF B, SameRef, Leaks, At
  <1>31. Nil \in Inos /\ (Nil # Nil => OpOf(calls[t]) \in {"create", "open"} /\ ~ino[Nil].gone) BY DEF Inos
  <1>32. /\ CoreStep(t) /\ \A i \in Inums : ino'[i].ref = s[i].ref /\ N(th'[t], OpOf(calls'[t]), i) = B(Nil = i)
         /\ th'[t] = [Idle EXCEPT !.file = Nil]
    BY <1>1, Ready, <1>3, <1>22, <1>25, <1>26, <1>29, <1>30, <1>31, FinishStep
  <1>34. th'[t].pc = "idle" BY <1>31, <1>32, IdleFrame
  <1>36. UnlinkedTo(t, s)
    <2>2. CASE SameNames(ino, y) /\ SameLinks(ino, y) BY <1>20, <1>22, <2>2, SameTrans DEF UnlinkedTo, TreeTo
    <2>3. CASE /\ Valid(ino, p, n, c) /\ do_dirchk(ino, c, Op(t).flag) /\ RemovedEntry(ino, y, p, n, c)
      BY <1>4, <1>5, <2>3, <1>20, <1>22, SameTrans DEF UnlinkedTo, RemovedEntry, SameLinks, SetEntry,
         SameNames, TreeTo
    <2> QED BY <1>4, <1>5, <1>14, <2>2, <2>3 DEF UnlinkedTo
  <1> QED BY <1>22, <1>25, <1>14, <1>20, <1>32, <1>30, <1>34, <1>26, <1>36 DEF RefExact, Finish, SameLinks

\* The names that a rename moves: two slots, and whatever the new one had.
LEMMA MoveSlots ==
    ASSUME CoreInv, NEW t \in Threads, Rename(t), ~Stopped(t)
    PROVE  LET r == th[t]
               m == Op(t).old.name
               n == Op(t).new.name
           IN  /\ ino[r.opar].itype = "dir" /\ ino[r.opar].ents[m] = r.ochild /\ r.ochild # iroot
               /\ ino[r.npar].ents[n] = r.nchild
               /\ r.nchild # r.ochild /\ ~(r.opar = r.npar /\ m = n)
               /\ r.nchild # Nil => r.nchild # iroot /\ do_dirchk(ino, r.nchild, IsDir(ino, r.ochild))
               /\ ~ino[r.ochild].gone /\ ino[r.ochild].itype # "none"
               /\ r.nchild # Nil => ~ino[r.nchild].gone
  <1>1. AtOp(t, "rename", "locked") /\ (OldGone(t) \/ ~NewChanged(t)) BY DEF Rename
  <1>2. PICK a \in Inums, c \in Inums, b \in Inums, d \in Inos, m \in Fns, n \in Fns :
            a = th[t].opar /\ c = th[t].ochild /\ b = th[t].npar /\ d = th[t].nchild /\ m = Op(t).old.name /\ n = Op(t).new.name
    BY <1>1, LockedFacts
  <1>9. ino[b].ents[n] = d BY <1>1, <1>2, LockedFacts DEF Entry, IsDir, Stopped, NewChanged, Valid
  <1>12. \A i \in Inums : i = c \/ i = d => N(th[t], OpOf(calls[t]), i) > 0
    <2> TAKE i \in Inums
    <2> QED BY <1>2, <1>1, LockedFacts DEF T3, B
  <1> QED BY <1>2, RootIno, Named, <1>9, <1>12, HasLive, <1>1, LockedFacts DEF Stopped, OldGone, Valid, NewChanged

LEMMA MovedTree ==
    ASSUME CoreInv, NEW t \in Threads, Rename(t), ~Stopped(t)
    PROVE  LET y == Checked(t)
               x == MoveOld(RemoveNew(y, t), t)
           IN  /\ TreeTo(x) /\ MovedTo(t, x) /\ SameRef(y, x) /\ SameLock(ino, x) /\ SameGone(ino, x)
               /\ \A i \in Inums : x[i].links - Cardinality(NamesIn(x, i)) = ino[i].links - Cardinality(NamesIn(ino, i))
  <1>2. PICK a \in Inums, c \in Inums, b \in Inums, d \in Inos, m \in Fns, n \in Fns :
            a = th[t].opar /\ c = th[t].ochild /\ b = th[t].npar /\ d = th[t].nchild /\ m = Op(t).old.name /\ n = Op(t).new.name
    BY LockedFacts DEF Rename
  <1>3. PICK y : y = Checked(t) OBVIOUS
  <1>4. PICK z : z = RemoveNew(y, t) OBVIOUS
  <1>5. PICK u : u = do_unlink(z, a, m) OBVIOUS
  <1>6. PICK w : w = do_insert(u, b, n, c) OBVIOUS
  <1>7. PICK x : x = MoveOld(z, t) OBVIOUS
  <1>8. x = IF IsDir(z, c) THEN SetDotdot(w, c, b) ELSE w BY <1>2, <1>5, <1>6, <1>7 DEF MoveOld, SetDotdot
  <1>9. /\ ino[a].itype = "dir" /\ ino[a].ents[m] = c /\ c # iroot /\ ino[b].ents[n] = d
        /\ d # c /\ ~(a = b /\ m = n) /\ (d # Nil => d # iroot)
        /\ ~ino[c].gone /\ ino[c].itype # "none" /\ (d # Nil => ~ino[d].gone) BY <1>2, MoveSlots
  <1>10. ino[b].itype = "dir" BY <1>2, LockedFacts DEF Rename
  <1>12. /\ TreeTo(y) /\ (\A i \in Inums : NamesIn(y, i) = NamesIn(ino, i))
         /\ SameNames(ino, y) /\ SameLinks(ino, y) BY <1>3, CheckedTouch, TouchTree DEF Touches, Rename
  <1>13. \A j \in Inums : /\ y[j].itype = ino[j].itype /\ y[j].ents = ino[j].ents /\ y[j].dotdot = ino[j].dotdot
                          /\ y[j].links = ino[j].links /\ ino[j].links \in Int
    BY <1>12, IntFacts DEF SameNames, SameLinks
  <1>14. /\ TreeTo(z) /\ SameRef(y, z) /\ SameGone(y, z) /\ SameLock(y, z)
         /\ \A j \in Inums : /\ z[j].itype = y[j].itype /\ z[j].dotdot = y[j].dotdot
                             /\ z[j].links = y[j].links - B(j = d)
                             /\ \A k \in Fns : z[j].ents[k] = IF j = b /\ k = n THEN Nil ELSE y[j].ents[k]
         /\ \A i \in Inums : Cardinality(NamesIn(z, i)) = Cardinality(NamesIn(ino, i)) - B(d = i)
    <2>1. CASE d = Nil
      BY <1>12, <1>2, <1>4, <1>9, <1>13, <2>1, RootIno, IntFacts DEF B, SameRef, SameGone, SameLock, RemoveNew
    <2>2. CASE d # Nil
      <3>3. z = _linkdown(do_unlink(y, b, n), d) BY <1>2, <1>4, <2>2 DEF RemoveNew
      <3>4. /\ TreeTo(z) /\ SameRef(y, z) /\ SameGone(y, z) /\ SameLock(y, z) /\ RemovedEntry(y, z, b, n, d)
            /\ \A i \in Inums : Cardinality(NamesIn(z, i)) = Cardinality(NamesIn(y, i)) - B(d = i)
        BY <1>12, <1>9, <1>10, <1>3, CheckedTouch, <1>13, <2>2, <3>3, RemoveTree DEF SameGone, Rename, Inos
      <3> QED BY <1>12, <3>4 DEF RemovedEntry, SetEntry
    <2> QED BY <2>1, <2>2
  <1>15. z \in Nodes /\ z[a].itype = "dir" /\ z[a].ents[m] = c BY <1>9, <1>13, <1>14 DEF TreeTo
  <1>16. u \in Nodes /\ SetEntry(z, u, a, m, Nil) /\ SameLinks(z, u) /\ SameRef(z, u) /\ SameLock(z, u)
    BY <1>5, <1>15, do_unlinkFields
  <1>17. SameGone(z, u) BY <1>5, <1>15, do_unlinkFields
  <1>18. /\ TreeTo(u)
         /\ \A i \in Inums : Cardinality(NamesIn(u, i)) = Cardinality(NamesIn(z, i)) - B(z[a].ents[m] = i) + B(Nil = i)
    BY <1>14, <1>15, <1>16, <1>17, EntryTree
  <1>19. \A j \in Inums : /\ u[j].itype = ino[j].itype /\ u[j].dotdot = ino[j].dotdot
                          /\ u[j].links = ino[j].links - B(j = d)
                          /\ \A k \in Fns : u[j].ents[k] = IF j = a /\ k = m THEN Nil ELSE IF j = b /\ k = n THEN Nil ELSE ino[j].ents[k]
    BY <1>13, <1>14, <1>16 DEF SetEntry, SameLinks
  <1>21. w \in Nodes /\ SetEntry(u, w, b, n, c) /\ SameLinks(u, w) /\ SameRef(u, w) /\ SameLock(u, w)
    BY <1>6, <1>16, do_insertFields
  <1>22. SameGone(u, w) BY <1>6, <1>16, do_insertFields
  <1>23. /\ TreeTo(w)
         /\ \A i \in Inums : Cardinality(NamesIn(w, i)) = Cardinality(NamesIn(u, i)) - B(u[b].ents[n] = i) + B(c = i)
    BY <1>9, <1>18, <1>10, <1>19, <1>21, <1>22, EntryTree
  <1>24. \A j \in Inums : /\ w[j].itype = ino[j].itype /\ w[j].dotdot = ino[j].dotdot
                          /\ w[j].links = ino[j].links - B(j = d)
                          /\ \A k \in Fns : w[j].ents[k] = IF j = b /\ k = n THEN c ELSE IF j = a /\ k = m THEN Nil ELSE ino[j].ents[k]
    BY <1>19, <1>21 DEF SetEntry, SameLinks
  <1>25. /\ TreeTo(x) /\ SameLinks(w, x) /\ SameRef(w, x) /\ SameLock(w, x) /\ SameGone(w, x)
         /\ \A j \in Inums : /\ x[j].itype = w[j].itype /\ x[j].ents = w[j].ents
                             /\ x[j].dotdot = IF j = c /\ IsDir(ino, j) THEN b ELSE w[j].dotdot
         /\ \A i \in Inums : NamesIn(x, i) = NamesIn(w, i)
    <2>2. CASE IsDir(z, c)
      <3>1. x = SetDotdot(w, c, b) /\ w[c].itype = "dir" /\ w[b].itype # "none"
        BY <1>8, <1>10, <1>24, <1>13, <1>14, <2>2 DEF IsDir
      <3>3. /\ SameLinks(w, x) /\ SameRef(w, x)
            /\ \A j \in Inums : /\ x[j].itype = w[j].itype /\ x[j].ents = w[j].ents
                                /\ x[j].dotdot = IF j = c THEN b ELSE w[j].dotdot
        <4>3. \A j \in Inums : /\ SetDotdot(w, c, b)[j].itype = w[j].itype /\ SetDotdot(w, c, b)[j].ents = w[j].ents
                              /\ SetDotdot(w, c, b)[j].fresh = w[j].fresh
                              /\ SetDotdot(w, c, b)[j].dotdot = IF j = c THEN b ELSE w[j].dotdot
          BY <1>21, <3>1 DEF SetDotdot, Nodes, Node
        <4> QED BY <1>21, <3>1, DotFields, <4>3
      <3>5. SameLock(w, x) BY <1>21, <3>1, DotFields
      <3>4. SameGone(w, x) BY <1>21, <3>1, DotFields
      <3> QED BY <1>13, <1>14, <2>2, <1>23, <3>1, DotTree, <3>3, <3>4, <3>5 DEF IsDir
    <2>3. CASE ~IsDir(z, c) BY <1>23, <1>13, <1>14, <2>3, <1>8 DEF SameRef, SameGone, SameLock, SameLinks, IsDir
    <2> QED BY <2>2, <2>3
  <1>28. MovedTo(t, x) BY <1>2, <1>24, <1>25 DEF MovedTo, SameLinks
  <1>29. \A i \in Inums : x[i].links - Cardinality(NamesIn(x, i)) = ino[i].links - Cardinality(NamesIn(ino, i))
    <2> TAKE i \in Inums
    <2>4. Cardinality(NamesIn(x, i)) = Cardinality(NamesIn(u, i)) - B(Nil = i) + B(c = i)
      BY <1>9, <1>10, <1>19, <1>23, <1>25
    <2> QED BY <1>24, <1>25, <1>14, <1>15, <1>18, <2>4, IntFacts DEF B, SameLinks
  <1> QED
    BY <1>3, <1>4, <1>7, <1>25, CheckedTouch, <1>14, <1>16, <1>21, SameTrans, <1>17, <1>22, <1>28, <1>29 DEF Rename

LEMMA RenameMoved ==
    ASSUME CoreInv, NEW t \in Threads, Rename(t), ~Stopped(t)
    PROVE  /\ CoreStep(t) /\ LinkExact(t) /\ (~Leaks(t) => RefExact(t)) /\ th'[t] = MovedFrame(t)
           /\ MovedTo(t, ino') /\ SameLock(ino, ino') /\ SameGone(ino, ino')
  <1>2. PICK y : y = Checked(t) OBVIOUS
  <1>3. PICK r : r = MovedFrame(t) OBVIOUS
  <1>4. PICK x : x = MoveOld(RemoveNew(y, t), t) OBVIOUS
  <1>5. ino' = x /\ th' = [th EXCEPT ![t] = r] /\ rlock' = rlock /\ calls' = calls /\ fatal' = fatal
    BY <1>2, <1>3, <1>4 DEF Rename, Goto, MovedFrame
  <1>6. /\ TreeTo(x) /\ MovedTo(t, x) /\ SameRef(y, x) /\ SameLock(ino, x) /\ SameGone(ino, x)
        /\ \A i \in Inums : x[i].links - Cardinality(NamesIn(x, i)) = ino[i].links - Cardinality(NamesIn(ino, i))
    BY <1>2, <1>4, MovedTree
  <1>8. /\ r \in Frame /\ LocalOK(r, calls[t]) /\ r.dead = th[t].dead /\ KindOK(x, r, OpOf(calls[t]))
        /\ \A i \in Inums : /\ N(r, OpOf(calls[t]), i) = N(th[t], OpOf(calls[t]), i)
                            /\ N(th[t], OpOf(calls[t]), i) \in Nat
                            /\ ino[i].gone => N(r, OpOf(calls[t]), i) <= B(r.pc = "up" /\ r.cur = i)
        /\ \A i \in Inums : ~PendOf(r, OpOf(calls[t]), i) /\ ~PendOf(th[t], OpOf(calls[t]), i)
    BY <1>3, RenameFrame DEF Rename
  <1>9. ASSUME NEW i \in Inums
        PROVE  /\ x[i].ref \in Int /\ ino[i].ref \in Int
               /\ x[i].ref - ino[i].ref >= N(r, OpOf(calls[t]), i) - N(th[t], OpOf(calls[t]), i)
    BY <1>2, CheckedTouch, <1>8, <1>6, IntFacts DEF TreeTo, Nodes, Node, SameRef, Rename
  <1>10. ASSUME NEW i \in Inums
         PROVE  /\ x[i].links - Cardinality(NamesIn(x, i)) - B(PendOf(r, OpOf(calls[t]), i)) =
                   ino[i].links - Cardinality(NamesIn(ino, i)) - B(PendOf(th[t], OpOf(calls[t]), i))
                /\ x[i].links - Cardinality(NamesIn(x, i)) - B(PendOf(r, OpOf(calls[t]), i)) >=
                   ino[i].links - Cardinality(NamesIn(ino, i)) - B(PendOf(th[t], OpOf(calls[t]), i))
    BY <1>6, <1>8, IntFacts DEF B
  <1>11. rlock' \in Tids /\ DeadOK(x, r) BY <1>5, <1>8, <1>6, LockedFacts DEF DeadOK, Evolves, TreeTo, Frame, Rename
  <1>12. CoreStep(t) /\ th'[t] = r BY <1>5, <1>6, <1>8, <1>9, <1>10, <1>11, GotoStep
  <1>14. ASSUME ~Leaks(t) PROVE RefExact(t)
    BY <1>5, <1>12, <1>6, <1>2, CheckedTouch, <1>8, <1>9, <1>14 DEF RefExact, SameRef, Rename
  <1> QED BY <1>3, <1>5, <1>6, <1>12, <1>10, <1>14 DEF LinkExact

--------------------------------------------------------------------------------
(* Every step. *)
LEMMA GotoPc ==
    ASSUME CoreInv, NEW t \in Threads, NEW r, r \in Frame, NEW p, Goto(t, r, p)
    PROVE  th'[t].pc = p
  BY DEF Frame, CoreInv, TypeInv, Goto

LEMMA MkdirCounts ==
    ASSUME CoreInv, NEW t \in Threads, Mkdir(t)
    PROVE  Counts(t)
  <1>1. th[t].pc = "got" /\ th[t] \in Frame BY CoreParts DEF Mkdir, AtOp, At
  <1>2. CASE Entry(ino, th[t].cur, Op(t).old.name) = Nil /\ IsDir(ino, th[t].cur) /\ CanAlloc
    BY <1>2, MkdirNew DEF Counts
  <1>3. CASE Entry(ino, th[t].cur, Op(t).old.name) # Nil \/ ~IsDir(ino, th[t].cur) \/ ~CanAlloc
    <2>2. PICK rs \in Seq(Inums) : rs = <<th[t].cur>>
      <3>2. \A c \in Inums : <<c>> \in Seq(Inums) OBVIOUS
      <3> QED BY <1>1, GotFacts, <3>2
    <2> QED BY <1>3, MkdirQuiet, <1>1, <2>2, GotoPc DEF Counts, NoLeaks, Mkdir, GiveBack, Frame
  <1> QED BY <1>2, <1>3

LEMMA UnlinkedCounts ==
    ASSUME CoreInv, NEW t \in Threads, Unlinked(t)
    PROVE  Counts(t)
  BY UnlinkedStep DEF Counts, NoLeaks, Unlinked, AtOp, At

LEMMA RetryGoes ==
    ASSUME CoreInv, NEW t \in Threads, RenameRetry(t)
    PROVE  th'[t].pc = "refdown" /\ th[t].pc = "locked"
  <1>2. PICK rs \in Seq(Inums) : rs = IF th[t].nchild = Nil THEN <<>> ELSE <<th[t].nchild>>
    <2>1. <<>> \in Seq(Inums) /\ \A c \in Inums : <<c>> \in Seq(Inums) OBVIOUS
    <2> QED BY <2>1, LockedFacts DEF RenameRetry, AtOp, At
  <1>3. PICK r : r = [th[t] EXCEPT !.refs = rs, !.chk = FALSE, !.nchild = Nil, !.next = "look"] OBVIOUS
  <1>5. r \in Frame
    <2>1. th[t] \in Frame /\ Nil \in Inos BY CoreParts DEF Inos
    <2> QED BY <1>3, <2>1 DEF Frame
  <1> QED BY <1>2, <1>3, <1>5, GotoPc DEF RenameRetry, AtOp, At

LEMMA RetryCounts ==
    ASSUME CoreInv, NEW t \in Threads, RenameRetry(t)
    PROVE  Counts(t)
  BY RetryGoes, RenameRetryStep DEF Counts, NoLeaks

LEMMA RenameGoes ==
    ASSUME CoreInv, NEW t \in Threads, Rename(t)
    PROVE  th'[t].pc = "unlock" /\ th[t].pc = "locked"
  <1> QED BY CoreParts, GotoPc DEF Rename, AtOp, At, Frame

LEMMA RenameCounts ==
    ASSUME CoreInv, NEW t \in Threads, Rename(t)
    PROVE  Counts(t)
  BY RenameGoes, RenameStopped, RenameMoved DEF Counts, NoLeaks

LEMMA StepCounts ==
    ASSUME CoreInv, NEW t \in Threads, Step(t)
    PROVE  Counts(t)
  <1>1. CASE \/ Begin(t) \/ NameiFast(t) \/ NameiMiss(t) \/ NameiVerify(t) \/ NameiSlow(t) \/ NameiLock(t)
             \/ Open(t) \/ CreateOpen(t) \/ Fs_close(t)
    BY <1>1, BeginStep, NameiFastStep, NameiMissStep, NameiVerifyStep, NameiSlowStep, NameiLockStep,
       OpenStep, CreateOpenStep, CloseStep DEF Quiet, Counts
  <1>2. CASE \/ Unlink(t) \/ LockAll(t) \/ RenameOld(t) \/ RenameLock(t) \/ IsAncestor(t) \/ Ancestor(t)
             \/ AncestorRoot(t) \/ RenameLook(t) \/ RenameUnlock(t) \/ RefDec(t) \/ RefLinks(t) \/ RefDone(t)
    BY <1>2, UnlinkStep, LockAllStep, RenameOldStep, RenameLockStep, IsAncestorStep, AncestorStep,
       AncestorRootStep, RenameLookStep, RenameUnlockStep, RefDecStep, RefLinksStep, RefDoneStep DEF Quiet, Counts
  <1>3. CASE Create(t) BY <1>3, CreateQuiet, CreateNew DEF Quiet, Counts
  <1>4. CASE Mkdir(t) BY <1>4, MkdirCounts
  <1>5. CASE MkdirDots(t) BY <1>5, MkdirDotsStep DEF Counts
  <1>6. CASE Unlinked(t) BY <1>6, UnlinkedCounts
  <1>7. CASE Link(t) BY <1>7, LinkQuiet, LinkNew DEF Counts
  <1>8. CASE LinkInsert(t) BY <1>8, LinkInsertQuiet, LinkInsertNew DEF Quiet, Counts
  <1>9. CASE LinkUndo(t) BY <1>9, LinkUndoStep DEF Counts
  <1>10. CASE RenameRetry(t) BY <1>10, RetryCounts
  <1>11. CASE Rename(t) BY <1>11, RenameCounts
  <1> QED BY <1>1, <1>2, <1>3, <1>4, <1>5, <1>6, <1>7, <1>8, <1>9, <1>10, <1>11 DEF Step

LEMMA CoreNext ==
    ASSUME CoreInv, [Next]_vars
    PROVE  CoreInv'
  <1>1. CASE Next
    <2>1. PICK t \in Threads : Step(t) BY <1>1 DEF Next
    <2> QED BY <2>1, StepCounts, CoreStepInv DEF Counts
  <1>2. CASE UNCHANGED vars
    <2>4. \A i : RefsTo(i)' = RefsTo(i) BY <1>2 DEF RefsTo, HeldOn, vars, Held, Second, Triple, Op
    <2> QED BY <1>2, <2>4 DEF CoreInv, RefsHeld, LinksHeld, vars, TypeInv, FramesInv, NamesOf, Pending, Op
  <1> QED BY <1>1, <1>2

--------------------------------------------------------------------------------
(* The mounted file system. *)
LEMMA MountedNode ==
    ASSUME NEW i \in DOMAIN Tree
    PROVE  /\ i \in Inums /\ Tree[i] \in Node /\ Tree[i].itype \in {"file", "dir"} /\ Tree[i].links > 0 /\ Tree[i].ref = 0
           /\ Tree[i].lock = NoThread /\ Tree[i].gone = FALSE /\ Tree[i].fresh = {} /\ Tree[i].orphan = FALSE
           /\ (Tree[i].itype = "file" => Tree[i].ents = NoEntries /\ Tree[i].dotdot = Nil)
           /\ (\A n \in Fns : Tree[i].ents[n] # Nil => Tree[i].ents[n] \in DOMAIN Tree \ {iroot})
           /\ (Tree[i].dotdot # Nil => Tree[i].dotdot \in DOMAIN Tree)
  <1>2. PICK k, l, e, d : k = Tree[i].itype /\ l = Tree[i].links /\ e = Tree[i].ents /\ d = Tree[i].dotdot OBVIOUS
  <1>3. PICK r : r = [Inode(k, e, d) EXCEPT !.links = l] OBVIOUS
  <1>4. Tree[i] = r BY NamesAssumption, <1>2, <1>3 DEF Mounted
  <1>6. r \in Node /\ r.ref = 0 /\ r.lock = NoThread /\ r.gone = FALSE /\ r.fresh = {} /\ r.orphan = FALSE
    <2>1. r = [itype |-> k, links |-> l, ref |-> 0, lock |-> NoThread, gone |-> FALSE,
               orphan |-> FALSE, ents |-> e, fresh |-> {}, dotdot |-> d] BY <1>3 DEF Inode
    <2> QED BY <2>1, NamesAssumption, <1>2 DEF Node, Tids, Inos, Mounted
  <1> QED BY NamesAssumption, <1>4, <1>6 DEF Mounted

LEMMA InitNode ==
    ASSUME Init, NEW i \in Inums
    PROVE  /\ ino[i] \in Node /\ ino[i].ref = 0 /\ ino[i].lock = NoThread /\ ino[i].gone = FALSE /\ ino[i].fresh = {}
           /\ i \in DOMAIN Tree => ino[i] = Tree[i]
           /\ i \notin DOMAIN Tree => /\ ino[i].itype = "none" /\ ino[i].links = 0 /\ ino[i].ents = NoEntries
                                      /\ ino[i].dotdot = Nil
  <1>3. /\ Unused \in Node /\ Unused.ref = 0 /\ Unused.lock = NoThread /\ Unused.gone = FALSE /\ Unused.fresh = {}
        /\ Unused.itype = "none" /\ Unused.links = 0 /\ Unused.ents = NoEntries /\ Unused.dotdot = Nil
    <2>1. PICK e : e = NoEntries OBVIOUS
    <2>2. PICK r : r = [itype |-> "none", links |-> 0, ref |-> 0, lock |-> NoThread, gone |-> FALSE,
                        orphan |-> FALSE, ents |-> e, fresh |-> {}, dotdot |-> Nil] OBVIOUS
    <2>3. Unused = r
      <3>1. PICK k, l, d : k = "none" /\ l = 0 /\ d = Nil OBVIOUS
      <3>2. Unused = [Inode(k, e, d) EXCEPT !.links = l] BY <2>1, <3>1 DEF Unused
      <3>3. Unused = [itype |-> k, links |-> l, ref |-> 0, lock |-> NoThread, gone |-> FALSE,
                      orphan |-> FALSE, ents |-> e, fresh |-> {}, dotdot |-> d] BY <3>2 DEF Inode
      <3> QED BY <2>2, <3>1, <3>3
    <2> QED BY <2>1, <2>3, <2>2 DEF Node, NoEntries, Inos, Tids
  <1> QED BY <1>3, MountedNode DEF Init

LEMMA InitNames ==
    ASSUME Init, NEW i \in Inums
    PROVE  /\ NamesIn(ino, i) = IF i \in DOMAIN Tree \ {iroot} THEN NamesIn(Tree, i) ELSE {}
           /\ ino[i].links >= Cardinality(NamesIn(ino, i))
           /\ i \in DOMAIN Tree /\ i # iroot => ino[i].links = Cardinality(NamesIn(ino, i))
  <1>1. LiveIn(ino) = DOMAIN Tree /\ LiveIn(Tree) = DOMAIN Tree BY InitNode, MountedNode DEF LiveIn, Init
  <1>2. \A j \in DOMAIN Tree, n \in Fns : Entry(ino, j, n) = Entry(Tree, j, n)
    BY InitNode, MountedNode DEF Entry, IsDir
  <1>3. NamesIn(ino, i) = NamesIn(Tree, i) BY <1>1, <1>2 DEF NamesIn
  <1>4. i \notin DOMAIN Tree \ {iroot} => NamesIn(Tree, i) = {}
    <2>1. \A j \in DOMAIN Tree, n \in Fns : Entry(Tree, j, n) # Nil => Entry(Tree, j, n) \in DOMAIN Tree \ {iroot}
      BY MountedNode DEF Entry
    <2> QED BY <1>1, <2>1, RootIno DEF NamesIn
  <1>5. i \in DOMAIN Tree /\ i # iroot => Cardinality(NamesIn(Tree, i)) = Tree[i].links BY NamesAssumption DEF Mounted
  <1>6. i \in DOMAIN Tree => ino[i].links = Tree[i].links /\ Tree[i].links > 0 /\ Tree[i].links \in Int
    BY InitNode, MountedNode DEF Node
  <1>7. i \notin DOMAIN Tree => ino[i].links = 0 BY InitNode
  <1> QED BY <1>3, <1>4, <1>5, <1>6, <1>7, FS_EmptySet

LEMMA InitFrame ==
    ASSUME Init, NEW t \in Threads
    PROVE  /\ th[t] = Idle /\ th[t] \in Frame /\ LocalOK(th[t], calls[t])
           /\ \A s : KindOK(s, th[t], OpOf(calls[t]))
           /\ Held(t) = <<>> /\ DeadOK(ino, th[t])
           /\ \A i \in Inums : ~PendOf(th[t], OpOf(calls[t]), i)
  <1>1. th[t] = Idle /\ calls \in Programs BY DEF Init
  <1>5. Idle = [Idle EXCEPT !.file = Idle.file] BY DEF Idle
  <1> QED BY <1>1, NamesAssumption, <1>5 DEF DeadOK, PendOf, Walking, KindOK, Idle, Frame, Places, Inos, LocalOK, Held

LEMMA InitCore ==
    ASSUME Init
    PROVE  CoreInv /\ RefsCounted
  <1>1. TypeInv
    <2> QED BY NamesAssumption, InitNode, InitFrame DEF Init, TypeInv, Tids, Nodes
  <1>2. FramesInv
    <2> SUFFICES ASSUME NEW t \in Threads PROVE FrameOK(ino, th[t], calls[t]) BY DEF FramesInv
    <2> QED BY InitNode, InitFrame DEF FrameOK, KeptOK
  <1>3. Shape(ino)
    <2> SUFFICES ASSUME NEW i \in Inums
                 PROVE  /\ ino[i].itype # "dir" => ino[i].ents = NoEntries
                        /\ ino[i].itype \in {"none", "file"} => ino[i].dotdot = Nil
                        /\ \A n \in Fns : ino[i].ents[n] # Nil => ino[i].ents[n] # iroot /\ ino[ino[i].ents[n]].itype # "none"
                        /\ \A n \in ino[i].fresh : ino[i].ents[n] # Nil
                        /\ ino[i].dotdot # Nil => ino[ino[i].dotdot].itype # "none" BY DEF Shape
    <2>1. \A j \in DOMAIN Tree : j \in Inums /\ ino[j] = Tree[j] /\ ino[j].itype # "none" BY InitNode, MountedNode
    <2>2. ino[i].fresh = {} BY InitNode
    <2>3. CASE i \in DOMAIN Tree
      <3>3. \A n \in Fns : Tree[i].ents[n] # Nil => Tree[i].ents[n] # iroot /\ Tree[i].ents[n] \in DOMAIN Tree
        BY <2>3, MountedNode
      <3> QED BY <2>1, <2>2, <2>3, MountedNode, <3>3
    <2>4. CASE i \notin DOMAIN Tree BY <2>2, <2>4, InitNode DEF NoEntries
    <2> QED BY <2>3, <2>4
  <1>4. Marks(ino)
    <2> SUFFICES ASSUME NEW i \in Inums
                 PROVE  /\ ino[i].itype = "none" => ino[i].links = 0 /\ ino[i].ref = 0 /\ ~ino[i].gone
                        /\ ino[i].itype = "dead" => ino[i].gone
                        /\ ino[i].gone => ino[i].links = 0 BY DEF Marks
    <2> QED BY InitNode, MountedNode
  <1>5. RootOK(ino) BY NamesAssumption, InitNode, MountedNode, RootIno DEF RootOK, Mounted, IsDir
  <1>6. ASSUME NEW i \in Inums PROVE RefsTo(i) = {} /\ Cardinality(RefsTo(i)) = 0 /\ ino[i].ref = 0
    <2>2. RefsTo(i) = {} BY InitFrame DEF RefsTo, HeldOn
    <2> QED BY <2>2, FS_EmptySet, InitNode
  <1>7. LinksHeld
    <2> SUFFICES ASSUME NEW i \in Inums
                 PROVE  ino[i].links >= Cardinality(NamesIn(ino, i)) + Cardinality(PendSet(th, calls, i))
      BY PendingIs DEF LinksHeld, NamesOf
    <2>1. PendSet(th, calls, i) = {} BY InitFrame DEF PendSet
    <2> QED BY <2>1, <1>1, NamesFinite, InitNames, FS_EmptySet DEF TypeInv, Nodes, Node
  <1> QED BY <1>1, <1>2, <1>3, <1>4, <1>5, <1>6, <1>7 DEF CoreInv, RefsHeld, RefsCounted

--------------------------------------------------------------------------------
(* Theorems: types, and what is in use is kept. *)
LEMMA RefsNat ==
    ASSUME CoreInv, NEW i \in Inums
    PROVE  Cardinality(RefsTo(i)) \in Nat
  <1>2. FiniteAll(SpotsOf(th, calls, i)) BY SpotsFinite DEF CoreInv, TypeInv, FramesInv, FrameOK
  <1> QED BY <1>2, PairsFinite, RefsToIs, FS_CardinalityType DEF RefsAre, Pairs

LEMMA CoreSafe == Spec => []CoreInv
  <1>1. Init => CoreInv BY InitCore
  <1>2. CoreInv /\ [Next]_vars => CoreInv' BY CoreNext
  <1> QED BY <1>1, <1>2, PTL DEF Spec

\* The state has its types: no count of references or links is ever negative.
THEOREM NamesTypes == Spec => []TypeOK
  <1>1. CoreInv => TypeOK
    <2> SUFFICES ASSUME CoreInv PROVE TypeOK OBVIOUS
    <2>1. ASSUME NEW i \in Inums PROVE ino[i] \in Imemnode
      BY PendingIs, IntFacts, PendFinite, RefsNat DEF Node, Imemnode, Tids, CoreInv, RefsHeld, LinksHeld,
         NamesOf, TypeInv, Nodes
    <2> QED BY <2>1 DEF TypeOK, CoreInv, TypeInv, Tids, Nodes
  <1> QED BY <1>1, CoreSafe, PTL

LEMMA KeptCore ==
    ASSUME CoreInv, NEW i \in Inums, ino[i].gone
    PROVE  /\ NamesOf(i) = {} /\ Pending(i) = {}
           /\ \A t \in Threads : HeldOn(t, i) = {} \/ (th[t].pc = "up" /\ th[t].cur = i)
           /\ \A t \in Threads : HeldOn(t, i) = {} <=> N(th[t], OpOf(calls[t]), i) = 0
  <1>5. NamesOf(i) = {} /\ Pending(i) = {}
    BY NamesFinite, PendFinite, FS_EmptySet, PendingIs DEF NamesOf, CoreInv, LinksHeld, Marks, TypeInv
  <1>6. ASSUME NEW t \in Threads
        PROVE  /\ HeldOn(t, i) = {} \/ (th[t].pc = "up" /\ th[t].cur = i)
               /\ HeldOn(t, i) = {} <=> N(th[t], OpOf(calls[t]), i) = 0
    <2>1. HeldOn(t, i) = Spots(HeldOf(th[t], OpOf(calls[t])), i) BY HeldIs, OpIs DEF HeldOn, Spots
    <2> QED BY <2>1, NTypes, CoreParts, FS_EmptySet DEF B, CoreInv, FramesInv, FrameOK, KeptOK, N, Cnt
  <1> QED BY <1>5, <1>6

\* Whatever the calls do, the wrong steps included, Refdown and ifree never take an
\* inode (inode.go:224, 1150) that a name, a call or an open file leads to, and
\* no count falls below what it counts.
THEOREM InUseKept == Spec => []KeptWhileUsed
  <1>1. CoreInv => KeptWhileUsed BY KeptCore DEF CoreInv, KeptWhileUsed
  <1> QED BY <1>1, CoreSafe, PTL

LEMMA RefsStutter ==
    ASSUME UNCHANGED vars
    PROVE  \A i : RefsTo(i)' = RefsTo(i)
  BY DEF RefsTo, HeldOn, vars, Held, Second, Triple, Op

LEMMA CountedNext ==
    ASSUME CoreInv, RefsCounted, [Next]_vars, [NoLeaks]_vars
    PROVE  RefsCounted'
  <1>1. CASE UNCHANGED vars BY <1>1, RefsStutter DEF RefsCounted, vars
  <1>2. CASE Next /\ NoLeaks
    <2>1. PICK t \in Threads : Step(t) BY <1>2 DEF Next
    <2> SUFFICES ASSUME NEW i \in Inums PROVE ino'[i].ref = Cardinality(RefsTo(i))' BY DEF RefsCounted
    <2>7. ino[i].ref \in Int /\ ino'[i].ref \in Int
      BY <1>2, <2>1, StepCounts DEF CoreInv, TypeInv, Nodes, Node, CoreStep, OwnStep, TypeStep, Counts
    <2> QED
      BY RefsChange, <1>2, <2>1, StepCounts, HeldCounts, <2>7 DEF RefExact, Counts, CoreStep, OwnStep,
         TypeStep, RefsCounted
  <1> QED BY <1>1, <1>2

\* The count of every inode is the number of references that calls and open
\* files hold, as long as no call takes one of the references that the code
\* forgets (mkdir of a name that exists, the validation of a new entry).
THEOREM RefsExact == Spec /\ [][NoLeaks]_vars => []RefsCounted
  <1>1. Init => RefsCounted BY InitCore
  <1>2. CoreInv /\ RefsCounted /\ [Next]_vars /\ [NoLeaks]_vars => RefsCounted' BY CountedNext
  <1> QED BY <1>1, <1>2, CoreSafe, PTL DEF Spec

--------------------------------------------------------------------------------
(* The locks that a call has. *)
LEMMA RangeEmpty == Range(<<>>) = {}
  BY DEF Range

LEMMA Held0 ==
    ASSUME CoreInv, LocksInv, NEW t \in Threads
    PROVE  /\ Orderly(th[t], OpOf(calls[t])) /\ th[t] \in Frame /\ th[t].next = "idle" /\ ino \in Nodes
           /\ th[t].pc \notin Locked3 => th[t].defers = <<>> /\ Range(th[t].defers) = {}
           /\ th[t].pc \notin {"undo", "refdown", "reflinks"} => th[t].dead = {}
           /\ th[t].pc \notin Locked3 \cup {"got"} /\ ~Makes(th[t], OpOf(calls[t])) => Hold(th[t], OpOf(calls[t])) = {}
           /\ th[t].pc \notin Locked3 \cup {"got", "up"} /\ ~Makes(th[t], OpOf(calls[t])) => HoldUp(th[t], OpOf(calls[t])) = {}
           /\ th[t].pc = "got" => /\ Hold(th[t], OpOf(calls[t])) = {th[t].cur} /\ ino[th[t].cur].lock = t
                                  /\ HoldUp(th[t], OpOf(calls[t])) = {th[t].cur}
           /\ th[t].stg = 2 /\ OpOf(calls[t]) = "rename" => th[t].ochild # iroot
  BY RangeEmpty DEF Hold, HoldUp, Orderly, CoreInv, TypeInv, LocksInv, Makes

LEMMA GotoFields ==
    ASSUME CoreInv, NEW t \in Threads, NEW r \in Frame, NEW p, Goto(t, r, p)
    PROVE  LET x == th'[t]
           IN  /\ x.pc = p /\ x.stg = r.stg /\ x.cur = r.cur /\ x.opar = r.opar /\ x.ochild = r.ochild
               /\ x.npar = r.npar /\ x.nchild = r.nchild /\ x.tolock = r.tolock /\ x.defers = r.defers
               /\ x.refs = r.refs /\ x.dead = r.dead /\ x.next = r.next /\ x.file = r.file
  BY DEF Frame, CoreInv, TypeInv, Goto

\* The call returns, and has no locks.
LEMMA FinishFields ==
    ASSUME CoreInv, NEW t \in Threads, NEW s \in Nodes, NEW dead \in SUBSET Inums, NEW f \in Inos, Finish(t, s, dead, f)
    PROVE  /\ th'[t] = [Idle EXCEPT !.file = f] /\ th'[t].pc = "idle" /\ th'[t].next = "idle" /\ th'[t].defers = <<>>
           /\ th'[t].stg = 1 /\ th'[t].dead = {} /\ Freed(s, ino', dead)
  BY IdleFrame, ifreeFields DEF Finish, CoreInv, TypeInv

\* The call ends up with no lock.
LEMMA PlainLocks ==
    ASSUME CoreInv, LocksInv, NEW t \in Threads, NEW U \in SUBSET Inums,
           \A j \in Inums : ino'[j].lock = IF j \in U THEN NoThread ELSE ino[j].lock,
           \A j \in U : ino[j].lock \in {t, NoThread} \/ ino[j].itype = "none",
           th'[t].next = "idle", th'[t].defers = <<>>, th'[t].pc \notin Locked3 \cup {"got"},
           ~Makes(th'[t], OpOf(calls'[t])),
           th'[t].stg = 2 /\ OpOf(calls'[t]) = "rename" => th'[t].ochild # iroot,
           th'[t].pc \notin {"undo", "refdown", "reflinks"} => th'[t].dead = {},
           ~Strays(t) => HoldUp(th[t], OpOf(calls[t])) \subseteq U \cup HoldUp(th'[t], OpOf(calls'[t]))
    PROVE  LockStep(t)
  <1>4. PICK L : L = {} OBVIOUS
  <1>6. LockEffect(t, U, L) BY RangeEmpty, <1>4 DEF LockEffect, Hold, LockMap
  <1> QED BY RangeEmpty, <1>6, <1>4 DEF LockStep, Orderly, Locked3

\* The call gives its lock back, or has none, and goes on without one.
LEMMA LooseGoto ==
    ASSUME CoreInv, LocksInv, NEW t \in Threads, NEW U \in SUBSET Inums,
           \A j \in Inums : ino'[j].lock = IF j \in U THEN NoThread ELSE ino[j].lock,
           \A j \in U : ino[j].lock \in {t, NoThread} \/ ino[j].itype = "none",
           ~Strays(t) => HoldUp(th[t], OpOf(calls[t])) \subseteq U,
           NEW r \in Frame, NEW p, Goto(t, r, p), calls' = calls,
           r.next = "idle", r.defers = <<>>, p \notin Locked3 \cup {"got"}, ~(p = "child" /\ OpOf(calls[t]) = "mkdir"),
           r.stg = 2 /\ OpOf(calls[t]) = "rename" => r.ochild # iroot,
           p \notin {"undo", "refdown", "reflinks"} => r.dead = {}
    PROVE  LockStep(t)
  <1>1. /\ th'[t].pc = p /\ th'[t].next = "idle" /\ th'[t].defers = <<>> /\ th'[t].stg = r.stg
        /\ th'[t].ochild = r.ochild /\ th'[t].dead = r.dead BY GotoFields
  <1> QED BY <1>1, PlainLocks DEF Makes

LEMMA LooseFinish ==
    ASSUME CoreInv, LocksInv, NEW t \in Threads, NEW U \in SUBSET Inums, NEW s \in Nodes,
           \A j \in Inums : s[j].lock = IF j \in U THEN NoThread ELSE ino[j].lock,
           \A j \in U : ino[j].lock \in {t, NoThread} \/ ino[j].itype = "none",
           ~Strays(t) => HoldUp(th[t], OpOf(calls[t])) \subseteq U,
           NEW dead \in SUBSET Inums, NEW f \in Inos, Finish(t, s, dead, f)
    PROVE  LockStep(t)
  <1>1. /\ th'[t].pc = "idle" /\ th'[t].next = "idle" /\ th'[t].defers = <<>>
        /\ th'[t].stg = 1 /\ th'[t].dead = {} /\ Freed(s, ino', dead) BY FinishFields
  <1>3. \A j \in Inums : ino'[j].lock = IF j \in U THEN NoThread ELSE ino[j].lock BY <1>1 DEF Freed
  <1>5. th'[t].stg = 2 /\ OpOf(calls'[t]) = "rename" => th'[t].ochild # iroot BY <1>1
  <1> QED BY <1>1, <1>3, <1>5, PlainLocks DEF Makes, Locked3

\* The thread stays where it is.
LEMMA PanicLocks ==
    ASSUME CoreInv, LocksInv, NEW t \in Threads, Panic
    PROVE  LockStep(t)
  <1>1. ino' = ino /\ th' = th /\ calls' = calls BY DEF Panic
  <1>2. PICK E : E = {} OBVIOUS
  <1> QED BY <1>1, <1>2 DEF LockStep, LocksInv, LockEffect, LockMap

\* The call locks cur at the end of its walk.
LEMMA TakeGoto ==
    ASSUME CoreInv, LocksInv, NEW t \in Threads, th[t].pc \in Walking \ {"got"}, ino[th[t].cur].lock = NoThread,
           \A j \in Inums : ino'[j].lock = IF j = th[t].cur THEN t ELSE ino[j].lock,
           Goto(t, th[t], "got"), calls' = calls
    PROVE  LockStep(t)
  <1>7. PICK U, L : U = {} /\ L = {th[t].cur} OBVIOUS
  <1>10. LockEffect(t, U, L)
    BY Held0, <1>7, WalkFacts, GotoFields DEF LockEffect, LockMap, Hold, HoldUp, Makes, Locked3, Walking
  <1> QED BY Held0, GotoFields, <1>10, WalkFacts, <1>7 DEF LockStep, Orderly, Locked3, Makes, Walking

--------------------------------------------------------------------------------
(* What a step does to the call: who makes a directory, and how the walk
   of a rename from the new parent up to the root goes on. *)
LEMMA GotoKeeps ==
    ASSUME CoreInv, NEW t \in Threads, NEW r \in Frame, NEW p, Goto(t, r, p), calls' = calls,
           ~Makes(th[t], OpOf(calls[t])), ~(p = "child" /\ OpOf(calls[t]) = "mkdir"),
           p \notin {"up", "look", "lockall", "locked"}
    PROVE  Keeps(t)
  BY GotoFields DEF Keeps, Makes, Moves

LEMMA FinishKeeps ==
    ASSUME CoreInv, NEW t \in Threads, NEW s \in Nodes, NEW dead \in SUBSET Inums, NEW f \in Inos, Finish(t, s, dead, f),
           ~Makes(th[t], OpOf(calls[t]))
    PROVE  Keeps(t)
  BY FinishFields DEF Keeps, Makes, Moves

\* The call has no lock, and takes none.
LEMMA StillGoto ==
    ASSUME CoreInv, LocksInv, NEW t \in Threads, th[t].pc \notin Locked3 \cup {"got", "up"},
           ~Makes(th[t], OpOf(calls[t])), SameLock(ino, ino'),
           NEW r \in Frame, NEW p, Goto(t, r, p), calls' = calls,
           r.next = "idle", r.defers = th[t].defers, p \notin Locked3 \cup {"got", "up", "look"},
           ~(p = "child" /\ OpOf(calls[t]) = "mkdir"),
           r.stg = 2 /\ OpOf(calls[t]) = "rename" => r.ochild # iroot,
           p \notin {"undo", "refdown", "reflinks"} => r.dead = {}
    PROVE  Locks(t)
  <1>1. PICK U : U = {} OBVIOUS
  <1> QED BY <1>1, Held0, LooseGoto, GotoKeeps DEF Locks, SameLock, Locked3

LEMMA StillFinish ==
    ASSUME CoreInv, LocksInv, NEW t \in Threads, th[t].pc \notin Locked3 \cup {"got", "up"},
           ~Makes(th[t], OpOf(calls[t])), NEW s \in Nodes, SameLock(ino, s),
           NEW dead \in SUBSET Inums, NEW f \in Inos, Finish(t, s, dead, f)
    PROVE  Locks(t)
  <1>1. PICK U : U = {} OBVIOUS
  <1> QED BY <1>1, Held0, LooseFinish, FinishKeeps DEF Locks, SameLock

LEMMA GotGoto ==
    ASSUME CoreInv, LocksInv, NEW t \in Threads, th[t].pc = "got", Unlocks(ino, ino', th[t].cur),
           NEW r \in Frame, NEW p, Goto(t, r, p), calls' = calls,
           r.next = th[t].next, r.defers = th[t].defers, r.dead = th[t].dead,
           p \notin Locked3 \cup {"got", "up", "look"}, ~(p = "child" /\ OpOf(calls[t]) = "mkdir"),
           r.stg = 2 /\ OpOf(calls[t]) = "rename" => r.ochild # iroot
    PROVE  Locks(t)
  <1>1. PICK U : U = {th[t].cur} OBVIOUS
  <1>2. /\ th[t].next = "idle" /\ th[t].defers = <<>> /\ th[t].dead = {} /\ ino[th[t].cur].lock = t
        /\ HoldUp(th[t], OpOf(calls[t])) = {th[t].cur} BY Held0 DEF Locked3
  <1>3. U \in SUBSET Inums /\ \A j \in U : ino[j].lock \in {t, NoThread} \/ ino[j].itype = "none"
    BY GotFacts, <1>1, <1>2
  <1> QED BY <1>1, <1>2, <1>3, LooseGoto, GotoKeeps DEF Locks, Makes, Unlocks, Locked3

LEMMA GotFinish ==
    ASSUME CoreInv, LocksInv, NEW t \in Threads, th[t].pc = "got",
           NEW s \in Nodes, Unlocks(ino, s, th[t].cur),
           NEW dead \in SUBSET Inums, NEW f \in Inos, Finish(t, s, dead, f)
    PROVE  Locks(t)
  <1>1. PICK U : U = {th[t].cur} OBVIOUS
  <1>2. ino[th[t].cur].lock = t /\ HoldUp(th[t], OpOf(calls[t])) = {th[t].cur} BY Held0
  <1>3. U \in SUBSET Inums /\ \A j \in U : ino[j].lock \in {t, NoThread} \/ ino[j].itype = "none"
    BY GotFacts, <1>1, <1>2
  <1> QED BY <1>1, <1>2, <1>3, LooseFinish, FinishKeeps DEF Locks, Makes, Unlocks

LEMMA PanicLocksOf ==
    ASSUME CoreInv, LocksInv, NEW t \in Threads, Panic, th[t].pc = "got"
    PROVE  Locks(t)
  BY PanicLocks DEF Locks, Keeps, Makes, Moves, Panic

--------------------------------------------------------------------------------
(* The locks of namei, open and close. *)
LEMMA EnterFields ==
    ASSUME CoreInv, NEW t \in Threads, calls[t] # <<>>, NEW q \in Frame, NEW stg \in {1, 2}, NEW s, EnterNamei(t, q, s, stg)
    PROVE  /\ ino' = Refup(s, iroot)
           /\ \E r \in Frame : /\ Goto(t, r, "namei") /\ r.stg = stg /\ r.ochild = q.ochild /\ r.next = q.next
                               /\ r.defers = q.defers /\ r.dead = q.dead
  <1>1. PICK c \in Seq(Fns) : c = Comps(t, stg) BY CallParts
  <1>2. PICK r : r = [q EXCEPT !.stg = stg, !.cur = iroot, !.rest = c] OBVIOUS
  <1>4. /\ r \in Frame /\ r.stg = stg /\ r.ochild = q.ochild /\ r.next = q.next
        /\ r.defers = q.defers /\ r.dead = q.dead BY <1>1, <1>2, RootIno DEF Frame, Inos
  <1> QED BY <1>1, <1>2, <1>4 DEF EnterNamei

LEMMA BeginLocks ==
    ASSUME CoreInv, LocksInv, NEW t \in Threads, Begin(t)
    PROVE  Locks(t)
  <1>7. PICK r \in Frame : /\ Goto(t, r, "namei") /\ r.stg = 1 /\ r.next = th[t].next
                            /\ r.defers = th[t].defers /\ r.dead = th[t].dead BY Ready, EnterFields DEF Begin, At
  <1> QED BY Ready, EnterFields, RefupFields, RootIno, Held0, <1>7, StillGoto DEF Locked3, Makes, Begin, At

LEMMA WalkLocal ==
    ASSUME CoreInv, LocksInv, NEW t \in Threads, th[t].pc \in Walking \ {"got"}
    PROVE  /\ th[t].pc \notin Locked3 \cup {"got", "up"} /\ ~Makes(th[t], OpOf(calls[t])) /\ th[t] \in Frame
           /\ th[t].next = "idle" /\ th[t].dead = {} /\ th[t].cur \in Inums /\ ino \in Nodes /\ calls[t] # <<>>
           /\ th[t].stg = 2 /\ OpOf(calls[t]) = "rename" => th[t].ochild # iroot
  BY Held0, WalkFacts DEF Walking, Locked3, Makes

\* A step of a walk without locks.
LEMMA WalkGoto ==
    ASSUME CoreInv, LocksInv, NEW t \in Threads, th[t].pc \in Walking \ {"got"}, SameLock(ino, ino'),
           NEW i \in Inos, NEW q \in Seq(Fns), NEW p \in Walking \ {"got"},
           Goto(t, [th[t] EXCEPT !.cur = i, !.rest = q], p), calls' = calls
    PROVE  Locks(t)
  <1>1. PICK r : r = [th[t] EXCEPT !.cur = i, !.rest = q] OBVIOUS
  <1>2. th[t] \in Frame BY WalkLocal
  <1> QED BY <1>2, <1>1, WalkLocal, StillGoto DEF Frame, Locked3, Walking

LEMMA NameiFastLocks ==
    ASSUME CoreInv, LocksInv, NEW t \in Threads, NameiFast(t)
    PROVE  Locks(t)
  <1>3. PICK p : p = IF Len(th[t].rest) = 1 THEN "verify" ELSE "namei" OBVIOUS
  <1>4. PICK i : i = Entry(ino, th[t].cur, Head(th[t].rest)) OBVIOUS
  <1>7. Tail(th[t].rest) \in Seq(Fns) /\ Head(th[t].rest) \in Fns BY WalkFacts DEF NameiFast, At, Walking
  <1>9. p \in Walking \ {"got"} /\ SameLock(ino, ino') BY <1>3, <1>4 DEF Walking, SameLock, NameiFast
  <1>10. PICK q \in Seq(Fns) : q = Tail(th[t].rest) BY <1>7
  <1> QED BY <1>3, <1>4, WalkFacts, <1>7, Named, <1>9, <1>10, WalkGoto DEF Inos, Walking, NameiFast, At

LEMMA AgainLocks ==
    ASSUME CoreInv, LocksInv, NEW t \in Threads, th[t].pc \in {"namei", "verify"},
           Goto(t, [th[t] EXCEPT !.cur = iroot, !.rest = Comps(t, th[t].stg)], "slow"), ino' = ino, calls' = calls
    PROVE  Locks(t)
  <1>3. PICK q \in Seq(Fns) : q = Comps(t, th[t].stg) BY WalkLocal, CallParts DEF Walking
  <1>4. PICK i \in Inos : i = iroot BY RootIno DEF Inos
  <1> QED BY <1>3, <1>4, WalkGoto DEF SameLock, Walking

LEMMA NameiMissLocks ==
    ASSUME CoreInv, LocksInv, NEW t \in Threads, NameiMiss(t)
    PROVE  Locks(t)
  BY AgainLocks DEF NameiMiss, At

LEMMA TakeLocks ==
    ASSUME CoreInv, LocksInv, NEW t \in Threads, th[t].pc \in Walking \ {"got"}, ino[th[t].cur].lock = NoThread,
           \A j \in Inums : ino'[j].lock = IF j = th[t].cur THEN t ELSE ino[j].lock,
           Goto(t, th[t], "got"), calls' = calls
    PROVE  Locks(t)
  BY TakeGoto, WalkLocal, GotoKeeps DEF Locks

LEMMA NameiVerifyLocks ==
    ASSUME CoreInv, LocksInv, NEW t \in Threads, NameiVerify(t)
    PROVE  Locks(t)
  <1>1. th[t].pc = "verify" /\ ino[th[t].cur].lock = NoThread /\ calls' = calls BY DEF NameiVerify, At
  <1>4. CASE ino' = ino /\ Goto(t, [th[t] EXCEPT !.cur = iroot, !.rest = Comps(t, th[t].stg)], "slow")
    BY <1>1, <1>4, AgainLocks
  <1>5. CASE ino' = Refdown(ilock(Refup(ino, th[t].cur), th[t].cur, t), iroot) /\ Goto(t, th[t], "got")
    <2>1. PICK x : x = Refup(ino, th[t].cur) OBVIOUS
    <2>2. PICK y : y = ilock(x, th[t].cur, t) OBVIOUS
    <2>3. x \in Nodes /\ SameLock(ino, x) BY <1>1, WalkLocal, <2>1, RefupFields DEF Walking
    <2>6. SameLock(y, ino')
      BY <1>1, WalkLocal, <2>3, ilockFields, <1>5, <2>1, <2>2, RefdownFields, RootIno DEF Tids, Walking
    <2> QED BY <1>1, <1>5, <2>3, WalkLocal, <2>2, ilockFields, <2>6, TakeLocks DEF SameLock, Walking, Tids
  <1> QED BY <1>4, <1>5 DEF NameiVerify

LEMMA NameiLockLocks ==
    ASSUME CoreInv, LocksInv, NEW t \in Threads, NameiLock(t)
    PROVE  Locks(t)
  BY WalkLocal, ilockFields, TakeLocks DEF Tids, Walking, NameiLock, At

LEMMA NameiSlowLocks ==
    ASSUME CoreInv, LocksInv, NEW t \in Threads, NameiSlow(t)
    PROVE  Locks(t)
  <1>2. th[t].pc \in Walking \ {"got"} BY DEF Walking, NameiSlow, At
  <1>3. /\ ino \in Nodes /\ th[t].cur \in Inums /\ calls[t] # <<>> /\ th[t] \in Frame /\ th[t].next = "idle"
        /\ th[t].pc \notin Locked3 \cup {"got", "up"} /\ ~Makes(th[t], OpOf(calls[t]))
        /\ th[t].stg = 2 /\ OpOf(calls[t]) = "rename" => th[t].ochild # iroot BY <1>2, WalkLocal
  <1>4. th[t].rest \in Seq(Fns) /\ Head(th[t].rest) \in Fns /\ Tail(th[t].rest) \in Seq(Fns)
    BY <1>2, WalkFacts DEF NameiSlow, At
  <1>5. PICK m \in Fns : m = Head(th[t].rest) BY <1>4
  <1>6. PICK n : n = IF ino[th[t].cur].links = 0 THEN Nil ELSE Entry(ino, th[t].cur, m) OBVIOUS
  <1>7. PICK y : y = IF n = Nil THEN ino ELSE ilookup(ino, th[t].cur, m) OBVIOUS
  <1>8. PICK s : s = Refdown(y, th[t].cur) OBVIOUS
  <1>9. y \in Nodes /\ SameLock(ino, y)
    <2>1. CASE n = Nil BY <1>3, <1>7, <2>1 DEF SameLock
    <2>2. CASE n # Nil BY <1>3, <1>7, <2>2, <1>6, ilookupFields DEF Entry
    <2> QED BY <2>1, <2>2
  <1>11. SameLock(ino, s) BY <1>9, <1>3, <1>8, RefdownFields DEF SameLock
  <1>12. CASE n # Nil
    <2>1. ino' = s /\ Goto(t, [th[t] EXCEPT !.cur = n, !.rest = Tail(@)], "slow") /\ calls' = calls
      BY <1>5, <1>6, <1>7, <1>8, <1>12 DEF NameiSlow, NameiFailed
    <2>3. PICK q \in Seq(Fns) : q = Tail(th[t].rest) BY <1>4
    <2>5. "slow" \in Walking \ {"got"} BY DEF Walking
    <2> QED BY <1>2, <1>11, <2>1, <1>3, <1>6, <1>12, Named, <2>3, <2>5, WalkGoto DEF Inos
  <1>13. CASE n = Nil
    <2>1. PICK d : d = Dead(s, {th[t].cur}) OBVIOUS
    <2>2. NameiFailed(t, s, d) BY <1>5, <1>6, <1>7, <1>8, <1>13, <2>1 DEF NameiSlow
    <2>4. CASE th[t].stg = 1
      BY <1>3, <1>8, <1>9, RefdownFields, <1>11, <2>1, <2>2, <2>4, StillFinish DEF NameiFailed, Return, Frame, Dead
    <2>5. CASE th[t].stg # 1 /\ Op(t).op = "rename"
      <3>1. PICK q \in Seq(Inums) : q = <<th[t].opar, th[t].ochild>>
        BY <1>3, <2>5, Ready, FewSeqs DEF LocalOK, Frame, Inos, OpOf, Op
      <3>2. PICK r : r = [th[t] EXCEPT !.dead = d, !.refs = q] OBVIOUS
      <3>5. "refdown" \notin Locked3 \cup {"got", "up", "look"} BY DEF Locked3
      <3> QED BY <1>3, <1>11, <2>2, <2>5, <3>1, <3>2, <2>1, <3>5, StillGoto DEF NameiFailed, Frame, Dead
    <2>6. CASE th[t].stg # 1 /\ Op(t).op # "rename"
      <3>2. PICK r : r = [th[t] EXCEPT !.dead = d] OBVIOUS
      <3> QED BY <1>3, <1>11, <2>2, <2>6, <3>2, <2>1, StillGoto DEF NameiFailed, Frame, Locked3, Dead
    <2> QED BY <2>4, <2>5, <2>6
  <1> QED BY <1>12, <1>13

LEMMA OpenLocks ==
    ASSUME CoreInv, LocksInv, NEW t \in Threads, Open(t)
    PROVE  Locks(t)
  <1>3. PICK s : s = iunlock(ino, th[t].cur) OBVIOUS
  <1>5. PICK d : d = {} OBVIOUS
  <1> QED BY GotFacts, Ready, <1>3, iunlockFields, <1>5, GotFinish DEF Unlocks, Open, Opened, AtOp, At

\* The call gives the locked directory back, and returns.
LEMMA GotReturn ==
    ASSUME CoreInv, LocksInv, NEW t \in Threads, th[t].pc = "got", Return(t, iunlock_refdown(ino, th[t].cur), {})
    PROVE  Locks(t)
  <1>1. th[t].cur \in Inums /\ th[t] \in Frame /\ ino \in Nodes BY GotFacts, Ready
  <1>2. PICK s : s = iunlock_refdown(ino, th[t].cur) OBVIOUS
  <1>4. PICK d : d = {} OBVIOUS
  <1>5. d \in SUBSET Inums /\ Finish(t, s, d, th[t].file) /\ th[t].file \in Inos BY <1>1, <1>2, <1>4 DEF Return, Frame
  <1> QED BY <1>1, <1>2, iunlock_refdownFields, <1>5, GotFinish DEF Unlocks

LEMMA CreateQuietLocks ==
    ASSUME CoreInv, LocksInv, NEW t \in Threads, Create(t),
           Entry(ino, th[t].cur, Op(t).old.name) # Nil \/ ~IsDir(ino, th[t].cur) \/ ~CanAlloc
    PROVE  Locks(t)
  <1>3. th[t].cur \in Inums /\ th[t] \in Frame /\ ino \in Nodes /\ Op(t).old.name \in Fns
    BY GotFacts, Ready DEF Create, AtOp, At
  <1>4. PICK c : c = Entry(ino, th[t].cur, Op(t).old.name) OBVIOUS
  <1>5. CASE c = Nil BY <1>4, <1>5, GotReturn DEF Create, AtOp, At
  <1>6. CASE c # Nil
    <2>1. PICK y : y = ilookup(ino, th[t].cur, Op(t).old.name) OBVIOUS
    <2>2. PICK k \in BOOLEAN : k = (c = Nil) OBVIOUS
    <2>3. PICK r : r = [th[t] EXCEPT !.ochild = c, !.chk = k] OBVIOUS
    <2>4. ino' = iunlock_refdown(y, th[t].cur) /\ Goto(t, r, "child") /\ calls' = calls
      BY <1>4, <1>6, <2>1, <2>2, <2>3 DEF Create
    <2>6. y \in Nodes /\ SameLock(ino, y) BY <1>3, <2>1, <1>4, <1>6, ilookupFields DEF Entry
    <2>10. /\ r \in Frame /\ r.next = th[t].next /\ r.defers = th[t].defers /\ r.dead = th[t].dead
      BY <1>3, <2>2, <2>3, <1>4, <1>6, Named DEF Frame, Inos
    <2> QED
      BY GotFacts, <2>4, <2>6, <1>3, iunlock_refdownFields, <2>10, GotGoto DEF Create, AtOp, Locked3, At,
         Unlocks, SameLock
  <1> QED BY <1>5, <1>6

\* The locks after a new inode has been made.
LEMMA CreatedLock ==
    ASSUME CoreInv, NEW p \in Inums, NEW n \in Fns, NEW itype \in {"file", "dir"}, CanAlloc,
           ino[p].itype = "dir", ino[p].ents[n] = Nil
    PROVE  LET x == icreate(ino, p, n, itype)
               c == Ialloc(ino)
           IN  /\ x \in Nodes /\ c \in Inums /\ c # p /\ ino[c].itype = "none"
               /\ \A j \in Inums : x[j].lock = IF j = c THEN NoThread ELSE ino[j].lock
  <1>1. PICK x, c : x = icreate(ino, p, n, itype) /\ c = Ialloc(ino) OBVIOUS
  <1> QED BY <1>1, CreatedTree DEF TreeTo, Created

LEMMA CreateNewLocks ==
    ASSUME CoreInv, LocksInv, NEW t \in Threads, Create(t),
           Entry(ino, th[t].cur, Op(t).old.name) = Nil, IsDir(ino, th[t].cur), CanAlloc
    PROVE  Locks(t)
  <1>1. th[t].pc = "got" BY DEF Create, AtOp, At
  <1>2. OpOf(calls[t]) = "create" BY <1>1, GotFacts DEF Create, AtOp
  <1>3. th[t].cur \in Inums /\ th[t] \in Frame /\ Op(t).old.name \in Fns BY <1>1, GotFacts
  <1>4. PICK p \in Inums : p = th[t].cur BY <1>3
  <1>5. PICK n \in Fns : n = Op(t).old.name BY <1>3
  <1>7. PICK y, c : y = icreate(ino, p, n, "file") /\ c = Ialloc(ino) OBVIOUS
  <1>8. /\ y \in Nodes /\ c \in Inums /\ c # p /\ ino[c].itype = "none"
        /\ \A j \in Inums : y[j].lock = IF j = c THEN NoThread ELSE ino[j].lock
    BY <1>4, <1>5, <1>7, CreatedLock DEF IsDir, Entry
  <1>9. PICK k \in BOOLEAN : k = (Nil = Nil) OBVIOUS
  <1>10. PICK r : r = [th[t] EXCEPT !.ochild = c, !.chk = k] OBVIOUS
  <1>11. ino' = iunlock_refdown(y, p) /\ Goto(t, r, "child") /\ calls' = calls
    BY <1>4, <1>5, <1>7, <1>9, <1>10 DEF Create
  <1>12. \A j \in Inums : ino'[j].lock = IF j = p THEN NoThread ELSE y[j].lock BY <1>8, <1>11, iunlock_refdownFields
  <1>13. PICK U \in SUBSET Inums : U = {p, c} BY <1>8
  <1>14. \A j \in Inums : ino'[j].lock = IF j \in U THEN NoThread ELSE ino[j].lock BY <1>8, <1>12, <1>13
  <1>15. /\ th[t].next = "idle" /\ th[t].defers = <<>> /\ th[t].dead = {} /\ ino[p].lock = t
         /\ HoldUp(th[t], OpOf(calls[t])) = {p} BY <1>1, <1>4, Held0 DEF Locked3
  <1>17. c \in Inos BY <1>8 DEF Inos
  <1>18. r \in Frame /\ r.next = "idle" /\ r.defers = <<>> /\ r.dead = {} BY <1>3, <1>9, <1>10, <1>15, <1>17 DEF Frame
  <1> QED BY <1>14, <1>8, <1>13, <1>15, LooseGoto, <1>1, <1>2, <1>11, <1>18, GotoKeeps DEF Locks, Makes, Locked3

LEMMA CreateOpenLocks ==
    ASSUME CoreInv, LocksInv, NEW t \in Threads, CreateOpen(t)
    PROVE  Locks(t)
  <1>4. PICK c \in Inums : c = th[t].ochild BY Ready DEF LocalOK, Frame, Inos, CreateOpen, AtOp, At
  <1>6. PICK d \in SUBSET Inums : d = {} OBVIOUS
  <1>7. CASE Opened(t, c)
    <2>1. PICK s : s = iunlock(ino, c) OBVIOUS
    <2> QED
      BY Ready, <2>1, iunlockFields, <1>4, <1>6, <1>7, StillFinish DEF SameLock, Opened, Inos, CreateOpen,
         AtOp, At, Locked3, Makes, Op, OpOf
  <1>8. CASE Return(t, Refdown(ino, c), {})
    <2>1. PICK s : s = Refdown(ino, c) OBVIOUS
    <2> QED
      BY Ready, <2>1, RefdownFields, <1>6, <1>8, StillFinish DEF Return, Frame, Locked3, Makes, CreateOpen,
         AtOp, Op, OpOf, At
  <1> QED BY <1>4, <1>7, <1>8 DEF CreateOpen

LEMMA CloseLocks ==
    ASSUME CoreInv, LocksInv, NEW t \in Threads, Fs_close(t)
    PROVE  Locks(t)
  <1>2. ino \in Nodes /\ th[t] \in Frame /\ th[t].file \in Inos BY Ready DEF Frame
  <1>4. CASE th[t].file = Nil
    <2>1. PICK d \in SUBSET Inums : d = {} OBVIOUS
    <2>3. PICK s : s = ino OBVIOUS
    <2> QED BY <1>2, <1>4, <2>1, <2>3, StillFinish DEF SameLock, Fs_close, Return, Locked3, Makes, At
  <1>5. CASE th[t].file # Nil
    <2>1. PICK i \in Inums : i = th[t].file BY <1>2, <1>5 DEF Inos
    <2>2. PICK s : s = Refdown(ino, i) OBVIOUS
    <2>3. PICK d : d = Dead(s, {i}) OBVIOUS
    <2>4. PICK f : f = Nil OBVIOUS
    <2> QED
      BY <1>5, <2>1, <2>2, <2>3, <2>4, <1>2, RefdownFields, StillFinish DEF Fs_close, Dead, Inos, Locked3, Makes, At
  <1> QED BY <1>4, <1>5

LEMMA MkdirQuietLocks ==
    ASSUME CoreInv, LocksInv, NEW t \in Threads, Mkdir(t),
           Entry(ino, th[t].cur, Op(t).old.name) # Nil \/ ~IsDir(ino, th[t].cur) \/ ~CanAlloc
    PROVE  Locks(t)
  <1>3. th[t].cur \in Inums /\ th[t] \in Frame /\ ino \in Nodes /\ Op(t).old.name \in Fns
    BY GotFacts, Ready DEF Mkdir, AtOp, At
  <1>4. PICK c : c = Entry(ino, th[t].cur, Op(t).old.name) OBVIOUS
  <1>5. PICK y : y = IF c = Nil THEN ino ELSE ilookup(ino, th[t].cur, Op(t).old.name) OBVIOUS
  <1>6. PICK q \in Seq(Inums) : q = <<th[t].cur>> BY <1>3, FewSeqs
  <1>7. PICK r : r = [th[t] EXCEPT !.refs = q, !.chk = TRUE] OBVIOUS
  <1>8. ino' = iunlock(y, th[t].cur) /\ Goto(t, r, "refdown") /\ calls' = calls
    BY <1>4, <1>5, <1>6, <1>7 DEF Mkdir, GiveBack
  <1>9. y \in Nodes /\ SameLock(ino, y)
    <2>1. CASE c = Nil BY <1>3, <1>5, <2>1 DEF SameLock
    <2>2. CASE c # Nil BY <1>3, <1>5, <2>2, <1>4, ilookupFields DEF Entry
    <2> QED BY <2>1, <2>2
  <1>12. r \in Frame /\ r.next = th[t].next /\ r.defers = th[t].defers /\ r.dead = th[t].dead BY <1>3, <1>7 DEF Frame
  <1> QED BY GotFacts, <1>8, <1>9, <1>3, iunlockFields, <1>12, GotGoto DEF Mkdir, AtOp, Locked3, At, Unlocks, SameLock

\* mkdir keeps the lock of the parent while the new directory has no `..'.
LEMMA MkdirNewLocks ==
    ASSUME CoreInv, LocksInv, NEW t \in Threads, Mkdir(t),
           Entry(ino, th[t].cur, Op(t).old.name) = Nil, IsDir(ino, th[t].cur), CanAlloc
    PROVE  LockStep(t)
  <1>2. OpOf(calls[t]) = "mkdir" BY GotFacts DEF Mkdir, AtOp, At
  <1>3. th[t].cur \in Inums /\ th[t] \in Frame /\ Op(t).old.name \in Fns /\ th[t].stg = 1
    BY <1>2, GotFacts DEF Mkdir, AtOp, At
  <1>4. PICK p \in Inums : p = th[t].cur BY <1>3
  <1>5. PICK n \in Fns : n = Op(t).old.name BY <1>3
  <1>7. PICK y, c : y = icreate(ino, p, n, "dir") /\ c = Ialloc(ino) OBVIOUS
  <1>8. /\ y \in Nodes /\ c \in Inums /\ c # p /\ ino[c].itype = "none"
        /\ \A j \in Inums : y[j].lock = IF j = c THEN NoThread ELSE ino[j].lock
    BY <1>4, <1>5, <1>7, CreatedLock DEF IsDir, Entry
  <1>10. PICK r : r = [th[t] EXCEPT !.ochild = c] OBVIOUS
  <1>11. ino' = y /\ Goto(t, r, "child") /\ calls' = calls BY <1>4, <1>5, <1>7, <1>10 DEF Mkdir
  <1>13. PICK U \in SUBSET Inums : U = {c} BY <1>8
  <1>14. PICK L \in SUBSET Inums : L = {} OBVIOUS
  <1>15. /\ th[t].next = "idle" /\ th[t].defers = <<>> /\ th[t].dead = {}
         /\ Hold(th[t], OpOf(calls[t])) = {p} /\ HoldUp(th[t], OpOf(calls[t])) = {p}
    BY <1>4, Held0 DEF Locked3, Mkdir, AtOp, At
  <1>18. r \in Frame /\ r.next = "idle" /\ r.defers = <<>> /\ r.dead = {} /\ r.stg = 1 /\ r.cur = p
    BY <1>3, <1>4, <1>10, <1>15, <1>8 DEF Frame, Inos
  <1>25. LockEffect(t, U, L)
    BY <1>8, <1>13, <1>14, <1>15, <1>18, GotoFields, <1>2, <1>11 DEF LockEffect, LockMap, Hold, HoldUp, Makes
  <1> QED BY <1>11, <1>18, GotoFields, <1>25 DEF LockStep, Orderly, Locked3

LEMMA MkdirDotsLocks ==
    ASSUME CoreInv, LocksInv, NEW t \in Threads, MkdirDots(t)
    PROVE  LockStep(t)
  <1>2. OpOf(calls[t]) = "mkdir" BY DEF MkdirDots, AtOp, Op, OpOf
  <1>3. ino' = iunlock(SetDotdot(ino, th[t].ochild, th[t].cur), th[t].cur) /\ th[t].ochild \in Inums /\ th[t].cur \in Inums
    BY MkdirDotsStep
  <1>4. th[t] \in Frame /\ ino \in Nodes /\ LocalOK(th[t], calls[t]) BY Ready
  <1>5. PICK y : y = SetDotdot(ino, th[t].ochild, th[t].cur) OBVIOUS
  <1>6. y \in Nodes /\ SameLock(ino, y) BY <1>3, <1>4, <1>5, DotFields
  <1>7. \A j \in Inums : ino'[j].lock = IF j = th[t].cur THEN NoThread ELSE y[j].lock
    BY <1>3, <1>5, <1>6, iunlockFields
  <1>8. PICK U \in SUBSET Inums : U = {th[t].cur} BY <1>3
  <1>9. \A j \in Inums : ino'[j].lock = IF j \in U THEN NoThread ELSE ino[j].lock BY <1>6, <1>7, <1>8 DEF SameLock
  <1>10. Hold(th[t], OpOf(calls[t])) = {th[t].cur} /\ HoldUp(th[t], OpOf(calls[t])) = {th[t].cur}
    BY <1>2 DEF Hold, HoldUp, Makes, MkdirDots, AtOp, At
  <1>13. PICK q \in Seq(Inums) : q = <<th[t].cur, th[t].ochild>> BY <1>3, FewSeqs
  <1>14. PICK r : r = [th[t] EXCEPT !.refs = q, !.chk = TRUE] OBVIOUS
  <1>16. r \in Frame /\ r.next = "idle" /\ r.defers = <<>> /\ r.dead = {}
    BY <1>4, Held0, <1>14 DEF Frame, Locked3, MkdirDots, AtOp, At
  <1>17. "refdown" \notin Locked3 \cup {"got"} BY DEF Locked3
  <1>18. HoldUp(th[t], OpOf(calls[t])) \subseteq U BY <1>8, <1>10
  <1> QED BY <1>2, <1>9, <1>8, <1>10, <1>13, <1>14, <1>16, <1>17, <1>18, LooseGoto DEF LocksInv, MkdirDots, GiveBack

LEMMA UnlinkLocks ==
    ASSUME CoreInv, LocksInv, NEW t \in Threads, Unlink(t)
    PROVE  Locks(t)
  <1>1. th[t].pc = "got" BY DEF Unlink, AtOp, At
  <1>3. th[t].cur \in Inums /\ th[t] \in Frame /\ ino \in Nodes /\ Op(t).old.name \in Fns /\ th[t].stg = 1
    BY <1>1, GotFacts, Ready DEF Unlink, AtOp
  <1>4. PICK c : c = Entry(ino, th[t].cur, Op(t).old.name) OBVIOUS
  <1>5. CASE c = Nil BY <1>1, <1>4, <1>5, GotReturn DEF Unlink
  <1>6. CASE c # Nil
    <2>1. PICK y : y = ilookup(ino, th[t].cur, Op(t).old.name) OBVIOUS
    <2>2. c \in Inos /\ c \in Inums BY <1>3, <1>4, <1>6, Named DEF Inos
    <2>3. PICK p \in Inums : p = th[t].cur BY <1>3
    <2>4. PICK S \in SUBSET Inums : S = {p, c} BY <2>2
    <2>5. PICK r : r = [th[t] EXCEPT !.opar = p, !.ochild = c, !.tolock = S] OBVIOUS
    <2>6. ino' = iunlock(y, p) /\ Goto(t, r, "lockall") /\ calls' = calls
      BY <1>4, <1>6, <2>1, <2>3, <2>4, <2>5 DEF Unlink
    <2>8. y \in Nodes /\ SameLock(ino, y) BY <1>3, <2>1, <1>4, <1>6, ilookupFields DEF Entry
    <2>10. /\ th[t].next = "idle" /\ th[t].defers = <<>> /\ th[t].dead = {} /\ ino[p].lock = t
           /\ HoldUp(th[t], OpOf(calls[t])) = {p} BY <1>1, <2>3, Held0 DEF Locked3
    <2>11. /\ r \in Frame /\ r.next = "idle" /\ r.defers = <<>> /\ r.dead = {} /\ r.stg = 1 /\ r.opar = p /\ r.ochild = c
           /\ r.tolock = S BY <1>3, <2>2, <2>5, <2>10 DEF Frame, Inos
    <2>12. /\ th'[t].pc = "lockall" /\ th'[t].next = "idle" /\ th'[t].defers = <<>> /\ th'[t].dead = {} /\ th'[t].stg = 1
           /\ th'[t].opar = p /\ th'[t].ochild = c /\ th'[t].tolock = S BY <2>6, <2>11, GotoFields
    <2>18. PICK U \in SUBSET Inums : U = {p} OBVIOUS
    <2>19. PICK L \in SUBSET Inums : L = {} OBVIOUS
    <2>21. LockEffect(t, U, L)
      BY <2>10, <2>12, RangeEmpty, <2>18, <2>19, <2>8, <2>6, iunlockFields DEF LockEffect, Hold, Makes,
         LockMap, SameLock
    <2> QED
      BY RangeEmpty, <2>4, <2>21, <1>1, <2>12, GotFacts, <2>6 DEF LockStep, Locks, Keeps, Makes, Moves,
         Orderly, Locked3, Needed, Unlink, AtOp
  <1> QED BY <1>5, <1>6

LEMMA LinkLocks ==
    ASSUME CoreInv, LocksInv, NEW t \in Threads, Link(t)
    PROVE  Locks(t)
  <1>3. th[t].cur \in Inums /\ th[t].cur \in Inos /\ th[t] \in Frame /\ ino \in Nodes /\ calls[t] # <<>>
    BY GotFacts, Ready DEF Link, AtOp, At
  <1>4. CASE ~IsDir(ino, th[t].cur)
    <2>1. PICK i \in Inums : i = th[t].cur BY <1>3
    <2>2. PICK y : y = _linkup(ino, i) OBVIOUS
    <2>3. PICK s : s = iunlock(y, i) OBVIOUS
    <2>4. PICK q : q = [th[t] EXCEPT !.ochild = i] OBVIOUS
    <2>5. EnterNamei(t, q, s, 2) /\ calls' = calls BY <1>4, <2>1, <2>2, <2>3, <2>4 DEF Link
    <2>6. q \in Frame /\ q.next = th[t].next /\ q.defers = th[t].defers /\ q.dead = th[t].dead
      BY <1>3, <2>1, <2>4 DEF Frame
    <2>7. /\ ino' = Refup(s, iroot)
          /\ \E r \in Frame : /\ Goto(t, r, "namei") /\ r.stg = 2 /\ r.ochild = q.ochild /\ r.next = q.next
                              /\ r.defers = q.defers /\ r.dead = q.dead BY <1>3, <2>5, <2>6, EnterFields
    <2>8. y \in Nodes /\ SameLock(ino, y) BY <1>3, <2>2, _linkupFields
    <2>10. SameLock(s, ino') BY <2>7, <2>3, <2>8, iunlockFields, RefupFields, RootIno
    <2>11. Unlocks(ino, ino', th[t].cur) BY <2>1, <2>8, <2>3, iunlockFields, <2>10 DEF Unlocks, SameLock
    <2>13. PICK r \in Frame : /\ Goto(t, r, "namei") /\ r.stg = 2 /\ r.ochild = q.ochild /\ r.next = q.next
                              /\ r.defers = q.defers /\ r.dead = q.dead BY <2>7
    <2> QED BY GotFacts, <2>5, <2>6, <2>11, <2>13, GotGoto DEF Link, AtOp, Locked3, At
  <1>5. CASE IsDir(ino, th[t].cur) BY <1>5, GotReturn, PanicLocksOf DEF Link, AtOp, At
  <1> QED BY <1>4, <1>5

LEMMA LinkInsertLocks ==
    ASSUME CoreInv, LocksInv, NEW t \in Threads, LinkInsert(t)
    PROVE  Locks(t)
  <1>1. th[t].pc = "got" /\ th[t].stg = 2 BY DEF LinkInsert, AtOp, At
  <1>2. OpOf(calls[t]) = "link" BY <1>1, GotFacts DEF LinkInsert, AtOp
  <1>3. th[t].cur \in Inums /\ th[t] \in Frame /\ ino \in Nodes /\ Op(t).new.name \in Fns /\ LocalOK(th[t], calls[t])
    BY <1>1, GotFacts, Ready
  <1>4. th[t].ochild \in Inums BY <1>1, <1>3 DEF LocalOK, Frame, Inos
  <1>5. CASE IsDir(ino, th[t].cur) /\ ino[th[t].cur].ents[Op(t).new.name] = Nil
    <2>1. PICK y : y = do_insert(ino, th[t].cur, Op(t).new.name, th[t].ochild) OBVIOUS
    <2>2. PICK q \in Seq(Inums) : q = <<th[t].ochild>> BY <1>4, FewSeqs
    <2>3. PICK r : r = [th[t] EXCEPT !.refs = q, !.chk = FALSE] OBVIOUS
    <2>4. ino' = iunlock_refdown(y, th[t].cur) /\ Goto(t, r, "refdown") /\ calls' = calls
      BY <1>5, <2>1, <2>2, <2>3 DEF LinkInsert, GiveBack
    <2>5. y \in Nodes /\ SameLock(ino, y) BY <1>3, <1>4, <2>1, do_insertFields
    <2>7. Unlocks(ino, ino', th[t].cur) BY <2>5, <1>3, <2>4, iunlock_refdownFields DEF Unlocks, SameLock
    <2> QED BY <1>1, <1>2, <2>4, <2>7, <1>3, <2>3, GotGoto DEF Frame, Locked3
  <1>6. CASE ~IsDir(ino, th[t].cur) \/ ino[th[t].cur].ents[Op(t).new.name] # Nil
    <2>1. ino' = iunlock_refdown(ino, th[t].cur) /\ Goto(t, th[t], "undo") /\ calls' = calls BY <1>6 DEF LinkInsert
    <2> QED BY <1>1, <1>2, <1>3, <2>1, iunlock_refdownFields, GotGoto DEF Unlocks, Locked3
  <1> QED BY <1>5, <1>6

LEMMA LinkUndoLocks ==
    ASSUME CoreInv, LocksInv, NEW t \in Threads, LinkUndo(t)
    PROVE  Locks(t)
  <1>3. PICK i \in Inums : i = th[t].ochild BY Ready DEF LocalOK, Frame, Inos, LinkUndo, At
  <1>4. PICK y : y = _linkdown(ino, i) OBVIOUS
  <1>5. PICK s : s = Refdown(y, i) OBVIOUS
  <1>6. PICK d : d = Dead(s, {i}) \cup th[t].dead OBVIOUS
  <1>8. y \in Nodes /\ SameLock(ino, y) BY Ready, <1>4, _linkdownFields
  <1>9. s \in Nodes /\ SameLock(y, s) BY <1>5, <1>8, RefdownFields
  <1>12. th[t].pc \notin Locked3 \cup {"got", "up"} /\ ~Makes(th[t], OpOf(calls[t]))
    BY DEF Locked3, Makes, LinkUndo, At
  <1> QED BY <1>3, <1>4, <1>5, <1>6, <1>9, <1>8, Ready, <1>12, StillFinish DEF LinkUndo, Return, Dead, Frame, SameLock

LEMMA RenameOldLocks ==
    ASSUME CoreInv, LocksInv, NEW t \in Threads, RenameOld(t)
    PROVE  Locks(t)
  <1>1. th[t].pc = "got" /\ th[t].stg = 1 BY DEF RenameOld, AtOp, At
  <1>3. /\ th[t].cur \in Inums /\ th[t].cur \in Inos /\ th[t] \in Frame /\ ino \in Nodes /\ calls[t] # <<>>
        /\ Op(t).old.name \in Fns BY <1>1, GotFacts, Ready
  <1>4. PICK c : c = Entry(ino, th[t].cur, Op(t).old.name) OBVIOUS
  <1>5. CASE c = Nil BY <1>1, <1>4, <1>5, GotReturn DEF RenameOld
  <1>6. CASE c # Nil
    <2>0. c \in Inos /\ c \in Inums /\ c # iroot BY <1>3, <1>4, <1>6, Named DEF Inos
    <2>1. PICK p \in Inums : p = th[t].cur BY <1>3
    <2>2. PICK y : y = ilookup(ino, p, Op(t).old.name) OBVIOUS
    <2>3. PICK s : s = iunlock(y, p) OBVIOUS
    <2>4. PICK q : q = [th[t] EXCEPT !.opar = p, !.ochild = c] OBVIOUS
    <2>5. EnterNamei(t, q, s, 2) /\ calls' = calls BY <1>4, <1>6, <2>1, <2>2, <2>3, <2>4 DEF RenameOld
    <2>6. q \in Frame /\ q.next = th[t].next /\ q.defers = th[t].defers /\ q.dead = th[t].dead /\ q.ochild = c
      BY <1>3, <2>0, <2>1, <2>4 DEF Frame
    <2>8. y \in Nodes /\ SameLock(ino, y) BY <1>3, <2>2, <1>4, <1>6, <2>1, ilookupFields DEF Entry
    <2>9. s \in Nodes /\ \A j \in Inums : s[j].lock = IF j = p THEN NoThread ELSE y[j].lock
      BY <2>3, <2>8, iunlockFields
    <2>10. SameLock(s, ino') BY <1>3, <2>5, <2>6, EnterFields, <2>9, RefupFields, RootIno
    <2>13. PICK r \in Frame : /\ Goto(t, r, "namei") /\ r.stg = 2 /\ r.ochild = q.ochild /\ r.next = q.next
                              /\ r.defers = q.defers /\ r.dead = q.dead BY <1>3, <2>5, <2>6, EnterFields
    <2> QED BY <1>1, <2>5, <2>6, <2>1, <2>8, <2>9, <2>10, <2>13, <2>0, GotGoto DEF Locked3, Unlocks, SameLock
  <1> QED BY <1>5, <1>6

LEMMA RenameLockLocks ==
    ASSUME CoreInv, LocksInv, NEW t \in Threads, RenameLock(t)
    PROVE  Locks(t)
  <1>1. th[t].pc = "got" /\ th[t].stg = 2 BY DEF RenameLock, AtOp, At
  <1>3. th[t].cur \in Inums /\ th[t].cur \in Inos /\ th[t] \in Frame /\ ino \in Nodes BY <1>1, GotFacts, Ready
  <1>4. PICK p \in Inums : p = th[t].cur BY <1>3
  <1>5. PICK z : z = IF p = iroot THEN "look" ELSE "up" OBVIOUS
  <1>6. PICK r : r = [th[t] EXCEPT !.npar = p] OBVIOUS
  <1>7. /\ Goto(t, r, z) /\ calls' = calls /\ (IsDir(ino, th[t].ochild) => rlock' = t)
        /\ ino' = IF p = iroot THEN iunlock(ino, p) ELSE Refup(ino, p) BY <1>4, <1>5, <1>6 DEF RenameLock
  <1>8. /\ th[t].next = "idle" /\ th[t].defers = <<>> /\ th[t].dead = {} /\ ino[p].lock = t /\ th[t].ochild # iroot
        /\ HoldUp(th[t], OpOf(calls[t])) = {p} BY <1>1, GotFacts, <1>4, Held0 DEF Locked3, RenameLock, AtOp
  <1>9. /\ r \in Frame /\ r.next = "idle" /\ r.defers = <<>> /\ r.dead = {} /\ r.ochild = th[t].ochild /\ r.npar = p /\ r.cur = p
    BY <1>3, <1>4, <1>6, <1>8 DEF Frame
  <1>10. /\ th'[t].pc = z /\ th'[t].next = "idle" /\ th'[t].defers = <<>> /\ th'[t].dead = {}
         /\ th'[t].ochild = th[t].ochild /\ th'[t].npar = p /\ th'[t].cur = p BY <1>7, <1>9, GotoFields
  <1>13. PICK U : U = IF p = iroot THEN {p} ELSE {} OBVIOUS
  <1>15. \A j \in Inums : ino'[j].lock = IF j \in U THEN NoThread ELSE ino[j].lock
    <2>1. CASE p = iroot BY <1>3, <1>7, <1>13, <2>1, iunlockFields
    <2>2. CASE p # iroot BY <1>3, <1>7, <1>13, <2>2, RefupFields DEF SameLock
    <2> QED BY <2>1, <2>2
  <1>17. HoldUp(th[t], OpOf(calls[t])) \subseteq U \cup HoldUp(th'[t], OpOf(calls'[t]))
    BY <1>5, <1>8, <1>10, <1>13 DEF HoldUp
  <1>19. LockStep(t) BY <1>10, <1>13, <1>15, <1>5, <1>17, <1>8, PlainLocks DEF Makes, Locked3
  <1> QED BY <1>1, GotFacts, <1>5, <1>7, <1>10, <1>19 DEF Locks, Keeps, Makes, Moves, WalkOn, RenameLock, AtOp

--------------------------------------------------------------------------------
(* The locks of rename and of the calls that lock several inodes. *)
LEMMA UpLocal ==
    ASSUME CoreInv, LocksInv, NEW t \in Threads, th[t].pc = "up"
    PROVE  /\ ino \in Nodes /\ th[t] \in Frame /\ th[t].next = "idle" /\ th[t].defers = <<>> /\ th[t].dead = {}
           /\ th[t].cur \in Inums /\ th[t].npar \in Inums /\ th[t].opar \in Inums /\ th[t].ochild \in Inums
           /\ th[t].npar # iroot /\ th[t].ochild # iroot /\ OpOf(calls[t]) = "rename"
           /\ HoldUp(th[t], OpOf(calls[t])) = IF th[t].cur = th[t].npar THEN {th[t].npar} ELSE {}
           /\ ~Makes(th[t], OpOf(calls[t]))
  BY UpFacts, Held0 DEF HoldUp, Makes, Locked3

\* The rename gives up: everything that it has found is given back.
LEMMA UpGives ==
    ASSUME CoreInv, LocksInv, NEW t \in Threads, th[t].pc = "up", NEW x, GiveBack(t, x, th[t], Triple(t), FALSE),
           NEW U \in SUBSET Inums,
           \A j \in Inums : x[j].lock = IF j \in U THEN NoThread ELSE ino[j].lock,
           \A j \in U : ino[j].lock \in {t, NoThread},
           ~Strays(t) => HoldUp(th[t], OpOf(calls[t])) \subseteq U
    PROVE  Locks(t)
  <1>1. PICK q \in Seq(Inums) : q = Triple(t) BY UpLocal, FewSeqs DEF Triple
  <1>2. PICK r : r = [th[t] EXCEPT !.refs = q, !.chk = FALSE] OBVIOUS
  <1>4. /\ th[t] \in Frame /\ th[t].next = "idle" /\ th[t].defers = <<>> /\ th[t].dead = {} /\ th[t].ochild # iroot
        /\ ~Makes(th[t], OpOf(calls[t])) BY UpLocal
  <1>5. r \in Frame /\ r.next = "idle" /\ r.defers = <<>> /\ r.dead = {} /\ r.ochild # iroot BY <1>2, <1>4 DEF Frame
  <1> QED BY LooseGoto, <1>1, <1>2, <1>4, <1>5, GotoKeeps DEF Locks, Locked3, GiveBack

LEMMA IsAncestorLocks ==
    ASSUME CoreInv, LocksInv, NEW t \in Threads, IsAncestor(t)
    PROVE  Locks(t)
  <1>1. th[t].pc = "up" /\ ~fatal /\ th[t].cur = th[t].ochild BY DEF IsAncestor, At
  <1>2. PICK x : x = Refdown(ino, th[t].cur) OBVIOUS
  <1>4. SameLock(ino, x) BY <1>1, <1>2, UpLocal, RefdownFields
  <1>5. PICK U \in SUBSET Inums : U = {} OBVIOUS
  <1>7. ~Strays(t) => HoldUp(th[t], OpOf(calls[t])) \subseteq U BY <1>1, UpLocal DEF Strays, At
  <1> QED BY <1>1, <1>2, <1>4, <1>5, <1>7, UpGives DEF SameLock, IsAncestor

\* The walk goes on at i, or ends.
LEMMA UpWalks ==
    ASSUME CoreInv, LocksInv, NEW t \in Threads, th[t].pc = "up", NEW i \in Inums, NEW p \in {"up", "look"},
           Goto(t, [th[t] EXCEPT !.cur = i], p), calls' = calls, rlock' = rlock,
           \/ p = "look" /\ th[t].cur = iroot
           \/ p = "up" /\ th[t].cur \notin {th[t].ochild, iroot} /\ i = ino[th[t].cur].dotdot,
           NEW U \in SUBSET Inums,
           \A j \in Inums : ino'[j].lock = IF j \in U THEN NoThread ELSE ino[j].lock,
           \A j \in U : ino[j].lock \in {t, NoThread},
           HoldUp(th[t], OpOf(calls[t])) \subseteq U
    PROVE  Locks(t)
  <1>1. PICK r : r = [th[t] EXCEPT !.cur = i] OBVIOUS
  <1>2. Goto(t, r, p) BY <1>1
  <1>3. /\ th[t] \in Frame /\ th[t].next = "idle" /\ th[t].defers = <<>> /\ th[t].dead = {} /\ th[t].ochild # iroot
        /\ ~Makes(th[t], OpOf(calls[t])) /\ OpOf(calls[t]) = "rename" BY UpLocal
  <1>5. /\ r \in Frame /\ r.next = "idle" /\ r.defers = <<>> /\ r.dead = {} /\ r.ochild = th[t].ochild
        /\ r.npar = th[t].npar /\ r.cur = i BY <1>1, <1>3 DEF Frame, Inos
  <1>10. Keeps(t) BY <1>3, <1>2, <1>5, GotoFields DEF Keeps, Makes, WalkOn, Locked3
  <1> QED BY <1>2, <1>3, <1>5, LooseGoto, <1>10 DEF Locks, Locked3

LEMMA AncestorLocks ==
    ASSUME CoreInv, LocksInv, NEW t \in Threads, Ancestor(t), ~Panic
    PROVE  Locks(t)
  <1>3. ino \in Nodes /\ th[t].cur \in Inums /\ HoldUp(th[t], OpOf(calls[t])) = IF th[t].cur = th[t].npar THEN {th[t].npar} ELSE {}
    BY UpLocal DEF Ancestor, At
  <1>4. PICK U \in SUBSET Inums : U = {th[t].cur} BY <1>3
  <1>5. (\A j \in U : ino[j].lock \in {t, NoThread}) /\ HoldUp(th[t], OpOf(calls[t])) \subseteq U
    BY <1>3, <1>4 DEF Ancestor
  <1>6. CASE ino[th[t].cur].dotdot = Nil
    <2>1. PICK x : x = iunlock_refdown(ino, th[t].cur) OBVIOUS
    <2>3. \A j \in Inums : x[j].lock = IF j \in U THEN NoThread ELSE ino[j].lock
      BY <1>3, <1>4, <2>1, iunlock_refdownFields
    <2> QED BY <1>5, <1>6, <2>1, <2>3, UpGives DEF Ancestor, At
  <1>7. CASE ino[th[t].cur].dotdot # Nil
    <2>1. PICK i : i = ino[th[t].cur].dotdot OBVIOUS
    <2>2. i \in Inums BY <1>3, <1>7, <2>1 DEF Nodes, Node, Inos
    <2>3. PICK y : y = Refup(ino, i) OBVIOUS
    <2>4. ino' = iunlock_refdown(y, th[t].cur) /\ Goto(t, [th[t] EXCEPT !.cur = i], "up") /\ rlock' = rlock /\ calls' = calls
      BY <1>7, <2>1, <2>3 DEF Ancestor
    <2>5. y \in Nodes /\ SameLock(ino, y) BY <1>3, <2>2, <2>3, RefupFields
    <2>7. \A j \in Inums : ino'[j].lock = IF j \in U THEN NoThread ELSE ino[j].lock
      BY <1>4, <2>5, <1>3, <2>4, iunlock_refdownFields DEF SameLock
    <2> QED BY <1>5, <2>1, <2>2, <2>4, <2>7, UpWalks DEF Ancestor, At
  <1> QED BY <1>6, <1>7

LEMMA AncestorRootLocks ==
    ASSUME CoreInv, LocksInv, NEW t \in Threads, AncestorRoot(t)
    PROVE  Locks(t)
  <1>1. th[t].pc = "up" /\ th[t].cur = iroot /\ ino' = Refdown(ino, iroot) /\ Goto(t, th[t], "look") /\ rlock' = rlock /\ calls' = calls
    BY DEF AncestorRoot, At
  <1>2. /\ ino \in Nodes /\ th[t].cur \in Inums /\ th[t] \in Frame /\ th[t].npar # iroot
        /\ HoldUp(th[t], OpOf(calls[t])) = IF th[t].cur = th[t].npar THEN {th[t].npar} ELSE {} BY <1>1, UpLocal
  <1>3. PICK i \in Inums : i = th[t].cur BY <1>2
  <1>5. PICK U \in SUBSET Inums : U = {} OBVIOUS
  <1>7. /\ \A j \in Inums : ino'[j].lock = IF j \in U THEN NoThread ELSE ino[j].lock
        /\ \A j \in U : ino[j].lock \in {t, NoThread}
        /\ HoldUp(th[t], OpOf(calls[t])) \subseteq U BY <1>1, <1>2, <1>5, RootIno, RefdownFields DEF SameLock
  <1>8. Goto(t, [th[t] EXCEPT !.cur = i], "look") BY <1>1, <1>2, <1>3 DEF Frame
  <1> QED BY <1>1, <1>7, <1>8, UpWalks

LEMMA RangeFound ==
    ASSUME NEW a \in Inums, NEW b \in Inums, NEW c \in Inums, NEW d \in Inos
    PROVE  Range(<<a, b, c>> \o (IF d = Nil THEN <<>> ELSE <<d>>)) = {a, b, c} \cup ({d} \ {Nil})
  <1>1. CASE d = Nil
    <2>1. PICK f : f = <<a, b, c>> OBVIOUS
    <2> QED BY <1>1, <2>1 DEF Range
  <1>2. CASE d # Nil
    <2>1. PICK f, x, y : x = <<a, b, c>> /\ y = <<d>> /\ f = x \o y OBVIOUS
    <2> QED BY <1>2, <2>1 DEF Range, Inos
  <1> QED BY <1>1, <1>2

LEMMA RenameLookLocks ==
    ASSUME CoreInv, LocksInv, NEW t \in Threads, RenameLook(t)
    PROVE  Locks(t)
  <1>2. th[t] \in Frame /\ ino \in Nodes /\ LocalOK(th[t], calls[t]) BY Ready
  <1>3. OpOf(calls[t]) = "rename" /\ th[t].stg = 2 /\ th[t].opar \in Inums /\ th[t].ochild \in Inums /\ th[t].npar \in Inums /\ calls[t] # <<>>
    BY <1>2 DEF LocalOK, Frame, Inos, RenameLook, At
  <1>4. PICK c : c = Entry(ino, th[t].npar, Op(t).new.name) OBVIOUS
  <1>6. c \in Inos /\ (c # Nil => ino[th[t].npar].ents[Op(t).new.name] # Nil)
    BY <1>3, <1>4, CallParts, Named DEF Inos, Entry
  <1>7. PICK f : f = Triple(t) \o (IF c = Nil THEN <<>> ELSE <<c>>) OBVIOUS
  <1>9. Range(f) = {th[t].opar, th[t].ochild, th[t].npar} \cup ({c} \ {Nil})
    <2>1. PICK x, y, z \in Inums : x = th[t].opar /\ y = th[t].ochild /\ z = th[t].npar BY <1>3
    <2>3. Range(<<x, y, z>> \o (IF c = Nil THEN <<>> ELSE <<c>>)) = {x, y, z} \cup ({c} \ {Nil}) BY <1>6, RangeFound
    <2> QED BY <2>1, <1>7, <2>3 DEF Triple
  <1>10. PICK S \in SUBSET Inums : S = Range(f) BY <1>3, <1>6, <1>7, FoundSeq DEF Triple
  <1>11. PICK r : r = [th[t] EXCEPT !.nchild = c, !.refs = f, !.tolock = S] OBVIOUS
  <1>12. /\ Goto(t, r, "lockall") /\ calls' = calls /\ rlock' = rlock
         /\ ino' = IF c = Nil THEN ino ELSE ilookup(ino, th[t].npar, Op(t).new.name)
    BY <1>4, <1>7, <1>10, <1>11 DEF RenameLook
  <1>14. /\ th[t].next = "idle" /\ th[t].defers = <<>> /\ th[t].dead = {} /\ th[t].ochild # iroot
         /\ HoldUp(th[t], OpOf(calls[t])) = {} /\ ~Makes(th[t], OpOf(calls[t]))
    BY <1>3, Held0 DEF Locked3, Makes, RenameLook, At
  <1>15. /\ r \in Frame /\ r.next = "idle" /\ r.defers = <<>> /\ r.dead = {} /\ r.opar = th[t].opar /\ r.ochild = th[t].ochild
         /\ r.npar = th[t].npar /\ r.nchild = c /\ r.tolock = S
    BY <1>2, <1>6, <1>3, <1>7, FoundSeq, <1>11, <1>14 DEF Frame, Triple
  <1>16. /\ th'[t].pc = "lockall" /\ th'[t].next = "idle" /\ th'[t].defers = <<>> /\ th'[t].dead = {}
         /\ th'[t].opar = th[t].opar /\ th'[t].ochild = th[t].ochild
         /\ th'[t].npar = th[t].npar /\ th'[t].nchild = c /\ th'[t].tolock = S BY <1>12, <1>15, GotoFields
  <1>22. PICK E \in SUBSET Inums : E = {} OBVIOUS
  <1>24. LockEffect(t, E, E)
    BY <1>14, <1>16, RangeEmpty, <1>22, <1>2, <1>3, CallParts, <1>6, <1>12, ilookupFields DEF LockEffect,
       Hold, Makes, LockMap, SameLock
  <1>26. Keeps(t) BY <1>14, <1>16, <1>3, <1>12 DEF Keeps, Makes, WalkOn, RenameLook, At
  <1> QED
    BY <1>14, <1>16, RangeEmpty, <1>9, <1>10, <1>3, <1>12, <1>24, <1>26 DEF LockStep, Locks, Orderly, Locked3, Needed

LEMMA RangeAppend ==
    ASSUME NEW q \in Seq(Inums), NEW i \in Inums
    PROVE  /\ Range(Append(q, i)) = Range(q) \cup {i}
           /\ i \notin Range(q) /\ (\A j, k \in DOMAIN q : q[j] = q[k] => j = k) =>
                \A j, k \in DOMAIN Append(q, i) : Append(q, i)[j] = Append(q, i)[k] => j = k
  <1>1. PICK x : x = Append(q, i) OBVIOUS
  <1>3. Range(x) = Range(q) \cup {i}
    <2> QED BY <1>1 DEF Range
  <1>4. ASSUME i \notin Range(q), \A j, k \in DOMAIN q : q[j] = q[k] => j = k, NEW j \in DOMAIN x, NEW k \in DOMAIN x, x[j] = x[k]
        PROVE  j = k BY <1>1, <1>4 DEF Range
  <1> QED BY <1>1, <1>3, <1>4

LEMMA LockAllLocks ==
    ASSUME CoreInv, LocksInv, NEW t \in Threads, LockAll(t)
    PROVE  Locks(t)
  <1>1. th[t].pc = "lockall" BY DEF LockAll, At
  <1>2. th[t] \in Frame /\ ino \in Nodes /\ LocalOK(th[t], calls[t]) BY Ready
  <1>3. th[t].tolock \in SUBSET Inums /\ th[t].tolock # {} /\ th[t].defers \in Seq(Inums)
    BY <1>1, <1>2 DEF LocalOK, Frame
  <1>4. PICK i \in Inums : i = Min(th[t].tolock) BY <1>3, MinOf
  <1>6. PICK p : p = IF th[t].tolock = {i} THEN "locked" ELSE "lockall" OBVIOUS
  <1>7. PICK q : q = Append(th[t].defers, i) OBVIOUS
  <1>8. PICK S : S = th[t].tolock \ {i} OBVIOUS
  <1>9. PICK r : r = [th[t] EXCEPT !.tolock = S, !.defers = q] OBVIOUS
  <1>10. ino[i].lock = NoThread /\ ino' = ilock(ino, i, t) /\ Goto(t, r, p) /\ calls' = calls /\ rlock' = rlock
    BY <1>4, <1>6, <1>7, <1>8, <1>9 DEF LockAll
  <1>12. /\ Orderly(th[t], OpOf(calls[t])) /\ th[t].next = "idle" /\ th[t].dead = {}
         /\ (th[t].stg = 2 /\ OpOf(calls[t]) = "rename" => th[t].ochild # iroot) BY <1>1, Held0
  <1>15. Range(q) = Range(th[t].defers) \cup {i} /\ \A j, k \in DOMAIN q : q[j] = q[k] => j = k
    BY <1>3, <1>7, <1>1, <1>12, <1>4, MinOf, RangeAppend DEF Orderly
  <1>16. /\ r \in Frame /\ r.next = "idle" /\ r.defers = q /\ r.tolock = S /\ r.dead = {} /\ r.stg = th[t].stg
         /\ r.opar = th[t].opar /\ r.ochild = th[t].ochild /\ r.npar = th[t].npar /\ r.nchild = th[t].nchild
    BY <1>2, <1>9, <1>3, <1>7, <1>8, Appended, <1>12 DEF Frame
  <1>17. /\ th'[t].pc = p /\ th'[t].next = "idle" /\ th'[t].defers = q /\ th'[t].tolock = S /\ th'[t].dead = {} /\ th'[t].stg = th[t].stg
         /\ th'[t].opar = th[t].opar /\ th'[t].ochild = th[t].ochild /\ th'[t].npar = th[t].npar /\ th'[t].nchild = th[t].nchild
    BY <1>10, <1>16, GotoFields
  <1>21. p \in {"lockall", "locked"} BY <1>6
  <1>22. Orderly(th'[t], OpOf(calls'[t]))
    BY <1>12, <1>15, <1>17, <1>10, <1>3, <1>4, MinOf, <1>6, <1>8, <1>1, <1>21 DEF Orderly, Locked3, Needed
  <1>24. PICK U \in SUBSET Inums : U = {} OBVIOUS
  <1>25. PICK L \in SUBSET Inums : L = {i} OBVIOUS
  <1>28. LockEffect(t, U, L)
    BY <1>10, <1>15, <1>1, <1>17, <1>21, <1>24, <1>25, <1>2, ilockFields DEF LockEffect, Hold, HoldUp, Makes,
       LockMap, Tids
  <1> QED BY <1>22, <1>28, <1>1, <1>17, <1>21, <1>10 DEF Locks, LockStep, Keeps, Makes, Moves, WalkOn

LEMMA UnlinkedLocks ==
    ASSUME CoreInv, LocksInv, NEW t \in Threads, Unlinked(t)
    PROVE  Locks(t)
  <1>1. th[t].pc = "locked" BY DEF Unlinked, AtOp, At
  <1>3. th[t] \in Frame /\ ino \in Nodes /\ LocalOK(th[t], calls[t]) /\ Shape(ino) BY Ready, CoreParts
  <1>4. th[t].opar \in Inums /\ th[t].ochild \in Inums /\ calls[t] # <<>>
    BY <1>1, <1>3 DEF LocalOK, Frame, Inos, Unlinked, AtOp, Op, OpOf
  <1>5. PICK p \in Inums : p = th[t].opar BY <1>4
  <1>6. PICK c \in Inums : c = th[t].ochild BY <1>4
  <1>7. PICK n \in Fns : n = Op(t).old.name BY <1>4, CallParts
  <1>8. PICK v : v = ilookup_validate(ino, p, n) OBVIOUS
  <1>9. PICK w : w = IF Valid(ino, p, n, c) /\ do_dirchk(ino, c, Op(t).flag) THEN _linkdown(do_unlink(v, p, n), c) ELSE v
    OBVIOUS
  <1>10. PICK s : s = iunlock_refdown(w, c) OBVIOUS
  <1>11. PICK x : x = iunlock_refdown(s, p) OBVIOUS
  <1>12. PICK d : d = Dead(s, {c}) OBVIOUS
  <1>13. Finish(t, x, d, th[t].file) BY <1>5, <1>6, <1>7, <1>8, <1>9, <1>10, <1>11, <1>12 DEF Unlinked, Return
  <1>14. v \in Nodes /\ SameLock(ino, v) BY <1>3, <1>8, ilookup_validateFields DEF Shape
  <1>15. w \in Nodes /\ SameLock(ino, w)
    <2>1. PICK y : y = do_unlink(v, p, n) OBVIOUS
    <2>3. _linkdown(y, c) \in Nodes /\ SameLock(y, _linkdown(y, c)) BY <1>14, <2>1, do_unlinkFields, _linkdownFields
    <2> QED BY <1>9, <1>14, <2>1, do_unlinkFields, <2>3 DEF SameLock
  <1>16. s \in Nodes /\ \A j \in Inums : s[j].lock = IF j = c THEN NoThread ELSE w[j].lock
    BY <1>10, <1>15, iunlock_refdownFields
  <1>17. x \in Nodes /\ \A j \in Inums : x[j].lock = IF j = p THEN NoThread ELSE s[j].lock
    BY <1>11, <1>16, iunlock_refdownFields
  <1>18. PICK U \in SUBSET Inums : U = {p, c} OBVIOUS
  <1>19. \A j \in Inums : x[j].lock = IF j \in U THEN NoThread ELSE ino[j].lock
    BY <1>15, <1>16, <1>17, <1>18 DEF SameLock
  <1>20. Hold(th[t], OpOf(calls[t])) = U /\ HoldUp(th[t], OpOf(calls[t])) = U
    <2>1. Range(th[t].defers) = Needed(th[t], OpOf(calls[t]))
      <3>1. Orderly(th[t], OpOf(calls[t])) BY DEF LocksInv
      <3> QED BY <1>1, <3>1 DEF Orderly
    <2> QED BY <1>1, <2>1, <1>5, <1>6, <1>18 DEF Hold, HoldUp, Makes, Needed, Unlinked, AtOp, Op, OpOf
  <1> QED
    BY <1>19, <1>20, LooseFinish, <1>1, <1>13, <1>17, <1>3, <1>12, FinishKeeps DEF Locks, Makes, LocksInv, Dead, Frame

LEMMA RenameLocks ==
    ASSUME CoreInv, LocksInv, NEW t \in Threads, Rename(t)
    PROVE  Locks(t)
  <1>2. /\ th[t].pc = "locked" /\ OpOf(calls[t]) = "rename" /\ th[t] \in Frame /\ th[t].stg = 2 /\ th[t].refs = Found(th[t])
    BY LockedFacts DEF Rename
  <1>3. PICK r : r = [th[t] EXCEPT !.chk = TRUE, !.next = "idle"] OBVIOUS
  <1>4. Goto(t, r, "unlock") BY <1>3 DEF Rename
  <1>5. SameLock(ino, ino')
    <2>1. CASE Stopped(t) BY <2>1, CheckedTouch DEF Rename
    <2>2. CASE ~Stopped(t) BY <2>2, RenameMoved
    <2> QED BY <2>1, <2>2
  <1>6. Orderly(th[t], OpOf(calls[t])) /\ th[t].dead = {} /\ th[t].ochild # iroot BY <1>2, Held0
  <1>7. /\ r \in Frame /\ r.next = "idle" /\ r.stg = th[t].stg /\ r.opar = th[t].opar /\ r.ochild = th[t].ochild
        /\ r.npar = th[t].npar /\ r.nchild = th[t].nchild /\ r.tolock = th[t].tolock /\ r.defers = th[t].defers
        /\ r.refs = th[t].refs /\ r.dead = {} BY <1>2, <1>3, <1>6 DEF Frame
  <1>8. /\ th'[t].pc = "unlock" /\ th'[t].next = "idle" /\ th'[t].stg = th[t].stg /\ th'[t].opar = th[t].opar /\ th'[t].ochild = th[t].ochild
        /\ th'[t].npar = th[t].npar /\ th'[t].nchild = th[t].nchild /\ th'[t].tolock = th[t].tolock /\ th'[t].defers = th[t].defers
        /\ th'[t].refs = th[t].refs /\ th'[t].dead = {} BY <1>4, <1>7, GotoFields
  <1>14. PICK E \in SUBSET Inums : E = {} OBVIOUS
  <1>16. LockEffect(t, E, E) BY <1>2, <1>8, <1>14, <1>5 DEF LockEffect, Hold, HoldUp, Makes, LockMap, SameLock
  <1> QED BY <1>6, <1>16, <1>2, <1>8 DEF LockStep, Locks, Keeps, Makes, Moves, Orderly, Locked3, Needed, Found, Rename

LEMMA RangeShort ==
    ASSUME NEW q \in Seq(Inums), q # <<>>, \A j, k \in DOMAIN q : q[j] = q[k] => j = k,
           NEW x, x = SubSeq(q, 1, Len(q) - 1)
    PROVE  /\ Range(x) = Range(q) \ {q[Len(q)]} /\ q[Len(q)] \in Range(q)
           /\ \A j, k \in DOMAIN x : x[j] = x[k] => j = k
           /\ Len(q) = 1 => x = <<>>
  <1>1. /\ Len(q) \in Nat \ {0} /\ DOMAIN q = 1 .. Len(q) /\ DOMAIN x = 1 .. (Len(q) - 1)
        /\ \A k \in 1 .. (Len(q) - 1) : x[k] = q[k] OBVIOUS
  <1>3. \A k \in DOMAIN x : k \in DOMAIN q /\ k # Len(q) /\ x[k] = q[k] BY <1>1
  <1>7. Len(q) = 1 => x = <<>> OBVIOUS
  <1> QED BY <1>3, <1>1, <1>7 DEF Range

LEMMA RenameUnlockLocks ==
    ASSUME CoreInv, LocksInv, NEW t \in Threads, RenameUnlock(t)
    PROVE  Locks(t)
  <1>1. th[t].pc = "unlock" BY DEF RenameUnlock, At
  <1>2. th[t] \in Frame /\ ino \in Nodes /\ LocalOK(th[t], calls[t]) BY Ready
  <1>3. th[t].defers \in Seq(Inums) /\ th[t].defers # <<>> /\ OpOf(calls[t]) = "rename" /\ th[t].stg = 2
    BY <1>1, <1>2 DEF LocalOK, Frame
  <1>4. PICK q \in Seq(Inums) : q = th[t].defers BY <1>3
  <1>5. PICK i \in Inums : i = q[Len(q)] BY <1>3, <1>4, Shortened
  <1>6. PICK x : x = SubSeq(q, 1, Len(q) - 1) OBVIOUS
  <1>7. Orderly(th[t], OpOf(calls[t])) /\ th[t].dead = {} /\ th[t].ochild # iroot /\ th[t].next = "idle"
    BY <1>1, <1>3, Held0
  <1>9. Range(x) = Range(q) \ {i} /\ i \in Range(q) /\ (\A j, k \in DOMAIN x : x[j] = x[k] => j = k) /\ (Len(q) = 1 => x = <<>>)
    <2>1. q # <<>> /\ (\A j, k \in DOMAIN q : q[j] = q[k] => j = k) BY <1>3, <1>4, <1>1, <1>7 DEF Orderly
    <2> QED BY <2>1, <1>5, <1>6, RangeShort
  <1>13. PICK p : p = IF Len(q) = 1 THEN "refdown" ELSE "unlock" OBVIOUS
  <1>14. PICK r : r = [th[t] EXCEPT !.defers = x] OBVIOUS
  <1>15. ino' = iunlock(ino, i) /\ Goto(t, r, p) /\ calls' = calls
    BY <1>4, <1>5, <1>6, <1>9, <1>1, RootIno, <1>13, <1>14 DEF RenameUnlock, LocksInv, Hold, HoldUp, Makes
  <1>17. /\ r \in Frame /\ r.next = "idle" /\ r.stg = th[t].stg /\ r.opar = th[t].opar /\ r.ochild = th[t].ochild
         /\ r.npar = th[t].npar /\ r.nchild = th[t].nchild /\ r.defers = x /\ r.refs = th[t].refs /\ r.dead = {}
    BY <1>2, <1>7, <1>14, <1>3, <1>4, <1>6, Shortened DEF Frame
  <1>18. /\ th'[t].pc = p /\ th'[t].next = "idle" /\ th'[t].stg = th[t].stg /\ th'[t].opar = th[t].opar /\ th'[t].ochild = th[t].ochild
         /\ th'[t].npar = th[t].npar /\ th'[t].nchild = th[t].nchild /\ th'[t].defers = x /\ th'[t].refs = th[t].refs /\ th'[t].dead = {}
    BY <1>15, <1>17, GotoFields
  <1>19. OpOf(calls'[t]) = "rename" /\ p \in {"refdown", "unlock"} BY <1>3, <1>13, <1>15
  <1>21. Orderly(th'[t], OpOf(calls'[t]))
    BY <1>7, <1>1, <1>4, <1>9, <1>13, <1>18, <1>19, <1>3 DEF Orderly, Locked3, Needed, Found
  <1>23. PICK U \in SUBSET Inums : U = {i} OBVIOUS
  <1>24. PICK L \in SUBSET Inums : L = {} OBVIOUS
  <1>27. LockEffect(t, U, L)
    BY <1>9, <1>1, <1>4, <1>18, <1>19, <1>23, <1>24, <1>2, <1>15, iunlockFields DEF LockEffect, Hold, HoldUp,
       Makes, LocksInv, LockMap
  <1> QED BY <1>21, <1>27, <1>1, <1>18, <1>19 DEF LockStep, Locks, Keeps, Makes, Moves

\* A step of the release of references.
LEMMA RefGoto ==
    ASSUME CoreInv, LocksInv, NEW t \in Threads, th[t].pc \in {"refdown", "reflinks"}, SameLock(ino, ino'),
           NEW q \in Seq(Inums), NEW d \in SUBSET Inums, NEW p \in {"refdown", "reflinks"},
           Goto(t, [th[t] EXCEPT !.refs = q, !.dead = d], p), calls' = calls
    PROVE  Locks(t)
  <1>1. PICK r : r = [th[t] EXCEPT !.refs = q, !.dead = d] OBVIOUS
  <1>2. th[t] \in Frame /\ th[t].next = "idle" /\ (th[t].stg = 2 /\ OpOf(calls[t]) = "rename" => th[t].ochild # iroot)
    BY Held0
  <1> QED BY <1>2, <1>1, StillGoto DEF Frame, Locked3, Makes

LEMMA RefDecLocks ==
    ASSUME CoreInv, LocksInv, NEW t \in Threads, RefDec(t)
    PROVE  Locks(t)
  <1>1. th[t].pc = "refdown" /\ th[t].refs # <<>> BY DEF RefDec, At
  <1>2. th[t] \in Frame /\ ino \in Nodes /\ th[t].refs \in Seq(Inums) /\ Head(th[t].refs) \in Inums /\ Tail(th[t].refs) \in Seq(Inums)
    BY <1>1, Ready, RefFacts
  <1>3. PICK i \in Inums : i = Head(th[t].refs) BY <1>2
  <1>4. PICK q : q = IF ino[i].ref = 1 THEN th[t].refs ELSE Tail(th[t].refs) OBVIOUS
  <1>5. PICK p : p = IF ino[i].ref = 1 THEN "reflinks" ELSE "refdown" OBVIOUS
  <1>6. ino' = Dec(ino, i) /\ Goto(t, [th[t] EXCEPT !.refs = q], p) /\ calls' = calls
    BY <1>3, <1>4, <1>5 DEF RefDec, Dec
  <1>7. PICK d : d = th[t].dead OBVIOUS
  <1>11. Goto(t, [th[t] EXCEPT !.refs = q, !.dead = d], p) BY <1>6, <1>2, <1>7 DEF Frame
  <1> QED BY <1>6, DecFields, <1>2, <1>4, <1>5, <1>11, <1>1, <1>7, RefGoto DEF Frame

LEMMA RefLinksLocks ==
    ASSUME CoreInv, LocksInv, NEW t \in Threads, RefLinks(t)
    PROVE  Locks(t)
  <1>2. CASE Panic BY <1>2, PanicLocks DEF Locks, Keeps, Makes, Moves, Panic, RefLinks, At
  <1>3. CASE ~Panic
    <2>2. th[t] \in Frame /\ ino \in Nodes /\ th[t].refs \in Seq(Inums) /\ Head(th[t].refs) \in Inums /\ Tail(th[t].refs) \in Seq(Inums)
      BY Ready, RefFacts DEF LocalOK, RefLinks, At
    <2>3. PICK i \in Inums : i = Head(th[t].refs) BY <2>2
    <2>4. PICK b : b = (ino[i].gone \/ ino[i].links = 0) OBVIOUS
    <2>5. PICK d : d = IF ino[i].links = 0 /\ th[t].chk THEN th[t].dead \cup {i} ELSE th[t].dead OBVIOUS
    <2>6. PICK q : q = Tail(th[t].refs) OBVIOUS
    <2>7. ino' = SetGone(ino, i, b) /\ Goto(t, [th[t] EXCEPT !.refs = q, !.dead = d], "refdown") /\ calls' = calls
      BY <1>3, <2>3, <2>4, <2>5, <2>6 DEF RefLinks, SetGone
    <2>9. SameLock(ino, ino') BY <2>2, <2>7, <2>4, GoneFields
    <2> QED BY <2>7, <2>9, <2>2, <2>5, <2>6, RefGoto DEF Frame, RefLinks, At
  <1> QED BY <1>2, <1>3

LEMMA RefDoneLocks ==
    ASSUME CoreInv, LocksInv, NEW t \in Threads, RefDone(t)
    PROVE  Locks(t)
  <1>5. PICK s : s = ino OBVIOUS
  <1> QED BY Held0, <1>5, StillFinish DEF Frame, SameLock, RefDone, Locked3, Makes, At

\* What is locked is in use.
LEMMA HoldLive ==
    ASSUME CoreInv, LocksInv, NEW u \in Threads, NEW i \in Hold(th[u], OpOf(calls[u]))
    PROVE  i \in Inums /\ N(th[u], OpOf(calls[u]), i) > 0 /\ ino[i].itype # "none"
  <1>1. th[u] \in Frame /\ LocalOK(th[u], calls[u]) /\ Orderly(th[u], OpOf(calls[u])) BY Ready, Held0
  <1> SUFFICES i \in Inums /\ N(th[u], OpOf(calls[u]), i) > 0 BY HasLive
  <1>2. CASE th[u].pc = "got" BY <1>2, GotFacts DEF B, Hold
  <1>3. CASE Makes(th[u], OpOf(calls[u]))
    <2>2. i \in Inums BY <1>1, <1>3 DEF Makes, LocalOK, Frame, Inos, Hold
    <2> QED BY <2>2, <1>1, <1>3, HeldChild DEF B, Makes, Hold
  <1>4. CASE th[u].pc # "got" /\ ~Makes(th[u], OpOf(calls[u]))
    <2>2. th[u].pc \in Locked3 /\ i \in Needed(th[u], OpOf(calls[u])) /\ i \in Inums
      BY <1>1, <1>4, RangeEmpty DEF Orderly, Locked3, Frame, Range, Hold
    <2>3. CASE OpOf(calls[u]) = "unlink" BY <2>2, <2>3, <1>1, HeldChild DEF Needed, B, LocalOK, Locked3
    <2>4. CASE OpOf(calls[u]) # "unlink"
      <3>2. N(th[u], OpOf(calls[u]), i) = T3(th[u], i) + B(th[u].nchild = i)
        <4>1. CASE th[u].pc \in {"lockall", "locked"} BY <1>1, <2>2, <2>4, <4>1, HeldLocked DEF LocalOK, Locked3
        <4>2. CASE th[u].pc = "unlock" BY <1>1, <2>2, <4>2, HeldRename, FoundCount DEF Orderly
        <4> QED BY <2>2, <4>1, <4>2 DEF Locked3
      <3> QED BY <2>2, <3>2, <2>4 DEF T3, B, Needed
    <2> QED BY <2>3, <2>4
  <1> QED BY <1>2, <1>3, <1>4

LEMMA LocksKept ==
    ASSUME CoreInv, LocksInv, NEW t \in Threads, CoreStep(t), LockStep(t)
    PROVE  LocksInv'
  <1>1. PICK U, L \in SUBSET Inums : LockEffect(t, U, L) BY DEF LockStep
  <1>3. ASSUME NEW u \in Threads
        PROVE  /\ Orderly(th'[u], OpOf(calls'[u]))
               /\ \A i \in Hold(th'[u], OpOf(calls'[u])) : ino'[i].lock = u
    <2>1. CASE u = t
      <3>2. ASSUME NEW i \in Hold(th'[u], OpOf(calls'[u])) PROVE ino'[i].lock = u
        <4>2. CASE i \in L BY <1>1, <2>1, <4>2 DEF LockEffect, LockMap
        <4>3. CASE i \in Hold(th[t], OpOf(calls[t])) \ U
          BY <1>1, <2>1, <4>3, HoldLive DEF LockEffect, LockMap, LocksInv
        <4> QED BY <1>1, <2>1, <3>2, <4>2, <4>3 DEF LockEffect
      <3> QED BY <2>1, <3>2 DEF LockStep
    <2>2. CASE u # t
      <3>3. ASSUME NEW i \in Hold(th'[u], OpOf(calls'[u])) PROVE ino'[i].lock = u
        BY <1>1, <3>3, HoldLive, <2>2, RootIno DEF LockEffect, LockMap, LocksInv, Others, CoreStep, TypeStep
      <3> QED BY <2>2, <3>3 DEF LocksInv, Others, CoreStep, TypeStep
    <2> QED BY <2>1, <2>2
  <1> QED BY <1>3 DEF LocksInv

--------------------------------------------------------------------------------
(* The tree: the invariant of behaviours in which no rename tries again
   and nothing is entered in a directory that was removed. *)
\* Two names of an inode that has at most one.
LEMMA OneOf ==
    ASSUME NEW S, IsFiniteSet(S), Cardinality(S) <= 1, NEW a \in S, NEW b \in S
    PROVE  a = b
  <1>1. IsFiniteSet(S \ {a}) /\ Cardinality(S \ {a}) = Cardinality(S) - 1 /\ Cardinality(S) \in Nat
    BY FS_RemoveElement, FS_CardinalityType
  <1> QED BY <1>1, FS_CardinalityType, FS_EmptySet

\* A directory has one name.
LEMMA OneName ==
    ASSUME CoreInv, OneLink(ino), NEW c \in Inums, ino[c].itype = "dir",
           NEW p \in Inums, NEW n \in Fns, ino[p].ents[n] = c, NEW q \in Inums, NEW m \in Fns, ino[q].ents[m] = c
    PROVE  p = q /\ n = m /\ c # iroot
  <1>1. ino \in Nodes /\ Shape(ino) /\ LinksHeld BY DEF CoreInv, TypeInv
  <1>2. c # Nil /\ c # iroot /\ ino[p].itype = "dir" /\ ino[q].itype = "dir" BY <1>1, RootIno, NoEntriesType DEF Shape
  <1>3. <<p, n>> \in NamesIn(ino, c) /\ <<q, m>> \in NamesIn(ino, c) BY <1>1, <1>2, NamesAre
  <1> QED BY <1>2, <1>3, NamesFinite, <1>1, PendingIs, PendFinite, OneOf DEF NamesOf, LinksHeld, Nodes, Node, OneLink

LEMMA EntsNames ==
    ASSUME NEW s \in Nodes, NEW x \in Nodes, Shape(s), Shape(x), SameEnts(s, x), NEW i \in Inums
    PROVE  NamesIn(x, i) = NamesIn(s, i)
  <1>4. NamesIn(s, i) = {e \in Inums \X Fns : s[e[1]].itype = "dir" /\ s[e[1]].ents[e[2]] = i} BY NamesAre
  <1> QED BY RootIno, NoEntriesType, <1>4, NamesAre, NamesFinite DEF Shape, SameEnts

\* What is freed had no entries.
LEMMA FreeEnts ==
    ASSUME NEW s \in Nodes, Marks(s), Empties(s), NEW dead \in SUBSET Inums, \A i \in dead : s[i].gone,
           NEW x, Freed(s, x, dead)
    PROVE  SameEnts(s, x)
  BY NoEntriesType DEF Freed, SameEnts, Marks, Empties

LEMMA CalmEnts ==
    ASSUME CoreInv, Empties(ino), CalmTree, Marks(ino')
    PROVE  /\ SameEnts(ino, ino')
           /\ \A j \in Inums : /\ ino'[j].links = ino[j].links /\ ino'[j].dotdot = ino[j].dotdot
                               /\ ino'[j].itype = "dir" => ino[j].itype = "dir"
  <1>1. ASSUME NEW j \in Inums, NEW n \in Fns
        PROVE  ino'[j].ents[n] = ino[j].ents[n]
    <2>1. CASE ino'[j].ents = ino[j].ents BY <2>1
    <2>2. CASE ino'[j].ents = NoEntries /\ ino'[j].gone BY <2>2, NoEntriesType DEF Empties, CalmTree, Marks
    <2> QED BY <2>1, <2>2 DEF CalmTree
  <1> QED BY <1>1 DEF SameEnts, CalmTree

LEMMA CalmExact ==
    ASSUME CoreInv, Empties(ino), NEW t \in Threads, CoreStep(t), Calm(t)
    PROVE  LinkExact(t)
  BY CalmEnts, EntsNames DEF LinkExact, Calm, CoreInv, TypeInv, CoreStep, TypeStep, TreeStep, PendSame, B

LEMMA CountedKept ==
    ASSUME CoreInv, NEW t \in Threads, CoreStep(t), LinkExact(t), Counted(ino, th, calls)
    PROVE  Counted(ino', th', calls')
  <1>1. ASSUME NEW i \in Inums \ {iroot}
        PROVE  Cardinality(NamesIn(ino', i)) + Cardinality(PendSet(th', calls', i)) = ino'[i].links
    <2>3. Cardinality(NamesIn(ino', i)) \in Nat /\ Cardinality(NamesIn(ino, i)) \in Nat
          /\ ino[i].links \in Int /\ ino'[i].links \in Int
      BY NamesFinite DEF Nodes, Node, CoreInv, TypeInv, CoreStep, TypeStep
    <2> QED BY PendChange, <2>3, PendFinite, BNat DEF CoreStep, TypeStep, Others, Counted, LinkExact
  <1> QED BY <1>1 DEF Counted

--------------------------------------------------------------------------------
(* Steps that give no directory a new name. *)
LEMMA FewerAcyclic ==
    ASSUME Acyclic(ino), NEW t, FewerEdges(t)
    PROVE  Acyclic(ino')
  <1>1. ASSUME NEW S \in SUBSET Inums, \A i \in S : \E p \in S : DirEdge(ino', p, i)
        PROVE  S = {} BY <1>1 DEF Acyclic, FewerEdges
  <1> QED BY <1>1 DEF Acyclic

\* The calls of the others make what they made.
LEMMA MakesSame ==
    ASSUME NEW t \in Threads, Others(t), NEW i, NEW u \in Threads, u # t
    PROVE  MakesIt(th'[u], calls'[u], i) <=> MakesIt(th[u], calls[u], i)
  BY DEF Others

LEMMA FewerDotted ==
    ASSUME CoreInv, Dotted(ino, th, calls), NEW t \in Threads, CoreStep(t), FewerEdges(t), Keeps(t)
    PROVE  Dotted(ino', th', calls')
  <1>1. ASSUME NEW p \in Inums, NEW i \in Inums, DirEdge(ino', p, i), ino'[i].dotdot # p
        PROVE  \E u \in Threads : MakesIt(th'[u], calls'[u], i)
    <2>2. PICK u \in Threads : MakesIt(th[u], calls[u], i) BY <1>1 DEF Dotted, FewerEdges
    <2> QED BY <2>2, MakesSame DEF CoreStep, TypeStep, Keeps, MakesIt
  <1> QED BY <1>1 DEF Dotted

\* What a call holds is locked by nobody else.
LEMMA HoldApart ==
    ASSUME LocksInv, NEW t \in Threads, NEW u \in Threads, u # t, NEW p \in Hold(th[u], OpOf(calls[u]))
    PROVE  p \notin Hold(th[t], OpOf(calls[t]))
  BY DEF LocksInv

\* The directory that mkdir works in, and the one that it makes.
LEMMA MakerFacts ==
    ASSUME CoreInv, NEW u \in Threads, Makes(th[u], OpOf(calls[u]))
    PROVE  /\ th[u].cur \in Inums /\ th[u].ochild \in Inums /\ ino[th[u].ochild].itype = "dir"
           /\ Hold(th[u], OpOf(calls[u])) = {th[u].cur} /\ NameOf(calls[u]) \in Fns
           /\ ino[th[u].cur].itype # "none" /\ th[u].pc = "child" /\ OpOf(calls[u]) = "mkdir"
  <1>3. th[u].cur \in Inums /\ th[u].ochild \in Inums /\ calls[u] # <<>> BY Ready DEF LocalOK, Frame, Inos, Makes
  <1> QED BY <1>3, Ready, CallParts, HeldChild, HasLive DEF Hold, KindOK, NameOf, Op, B, Makes

LEMMA FewerMaking ==
    ASSUME CoreInv, LocksInv, NEW t \in Threads, CoreStep(t), FewerEdges(t), NEW u \in Threads, u # t,
           MakingOK(ino, th[u], calls[u])
    PROVE  MakingOK(ino', th'[u], calls'[u])
  <1>2. ASSUME Makes(th[u], OpOf(calls[u]))
        PROVE  ino'[th[u].cur].ents[NameOf(calls[u])] = th[u].ochild /\ ino'[th[u].ochild].dotdot = Nil
    <2>1. /\ th[u].cur \in Inums /\ th[u].ochild \in Inums /\ NameOf(calls[u]) \in Fns
          /\ th[u].cur \in Hold(th[u], OpOf(calls[u])) BY <1>2, MakerFacts
    <2> QED BY <1>2, <2>1, HoldApart DEF FewerEdges, MakingOK
  <1> QED BY <1>2 DEF MakingOK, CoreStep, TypeStep, Others

\* What a rename moves is in use.
LEMMA MovesFacts ==
    ASSUME CoreInv, NEW u \in Threads, Moves(th[u], OpOf(calls[u]))
    PROVE  /\ th[u].ochild \in Inums /\ th[u].npar \in Inums /\ ino[th[u].ochild].itype # "none"
           /\ th[u].stg = 2 /\ th[u] \in Frame /\ (th[u].pc = "up" => th[u].cur \in Inums)
  <1>3. th[u].stg = 2 /\ th[u].npar # Nil /\ th[u].ochild # Nil /\ (th[u].pc = "up" => th[u].cur # Nil)
    BY Ready DEF LocalOK, Moves
  <1>4. th[u].ochild \in Inums /\ Has(th[u], OpOf(calls[u]), th[u].ochild) BY Ready, <1>3, HasOchild DEF Moves
  <1> QED BY Ready, <1>3, <1>4, HeldCounts, HasLive DEF Frame, Inos, Has, B

\* The walks of others, while `..' stays.
LEMMA WalkOthers ==
    ASSUME CoreInv, NEW t \in Threads, CoreStep(t), RlockStep(t), NEW u \in Threads, u # t,
           WalkOK(ino, th[u], OpOf(calls[u]), rlock, u),
           \A i \in Inums : ino'[i].dotdot = ino[i].dotdot \/ ino[i].dotdot = Nil \/ rlock = t,
           \A i \in Inums : ino'[i].itype = "dir" => ino[i].itype \in {"none", "dir"}
    PROVE  WalkOK(ino', th'[u], OpOf(calls'[u]), rlock', u)
  <1>2. ASSUME Moves(th[u], OpOf(calls[u])), ino'[th[u].ochild].itype = "dir"
        PROVE  rlock' = u /\ \E P \in SUBSET Inums : Walked(ino', th[u], P)
    <2>3. PICK P \in SUBSET Inums : Walked(ino, th[u], P) BY <1>2, MovesFacts DEF WalkOK
    <2> QED BY <1>2, MovesFacts, RootIno, <2>3 DEF RlockStep, Walked, WalkOK
  <1> QED BY <1>2 DEF WalkOK, CoreStep, TypeStep, Others

\* The walk of the call itself goes on.
LEMMA WalkSelf ==
    ASSUME CoreInv, NEW t \in Threads, CoreStep(t), LockStep(t), Keeps(t),
           WalkOK(ino, th[t], OpOf(calls[t]), rlock, t),
           \A i \in Inums : ino'[i].dotdot = ino[i].dotdot,
           \A i \in Inums : ino'[i].itype = "dir" => ino[i].itype \in {"none", "dir"}
    PROVE  WalkOK(ino', th'[t], OpOf(calls'[t]), rlock', t)
  <1> SUFFICES ASSUME Moves(th'[t], OpOf(calls'[t])), ino'[th'[t].ochild].itype = "dir"
               PROVE  rlock' = t /\ \E P \in SUBSET Inums : Walked(ino', th'[t], P) BY DEF WalkOK
  <1> DEFINE o == th[t]
             r == th'[t]
  <1>1. WalkOn(t) BY DEF Keeps
  <1>2. LocalOK(r, calls'[t]) /\ r \in Frame /\ Orderly(r, OpOf(calls'[t])) /\ th[t] \in Frame /\ LocalOK(o, calls[t])
    BY Ready DEF CoreStep, OwnStep, LockStep, TypeStep, TypeInv
  <1>4. r.stg = 2 /\ r.npar \in Inums /\ r.ochild \in Inums /\ (r.pc = "up" => r.cur \in Inums) /\ r.ochild # iroot
    BY <1>2 DEF LocalOK, Frame, Inos, Orderly, Moves
  <1>5. ino[o.ochild].itype \in {"none", "dir"} /\ o.ochild = r.ochild BY <1>1, <1>4 DEF WalkOn
  <1>7. o.stg = 2 BY <1>2, <1>1, <1>4, <1>5, RootIno DEF LocalOK, Walking, Frame, WalkOn
  <1>8. ino[o.ochild].itype = "dir"
    BY <1>4, <1>5, <1>2, <1>1, <1>7, HasOchild, HeldCounts, HasLive DEF Has, B, Walking, WalkOn
  <1>9. CASE o.pc = "got"
    <2>3. Walked(ino', r, {r.npar}) BY <1>4, <1>1, <1>9 DEF Walked, Here, WalkOn
    <2> QED BY <1>4, <1>1, <1>7, <1>8, <1>9, <2>3 DEF WalkOn, IsDir
  <1>10. CASE o.pc # "got"
    <2>1. rlock = t /\ \E P \in SUBSET Inums : Walked(ino, o, P) BY <1>1, <1>8, <1>10 DEF WalkOK, Moves, WalkOn
    <2>2. PICK P \in SUBSET Inums : Walked(ino, o, P) BY <2>1
    <2>3. rlock' = rlock /\ r.npar = o.npar BY <1>1, <1>10 DEF WalkOn
    <2>4. CASE o.pc = "up" /\ r.pc = "look" /\ o.cur = iroot BY <2>1, <2>3, <1>4, <1>5, <2>2, <2>4 DEF Walked, Here
    <2>5. CASE o.pc = "up" /\ r.pc = "up" /\ o.cur \notin {o.ochild, iroot} /\ r.cur = ino[o.cur].dotdot
      <3>1. Walked(ino', r, P \cup {r.cur}) BY <1>4, <1>5, <2>2, <2>3, <2>5 DEF Walked, Here
      <3> QED BY <2>1, <2>3, <3>1, <1>4, <2>5
    <2>6. CASE o.pc \in {"look", "lockall"} /\ r.pc \in {"lockall", "locked"}
      BY <2>1, <2>3, <1>4, <1>5, <2>2, <2>6 DEF Walked, Here
    <2> QED BY <1>1, <1>10, <2>4, <2>5, <2>6 DEF WalkOn
  <1> QED BY <1>9, <1>10

LEMMA FewerTree ==
    ASSUME CoreInv, TreeInv, NEW t \in Threads, CoreStep(t), Locks(t), RlockStep(t), LinkExact(t), FewerEdges(t),
           Empties(ino')
    PROVE  TreeInv'
  <1>1. /\ LocksInv /\ Acyclic(ino) /\ Empties(ino) /\ OneLink(ino) /\ Counted(ino, th, calls) /\ Dotted(ino, th, calls)
        /\ \A u \in Threads : MakingOK(ino, th[u], calls[u]) /\ WalkOK(ino, th[u], OpOf(calls[u]), rlock, u)
    BY DEF TreeInv
  <1>4. OneLink(ino') BY <1>1 DEF OneLink, FewerEdges, Nodes, Node, CoreInv, TypeInv, CoreStep, TypeStep
  <1>7. ASSUME NEW u \in Threads
        PROVE  MakingOK(ino', th'[u], calls'[u])
    <2>1. CASE u = t BY <2>1 DEF Locks, Keeps, MakingOK
    <2>2. CASE u # t BY <1>1, <2>2, FewerMaking
    <2> QED BY <2>1, <2>2
  <1>8. ASSUME NEW u \in Threads
        PROVE  WalkOK(ino', th'[u], OpOf(calls'[u]), rlock', u)
    <2>2. CASE u = t BY <1>1, <2>2, WalkSelf DEF Locks, FewerEdges
    <2>3. CASE u # t BY <1>1, <2>3, WalkOthers DEF FewerEdges
    <2> QED BY <2>2, <2>3
  <1> QED BY <1>1, LocksKept, FewerAcyclic, <1>4, CountedKept, FewerDotted, <1>7, <1>8 DEF TreeInv, Locks

LEMMA StepShapes ==
    ASSUME CoreInv, NEW t \in Threads, CoreStep(t)
    PROVE  /\ ino \in Nodes /\ Shape(ino) /\ Marks(ino) /\ ino' \in Nodes /\ Shape(ino') /\ Marks(ino')
           /\ \A j \in Inums : ino[j].links \in Int /\ ino'[j].links \in Int
           /\ \A j \in Inums : ino'[j].itype # "dir" => \A n \in Fns : ino'[j].ents[n] = Nil
  BY NoEntriesType DEF Shape, Nodes, Node, CoreInv, TypeInv, CoreStep, TypeStep, TreeStep

LEMMA CalmKeeps ==
    ASSUME CoreInv, TreeInv, NEW t \in Threads, CoreStep(t), Calm(t), Locks(t), RlockStep(t)
    PROVE  TreeInv'
  BY CalmExact, CalmEnts, StepShapes, FewerTree DEF Empties, SameEnts, FewerEdges, DirEdge, Calm, TreeInv

\* A file gets a name.
LEMMA InsertKeeps ==
    ASSUME CoreInv, TreeInv, NEW t \in Threads, CoreStep(t), Locks(t), RlockStep(t), LinkExact(t),
           NEW p \in Inums, NEW n \in Fns, NEW c \in Inums, ino'[c].itype # "dir",
           \A j \in Inums, m \in Fns : ino'[j].ents[m] = IF j = p /\ m = n THEN c ELSE ino[j].ents[m],
           \A j \in Inums : j # c => ino'[j].itype = ino[j].itype /\ ino'[j].links = ino[j].links,
           \A j \in Inums : ino'[j].dotdot = ino[j].dotdot,
           p \in Hold(th[t], OpOf(calls[t])), ino[p].links # 0
    PROVE  TreeInv'
  <1>5. ASSUME NEW q \in Inums, NEW i \in Inums, DirEdge(ino', q, i)
        PROVE  DirEdge(ino, q, i)
    <2>2. PICK m \in Fns : ino'[q].ents[m] = i BY <1>5 DEF DirEdge
    <2> QED BY <1>5, <2>2 DEF DirEdge
  <1> QED BY StepShapes, <1>5, FewerTree DEF Empties, TreeInv, FewerEdges

LEMMA GotHold ==
    ASSUME NEW t \in Threads, th[t].pc = "got"
    PROVE  th[t].cur \in Hold(th[t], OpOf(calls[t]))
  BY DEF Hold

LEMMA CreateKeeps ==
    ASSUME CoreInv, TreeInv, NEW t \in Threads, Create(t), ~Enters(t), RlockStep(t),
           Entry(ino, th[t].cur, Op(t).old.name) = Nil, IsDir(ino, th[t].cur), CanAlloc
    PROVE  TreeInv'
  <1>1. AtOp(t, "create", "got") /\ th[t].pc = "got" BY DEF Create, AtOp, At
  <1>3. PICK p \in Inums : p = th[t].cur BY <1>1, GotFacts
  <1>4. PICK n \in Fns : n = Op(t).old.name BY <1>1, GotFacts
  <1>8. PICK x : x = icreate(ino, p, n, "file") OBVIOUS
  <1>9. PICK c \in Inums : c = Ialloc(ino) /\ TreeTo(x) /\ Created(ino, x, p, n, c, "file") /\ c # p
                           /\ ino[c].itype = "none" /\ ino[c].ents = NoEntries
    BY <1>3, <1>4, <1>8, CreatedTree DEF Entry, IsDir
  <1>11. SameNames(x, ino') /\ SameLinks(x, ino')
    BY <1>3, <1>4, CreateNew, <1>8, <1>9, iunlock_refdownFields DEF TreeTo
  <1>14. /\ ino'[c].itype # "dir"
         /\ \A j \in Inums : j # c => ino'[j].itype = ino[j].itype /\ ino'[j].links = ino[j].links
         /\ \A j \in Inums : ino'[j].dotdot = ino[j].dotdot
    BY <1>9, <1>11 DEF SameNames, SameLinks, Created, Shape, CoreInv
  <1> QED
    BY CreateNew, <1>11, <1>9, <1>14, CreateNewLocks, <1>1, <1>3, GotHold, InsertKeeps DEF Enters, AtOp,
       TreeInv, SameNames, Created

LEMMA LinkInsertKeeps ==
    ASSUME CoreInv, TreeInv, NEW t \in Threads, LinkInsert(t), ~Enters(t), RlockStep(t),
           IsDir(ino, th[t].cur), ino[th[t].cur].ents[Op(t).new.name] = Nil
    PROVE  TreeInv'
  <1>1. AtOp(t, "link", "got") /\ th[t].pc = "got" /\ th[t].stg = 2 BY DEF LinkInsert, AtOp, At
  <1>3. PICK p \in Inums : p = th[t].cur BY <1>1, GotFacts
  <1>4. PICK n \in Fns : n = Op(t).new.name BY <1>1, GotFacts
  <1>8. PICK c \in Inums : c = th[t].ochild /\ ino[c].itype = "file" BY LinkInsertNew
  <1>9. PICK x : x = do_insert(ino, p, n, c) OBVIOUS
  <1>11. x \in Nodes /\ SetEntry(ino, x, p, n, c) /\ SameLinks(ino, x) BY <1>9, do_insertFields DEF CoreInv, TypeInv
  <1>13. SameNames(x, ino') /\ SameLinks(x, ino')
    BY <1>11, <1>3, <1>4, LinkInsertNew, <1>8, <1>9, iunlock_refdownFields
  <1>14. \A j \in Inums, m \in Fns : ino'[j].ents[m] = IF j = p /\ m = n THEN c ELSE ino[j].ents[m]
    BY <1>13, <1>11 DEF SameNames, SetEntry
  <1>15. /\ ino'[c].itype # "dir"
         /\ \A j \in Inums : j # c => ino'[j].itype = ino[j].itype /\ ino'[j].links = ino[j].links
         /\ \A j \in Inums : ino'[j].dotdot = ino[j].dotdot BY <1>8, <1>11, <1>13 DEF SameNames, SameLinks, SetEntry
  <1> QED BY <1>1, <1>3, LinkInsertNew, <1>14, <1>15, LinkInsertLocks, GotHold, InsertKeeps DEF Enters, AtOp, TreeInv

LEMMA LinkKeeps ==
    ASSUME CoreInv, TreeInv, NEW t \in Threads, Link(t), ~IsDir(ino, th[t].cur), RlockStep(t)
    PROVE  TreeInv'
  <1>2. PICK i \in Inums : i = th[t].cur BY LinkNew
  <1>3. PICK x : x = _linkup(ino, i) OBVIOUS
  <1>4. PICK y : y = iunlock(x, i) OBVIOUS
  <1>6. x \in Nodes /\ SameNames(ino, x) /\ \A j \in Inums : x[j].links = ino[j].links + B(j = i)
    BY <1>3, _linkupFields DEF CoreInv, TypeInv
  <1>7. y \in Nodes /\ SameNames(x, y) /\ SameLinks(x, y) BY <1>4, <1>6, iunlockFields
  <1>9. SameNames(y, ino') /\ SameLinks(y, ino') BY <1>7, LinkNew, <1>2, <1>3, <1>4, RefupFields, RootIno
  <1>10. /\ SameEnts(ino, ino')
         /\ \A j \in Inums : /\ ino'[j].dotdot = ino[j].dotdot /\ ino'[j].itype = ino[j].itype
                             /\ j # i => ino'[j].links = ino[j].links
    BY <1>6, <1>7, <1>9 DEF SameEnts, SameNames, SameLinks, B, Nodes, Node, CoreInv, TypeInv
  <1> QED
    BY LinkNew, <1>10, <1>2, StepShapes, LinkLocks, FewerTree DEF FewerEdges, SameEnts, DirEdge, Empties,
       TreeInv, IsDir

LEMMA LinkUndoKeeps ==
    ASSUME CoreInv, TreeInv, NEW t \in Threads, LinkUndo(t), RlockStep(t)
    PROVE  TreeInv'
  <1>1. /\ CoreStep(t) /\ th'[t].pc = "idle" /\ th[t].ochild \in Inums
        /\ \E s, dead : /\ s = Refdown(_linkdown(ino, th[t].ochild), th[t].ochild) /\ TreeTo(s)
                        /\ dead \in SUBSET Inums /\ (\A i \in dead : s[i].gone)
                        /\ ino' = ifree(s, dead) BY LinkUndoStep
  <1>2. PICK c \in Inums : c = th[t].ochild BY <1>1
  <1>3. PICK s, dead : /\ s = Refdown(_linkdown(ino, c), c) /\ TreeTo(s)
                       /\ dead \in SUBSET Inums /\ (\A i \in dead : s[i].gone)
                       /\ ino' = ifree(s, dead) BY <1>1, <1>2
  <1>4. PICK x : x = _linkdown(ino, c) OBVIOUS
  <1>5. ino \in Nodes /\ th[t] \in Frame /\ LocalOK(th[t], calls[t]) /\ KindOK(ino, th[t], OpOf(calls[t])) /\ th[t].pc = "undo"
    BY Ready DEF LinkUndo, At
  <1>6. x \in Nodes /\ SameNames(ino, x) /\ \A j \in Inums : x[j].links = ino[j].links - B(j = c)
    BY <1>4, <1>5, _linkdownFields
  <1>7. s \in Nodes /\ SameNames(x, s) /\ SameLinks(x, s) BY <1>3, <1>4, <1>6, RefdownFields
  <1>8. ino[c].itype = "file" /\ th[t].stg = 2 /\ OpOf(calls[t]) = "link" BY <1>2, <1>5 DEF LocalOK, KindOK
  <1>10. /\ SameEnts(ino, s)
         /\ \A j \in Inums : s[j].dotdot = ino[j].dotdot /\ s[j].itype = ino[j].itype /\ s[j].links = ino[j].links - B(j = c)
    BY <1>6, <1>7 DEF SameEnts, SameNames, SameLinks
  <1>11. \A j \in Inums : j # c => s[j].links = ino[j].links BY <1>5, <1>10 DEF B, Nodes, Node
  <1>12. Empties(s) BY <1>8, <1>3, <1>10, <1>11, NoEntriesType DEF Empties, SameEnts, Shape, CoreInv, TreeTo, TreeInv
  <1>14. SameEnts(s, ino') BY <1>3, <1>7, <1>12, ifreeFields, FreeEnts DEF CoreInv, TreeTo, TreeInv
  <1>15. /\ SameEnts(ino, ino')
         /\ \A j \in Inums : /\ ino'[j].dotdot = ino[j].dotdot /\ ino'[j].links = s[j].links
                             /\ ino'[j].itype = "dir" => ino[j].itype = "dir"
    BY <1>10, <1>3, <1>7, ifreeFields, <1>14 DEF SameEnts, Freed
  <1>17. FewerEdges(t) BY <1>1, <1>8, <1>11, <1>15, StepShapes DEF FewerEdges, SameEnts, DirEdge
  <1>18. LinkExact(t)
    <2>4. ASSUME NEW i \in Inums
          PROVE  ino'[i].links - Cardinality(NamesIn(ino', i)) - B(PendOf(th'[t], OpOf(calls'[t]), i)) =
                 ino[i].links - Cardinality(NamesIn(ino, i)) - B(PendOf(th[t], OpOf(calls[t]), i))
      BY <1>10, <1>15, <1>1, StepShapes, EntsNames, <1>2, <1>5, <1>8, IntFacts DEF B, PendOf, Walking
    <2> QED BY <2>4 DEF LinkExact
  <1> QED BY <1>1, <1>12, <1>14, <1>15, <1>17, <1>18, LinkUndoLocks, FewerTree DEF Empties, SameEnts, TreeInv

\* The locks of unlink and rename.
LEMMA LockedHold ==
    ASSUME CoreInv, LocksInv, NEW t \in Threads, th[t].pc = "locked"
    PROVE  Hold(th[t], OpOf(calls[t])) = Needed(th[t], OpOf(calls[t]))
  <1>1. Orderly(th[t], OpOf(calls[t])) BY DEF LocksInv
  <1> QED BY <1>1 DEF Orderly, Hold, Makes

LEMMA UnlinkedKeeps ==
    ASSUME CoreInv, TreeInv, NEW t \in Threads, Unlinked(t), RlockStep(t)
    PROVE  TreeInv'
  <1>2. PICK s, dead : /\ TreeTo(s) /\ UnlinkedTo(t, s) /\ dead \in SUBSET Inums /\ (\A i \in dead : s[i].gone)
                       /\ ino' = ifree(s, dead)
                       /\ \A i \in Inums : s[i].links - Cardinality(NamesIn(s, i)) = ino[i].links - Cardinality(NamesIn(ino, i))
    BY UnlinkedStep
  <1>3. th[t].pc = "locked" /\ Op(t).op = "unlink" /\ OpOf(calls[t]) = "unlink" BY OpIs DEF Unlinked, AtOp, At
  <1>4. ino \in Nodes /\ s \in Nodes /\ Shape(ino) /\ Shape(s) /\ Marks(s) /\ Empties(ino) /\ LocksInv
    BY <1>2 DEF CoreInv, TypeInv, TreeTo, TreeInv
  <1>5. \A j \in Inums : ino[j].links \in Int BY <1>4 DEF Nodes, Node
  <1>6. th[t].opar \in Hold(th[t], OpOf(calls[t])) BY <1>3, <1>4, LockedHold DEF Needed
  <1>7. /\ Empties(s)
        /\ \A j \in Inums : /\ s[j].itype = ino[j].itype /\ s[j].dotdot = ino[j].dotdot
                            /\ s[j].links <= ino[j].links
        /\ \A j \in Inums, m \in Fns : s[j].ents[m] = ino[j].ents[m] \/ (s[j].ents[m] = Nil /\ j = th[t].opar)
    <2>1. CASE SameNames(ino, s) /\ SameLinks(ino, s) BY <1>4, <1>5, <2>1 DEF SameNames, SameLinks, Empties
    <2>2. CASE ~(SameNames(ino, s) /\ SameLinks(ino, s))
      <3>1. /\ th[t].opar \in Inums /\ th[t].ochild \in Inums /\ Op(t).old.name \in Fns
            /\ do_dirchk(ino, th[t].ochild, Op(t).flag)
            /\ RemovedEntry(ino, s, th[t].opar, Op(t).old.name, th[t].ochild) BY <1>2, <2>2 DEF UnlinkedTo
      <3>2. PICK p \in Inums, c \in Inums, n \in Fns : p = th[t].opar /\ c = th[t].ochild /\ n = Op(t).old.name
        BY <3>1
      <3>6. \A m \in Fns : ino[c].ents[m] = Nil BY <1>4, <3>1, <3>2, NoEntriesType DEF do_dirchk, IsDir, Shape
      <3> QED BY <3>2, <3>1, <1>5, <1>4, <3>6 DEF SetEntry, Empties, B, RemovedEntry
    <2> QED BY <2>1, <2>2
  <1>8. Freed(s, ino', dead) BY <1>2, <1>4, ifreeFields
  <1>9. SameEnts(s, ino') BY <1>2, <1>4, <1>7, <1>8, FreeEnts
  <1>11. FewerEdges(t)
    <2>1. ASSUME NEW q \in Inums, NEW i \in Inums, DirEdge(ino', q, i)
          PROVE  DirEdge(ino, q, i)
      <3>2. PICK m \in Fns : ino'[q].ents[m] = i BY <2>1 DEF DirEdge
      <3> QED BY <1>7, <1>8, <2>1, <1>9, <3>2, RootIno DEF DirEdge, Freed, SameEnts
    <2> QED BY <2>1, <1>7, <1>8, <1>6, <1>9 DEF FewerEdges, Freed, SameEnts
  <1>12. LinkExact(t)
    BY <1>2, UnlinkedStep, <1>4, <1>8, <1>9, StepShapes, EntsNames, <1>3, IntFacts DEF LinkExact, Freed,
       PendOf, Walking, B
  <1> QED
    BY UnlinkedStep, <1>7, <1>8, <1>9, <1>11, <1>12, UnlinkedLocks, FewerTree DEF Empties, SameEnts, Freed, TreeInv

\* A new directory gets a name.
LEMMA MkdirKeeps ==
    ASSUME CoreInv, TreeInv, NEW t \in Threads, Mkdir(t), ~Enters(t), RlockStep(t),
           Entry(ino, th[t].cur, Op(t).old.name) = Nil, IsDir(ino, th[t].cur), CanAlloc
    PROVE  TreeInv'
  <1>1. AtOp(t, "mkdir", "got") /\ th[t].pc = "got" /\ OpOf(calls[t]) = "mkdir" BY OpIs DEF Mkdir, AtOp, At
  <1>2. th[t].cur \in Inums /\ Op(t).old.name \in Fns /\ th[t] \in Frame BY <1>1, GotFacts
  <1>3. PICK p \in Inums : p = th[t].cur BY <1>2
  <1>4. PICK n \in Fns : n = Op(t).old.name BY <1>2
  <1>7. /\ CoreStep(t) /\ LinkExact(t) /\ ino' = icreate(ino, th[t].cur, Op(t).old.name, "dir")
        /\ th'[t] = [[th[t] EXCEPT !.ochild = Ialloc(ino)] EXCEPT !.pc = "child"] BY MkdirNew
  <1>8. PICK c \in Inums : /\ c = Ialloc(ino) /\ Created(ino, ino', p, n, c, "dir") /\ c # p /\ c # iroot
                           /\ ino[c].itype = "none" /\ ino[c].ents = NoEntries
    BY <1>3, <1>4, <1>7, CreatedTree DEF Entry, IsDir
  <1>9. /\ ino \in Nodes /\ Shape(ino) /\ LocksInv /\ Acyclic(ino) /\ Empties(ino) /\ OneLink(ino)
        /\ Counted(ino, th, calls) /\ Dotted(ino, th, calls)
        /\ \A u \in Threads : MakingOK(ino, th[u], calls[u]) /\ WalkOK(ino, th[u], OpOf(calls[u]), rlock, u)
    BY DEF TreeInv, CoreInv, TypeInv
  <1>10. \A j \in Inums, m \in Fns : ino'[j].ents[m] = IF j = p /\ m = n THEN c ELSE ino[j].ents[m]
    BY <1>8 DEF Created
  <1>11. /\ \A j \in Inums : j # c => ino'[j].itype = ino[j].itype /\ ino'[j].links = ino[j].links
         /\ \A j \in Inums : ino'[j].dotdot = ino[j].dotdot
         /\ ino'[c].dotdot = Nil /\ ino'[c].links = 1 /\ \A m \in Fns : ino'[c].ents[m] = Nil
    BY <1>8, <1>9, NoEntriesType DEF Created, Shape
  <1>12. th'[t].pc = "child" /\ th'[t].ochild = c /\ th'[t].cur = p /\ calls' = calls
    BY <1>1, <1>2, <1>3, <1>4, <1>7, <1>8 DEF Frame, Mkdir, GiveBack, Goto, IsDir, Entry
  <1>14. \A q, i \in Inums : DirEdge(ino', q, i) => DirEdge(ino, q, i) \/ (q = p /\ i = c)
    <2>1. ASSUME NEW q \in Inums, NEW i \in Inums, DirEdge(ino', q, i), ~(q = p /\ i = c)
          PROVE  DirEdge(ino, q, i)
      <3>1. PICK m \in Fns : ino'[q].ents[m] = i BY <2>1 DEF DirEdge
      <3> QED BY <1>10, <3>1, <1>11, <2>1, <1>8, <1>9, RootIno DEF DirEdge, Shape
    <2> QED BY <2>1
  <1>15. \A q, i \in Inums : DirEdge(ino', q, i) => q # c BY <1>11, RootIno DEF DirEdge
  <1>16. Acyclic(ino')
    <2>1. ASSUME NEW S \in SUBSET Inums, \A i \in S : \E q \in S : DirEdge(ino', q, i)
          PROVE  S = {}
      <3>1. \A i \in S \ {c} : \E q \in S \ {c} : DirEdge(ino, q, i) BY <1>14, <1>15, <2>1
      <3>2. S \ {c} = {} BY <1>9, <3>1 DEF Acyclic
      <3> QED BY <1>15, <2>1, <3>2
    <2> QED BY <2>1 DEF Acyclic
  <1>17. Empties(ino') BY <1>1, <1>3, <1>9, <1>10, <1>11 DEF Empties, Enters, AtOp
  <1>22. Dotted(ino', th', calls')
    <2>1. ASSUME NEW q \in Inums, NEW i \in Inums, DirEdge(ino', q, i), ino'[i].dotdot # q
          PROVE  \E u \in Threads : MakesIt(th'[u], calls'[u], i)
      <3>1. CASE i = c BY <1>1, <1>12, <3>1 DEF MakesIt, Makes
      <3>2. CASE i # c
        <4>2. PICK u \in Threads : MakesIt(th[u], calls[u], i) BY <1>9, <1>11, <1>14, <2>1, <3>2 DEF Dotted
        <4> QED BY <1>7, <4>2, <1>1 DEF MakesIt, Makes, CoreStep, TypeStep, Others
      <3> QED BY <3>1, <3>2
    <2> QED BY <2>1 DEF Dotted
  <1>23. ASSUME NEW u \in Threads
         PROVE  MakingOK(ino', th'[u], calls'[u])
    <2>1. CASE u = t BY <1>10, <1>11, <1>12, <2>1, <1>4 DEF MakingOK, NameOf, Op
    <2>2. CASE u # t
      <3>1. ASSUME Makes(th[u], OpOf(calls[u]))
            PROVE  ino'[th[u].cur].ents[NameOf(calls[u])] = th[u].ochild /\ ino'[th[u].ochild].dotdot = Nil
        <4>2. th[u].cur # p BY <1>1, <1>3, <1>9, <2>2, <3>1, MakerFacts, HoldApart, GotHold
        <4> QED BY <1>9, <1>10, <1>11, <3>1, MakerFacts, <4>2 DEF MakingOK
      <3> QED BY <1>7, <2>2, <3>1 DEF MakingOK, CoreStep, TypeStep, Others
    <2> QED BY <2>1, <2>2
  <1>24. ASSUME NEW u \in Threads
         PROVE  WalkOK(ino', th'[u], OpOf(calls'[u]), rlock', u)
    <2>1. CASE u = t BY <1>12, <2>1 DEF WalkOK, Moves
    <2>2. CASE u # t BY <1>7, <1>9, <1>11, <2>2, <1>8, WalkOthers
    <2> QED BY <2>1, <2>2
  <1> QED
    BY <1>7, <1>9, MkdirNewLocks, LocksKept, <1>16, <1>17, <1>11, CountedKept, <1>22, <1>23, <1>24 DEF
       TreeInv, OneLink

\* The new directory gets its `..'.
LEMMA DotsKeeps ==
    ASSUME CoreInv, TreeInv, NEW t \in Threads, MkdirDots(t), RlockStep(t)
    PROVE  TreeInv'
  <1>2. /\ th[t].cur \in Inums /\ th[t].ochild \in Inums /\ ino[th[t].ochild].itype = "dir"
        /\ Hold(th[t], OpOf(calls[t])) = {th[t].cur} /\ NameOf(calls[t]) \in Fns
    BY OpIs, MakerFacts DEF MkdirDots, AtOp, At, Makes
  <1>3. PICK p \in Inums, c \in Inums, n \in Fns : p = th[t].cur /\ c = th[t].ochild /\ n = NameOf(calls[t]) BY <1>2
  <1>4. /\ CoreStep(t) /\ LinkExact(t) /\ th'[t].pc = "refdown"
        /\ ino' = iunlock(SetDotdot(ino, th[t].ochild, th[t].cur), th[t].cur) BY MkdirDotsStep
  <1>5. /\ ino \in Nodes /\ Shape(ino) /\ LocksInv /\ Acyclic(ino) /\ Empties(ino) /\ OneLink(ino)
        /\ Counted(ino, th, calls) /\ Dotted(ino, th, calls)
        /\ \A u \in Threads : MakingOK(ino, th[u], calls[u]) /\ WalkOK(ino, th[u], OpOf(calls[u]), rlock, u)
    BY DEF TreeInv, CoreInv, TypeInv
  <1>6. PICK s, x : s = ino /\ s \in Nodes /\ x = SetDotdot(s, c, p) BY <1>5
  <1>7. /\ x \in Nodes /\ SameLinks(ino, x)
        /\ \A j \in Inums : /\ x[j].itype = ino[j].itype /\ x[j].ents = ino[j].ents
                            /\ x[j].dotdot = IF j = c THEN p ELSE ino[j].dotdot
    <2>4. ASSUME NEW j \in Inums
          PROVE  /\ x[j].itype = s[j].itype /\ x[j].ents = s[j].ents
                 /\ x[j].dotdot = IF j = c THEN p ELSE s[j].dotdot BY <1>6 DEF Node, SetDotdot, Nodes
    <2> QED BY <1>6, DotFields, <2>4
  <1>9. SameNames(x, ino') /\ SameLinks(x, ino') BY <1>7, <1>3, <1>4, <1>6, iunlockFields
  <1>10. \A j \in Inums : /\ ino'[j].itype = ino[j].itype /\ ino'[j].ents = ino[j].ents /\ ino'[j].links = ino[j].links
                          /\ ino'[j].dotdot = IF j = c THEN p ELSE ino[j].dotdot
    BY <1>7, <1>9 DEF SameNames, SameLinks
  <1>11. ino[p].ents[n] = c /\ ino[c].dotdot = Nil /\ ino[c].itype = "dir"
    BY OpIs, <1>2, <1>3, <1>5 DEF MakingOK, MkdirDots, AtOp, At, Makes
  <1>13. \A q, i \in Inums : DirEdge(ino', q, i) <=> DirEdge(ino, q, i) BY <1>10 DEF DirEdge
  <1>18. Dotted(ino', th', calls')
    <2>1. ASSUME NEW q \in Inums, NEW i \in Inums, DirEdge(ino', q, i), ino'[i].dotdot # q
          PROVE  \E u \in Threads : MakesIt(th'[u], calls'[u], i)
      <3>2. i # c
        <4>1. SUFFICES ASSUME i = c PROVE FALSE OBVIOUS
        <4>2. PICK m \in Fns : ino[q].ents[m] = c BY <1>13, <2>1, <4>1 DEF DirEdge
        <4> QED BY <1>10, <2>1, <4>1, <1>5, <1>11, <4>2, OneName
      <3>4. PICK u \in Threads : MakesIt(th[u], calls[u], i) BY <1>5, <1>13, <1>10, <2>1, <3>2 DEF Dotted
      <3> QED BY <1>4, <3>4, <1>3, <3>2 DEF MakesIt, CoreStep, TypeStep, Others
    <2> QED BY <2>1 DEF Dotted
  <1>19. ASSUME NEW u \in Threads
         PROVE  MakingOK(ino', th'[u], calls'[u])
    <2>1. CASE u = t BY <1>4, <2>1 DEF MakingOK, Makes
    <2>2. CASE u # t
      <3>1. ASSUME Makes(th[u], OpOf(calls[u]))
            PROVE  ino'[th[u].cur].ents[NameOf(calls[u])] = th[u].ochild /\ ino'[th[u].ochild].dotdot = Nil
        <4>3. ino[th[u].cur].ents[NameOf(calls[u])] = th[u].ochild /\ ino[th[u].ochild].dotdot = Nil
          BY <1>5, <3>1 DEF MakingOK
        <4>4. th[u].ochild # c BY <1>5, <1>11, <3>1, MakerFacts, <1>2, <1>3, <2>2, HoldApart, <4>3, OneName
        <4> QED BY <1>10, <3>1, MakerFacts, <4>3, <4>4
      <3> QED BY <1>4, <2>2, <3>1 DEF MakingOK, CoreStep, TypeStep, Others
    <2> QED BY <2>1, <2>2
  <1>20. ASSUME NEW u \in Threads
         PROVE  WalkOK(ino', th'[u], OpOf(calls'[u]), rlock', u)
    <2>1. CASE u = t BY <1>4, <2>1 DEF WalkOK, Moves
    <2>2. CASE u # t BY <1>4, <1>5, <2>2, <1>10, <1>11, WalkOthers
    <2> QED BY <2>1, <2>2
  <1> QED
    BY <1>4, <1>5, MkdirDotsLocks, LocksKept, <1>13, <1>10, CountedKept, <1>18, <1>19, <1>20 DEF TreeInv,
       Acyclic, Empties, OneLink

\* The directories that a walk has passed hang from each other and the root: what
\* has them is one of them.
LEMMA WalkedUp ==
    ASSUME CoreInv, TreeInv, NEW t \in Threads, NEW P \in SUBSET Inums, Walked(ino, th[t], P), th[t].pc # "up",
           NEW i \in P, NEW p \in Inums, DirEdge(ino, p, i)
    PROVE  p \in P
  <1>1. i \in Inums /\ i # th[t].ochild /\ (i # iroot => ino[i].dotdot \in P) BY DEF Walked, Here
  <1>2. i # iroot
    <2>1. PICK n \in Fns : ino[p].ents[n] = i BY DEF DirEdge
    <2> QED BY <1>1, <2>1, RootIno DEF Shape, CoreInv
  <1>4. ino[i].dotdot = p
    <2>1. SUFFICES ASSUME ino[i].dotdot # p PROVE FALSE OBVIOUS
    <2>2. PICK u \in Threads : MakesIt(th[u], calls[u], i) BY <1>1, <2>1 DEF TreeInv, Dotted
    <2> QED BY <1>1, <1>2, RootIno, <2>2 DEF TreeInv, MakingOK, MakesIt
  <1> QED BY <1>1, <1>2, RootIno, <1>4

\* Moving the directory c into b makes no loop: c is not above b.
LEMMA MovedAcyclic ==
    ASSUME CoreInv, TreeInv, NEW t \in Threads, th[t].pc = "locked", OpOf(calls[t]) = "rename",
           NEW x, NEW b \in Inums, NEW c \in Inums, b = th[t].npar, c = th[t].ochild,
           \A q, i \in Inums : DirEdge(x, q, i) => DirEdge(ino, q, i) \/ (q = b /\ i = c /\ ino[c].itype = "dir")
    PROVE  Acyclic(x)
  <1>1. ASSUME NEW S \in SUBSET Inums, \A i \in S : \E q \in S : DirEdge(x, q, i)
        PROVE  S = {}
    <2>2. CASE b \in S /\ ino[c].itype = "dir"
      <3>1. PICK P \in SUBSET Inums : Walked(ino, th[t], P) BY <2>2 DEF TreeInv, WalkOK, Moves
      <3>3. ASSUME NEW i \in S \cap P
            PROVE  \E q \in S \cap P : DirEdge(ino, q, i)
        <4>1. PICK q \in S : DirEdge(x, q, i) BY <1>1
        <4> QED BY <4>1, <3>1, WalkedUp DEF Walked, Here
      <3> QED BY <2>2, <3>1, <3>3 DEF Acyclic, TreeInv, Walked, Here
    <2>3. CASE ~(b \in S /\ ino[c].itype = "dir") BY <1>1, <2>3 DEF Acyclic, TreeInv
    <2> QED BY <2>2, <2>3
  <1> QED BY <1>1 DEF Acyclic

LEMMA MovedKeeps ==
    ASSUME CoreInv, TreeInv, NEW t \in Threads, Rename(t), ~Stopped(t), ~Enters(t), RlockStep(t)
    PROVE  TreeInv'
  <1>2. /\ th[t].pc = "locked" /\ th[t] \in Frame /\ OpOf(calls[t]) = "rename" /\ th[t].opar \in Inums /\ th[t].ochild \in Inums
        /\ th[t].npar \in Inums /\ th[t].nchild \in Inos /\ ino[th[t].npar].itype = "dir"
        /\ Op(t).old.name \in Fns /\ Op(t).new.name \in Fns /\ (th[t].nchild # Nil => th[t].nchild \in Inums)
    BY LockedFacts DEF Rename
  <1>3. PICK a \in Inums, b \in Inums, c \in Inums, d \in Inos, m \in Fns, n \in Fns :
               /\ a = th[t].opar /\ b = th[t].npar /\ c = th[t].ochild /\ d = th[t].nchild
               /\ m = Op(t).old.name /\ n = Op(t).new.name BY <1>2
  <1>4. /\ ino[a].itype = "dir" /\ ino[a].ents[m] = c /\ c # iroot /\ ino[b].ents[n] = d
        /\ d # c /\ ~(a = b /\ m = n)
        /\ d # Nil => d # iroot /\ do_dirchk(ino, d, IsDir(ino, c)) BY <1>3, MoveSlots
  <1>5. CoreStep(t) /\ LinkExact(t) /\ th'[t] = MovedFrame(t) /\ MovedTo(t, ino') BY RenameMoved
  <1>6. /\ \A j \in Inums : /\ ino'[j].itype = ino[j].itype /\ ino'[j].links = ino[j].links - B(j = d)
                            /\ ino'[j].dotdot = IF j = c /\ ino[j].itype = "dir" THEN b ELSE ino[j].dotdot
        /\ \A j \in Inums, k \in Fns :
             ino'[j].ents[k] = IF j = b /\ k = n THEN c ELSE IF j = a /\ k = m THEN Nil ELSE ino[j].ents[k]
    BY <1>3, <1>5 DEF MovedTo, IsDir
  <1>7. /\ ino \in Nodes /\ Shape(ino) /\ LocksInv /\ Acyclic(ino) /\ Empties(ino) /\ OneLink(ino)
        /\ Counted(ino, th, calls) /\ Dotted(ino, th, calls)
        /\ \A u \in Threads : MakingOK(ino, th[u], calls[u]) /\ WalkOK(ino, th[u], OpOf(calls[u]), rlock, u)
    BY DEF TreeInv, CoreInv, TypeInv
  <1>8. \A j \in Inums : ino[j].links \in Int /\ ino'[j].links <= ino[j].links /\ (j # d => ino'[j].links = ino[j].links)
    BY <1>6, <1>7 DEF B, Nodes, Node
  <1>12. \A q, i \in Inums : DirEdge(ino', q, i) => DirEdge(ino, q, i) \/ (q = b /\ i = c /\ ino[c].itype = "dir")
    <2>1. ASSUME NEW q \in Inums, NEW i \in Inums, DirEdge(ino', q, i), ~(q = b /\ i = c)
          PROVE  DirEdge(ino, q, i)
      <3>1. PICK k \in Fns : ino'[q].ents[k] = i BY <2>1 DEF DirEdge
      <3> QED BY <1>6, <2>1, <3>1, RootIno DEF DirEdge
    <2> QED BY <2>1, <1>6 DEF DirEdge
  <1>14. Empties(ino')
    <2>1. ASSUME NEW i \in Inums, ino'[i].links = 0, NEW k \in Fns
          PROVE  ino'[i].ents[k] = Nil
      <3>1. CASE i # d BY <1>6, <1>8, <1>3, <2>1, <3>1, <1>7 DEF Empties, Enters, Rename
      <3>2. CASE i = d
        <4>2. i # b
          <5>1. SUFFICES ASSUME i = b PROVE FALSE OBVIOUS
          <5>4. PICK S \in SUBSET Inums : S = {i} OBVIOUS
          <5> QED BY <5>4, <1>7, <1>4, <3>2, <5>1, <1>2, <1>3 DEF Acyclic, DirEdge
        <4> QED BY <1>6, <1>4, <1>7, <3>2, RootIno, NoEntriesType, <4>2 DEF do_dirchk, IsDir, Shape
      <3> QED BY <3>1, <3>2
    <2> QED BY <2>1 DEF Empties
  <1>15. OneLink(ino') BY <1>6, <1>7, <1>8, <1>5, StepShapes DEF OneLink
  <1>20. Dotted(ino', th', calls')
    <2>1. ASSUME NEW q \in Inums, NEW i \in Inums, DirEdge(ino', q, i), ino'[i].dotdot # q
          PROVE  \E u \in Threads : MakesIt(th'[u], calls'[u], i)
      <3>1. i # c
        <4>1. SUFFICES ASSUME i = c PROVE FALSE OBVIOUS
        <4>2. PICK k \in Fns : ino'[q].ents[k] = c BY <2>1, <4>1 DEF DirEdge
        <4> QED BY <1>4, <1>7, OneName, <1>6, <4>2, <2>1, <4>1, RootIno DEF DirEdge
      <3>3. PICK u \in Threads : MakesIt(th[u], calls[u], i) BY <1>7, <1>6, <1>12, <2>1, <3>1 DEF Dotted
      <3> QED BY <1>5, <3>3, <1>2 DEF MakesIt, Makes, CoreStep, TypeStep, Others
    <2> QED BY <2>1 DEF Dotted
  <1>22. ASSUME NEW u \in Threads
         PROVE  MakingOK(ino', th'[u], calls'[u])
    <2>1. CASE u = t BY <1>7, RenameLocks, <2>1 DEF Locks, Keeps, MakingOK
    <2>2. CASE u # t
      <3>1. ASSUME Makes(th[u], OpOf(calls[u]))
            PROVE  ino'[th[u].cur].ents[NameOf(calls[u])] = th[u].ochild /\ ino'[th[u].ochild].dotdot = Nil
        <4>2. th[u].cur # a /\ th[u].cur # b
          BY <1>7, <1>2, <1>3, LockedHold, <2>2, <3>1, MakerFacts, HoldApart DEF Needed
        <4> QED BY <1>6, MakerFacts, <4>2, <1>7, <3>1, <1>4, OneName DEF MakingOK
      <3> QED BY <1>5, <2>2, <3>1 DEF MakingOK, CoreStep, TypeStep, Others
    <2> QED BY <2>1, <2>2
  <1>23. ASSUME NEW u \in Threads
         PROVE  WalkOK(ino', th'[u], OpOf(calls'[u]), rlock', u)
    <2>1. CASE u = t BY <2>1, <1>5, RenameFrame DEF WalkOK, Moves, Rename
    <2>2. CASE u # t
      <3>2. /\ \A i \in Inums : ino'[i].itype = "dir" => ino[i].itype \in {"none", "dir"}
            /\ \A i \in Inums : ino'[i].dotdot = ino[i].dotdot \/ ino[i].dotdot = Nil \/ rlock = t
        BY <1>6, <1>2, <1>3, <1>7 DEF WalkOK, Moves
      <3> QED BY <1>5, <1>7, <2>2, <3>2, WalkOthers
    <2> QED BY <2>1, <2>2
  <1> QED
    BY <1>2, <1>3, <1>5, <1>7, <1>12, <1>14, <1>15, <1>20, <1>22, <1>23, RenameLocks, LocksKept,
       MovedAcyclic, CountedKept DEF TreeInv, Locks

--------------------------------------------------------------------------------
(* The tree is kept by every step that is not one of the wrong ones. *)
LEMMA StepRlock ==
    ASSUME CoreInv, NEW t \in Threads, Step(t)
    PROVE  RlockStep(t)
  <1>1. CASE \/ Begin(t) \/ NameiFast(t) \/ NameiMiss(t) \/ NameiVerify(t) \/ NameiLock(t) \/ LockAll(t)
             \/ AncestorRoot(t) \/ RenameLook(t) \/ RenameRetry(t) \/ Rename(t) \/ RefDec(t)
    BY <1>1 DEF RlockStep, Begin, NameiFast, NameiMiss, NameiVerify, NameiLock, LockAll, AncestorRoot, RenameLook,
                RenameRetry, Rename, RefDec
  <1>2. CASE NameiSlow(t) BY <1>2 DEF RlockStep, NameiSlow, NameiFailed, Return
  <1>3. CASE Open(t) \/ Create(t) \/ CreateOpen(t) \/ Fs_close(t)
    BY <1>3 DEF RlockStep, Open, Opened, Create, CreateOpen, Fs_close, Return
  <1>4. CASE Mkdir(t) \/ MkdirDots(t) \/ Unlink(t) \/ Unlinked(t)
    BY <1>4 DEF RlockStep, Mkdir, MkdirDots, Unlink, Unlinked, GiveBack, Return
  <1>5. CASE Link(t) \/ LinkInsert(t) \/ LinkUndo(t)
    BY <1>5 DEF RlockStep, Link, LinkInsert, LinkUndo, GiveBack, Return, Panic
  <1>6. CASE RenameOld(t) \/ RenameLock(t) \/ IsAncestor(t)
    BY <1>6 DEF RlockStep, RenameOld, RenameLock, IsAncestor, GiveBack, Return
  <1>7. CASE Ancestor(t) BY <1>7 DEF RlockStep, Ancestor, GiveBack, Panic
  <1>8. CASE RenameUnlock(t) \/ RefLinks(t) \/ RefDone(t)
    BY <1>8 DEF RlockStep, RenameUnlock, RefLinks, RefDone, Panic
  <1> QED BY <1>1, <1>2, <1>3, <1>4, <1>5, <1>6, <1>7, <1>8 DEF Step

LEMMA TreeStutter ==
    ASSUME TreeInv, UNCHANGED <<ino, th, rlock, calls>>
    PROVE  TreeInv'
  BY DEF TreeInv, LocksInv

\* A step that changes references and locks only.
LEMMA QuietKeeps ==
    ASSUME CoreInv, TreeInv, NEW t \in Threads, Quiet(t), Locks(t), RlockStep(t)
    PROVE  TreeInv'
  BY CalmKeeps DEF Quiet

LEMMA WalkTree ==
    ASSUME CoreInv, TreeInv, NEW t \in Threads, RlockStep(t),
           Begin(t) \/ NameiFast(t) \/ NameiMiss(t) \/ NameiVerify(t) \/ NameiSlow(t) \/ NameiLock(t)
    PROVE  TreeInv'
  <1>1. LocksInv BY DEF TreeInv
  <1>2. CASE Begin(t) BY <1>1, <1>2, QuietKeeps, BeginStep, BeginLocks
  <1>3. CASE NameiFast(t) BY <1>1, <1>3, QuietKeeps, NameiFastStep, NameiFastLocks
  <1>4. CASE NameiMiss(t) BY <1>1, <1>4, QuietKeeps, NameiMissStep, NameiMissLocks
  <1>5. CASE NameiVerify(t) BY <1>1, <1>5, QuietKeeps, NameiVerifyStep, NameiVerifyLocks
  <1>6. CASE NameiSlow(t) BY <1>1, <1>6, QuietKeeps, NameiSlowStep, NameiSlowLocks
  <1>7. CASE NameiLock(t) BY <1>1, <1>7, QuietKeeps, NameiLockStep, NameiLockLocks
  <1> QED BY <1>2, <1>3, <1>4, <1>5, <1>6, <1>7

LEMMA FileTree ==
    ASSUME CoreInv, TreeInv, NEW t \in Threads, RlockStep(t), ~Enters(t),
           Open(t) \/ Create(t) \/ CreateOpen(t) \/ Fs_close(t)
    PROVE  TreeInv'
  <1>1. LocksInv BY DEF TreeInv
  <1>2. CASE Open(t) BY <1>1, <1>2, QuietKeeps, OpenStep, OpenLocks
  <1>3. CASE Create(t)
    <2>1. CASE Entry(ino, th[t].cur, Op(t).old.name) = Nil /\ IsDir(ino, th[t].cur) /\ CanAlloc
      BY <1>3, <2>1, CreateKeeps
    <2>2. CASE Entry(ino, th[t].cur, Op(t).old.name) # Nil \/ ~IsDir(ino, th[t].cur) \/ ~CanAlloc
      BY <1>1, <1>3, <2>2, QuietKeeps, CreateQuiet, CreateQuietLocks
    <2> QED BY <2>1, <2>2
  <1>4. CASE CreateOpen(t) BY <1>1, <1>4, QuietKeeps, CreateOpenStep, CreateOpenLocks
  <1>5. CASE Fs_close(t) BY <1>1, <1>5, QuietKeeps, CloseStep, CloseLocks
  <1> QED BY <1>2, <1>3, <1>4, <1>5

LEMMA DirTree ==
    ASSUME CoreInv, TreeInv, NEW t \in Threads, RlockStep(t), ~Enters(t),
           Mkdir(t) \/ MkdirDots(t) \/ Unlink(t) \/ LockAll(t) \/ Unlinked(t)
    PROVE  TreeInv'
  <1>1. LocksInv BY DEF TreeInv
  <1>2. CASE Mkdir(t)
    <2>1. CASE Entry(ino, th[t].cur, Op(t).old.name) = Nil /\ IsDir(ino, th[t].cur) /\ CanAlloc
      BY <1>2, <2>1, MkdirKeeps
    <2>2. CASE Entry(ino, th[t].cur, Op(t).old.name) # Nil \/ ~IsDir(ino, th[t].cur) \/ ~CanAlloc
      BY <1>1, <1>2, <2>2, CalmKeeps, MkdirQuiet, MkdirQuietLocks
    <2> QED BY <2>1, <2>2
  <1>3. CASE MkdirDots(t) BY <1>3, DotsKeeps
  <1>4. CASE Unlink(t) BY <1>1, <1>4, QuietKeeps, UnlinkStep, UnlinkLocks
  <1>5. CASE LockAll(t) BY <1>1, <1>5, QuietKeeps, LockAllStep, LockAllLocks
  <1>6. CASE Unlinked(t) BY <1>6, UnlinkedKeeps
  <1> QED BY <1>2, <1>3, <1>4, <1>5, <1>6

LEMMA LinkTreeKept ==
    ASSUME CoreInv, TreeInv, NEW t \in Threads, RlockStep(t), ~Enters(t),
           Link(t) \/ LinkInsert(t) \/ LinkUndo(t)
    PROVE  TreeInv'
  <1>2. CASE Link(t)
    <2>1. CASE ~IsDir(ino, th[t].cur) BY <1>2, <2>1, LinkKeeps
    <2>2. CASE IsDir(ino, th[t].cur) BY <1>2, <2>2, CalmKeeps, LinkQuiet, LinkLocks DEF TreeInv
    <2> QED BY <2>1, <2>2
  <1>3. CASE LinkInsert(t)
    <2>1. CASE IsDir(ino, th[t].cur) /\ ino[th[t].cur].ents[Op(t).new.name] = Nil BY <1>3, <2>1, LinkInsertKeeps
    <2>2. CASE ~IsDir(ino, th[t].cur) \/ ino[th[t].cur].ents[Op(t).new.name] # Nil
      BY <1>3, <2>2, QuietKeeps, LinkInsertQuiet, LinkInsertLocks DEF TreeInv
    <2> QED BY <2>1, <2>2
  <1>4. CASE LinkUndo(t) BY <1>4, LinkUndoKeeps
  <1> QED BY <1>2, <1>3, <1>4

LEMMA RenameTree ==
    ASSUME CoreInv, TreeInv, NEW t \in Threads, RlockStep(t), ~Enters(t),
           \/ RenameOld(t) \/ RenameLock(t) \/ IsAncestor(t) \/ Ancestor(t) \/ AncestorRoot(t)
           \/ RenameLook(t) \/ Rename(t) \/ RenameUnlock(t)
    PROVE  TreeInv'
  <1>1. LocksInv BY DEF TreeInv
  <1>2. CASE RenameOld(t) BY <1>1, <1>2, QuietKeeps, RenameOldStep, RenameOldLocks
  <1>3. CASE RenameLock(t) BY <1>1, <1>3, QuietKeeps, RenameLockStep, RenameLockLocks
  <1>4. CASE IsAncestor(t) BY <1>1, <1>4, QuietKeeps, IsAncestorStep, IsAncestorLocks
  <1>5. CASE Ancestor(t)
    <2>1. CASE Panic BY <2>1, TreeStutter DEF Panic
    <2>2. CASE ~Panic BY <1>1, <1>5, <2>2, CalmKeeps, AncestorStep, AncestorLocks
    <2> QED BY <2>1, <2>2
  <1>6. CASE AncestorRoot(t) BY <1>1, <1>6, QuietKeeps, AncestorRootStep, AncestorRootLocks
  <1>7. CASE RenameLook(t) BY <1>1, <1>7, QuietKeeps, RenameLookStep, RenameLookLocks
  <1>8. CASE Rename(t)
    <2>1. CASE ~Stopped(t) BY <1>8, <2>1, MovedKeeps
    <2>2. CASE Stopped(t) BY <1>1, <1>8, <2>2, CalmKeeps, RenameStopped, RenameLocks
    <2> QED BY <2>1, <2>2
  <1>9. CASE RenameUnlock(t) BY <1>1, <1>9, QuietKeeps, RenameUnlockStep, RenameUnlockLocks
  <1> QED BY <1>2, <1>3, <1>4, <1>5, <1>6, <1>7, <1>8, <1>9

LEMMA RefTree ==
    ASSUME CoreInv, TreeInv, NEW t \in Threads, RlockStep(t), RefDec(t) \/ RefLinks(t) \/ RefDone(t)
    PROVE  TreeInv'
  <1>1. LocksInv BY DEF TreeInv
  <1>2. CASE RefDec(t) BY <1>1, <1>2, QuietKeeps, RefDecStep, RefDecLocks
  <1>3. CASE RefLinks(t) BY <1>1, <1>3, QuietKeeps, RefLinksStep, RefLinksLocks
  <1>4. CASE RefDone(t) BY <1>1, <1>4, QuietKeeps, RefDoneStep, RefDoneLocks
  <1> QED BY <1>2, <1>3, <1>4

LEMMA StepTree ==
    ASSUME CoreInv, TreeInv, NEW t \in Threads, Step(t), ~Enters(t), ~RenameRetry(t)
    PROVE  TreeInv'
  BY StepRlock, WalkTree, FileTree, DirTree, LinkTreeKept, RenameTree, RefTree DEF Step

LEMMA IdlePc ==
    ASSUME CoreInv, NEW t \in Threads, NEW s, NEW dead, NEW f, Finish(t, s, dead, f)
    PROVE  th'[t].pc = "idle"
  BY DEF Idle, CoreInv, TypeInv, Finish

\* A step that enters something in a removed directory goes on.
LEMMA EntersGoes ==
    ASSUME CoreInv, NEW t \in Threads, Step(t), Enters(t)
    PROVE  th'[t] # th[t]
  <1>1. /\ th[t].pc \in {"got", "locked"} /\ th[t] \in Frame /\ ~fatal
        /\ th[t].pc = "got" => Op(t).op \in {"create", "mkdir"} \/ (Op(t).op = "link" /\ th[t].stg = 2)
        /\ th[t].pc = "locked" => Op(t).op = "rename" BY Ready DEF Enters, AtOp, At
  <1>2. CASE Create(t)
    <2>2. CASE th'[t].pc = "idle" BY <1>2, <2>2 DEF Create, AtOp, At
    <2>6. CASE \E s, dead, f : Finish(t, s, dead, f) BY <2>2, <2>6, IdlePc
    <2>7. CASE \E i : Goto(t, [th[t] EXCEPT !.ochild = i, !.chk = (Entry(ino, th[t].cur, Op(t).old.name) = Nil)], "child")
      <3>1. PICK i : Goto(t, [th[t] EXCEPT !.ochild = i, !.chk = (Entry(ino, th[t].cur, Op(t).old.name) = Nil)], "child")
        BY <2>7
      <3>2. PICK r : r = [th[t] EXCEPT !.ochild = i, !.chk = (Entry(ino, th[t].cur, Op(t).old.name) = Nil)] OBVIOUS
      <3> QED BY <1>2, <1>1, <3>2, <3>1 DEF Frame, Goto, CoreInv, TypeInv, Create, AtOp, At
    <2> QED BY <1>2, <2>6, <2>7 DEF Create, Return
  <1>3. CASE Mkdir(t)
    <2>3. PICK r, p : DOMAIN r = DOMAIN th[t] /\ Goto(t, r, p) /\ p \in {"child", "refdown"}
      BY <1>1, <1>3 DEF Mkdir, GiveBack, Frame
    <2> QED BY <1>3, <2>3, <1>1 DEF Mkdir, AtOp, At, Goto, CoreInv, TypeInv, Frame
  <1>4. CASE LinkInsert(t)
    <2>3. PICK r, p : DOMAIN r = DOMAIN th[t] /\ Goto(t, r, p) /\ p \in {"undo", "refdown"}
      BY <1>1, <1>4 DEF LinkInsert, GiveBack, Frame
    <2> QED BY <1>4, <2>3, <1>1 DEF LinkInsert, AtOp, At, Goto, CoreInv, TypeInv, Frame
  <1>5. CASE Rename(t) \/ RenameRetry(t) BY <1>5, RenameGoes, RetryGoes
  <1>7. ~(Open(t) \/ CreateOpen(t) \/ Fs_close(t) \/ MkdirDots(t) \/ Unlink(t))
    BY <1>1 DEF Open, CreateOpen, Fs_close, MkdirDots, Unlink, AtOp, At
  <1>8. ~(LockAll(t) \/ Unlinked(t) \/ Link(t) \/ LinkUndo(t)) BY <1>1 DEF LockAll, Unlinked, Link, LinkUndo, AtOp, At
  <1>9. ~(RenameOld(t) \/ RenameLock(t) \/ IsAncestor(t) \/ Ancestor(t) \/ AncestorRoot(t))
    BY <1>1 DEF RenameOld, RenameLock, IsAncestor, Ancestor, AncestorRoot, AtOp, At
  <1>10. ~(RenameLook(t) \/ RenameUnlock(t) \/ RefDec(t) \/ RefLinks(t) \/ RefDone(t))
    BY <1>1 DEF RenameLook, RenameUnlock, RefDec, RefLinks, RefDone, AtOp, At
  <1> QED
    BY <1>2, <1>3, <1>4, <1>5, <1>1, <1>7, <1>8, <1>9, <1>10 DEF Step, Begin, NameiFast, NameiMiss,
       NameiVerify, NameiSlow, NameiLock, At

LEMMA TreeNext ==
    ASSUME CoreInv, TreeInv, [Next]_vars, [NoOrphans]_vars
    PROVE  TreeInv'
  <1>1. CASE UNCHANGED vars BY <1>1, TreeStutter DEF vars
  <1>2. CASE Next /\ NoOrphans
    <2>1. PICK t \in Threads : Step(t) BY <1>2 DEF Next
    <2> QED BY <2>1, <1>2, EntersGoes, RetryGoes, StepTree DEF NoOrphans, Retries, RenameRetry
  <1> QED BY <1>1, <1>2

--------------------------------------------------------------------------------
(* Theorem: the name space is a tree. *)
LEMMA InitDirs ==
    ASSUME Init
    PROVE  OneLink(ino) /\ Empties(ino) /\ Counted(ino, th, calls) /\ LocksInv
  <1>1. OneLink(ino)
    <2>1. ASSUME NEW i \in Inums \ {iroot}, ino[i].itype = "dir"
          PROVE  ino[i].links = 1
      <3>1. i \in DOMAIN Tree /\ ino[i] = Tree[i] BY <2>1, InitNode
      <3> QED BY <2>1, <3>1, NamesAssumption DEF Mounted, IsDir
    <2> QED BY <2>1 DEF OneLink
  <1>2. Empties(ino)
    <2>1. ASSUME NEW i \in Inums, ino[i].links = 0, NEW n \in Fns
          PROVE  ino[i].ents[n] = Nil
      <3>1. i \notin DOMAIN Tree
        <4>1. SUFFICES ASSUME i \in DOMAIN Tree PROVE FALSE OBVIOUS
        <4> QED BY <2>1, <4>1, InitNode, NamesAssumption DEF Mounted
      <3> QED BY <3>1, InitNode, NoEntriesType
    <2> QED BY <2>1 DEF Empties
  <1>3. Counted(ino, th, calls)
    <2>1. ASSUME NEW i \in Inums \ {iroot}
          PROVE  Cardinality(NamesIn(ino, i)) + Cardinality(PendSet(th, calls, i)) = ino[i].links
      <3>2. Cardinality(PendSet(th, calls, i)) = 0 BY InitFrame, FS_EmptySet DEF PendSet
      <3>6. CASE i \in DOMAIN Tree
        BY <3>2, InitNode, InitCore, NamesFinite, <3>6, InitNames DEF Node, CoreInv, TypeInv
      <3>7. CASE i \notin DOMAIN Tree
        <4>1. ino[i].links = 0 /\ ino[i].links >= Cardinality(NamesIn(ino, i)) BY <3>7, InitNode, InitNames
        <4> QED BY <3>2, InitNode, InitCore, NamesFinite, <4>1 DEF Node, CoreInv, TypeInv
      <3> QED BY <3>6, <3>7
    <2> QED BY <2>1 DEF Counted
  <1>4. ASSUME NEW t \in Threads
        PROVE  Orderly(th[t], OpOf(calls[t])) /\ Hold(th[t], OpOf(calls[t])) = {}
    BY InitFrame, RangeEmpty DEF Orderly, Hold, Makes, Locked3, Idle
  <1> QED BY <1>1, <1>2, <1>3, <1>4 DEF LocksInv

LEMMA InitTree ==
    ASSUME Init
    PROVE  TreeInv
  <1>2. ASSUME NEW p \in Inums, NEW i \in Inums, DirEdge(ino, p, i)
        PROVE  ino[i].dotdot = p /\ i \in DOMAIN Tree /\ i # iroot /\ Tree[i].itype = "dir" /\ Tree[i].dotdot = p
    <2>2. PICK n \in Fns : ino[p].ents[n] = i BY <1>2 DEF DirEdge
    <2>3. i \in DOMAIN Tree /\ ino[i] = Tree[i] BY <1>2, InitNode DEF DirEdge
    <2>5. Tree[i].dotdot # Nil /\ \E m \in Fns : Entry(Tree, Tree[i].dotdot, m) = i
      BY <1>2, <2>3, InitCore, InitDirs, <2>2, OneName, NamesAssumption DEF Mounted, IsDir, DirEdge
    <2>6. PICK m \in Fns : Entry(Tree, Tree[i].dotdot, m) = i BY <2>5
    <2>7. PICK q : q = Tree[i].dotdot OBVIOUS
    <2>8. q \in DOMAIN Tree /\ q \in Inums /\ ino[q] = Tree[q] BY <2>3, <2>5, <2>7, MountedNode, InitNode
    <2> QED BY <1>2, <2>3, <2>7, InitCore, InitDirs, <2>2, <2>8, <2>6, RootIno, OneName DEF Entry, DirEdge
  <1>4. Acyclic(ino)
    <2>1. ASSUME NEW S \in SUBSET Inums, \A i \in S : \E p \in S : DirEdge(ino, p, i), S # {}
          PROVE  FALSE
      <3> QED BY <1>2, <2>1, NamesAssumption DEF Mounted, IsDir
    <2> QED BY <2>1 DEF Acyclic
  <1> QED BY InitCore, InitDirs, <1>2, <1>4, InitFrame DEF TreeInv, Dotted, MakingOK, WalkOK, Makes, Moves, Idle

\* A directory that has links and is made has its name where its `..' says.
LEMMA DirsNamed ==
    ASSUME CoreInv, TreeInv, NEW i \in Dirs
    PROVE  /\ i \in Inums /\ ino[i].itype = "dir" /\ ino[i].dotdot \in Inums /\ DirEdge(ino, ino[i].dotdot, i)
           /\ \E n \in Fns : Entry(ino, ino[i].dotdot, n) = i
  <1>1. ino \in Nodes /\ OneLink(ino) /\ Counted(ino, th, calls) /\ Dotted(ino, th, calls)
    BY DEF CoreInv, TypeInv, TreeInv
  <1>2. i \in Inums /\ ino[i].itype = "dir" /\ ino[i].links > 0 /\ i # iroot /\ i \notin Making
    BY <1>1 DEF Dirs, Live, LiveIn, IsDir, Nodes
  <1>4. PendSet(th, calls, i) = {}
    <2>1. ASSUME NEW u \in Threads, PendOf(th[u], OpOf(calls[u]), i)
          PROVE  FALSE BY <1>2, <2>1, Ready DEF PendOf, KindOK
    <2> QED BY <2>1 DEF PendSet
  <1>5. Cardinality(PendSet(th, calls, i)) = 0 BY <1>4, FS_EmptySet
  <1>7. Cardinality(NamesIn(ino, i)) = 1 BY <1>1, <1>2, <1>5, NamesFinite DEF Counted, OneLink, Nodes, Node
  <1>9. PICK p \in Inums, n \in Fns : <<p, n>> \in NamesIn(ino, i) BY <1>1, NamesFinite, <1>7, FS_EmptySet
  <1>12. ino[i].dotdot = p
    <2>1. SUFFICES ASSUME ino[i].dotdot # p PROVE FALSE OBVIOUS
    <2>2. PICK u \in Threads : MakesIt(th[u], calls[u], i) BY <1>1, <1>2, <1>9, NamesAre, <2>1 DEF Dotted, DirEdge
    <2> QED BY <1>2, <2>2, OpIs DEF Making, MakesIt, Makes
  <1> QED BY <1>2, <1>1, <1>9, NamesAre, <1>12 DEF Entry, IsDir, DirEdge

LEMMA TreeLinked ==
    ASSUME CoreInv, TreeInv
    PROVE  LinkedTree
  <1>3. ASSUME NEW S \in SUBSET Dirs, S # {}, \A i \in S : ino[i].dotdot \in S
        PROVE  FALSE BY <1>3, DirsNamed DEF TreeInv, Acyclic
  <1> QED
    BY PendingIs, DirsNamed, <1>3 DEF LinkedTree, Counted, NamesOf, Live, LiveIn, Nodes, CoreInv, TypeInv, TreeInv

\* The name space is a tree, whatever calls run concurrently, as long as no
\* rename gives its locks up to try again (fs.go:448) and nothing is entered in a
\* directory that was removed (fs.go:364, inode.go:841): an inode has as many
\* names as links, the `..' of a directory is where its name is, and no
\* directories hang in each other.
THEOREM NameSpaceTree == Spec /\ [][NoOrphans]_vars => []LinkedTree
  <1>1. Init => TreeInv BY InitTree
  <1>2. CoreInv /\ TreeInv /\ [Next]_vars /\ [NoOrphans]_vars => TreeInv' BY TreeNext
  <1>3. CoreInv /\ TreeInv => LinkedTree BY TreeLinked
  <1> QED BY <1>1, <1>2, <1>3, CoreSafe, PTL DEF Spec

--------------------------------------------------------------------------------
(* Inodes without links: the last reference goes with a call that owes to
   free the inode. *)
LEMMA LessSame ==
    ASSUME NEW s, NEW x, NEW d, SameNames(s, x), SameLinks(s, x), \A j \in Inums : x[j].ref >= s[j].ref - B(j = d)
    PROVE  Less(s, x, d)
  BY DEF Less, Lost, SameNames, SameLinks

LEMMA LessFreed ==
    ASSUME NEW s, NEW x, NEW y, NEW d, NEW D, Less(s, x, d), Freed(x, y, D)
    PROVE  Less(s, y, d)
  <1>1. ASSUME NEW j \in Inums
        PROVE  y[j].ref >= s[j].ref - B(j = d) /\ (Lost(y, j) => Lost(s, j)) BY DEF Less, Lost, Freed
  <1> QED BY <1>1 DEF Less

LEMMA NotOwing ==
    ASSUME CoreInv, LocksInv, NEW t \in Threads, th[t].pc \notin Owers
    PROVE  \A i : ~Owes(th[t], i)
  BY Held0 DEF Owes, Owers

\* The call gives a reference to d back, and owes d if it was the last one.
LEMMA DropFree ==
    ASSUME CoreInv, LocksInv, NEW t \in Threads, th[t].pc \notin Owers, NEW d \in Inos, Less(ino, ino', d),
           th'[t].pc \notin {"lockall", "locked"},
           d # Nil => ino[d].ref >= 1,
           d # Nil /\ LastOf(d) /\ Left(ino', d) => Owes(th'[t], d)
    PROVE  FreeStep(t)
  <1>2. ASSUME NEW i \in Inums, Left(ino', i)
        PROVE  Owes(th'[t], i) \/ Left(ino, i)
    <2>3. CASE i # d BY <1>2, RefNat, <2>3 DEF Left, B, Less
    <2>4. CASE i = d BY <1>2, <2>4, RootIno, RefNat DEF LastOf, LastRef, Lost, B, Less, Left
    <2> QED BY <2>3, <2>4
  <1> QED BY <1>2, NotOwing DEF FreeStep, Apart

LEMMA DropGoto ==
    ASSUME CoreInv, LocksInv, NEW t \in Threads, th[t].pc \notin Owers, NEW d \in Inos, Less(ino, ino', d),
           NEW r \in Frame, NEW p, Goto(t, r, p), p \notin {"lockall", "locked"},
           d # Nil => ino[d].ref >= 1,
           d # Nil /\ LastOf(d) => d \in r.dead
    PROVE  FreeStep(t)
  BY GotoFields, DropFree DEF Owes

LEMMA DropFinish ==
    ASSUME CoreInv, LocksInv, NEW t \in Threads, th[t].pc \notin Owers, NEW d \in Inos, NEW s \in Nodes, Less(ino, s, d),
           NEW D \in SUBSET Inums, NEW f \in Inos, Finish(t, s, D, f),
           d # Nil => ino[d].ref >= 1,
           d # Nil /\ LastOf(d) => d \in D
    PROVE  FreeStep(t)
  <1>3. d # Nil /\ LastOf(d) => ~Left(ino', d)
    <2>1. SUFFICES ASSUME d # Nil, LastOf(d) PROVE ~Left(ino', d) OBVIOUS
    <2> QED BY FinishFields, <2>1 DEF Left, Lost, Freed, Inos
  <1> QED BY FinishFields, LessFreed, <1>3, DropFree

\* Nothing is given back.
LEMMA KeepGoto ==
    ASSUME CoreInv, LocksInv, NEW t \in Threads, th[t].pc \notin Owers, Less(ino, ino', Nil),
           NEW r \in Frame, NEW p, Goto(t, r, p), p \notin {"lockall", "locked"}
    PROVE  FreeStep(t)
  <1>1. PICK d \in Inos : d = Nil BY DEF Inos
  <1> QED BY <1>1, DropGoto

LEMMA LessNone ==
    ASSUME NEW s, NEW x, SameNames(s, x), SameLinks(s, x), \A j \in Inums : x[j].ref >= s[j].ref, \A j \in Inums : s[j].ref \in Int
    PROVE  Less(s, x, Nil)
  BY RootIno, LessSame DEF B

LEMMA PanicFree ==
    ASSUME CoreInv, NEW t \in Threads, Apart(th[t], OpOf(calls[t])), Panic
    PROVE  FreeStep(t)
  BY DEF FreeStep, Panic

\* A step that goes on elsewhere is not one of the wrong ones.
LEMMA CarefulPc ==
    ASSUME NEW t, Careful(t), th'[t].pc # th[t].pc
    PROVE  ~Strays(t) /\ ~Abandons(t)
  BY DEF Careful

LEMMA LessThen ==
    ASSUME NEW s \in Nodes, NEW y \in Nodes, NEW x \in Nodes, NEW d, Less(s, y, Nil), Less(y, x, d)
    PROVE  Less(s, x, d)
  <1>1. ASSUME NEW j \in Inums
        PROVE  x[j].ref >= s[j].ref - B(j = d) /\ (Lost(x, j) => Lost(s, j))
    <2>2. y[j].ref >= s[j].ref - B(j = Nil) /\ (Lost(y, j) => Lost(s, j)) BY DEF Less
    <2> QED BY RootIno, <2>2 DEF Nodes, Node, B, Less
  <1> QED BY <1>1 DEF Less

LEMMA LessSelf ==
    ASSUME NEW s \in Nodes
    PROVE  Less(s, s, Nil)
  BY LessNone DEF SameNames, SameLinks, Nodes, Node

LEMMA LessLocks ==
    ASSUME NEW s \in Nodes, NEW x \in Nodes, SameNames(s, x), SameLinks(s, x), SameRef(s, x)
    PROVE  Less(s, x, Nil)
  BY LessNone DEF Nodes, Node, SameRef

LEMMA LessUnlock ==
    ASSUME NEW s \in Nodes, NEW i \in Inums
    PROVE  iunlock(s, i) \in Nodes /\ Less(s, iunlock(s, i), Nil)
  <1>1. PICK x : x = iunlock(s, i) OBVIOUS
  <1> QED BY <1>1, iunlockFields, LessLocks

LEMMA LessLock ==
    ASSUME NEW s \in Nodes, NEW i \in Inums, NEW t \in Threads
    PROVE  ilock(s, i, t) \in Nodes /\ Less(s, ilock(s, i, t), Nil)
  <1>1. PICK x : x = ilock(s, i, t) OBVIOUS
  <1> QED BY <1>1, ilockFields, LessLocks DEF Tids

LEMMA LessUp ==
    ASSUME NEW s \in Nodes, NEW i \in Inums
    PROVE  Refup(s, i) \in Nodes /\ Less(s, Refup(s, i), Nil)
  <1>1. PICK x : x = Refup(s, i) OBVIOUS
  <1>2. x \in Nodes /\ SameNames(s, x) /\ SameLinks(s, x) /\ \A j \in Inums : x[j].ref = s[j].ref + B(j = i)
    BY <1>1, RefupFields
  <1>3. \A j \in Inums : s[j].ref \in Int /\ x[j].ref >= s[j].ref BY <1>2 DEF Nodes, Node, B
  <1> QED BY <1>1, <1>2, <1>3, LessNone

LEMMA LessLookup ==
    ASSUME NEW s \in Nodes, NEW i \in Inums, NEW n \in Fns, s[i].ents[n] # Nil
    PROVE  ilookup(s, i, n) \in Nodes /\ Less(s, ilookup(s, i, n), Nil)
  <1>1. PICK x : x = ilookup(s, i, n) OBVIOUS
  <1>2. /\ x \in Nodes /\ SameNames(s, x) /\ SameLinks(s, x)
        /\ \A j \in Inums : x[j].ref = s[j].ref + B(j = s[i].ents[n]) BY <1>1, ilookupFields
  <1>3. \A j \in Inums : s[j].ref \in Int /\ x[j].ref >= s[j].ref BY <1>2 DEF Nodes, Node, B
  <1> QED BY <1>1, <1>2, <1>3, LessNone

LEMMA LessDown ==
    ASSUME NEW s \in Nodes, NEW i \in Inums
    PROVE  Refdown(s, i) \in Nodes /\ Less(s, Refdown(s, i), i)
  <1>1. PICK x : x = Refdown(s, i) OBVIOUS
  <1> QED BY <1>1, RefdownFields, LessSame DEF Nodes, Node, B

LEMMA LessGive ==
    ASSUME NEW s \in Nodes, NEW i \in Inums
    PROVE  iunlock_refdown(s, i) \in Nodes /\ Less(s, iunlock_refdown(s, i), i)
  <1>1. PICK x : x = iunlock_refdown(s, i) OBVIOUS
  <1> QED BY <1>1, iunlock_refdownFields, LessSame DEF Nodes, Node, B

LEMMA BeginFree ==
    ASSUME CoreInv, LocksInv, NEW t \in Threads, Begin(t)
    PROVE  FreeStep(t)
  BY EnterFields, Ready, LessUp, RootIno, KeepGoto DEF Owers, Begin, At

\* A step of a walk.
LEMMA WalkFree ==
    ASSUME CoreInv, LocksInv, NEW t \in Threads, th[t].pc \in Walking, Less(ino, ino', Nil),
           NEW i \in Inos, NEW q \in Seq(Fns), NEW p \in Walking,
           Goto(t, [th[t] EXCEPT !.cur = i, !.rest = q], p)
    PROVE  FreeStep(t)
  <1>1. PICK r : r = [th[t] EXCEPT !.cur = i, !.rest = q] OBVIOUS
  <1> QED BY <1>1, Ready, KeepGoto DEF Owers, Walking, Frame

LEMMA NameiFastFree ==
    ASSUME CoreInv, LocksInv, NEW t \in Threads, NameiFast(t)
    PROVE  FreeStep(t)
  <1>3. PICK p : p = IF Len(th[t].rest) = 1 THEN "verify" ELSE "namei" OBVIOUS
  <1>4. PICK i : i = Entry(ino, th[t].cur, Head(th[t].rest)) OBVIOUS
  <1>6. th[t].rest \in Seq(Fns) /\ th[t].cur \in Inums /\ ino \in Nodes BY WalkFacts, Ready DEF Walking, NameiFast, At
  <1>7. Tail(th[t].rest) \in Seq(Fns) /\ Head(th[t].rest) \in Fns BY <1>6 DEF NameiFast, At
  <1>10. PICK q \in Seq(Fns) : q = Tail(th[t].rest) BY <1>7
  <1> QED BY <1>4, <1>6, <1>7, Named, <1>3, <1>10, LessSelf, WalkFree DEF Inos, Walking, NameiFast, At

LEMMA AgainFree ==
    ASSUME CoreInv, LocksInv, NEW t \in Threads, th[t].pc \in {"namei", "verify"},
           Goto(t, [th[t] EXCEPT !.cur = iroot, !.rest = Comps(t, th[t].stg)], "slow"), ino' = ino
    PROVE  FreeStep(t)
  <1>3. PICK q \in Seq(Fns) : q = Comps(t, th[t].stg) BY WalkLocal, CallParts DEF Walking
  <1>4. PICK i \in Inos : i = iroot BY RootIno DEF Inos
  <1> QED BY <1>3, <1>4, WalkLocal, LessSelf, WalkFree DEF Walking

LEMMA NameiMissFree ==
    ASSUME CoreInv, LocksInv, NEW t \in Threads, NameiMiss(t)
    PROVE  FreeStep(t)
  BY AgainFree DEF NameiMiss, At

LEMMA NameiVerifyFree ==
    ASSUME CoreInv, LocksInv, NEW t \in Threads, NameiVerify(t)
    PROVE  FreeStep(t)
  <1>1. th[t].pc = "verify" BY DEF NameiVerify, At
  <1>3. ino \in Nodes /\ th[t].cur \in Inums /\ th[t] \in Frame /\ Hand(th[t]) = iroot /\ ino[Hand(th[t])].ref >= 1
    BY <1>1, WalkFacts, Ready DEF Hand, Walking
  <1>4. CASE ino' = ino /\ Goto(t, [th[t] EXCEPT !.cur = iroot, !.rest = Comps(t, th[t].stg)], "slow")
    BY <1>1, <1>4, AgainFree
  <1>5. CASE ino' = Refdown(ilock(Refup(ino, th[t].cur), th[t].cur, t), iroot) /\ Goto(t, th[t], "got")
    <2>1. PICK x : x = Refup(ino, th[t].cur) OBVIOUS
    <2>2. PICK y : y = ilock(x, th[t].cur, t) OBVIOUS
    <2>3. x \in Nodes /\ Less(ino, x, Nil) BY <1>3, <2>1, LessUp
    <2>4. y \in Nodes /\ Less(x, y, Nil) BY <1>3, <2>2, <2>3, LessLock
    <2>6. PICK d \in Inums : d = iroot BY RootIno
    <2>9. Less(ino, ino', d) BY <1>3, <2>4, <1>5, <2>1, <2>2, <2>6, LessDown, <2>3, LessThen
    <2> QED BY <1>3, <1>5, <2>9, <2>6, RefNat, <1>1, DropGoto DEF Inos, LastOf, LastRef, Owers
  <1> QED BY <1>4, <1>5 DEF NameiVerify

LEMMA NameiLockFree ==
    ASSUME CoreInv, LocksInv, NEW t \in Threads, NameiLock(t)
    PROVE  FreeStep(t)
  BY WalkFacts, Ready, LessLock, KeepGoto DEF Walking, Owers, NameiLock, At

\* The last reference of an inode without links takes it out of the cache.
LEMMA LastDies ==
    ASSUME ino \in Nodes, NEW i \in Inums, ~ino[i].gone, NEW s, s = Refdown(ino, i) \/ s = iunlock_refdown(ino, i), LastOf(i)
    PROVE  i \in Dead(s, {i})
  <1>1. s[i].gone
    <2>1. CASE s = Refdown(ino, i) BY <2>1, RefdownFields, Zenon DEF LastOf
    <2>2. CASE s = iunlock_refdown(ino, i)
      <3>1. \A j \in Inums : iunlock_refdown(ino, i)[j].gone <=> ino[j].gone \/ (j = i /\ LastRef(ino, i))
        BY iunlock_refdownFields, Zenon
      <3> QED BY <2>2, <3>1, Zenon DEF LastOf
    <2> QED BY <2>1, <2>2
  <1> QED BY <1>1 DEF Dead

LEMMA NameiSlowFree ==
    ASSUME CoreInv, LocksInv, NEW t \in Threads, NameiSlow(t)
    PROVE  FreeStep(t)
  <1>2. th[t].pc \in Walking /\ th[t].pc \notin Owers /\ Hand(th[t]) = th[t].cur
    BY DEF Walking, Owers, Hand, NameiSlow, At
  <1>3. /\ ino \in Nodes /\ th[t].cur \in Inums /\ th[t] \in Frame /\ ino[th[t].cur].ref >= 1 /\ ~ino[th[t].cur].gone
        /\ th[t].rest \in Seq(Fns) /\ LocalOK(th[t], calls[t]) BY <1>2, WalkFacts, Ready
  <1>4. Head(th[t].rest) \in Fns /\ Tail(th[t].rest) \in Seq(Fns) BY <1>3 DEF NameiSlow, At
  <1>5. PICK m \in Fns : m = Head(th[t].rest) BY <1>4
  <1>6. PICK i \in Inums : i = th[t].cur BY <1>3
  <1>7. PICK n : n = IF ino[i].links = 0 THEN Nil ELSE Entry(ino, i, m) OBVIOUS
  <1>8. i \in Inos /\ ino[i].ref >= 1 /\ ~ino[i].gone BY <1>3, <1>6 DEF Inos
  <1>9. CASE n # Nil
    <2>1. PICK y : y = ilookup(ino, i, m) OBVIOUS
    <2>2. ino' = Refdown(y, i) /\ Goto(t, [th[t] EXCEPT !.cur = n, !.rest = Tail(@)], "slow")
      BY <1>5, <1>6, <1>7, <1>9, <2>1 DEF NameiSlow, NameiFailed
    <2>7. Less(ino, ino', i) BY <1>3, <2>1, <1>7, <1>9, LessLookup, <2>2, LessDown, LessThen DEF Entry
    <2>10. PICK q \in Seq(Fns) : q = Tail(th[t].rest) BY <1>4
    <2>11. PICK r : r = [th[t] EXCEPT !.cur = n, !.rest = q] OBVIOUS
    <2>12. r \in Frame /\ Goto(t, r, "slow") BY <1>3, <2>2, <1>7, <1>9, Named, <2>10, <2>11 DEF Frame, Inos
    <2> QED BY <1>2, <1>8, <2>7, <1>7, <1>9, <2>12, DropGoto DEF LastOf, LastRef
  <1>10. CASE n = Nil
    <2>1. PICK s : s = Refdown(ino, i) OBVIOUS
    <2>2. PICK D : D = Dead(s, {i}) OBVIOUS
    <2>3. NameiFailed(t, s, D) BY <1>5, <1>6, <1>7, <1>10, <2>1, <2>2 DEF NameiSlow
    <2>4. D \in SUBSET Inums BY <2>2 DEF Dead
    <2>5. s \in Nodes /\ Less(ino, s, i) BY <1>3, <2>1, LessDown
    <2>6. LastOf(i) => i \in D BY <1>3, <1>8, <2>1, <2>2, LastDies
    <2>7. CASE th[t].stg = 1
      <3>1. Finish(t, s, D, th[t].file) /\ th[t].file \in Inos BY <1>3, <2>3, <2>7 DEF NameiFailed, Return, Frame
      <3> QED BY <1>2, <1>8, <2>4, <2>5, <2>6, <3>1, DropFinish
    <2>8. CASE th[t].stg # 1 /\ Op(t).op = "rename"
      <3>0. th[t].stg = 2 BY <1>3, <2>8 DEF Frame
      <3>1. PICK q \in Seq(Inums) : q = <<th[t].opar, th[t].ochild>>
        BY <1>3, <3>0, <2>8, FewSeqs DEF LocalOK, Frame, Inos, OpOf, Op
      <3>2. PICK r : r = [th[t] EXCEPT !.dead = D, !.refs = q] OBVIOUS
      <3>4. r \in Frame /\ r.dead = D BY <1>3, <2>4, <3>2 DEF Frame
      <3> QED BY <1>2, <1>8, <2>6, <2>3, <2>8, <3>0, <3>1, <3>2, <3>4, <2>5, DropGoto DEF NameiFailed
    <2>9. CASE th[t].stg # 1 /\ Op(t).op # "rename"
      <3>2. PICK r : r = [th[t] EXCEPT !.dead = D] OBVIOUS
      <3>4. r \in Frame /\ r.dead = D BY <1>3, <2>4, <3>2 DEF Frame
      <3> QED BY <1>2, <1>8, <2>6, <2>3, <2>9, <3>2, <3>4, <2>5, DropGoto DEF NameiFailed
    <2> QED BY <2>7, <2>8, <2>9
  <1> QED BY <1>9, <1>10

LEMMA KeepFinish ==
    ASSUME CoreInv, LocksInv, NEW t \in Threads, th[t].pc \notin Owers, NEW s \in Nodes, Less(ino, s, Nil),
           NEW D \in SUBSET Inums, NEW f \in Inos, Finish(t, s, D, f)
    PROVE  FreeStep(t)
  <1>1. PICK d \in Inos : d = Nil BY DEF Inos
  <1> QED BY <1>1, DropFinish

LEMMA OpenedFree ==
    ASSUME CoreInv, LocksInv, NEW t \in Threads, th[t].pc \notin Owers, NEW i \in Inums, Opened(t, i)
    PROVE  FreeStep(t)
  <1>2. PICK s : s = iunlock(ino, i) OBVIOUS
  <1>4. PICK D \in SUBSET Inums : D = {} OBVIOUS
  <1> QED BY Ready, <1>2, LessUnlock, <1>4, KeepFinish DEF Inos, Opened

LEMMA OpenFree ==
    ASSUME CoreInv, LocksInv, NEW t \in Threads, Open(t)
    PROVE  FreeStep(t)
  BY GotFacts, OpenedFree DEF Owers, Open, AtOp, At

\* The call gives the inode i back, which is not the last of its references.
LEMMA ReturnFree ==
    ASSUME CoreInv, LocksInv, NEW t \in Threads, th[t].pc \notin Owers, th[t].pc # "idle", NEW i \in Inums, ino[i].ref >= 1,
           Return(t, Refdown(ino, i), {}) \/ Return(t, iunlock_refdown(ino, i), {}),
           th'[t].pc # th[t].pc => ~LastOf(i)
    PROVE  FreeStep(t)
  <1>2. PICK D \in SUBSET Inums : D = {} OBVIOUS
  <1>3. PICK s : (s = Refdown(ino, i) \/ s = iunlock_refdown(ino, i)) /\ Finish(t, s, D, th[t].file)
    BY <1>2 DEF Return
  <1>4. s \in Nodes /\ Less(ino, s, i) BY Ready, <1>3, LessDown, LessGive DEF Frame, Inos
  <1>6. ~LastOf(i) BY Ready, <1>3, <1>4, FinishFields DEF Frame, Inos
  <1> QED BY Ready, <1>3, <1>4, <1>6, DropFinish DEF Frame, Inos

LEMMA LessCreated ==
    ASSUME NEW s \in Nodes, NEW x \in Nodes, NEW p, NEW n, NEW c \in Inums, NEW k, Created(s, x, p, n, c, k), s[c].ref = 0
    PROVE  Less(s, x, Nil)
  <1>1. ASSUME NEW j \in Inums
        PROVE  x[j].ref >= s[j].ref - B(j = Nil) /\ (Lost(x, j) => Lost(s, j))
    <2>2. CASE j = c BY RootIno, <2>2 DEF Lost, Created, Nodes, Node, B
    <2>3. CASE j # c BY RootIno, <2>3 DEF Lost, Created, Nodes, Node, B
    <2> QED BY <2>2, <2>3
  <1> QED BY <1>1 DEF Less

LEMMA LessCreate ==
    ASSUME CoreInv, NEW p \in Inums, NEW n \in Fns, NEW k \in {"file", "dir"}, CanAlloc, ino[p].itype = "dir"
    PROVE  /\ icreate(ino, p, n, k) \in Nodes /\ Less(ino, icreate(ino, p, n, k), Nil)
           /\ Ialloc(ino) \in Inums /\ Ialloc(ino) # p
  <1>3. PICK x, c : x = icreate(ino, p, n, k) /\ c = Ialloc(ino) OBVIOUS
  <1> QED BY icreateFields, <1>3, RefNat, LessCreated DEF CanAlloc

LEMMA CreateFree ==
    ASSUME CoreInv, LocksInv, NEW t \in Threads, Create(t), Careful(t)
    PROVE  FreeStep(t)
  <1>1. th[t].pc = "got" /\ AtOp(t, "create", "got") BY DEF Create, AtOp, At
  <1>3. th[t].cur \in Inums /\ th[t] \in Frame /\ ino \in Nodes /\ Op(t).old.name \in Fns /\ ino[th[t].cur].ref >= 1
    BY <1>1, GotFacts, Ready
  <1>4. PICK p \in Inums : p = th[t].cur BY <1>3
  <1>5. PICK n \in Fns : n = Op(t).old.name BY <1>3
  <1>6. PICK c : c = Entry(ino, p, n) OBVIOUS
  <1>8. ASSUME NEW y \in Nodes, Less(ino, y, Nil), NEW i \in Inos, NEW k \in BOOLEAN, ino' = iunlock_refdown(y, p),
               Goto(t, [th[t] EXCEPT !.ochild = i, !.chk = k], "child")
        PROVE  FreeStep(t)
    <2>1. PICK r : r = [th[t] EXCEPT !.ochild = i, !.chk = k] OBVIOUS
    <2>2. r \in Frame /\ Goto(t, r, "child") BY <1>3, <1>8, <2>1 DEF Frame
    <2>6. p \in Inos /\ ino[p].ref >= 1 /\ ~LastOf(p)
      BY <1>1, <1>3, <1>4, CarefulPc, <2>2, GotoFields DEF Inos, Abandons
    <2> QED BY <1>1, <2>2, <1>3, <1>8, LessGive, LessThen, <2>6, DropGoto DEF Owers
  <1>9. CASE c # Nil
    <2>2. PICK y : y = ilookup(ino, p, n) OBVIOUS
    <2>4. PICK k \in BOOLEAN : k = (c = Nil) OBVIOUS
    <2>6. c \in Inos BY <1>3, <1>6, <1>9, Named DEF Inos
    <2> QED BY <1>8, <1>3, LessLookup, <1>4, <1>5, <1>6, <1>9, <2>2, <2>4, <2>6 DEF Create, Entry
  <1>10. CASE c = Nil /\ IsDir(ino, p) /\ CanAlloc
    <2>2. PICK y, i : y = icreate(ino, p, n, "file") /\ i = Ialloc(ino) OBVIOUS
    <2>4. PICK k \in BOOLEAN : k = (c = Nil) OBVIOUS
    <2> QED BY <1>8, LessCreate, <1>4, <1>5, <1>6, <1>10, <2>2, <2>4 DEF Create, Inos, IsDir
  <1>11. CASE c = Nil /\ ~(IsDir(ino, p) /\ CanAlloc)
    BY <1>1, CarefulPc, <1>4, <1>5, <1>6, <1>11, <1>3, ReturnFree DEF Create, Owers, Abandons
  <1> QED BY <1>9, <1>10, <1>11

LEMMA CreateOpenFree ==
    ASSUME CoreInv, LocksInv, NEW t \in Threads, CreateOpen(t), Careful(t)
    PROVE  FreeStep(t)
  <1>4. PICK c \in Inums : c = th[t].ochild BY Ready DEF LocalOK, Frame, Inos, CreateOpen, AtOp, At
  <1>8. CASE Opened(t, c) BY OpIs, <1>8, OpenedFree DEF AtOp, Owers, CreateOpen, At
  <1>9. CASE Refuses(t) /\ Return(t, Refdown(ino, c), {})
    BY OpIs, Ready, HeldChild, HeldRef, <1>4, CarefulPc, <1>9, ReturnFree DEF Abandons, B, AtOp, Owers, CreateOpen, At
  <1> QED BY <1>4, <1>8, <1>9 DEF CreateOpen, Refuses

LEMMA CloseFree ==
    ASSUME CoreInv, LocksInv, NEW t \in Threads, Fs_close(t)
    PROVE  FreeStep(t)
  <1>1. th[t].pc = "idle" /\ th[t].pc \notin Owers BY DEF Fs_close, At, Owers
  <1>2. ino \in Nodes /\ th[t] \in Frame /\ th[t].file \in Inos /\ LocalOK(th[t], calls[t]) BY Ready DEF Frame
  <1>3. CASE th[t].file = Nil
    <2>1. PICK D \in SUBSET Inums : D = {} OBVIOUS
    <2>3. PICK s \in Nodes : s = ino BY <1>2
    <2> QED BY <1>1, <1>2, <1>3, <2>1, <2>3, LessSelf, KeepFinish DEF Fs_close, Return
  <1>4. CASE th[t].file # Nil
    <2>1. PICK i \in Inums : i = th[t].file BY <1>2, <1>4 DEF Inos
    <2>2. PICK s : s = Refdown(ino, i) OBVIOUS
    <2>3. PICK D : D = Dead(s, {i}) OBVIOUS
    <2>4. PICK f : f = Nil OBVIOUS
    <2>8. PICK op : op = OpOf(calls[t]) OBVIOUS
    <2>11. ino[i].ref >= 1 /\ ~ino[i].gone BY <1>1, <2>1, <2>8, <1>2, BodyCount, HeldRef, Ready DEF B
    <2> QED
      BY <1>1, <1>4, <2>1, <2>2, <2>3, <2>4, <1>2, LessDown, <2>11, LastDies, DropFinish DEF Fs_close, Dead, Inos
  <1> QED BY <1>3, <1>4

LEMMA MkdirFree ==
    ASSUME CoreInv, LocksInv, NEW t \in Threads, Mkdir(t)
    PROVE  FreeStep(t)
  <1>3. th[t].cur \in Inums /\ th[t] \in Frame /\ ino \in Nodes /\ Op(t).old.name \in Fns
    BY GotFacts, Ready DEF Mkdir, AtOp, At, Owers
  <1>4. PICK p \in Inums : p = th[t].cur BY <1>3
  <1>5. PICK n \in Fns : n = Op(t).old.name BY <1>3
  <1>6. PICK c : c = Entry(ino, p, n) OBVIOUS
  <1>7. CASE c = Nil /\ IsDir(ino, p) /\ CanAlloc
    <2>2. PICK y, i : y = icreate(ino, p, n, "dir") /\ i = Ialloc(ino) OBVIOUS
    <2>4. PICK r : r = [th[t] EXCEPT !.ochild = i] OBVIOUS
    <2>7. r \in Frame /\ Less(ino, ino', Nil)
      BY <1>3, <1>7, <2>2, LessCreate, <2>4, <1>4, <1>5, <1>6 DEF Frame, Inos, IsDir, Mkdir
    <2> QED BY <1>4, <1>5, <1>6, <1>7, <2>2, <2>4, <2>7, KeepGoto DEF Mkdir, AtOp, At, Owers
  <1>8. CASE ~(c = Nil /\ IsDir(ino, p) /\ CanAlloc)
    <2>1. PICK y : y = IF c = Nil THEN ino ELSE ilookup(ino, p, n) OBVIOUS
    <2>2. PICK q \in Seq(Inums) : q = <<p>> BY FewSeqs
    <2>3. PICK r : r = [th[t] EXCEPT !.refs = q, !.chk = TRUE] OBVIOUS
    <2>4. ino' = iunlock(y, p) /\ Goto(t, r, "refdown")
      BY <1>4, <1>5, <1>6, <1>8, <2>1, <2>2, <2>3 DEF Mkdir, GiveBack
    <2>5. y \in Nodes /\ Less(ino, y, Nil)
      <3>1. CASE c = Nil BY <1>3, <2>1, <3>1, LessSelf
      <3>2. CASE c # Nil BY <1>3, <2>1, <3>2, <1>6, LessLookup DEF Entry
      <3> QED BY <3>1, <3>2
    <2>8. r \in Frame BY <1>3, <2>3 DEF Frame
    <2> QED BY <2>4, <1>3, <2>5, LessUnlock, LessThen, <2>8, KeepGoto DEF Mkdir, AtOp, At, Owers
  <1> QED BY <1>7, <1>8

LEMMA MkdirDotsFree ==
    ASSUME CoreInv, LocksInv, NEW t \in Threads, MkdirDots(t)
    PROVE  FreeStep(t)
  <1>3. ino' = iunlock(SetDotdot(ino, th[t].ochild, th[t].cur), th[t].cur) /\ th[t].ochild \in Inums /\ th[t].cur \in Inums
    BY MkdirDotsStep
  <1>4. th[t] \in Frame /\ ino \in Nodes BY Ready
  <1>5. PICK y : y = SetDotdot(ino, th[t].ochild, th[t].cur) OBVIOUS
  <1>6. y \in Nodes /\ SameRef(ino, y) /\ SameLinks(ino, y) /\ \A j \in Inums : y[j].itype = ino[j].itype
    <2>2. \A j \in Inums : y[j].itype = ino[j].itype BY <1>3, <1>4, <1>5 DEF SetDotdot, Nodes, Node
    <2> QED BY <1>3, <1>4, <1>5, DotFields, <2>2
  <1>7. Less(ino, y, Nil)
    <2>1. ASSUME NEW j \in Inums
          PROVE  y[j].ref >= ino[j].ref - B(j = Nil) /\ (Lost(y, j) => Lost(ino, j))
      BY <1>6, RootIno DEF Lost, Nodes, Node, B, SameRef, SameLinks
    <2> QED BY <2>1 DEF Less
  <1>9. Less(ino, ino', Nil) BY <1>4, <1>6, <1>7, <1>3, <1>5, LessUnlock, LessThen
  <1>13. PICK q \in Seq(Inums) : q = <<th[t].cur, th[t].ochild>> BY <1>3, FewSeqs
  <1>14. PICK r : r = [th[t] EXCEPT !.refs = q, !.chk = TRUE] OBVIOUS
  <1>16. r \in Frame BY <1>4, <1>14 DEF Frame
  <1> QED BY <1>9, <1>13, <1>14, <1>16, KeepGoto DEF MkdirDots, AtOp, At, Owers, GiveBack

\* The call goes on with inodes to lock.
LEMMA KeepApart ==
    ASSUME CoreInv, LocksInv, NEW t \in Threads, th[t].pc \notin Owers, Less(ino, ino', Nil), Apart(th'[t], OpOf(calls'[t]))
    PROVE  FreeStep(t)
  <1>2. ASSUME NEW i \in Inums, Left(ino', i)
        PROVE  Left(ino, i) BY RefNat, <1>2, RootIno DEF Left, Less, B
  <1> QED BY <1>2, NotOwing DEF FreeStep

LEMMA UnlinkFree ==
    ASSUME CoreInv, LocksInv, Acyclic(ino), NEW t \in Threads, Unlink(t), Careful(t)
    PROVE  FreeStep(t)
  <1>3. th[t].cur \in Inums /\ th[t] \in Frame /\ ino \in Nodes /\ Op(t).old.name \in Fns /\ ino[th[t].cur].ref >= 1
    BY GotFacts, Ready DEF Unlink, AtOp, At
  <1>4. PICK p \in Inums : p = th[t].cur BY <1>3
  <1>5. PICK n \in Fns : n = Op(t).old.name BY <1>3
  <1>6. PICK c : c = Entry(ino, p, n) OBVIOUS
  <1>7. CASE c = Nil BY <1>4, <1>5, <1>6, <1>7, CarefulPc, <1>3, ReturnFree DEF Unlink, Abandons, Owers, AtOp, At
  <1>8. CASE c # Nil
    <2>1. PICK y : y = ilookup(ino, p, n) OBVIOUS
    <2>3. PICK S \in SUBSET Inums : S = {p, c} BY <1>3, <1>6, <1>8, Named DEF Inos
    <2>4. PICK r : r = [th[t] EXCEPT !.opar = p, !.ochild = c, !.tolock = S] OBVIOUS
    <2>5. ino' = iunlock(y, p) /\ Goto(t, r, "lockall") BY <1>4, <1>5, <1>6, <1>8, <2>1, <2>3, <2>4 DEF Unlink
    <2>9. Less(ino, ino', Nil) BY <1>3, <1>8, <2>1, <1>6, LessLookup, <2>5, LessUnlock, LessThen DEF Entry, IsDir
    <2>10. r \in Frame /\ r.opar = p /\ r.ochild = c BY <1>3, <1>6, <1>8, Named, <2>4 DEF Frame, Inos
    <2>12. p # c
      <3>1. SUFFICES ASSUME p = c PROVE FALSE OBVIOUS
      <3>3. PICK Z \in SUBSET Inums : Z = {p} OBVIOUS
      <3> QED BY <3>3, <1>6, <1>8, <3>1 DEF Acyclic, DirEdge, Entry, IsDir
    <2> QED BY <2>9, <2>5, <2>10, GotoFields, <2>12, KeepApart DEF Apart, Owers, Unlink, AtOp, At
  <1> QED BY <1>7, <1>8

LEMMA LockAllFree ==
    ASSUME CoreInv, LocksInv, NEW t \in Threads, LockAll(t), Apart(th[t], OpOf(calls[t]))
    PROVE  FreeStep(t)
  <1>2. th[t] \in Frame /\ ino \in Nodes /\ LocalOK(th[t], calls[t]) BY Ready
  <1>4. PICK i \in Inums : i = Min(th[t].tolock) BY <1>2, MinOf DEF LocalOK, Frame, LockAll, At, Owers
  <1>6. PICK p : p = IF th[t].tolock = {i} THEN "locked" ELSE "lockall" OBVIOUS
  <1>7. PICK q : q = Append(th[t].defers, i) OBVIOUS
  <1>8. PICK S : S = th[t].tolock \ {i} OBVIOUS
  <1>9. PICK r : r = [th[t] EXCEPT !.tolock = S, !.defers = q] OBVIOUS
  <1>10. ino' = ilock(ino, i, t) /\ Goto(t, r, p) /\ calls' = calls BY <1>4, <1>6, <1>7, <1>8, <1>9 DEF LockAll
  <1>12. r \in Frame /\ r.opar = th[t].opar /\ r.ochild = th[t].ochild
    BY <1>2, <1>9, <1>7, <1>8, Appended DEF Frame, LocalOK, LockAll, At, Owers
  <1> QED BY <1>12, GotoFields, <1>2, <1>10, LessLock, KeepApart DEF Apart, LockAll, At, Owers

LEMMA UnlinkedFree ==
    ASSUME CoreInv, LocksInv, NEW t \in Threads, Unlinked(t), Careful(t), Apart(th[t], OpOf(calls[t]))
    PROVE  FreeStep(t)
  <1>1. th[t].pc = "locked" /\ OpOf(calls[t]) = "unlink" /\ AtOp(t, "unlink", "locked") /\ th[t].pc \notin Owers
    BY OpIs DEF Unlinked, AtOp, At, Owers
  <1>3. /\ th[t].opar \in Inums /\ th[t].ochild \in Inums /\ calls[t] # <<>> /\ th[t].file = Nil
    BY <1>1, Ready DEF LocalOK, Frame, Inos
  <1>4. PICK p \in Inums, c \in Inums : p = th[t].opar /\ c = th[t].ochild BY <1>3
  <1>5. PICK n \in Fns : n = Op(t).old.name BY <1>3, CallParts
  <1>7. ino[p].ref >= 1 /\ ino[c].ref >= 1 /\ ~ino[c].gone
    BY <1>1, <1>4, Ready, HeldChild, HasLive, RefNat DEF B, Apart
  <1>8. PICK v : v = ilookup_validate(ino, p, n) OBVIOUS
  <1>10. v \in Nodes /\ SameNames(ino, v) /\ SameLinks(ino, v) /\ \A j \in Inums : v[j].ref >= ino[j].ref
    BY <1>8, TouchSelf, RefNat, ValidateTouch DEF Touches, SameGone
  <1>12. PICK ok \in BOOLEAN : ok <=> Valid(ino, p, n, c) /\ do_dirchk(ino, c, Op(t).flag) OBVIOUS
  <1>13. PICK y : y = IF ok THEN _linkdown(do_unlink(v, p, n), c) ELSE v OBVIOUS
  <1>14. /\ y \in Nodes /\ \A j \in Inums : y[j].ref >= ino[j].ref /\ y[j].itype = ino[j].itype
         /\ \A j \in Inums : j # c => y[j].links = ino[j].links
    <2>1. CASE ok
      <3>1. PICK u : u = do_unlink(v, p, n) OBVIOUS
      <3>2. u \in Nodes /\ SetEntry(v, u, p, n, Nil) /\ SameLinks(v, u) /\ SameRef(v, u)
        BY <1>10, <3>1, do_unlinkFields
      <3>4. y \in Nodes /\ SameNames(u, y) /\ SameRef(u, y) /\ \A j \in Inums : y[j].links = u[j].links - B(j = c)
        BY <3>2, <1>13, <2>1, <3>1, _linkdownFields
      <3>6. ASSUME NEW j \in Inums, j # c
            PROVE  y[j].links = ino[j].links BY <3>6, RefNat, <1>10, <3>2, <3>4 DEF B, SameLinks
      <3> QED BY <3>4, <1>10, <3>2, <3>6 DEF SameRef, SameNames, SetEntry
    <2>2. CASE ~ok BY <1>10, <1>13, <2>2 DEF SameNames, SameLinks
    <2> QED BY <2>1, <2>2
  <1>15. PICK x : x = iunlock_refdown(y, c) OBVIOUS
  <1>16. PICK s : s = iunlock_refdown(x, p) OBVIOUS
  <1>17. x \in Nodes /\ SameNames(y, x) /\ SameLinks(y, x) /\ \A j \in Inums : x[j].ref = y[j].ref - B(j = c)
    BY <1>14, <1>15, iunlock_refdownFields
  <1>19. \A j \in Inums : x[j].gone <=> y[j].gone \/ (j = c /\ LastRef(y, c))
    <2>1. \A j \in Inums : iunlock_refdown(y, c)[j].gone <=> y[j].gone \/ (j = c /\ LastRef(y, c))
      BY <1>14, iunlock_refdownFields, Zenon
    <2> QED BY <1>15, <2>1, Zenon
  <1>20. PICK D \in SUBSET Inums : D = Dead(x, {c}) BY DEF Dead
  <1>21. Finish(t, s, D, Nil) BY <1>3, <1>4, <1>5, <1>8, <1>12, <1>13, <1>15, <1>16, <1>20 DEF Unlinked, Return
  <1>22. PICK f \in Inos : f = Nil BY DEF Inos
  <1>23. th'[t].pc = "idle" /\ Freed(s, ino', D) BY <1>16, <1>17, iunlock_refdownFields, <1>21, <1>22, FinishFields
  <1>25. ASSUME NEW i \in Inums, Left(ino', i)
         PROVE  Left(ino, i)
    <2>1. i \notin D /\ s[i].itype \in {"file", "dir"} /\ s[i].links = 0 /\ s[i].ref = 0
      BY <1>23, <1>25 DEF Freed, Left, Lost
    <2>2. x[i].itype \in {"file", "dir"} /\ x[i].links = 0 /\ 0 = x[i].ref - B(i = p)
      BY <1>16, <1>17, iunlock_refdownFields, <2>1 DEF SameNames, SameLinks
    <2>3. y[i].itype \in {"file", "dir"} /\ y[i].links = 0 /\ x[i].ref = y[i].ref - B(i = c)
      BY <1>17, <2>2 DEF SameNames, SameLinks
    <2>4. y[i].ref \in Int /\ ino[i].ref \in Nat /\ y[i].ref >= ino[i].ref /\ y[i].itype = ino[i].itype
      BY <1>14, RefNat DEF Nodes, Node
    <2>5. i # c
      <3>1. SUFFICES ASSUME i = c PROVE FALSE OBVIOUS
      <3> QED BY <2>1, <3>1, <1>7, <1>20, <1>19, <1>1, <1>4, <2>2, <2>3, <2>4 DEF Dead, LastRef, B, Apart
    <2>7. i # p
      <3>1. SUFFICES ASSUME i = p PROVE FALSE OBVIOUS
      <3> QED
        BY <1>1, <1>4, <1>23, CarefulPc, <1>14, <2>3, <2>5, <3>1, <1>7, <2>2, <2>4 DEF LastOf, LastRef, Abandons, B
    <2> QED BY <2>3, <2>4, <1>14, <2>2, <2>5, <2>7 DEF Left, Lost, B
  <1> QED BY <1>25, <1>1, NotOwing, <1>23 DEF FreeStep, Apart

LEMMA LinksNat ==
    ASSUME CoreInv, NEW i \in Inums
    PROVE  ino[i].links \in Nat
  BY RefNat, NamesFinite, PendFinite, PendingIs DEF CoreInv, LinksHeld, NamesOf

\* An inode gets a link.
LEMMA LessLinked ==
    ASSUME CoreInv, NEW i \in Inums
    PROVE  _linkup(ino, i) \in Nodes /\ Less(ino, _linkup(ino, i), Nil)
  <1>1. PICK x : x = _linkup(ino, i) OBVIOUS
  <1>3. x \in Nodes /\ SameNames(ino, x) /\ SameRef(ino, x) /\ \A j \in Inums : x[j].links = ino[j].links + B(j = i)
    BY <1>1, RefNat, _linkupFields
  <1>4. ASSUME NEW j \in Inums
        PROVE  x[j].ref >= ino[j].ref - B(j = Nil) /\ (Lost(x, j) => Lost(ino, j))
    BY <1>3, RootIno, LinksNat DEF Lost, Nodes, Node, B, SameRef, SameNames
  <1> QED BY <1>1, <1>3, <1>4 DEF Less

\* The call enters namei for its second path.
LEMMA EnterFree ==
    ASSUME CoreInv, LocksInv, NEW t \in Threads, th[t].pc = "got", NEW y \in Nodes, Less(ino, y, Nil), NEW i \in Inums,
           NEW q \in Frame, EnterNamei(t, q, iunlock(y, i), 2)
    PROVE  FreeStep(t)
  <1>1. PICK s : s = iunlock(y, i) OBVIOUS
  <1>2. calls[t] # <<>> /\ ino \in Nodes BY GotFacts, Ready
  <1>4. /\ ino' = Refup(s, iroot)
        /\ \E r \in Frame : /\ Goto(t, r, "namei") /\ r.stg = 2 /\ r.ochild = q.ochild /\ r.next = q.next
                            /\ r.defers = q.defers /\ r.dead = q.dead BY <1>2, <1>1, EnterFields
  <1> QED BY <1>4, <1>2, <1>1, LessUnlock, LessUp, RootIno, LessThen, KeepGoto DEF Owers

LEMMA LinkFree ==
    ASSUME CoreInv, LocksInv, NEW t \in Threads, Link(t), Apart(th[t], OpOf(calls[t]))
    PROVE  FreeStep(t)
  <1>2. th[t].cur \in Inums /\ th[t] \in Frame /\ ino \in Nodes /\ ino[th[t].cur].ref >= 1 /\ ~ino[th[t].cur].gone
    BY GotFacts, Ready DEF Link, AtOp, At, Owers
  <1>3. PICK i \in Inums : i = th[t].cur BY <1>2
  <1>4. CASE ~IsDir(ino, i)
    <2>1. PICK y : y = _linkup(ino, i) OBVIOUS
    <2>2. PICK q : q = [th[t] EXCEPT !.ochild = i] OBVIOUS
    <2> QED BY <1>3, <1>4, <2>1, <2>2, <1>2, LessLinked, EnterFree DEF Link, AtOp, At, Owers, Frame, Inos
  <1>5. CASE IsDir(ino, i)
    <2>1. PICK s : s = iunlock_refdown(ino, i) OBVIOUS
    <2>2. CASE Dead(s, {i}) # {} BY <1>3, <1>5, <2>1, <2>2, PanicFree DEF Link
    <2>3. CASE Dead(s, {i}) = {} BY <1>3, <1>5, <2>1, <2>3, <1>2, LastDies, ReturnFree DEF Link, AtOp, At, Owers
    <2> QED BY <2>2, <2>3
  <1> QED BY <1>4, <1>5

LEMMA LinkInsertFree ==
    ASSUME CoreInv, LocksInv, NEW t \in Threads, LinkInsert(t), Careful(t)
    PROVE  FreeStep(t)
  <1>1. th[t].pc = "got" /\ th[t].stg = 2 /\ AtOp(t, "link", "got") /\ th[t].pc \notin Owers
    BY DEF LinkInsert, AtOp, At, Owers
  <1>2. /\ th[t].cur \in Inums /\ th[t] \in Frame /\ ino \in Nodes /\ Op(t).new.name \in Fns /\ LocalOK(th[t], calls[t])
        /\ ino[th[t].cur].ref >= 1 BY <1>1, GotFacts, Ready
  <1>3. PICK i \in Inums : i = th[t].ochild BY <1>1, <1>2 DEF LocalOK, Frame, Inos
  <1>4. PICK p \in Inums : p = th[t].cur BY <1>2
  <1>5. PICK n \in Fns : n = Op(t).new.name BY <1>2
  <1>6. ASSUME NEW y \in Nodes, Less(ino, y, Nil), ino' = iunlock_refdown(y, p), NEW r \in Frame,
               NEW z \in {"refdown", "undo"}, Goto(t, r, z)
        PROVE  FreeStep(t)
    <2>4. Less(ino, ino', p) BY <1>2, <1>6, LessGive, LessThen
    <2> QED BY <1>1, <1>6, GotoFields, CarefulPc, <2>4, <1>2, <1>4, DropGoto DEF Inos, Abandons
  <1>7. CASE IsDir(ino, p) /\ ino[p].ents[n] = Nil
    <2>1. PICK y : y = do_insert(ino, p, n, i) OBVIOUS
    <2>2. PICK q \in Seq(Inums) : q = <<i>> BY FewSeqs
    <2>3. PICK r : r = [th[t] EXCEPT !.refs = q, !.chk = FALSE] OBVIOUS
    <2>5. y \in Nodes /\ SetEntry(ino, y, p, n, i) /\ SameLinks(ino, y) /\ SameRef(ino, y)
      BY <1>2, <2>1, do_insertFields
    <2>6. ASSUME NEW j \in Inums
          PROVE  y[j].ref >= ino[j].ref - B(j = Nil) /\ (Lost(y, j) => Lost(ino, j))
      BY <2>5, RootIno DEF Lost, Nodes, Node, B, SameRef, SameLinks, SetEntry
    <2> QED BY <1>6, <1>3, <1>4, <1>5, <1>7, <2>1, <2>2, <2>3, <2>5, <2>6, <1>2 DEF LinkInsert, GiveBack, Less, Frame
  <1>8. CASE ~IsDir(ino, p) \/ ino[p].ents[n] # Nil
    <2>2. PICK y \in Nodes : y = ino BY <1>2
    <2> QED BY <1>2, <1>6, <1>4, <1>5, <1>8, <2>2, LessSelf DEF LinkInsert
  <1> QED BY <1>7, <1>8

LEMMA LinkUndoFree ==
    ASSUME CoreInv, LocksInv, NEW t \in Threads, LinkUndo(t)
    PROVE  FreeStep(t)
  <1>2. ino \in Nodes /\ th[t] \in Frame /\ LocalOK(th[t], calls[t]) BY Ready
  <1>3. PICK o \in Inums : o = th[t].ochild BY <1>2 DEF LocalOK, Frame, Inos, LinkUndo, At
  <1>4. PICK y : y = _linkdown(ino, o) OBVIOUS
  <1>5. PICK s : s = Refdown(y, o) OBVIOUS
  <1>6. PICK d : d = Dead(s, {o}) \cup th[t].dead OBVIOUS
  <1>8. y \in Nodes /\ SameNames(ino, y) /\ SameRef(ino, y) /\ \A j \in Inums : y[j].links = ino[j].links - B(j = o)
    BY <1>2, <1>4, _linkdownFields
  <1>10. \A j \in Inums : s[j].gone <=> y[j].gone \/ (j = o /\ LastRef(y, o)) BY <1>5, <1>8, RefdownFields, Zenon
  <1>11. d \in SUBSET Inums /\ th[t].file \in Inos BY <1>2, <1>6 DEF Dead, Frame
  <1>12. th'[t].pc = "idle" /\ Freed(s, ino', d)
    BY <1>3, <1>4, <1>5, <1>6, <1>8, RefdownFields, <1>11, FinishFields DEF LinkUndo, Return
  <1>13. ino[o].ref >= 1 /\ ~ino[o].gone BY <1>3, <1>2, HeldChild, HasLive, RefNat DEF B, LinkUndo, At
  <1>14. ASSUME NEW i \in Inums, Left(ino', i)
         PROVE  Left(ino, i) /\ ~Owes(th[t], i)
    <2>1. i \notin d /\ s[i].itype \in {"file", "dir"} /\ s[i].links = 0 /\ s[i].ref = 0
      BY <1>12, <1>14 DEF Freed, Left, Lost
    <2>2. y[i].itype \in {"file", "dir"} /\ y[i].links = 0 /\ 0 = y[i].ref - B(i = o)
      BY <1>5, <1>8, RefdownFields, <2>1 DEF SameNames, SameLinks
    <2>5. i # o
      <3>1. SUFFICES ASSUME i = o PROVE FALSE OBVIOUS
      <3> QED BY <2>1, <3>1, <1>6, <1>13, <1>10, <2>2, <1>8, RefNat DEF Dead, B, LastRef, SameNames, SameRef
    <2> QED BY <2>2, <1>8, RefNat, <2>5, <1>6, <2>1 DEF Left, Lost, B, Owes, SameNames, SameRef, LinkUndo, At
  <1> QED BY <1>14, <1>12 DEF FreeStep, Apart

LEMMA RenameOldFree ==
    ASSUME CoreInv, LocksInv, NEW t \in Threads, RenameOld(t), Careful(t)
    PROVE  FreeStep(t)
  <1>1. th[t].pc = "got" /\ th[t].stg = 1 /\ AtOp(t, "rename", "got") /\ th[t].pc \notin Owers /\ th[t].pc # "idle"
    BY DEF RenameOld, AtOp, At, Owers
  <1>2. th[t].cur \in Inums /\ th[t] \in Frame /\ ino \in Nodes /\ Op(t).old.name \in Fns /\ ino[th[t].cur].ref >= 1
    BY <1>1, GotFacts, Ready
  <1>3. PICK p \in Inums : p = th[t].cur BY <1>2
  <1>4. PICK n \in Fns : n = Op(t).old.name BY <1>2
  <1>5. PICK c : c = Entry(ino, p, n) OBVIOUS
  <1>6. CASE c = Nil BY <1>1, <1>3, <1>4, <1>5, <1>6, CarefulPc, <1>2, ReturnFree DEF RenameOld, Abandons
  <1>7. CASE c # Nil
    <2>1. PICK y : y = ilookup(ino, p, n) OBVIOUS
    <2>3. PICK q : q = [th[t] EXCEPT !.opar = p, !.ochild = c] OBVIOUS
    <2>7. y \in Nodes /\ Less(ino, y, Nil) BY <1>2, <2>1, <1>5, <1>7, LessLookup DEF Entry
    <2> QED BY <1>1, <1>3, <1>4, <1>5, <1>7, <2>1, <2>3, <1>2, Named, <2>7, EnterFree DEF RenameOld, Frame, Inos
  <1> QED BY <1>6, <1>7

LEMMA RenameLockFree ==
    ASSUME CoreInv, LocksInv, NEW t \in Threads, RenameLock(t)
    PROVE  FreeStep(t)
  <1>2. th[t].cur \in Inums /\ th[t].cur \in Inos /\ th[t] \in Frame /\ ino \in Nodes
    BY GotFacts, Ready DEF RenameLock, AtOp, At, Owers
  <1>3. PICK p \in Inums : p = th[t].cur BY <1>2
  <1>4. PICK z : z = IF p = iroot THEN "look" ELSE "up" OBVIOUS
  <1>5. PICK r : r = [th[t] EXCEPT !.npar = p] OBVIOUS
  <1>8. r \in Frame /\ z \notin {"lockall", "locked"} BY <1>2, <1>3, <1>4, <1>5 DEF Frame
  <1> QED BY <1>3, <1>4, <1>5, <1>2, LessUnlock, LessUp, <1>8, KeepGoto DEF RenameLock, AtOp, At, Owers

\* _isancestor gives the directory that it is at back.
LEMMA UpDrops ==
    ASSUME CoreInv, LocksInv, NEW t \in Threads, th[t].pc = "up", ~fatal, Careful(t), th'[t] # th[t], Less(ino, ino', th[t].cur),
           NEW r \in Frame, NEW p \in {"up", "look", "refdown"}, Goto(t, r, p)
    PROVE  FreeStep(t)
  <1>3. PICK d \in Inos : d = th[t].cur BY UpFacts DEF Inos
  <1> QED BY <1>3, UpFacts, DropGoto DEF Owers, Abandons, At, Careful

LEMMA UpStops ==
    ASSUME CoreInv, LocksInv, NEW t \in Threads, th[t].pc = "up", ~fatal, Careful(t), NEW x, Less(ino, x, th[t].cur),
           GiveBack(t, x, th[t], Triple(t), FALSE)
    PROVE  FreeStep(t)
  <1>1. th[t] \in Frame /\ th[t].opar \in Inums /\ th[t].ochild \in Inums /\ th[t].npar \in Inums BY UpLocal
  <1>2. PICK q \in Seq(Inums) : q = Triple(t) BY <1>1, FewSeqs DEF Triple
  <1>3. PICK r : r = [th[t] EXCEPT !.refs = q, !.chk = FALSE] OBVIOUS
  <1>5. r \in Frame BY <1>1, <1>3 DEF Frame
  <1> QED BY <1>2, <1>3, <1>5, GotoFields, UpDrops DEF GiveBack

LEMMA IsAncestorFree ==
    ASSUME CoreInv, LocksInv, NEW t \in Threads, IsAncestor(t), Careful(t)
    PROVE  FreeStep(t)
  <1>3. PICK x : x = Refdown(ino, th[t].cur) OBVIOUS
  <1> QED BY <1>3, UpLocal, LessDown, UpStops DEF IsAncestor, At

LEMMA AncestorRootFree ==
    ASSUME CoreInv, LocksInv, NEW t \in Threads, AncestorRoot(t), Careful(t)
    PROVE  FreeStep(t)
  <1>2. ino \in Nodes /\ th[t].cur \in Inums /\ th[t] \in Frame BY UpLocal DEF AncestorRoot, At
  <1> QED BY <1>2, LessDown, GotoFields, UpDrops DEF AncestorRoot, At

LEMMA AncestorFree ==
    ASSUME CoreInv, LocksInv, NEW t \in Threads, Ancestor(t), Careful(t), Apart(th[t], OpOf(calls[t]))
    PROVE  FreeStep(t)
  <1>1. th[t].pc = "up" /\ ~fatal BY DEF Ancestor, At
  <1>2. ino \in Nodes /\ th[t].cur \in Inums /\ th[t] \in Frame BY <1>1, UpLocal
  <1>3. PICK h \in Inums : h = th[t].cur BY <1>2
  <1>4. PICK i : i = ino[h].dotdot OBVIOUS
  <1>5. CASE Panic BY <1>5, PanicFree
  <1>6. CASE i = Nil
    <2>1. PICK x : x = iunlock_refdown(ino, h) OBVIOUS
    <2> QED BY <1>1, <1>3, <1>4, <1>6, <2>1, <1>2, LessGive, UpStops DEF Ancestor
  <1>7. CASE i # Nil /\ ~Panic
    <2>1. i \in Inums BY <1>2, <1>3, <1>4, <1>7 DEF Nodes, Node, Inos
    <2>2. PICK y : y = Refup(ino, i) OBVIOUS
    <2>3. PICK r : r = [th[t] EXCEPT !.cur = i] OBVIOUS
    <2>4. ino' = iunlock_refdown(y, h) /\ Goto(t, r, "up") BY <1>3, <1>4, <1>7, <2>2, <2>3 DEF Ancestor
    <2>6. r \in Frame /\ r.cur = i BY <1>2, <2>3, <2>1 DEF Frame, Inos
    <2>7. CASE i # h
      <3>3. Less(ino, ino', h) BY <1>2, <2>1, <2>2, LessUp, <2>4, LessGive, LessThen
      <3> QED BY <1>1, <2>4, <2>6, <1>3, <2>7, <3>3, GotoFields, UpDrops
    <2>8. CASE i = h
      <3>1. y \in Nodes /\ SameNames(ino, y) /\ SameLinks(ino, y) /\ \A j \in Inums : y[j].ref = ino[j].ref + B(j = i)
        BY <1>2, <2>1, <2>2, RefupFields DEF Refup, Nodes, Node, B
      <3>2. ino' \in Nodes /\ SameNames(y, ino') /\ SameLinks(y, ino') /\ \A j \in Inums : ino'[j].ref = y[j].ref - B(j = h)
        BY <2>4, <3>1, iunlock_refdownFields
      <3>4. \A j \in Inums : ino[j].ref \in Int /\ ino'[j].ref >= ino[j].ref
        <4> TAKE j \in Inums
        <4> QED BY <2>8, <3>1, <3>2, RefNat DEF B
      <3> QED BY <2>4, <2>6, <3>1, <3>2, SameTrans, <3>4, LessNone, <1>1, KeepGoto DEF Owers
    <2> QED BY <2>7, <2>8
  <1> QED BY <1>5, <1>6, <1>7

LEMMA RenameLookFree ==
    ASSUME CoreInv, LocksInv, NEW t \in Threads, RenameLook(t)
    PROVE  FreeStep(t)
  <1>3. OpOf(calls[t]) = "rename" /\ th[t].npar \in Inums /\ calls[t] # <<>>
    BY Ready DEF LocalOK, Frame, Inos, RenameLook, At, Owers
  <1>4. PICK n \in Fns : n = Op(t).new.name BY <1>3, CallParts
  <1>5. PICK p \in Inums : p = th[t].npar BY <1>3
  <1>6. PICK c : c = Entry(ino, p, n) OBVIOUS
  <1>8. Less(ino, ino', Nil)
    <2>1. CASE c = Nil BY Ready, <1>4, <1>5, <1>6, <2>1, LessSelf DEF RenameLook
    <2>2. CASE c # Nil BY Ready, <1>4, <1>5, <2>2, <1>6, LessLookup DEF Entry, RenameLook
    <2> QED BY <2>1, <2>2
  <1> QED BY <1>8, <1>3, KeepApart DEF Apart, RenameLook, At, Owers

LEMMA RenameFree ==
    ASSUME CoreInv, LocksInv, NEW t \in Threads, Rename(t)
    PROVE  FreeStep(t)
  <1>1. AtOp(t, "rename", "locked") /\ calls' = calls BY DEF Rename
  <1>5. ASSUME NEW i \in Inums
        PROVE  /\ ino'[i].ref >= ino[i].ref /\ ino'[i].itype = ino[i].itype
               /\ ino'[i].links = ino[i].links \/ i = th[t].nchild
    <2>2. CASE Stopped(t) BY <1>1, CheckedTouch, <2>2 DEF Touches, SameNames, SameLinks, Rename
    <2>3. CASE ~Stopped(t)
      <3>1. PICK x : x = MoveOld(RemoveNew(Checked(t), t), t) OBVIOUS
      <3>3. SameRef(Checked(t), x) /\ MovedTo(t, x) BY <2>3, <3>1, MovedTree
      <3> QED BY <2>3, <3>1, <3>3, RefNat, <1>1, CheckedTouch DEF Rename, B, MovedTo, SameRef
    <2> QED BY <2>2, <2>3
  <1>6. ASSUME NEW i \in Inums, Left(ino', i)
        PROVE  Left(ino, i)
    <2>3. i # th[t].nchild
      <3>1. SUFFICES ASSUME i = th[t].nchild PROVE FALSE OBVIOUS
      <3> QED BY <1>5, <1>6, RefNat, <3>1, <1>1, LockedFacts, HeldRef DEF T3, B, Left, Lost
    <2> QED BY <1>5, <1>6, RefNat, <2>3 DEF Left, Lost
  <1> QED BY <1>1, LockedFacts, NotOwing, <1>6 DEF FreeStep, Apart, Owers

LEMMA RenameUnlockFree ==
    ASSUME CoreInv, LocksInv, NEW t \in Threads, RenameUnlock(t), Apart(th[t], OpOf(calls[t]))
    PROVE  FreeStep(t)
  <1>2. th[t] \in Frame /\ ino \in Nodes /\ LocalOK(th[t], calls[t]) BY Ready
  <1>3. th[t].defers \in Seq(Inums) /\ th[t].defers # <<>> BY <1>2 DEF LocalOK, Frame, RenameUnlock, At, Owers
  <1>4. PICK q \in Seq(Inums) : q = th[t].defers BY <1>3
  <1>5. PICK i \in Inums : i = q[Len(q)] BY <1>3, <1>4, Shortened
  <1>6. PICK x \in Seq(Inums) : x = SubSeq(q, 1, Len(q) - 1) BY <1>3, <1>4, Shortened
  <1>7. PICK p : p = IF Len(q) = 1 THEN "refdown" ELSE "unlock" OBVIOUS
  <1>8. PICK r : r = [th[t] EXCEPT !.defers = x] OBVIOUS
  <1>9. CASE Panic BY <1>9, PanicFree
  <1>10. CASE ~Panic
    <2>3. r \in Frame /\ p \notin {"lockall", "locked"} BY <1>2, <1>7, <1>8 DEF Frame
    <2> QED BY <1>4, <1>5, <1>6, <1>7, <1>8, <1>10, <1>2, LessUnlock, <2>3, KeepGoto DEF RenameUnlock, At, Owers
  <1> QED BY <1>9, <1>10

LEMMA RefDecFree ==
    ASSUME CoreInv, LocksInv, NEW t \in Threads, RefDec(t)
    PROVE  FreeStep(t)
  <1>1. th[t].pc = "refdown" /\ th[t].refs # <<>> BY DEF RefDec, At
  <1>2. /\ th[t] \in Frame /\ ino \in Nodes /\ th[t].refs \in Seq(Inums) /\ Head(th[t].refs) \in Inums
        /\ Tail(th[t].refs) \in Seq(Inums) BY <1>1, Ready, RefFacts
  <1>3. PICK i \in Inums : i = Head(th[t].refs) BY <1>2
  <1>4. PICK q : q = IF ino[i].ref = 1 THEN th[t].refs ELSE Tail(th[t].refs) OBVIOUS
  <1>5. PICK p : p = IF ino[i].ref = 1 THEN "reflinks" ELSE "refdown" OBVIOUS
  <1>6. PICK r : r = [th[t] EXCEPT !.refs = q] OBVIOUS
  <1>7. ino' = Dec(ino, i) /\ Goto(t, r, p) BY <1>3, <1>4, <1>5, <1>6 DEF RefDec, Dec
  <1>9. r \in Frame /\ r.refs = q /\ r.dead = th[t].dead BY <1>2, <1>6, <1>4 DEF Frame
  <1>11. SameNames(ino, ino') /\ SameLinks(ino, ino') /\ \A j \in Inums : ino'[j].ref = ino[j].ref - B(j = i)
    BY <1>2, <1>7, DecFields
  <1>12. ASSUME NEW j \in Inums, Left(ino', j)
         PROVE  Owes(th'[t], j) \/ (Left(ino, j) /\ ~Owes(th[t], j))
    <2>1. Lost(ino', j) /\ 0 = ino[j].ref - B(j = i) /\ ino[j].ref \in Nat BY <1>11, <1>12, RefNat DEF Left
    <2>3. CASE j \in th[t].dead BY <1>7, <1>9, GotoFields, <2>3 DEF Owes
    <2>4. CASE j = i BY <1>3, <1>4, <1>5, <1>7, <1>9, GotoFields, <2>4, <2>1 DEF Owes, B
    <2>5. CASE j \notin th[t].dead /\ j # i BY <1>1, <1>11, <2>1, <2>5 DEF Left, Owes, Lost, SameNames, SameLinks, B
    <2> QED BY <2>3, <2>4, <2>5
  <1> QED BY <1>12, <1>5, <1>7, <1>9, GotoFields DEF FreeStep, Apart

LEMMA RefLinksFree ==
    ASSUME CoreInv, LocksInv, NEW t \in Threads, RefLinks(t), Careful(t), Apart(th[t], OpOf(calls[t]))
    PROVE  FreeStep(t)
  <1>1. th[t].pc = "reflinks" /\ ~fatal BY DEF RefLinks, At
  <1>2. CASE Panic BY <1>2, PanicFree
  <1>3. CASE ~Panic
    <2>2. th[t] \in Frame /\ ino \in Nodes /\ th[t].refs \in Seq(Inums) /\ Head(th[t].refs) \in Inums /\ Tail(th[t].refs) \in Seq(Inums)
      BY <1>1, Ready, RefFacts DEF LocalOK
    <2>3. PICK i \in Inums : i = Head(th[t].refs) BY <2>2
    <2>4. PICK b : b = (ino[i].gone \/ ino[i].links = 0) OBVIOUS
    <2>5. PICK d : d = IF ino[i].links = 0 /\ th[t].chk THEN th[t].dead \cup {i} ELSE th[t].dead OBVIOUS
    <2>6. PICK q : q = Tail(th[t].refs) OBVIOUS
    <2>7. PICK r : r = [th[t] EXCEPT !.refs = q, !.dead = d] OBVIOUS
    <2>8. ino' = SetGone(ino, i, b) /\ Goto(t, r, "refdown")
      BY <1>3, <2>3, <2>4, <2>5, <2>6, <2>7 DEF RefLinks, SetGone
    <2>10. SameNames(ino, ino') /\ SameLinks(ino, ino') /\ SameRef(ino, ino') BY <2>2, <2>8, <2>4, GoneFields
    <2>12. r \in Frame /\ r.dead = d BY <2>2, <2>7, <2>5, <2>6 DEF Frame
    <2>15. ASSUME NEW j \in Inums, Left(ino', j)
           PROVE  Owes(th'[t], j) \/ (Left(ino, j) /\ ~Owes(th[t], j))
      <3>1. Left(ino, j) BY <2>10, <2>15 DEF Left, Lost, SameNames, SameLinks, SameRef
      <3>3. CASE j \in th[t].dead \cup {i}
        BY <2>5, <2>8, <2>12, GotoFields, <1>1, <2>3, CarefulPc, <3>1, <3>3 DEF Owes, Abandons, At, Left, Lost
      <3>4. CASE j \notin th[t].dead \cup {i} BY <2>3, <3>1, <3>4 DEF Owes
      <3> QED BY <3>3, <3>4
    <2> QED BY <2>15, <2>8, <2>12, GotoFields DEF FreeStep, Apart
  <1> QED BY <1>2, <1>3

LEMMA RefDoneFree ==
    ASSUME CoreInv, LocksInv, NEW t \in Threads, RefDone(t)
    PROVE  FreeStep(t)
  <1>3. PICK s \in Nodes : s = ino BY Held0
  <1>6. th'[t].pc = "idle" /\ Freed(s, ino', th[t].dead) BY Held0, <1>3, FinishFields DEF RefDone, Frame
  <1>7. ASSUME NEW j \in Inums, Left(ino', j)
        PROVE  Left(ino, j) /\ ~Owes(th[t], j) BY <1>3, <1>6, <1>7 DEF Owes, RefDone, At, Freed, Left, Lost
  <1> QED BY <1>7, <1>6 DEF FreeStep, Apart

\* Every step that is not one of the wrong ones pays what it owes.
LEMMA StepFree ==
    ASSUME CoreInv, LocksInv, Acyclic(ino), NEW t \in Threads, Step(t), ~RenameRetry(t), Careful(t), Apart(th[t], OpOf(calls[t]))
    PROVE  FreeStep(t)
  <1>1. CASE Begin(t) \/ NameiFast(t) \/ NameiMiss(t) \/ NameiVerify(t) \/ NameiSlow(t) \/ NameiLock(t)
    BY <1>1, BeginFree, NameiFastFree, NameiMissFree, NameiVerifyFree, NameiSlowFree, NameiLockFree
  <1>2. CASE Open(t) \/ Create(t) \/ CreateOpen(t) \/ Fs_close(t) \/ Mkdir(t) \/ MkdirDots(t)
    BY <1>2, OpenFree, CreateFree, CreateOpenFree, CloseFree, MkdirFree, MkdirDotsFree
  <1>3. CASE Unlink(t) \/ LockAll(t) \/ Unlinked(t) \/ Link(t) \/ LinkInsert(t) \/ LinkUndo(t)
    BY <1>3, UnlinkFree, LockAllFree, UnlinkedFree, LinkFree, LinkInsertFree, LinkUndoFree
  <1>4. CASE RenameOld(t) \/ RenameLock(t) \/ IsAncestor(t) \/ Ancestor(t) \/ AncestorRoot(t)
    BY <1>4, RenameOldFree, RenameLockFree, IsAncestorFree, AncestorFree, AncestorRootFree
  <1>5. CASE RenameLook(t) \/ Rename(t) \/ RenameUnlock(t) \/ RefDec(t) \/ RefLinks(t) \/ RefDone(t)
    BY <1>5, RenameLookFree, RenameFree, RenameUnlockFree, RefDecFree, RefLinksFree, RefDoneFree
  <1> QED BY <1>1, <1>2, <1>3, <1>4, <1>5 DEF Step

--------------------------------------------------------------------------------
(* Every lock has a call that holds it, and every inode that has neither
   links nor references a call that frees it. *)
LEMMA LocksWalk ==
    ASSUME NEW t, Locks(t)
    PROVE  LockWalk(t)
  BY DEF Locks, Keeps, LockWalk, Walks

LEMMA MakerWalk ==
    ASSUME CoreInv, LocksInv, NEW t \in Threads, Mkdir(t) \/ MkdirDots(t)
    PROVE  LockWalk(t)
  <1>1. th[t] \in Frame BY Held0
  <1>2. CASE MkdirDots(t)
    <2>1. PICK r : DOMAIN r = DOMAIN th[t] /\ Goto(t, r, "refdown") BY <1>1, <1>2 DEF MkdirDots, GiveBack, Frame
    <2> QED BY <1>1, <2>1, <1>2, MkdirDotsLocks DEF LockWalk, Walks, Moves, Goto, CoreInv, TypeInv, Frame
  <1>3. CASE Mkdir(t) /\ Entry(ino, th[t].cur, Op(t).old.name) = Nil /\ IsDir(ino, th[t].cur) /\ CanAlloc
    <2>1. PICK r : DOMAIN r = DOMAIN th[t] /\ Goto(t, r, "child") BY <1>1, <1>3 DEF Mkdir, Frame
    <2> QED BY <1>1, <2>1, <1>3, MkdirNewLocks DEF LockWalk, Walks, Moves, Goto, CoreInv, TypeInv, Frame
  <1>4. CASE Mkdir(t) /\ (Entry(ino, th[t].cur, Op(t).old.name) # Nil \/ ~IsDir(ino, th[t].cur) \/ ~CanAlloc)
    BY <1>4, MkdirQuietLocks, LocksWalk
  <1> QED BY <1>2, <1>3, <1>4

LEMMA AncestorWalk ==
    ASSUME CoreInv, LocksInv, NEW t \in Threads, Ancestor(t)
    PROVE  LockWalk(t)
  <1>1. CASE Panic BY <1>1, PanicLocks DEF LockWalk, Walks, Panic
  <1>2. CASE ~Panic BY <1>2, AncestorLocks, LocksWalk
  <1> QED BY <1>1, <1>2

LEMMA CreateWalk ==
    ASSUME CoreInv, LocksInv, NEW t \in Threads, Create(t)
    PROVE  LockWalk(t)
  <1>1. CASE Entry(ino, th[t].cur, Op(t).old.name) = Nil /\ IsDir(ino, th[t].cur) /\ CanAlloc
    BY <1>1, CreateNewLocks, LocksWalk
  <1>2. CASE Entry(ino, th[t].cur, Op(t).old.name) # Nil \/ ~IsDir(ino, th[t].cur) \/ ~CanAlloc
    BY <1>2, CreateQuietLocks, LocksWalk
  <1> QED BY <1>1, <1>2

LEMMA StepLocks ==
    ASSUME CoreInv, LocksInv, NEW t \in Threads, Step(t), ~RenameRetry(t)
    PROVE  LockWalk(t)
  <1>1. CASE Begin(t) \/ NameiFast(t) \/ NameiMiss(t) \/ NameiVerify(t) \/ NameiSlow(t) \/ NameiLock(t)
    BY <1>1, BeginLocks, NameiFastLocks, NameiMissLocks, NameiVerifyLocks, NameiSlowLocks, NameiLockLocks, LocksWalk
  <1>2. CASE Open(t) \/ CreateOpen(t) \/ Fs_close(t) BY <1>2, OpenLocks, CreateOpenLocks, CloseLocks, LocksWalk
  <1>3. CASE Create(t) \/ Mkdir(t) \/ MkdirDots(t) BY <1>3, CreateWalk, MakerWalk
  <1>4. CASE Unlink(t) \/ LockAll(t) \/ Unlinked(t) \/ Link(t) \/ LinkInsert(t) \/ LinkUndo(t)
    BY <1>4, UnlinkLocks, LockAllLocks, UnlinkedLocks, LinkLocks, LinkInsertLocks, LinkUndoLocks, LocksWalk
  <1>5. CASE RenameOld(t) \/ RenameLock(t) \/ IsAncestor(t) \/ AncestorRoot(t)
    BY <1>5, RenameOldLocks, RenameLockLocks, IsAncestorLocks, AncestorRootLocks, LocksWalk
  <1>6. CASE Ancestor(t) BY <1>6, AncestorWalk
  <1>7. CASE RenameLook(t) \/ Rename(t) \/ RenameUnlock(t) \/ RefDec(t) \/ RefLinks(t) \/ RefDone(t)
    BY <1>7, RenameLookLocks, RenameLocks, RenameUnlockLocks, RefDecLocks, RefLinksLocks, RefDoneLocks, LocksWalk
  <1> QED BY <1>1, <1>2, <1>3, <1>4, <1>5, <1>6, <1>7 DEF Step

\* _isancestor strays only where the code panics.
LEMMA NoStray ==
    ASSUME CoreInv, LocksInv, UpKept, NEW t \in Threads, Step(t), Careful(t), Strays(t)
    PROVE  Panic
  <1>1. th[t].pc = "up" /\ ~fatal /\ th[t] \in Frame BY Held0 DEF Strays, At
  <1>3. CASE IsAncestor(t)
    <2>1. PICK r : DOMAIN r = DOMAIN th[t] /\ Goto(t, r, "refdown") BY <1>1, <1>3 DEF IsAncestor, GiveBack, Frame
    <2> QED BY <1>1, <2>1 DEF Goto, CoreInv, TypeInv, Frame, Careful
  <1>4. CASE AncestorRoot(t) BY <1>1, <1>4, GotoFields DEF AncestorRoot, Careful
  <1>5. CASE Ancestor(t)
    <2>2. PICK d : d = ino[th[t].cur].dotdot OBVIOUS
    <2>4. SUFFICES ASSUME ~Panic PROVE FALSE OBVIOUS
    <2>7. PICK r : r = [th[t] EXCEPT !.cur = d] OBVIOUS
    <2>10. r \in Frame /\ r.cur = d BY <1>1, <2>2, UpLocal, <2>7 DEF Frame, Nodes, Node
    <2>8. th'[t].cur = d BY <1>5, <2>2, <2>4, <2>7, <2>10, GotoFields DEF Ancestor, Strays
    <2> QED BY <1>1, <1>5, <2>2, <2>8 DEF UpKept, Careful, Strays, Ancestor
  <1>7. ~(Open(t) \/ Create(t) \/ CreateOpen(t) \/ Fs_close(t) \/ Mkdir(t) \/ MkdirDots(t))
    BY <1>1 DEF Open, Create, CreateOpen, Fs_close, Mkdir, MkdirDots, AtOp, At
  <1>8. ~(Unlink(t) \/ LockAll(t) \/ Unlinked(t) \/ Link(t) \/ LinkInsert(t) \/ LinkUndo(t))
    BY <1>1 DEF Unlink, LockAll, Unlinked, Link, LinkInsert, LinkUndo, AtOp, At
  <1>9. ~(RenameOld(t) \/ RenameLock(t) \/ RenameLook(t) \/ Rename(t) \/ RenameRetry(t))
    BY <1>1 DEF RenameOld, RenameLock, RenameLook, Rename, RenameRetry, AtOp, At
  <1>10. ~(RenameUnlock(t) \/ RefDec(t) \/ RefLinks(t) \/ RefDone(t))
    BY <1>1 DEF RenameUnlock, RefDec, RefLinks, RefDone, AtOp, At
  <1> QED
    BY <1>3, <1>4, <1>5, <1>1, <1>7, <1>8, <1>9, <1>10 DEF Step, Begin, NameiFast, NameiMiss, NameiVerify,
       NameiSlow, NameiLock, At

LEMMA LocksKnownKept ==
    ASSUME CoreInv, LocksInv, LocksKnown, NEW t \in Threads, Others(t), LockStep(t), ~Strays(t)
    PROVE  LocksKnown'
  <1>1. PICK U, L \in SUBSET Inums : LockEffect(t, U, L) BY DEF LockStep
  <1>3. ASSUME NEW i \in Inums, ino'[i].lock # NoThread
        PROVE  ino'[i].lock \in Threads /\ i \in HoldUp(th'[ino'[i].lock], OpOf(calls'[ino'[i].lock]))
    <2>1. ino'[i].lock = IF i \in U THEN NoThread ELSE IF i \in L THEN t ELSE ino[i].lock
      BY <1>1 DEF LockMap, LockEffect
    <2>2. i \notin U BY <1>3, <2>1
    <2>3. CASE i \in L BY <1>1, <2>1, <2>2, <2>3 DEF LockEffect
    <2>4. CASE i \notin L
      <3>1. PICK u : u = ino[i].lock OBVIOUS
      <3>4. i \in HoldUp(th'[u], OpOf(calls'[u]))
        <4>1. CASE u = t BY <1>1, <2>2, <3>1, <1>3, <2>1, <2>4, <4>1 DEF LockEffect, LocksKnown
        <4>2. CASE u # t BY <3>1, <1>3, <2>1, <2>2, <2>4, <4>2 DEF Others, LocksKnown
        <4> QED BY <4>1, <4>2
      <3> QED BY <1>3, <2>1, <2>2, <2>4, <3>1, <3>4 DEF LocksKnown
    <2> QED BY <2>3, <2>4
  <1> QED BY <1>3 DEF LocksKnown

\* Nobody is at an inode that is gone on the way up.
LEMMA UpKeptKept ==
    ASSUME CoreInv, LocksInv, UpKept, NEW t \in Threads, CoreStep(t), Walks(t), Careful(t), ~fatal
    PROVE  UpKept'
  <1>1. ASSUME NEW u \in Threads, th'[u].pc = "up", ino'[th'[u].cur].gone
        PROVE  FALSE
    <2>1. PICK r \in Frame : r = th'[u] BY <1>1 DEF CoreStep, TypeStep, TypeInv
    <2>2. LocalOK(r, calls'[u])
      <3>1. CASE u = t BY <2>1, <3>1 DEF CoreStep, OwnStep
      <3>2. CASE u # t BY <2>1, <3>2, Ready DEF CoreStep, TypeStep, Others
      <3> QED BY <3>1, <3>2
    <2>4. PICK i \in Inums : i = r.cur BY <1>1, <2>1, <2>2 DEF LocalOK, Frame, Inos
    <2>5. PICK op : op = OpOf(calls'[u]) OBVIOUS
    <2>9. ino'[i].ref \in Int BY DEF CoreStep, TypeStep, TypeInv, Nodes, Node
    <2>12. ino[i].gone
      BY <2>2, HeldRename, <2>5, HeldAfter, <2>9, <1>1, <2>1, <2>4 DEF CoreStep, TreeStep, Evolves, B, T3
    <2>13. CASE th'[u] = th[u] BY <1>1, <2>1, <2>4, <2>12, <2>13 DEF UpKept
    <2>14. CASE u # t BY <2>13, <2>14 DEF CoreStep, TypeStep, Others
    <2>15. CASE u = t /\ th'[t] # th[t]
      <3>7. th[t].pc = "up" /\ th[t].cur \notin {th[t].ochild, iroot} /\ r.cur = ino[th[t].cur].dotdot
        BY <1>1, <2>1, <2>4, <2>15, HeldRename, <2>5, <2>12, <2>2 DEF WalkOn, Walks, B, CoreStep, OwnStep, T3,
           Moves, LocalOK
      <3> QED BY <2>15, <2>4, <2>12, <3>7, RootIno DEF Careful, Strays, At
    <2> QED BY <2>13, <2>14, <2>15
  <1> QED BY <1>1 DEF UpKept

LEMMA OwedKept ==
    ASSUME AllOwed, AllApart, NEW t \in Threads, Others(t), FreeStep(t)
    PROVE  AllOwed' /\ AllApart'
  <1>1. ASSUME NEW i \in Inums, Left(ino', i)
        PROVE  \E u \in Threads : Owes(th'[u], i)
    <2>1. CASE Owes(th'[t], i) BY <2>1
    <2>2. CASE Left(ino, i) /\ ~Owes(th[t], i)
      <3>1. PICK u \in Threads : Owes(th[u], i) BY <2>2 DEF AllOwed
      <3> QED BY <3>1, <2>2 DEF Others
    <2> QED BY <1>1, <2>1, <2>2 DEF FreeStep
  <1>2. ASSUME NEW u \in Threads
        PROVE  Apart(th'[u], OpOf(calls'[u]))
    <2>1. CASE u = t BY <2>1 DEF FreeStep
    <2>2. CASE u # t BY <2>2 DEF Others, AllApart
    <2> QED BY <2>1, <2>2
  <1> QED BY <1>1, <1>2 DEF AllOwed, Left, Lost, AllApart

\* A panic stops every call.
LEMMA StepAlive ==
    ASSUME NEW t \in Threads, Step(t)
    PROVE  ~fatal
  <1>1. CASE Begin(t) \/ NameiFast(t) \/ NameiMiss(t) \/ NameiVerify(t) \/ NameiSlow(t) \/ NameiLock(t)
    BY <1>1 DEF Begin, NameiFast, NameiMiss, NameiVerify, NameiSlow, NameiLock, At
  <1>2. CASE Open(t) \/ Create(t) \/ CreateOpen(t) \/ Fs_close(t) \/ Mkdir(t) \/ MkdirDots(t)
    BY <1>2 DEF Open, Create, CreateOpen, Fs_close, Mkdir, MkdirDots, AtOp, At
  <1>3. CASE Unlink(t) \/ LockAll(t) \/ Unlinked(t) \/ Link(t) \/ LinkInsert(t) \/ LinkUndo(t)
    BY <1>3 DEF Unlink, LockAll, Unlinked, Link, LinkInsert, LinkUndo, AtOp, At
  <1>4. CASE RenameOld(t) \/ RenameLock(t) \/ IsAncestor(t) \/ Ancestor(t) \/ AncestorRoot(t)
    BY <1>4 DEF RenameOld, RenameLock, IsAncestor, Ancestor, AncestorRoot, AtOp, At
  <1>5. CASE RenameLook(t) \/ Rename(t) \/ RenameRetry(t) \/ RenameUnlock(t)
    BY <1>5 DEF RenameLook, Rename, RenameRetry, RenameUnlock, AtOp, At
  <1>6. CASE RefDec(t) \/ RefLinks(t) \/ RefDone(t) BY <1>6 DEF RefDec, RefLinks, RefDone, At
  <1> QED BY <1>1, <1>2, <1>3, <1>4, <1>5, <1>6 DEF Step

\* A rename that has _renamelock goes on as a rename, or gives it back.
LEMMA RlockGoes ==
    ASSUME CoreInv, LocksInv, RlockKnown, NEW t \in Threads, Step(t), ~RenameRetry(t), rlock' = t
    PROVE  th'[t].pc \in Renaming /\ OpOf(calls'[t]) = "rename"
  <1>1. th[t] \in Frame /\ th[t].next = "idle" /\ Op(t).op = OpOf(calls[t]) BY Held0, Ready
  <1>2. t # NoThread BY NamesAssumption
  <1>3. CASE UNCHANGED <<th, rlock, calls>> BY <1>2, <1>3 DEF RlockKnown
  <1>4. SUFFICES ASSUME ~UNCHANGED <<th, rlock, calls>>
                 PROVE  \E r, p : DOMAIN r = DOMAIN th[t] /\ Goto(t, r, p) /\ p \in Renaming /\ calls' = calls /\ OpOf(calls[t]) = "rename"
    <2>0. SUFFICES ASSUME ~UNCHANGED <<th, rlock, calls>>
                   PROVE  th'[t].pc \in Renaming /\ OpOf(calls'[t]) = "rename" BY <1>3
    <2>1. PICK r, p : DOMAIN r = DOMAIN th[t] /\ Goto(t, r, p) /\ p \in Renaming /\ calls' = calls /\ OpOf(calls[t]) = "rename"
      BY <1>4, <2>0
    <2> QED BY <2>1, <1>1 DEF Goto, CoreInv, TypeInv, Frame
  <1>5. CASE RenameLock(t) BY <1>1, <1>5 DEF RenameLock, AtOp, Renaming, Frame
  <1>6. CASE ~RenameLock(t)
    <2>1. RlockStep(t) BY StepRlock
    <2>2. rlock = t
      <3>1. CASE \/ Begin(t) \/ NameiFast(t) \/ NameiMiss(t) \/ NameiVerify(t) \/ NameiLock(t) \/ LockAll(t)
                 \/ AncestorRoot(t) \/ RenameLook(t) \/ Rename(t) \/ RefDec(t)
        BY <3>1 DEF Begin, NameiFast, NameiMiss, NameiVerify, NameiLock, LockAll, AncestorRoot, RenameLook, Rename, RefDec
      <3>2. CASE NameiSlow(t) BY <3>2 DEF NameiSlow, NameiFailed, Return
      <3>3. CASE Open(t) \/ Create(t) \/ CreateOpen(t) \/ Fs_close(t)
        BY <3>3 DEF Open, Opened, Create, CreateOpen, Fs_close, Return
      <3>4. CASE Mkdir(t) \/ MkdirDots(t) \/ Unlink(t) \/ Unlinked(t)
        BY <3>4 DEF Mkdir, MkdirDots, Unlink, Unlinked, GiveBack, Return
      <3>5. CASE Link(t) \/ LinkInsert(t) \/ LinkUndo(t)
        BY <3>5 DEF Link, LinkInsert, LinkUndo, GiveBack, Return, Panic
      <3>6. CASE RenameOld(t) \/ IsAncestor(t) BY <3>6 DEF RenameOld, IsAncestor, GiveBack, Return
      <3>7. CASE Ancestor(t) BY <3>7 DEF Ancestor, GiveBack, Panic
      <3>8. CASE RenameUnlock(t) \/ RefLinks(t) \/ RefDone(t) BY <1>2, <3>8 DEF RenameUnlock, RefLinks, RefDone, Panic
      <3> QED BY <1>6, <3>1, <3>2, <3>3, <3>4, <3>5, <3>6, <3>7, <3>8 DEF Step
    <2>3. th[t].pc \in Renaming /\ OpOf(calls[t]) = "rename" /\ Op(t).op = "rename" BY <1>1, <1>2, <2>2 DEF RlockKnown
    <2>4. CASE IsAncestor(t) BY <1>1, <2>3, <2>4 DEF IsAncestor, GiveBack, Renaming, Frame
    <2>5. CASE Ancestor(t) BY <1>1, <1>4, <2>3, <2>5 DEF Ancestor, GiveBack, Panic, Renaming, Frame
    <2>6. CASE AncestorRoot(t) BY <1>1, <2>3, <2>6 DEF AncestorRoot, Renaming
    <2>7. CASE RenameLook(t) BY <1>1, <2>3, <2>7 DEF RenameLook, Renaming, Frame
    <2>8. CASE LockAll(t) BY <1>1, <2>3, <2>8 DEF LockAll, Renaming, Frame
    <2>9. CASE Rename(t) BY <1>1, <2>3, <2>9 DEF Rename, Renaming, Frame
    <2>10. CASE RenameUnlock(t) BY <1>1, <1>4, <2>3, <2>10 DEF RenameUnlock, Panic, Renaming, Frame
    <2>11. CASE RefDec(t) BY <1>1, <2>3, <2>11 DEF RefDec, Renaming, Frame
    <2>12. CASE RefLinks(t) BY <1>1, <1>4, <2>3, <2>12 DEF RefLinks, Panic, Renaming, Frame
    <2>13. CASE RefDone(t) BY <1>1, <1>2, <2>2, <2>13 DEF RefDone
    <2>15. ~(Begin(t) \/ NameiFast(t) \/ NameiMiss(t) \/ NameiVerify(t) \/ NameiSlow(t) \/ NameiLock(t))
      BY <2>3 DEF Begin, NameiFast, NameiMiss, NameiVerify, NameiSlow, NameiLock, At, Renaming
    <2>16. ~(Open(t) \/ Create(t) \/ CreateOpen(t) \/ Fs_close(t) \/ Mkdir(t) \/ MkdirDots(t))
      BY <2>3 DEF Open, Create, CreateOpen, Fs_close, Mkdir, MkdirDots, AtOp, At, Renaming
    <2>17. ~(Unlink(t) \/ Unlinked(t) \/ Link(t) \/ LinkInsert(t) \/ LinkUndo(t) \/ RenameOld(t))
      BY <2>3 DEF Unlink, Unlinked, Link, LinkInsert, LinkUndo, RenameOld, AtOp, At, Renaming
    <2> QED BY <1>6, <2>4, <2>5, <2>6, <2>7, <2>8, <2>9, <2>10, <2>11, <2>12, <2>13, <2>15, <2>16, <2>17 DEF Step
  <1> QED BY <1>5, <1>6

LEMMA RlockKept ==
    ASSUME CoreInv, LocksInv, RlockKnown, NEW t \in Threads, Others(t), Step(t), ~RenameRetry(t)
    PROVE  RlockKnown'
  <1>2. SUFFICES ASSUME rlock' # NoThread
                 PROVE  rlock' \in Threads /\ th'[rlock'].pc \in Renaming /\ OpOf(calls'[rlock']) = "rename"
    BY DEF RlockKnown
  <1>3. CASE rlock' = t BY <1>3, RlockGoes
  <1>4. CASE rlock' # t BY StepRlock, <1>2, <1>4 DEF Others, RlockStep, RlockKnown
  <1> QED BY <1>3, <1>4

LEMMA FreeNext ==
    ASSUME CoreInv, TreeInv, FreeInv, [Next]_vars, [NoOrphans /\ NoStrays]_vars
    PROVE  FreeInv'
  <1>1. CASE UNCHANGED vars BY <1>1 DEF FreeInv, LocksKnown, RlockKnown, UpKept, AllApart, AllOwed, Left, Lost, vars
  <1>2. CASE Next /\ NoOrphans /\ NoStrays
    <2>1. PICK t \in Threads : Step(t) BY <1>2 DEF Next
    <2>2. ~RenameRetry(t) BY <1>2, RetryGoes DEF NoOrphans, Retries, RenameRetry
    <2>3. Careful(t) BY <1>2 DEF NoStrays, Careful
    <2>4. LocksInv /\ Acyclic(ino) /\ LocksKnown /\ RlockKnown /\ UpKept /\ AllApart /\ AllOwed /\ ~fatal
      BY <2>1, StepAlive DEF TreeInv, FreeInv
    <2>6. Others(t) BY <2>1, StepCounts DEF CoreStep, TypeStep, Counts
    <2>7. LockStep(t) /\ Walks(t) BY <2>1, <2>2, <2>4, StepLocks DEF LockWalk
    <2>12. LocksKnown'
      <3>1. CASE Strays(t) BY <2>4, <2>1, <2>3, <3>1, NoStray DEF Panic, LocksKnown
      <3>2. CASE ~Strays(t) BY <2>4, <2>6, <2>7, <3>2, LocksKnownKept
      <3> QED BY <3>1, <3>2
    <2> QED
      BY <2>3, StepFree, OwedKept, <2>1, <2>2, <2>4, <2>6, RlockKept, StepCounts, <2>7, UpKeptKept, <2>12 DEF
         FreeInv, AllApart, Counts
  <1> QED BY <1>1, <1>2

LEMMA InitFree ==
    ASSUME Init
    PROVE  FreeInv
  <1>3. ASSUME NEW i \in Inums
        PROVE  ino[i].lock = NoThread /\ ~Left(ino, i)
    <2>1. CASE i \in DOMAIN Tree BY <2>1, NamesAssumption, InitNode DEF Left, Lost, Mounted
    <2>2. CASE i \notin DOMAIN Tree BY <2>2, InitNode DEF Left, Lost
    <2> QED BY <2>1, <2>2
  <1> QED BY <1>3, InitFrame DEF FreeInv, LocksKnown, AllOwed, RlockKnown, UpKept, AllApart, Apart, Idle, Init

LEMMA UnusedFreed ==
    ASSUME CoreInv, TreeInv, FreeInv
    PROVE  FreedWhenUnused
  <1>1. LocksInv /\ LocksKnown /\ RlockKnown /\ UpKept /\ AllOwed /\ ino \in Nodes
    BY DEF TreeInv, FreeInv, CoreInv, TypeInv
  <1>2. ASSUME NEW i \in Inums, ino[i].gone
        PROVE  /\ ino[i].lock = NoThread /\ NamesOf(i) = {}
               /\ \A t \in Threads : HeldOn(t, i) = {}
    <2>2. ASSUME NEW t \in Threads
          PROVE  HeldOn(t, i) = {} /\ N(th[t], OpOf(calls[t]), i) = 0 BY <1>2, <1>1, KeptCore DEF UpKept
    <2>3. ino[i].lock = NoThread
      <3>1. SUFFICES ASSUME ino[i].lock # NoThread PROVE FALSE OBVIOUS
      <3>2. PICK u : u = ino[i].lock OBVIOUS
      <3>4. CASE th[u].pc = "up" /\ th[u].cur = th[u].npar
        BY <1>1, <1>2, <3>1, <3>2, <3>4 DEF HoldUp, UpKept, LocksKnown
      <3>5. CASE i \in Hold(th[u], OpOf(calls[u])) BY <2>2, <3>1, <3>2, <1>1, <3>5, HoldLive DEF LocksKnown
      <3> QED BY <1>1, <3>1, <3>2, <3>4, <3>5 DEF HoldUp, LocksKnown
    <2> QED BY <1>2, KeptCore, <2>2, <2>3
  <1>3. ASSUME \A t \in Threads : Done(t)
        PROVE  /\ rlock = NoThread
               /\ \A i \in Inums : /\ ino[i].lock = NoThread
                                   /\ i \in Live /\ ino[i].links = 0 => ino[i].ref > 0
    <2>1. ASSUME NEW t \in Threads
          PROVE  th[t].pc = "idle" /\ HoldUp(th[t], OpOf(calls[t])) = {} /\ th[t].dead = {}
      BY <1>3, <1>1, Held0 DEF Locked3, Makes, Done
    <2>3. ASSUME NEW i \in Inums
          PROVE  ino[i].lock = NoThread /\ (i \in Live /\ ino[i].links = 0 => ino[i].ref > 0)
      BY <1>1, <2>1, RefNat DEF Left, Lost, AllOwed, Owes, LocksKnown, Live, LiveIn
    <2> QED BY <1>1, <2>1, <2>3 DEF RlockKnown, Renaming
  <1> QED BY <1>2, <1>3 DEF FreedWhenUnused

\* An inode is freed when it has neither names nor references, and never
\* before, whatever calls run concurrently, as long as the steps that the code
\* gets wrong are not taken: a rename that gives its locks up to try again
\* (fs.go:448), an entry in a removed directory (fs.go:364, inode.go:841), a walk
\* of _isancestor to an inode that is gone or away from a lock (fs.go:565, 575),
\* and a last reference that is given back by a caller who does not look whether
\* it was the last one.  Nobody meets a freed inode, and once all calls have
\* returned nothing is locked and no inode without links is left that is not open.
THEOREM UnusedAreFreed == Spec /\ [][NoOrphans /\ NoStrays]_vars => []FreedWhenUnused
  <1>1. Init => TreeInv /\ FreeInv BY InitTree, InitFree
  <1>2. CoreInv /\ TreeInv /\ FreeInv /\ [Next]_vars /\ [NoOrphans /\ NoStrays]_vars => TreeInv' /\ FreeInv'
    BY TreeNext, FreeNext
  <1>3. CoreInv /\ TreeInv /\ FreeInv => FreedWhenUnused BY UnusedFreed
  <1> QED BY <1>1, <1>2, <1>3, CoreSafe, PTL DEF Spec
================================================================================
