----------------------------- MODULE CacheProofs -----------------------------
(***************************************************************************)
(* Proofs about the object cache: its type invariant, and an inductive     *)
(* invariant from which its safety properties follow, for any number of    *)
(* users, blocks and pages.                                                *)
(*                                                                         *)
(* The two features that do not go together in the code are kept apart as  *)
(* in the runs: blocks are marked with Tryevict or mapped, but not both.   *)
(* Pages have one owner unless a removal deletes another block than the    *)
(* one it was called for.                                                  *)
(***************************************************************************)
EXTENDS Cache, FiniteSetTheorems, TLAPS

(***************************************************************************)
(* The inductive invariant.                                                *)
(***************************************************************************)
Made == 1 .. nobj

\* Where a thread is in a lookup, has a reference, is in _remove; and where it
\* has a block of its own.
LooksAt(q)   == q \in {"get", "load", "cas", "mkobj"}
HoldsAt(q)   == q \in {"fill", "lock", "hold", "unpin"}
RemovesAt(q) == q \in {"rget", "rload", "rcas", "del", "evictdone"}
HasBlock(q)  == HoldsAt(q) \/ RemovesAt(q) \/ q \in {"relsed", "delpin"}

\* Every lookup makes at most one object.
Lookers == {t \in Threads : LooksAt(pc[t])}
GetsInv == nobj + Cardinality(Lookers) <= ngets /\ ngets <= MaxGets

\* An object that is not marked for removal is the one that lookups find.
ObjsInv ==
    /\ \A o \in Objs : o > nobj => obj[o] = NullObj
    /\ \A o \in Made : obj[o].key \in Keys
    /\ \A o \in Made : ~obj[o].remove => table[obj[o].key] = o
    /\ \A k \in Keys : table[k] # None => table[k] \in Made /\ obj[table[k]].key = k

\* Thread t at place q with locals l.
ThreadOK(t, q, l) ==
    /\ t = Evictor => RemovesAt(q) \/ q \in {"idle", "elems", "visit"}
    /\ t # Evictor => q \notin {"elems", "visit"}
    /\ LooksAt(q) => l.key \in Keys
    /\ q \in {"load", "cas"} => l.e \in Made
    /\ HasBlock(q) => l.b \in Made
    /\ RemovesAt(q) => l.key = obj[l.b].key
    /\ q \in {"rload", "rcas", "del"} => l.e \in Made /\ obj[l.e].key = l.key
    /\ q \in {"unpin", "unpinned"} => l.pa \in Pages
    /\ q = "fill" => obj[l.b].page = None
    /\ (HasBlock(q) /\ q \notin {"fill", "lock"} /\ t # Evictor) \/ q \in {"del", "evictdone"} =>
          obj[l.b].page # None
    /\ q = "del" => obj[l.e].remove /\ table[obj[l.e].key] = l.e

ThreadsInv == \A t \in All : ThreadOK(t, pc[t], loc[t])

\* One thread fills a block, and one deletes it.
Unique ==
    /\ \A t, u \in All : pc[t] = "fill" /\ pc[u] = "fill" /\ loc[t].b = loc[u].b => t = u
    /\ \A t, u \in All : pc[t] = "del" /\ pc[u] = "del" /\ loc[t].e = loc[u].e => t = u

\* A block without a page is locked by the thread that fills it, one that is
\* marked for removal and still in the table has a thread that will delete it,
\* and the evictor's snapshot has objects that have been made.
Pending ==
    /\ \A o \in Made : obj[o].page = None =>
          obj[o].locked /\ \E t \in Threads : pc[t] = "fill" /\ loc[t].b = o
    /\ \A o \in Made : obj[o].remove /\ table[obj[o].key] = o =>
          \E t \in All : pc[t] = "del" /\ loc[t].e = o
    /\ ev.objs \subseteq Made

CoreInv ==
    /\ TypeOK /\ GetsInv /\ ObjsInv /\ ThreadsInv /\ Unique /\ Pending /\ RefsCounted
    /\ ~Maps => \A p \in Pages : maps[p] = 0

(***************************************************************************)
(* Without Tryevict only the evictor removes blocks, and pages are counted.*)
(***************************************************************************)
EvictOK(t, q, l) ==
    /\ t # Evictor => /\ ~RemovesAt(q) /\ q # "delpin"
                      /\ l.pa # None <=> mutex = t
                      /\ mutex = t => q \in {"unpin", "relsed", "unpinned"}
                      /\ q \in {"unpin", "unpinned"} => mutex = t
    /\ t = Evictor => /\ RemovesAt(q) => l.b \notin ev.objs
                      /\ q \in {"rget", "rload", "rcas"} => ~obj[l.b].remove
                      /\ q \in {"rload", "rcas", "del"} => l.e = l.b
                      /\ q = "evictdone" => table[obj[l.b].key] # l.b /\ obj[l.b].remove

SnapInv ==
    /\ \A o \in Objs : ~obj[o].tryevict
    /\ \A o \in ev.objs : o \in Made /\ ~obj[o].remove
    /\ \A t \in All : EvictOK(t, pc[t], loc[t])

\* Object o has page p, in the cache or until EvictDone lets go of it.
Owns(o, p) ==
    /\ obj[o].page = p
    /\ table[obj[o].key] = o \/ (pc[Evictor] = "evictdone" /\ loc[Evictor].b = o)

\* The references to a page: of its block, of its mappings, of a thread that
\* is taking down a mapping.
PageInv ==
    /\ \A o1, o2 \in Made : \A p \in Pages : Owns(o1, p) /\ Owns(o2, p) => o1 = o2
    /\ \A p \in Pages :
         pages[p] = (IF \E o \in Made : Owns(o, p) THEN 1 ELSE 0) + maps[p]
                      + (IF \E t \in Threads : loc[t].pa = p THEN 1 ELSE 0)

EvictInv == SnapInv /\ PageInv /\ MappedCached

IInv == CoreInv /\ (~TryEvicts => EvictInv)

(***************************************************************************)
(* Counting threads, and the types of records.                             *)
(***************************************************************************)
\* Sets of threads are finite.
LEMMA CountType == ASSUME NEW S \in SUBSET Threads PROVE IsFiniteSet(S) /\ Cardinality(S) \in Nat
BY CacheAssumption, FS_Subset, FS_CardinalityType

\* One more thread.
LEMMA CountUp ==
    ASSUME NEW S \in SUBSET Threads, NEW t \in Threads, t \notin S
    PROVE  Cardinality(S \cup {t}) = Cardinality(S) + 1
BY CountType, FS_AddElement

\* One thread less.
LEMMA CountDown ==
    ASSUME NEW S \in SUBSET Threads, NEW t \in S
    PROVE  Cardinality(S \ {t}) = Cardinality(S) - 1 /\ Cardinality(S) >= 1
<1>1. IsFiniteSet(S) /\ IsFiniteSet(S \ {t}) BY CountType
<1>2. Cardinality(S \ {t}) = Cardinality(S) - 1 /\ Cardinality(S) \in Nat /\ Cardinality(S \ {t}) \in Nat
  BY <1>1, FS_RemoveElement, FS_CardinalityType
<1> QED BY <1>2

\* The locals of a thread and their updates.
LEMMA LocType ==
    /\ NullLoc \in LocRecs
    /\ NullLoc.pa = None
    /\ \A l \in LocRecs :
         /\ l.key \in Keys \cup {None} /\ l.e \in Objs \cup {None} /\ l.cnt \in Nat
         /\ l.b \in Objs \cup {None} /\ l.pa \in Pages \cup {None}
         /\ \A k \in Keys \cup {None} : [l EXCEPT !.key = k] \in LocRecs
         /\ \A e \in Objs \cup {None} : [l EXCEPT !.e = e] \in LocRecs /\ [l EXCEPT !.b = e] \in LocRecs
         /\ \A n \in Nat : [l EXCEPT !.cnt = n] \in LocRecs
         /\ \A p \in Pages \cup {None} : [l EXCEPT !.pa = p] \in LocRecs
BY DEF LocRecs, NullLoc

\* The objects and their updates.
LEMMA ObjType ==
    /\ NullObj \in ObjRecs
    /\ \A r \in ObjRecs :
         /\ r.key \in Keys \cup {None} /\ r.refcnt \in Nat /\ r.page \in Pages \cup {None}
         /\ r.remove \in BOOLEAN /\ r.tryevict \in BOOLEAN /\ r.locked \in BOOLEAN
         /\ \A n \in Nat : [r EXCEPT !.refcnt = n] \in ObjRecs
         /\ [r EXCEPT !.remove = TRUE] \in ObjRecs /\ [r EXCEPT !.tryevict = TRUE] \in ObjRecs
         /\ \A p \in Pages : [r EXCEPT !.page = p, !.locked = FALSE] \in ObjRecs
    /\ \A k \in Keys : [NullObj EXCEPT !.key = k, !.refcnt = 1, !.locked = TRUE] \in ObjRecs
BY DEF ObjRecs, NullObj

\* The fields of an object of a well-typed state.
LEMMA ObjFields ==
    ASSUME TypeOK, NEW o \in Objs
    PROVE  /\ obj[o] \in ObjRecs /\ obj[o].refcnt \in Nat /\ obj[o].refcnt + 1 \in Nat
           /\ obj[o].key \in Keys \cup {None} /\ obj[o].page \in Pages \cup {None}
           /\ obj[o].remove \in BOOLEAN /\ obj[o].tryevict \in BOOLEAN
<1>1. obj[o] \in ObjRecs BY DEF TypeOK
<1> QED BY <1>1 DEF ObjRecs

\* A thread in a lookup has room for its object.
LEMMA LookSlot ==
    ASSUME TypeOK, GetsInv, NEW t \in Threads, LooksAt(pc[t])
    PROVE  nobj + 1 \in Objs
<1>1. Lookers \in SUBSET Threads /\ t \in Lookers BY DEF Lookers
<1>2. Cardinality(Lookers) >= 1 /\ Cardinality(Lookers) \in Nat
  BY <1>1, CountDown, CountType
<1> QED BY <1>2, CacheAssumption DEF GetsInv, Objs, TypeOK

\* The objects made are objects.
LEMMA MadeObjs == TypeOK /\ GetsInv => Made \subseteq Objs
<1> SUFFICES ASSUME TypeOK, GetsInv PROVE Made \subseteq Objs
  OBVIOUS
<1>1. Cardinality(Lookers) \in Nat BY CountType DEF Lookers
<1> QED BY <1>1, CacheAssumption DEF GetsInv, Made, Objs, TypeOK

(***************************************************************************)
(* The initial state.                                                      *)
(***************************************************************************)
\* The empty cache.
LEMMA InitInv == Init => IInv
<1> SUFFICES ASSUME Init PROVE IInv
  OBVIOUS
<1>1. TypeOK BY CacheAssumption, LocType, ObjType DEF Init, TypeOK, Places, Objs, All
<1>2. GetsInv
  <2>1. Lookers = {} BY DEF Init, Lookers, LooksAt, All
  <2> QED BY <2>1, FS_EmptySet, CacheAssumption DEF Init, GetsInv
<1>3. ObjsInv BY CacheAssumption DEF Init, ObjsInv, Made, Objs
<1>4. ThreadsInv
  BY CacheAssumption DEF Init, ThreadsInv, ThreadOK, LooksAt, HasBlock, RemovesAt, HoldsAt, All
<1>5. Unique /\ Pending BY DEF Init, Unique, Pending, All, Made, Objs
<1>6. RefsCounted
  <2> SUFFICES ASSUME NEW o \in Objs PROVE obj[o].refcnt = Cardinality(Holders(o)) + Mapped(o) /\ ~obj[o].remove
    BY DEF RefsCounted
  <2>1. Holders(o) = {} BY DEF Init, Holders, Holds, All
  <2>2. Mapped(o) = 0 /\ obj[o].refcnt = 0 /\ ~obj[o].remove BY DEF Init, Mapped, NullObj
  <2> QED BY <2>1, <2>2, FS_EmptySet
<1>7. SnapInv /\ PageInv /\ MappedCached
  BY CacheAssumption DEF Init, SnapInv, EvictOK, PageInv, MappedCached, Owns, Made, RemovesAt, NullObj, NullLoc, All, Objs
<1>8. \A p \in Pages : maps[p] = 0 BY DEF Init
<1> QED BY <1>1, <1>2, <1>3, <1>4, <1>5, <1>6, <1>7, <1>8 DEF IInv, CoreInv, EvictInv

(***************************************************************************)
(* Steps that change the place and the locals of one thread only.          *)
(***************************************************************************)
Moved(t, q, l) ==
    /\ pc' = [pc EXCEPT ![t] = q] /\ loc' = [loc EXCEPT ![t] = l]
    /\ UNCHANGED <<table, obj, nobj, ngets, nevicts, pages, pins, maps, mutex, ev, data>>

\* The part of the invariant that is not about pages.
LEMMA CoreMove ==
    ASSUME IInv, NEW t \in All, NEW q \in Places, NEW l \in LocRecs, TypeOK',
           pc' = [pc EXCEPT ![t] = q], loc' = [loc EXCEPT ![t] = l],
           UNCHANGED <<table, obj, nobj, ngets, maps>>, ev'.objs \subseteq Made,
           q \notin {"fill", "del"}, pc[t] \notin {"fill", "del"},
           HoldsAt(q) <=> HoldsAt(pc[t]), HoldsAt(q) => l.b = loc[t].b,
           LooksAt(q) => LooksAt(pc[t]), ThreadOK(t, q, l)
    PROVE  /\ CoreInv'
           /\ pc'[t] = q /\ loc'[t] = l
           /\ \A u \in All : u # t => pc'[u] = pc[u] /\ loc'[u] = loc[u]
<1>0. /\ TypeOK /\ GetsInv /\ ObjsInv /\ ThreadsInv /\ Unique /\ Pending /\ RefsCounted
      /\ ~Maps => \A p \in Pages : maps[p] = 0
  BY DEF IInv, CoreInv
<1>1. /\ pc'[t] = q /\ loc'[t] = l
      /\ \A u \in All : u # t => pc'[u] = pc[u] /\ loc'[u] = loc[u]
      /\ UNCHANGED <<table, obj, nobj, ngets, maps>>
  BY <1>0 DEF TypeOK
<1>3. GetsInv'
  <2>1. Lookers' \subseteq Lookers BY <1>1 DEF Lookers, All
  <2>2. Cardinality(Lookers') <= Cardinality(Lookers) /\ Cardinality(Lookers') \in Nat /\ Cardinality(Lookers) \in Nat
    BY <2>1, CountType, FS_Subset DEF Lookers
  <2> QED BY <1>0, <1>1, <2>2 DEF GetsInv, TypeOK
<1>4. ObjsInv' BY <1>0, <1>1 DEF ObjsInv, Made
<1>5. ThreadsInv' BY <1>0, <1>1 DEF ThreadsInv, ThreadOK, Made
<1>6. Unique' /\ Pending' BY <1>0, <1>1 DEF Unique, Pending, Made, All
<1>7. RefsCounted'
  <2>1. \A o : Holders(o)' = Holders(o) BY <1>1 DEF Holders, Holds, HoldsAt, All
  <2>2. \A o : Mapped(o)' = Mapped(o) BY <1>1 DEF Mapped
  <2> QED BY <1>0, <1>1, <2>1, <2>2 DEF RefsCounted
<1> QED BY <1>0, <1>1, <1>3, <1>4, <1>5, <1>6, <1>7 DEF CoreInv

\* The whole invariant, for a move that neither fills, deletes nor frees.
LEMMA MoveStep ==
    ASSUME IInv, NEW t \in All, NEW q \in Places, NEW l \in LocRecs, Moved(t, q, l),
           q \notin {"fill", "del", "evictdone"}, pc[t] \notin {"fill", "del", "evictdone"},
           HoldsAt(q) <=> HoldsAt(pc[t]), HoldsAt(q) => l.b = loc[t].b,
           LooksAt(q) => LooksAt(pc[t]), l.pa = loc[t].pa,
           ThreadOK(t, q, l), ~TryEvicts => EvictOK(t, q, l)
    PROVE  IInv'
<1>0. TypeOK /\ (~TryEvicts => EvictInv) BY DEF IInv, CoreInv
<1>1. TypeOK' BY <1>0 DEF TypeOK, Moved
<1>2. /\ CoreInv'
      /\ pc'[t] = q /\ loc'[t] = l
      /\ \A u \in All : u # t => pc'[u] = pc[u] /\ loc'[u] = loc[u]
  <2>1. ev'.objs \subseteq Made BY DEF Moved, IInv, CoreInv, Pending
  <2> QED BY <1>1, <2>1, CoreMove DEF Moved
<1>3. UNCHANGED <<table, obj, nobj, ngets, nevicts, pages, pins, maps, mutex, ev, data>>
  BY DEF Moved
<1>4. ASSUME ~TryEvicts PROVE EvictInv'
  <2>1. SnapInv' BY <1>0, <1>2, <1>3, <1>4 DEF EvictInv, SnapInv, EvictOK, Made
  <2>2. \A o, p : Owns(o, p)' <=> Owns(o, p) BY <1>2, <1>3 DEF Owns, All
  <2>3. \A u \in Threads : loc'[u].pa = loc[u].pa BY <1>2 DEF All
  <2>4. PageInv' BY <1>0, <1>3, <1>4, <2>2, <2>3 DEF EvictInv, PageInv, Made
  <2>5. MappedCached' BY <1>0, <1>3, <1>4 DEF EvictInv, MappedCached
  <2> QED BY <2>1, <2>4, <2>5 DEF EvictInv
<1> QED BY <1>2, <1>4 DEF IInv

\* The kernel stops and nothing else happens, or only the use of a block changes.
LEMMA StillStep ==
    ASSUME IInv, data' \subseteq Keys,
           UNCHANGED <<table, obj, nobj, ngets, nevicts, pages, pins, maps, mutex, pc, loc, ev>>
    PROVE  IInv'
<1>1. TypeOK' /\ GetsInv' /\ ObjsInv' /\ ThreadsInv' /\ Unique' /\ Pending'
  BY DEF IInv, CoreInv, TypeOK, GetsInv, Lookers, ObjsInv, ThreadsInv, ThreadOK, Unique, Pending, Made
<1>2. RefsCounted' /\ (~Maps => \A p \in Pages : maps'[p] = 0)
  BY DEF IInv, CoreInv, RefsCounted, Holders, Holds, Mapped
<1>3. ~TryEvicts => EvictInv'
  BY DEF IInv, EvictInv, SnapInv, EvictOK, PageInv, Owns, Made, MappedCached
<1> QED BY <1>1, <1>2, <1>3 DEF IInv, CoreInv

\* The hashtable's Get of a lookup.
LEMMA LookupGetStep ==
    ASSUME IInv, NEW t \in Threads, LookupGet(t), UNCHANGED data
    PROVE  IInv'
<1> DEFINE q == IF table[loc[t].key] = None THEN "mkobj" ELSE "load"
           l == [loc[t] EXCEPT !.e = table[loc[t].key]]
<1>0. TypeOK /\ ObjsInv /\ ThreadOK(t, pc[t], loc[t]) /\ t \in All /\ t # Evictor /\ pc[t] = "get"
  BY CacheAssumption DEF IInv, CoreInv, ThreadsInv, All, LookupGet, At
<1>1. Moved(t, q, l) BY DEF LookupGet, Moved, Goto, At
<1>2. loc[t] \in LocRecs /\ loc[t].key \in Keys /\ table[loc[t].key] \in Objs \cup {None}
  BY <1>0 DEF TypeOK, ThreadOK, LooksAt
<1>3. q \in Places /\ l \in LocRecs /\ l.pa = loc[t].pa /\ l.key = loc[t].key /\ l.e = table[loc[t].key]
  BY <1>2, LocType DEF Places, LocRecs
<1>4. ThreadOK(t, q, l)
  BY <1>0, <1>2, <1>3 DEF ThreadOK, LooksAt, HasBlock, HoldsAt, RemovesAt, ObjsInv
<1>5. ~TryEvicts => EvictOK(t, q, l)
  BY <1>0, <1>3 DEF IInv, EvictInv, SnapInv, EvictOK, RemovesAt
<1> QED BY <1>0, <1>1, <1>3, <1>4, <1>5, MoveStep DEF LooksAt, HoldsAt

\* The load of the count.
LEMMA LookupLoadStep ==
    ASSUME IInv, NEW t \in Threads, LookupLoad(t), UNCHANGED data
    PROVE  IInv'
<1> DEFINE l == [loc[t] EXCEPT !.cnt = obj[loc[t].e].refcnt]
<1>0. TypeOK /\ GetsInv /\ ThreadOK(t, pc[t], loc[t]) /\ t \in All /\ t # Evictor /\ pc[t] = "load"
  BY CacheAssumption DEF IInv, CoreInv, ThreadsInv, All, LookupLoad, At
<1>1. CASE obj[loc[t].e].remove
  <2>1. UNCHANGED <<table, obj, nobj, ngets, nevicts, pages, pins, maps, mutex, pc, loc, ev>>
    BY <1>1 DEF LookupLoad
  <2> QED BY <1>0, <2>1, StillStep DEF TypeOK
<1>2. CASE ~obj[loc[t].e].remove
  <2>1. Moved(t, "cas", l) BY <1>2 DEF LookupLoad, Moved, Goto
  <2>2. loc[t] \in LocRecs /\ obj[loc[t].e].refcnt \in Nat
    BY <1>0, ObjType, MadeObjs DEF TypeOK, ThreadOK
  <2>3. "cas" \in Places /\ l \in LocRecs /\ l.pa = loc[t].pa /\ l.key = loc[t].key /\ l.e = loc[t].e
    BY <2>2, LocType DEF Places, LocRecs
  <2>4. ThreadOK(t, "cas", l)
    BY <1>0, <2>3 DEF ThreadOK, LooksAt, HasBlock, HoldsAt, RemovesAt
  <2>5. ~TryEvicts => EvictOK(t, "cas", l)
    BY <1>0, <2>3 DEF IInv, EvictInv, SnapInv, EvictOK, RemovesAt
  <2> QED BY <1>0, <2>1, <2>3, <2>4, <2>5, MoveStep DEF LooksAt, HoldsAt
<1> QED BY <1>1, <1>2

\* A lookup that starts over.
LEMMA AgainStep ==
    ASSUME IInv, NEW t \in Threads, pc[t] \in {"cas", "mkobj"}, Moved(t, "get", loc[t])
    PROVE  IInv'
<1>0. ThreadOK(t, pc[t], loc[t]) /\ t \in All /\ t # Evictor /\ loc[t] \in LocRecs
  BY CacheAssumption DEF IInv, CoreInv, ThreadsInv, TypeOK, All
<1>1. ThreadOK(t, "get", loc[t]) /\ "get" \in Places
  BY <1>0 DEF ThreadOK, LooksAt, HasBlock, HoldsAt, RemovesAt, Places
<1>2. ~TryEvicts => EvictOK(t, "get", loc[t])
  BY <1>0 DEF IInv, EvictInv, SnapInv, EvictOK, RemovesAt
<1> QED BY <1>0, <1>1, <1>2, MoveStep DEF LooksAt, HoldsAt

\* A block that is not locked has been filled.
LEMMA LockBlockStep ==
    ASSUME IInv, NEW t \in Threads, LockBlock(t), UNCHANGED data
    PROVE  IInv'
<1>0. TypeOK /\ Pending /\ ThreadOK(t, pc[t], loc[t]) /\ t \in All /\ t # Evictor /\ pc[t] = "lock" /\ loc[t] \in LocRecs
  BY CacheAssumption DEF IInv, CoreInv, ThreadsInv, TypeOK, All, LockBlock, At
<1>1. Moved(t, "hold", loc[t]) BY <1>0 DEF LockBlock, Moved, Goto, TypeOK
<1>2. loc[t].b \in Made /\ obj[loc[t].b].page # None
  BY <1>0 DEF LockBlock, Unlocked, Pending, ThreadOK, HasBlock, HoldsAt
<1>3. ThreadOK(t, "hold", loc[t]) /\ "hold" \in Places
  BY <1>0, <1>2 DEF ThreadOK, LooksAt, HasBlock, HoldsAt, RemovesAt, Places
<1>4. ~TryEvicts => EvictOK(t, "hold", loc[t])
  BY <1>0 DEF IInv, EvictInv, SnapInv, EvictOK, RemovesAt
<1> QED BY <1>0, <1>1, <1>3, <1>4, MoveStep DEF LooksAt, HoldsAt

\* Relse returns.
LEMMA ReturnStep ==
    ASSUME IInv, NEW t \in Threads, pc[t] = "relsed" \/ (TryEvicts /\ pc[t] \in {"rget", "rload", "rcas"}),
           Moved(t, IF loc[t].pa = None THEN "idle" ELSE "unpinned", [NullLoc EXCEPT !.pa = loc[t].pa])
    PROVE  IInv'
<1> DEFINE q == IF loc[t].pa = None THEN "idle" ELSE "unpinned"
           l == [NullLoc EXCEPT !.pa = loc[t].pa]
<1>0. ThreadOK(t, pc[t], loc[t]) /\ t \in All /\ t # Evictor /\ loc[t] \in LocRecs
  BY CacheAssumption DEF IInv, CoreInv, ThreadsInv, TypeOK, All
<1>1. q \in Places /\ l \in LocRecs /\ l.pa = loc[t].pa /\ loc[t].pa \in Pages \cup {None}
  BY <1>0, LocType DEF Places, NullLoc
<1>2. ThreadOK(t, q, l) BY <1>0, <1>1 DEF ThreadOK, LooksAt, HasBlock, HoldsAt, RemovesAt
<1>3. ~TryEvicts => EvictOK(t, q, l)
  BY <1>0, <1>1 DEF IInv, EvictInv, SnapInv, EvictOK, RemovesAt
<1> QED BY <1>0, <1>1, <1>2, <1>3, MoveStep DEF LooksAt, HoldsAt, RemovesAt

\* Relse asks whether the block is marked.
LEMMA EvictnowStep ==
    ASSUME IInv, NEW t \in Threads, Evictnow(t), UNCHANGED data
    PROVE  IInv'
<1>0. TypeOK /\ GetsInv /\ ThreadOK(t, pc[t], loc[t]) /\ t \in All /\ t # Evictor /\ pc[t] = "relsed" /\ loc[t] \in LocRecs
  BY CacheAssumption DEF IInv, CoreInv, ThreadsInv, TypeOK, All, Evictnow, At
<1>1. CASE obj[loc[t].b].tryevict
  <2>1. Moved(t, "delpin", loc[t]) BY <1>0, <1>1 DEF Evictnow, Moved, Goto, TypeOK
  <2>2. TryEvicts BY <1>0, <1>1, MadeObjs DEF IInv, EvictInv, SnapInv, ThreadOK, HasBlock
  <2>3. ThreadOK(t, "delpin", loc[t]) /\ "delpin" \in Places
    BY <1>0 DEF ThreadOK, LooksAt, HasBlock, HoldsAt, RemovesAt, Places
  <2> QED BY <1>0, <2>1, <2>2, <2>3, MoveStep DEF LooksAt, HoldsAt
<1>2. CASE ~obj[loc[t].b].tryevict
  <2>1. Moved(t, IF loc[t].pa = None THEN "idle" ELSE "unpinned", [NullLoc EXCEPT !.pa = loc[t].pa])
    BY <1>0, <1>2 DEF Evictnow, Moved, Return, Goto
  <2> QED BY <1>0, <2>1, ReturnStep
<1> QED BY <1>1, <1>2

\* _remove returns without having removed anything.
LEMMA BackStep ==
    ASSUME IInv, NEW t \in All, pc[t] \in {"rget", "rload", "rcas"}, Back(t),
           UNCHANGED <<table, obj, nobj, ngets, nevicts, pages, pins, maps, mutex, ev, data>>
    PROVE  IInv'
<1>0. TypeOK /\ ThreadOK(t, pc[t], loc[t]) /\ loc[t] \in LocRecs
  BY DEF IInv, CoreInv, ThreadsInv, TypeOK
<1>1. CASE t = Evictor
  <2>1. Moved(t, "visit", loc[t]) BY <1>0, <1>1 DEF Back, Moved, Goto, TypeOK
  <2>2. ThreadOK(t, "visit", loc[t]) /\ "visit" \in Places
    BY <1>0, <1>1 DEF ThreadOK, LooksAt, HasBlock, HoldsAt, RemovesAt, Places
  <2>3. ~TryEvicts => EvictOK(t, "visit", loc[t]) BY <1>1 DEF EvictOK, RemovesAt
  <2> QED BY <1>0, <2>1, <2>2, <2>3, MoveStep DEF LooksAt, HoldsAt, RemovesAt
<1>2. CASE t # Evictor
  <2>1. Moved(t, IF loc[t].pa = None THEN "idle" ELSE "unpinned", [NullLoc EXCEPT !.pa = loc[t].pa])
    BY <1>2 DEF Back, Moved, Return, Goto
  <2>2. t \in Threads /\ TryEvicts
    BY <1>2 DEF All, IInv, EvictInv, SnapInv, EvictOK, RemovesAt
  <2> QED BY <2>1, <2>2, ReturnStep
<1> QED BY <1>1, <1>2

\* The hashtable's Get of _remove.
LEMMA RemoveGetStep ==
    ASSUME IInv, NEW t \in All, RemoveGet(t), UNCHANGED data
    PROVE  IInv'
<1> DEFINE e == table[loc[t].key]
           l == [loc[t] EXCEPT !.e = e]
<1>0. TypeOK /\ GetsInv /\ ObjsInv /\ ThreadOK(t, pc[t], loc[t]) /\ pc[t] = "rget" /\ loc[t] \in LocRecs
  BY DEF IInv, CoreInv, ThreadsInv, TypeOK, RemoveGet, At
<1>1. loc[t].b \in Made /\ loc[t].key = obj[loc[t].b].key /\ loc[t].key \in Keys
  BY <1>0 DEF ThreadOK, HasBlock, RemovesAt, ObjsInv
<1>2. CASE e = None /\ t = Evictor BY <1>0, <1>2, BackStep DEF RemoveGet, RemovesAt
<1>3. CASE e = None /\ t # Evictor
  <2>1. UNCHANGED <<table, obj, nobj, ngets, nevicts, pages, pins, maps, mutex, pc, loc, ev>>
    BY <1>3 DEF RemoveGet
  <2> QED BY <1>0, <2>1, StillStep DEF TypeOK
<1>4. CASE e # None
  <2>1. Moved(t, "rload", l) BY <1>4 DEF RemoveGet, Moved, Goto
  <2>2. e \in Made /\ obj[e].key = loc[t].key /\ e \in Objs
    BY <1>0, <1>1, <1>4, MadeObjs DEF ObjsInv
  <2>3. "rload" \in Places /\ l \in LocRecs /\ l.pa = loc[t].pa /\ l.key = loc[t].key /\ l.e = e /\ l.b = loc[t].b
    BY <1>0, <2>2, LocType DEF Places, LocRecs
  <2>4. ThreadOK(t, "rload", l)
    BY <1>0, <1>1, <2>2, <2>3 DEF ThreadOK, LooksAt, HasBlock, HoldsAt, RemovesAt
  <2>5. ~TryEvicts => EvictOK(t, "rload", l)
    BY <1>0, <1>1, <2>3 DEF IInv, EvictInv, SnapInv, EvictOK, RemovesAt, ObjsInv
  <2> QED BY <1>0, <2>1, <2>3, <2>4, <2>5, MoveStep DEF LooksAt, HoldsAt
<1> QED BY <1>2, <1>3, <1>4

\* The load of the count in _remove.
LEMMA RemoveLoadStep ==
    ASSUME IInv, NEW t \in All, RemoveLoad(t), UNCHANGED data
    PROVE  IInv'
<1>0. TypeOK /\ ThreadOK(t, pc[t], loc[t]) /\ pc[t] = "rload" /\ loc[t] \in LocRecs
  BY DEF IInv, CoreInv, ThreadsInv, TypeOK, RemoveLoad, At
<1>1. CASE Unused(loc[t].e)
  <2>1. Moved(t, "rcas", loc[t]) BY <1>0, <1>1 DEF RemoveLoad, Moved, Goto, TypeOK
  <2>2. ThreadOK(t, "rcas", loc[t]) /\ "rcas" \in Places
    BY <1>0 DEF ThreadOK, LooksAt, HasBlock, HoldsAt, RemovesAt, Places
  <2>3. ~TryEvicts => EvictOK(t, "rcas", loc[t])
    BY <1>0 DEF IInv, EvictInv, SnapInv, EvictOK, RemovesAt
  <2> QED BY <1>0, <2>1, <2>2, <2>3, MoveStep DEF LooksAt, HoldsAt
<1>2. CASE ~Unused(loc[t].e) BY <1>0, <1>2, BackStep DEF RemoveLoad, RemovesAt
<1> QED BY <1>1, <1>2

(***************************************************************************)
(* Steps that take or drop a reference.                                    *)
(***************************************************************************)
\* Only the count of object b changes, to n.
Recounted(b, n) == obj' = [obj EXCEPT ![b].refcnt = n]

\* The other fields and the other objects.
LEMMA RecountedObj ==
    ASSUME TypeOK, NEW b \in Objs, NEW n \in Nat, Recounted(b, n)
    PROVE  /\ obj' \in [Objs -> ObjRecs] /\ obj'[b].refcnt = n
           /\ \A o \in Objs : /\ o # b => obj'[o] = obj[o]
                              /\ obj'[o].key = obj[o].key /\ obj'[o].page = obj[o].page
                              /\ obj'[o].remove = obj[o].remove
                              /\ obj'[o].tryevict = obj[o].tryevict
                              /\ obj'[o].locked = obj[o].locked
<1>1. obj' = [obj EXCEPT ![b] = [obj[b] EXCEPT !.refcnt = n]] BY DEF Recounted
<1>2. obj[b] \in ObjRecs /\ [obj[b] EXCEPT !.refcnt = n] \in ObjRecs BY ObjType DEF TypeOK
<1>3. LET r == [obj[b] EXCEPT !.refcnt = n]
      IN  /\ r.refcnt = n /\ r.key = obj[b].key /\ r.page = obj[b].page /\ r.remove = obj[b].remove
          /\ r.tryevict = obj[b].tryevict /\ r.locked = obj[b].locked
  BY <1>2 DEF ObjRecs
<1> QED BY <1>1, <1>2, <1>3 DEF TypeOK

\* What does not depend on the counts stays as it is, for other threads.
LEMMA RecountFrame ==
    ASSUME IInv, NEW b \in Made, NEW n \in Nat, Recounted(b, n), UNCHANGED <<table, nobj>>
    PROVE  /\ ObjsInv'
           /\ \A t, q, l : ThreadOK(t, q, l)' <=> ThreadOK(t, q, l)
           /\ Made' = Made /\ Made \subseteq Objs
<1>0. TypeOK /\ ObjsInv /\ Made' = Made /\ Made \subseteq Objs
  BY MadeObjs DEF IInv, CoreInv, Made
<1>1. /\ \A o \in Objs : /\ o # b => obj'[o] = obj[o]
                         /\ obj'[o].key = obj[o].key /\ obj'[o].page = obj[o].page
                         /\ obj'[o].remove = obj[o].remove
  BY <1>0, RecountedObj
<1>2. ObjsInv' BY <1>0, <1>1 DEF ObjsInv, Made, TypeOK
<1>3. ASSUME NEW t, NEW q, NEW l PROVE ThreadOK(t, q, l)' <=> ThreadOK(t, q, l)
  <2>1. \A o \in Made : obj'[o].key = obj[o].key /\ obj'[o].page = obj[o].page /\ obj'[o].remove = obj[o].remove
    BY <1>0, <1>1
  <2> QED BY <1>0, <2>1 DEF ThreadOK, HasBlock, HoldsAt, RemovesAt, LooksAt
<1> QED BY <1>0, <1>2, <1>3

\* Thread u has one more reference: from a lookup, or from Refup.
LEMMA AcquireStep ==
    ASSUME IInv, NEW u \in Threads, NEW q \in {"lock", "hold"}, NEW b \in Made, ~obj[b].remove,
           pc[u] \in {"cas", "idle"}, q = "hold" => obj[b].page # None,
           Recounted(b, obj[b].refcnt + 1),
           pc' = [pc EXCEPT ![u] = q], loc' = [loc EXCEPT ![u] = [NullLoc EXCEPT !.b = b]],
           UNCHANGED <<table, nobj, ngets, nevicts, pages, pins, maps, mutex, ev, data>>
    PROVE  IInv'
<1> DEFINE l == [NullLoc EXCEPT !.b = b]
<1>0. /\ TypeOK /\ GetsInv /\ ObjsInv /\ ThreadsInv /\ Unique /\ Pending /\ RefsCounted
      /\ ~Maps => \A p \in Pages : maps[p] = 0
      /\ ~TryEvicts => EvictInv
      /\ u \in All /\ u # Evictor /\ Made \subseteq Objs
  BY CacheAssumption, MadeObjs DEF IInv, CoreInv, All
<1>1. /\ obj' \in [Objs -> ObjRecs] /\ obj'[b].refcnt = obj[b].refcnt + 1
      /\ \A o \in Objs : /\ o # b => obj'[o] = obj[o]
                         /\ obj'[o].key = obj[o].key /\ obj'[o].page = obj[o].page
                         /\ obj'[o].remove = obj[o].remove
                         /\ obj'[o].tryevict = obj[o].tryevict
                         /\ obj'[o].locked = obj[o].locked
  <2>1. obj[b].refcnt + 1 \in Nat BY <1>0, ObjFields
  <2> QED BY <1>0, <2>1, RecountedObj
<1>2. ObjsInv' /\ Made' = Made /\ \A t, p, k : ThreadOK(t, p, k)' <=> ThreadOK(t, p, k)
  <2>1. obj[b].refcnt + 1 \in Nat BY <1>0, ObjFields
  <2> QED BY <2>1, RecountFrame
<1>3. l \in LocRecs /\ l.b = b /\ l.pa = None BY <1>0, LocType DEF NullLoc
<1>4. /\ pc'[u] = q /\ loc'[u] = l
      /\ \A t \in All : t # u => pc'[t] = pc[t] /\ loc'[t] = loc[t]
  BY <1>0 DEF TypeOK
<1>5. TypeOK' BY <1>0, <1>1, <1>3 DEF TypeOK, Places
<1>6. GetsInv'
  <2>1. Lookers' \subseteq Lookers BY <1>4 DEF Lookers, LooksAt, All
  <2>2. Cardinality(Lookers') <= Cardinality(Lookers) /\ Cardinality(Lookers') \in Nat /\ Cardinality(Lookers) \in Nat
    BY <2>1, CountType, FS_Subset DEF Lookers
  <2> QED BY <1>0, <2>2 DEF GetsInv, TypeOK
<1>7. ThreadsInv'
  <2>1. ThreadOK(u, q, l)
    BY <1>0, <1>3 DEF ThreadOK, LooksAt, HasBlock, HoldsAt, RemovesAt
  <2> QED BY <1>0, <1>2, <1>4, <2>1 DEF ThreadsInv
<1>8. Unique' /\ Pending' BY <1>0, <1>1, <1>2, <1>4 DEF Unique, Pending, All
<1>9. RefsCounted'
  <2>1. Holders(b)' = Holders(b) \cup {u} /\ u \notin Holders(b)
    BY <1>3, <1>4 DEF Holders, Holds, All
  <2>2. Cardinality(Holders(b)') = Cardinality(Holders(b)) + 1 /\ Cardinality(Holders(b)) \in Nat
    BY <2>1, CountUp, CountType DEF Holders
  <2>3. \A o : o # b => Holders(o)' = Holders(o) BY <1>3, <1>4 DEF Holders, Holds, All
  <2>4. \A o \in Objs : Mapped(o)' = Mapped(o) BY <1>1 DEF Mapped
  <2>5. Mapped(b) \in Nat BY <1>0, ObjType DEF Mapped, TypeOK
  <2>6. obj'[b].refcnt = Cardinality(Holders(b)') + Mapped(b)' /\ ~obj'[b].remove
    BY <1>0, <1>1, <2>2, <2>4, <2>5 DEF RefsCounted
  <2>7. \A o \in Objs : o # b => /\ obj'[o].refcnt = Cardinality(Holders(o)') + Mapped(o)'
                                 /\ obj'[o].remove => obj'[o].refcnt = 0
    BY <1>0, <1>1, <2>3, <2>4 DEF RefsCounted
  <2> QED BY <2>6, <2>7 DEF RefsCounted
<1>10. ASSUME ~TryEvicts PROVE EvictInv'
  <2>0. SnapInv /\ PageInv /\ MappedCached BY <1>0, <1>10 DEF EvictInv
  <2>1. EvictOK(u, q, l)' /\ loc[u].pa = None
    BY <1>0, <1>3, <2>0 DEF SnapInv, EvictOK, RemovesAt
  <2>2. ASSUME NEW t \in All, t # u PROVE EvictOK(t, pc[t], loc[t])'
    <3>1. EvictOK(t, pc[t], loc[t]) /\ ThreadOK(t, pc[t], loc[t])
      BY <1>0, <2>0 DEF SnapInv, ThreadsInv
    <3>2. t = Evictor /\ RemovesAt(pc[t]) => loc[t].b \in Objs
      BY <1>0, <3>1 DEF ThreadOK, HasBlock
    <3> QED BY <1>1, <1>4, <2>2, <3>1, <3>2 DEF EvictOK, RemovesAt
  <2>3. SnapInv'
    <3>1. \A t \in All : EvictOK(t, pc[t], loc[t])' BY <1>4, <2>1, <2>2
    <3> QED BY <1>0, <1>1, <1>2, <2>0, <3>1 DEF SnapInv, TypeOK
  <2>4. \A o \in Made : \A p : Owns(o, p)' <=> Owns(o, p)
    BY <1>0, <1>1, <1>4 DEF Owns, All
  <2>5. \A t \in Threads : loc'[t].pa = loc[t].pa BY <1>3, <1>4, <2>1 DEF All
  <2>6. PageInv' BY <1>2, <2>0, <2>4, <2>5 DEF PageInv
  <2>7. MappedCached' BY <1>0, <1>1, <2>0 DEF MappedCached, TypeOK
  <2> QED BY <2>3, <2>6, <2>7 DEF EvictInv
<1> QED BY <1>0, <1>2, <1>5, <1>6, <1>7, <1>8, <1>9, <1>10 DEF IInv, CoreInv

\* lookupinc's compare-and-swap.
LEMMA LookupCasStep ==
    ASSUME IInv, NEW t \in Threads, LookupCas(t), UNCHANGED data
    PROVE  IInv'
<1>0. TypeOK /\ GetsInv /\ ThreadOK(t, pc[t], loc[t]) /\ pc[t] = "cas" /\ loc[t] \in LocRecs
  BY DEF IInv, CoreInv, ThreadsInv, TypeOK, All, LookupCas, At
<1>1. CASE CasHits(loc[t].e, loc[t].cnt)
  <2>1. loc[t].e \in Made /\ ~obj[loc[t].e].remove BY <1>0, <1>1 DEF ThreadOK, CasHits
  <2>2. Recounted(loc[t].e, obj[loc[t].e].refcnt + 1) BY <1>1 DEF LookupCas, Recounted
  <2> QED BY <1>0, <1>1, <2>1, <2>2, AcquireStep DEF LookupCas, Goto
<1>2. CASE ~CasHits(loc[t].e, loc[t].cnt)
  <2>1. Moved(t, "get", loc[t]) BY <1>0, <1>2 DEF LookupCas, Moved, Goto, TypeOK
  <2> QED BY <1>0, <2>1, AgainStep
<1> QED BY <1>1, <1>2

\* A reference for another thread.
LEMMA RefupStep ==
    ASSUME IInv, NEW t \in Threads, NEW u \in Threads, Refup(t, u), UNCHANGED data
    PROVE  IInv'
<1>0. TypeOK /\ ThreadOK(t, pc[t], loc[t]) /\ pc[t] = "hold" /\ pc[u] = "idle" /\ t # Evictor
  BY CacheAssumption DEF IInv, CoreInv, ThreadsInv, TypeOK, All, Refup, At
<1>1. CASE obj[loc[t].b].remove
  <2>1. UNCHANGED <<table, obj, nobj, ngets, nevicts, pages, pins, maps, mutex, pc, loc, ev>>
    BY <1>1 DEF Refup
  <2> QED BY <1>0, <2>1, StillStep DEF TypeOK
<1>2. CASE ~obj[loc[t].b].remove
  <2>1. loc[t].b \in Made /\ obj[loc[t].b].page # None
    BY <1>0 DEF ThreadOK, HasBlock, HoldsAt
  <2>2. Recounted(loc[t].b, obj[loc[t].b].refcnt + 1) BY <1>2 DEF Refup, Recounted
  <2> QED BY <1>0, <1>2, <2>1, <2>2, AcquireStep DEF Refup, Goto
<1> QED BY <1>1, <1>2

\* A thread drops its reference and goes on to q with locals l.
LEMMA DropStep ==
    ASSUME IInv, NEW t \in Threads, pc[t] \in {"hold", "unpin"}, NEW b, b = loc[t].b, NEW l \in LocRecs,
           NEW q \in {"relsed", "idle", "unpinned"},
           q = "relsed" => l = loc[t], q = "idle" => loc[t].pa = None, q = "unpinned" => loc[t].pa # None,
           l.pa = loc[t].pa, obj[b].refcnt > 0, Recounted(b, obj[b].refcnt - 1),
           pc' = [pc EXCEPT ![t] = q], loc' = [loc EXCEPT ![t] = l],
           UNCHANGED <<table, nobj, ngets, nevicts, pages, pins, maps, mutex, ev, data>>
    PROVE  IInv'
<1>0. /\ TypeOK /\ GetsInv /\ ObjsInv /\ ThreadsInv /\ Unique /\ Pending /\ RefsCounted
      /\ ~Maps => \A p \in Pages : maps[p] = 0
      /\ ~TryEvicts => EvictInv
      /\ t \in All /\ t # Evictor /\ Made \subseteq Objs /\ ThreadOK(t, pc[t], loc[t]) /\ loc[t] \in LocRecs
  BY CacheAssumption, MadeObjs DEF IInv, CoreInv, All, ThreadsInv, TypeOK
<1>1. b \in Made /\ obj[b].page # None /\ obj[b].refcnt - 1 \in Nat /\ b \in Objs
  <2>1. b \in Made /\ obj[b].page # None BY <1>0 DEF ThreadOK, HasBlock, HoldsAt
  <2> QED BY <1>0, <2>1, ObjFields
<1>2. /\ obj' \in [Objs -> ObjRecs] /\ obj'[b].refcnt = obj[b].refcnt - 1
      /\ \A o \in Objs : /\ o # b => obj'[o] = obj[o]
                         /\ obj'[o].key = obj[o].key /\ obj'[o].page = obj[o].page
                         /\ obj'[o].remove = obj[o].remove
                         /\ obj'[o].tryevict = obj[o].tryevict
                         /\ obj'[o].locked = obj[o].locked
  BY <1>0, <1>1, RecountedObj
<1>3. ObjsInv' /\ Made' = Made /\ \A u, p, k : ThreadOK(u, p, k)' <=> ThreadOK(u, p, k)
  BY <1>1, RecountFrame
<1>4. /\ pc'[t] = q /\ loc'[t] = l
      /\ \A u \in All : u # t => pc'[u] = pc[u] /\ loc'[u] = loc[u]
  BY <1>0 DEF TypeOK
<1>5. TypeOK' BY <1>0, <1>2 DEF TypeOK, Places
<1>6. GetsInv'
  <2>1. Lookers' = Lookers BY <1>4 DEF Lookers, LooksAt, All
  <2> QED BY <1>0, <2>1 DEF GetsInv, TypeOK
<1>7. ThreadsInv'
  <2>1. loc[t].pa \in Pages \cup {None} BY <1>0, LocType
  <2>2. ThreadOK(t, q, l)
    BY <1>0, <1>1, <2>1 DEF ThreadOK, LooksAt, HasBlock, HoldsAt, RemovesAt
  <2> QED BY <1>0, <1>3, <1>4, <2>2 DEF ThreadsInv
<1>8. Unique' /\ Pending' BY <1>0, <1>2, <1>3, <1>4 DEF Unique, Pending, All
<1>9. RefsCounted'
  <2>1. Holders(b)' = Holders(b) \ {t} /\ t \in Holders(b) BY <1>4 DEF Holders, Holds, All
  <2>2. Cardinality(Holders(b)') = Cardinality(Holders(b)) - 1 /\ Cardinality(Holders(b)) \in Nat
    BY <2>1, CountDown, CountType DEF Holders
  <2>3. \A o : o # b => Holders(o)' = Holders(o) BY <1>4 DEF Holders, Holds, All
  <2>4. \A o \in Objs : Mapped(o)' = Mapped(o) BY <1>2 DEF Mapped
  <2>5. Mapped(b) \in Nat BY <1>0, <1>1, ObjFields DEF Mapped, TypeOK
  <2>6. obj'[b].refcnt = Cardinality(Holders(b)') + Mapped(b)' /\ ~obj'[b].remove
    BY <1>0, <1>1, <1>2, <2>2, <2>4, <2>5 DEF RefsCounted
  <2>7. \A o \in Objs : o # b => /\ obj'[o].refcnt = Cardinality(Holders(o)') + Mapped(o)'
                                 /\ obj'[o].remove => obj'[o].refcnt = 0
    BY <1>0, <1>2, <2>3, <2>4 DEF RefsCounted
  <2> QED BY <2>6, <2>7 DEF RefsCounted
<1>10. ASSUME ~TryEvicts PROVE EvictInv'
  <2>0. SnapInv /\ PageInv /\ MappedCached BY <1>0, <1>10 DEF EvictInv
  <2>1. EvictOK(t, q, l)' BY <1>0, <2>0 DEF SnapInv, EvictOK, RemovesAt
  <2>2. ASSUME NEW u \in All, u # t PROVE EvictOK(u, pc[u], loc[u])'
    <3>1. EvictOK(u, pc[u], loc[u]) /\ ThreadOK(u, pc[u], loc[u])
      BY <1>0, <2>0 DEF SnapInv, ThreadsInv
    <3>2. u = Evictor /\ RemovesAt(pc[u]) => loc[u].b \in Objs
      BY <1>0, <3>1 DEF ThreadOK, HasBlock
    <3> QED BY <1>2, <1>4, <2>2, <3>1, <3>2 DEF EvictOK, RemovesAt
  <2>3. SnapInv'
    <3>1. \A u \in All : EvictOK(u, pc[u], loc[u])' BY <1>4, <2>1, <2>2
    <3> QED BY <1>0, <1>2, <1>3, <2>0, <3>1 DEF SnapInv, TypeOK
  <2>4. \A o \in Made : \A p : Owns(o, p)' <=> Owns(o, p)
    BY <1>0, <1>2, <1>4 DEF Owns, All
  <2>5. \A u \in Threads : loc'[u].pa = loc[u].pa BY <1>4 DEF All
  <2>6. PageInv' BY <1>3, <2>0, <2>4, <2>5 DEF PageInv
  <2>7. MappedCached' BY <1>0, <1>2, <2>0 DEF MappedCached, TypeOK
  <2> QED BY <2>3, <2>6, <2>7 DEF EvictInv
<1> QED BY <1>0, <1>3, <1>5, <1>6, <1>7, <1>8, <1>9, <1>10 DEF IInv, CoreInv

\* Relse's decrement.
LEMMA RelseStep ==
    ASSUME IInv, NEW t \in Threads, Relse(t), UNCHANGED data
    PROVE  IInv'
<1> DEFINE b == loc[t].b
<1>0. /\ TypeOK /\ GetsInv /\ ThreadOK(t, pc[t], loc[t]) /\ pc[t] \in {"hold", "unpin"} /\ loc[t] \in LocRecs
      /\ loc[t].pa \in Pages \cup {None}
  BY LocType DEF IInv, CoreInv, ThreadsInv, TypeOK, All, Relse, At
<1>1. b \in Objs /\ obj[b].refcnt \in Nat
  BY <1>0, MadeObjs, ObjFields DEF ThreadOK, HasBlock, HoldsAt
<1>2. CASE obj[b].remove \/ obj[b].refcnt = 0
  <2>1. UNCHANGED <<table, obj, nobj, ngets, nevicts, pages, pins, maps, mutex, pc, loc, ev>>
    BY <1>2 DEF Relse
  <2> QED BY <1>0, <2>1, StillStep DEF TypeOK
<1>3. CASE ~(obj[b].remove \/ obj[b].refcnt = 0)
  <2>1. Recounted(b, obj[b].refcnt - 1) /\ obj[b].refcnt > 0
    BY <1>1, <1>3 DEF Relse, Recounted
  <2>2. CASE obj[b].refcnt = 1
    <3>1. pc' = [pc EXCEPT ![t] = "relsed"] /\ loc' = [loc EXCEPT ![t] = loc[t]]
      BY <1>0, <1>3, <2>2 DEF Relse, Goto, TypeOK
    <3>2. UNCHANGED <<table, nobj, ngets, nevicts, pages, pins, maps, mutex, ev, data>>
      BY DEF Relse
    <3> QED BY <1>0, <2>1, <3>1, <3>2, DropStep
  <2>3. CASE obj[b].refcnt # 1
    <3> DEFINE q == IF loc[t].pa = None THEN "idle" ELSE "unpinned"
               l == [NullLoc EXCEPT !.pa = loc[t].pa]
    <3>1. pc' = [pc EXCEPT ![t] = q] /\ loc' = [loc EXCEPT ![t] = l]
      BY <1>3, <2>3 DEF Relse, Return, Goto
    <3>2. UNCHANGED <<table, nobj, ngets, nevicts, pages, pins, maps, mutex, ev, data>>
      BY DEF Relse
    <3>3. l \in LocRecs /\ l.pa = loc[t].pa BY <1>0, LocType DEF NullLoc
    <3> QED BY <1>0, <2>1, <3>1, <3>2, <3>3, DropStep
  <2> QED BY <2>2, <2>3
<1> QED BY <1>2, <1>3

(***************************************************************************)
(* The other steps of a user.                                              *)
(***************************************************************************)
\* A lookup begins.
LEMMA LookupStep ==
    ASSUME IInv, NEW t \in Threads, NEW k \in Keys, Lookup(t, k), UNCHANGED data
    PROVE  IInv'
<1> DEFINE l == [NullLoc EXCEPT !.key = k]
<1>0. /\ TypeOK /\ GetsInv /\ ObjsInv /\ ThreadsInv /\ Unique /\ Pending /\ RefsCounted
      /\ ~Maps => \A p \in Pages : maps[p] = 0
      /\ ~TryEvicts => EvictInv
      /\ t \in All /\ t # Evictor
      /\ pc[t] = "idle" /\ ngets < MaxGets /\ ngets' = ngets + 1
  BY CacheAssumption DEF IInv, CoreInv, All, Lookup, At
<1>1. l \in LocRecs /\ l.key = k /\ l.pa = None BY LocType DEF NullLoc
<1>2. UNCHANGED <<table, obj, nobj, nevicts, pages, pins, maps, mutex, ev>> BY DEF Lookup
<1>3. /\ pc'[t] = "get" /\ loc'[t] = l
      /\ \A u \in All : u # t => pc'[u] = pc[u] /\ loc'[u] = loc[u]
  BY <1>0 DEF Lookup, Goto, TypeOK
<1>4. TypeOK' BY <1>0, <1>1, <1>2 DEF TypeOK, Lookup, Goto, Places
<1> HIDE DEF l
<1>5. GetsInv'
  <2>1. Lookers' = Lookers \cup {t} /\ t \notin Lookers
    BY <1>0, <1>3 DEF Lookers, LooksAt, All
  <2>2. Cardinality(Lookers') = Cardinality(Lookers) + 1 /\ Cardinality(Lookers) \in Nat
    BY <2>1, CountUp, CountType DEF Lookers
  <2> QED BY <1>0, <1>2, <2>2, CacheAssumption DEF GetsInv, TypeOK
<1>6. ObjsInv' BY <1>0, <1>2 DEF ObjsInv, Made
<1>7. ThreadsInv'
  <2>1. ThreadOK(t, "get", l)
    BY <1>0, <1>1 DEF ThreadOK, LooksAt, HasBlock, HoldsAt, RemovesAt
  <2> QED BY <1>0, <1>2, <1>3, <2>1 DEF ThreadsInv, ThreadOK, Made
<1>8. Unique' /\ Pending' BY <1>0, <1>2, <1>3 DEF Unique, Pending, Made, All
<1>9. RefsCounted'
  <2>1. \A o : Holders(o)' = Holders(o) BY <1>0, <1>3 DEF Holders, Holds, All
  <2>2. \A o : Mapped(o)' = Mapped(o) BY <1>2 DEF Mapped
  <2> QED BY <1>0, <1>2, <2>1, <2>2 DEF RefsCounted
<1>10. ASSUME ~TryEvicts PROVE EvictInv'
  <2>1. EvictOK(t, "get", l) /\ loc[t].pa = None
    BY <1>0, <1>1, <1>10 DEF EvictInv, SnapInv, EvictOK, RemovesAt
  <2>2. SnapInv' BY <1>0, <1>2, <1>3, <1>10, <2>1 DEF EvictInv, SnapInv, EvictOK, Made
  <2>3. \A o, p : Owns(o, p)' <=> Owns(o, p) BY <1>0, <1>2, <1>3 DEF Owns, All
  <2>4. \A u \in Threads : loc'[u].pa = loc[u].pa BY <1>1, <1>3, <2>1 DEF All
  <2>5. PageInv' BY <1>0, <1>2, <1>10, <2>3, <2>4 DEF EvictInv, PageInv, Made
  <2>6. MappedCached' BY <1>0, <1>2, <1>10 DEF EvictInv, MappedCached
  <2> QED BY <2>2, <2>5, <2>6 DEF EvictInv
<1> QED BY <1>0, <1>2, <1>4, <1>5, <1>6, <1>7, <1>8, <1>9, <1>10 DEF IInv, CoreInv

\* A new object is in the table, locked, and its creator fills it.
LEMMA LookupSetStep ==
    ASSUME IInv, NEW t \in Threads, LookupSet(t), UNCHANGED data
    PROVE  IInv'
<1>0. /\ TypeOK /\ GetsInv /\ ObjsInv /\ ThreadsInv /\ Unique /\ Pending /\ RefsCounted
      /\ ~Maps => \A p \in Pages : maps[p] = 0
      /\ ~TryEvicts => EvictInv
      /\ t \in All /\ t # Evictor /\ pc[t] = "mkobj" /\ ThreadOK(t, pc[t], loc[t])
      /\ Made \subseteq Objs
  BY CacheAssumption, MadeObjs DEF IInv, CoreInv, All, LookupSet, At, ThreadsInv
<1>1. PICK k \in Keys : k = loc[t].key BY <1>0 DEF ThreadOK, LooksAt
<1>2. CASE ~Absent(k)
  <2>1. Moved(t, "get", loc[t]) BY <1>0, <1>1, <1>2 DEF LookupSet, Moved, Goto, TypeOK
  <2> QED BY <1>0, <2>1, AgainStep
<1>3. CASE Absent(k)
  <2>0. PICK o \in Objs : o = nobj + 1 BY <1>0, LookSlot DEF LooksAt
  <2> DEFINE l == [NullLoc EXCEPT !.b = o]
             r == [NullObj EXCEPT !.key = k, !.refcnt = 1, !.locked = TRUE]
  <2>1. /\ nobj' = o /\ obj' = [obj EXCEPT ![o] = r] /\ table' = [table EXCEPT ![k] = o]
        /\ loc' = [loc EXCEPT ![t] = l] /\ pc' = [pc EXCEPT ![t] = "fill"]
        /\ UNCHANGED <<ngets, nevicts, pages, pins, maps, mutex, ev, data>> /\ table[k] = None
    BY <1>1, <1>3, <2>0 DEF LookupSet, Goto, Absent
  <2>2. /\ r \in ObjRecs /\ r.key = k /\ r.refcnt = 1 /\ r.page = None /\ ~r.remove /\ r.locked /\ ~r.tryevict
        /\ l \in LocRecs /\ l.b = o /\ l.pa = None
    BY LocType, ObjType DEF NullObj, NullLoc
  <2> HIDE DEF l, r
  <2>3. /\ obj'[o] = r /\ \A x \in Objs : x # o => obj'[x] = obj[x]
        /\ table'[k] = o /\ \A j \in Keys : j # k => table'[j] = table[j]
        /\ pc'[t] = "fill" /\ loc'[t] = l
        /\ \A u \in All : u # t => pc'[u] = pc[u] /\ loc'[u] = loc[u]
        /\ Made' = Made \cup {o} /\ o \notin Made /\ None \notin Objs
    BY <1>0, <2>0, <2>1, CacheAssumption DEF TypeOK, Made, Objs
  <2>4. TypeOK' BY <1>0, <2>0, <2>1, <2>2 DEF TypeOK, Places, Objs
  <2>5. GetsInv'
    <3>1. Lookers' = Lookers \ {t} /\ t \in Lookers
      BY <1>0, <2>3 DEF Lookers, LooksAt, All
    <3>2. Cardinality(Lookers') = Cardinality(Lookers) - 1 /\ Cardinality(Lookers) \in Nat
      BY <3>1, CountDown, CountType DEF Lookers
    <3> QED BY <1>0, <2>0, <2>1, <3>2 DEF GetsInv, TypeOK
  <2>6. ObjsInv' BY <1>0, <2>0, <2>1, <2>2, <2>3 DEF ObjsInv, TypeOK, Objs
  <2>7. ThreadsInv'
    <3>1. ThreadOK(t, "fill", l)'
      BY <1>0, <2>2, <2>3 DEF ThreadOK, LooksAt, HasBlock, HoldsAt, RemovesAt
    <3>2. ASSUME NEW u \in All, u # t PROVE ThreadOK(u, pc[u], loc[u])'
      <4>1. ThreadOK(u, pc[u], loc[u]) BY <1>0 DEF ThreadsInv
      <4>2. \A x \in Made : x \in Made' /\ obj'[x] = obj[x] BY <1>0, <2>3
      <4>3. \A x \in Made : table[obj[x].key] = x => table'[obj[x].key] = x
        BY <1>0, <2>1, <2>3 DEF ObjsInv
      <4> QED
        BY <2>3, <3>2, <4>1, <4>2, <4>3 DEF ThreadOK, HasBlock, HoldsAt, RemovesAt, LooksAt
    <3> QED BY <2>3, <3>1, <3>2 DEF ThreadsInv
  <2>8. Unique'
    <3>1. \A u \in All : HoldsAt(pc[u]) => loc[u].b # o
      BY <1>0, <2>3 DEF ThreadsInv, ThreadOK, HasBlock
    <3> QED BY <1>0, <2>2, <2>3, <3>1 DEF Unique, HoldsAt
  <2>9. Pending'
    <3>1. \A x \in Made : x # o /\ obj'[x] = obj[x] /\ (table'[obj[x].key] = x => table[obj[x].key] = x)
      BY <1>0, <2>3 DEF ObjsInv
    <3>2. ev'.objs \subseteq Made' BY <1>0, <2>1, <2>3 DEF Pending
    <3> QED BY <1>0, <2>2, <2>3, <3>1, <3>2 DEF Pending, All
  <2>10. RefsCounted'
    <3>1. Holders(o)' = Holders(o) \cup {t} /\ t \notin Holders(o)
      BY <1>0, <2>2, <2>3 DEF Holders, Holds, All
    <3>2. \A x : x # o => Holders(x)' = Holders(x)
      BY <1>0, <2>2, <2>3 DEF Holders, Holds, All
    <3>3. Holders(o) = {}
      BY <1>0, <2>3 DEF Holders, Holds, ThreadsInv, ThreadOK, HasBlock, HoldsAt, All
    <3>4. Cardinality(Holders(o)') = 1 BY <3>1, <3>3, FS_EmptySet, CountUp DEF Holders
    <3>5. Mapped(o)' = 0 BY <2>2, <2>3 DEF Mapped
    <3>6. ASSUME NEW x \in Objs, x # o PROVE Mapped(x)' = Mapped(x)
      <4>1. CASE x \in Made BY <1>0, <2>1, <2>3, <3>6, <4>1 DEF Mapped, ObjsInv
      <4>2. CASE x \notin Made
        BY <1>0, <2>3, <3>6, <4>2 DEF Mapped, ObjsInv, Made, Objs, TypeOK, NullObj
      <4> QED BY <4>1, <4>2
    <3> QED BY <1>0, <2>2, <2>3, <3>2, <3>4, <3>5, <3>6 DEF RefsCounted
  <2>11. ASSUME ~TryEvicts PROVE EvictInv'
    <3>0. SnapInv /\ PageInv /\ MappedCached BY <1>0, <2>11 DEF EvictInv
    <3>1. EvictOK(t, "fill", l)' /\ loc[t].pa = None
      BY <1>0, <2>1, <2>2, <3>0 DEF SnapInv, EvictOK, RemovesAt
    <3>2. ASSUME NEW u \in All, u # t PROVE EvictOK(u, pc[u], loc[u])'
      <4>1. EvictOK(u, pc[u], loc[u]) /\ ThreadOK(u, pc[u], loc[u])
        BY <1>0, <3>0 DEF SnapInv, ThreadsInv
      <4>2. RemovesAt(pc[u]) => loc[u].b \in Made BY <4>1 DEF ThreadOK, HasBlock
      <4>3. RemovesAt(pc[u]) => obj'[loc[u].b] = obj[loc[u].b] /\ loc[u].b # o
        BY <1>0, <2>3, <4>2
      <4>4. RemovesAt(pc[u]) /\ table[obj[loc[u].b].key] # loc[u].b => table'[obj[loc[u].b].key] # loc[u].b
        BY <1>0, <2>3, <4>2, <4>3 DEF ObjsInv
      <4> QED BY <2>1, <2>3, <3>2, <4>1, <4>3, <4>4 DEF EvictOK, RemovesAt
    <3>3. SnapInv'
      <4>1. \A u \in All : EvictOK(u, pc[u], loc[u])' BY <2>3, <3>1, <3>2
      <4> QED BY <1>0, <2>1, <2>2, <2>3, <3>0, <4>1 DEF SnapInv, TypeOK
    <3>4. /\ \A x \in Made : \A p : Owns(x, p)' <=> Owns(x, p)
          /\ \A p \in Pages : ~Owns(o, p)'
      BY <1>0, <2>1, <2>2, <2>3, CacheAssumption DEF Owns, All, ObjsInv
    <3>5. \A u \in Threads : loc'[u].pa = loc[u].pa BY <2>2, <2>3, <3>1 DEF All
    <3>6. PageInv' BY <2>1, <2>3, <3>0, <3>4, <3>5 DEF PageInv
    <3>7. MappedCached'
      <4> SUFFICES ASSUME NEW p \in Pages, maps[p] > 0
                   PROVE  pins[p] # None /\ table'[obj'[pins[p]].key] = pins[p] /\ obj'[pins[p]].page = p
        BY <2>1 DEF MappedCached
      <4>1. pins[p] # None /\ table[obj[pins[p]].key] = pins[p] /\ obj[pins[p]].page = p
        BY <3>0 DEF MappedCached
      <4>2. pins[p] \in Objs BY <1>0, <4>1 DEF TypeOK
      <4>3. pins[p] \in Made
        BY <1>0, <4>1, <4>2, CacheAssumption DEF ObjsInv, NullObj, Made, Objs, TypeOK
      <4> QED BY <1>0, <2>1, <2>3, <4>1, <4>3 DEF ObjsInv
    <3> QED BY <3>3, <3>6, <3>7 DEF EvictInv
  <2> QED
    BY <1>0, <2>1, <2>4, <2>5, <2>6, <2>7, <2>8, <2>9, <2>10, <2>11 DEF IInv, CoreInv
<1> QED BY <1>2, <1>3

\* A thread with a reference has the object that lookups find.
LEMMA HeldCached ==
    ASSUME IInv, NEW t \in Threads, HoldsAt(pc[t])
    PROVE  /\ loc[t].b \in Made /\ loc[t].b \in Objs /\ obj[loc[t].b].refcnt >= 1
           /\ ~obj[loc[t].b].remove /\ table[obj[loc[t].b].key] = loc[t].b
<1>0. TypeOK /\ GetsInv /\ ObjsInv /\ RefsCounted /\ ThreadOK(t, pc[t], loc[t])
  BY DEF IInv, CoreInv, ThreadsInv, All
<1>1. loc[t].b \in Made /\ loc[t].b \in Objs BY <1>0, MadeObjs DEF ThreadOK, HasBlock
<1>2. t \in Holders(loc[t].b) BY DEF Holders, Holds, HoldsAt
<1>3. Cardinality(Holders(loc[t].b)) >= 1 /\ Cardinality(Holders(loc[t].b)) \in Nat
  BY <1>2, CountDown, CountType DEF Holders
<1>4. Mapped(loc[t].b) \in Nat /\ obj[loc[t].b].refcnt \in Nat
  BY <1>0, <1>1, ObjFields DEF Mapped, TypeOK
<1> QED BY <1>0, <1>1, <1>3, <1>4 DEF RefsCounted, ObjsInv

\* An object to which nobody has a reference has been filled.
LEMMA UnusedFilled ==
    ASSUME IInv, NEW o \in Made, obj[o].refcnt = 0
    PROVE  obj[o].page # None
<1>1. ASSUME obj[o].page = None PROVE FALSE
  <2>1. PICK t \in Threads : pc[t] = "fill" /\ loc[t].b = o
    BY <1>1 DEF IInv, CoreInv, Pending
  <2> QED BY <2>1, HeldCached DEF HoldsAt
<1> QED BY <1>1

\* A free page has no mappings, so that the count of the filled block stays right.
LEMMA FillStep ==
    ASSUME IInv, ~(TryEvicts /\ Maps), NEW t \in Threads, Fill(t), UNCHANGED data
    PROVE  IInv'
<1>0. /\ TypeOK /\ GetsInv /\ ObjsInv /\ ThreadsInv /\ Unique /\ Pending /\ RefsCounted
      /\ ~Maps => \A p \in Pages : maps[p] = 0
      /\ ~TryEvicts => EvictInv
      /\ t \in All /\ t # Evictor /\ pc[t] = "fill" /\ ThreadOK(t, pc[t], loc[t])
      /\ Made \subseteq Objs /\ loc[t] \in LocRecs
  BY CacheAssumption, MadeObjs DEF IInv, CoreInv, All, Fill, At, ThreadsInv, TypeOK
<1>1. PICK b \in Made : b = loc[t].b BY <1>0 DEF ThreadOK, HasBlock, HoldsAt
<1>2. b \in Objs /\ obj[b].page = None /\ table[obj[b].key] = b /\ obj[b] \in ObjRecs
  BY <1>0, <1>1, HeldCached, ObjFields DEF ThreadOK, HoldsAt
<1>3. CASE UNCHANGED <<pages, obj, pc>>
  <2>1. UNCHANGED <<table, obj, nobj, ngets, nevicts, pages, pins, maps, mutex, pc, loc, ev>>
    BY <1>3 DEF Fill
  <2> QED BY <1>0, <2>1, StillStep DEF TypeOK
<1>4. ASSUME NEW p \in Pages, pages[p] = 0, pages' = [pages EXCEPT ![p] = 1],
             obj' = [obj EXCEPT ![loc[t].b] = [@ EXCEPT !.page = p, !.locked = FALSE]], Goto(t, "hold")
      PROVE  IInv'
  <2> DEFINE r == [obj[b] EXCEPT !.page = p, !.locked = FALSE]
  <2>1. /\ obj' = [obj EXCEPT ![b] = r] /\ pc' = [pc EXCEPT ![t] = "hold"] /\ pages' = [pages EXCEPT ![p] = 1]
        /\ UNCHANGED <<table, nobj, ngets, nevicts, pins, maps, mutex, loc, ev, data>>
    BY <1>1, <1>4 DEF Fill, Goto
  <2>2. /\ r \in ObjRecs /\ r.page = p /\ r.key = obj[b].key /\ r.refcnt = obj[b].refcnt
        /\ r.remove = obj[b].remove /\ r.tryevict = obj[b].tryevict
    <3>1. r \in ObjRecs BY <1>2, ObjType
    <3> QED BY <1>2, <3>1 DEF ObjRecs
  <2> HIDE DEF r
  <2>3. /\ obj'[b] = r /\ \A x \in Objs : x # b => obj'[x] = obj[x]
        /\ pc'[t] = "hold" /\ \A u \in All : u # t => pc'[u] = pc[u]
        /\ Made' = Made
        /\ pages'[p] = 1 /\ \A g \in Pages : g # p => pages'[g] = pages[g]
    BY <1>0, <1>2, <2>1 DEF TypeOK, Made
  <2>4. maps[p] = 0
    <3>1. CASE ~Maps BY <1>0, <3>1
    <3>2. CASE ~TryEvicts BY <1>0, <1>4, <3>2 DEF EvictInv, PageInv, TypeOK
    <3> QED BY <3>1, <3>2
  <2>5. TypeOK' BY <1>0, <1>2, <2>1, <2>2 DEF TypeOK, Places
  <2>6. GetsInv'
    <3>1. Lookers' = Lookers BY <1>0, <2>3 DEF Lookers, LooksAt, All
    <3> QED BY <1>0, <2>1, <3>1 DEF GetsInv
  <2>7. ObjsInv'
    <3>1. \A o \in Objs : o > nobj => o # b BY <1>0, <1>1 DEF Made, Objs, TypeOK
    <3>2. \A o \in Objs : obj'[o].key = obj[o].key /\ obj'[o].remove = obj[o].remove
      BY <1>2, <2>2, <2>3
    <3> QED BY <1>0, <2>1, <2>3, <3>1, <3>2 DEF ObjsInv
  <2>8. \A x \in Made : /\ obj'[x].key = obj[x].key /\ obj'[x].remove = obj[x].remove
                        /\ obj[x].page # None => obj'[x].page # None
    BY <1>0, <1>2, <2>2, <2>3
  <2>9. ThreadsInv'
    <3>1. ThreadOK(t, "hold", loc[t])'
      BY <1>0, <1>1, <2>1, <2>2, <2>3, CacheAssumption DEF ThreadOK, LooksAt, HasBlock, HoldsAt, RemovesAt
    <3>2. ASSUME NEW u \in All, u # t PROVE ThreadOK(u, pc[u], loc[u])'
      <4>1. ThreadOK(u, pc[u], loc[u]) BY <1>0 DEF ThreadsInv
      <4>2. pc[u] = "fill" => loc[u].b # b /\ loc[u].b \in Made
        BY <1>0, <1>1, <3>2, <4>1 DEF Unique, ThreadOK, HasBlock, HoldsAt
      <4>3. pc[u] = "fill" => obj'[loc[u].b].page = None
        BY <1>0, <2>3, <4>1, <4>2 DEF ThreadOK
      <4> QED
        BY <2>1, <2>3, <2>8, <3>2, <4>1, <4>3 DEF ThreadOK, HasBlock, HoldsAt, RemovesAt, LooksAt
    <3> QED BY <2>1, <2>3, <3>1, <3>2 DEF ThreadsInv
  <2>10. Unique' BY <1>0, <2>1, <2>3 DEF Unique
  <2>11. Pending'
    <3> SUFFICES ASSUME NEW x \in Made, obj'[x].page = None
                 PROVE  obj'[x].locked /\ \E u \in Threads : pc'[u] = "fill" /\ loc'[u].b = x
      BY <1>0, <2>1, <2>3, <2>8 DEF Pending
    <3>1. x # b /\ obj'[x] = obj[x] BY <1>0, <2>2, <2>3, CacheAssumption
    <3>2. PICK u \in Threads : pc[u] = "fill" /\ loc[u].b = x BY <1>0, <3>1 DEF Pending
    <3>3. u # t BY <1>1, <3>1, <3>2
    <3> QED BY <1>0, <2>1, <2>3, <3>1, <3>2, <3>3 DEF Pending, All
  <2>12. RefsCounted'
    <3>1. \A x : Holders(x)' = Holders(x) BY <1>0, <2>1, <2>3 DEF Holders, Holds, All
    <3>2. Mapped(b) = 0 /\ Mapped(b)' = 0 BY <1>2, <2>1, <2>2, <2>3, <2>4 DEF Mapped
    <3>3. \A x \in Objs : x # b => Mapped(x)' = Mapped(x) BY <2>1, <2>3 DEF Mapped
    <3> QED BY <1>0, <1>2, <2>2, <2>3, <3>1, <3>2, <3>3 DEF RefsCounted
  <2>13. ASSUME ~TryEvicts PROVE EvictInv'
    <3>0. SnapInv /\ PageInv /\ MappedCached BY <1>0, <2>13 DEF EvictInv
    <3>1. EvictOK(t, "hold", loc[t])' BY <1>0, <2>1, <3>0 DEF SnapInv, EvictOK, RemovesAt
    <3>2. ASSUME NEW u \in All, u # t PROVE EvictOK(u, pc[u], loc[u])'
      <4>1. EvictOK(u, pc[u], loc[u]) /\ ThreadOK(u, pc[u], loc[u])
        BY <1>0, <3>0 DEF SnapInv, ThreadsInv
      <4>2. RemovesAt(pc[u]) => loc[u].b \in Made BY <4>1 DEF ThreadOK, HasBlock
      <4> QED BY <2>1, <2>3, <2>8, <3>2, <4>1, <4>2 DEF EvictOK, RemovesAt
    <3>3. SnapInv'
      <4>1. \A u \in All : EvictOK(u, pc[u], loc[u])' BY <2>1, <2>3, <3>1, <3>2
      <4> QED BY <1>0, <2>1, <2>2, <2>3, <2>8, <3>0, <4>1 DEF SnapInv, TypeOK
    <3>4. /\ \A x \in Made : \A g \in Pages : g # p => (Owns(x, g)' <=> Owns(x, g))
          /\ \A x \in Made : x # b => (Owns(x, p)' <=> Owns(x, p))
          /\ Owns(b, p)'
      BY <1>0, <1>2, <2>1, <2>2, <2>3, CacheAssumption DEF Owns, All
    <3>5. (\A x \in Made : ~Owns(x, p)) /\ \A u \in Threads : loc[u].pa # p
      BY <1>0, <1>4, <2>4, <3>0 DEF PageInv, TypeOK
    <3>6. PageInv'
      <4>1. \A o1, o2 \in Made : \A g \in Pages : Owns(o1, g)' /\ Owns(o2, g)' => o1 = o2
        BY <3>0, <3>4, <3>5 DEF PageInv
      <4>2. \A g \in Pages : g # p =>
              pages'[g] = (IF \E o \in Made : Owns(o, g)' THEN 1 ELSE 0) + maps[g]
                            + (IF \E u \in Threads : loc[u].pa = g THEN 1 ELSE 0)
        BY <2>3, <3>0, <3>4 DEF PageInv
      <4>3. pages'[p] = (IF \E o \in Made : Owns(o, p)' THEN 1 ELSE 0) + maps[p]
                            + (IF \E u \in Threads : loc[u].pa = p THEN 1 ELSE 0)
        BY <2>3, <2>4, <3>4, <3>5
      <4> QED BY <2>1, <2>3, <4>1, <4>2, <4>3 DEF PageInv
    <3>7. MappedCached'
      BY <1>0, <1>2, <2>1, <2>3, <3>0, CacheAssumption DEF MappedCached, TypeOK
    <3> QED BY <3>3, <3>6, <3>7 DEF EvictInv
  <2> QED
    BY <1>0, <2>1, <2>5, <2>6, <2>7, <2>9, <2>10, <2>11, <2>12, <2>13 DEF IInv, CoreInv
<1> QED BY <1>3, <1>4 DEF Fill

\* A mark changes nothing else.
LEMMA TryevictStep ==
    ASSUME IInv, NEW t \in Threads, Tryevict(t), UNCHANGED data
    PROVE  IInv'
<1>0. /\ TypeOK /\ GetsInv /\ ObjsInv /\ ThreadsInv /\ Unique /\ Pending /\ RefsCounted
      /\ ~Maps => \A p \in Pages : maps[p] = 0
      /\ TryEvicts /\ pc[t] = "hold" /\ Made \subseteq Objs
  BY MadeObjs DEF IInv, CoreInv, Tryevict, At
<1>1. PICK b \in Objs : b = loc[t].b /\ b \in Made BY <1>0, HeldCached DEF HoldsAt
<1> DEFINE r == [obj[b] EXCEPT !.tryevict = TRUE]
<1>2. /\ obj' = [obj EXCEPT ![b] = r]
      /\ UNCHANGED <<table, nobj, ngets, nevicts, pages, pins, maps, mutex, pc, loc, ev, data>>
  BY <1>1 DEF Tryevict
<1>3. /\ r \in ObjRecs /\ r.page = obj[b].page /\ r.key = obj[b].key /\ r.refcnt = obj[b].refcnt
      /\ r.remove = obj[b].remove /\ r.locked = obj[b].locked
  <2>1. obj[b] \in ObjRecs /\ r \in ObjRecs BY <1>0, <1>1, ObjType, ObjFields
  <2> QED BY <2>1 DEF ObjRecs
<1> HIDE DEF r
<1>4. /\ \A x \in Objs : /\ obj'[x].page = obj[x].page /\ obj'[x].key = obj[x].key
                         /\ obj'[x].refcnt = obj[x].refcnt /\ obj'[x].remove = obj[x].remove
                         /\ obj'[x].locked = obj[x].locked
                         /\ x # b => obj'[x] = obj[x]
      /\ Made' = Made
  BY <1>0, <1>2, <1>3 DEF TypeOK, Made
<1>5. TypeOK' BY <1>0, <1>2, <1>3 DEF TypeOK
<1>6. GetsInv' /\ Unique' BY <1>0, <1>2 DEF GetsInv, Lookers, Unique
<1>7. ObjsInv' BY <1>0, <1>1, <1>2, <1>4 DEF ObjsInv, Made, TypeOK
<1>8. ThreadsInv' BY <1>0, <1>2, <1>4 DEF ThreadsInv, ThreadOK, HasBlock
<1>9. Pending' BY <1>0, <1>2, <1>4 DEF Pending
<1>10. RefsCounted' BY <1>0, <1>2, <1>4 DEF RefsCounted, Holders, Holds, Mapped
<1> QED BY <1>0, <1>2, <1>5, <1>6, <1>7, <1>8, <1>9, <1>10 DEF IInv, CoreInv

\* pin: the new mapping is one of the block that has the page, and of no other.
LEMMA PinStep ==
    ASSUME IInv, ~(TryEvicts /\ Maps), NEW t \in Threads, Pin(t), UNCHANGED data
    PROVE  IInv'
<1>0. /\ TypeOK /\ GetsInv /\ ObjsInv /\ ThreadsInv /\ Unique /\ Pending /\ RefsCounted
      /\ Maps /\ ~TryEvicts /\ SnapInv /\ PageInv /\ MappedCached
      /\ t \in All /\ t # Evictor /\ pc[t] = "hold" /\ ThreadOK(t, pc[t], loc[t]) /\ Made \subseteq Objs
  BY CacheAssumption, MadeObjs DEF IInv, CoreInv, EvictInv, All, Pin, At, ThreadsInv
<1>1. PICK b \in Made : b = loc[t].b BY <1>0 DEF ThreadOK, HasBlock, HoldsAt
<1>2. b \in Objs /\ table[obj[b].key] = b /\ ~obj[b].remove /\ obj[b].page # None
  BY <1>0, <1>1, HeldCached DEF HoldsAt, ThreadOK, HasBlock
<1>3. PICK p \in Pages : p = obj[b].page BY <1>0, <1>2, ObjFields
<1>4. CASE pins[p] \notin {None, b}
  <2>1. UNCHANGED <<table, obj, nobj, ngets, nevicts, pages, pins, maps, mutex, pc, loc, ev>>
    BY <1>1, <1>3, <1>4 DEF Pin
  <2> QED BY <1>0, <2>1, StillStep DEF TypeOK
<1>5. CASE pins[p] \in {None, b}
  <2>1. /\ Recounted(b, obj[b].refcnt + 1) /\ pages' = [pages EXCEPT ![p] = pages[p] + 1]
        /\ pins' = [pins EXCEPT ![p] = b] /\ maps' = [maps EXCEPT ![p] = maps[p] + 1]
        /\ UNCHANGED <<table, nobj, ngets, nevicts, mutex, pc, loc, ev, data>>
    BY <1>1, <1>3, <1>5 DEF Pin, PinUp, PageUp, Recounted
  <2>2. obj[b].refcnt + 1 \in Nat /\ obj[b].refcnt \in Nat BY <1>0, <1>2, ObjFields
  <2>3. /\ obj' \in [Objs -> ObjRecs] /\ obj'[b].refcnt = obj[b].refcnt + 1
        /\ \A o \in Objs : /\ o # b => obj'[o] = obj[o]
                           /\ obj'[o].key = obj[o].key /\ obj'[o].page = obj[o].page
                           /\ obj'[o].remove = obj[o].remove
                           /\ obj'[o].tryevict = obj[o].tryevict
                           /\ obj'[o].locked = obj[o].locked
    BY <1>0, <1>2, <2>1, <2>2, RecountedObj
  <2>4. ObjsInv' /\ Made' = Made /\ \A u, q, l : ThreadOK(u, q, l)' <=> ThreadOK(u, q, l)
    BY <2>1, <2>2, RecountFrame
  <2>5. /\ maps'[p] = maps[p] + 1 /\ \A g \in Pages : g # p => maps'[g] = maps[g]
        /\ pages'[p] = pages[p] + 1 /\ \A g \in Pages : g # p => pages'[g] = pages[g]
        /\ pins'[p] = b /\ \A g \in Pages : g # p => pins'[g] = pins[g]
        /\ maps[p] \in Nat /\ pages[p] \in Nat
    BY <1>0, <2>1 DEF TypeOK
  <2>6. TypeOK' BY <1>0, <1>2, <2>1, <2>3 DEF TypeOK
  <2>7. GetsInv' /\ Unique' /\ ThreadsInv'
    BY <1>0, <2>1, <2>4 DEF GetsInv, Lookers, Unique, ThreadsInv
  <2>8. Pending' BY <1>0, <2>1, <2>3, <2>4 DEF Pending
  <2>9. RefsCounted'
    <3>1. \A o : Holders(o)' = Holders(o) BY <2>1 DEF Holders, Holds
    <3>2. Mapped(b) = maps[p] /\ Mapped(b)' = maps[p] + 1
      BY <1>2, <1>3, <2>1, <2>3, <2>5 DEF Mapped
    <3>3. ASSUME NEW o \in Objs, o # b PROVE Mapped(o)' = Mapped(o)
      <4>1. ~(obj[o].page = p /\ table[obj[o].key] = o)
        <5>1. obj[o].page = p => o \in Made
          BY <1>0, CacheAssumption DEF ObjsInv, NullObj, Made, Objs, TypeOK
        <5> QED BY <1>0, <1>2, <1>3, <3>3, <5>1 DEF PageInv, Owns
      <4> QED BY <1>0, <2>1, <2>3, <2>5, <4>1, ObjFields DEF Mapped
    <3>4. Cardinality(Holders(b)) \in Nat BY CountType DEF Holders
    <3>5. obj'[b].refcnt = Cardinality(Holders(b)') + Mapped(b)' /\ ~obj'[b].remove
      BY <1>0, <1>2, <2>2, <2>3, <2>5, <3>1, <3>2, <3>4 DEF RefsCounted
    <3> QED BY <1>0, <2>3, <3>1, <3>3, <3>5 DEF RefsCounted
  <2>10. SnapInv'
    <3>1. ASSUME NEW u \in All PROVE EvictOK(u, pc[u], loc[u])'
      <4>1. EvictOK(u, pc[u], loc[u]) /\ ThreadOK(u, pc[u], loc[u])
        BY <1>0 DEF SnapInv, ThreadsInv
      <4>2. RemovesAt(pc[u]) => loc[u].b \in Objs BY <1>0, <4>1 DEF ThreadOK, HasBlock
      <4> QED BY <2>1, <2>3, <4>1, <4>2 DEF EvictOK, RemovesAt
    <3> QED BY <1>0, <2>1, <2>3, <2>4, <3>1 DEF SnapInv, TypeOK
  <2>11. PageInv'
    <3>1. \A o \in Made : \A g : Owns(o, g)' <=> Owns(o, g) BY <1>0, <2>1, <2>3 DEF Owns
    <3>2. \A g \in Pages : g # p =>
            pages'[g] = (IF \E o \in Made : Owns(o, g)' THEN 1 ELSE 0) + maps'[g]
                          + (IF \E u \in Threads : loc'[u].pa = g THEN 1 ELSE 0)
      BY <1>0, <2>1, <2>5, <3>1 DEF PageInv
    <3>3. pages'[p] = (IF \E o \in Made : Owns(o, p)' THEN 1 ELSE 0) + maps'[p]
                          + (IF \E u \in Threads : loc'[u].pa = p THEN 1 ELSE 0)
      BY <1>0, <2>1, <2>5, <3>1 DEF PageInv
    <3> QED BY <1>0, <2>4, <3>1, <3>2, <3>3 DEF PageInv
  <2>12. MappedCached'
    <3>1. pins'[p] # None /\ table'[obj'[pins'[p]].key] = pins'[p] /\ obj'[pins'[p]].page = p
      BY <1>2, <1>3, <2>1, <2>3, <2>5, CacheAssumption DEF Objs
    <3>2. ASSUME NEW g \in Pages, g # p, maps'[g] > 0
          PROVE  pins'[g] # None /\ table'[obj'[pins'[g]].key] = pins'[g] /\ obj'[pins'[g]].page = g
      <4>1. pins[g] # None /\ table[obj[pins[g]].key] = pins[g] /\ obj[pins[g]].page = g
        BY <1>0, <2>5, <3>2 DEF MappedCached
      <4>2. pins[g] \in Objs BY <1>0, <4>1 DEF TypeOK
      <4> QED BY <2>1, <2>3, <2>5, <3>2, <4>1, <4>2
    <3> QED BY <3>1, <3>2 DEF MappedCached
  <2> QED
    BY <1>0, <2>4, <2>6, <2>7, <2>8, <2>9, <2>10, <2>11, <2>12 DEF IInv, CoreInv, EvictInv
<1> QED BY <1>4, <1>5

\* unpin: the reference of a mapping becomes one of the thread.
LEMMA UnpinStep ==
    ASSUME IInv, ~(TryEvicts /\ Maps), NEW t \in Threads, NEW p \in Pages, Unpin(t, p), UNCHANGED data
    PROVE  IInv'
<1>0. /\ TypeOK /\ GetsInv /\ ObjsInv /\ ThreadsInv /\ Unique /\ Pending /\ RefsCounted
      /\ t \in All /\ t # Evictor /\ pc[t] = "idle" /\ mutex = None /\ maps[p] > 0
      /\ Made \subseteq Objs
  BY CacheAssumption, MadeObjs DEF IInv, CoreInv, All, Unpin, At
<1>1. Maps /\ ~TryEvicts /\ SnapInv /\ PageInv /\ MappedCached
  BY <1>0, CacheAssumption DEF IInv, CoreInv, EvictInv, TypeOK
<1>2. PICK b \in Objs : b = pins[p] /\ table[obj[b].key] = b /\ obj[b].page = p
  BY <1>0, <1>1 DEF MappedCached, TypeOK
<1>3. b \in Made /\ b # None
  BY <1>0, <1>2, CacheAssumption DEF ObjsInv, NullObj, Made, Objs, TypeOK
<1> DEFINE l == [NullLoc EXCEPT !.b = b, !.pa = p]
<1>4. /\ maps' = [maps EXCEPT ![p] = maps[p] - 1] /\ mutex' = t
      /\ pc' = [pc EXCEPT ![t] = "unpin"] /\ loc' = [loc EXCEPT ![t] = l]
      /\ UNCHANGED <<table, obj, nobj, ngets, nevicts, pages, pins, ev, data>>
  BY <1>2, <1>3 DEF Unpin, Goto
<1>5. l \in LocRecs /\ l.b = b /\ l.pa = p BY DEF NullLoc, LocRecs
<1> HIDE DEF l
<1>6. /\ pc'[t] = "unpin" /\ loc'[t] = l
      /\ \A u \in All : u # t => pc'[u] = pc[u] /\ loc'[u] = loc[u]
      /\ maps'[p] = maps[p] - 1 /\ \A g \in Pages : g # p => maps'[g] = maps[g]
      /\ maps[p] \in Nat /\ Made' = Made
  BY <1>0, <1>4 DEF TypeOK, Made
<1>7. TypeOK' BY <1>0, <1>4, <1>5 DEF TypeOK, Places
<1>8. GetsInv'
  <2>1. Lookers' = Lookers BY <1>0, <1>6 DEF Lookers, LooksAt, All
  <2> QED BY <1>0, <1>4, <2>1 DEF GetsInv
<1>9. ObjsInv' BY <1>0, <1>4 DEF ObjsInv, Made
<1>10. ThreadsInv'
  <2>1. ThreadOK(t, "unpin", l)
    BY <1>0, <1>2, <1>3, <1>5, CacheAssumption DEF ThreadOK, LooksAt, HasBlock, HoldsAt, RemovesAt
  <2> QED BY <1>0, <1>4, <1>6, <2>1 DEF ThreadsInv, ThreadOK
<1>11. Unique' /\ Pending' BY <1>0, <1>4, <1>6 DEF Unique, Pending, All
<1>12. RefsCounted'
  <2>1. Holders(b)' = Holders(b) \cup {t} /\ t \notin Holders(b)
    BY <1>0, <1>5, <1>6 DEF Holders, Holds, All
  <2>2. Cardinality(Holders(b)') = Cardinality(Holders(b)) + 1 /\ Cardinality(Holders(b)) \in Nat
    BY <2>1, CountUp, CountType DEF Holders
  <2>3. \A o : o # b => Holders(o)' = Holders(o)
    BY <1>0, <1>5, <1>6 DEF Holders, Holds, All
  <2>4. Mapped(b) = maps[p] /\ Mapped(b)' = maps[p] - 1
    BY <1>2, <1>4, <1>6, CacheAssumption DEF Mapped
  <2>5. ASSUME NEW o \in Objs, o # b PROVE Mapped(o)' = Mapped(o)
    <3>1. ~(obj[o].page = p /\ table[obj[o].key] = o)
      <4>1. obj[o].page = p => o \in Made
        BY <1>0, CacheAssumption DEF ObjsInv, NullObj, Made, Objs, TypeOK
      <4> QED BY <1>1, <1>2, <1>3, <2>5, <4>1 DEF PageInv, Owns
    <3> QED BY <1>0, <1>4, <1>6, <3>1, ObjFields DEF Mapped
  <2>6. obj[b].refcnt = Cardinality(Holders(b)') + Mapped(b)'
    BY <1>0, <1>6, <2>2, <2>4 DEF RefsCounted
  <2> QED BY <1>0, <1>4, <2>3, <2>5, <2>6 DEF RefsCounted
<1>13. SnapInv'
  <2>1. EvictOK(t, "unpin", l)'
    BY <1>0, <1>4, <1>5, CacheAssumption DEF EvictOK, RemovesAt
  <2>2. ASSUME NEW u \in All, u # t PROVE EvictOK(u, pc[u], loc[u])'
    <3>1. EvictOK(u, pc[u], loc[u]) BY <1>1 DEF SnapInv
    <3> QED BY <1>0, <1>4, <1>6, <2>2, <3>1, CacheAssumption DEF EvictOK, RemovesAt, All
  <2> QED BY <1>1, <1>4, <1>6, <2>1, <2>2 DEF SnapInv
<1>14. PageInv'
  <2>1. \A o \in Made : \A g : Owns(o, g)' <=> Owns(o, g)
    BY <1>0, <1>4, <1>6 DEF Owns, All
  <2>2. \A u \in Threads : loc[u].pa = None
    BY <1>0, <1>1, CacheAssumption DEF SnapInv, EvictOK, All
  <2>3. \A g \in Pages : g # p =>
          pages'[g] = (IF \E o \in Made : Owns(o, g)' THEN 1 ELSE 0) + maps'[g]
                        + (IF \E u \in Threads : loc'[u].pa = g THEN 1 ELSE 0)
    <3>1. \A g \in Pages : g # p => ~(\E u \in Threads : loc'[u].pa = g) /\ ~(\E u \in Threads : loc[u].pa = g)
      BY <1>5, <1>6, <2>2, CacheAssumption DEF All
    <3> QED BY <1>1, <1>4, <1>6, <2>1, <3>1 DEF PageInv
  <2>4. pages'[p] = (IF \E o \in Made : Owns(o, p)' THEN 1 ELSE 0) + maps'[p]
                        + (IF \E u \in Threads : loc'[u].pa = p THEN 1 ELSE 0)
    <3>1. (\E u \in Threads : loc'[u].pa = p) /\ ~(\E u \in Threads : loc[u].pa = p)
      BY <1>5, <1>6, <2>2, CacheAssumption
    <3> QED BY <1>1, <1>4, <1>6, <2>1, <3>1 DEF PageInv
  <2> QED BY <1>1, <1>6, <2>1, <2>3, <2>4 DEF PageInv
<1>15. MappedCached' BY <1>1, <1>4, <1>6 DEF MappedCached
<1> QED
  BY <1>0, <1>1, <1>4, <1>7, <1>8, <1>9, <1>10, <1>11, <1>12, <1>13, <1>14, <1>15 DEF IInv, CoreInv, EvictInv

\* The VM system's reference to the page goes.
LEMMA UnpinDoneStep ==
    ASSUME IInv, NEW t \in Threads, UnpinDone(t), UNCHANGED data
    PROVE  IInv'
<1>0. /\ TypeOK /\ t \in All /\ t # Evictor /\ pc[t] = "unpinned" /\ ThreadOK(t, pc[t], loc[t])
      /\ NullLoc \in LocRecs /\ NullLoc.pa = None
  BY CacheAssumption, LocType DEF IInv, CoreInv, All, UnpinDone, At, ThreadsInv
<1>1. PICK p \in Pages : p = loc[t].pa BY <1>0 DEF ThreadOK
<1>2. /\ pages' = IF pages[p] = 0 THEN pages ELSE [pages EXCEPT ![p] = pages[p] - 1]
      /\ mutex' = None /\ loc' = [loc EXCEPT ![t] = NullLoc] /\ pc' = [pc EXCEPT ![t] = "idle"]
      /\ UNCHANGED <<table, obj, nobj, ngets, nevicts, pins, maps, ev, data>>
  BY <1>1 DEF UnpinDone, Refdown, Goto
<1>3. TypeOK'
  <2>1. pages' \in [Pages -> Nat] BY <1>0, <1>2 DEF TypeOK
  <2> QED BY <1>0, <1>2, <2>1 DEF TypeOK, Places
<1>4. /\ CoreInv'
      /\ pc'[t] = "idle" /\ loc'[t] = NullLoc
      /\ \A u \in All : u # t => pc'[u] = pc[u] /\ loc'[u] = loc[u]
  <2>1. ThreadOK(t, "idle", NullLoc) /\ "idle" \in Places
    BY <1>0 DEF ThreadOK, LooksAt, HasBlock, HoldsAt, RemovesAt, Places
  <2> QED BY <1>0, <1>2, <1>3, <2>1, CoreMove DEF HoldsAt, LooksAt, IInv, CoreInv, Pending
<1>5. ASSUME ~TryEvicts PROVE EvictInv'
  <2>0. SnapInv /\ PageInv /\ MappedCached BY <1>5 DEF IInv, EvictInv
  <2>1. mutex = t /\ (\A u \in Threads : u # t => loc[u].pa = None) /\ Made' = Made
    BY <1>0, <1>2, <2>0, CacheAssumption DEF SnapInv, EvictOK, All, Made
  <2>2. SnapInv'
    <3>1. EvictOK(t, "idle", NullLoc)'
      BY <1>0, <1>2, CacheAssumption DEF EvictOK, RemovesAt
    <3>2. ASSUME NEW u \in All, u # t PROVE EvictOK(u, pc[u], loc[u])'
      <4>1. EvictOK(u, pc[u], loc[u]) BY <2>0 DEF SnapInv
      <4> QED BY <1>2, <1>4, <2>1, <3>2, <4>1, CacheAssumption DEF EvictOK, RemovesAt, All
    <3> QED BY <1>2, <1>4, <2>0, <2>1, <3>1, <3>2 DEF SnapInv
  <2>3. \A o \in Made : \A g : Owns(o, g)' <=> Owns(o, g)
    BY <1>0, <1>2, <1>4 DEF Owns, All
  <2>4. PageInv'
    <3>1. \A u \in Threads : loc'[u].pa = None BY <1>0, <1>4, <2>1 DEF All
    <3>2. pages[p] \in Nat /\ pages[p] > 0 /\ maps[p] \in Nat
      BY <1>0, <1>1, <2>0 DEF PageInv, TypeOK
    <3>3. pages'[p] = pages[p] - 1 /\ \A g \in Pages : g # p => pages'[g] = pages[g]
      BY <1>0, <1>2, <3>2 DEF TypeOK
    <3>4. \A g \in Pages : g # p =>
            pages'[g] = (IF \E o \in Made : Owns(o, g)' THEN 1 ELSE 0) + maps'[g]
                          + (IF \E u \in Threads : loc'[u].pa = g THEN 1 ELSE 0)
      <4>1. \A g \in Pages : g # p => ~(\E u \in Threads : loc'[u].pa = g) /\ ~(\E u \in Threads : loc[u].pa = g)
        BY <1>1, <2>1, <3>1, CacheAssumption
      <4> QED BY <1>2, <2>0, <2>3, <3>3, <4>1 DEF PageInv
    <3>5. pages'[p] = (IF \E o \in Made : Owns(o, p)' THEN 1 ELSE 0) + maps'[p]
                          + (IF \E u \in Threads : loc'[u].pa = p THEN 1 ELSE 0)
      <4>1. ~(\E u \in Threads : loc'[u].pa = p) /\ (\E u \in Threads : loc[u].pa = p)
        BY <1>1, <3>1, CacheAssumption
      <4> QED BY <1>2, <2>0, <2>3, <3>2, <3>3, <4>1 DEF PageInv
    <3> QED BY <2>0, <2>1, <2>3, <3>4, <3>5 DEF PageInv
  <2>5. MappedCached' BY <1>2, <2>0 DEF MappedCached
  <2> QED BY <2>2, <2>4, <2>5 DEF EvictInv
<1> QED BY <1>4, <1>5 DEF IInv

\* Only with Tryevict does a release get here.
LEMMA DeletePinStep ==
    ASSUME IInv, NEW t \in Threads, DeletePin(t), UNCHANGED data
    PROVE  IInv'
<1>0. /\ TypeOK /\ GetsInv /\ ObjsInv /\ t \in All /\ t # Evictor /\ pc[t] = "delpin" /\ ThreadOK(t, pc[t], loc[t])
      /\ loc[t] \in LocRecs
  BY CacheAssumption DEF IInv, CoreInv, All, DeletePin, At, ThreadsInv, TypeOK
<1>1. TryEvicts BY <1>0 DEF IInv, EvictInv, SnapInv, EvictOK
<1>2. PICK b \in Made : b = loc[t].b BY <1>0 DEF ThreadOK, HasBlock
<1> DEFINE l == [loc[t] EXCEPT !.key = obj[b].key]
<1>3. /\ pc' = [pc EXCEPT ![t] = "rget"] /\ loc' = [loc EXCEPT ![t] = l]
      /\ pins' = [pins EXCEPT ![obj[b].page] = None]
      /\ UNCHANGED <<table, obj, nobj, ngets, nevicts, pages, maps, mutex, ev, data>>
  BY <1>2 DEF DeletePin, Goto
<1>4. l \in LocRecs /\ l.b = b /\ l.key = obj[b].key
  <2>1. obj[b].key \in Keys BY <1>0 DEF ObjsInv
  <2> QED BY <1>0, <1>2, <2>1 DEF LocRecs
<1> HIDE DEF l
<1>5. TypeOK' BY <1>0, <1>3, <1>4 DEF TypeOK, Places
<1>6. ThreadOK(t, "rget", l) /\ "rget" \in Places
  BY <1>0, <1>2, <1>4 DEF ThreadOK, LooksAt, HasBlock, HoldsAt, RemovesAt, Places
<1>7. CoreInv'
  BY <1>0, <1>3, <1>4, <1>5, <1>6, CoreMove DEF HoldsAt, LooksAt, IInv, CoreInv, Pending
<1> QED BY <1>1, <1>7 DEF IInv

(***************************************************************************)
(* Removal.                                                                *)
(***************************************************************************)
\* An object without references is marked, by one thread.
LEMMA RemoveCasStep ==
    ASSUME IInv, NEW t \in All, RemoveCas(t), UNCHANGED data
    PROVE  IInv'
<1>0. /\ TypeOK /\ GetsInv /\ ObjsInv /\ ThreadsInv /\ Unique /\ Pending /\ RefsCounted
      /\ ~Maps => \A p \in Pages : maps[p] = 0
      /\ ~TryEvicts => EvictInv
      /\ pc[t] = "rcas" /\ ThreadOK(t, pc[t], loc[t]) /\ Made \subseteq Objs
  BY MadeObjs DEF IInv, CoreInv, RemoveCas, At, ThreadsInv
<1>1. CASE ~Unused(loc[t].e) BY <1>0, <1>1, BackStep DEF RemoveCas, RemovesAt
<1>2. CASE Unused(loc[t].e)
  <2>1. PICK e \in Made : e = loc[t].e BY <1>0 DEF ThreadOK
  <2>2. PICK b \in Made : b = loc[t].b BY <1>0 DEF ThreadOK, HasBlock, RemovesAt
  <2>3. /\ e \in Objs /\ b \in Objs /\ obj[e].refcnt = 0 /\ ~obj[e].remove /\ obj[e].key = obj[b].key
        /\ table[obj[e].key] = e /\ obj[e] \in ObjRecs
    BY <1>0, <1>2, <2>1, <2>2, ObjFields DEF Unused, ThreadOK, RemovesAt, ObjsInv
  <2>4. obj[b].page # None
    <3>1. b # e => obj[b].remove BY <1>0, <2>3 DEF ObjsInv
    <3>2. obj[b].refcnt = 0 BY <1>0, <2>3, <3>1 DEF RefsCounted
    <3> QED BY <3>2, UnusedFilled
  <2> DEFINE r == [obj[e] EXCEPT !.remove = TRUE]
  <2>5. /\ obj' = [obj EXCEPT ![e] = r] /\ pc' = [pc EXCEPT ![t] = "del"]
        /\ UNCHANGED <<table, nobj, ngets, nevicts, pages, pins, maps, mutex, loc, ev, data>>
    BY <1>2, <2>1 DEF RemoveCas, Goto
  <2>6. /\ r \in ObjRecs /\ r.key = obj[e].key /\ r.page = obj[e].page /\ r.refcnt = 0 /\ r.remove
        /\ r.tryevict = obj[e].tryevict /\ r.locked = obj[e].locked
    BY <2>3 DEF ObjRecs
  <2> HIDE DEF r
  <2>7. /\ pc'[t] = "del" /\ \A u \in All : u # t => pc'[u] = pc[u]
        /\ obj'[e].remove /\ Made' = Made
        /\ \A o \in Objs : /\ o # e => obj'[o] = obj[o]
                           /\ obj'[o].key = obj[o].key /\ obj'[o].page = obj[o].page
                           /\ obj'[o].refcnt = obj[o].refcnt /\ (obj[o].remove => obj'[o].remove)
                           /\ obj'[o].tryevict = obj[o].tryevict /\ obj'[o].locked = obj[o].locked
    BY <1>0, <2>3, <2>5, <2>6 DEF TypeOK, Made
  <2>8. TypeOK' BY <1>0, <2>3, <2>5, <2>6 DEF TypeOK, Places
  <2>9. GetsInv'
    <3>1. Lookers' = Lookers BY <1>0, <2>7 DEF Lookers, LooksAt, All
    <3> QED BY <1>0, <2>5, <3>1 DEF GetsInv
  <2>10. ObjsInv'
    <3>1. \A o \in Objs : o > nobj => o # e BY <1>0 DEF Made, Objs, TypeOK
    <3> QED BY <1>0, <2>3, <2>5, <2>7, <3>1 DEF ObjsInv
  <2>11. ThreadsInv'
    <3>1. ThreadOK(t, "del", loc[t])'
      BY <1>0, <2>1, <2>2, <2>3, <2>4, <2>5, <2>7 DEF ThreadOK, LooksAt, HasBlock, HoldsAt, RemovesAt
    <3>2. ASSUME NEW u \in All, u # t PROVE ThreadOK(u, pc[u], loc[u])'
      <4>1. ThreadOK(u, pc[u], loc[u]) BY <1>0 DEF ThreadsInv
      <4>2. \A o \in Made : obj'[o].key = obj[o].key /\ obj'[o].page = obj[o].page /\ (obj[o].remove => obj'[o].remove)
        BY <1>0, <2>7
      <4> QED
        BY <2>5, <2>7, <3>2, <4>1, <4>2 DEF ThreadOK, HasBlock, HoldsAt, RemovesAt, LooksAt
    <3> QED BY <2>5, <2>7, <3>1, <3>2 DEF ThreadsInv
  <2>12. Unique'
    <3>1. \A u \in All : pc[u] = "del" => loc[u].e # e
      BY <1>0, <2>3 DEF ThreadsInv, ThreadOK
    <3> QED BY <1>0, <2>1, <2>5, <2>7, <3>1 DEF Unique
  <2>13. Pending'
    <3>1. \A o \in Made : o # e => obj'[o] = obj[o] BY <1>0, <2>7
    <3>2. \A o \in Made : obj'[o].page = obj[o].page /\ obj'[o].key = obj[o].key /\ obj'[o].locked = obj[o].locked
      BY <1>0, <2>7
    <3> QED BY <1>0, <2>1, <2>5, <2>7, <3>1, <3>2 DEF Pending, All
  <2>14. RefsCounted'
    <3>1. \A o : Holders(o)' = Holders(o) BY <1>0, <2>5, <2>7 DEF Holders, Holds, All
    <3>2. \A o \in Objs : Mapped(o)' = Mapped(o) BY <2>5, <2>7 DEF Mapped
    <3>3. \A o \in Objs : obj'[o].remove => obj'[o].refcnt = 0
      BY <1>0, <2>3, <2>7 DEF RefsCounted
    <3> QED BY <1>0, <2>7, <3>1, <3>2, <3>3 DEF RefsCounted
  <2>15. ASSUME ~TryEvicts PROVE EvictInv'
    <3>0. SnapInv /\ PageInv /\ MappedCached BY <1>0, <2>15 DEF EvictInv
    <3>1. t = Evictor /\ e = b /\ b \notin ev.objs
      BY <1>0, <2>1, <2>2, <3>0 DEF SnapInv, EvictOK, RemovesAt
    <3>2. EvictOK(t, "del", loc[t])' BY <2>1, <2>2, <2>5, <3>1 DEF EvictOK, RemovesAt
    <3>3. ASSUME NEW u \in All, u # t PROVE EvictOK(u, pc[u], loc[u])'
      <4>1. EvictOK(u, pc[u], loc[u]) BY <3>0 DEF SnapInv
      <4> QED BY <2>5, <2>7, <3>1, <3>3, <4>1 DEF EvictOK, RemovesAt
    <3>4. SnapInv' BY <1>0, <2>5, <2>7, <3>0, <3>1, <3>2, <3>3 DEF SnapInv, TypeOK
    <3>5. \A o \in Made : \A p : Owns(o, p)' <=> Owns(o, p)
      BY <1>0, <2>5, <2>7, <3>1 DEF Owns
    <3>6. PageInv' BY <2>5, <2>7, <3>0, <3>5 DEF PageInv
    <3>7. MappedCached' BY <1>0, <2>5, <2>7, <3>0 DEF MappedCached, TypeOK
    <3> QED BY <3>4, <3>6, <3>7 DEF EvictInv
  <2> QED
    BY <1>0, <2>5, <2>8, <2>9, <2>10, <2>11, <2>12, <2>13, <2>14, <2>15 DEF IInv, CoreInv
<1> QED BY <1>1, <1>2

\* The marked object is the one in the table.
LEMMA RemoveDelStep ==
    ASSUME IInv, NEW t \in All, RemoveDel(t), UNCHANGED data
    PROVE  IInv'
<1>0. /\ TypeOK /\ GetsInv /\ ObjsInv /\ ThreadsInv /\ Unique /\ Pending /\ RefsCounted
      /\ ~Maps => \A p \in Pages : maps[p] = 0
      /\ ~TryEvicts => EvictInv
      /\ pc[t] = "del" /\ ThreadOK(t, pc[t], loc[t]) /\ Made \subseteq Objs
  BY MadeObjs DEF IInv, CoreInv, RemoveDel, At, ThreadsInv
<1>1. PICK e \in Made : e = loc[t].e BY <1>0 DEF ThreadOK
<1>2. PICK k \in Keys : k = obj[e].key BY <1>0 DEF ObjsInv
<1>3. /\ table[k] = e /\ obj[e].remove /\ e \in Objs /\ e # None
      /\ loc[t].b \in Made /\ obj[loc[t].b].page # None /\ loc[t].key = obj[loc[t].b].key
  BY <1>0, <1>1, <1>2, CacheAssumption DEF ThreadOK, HasBlock, RemovesAt, Objs
<1>4. /\ table' = [table EXCEPT ![k] = None] /\ pc' = [pc EXCEPT ![t] = "evictdone"]
      /\ UNCHANGED <<obj, nobj, ngets, nevicts, pages, pins, maps, mutex, loc, ev, data>>
  BY <1>1, <1>2, <1>3 DEF RemoveDel, Goto
<1>5. /\ pc'[t] = "evictdone" /\ (\A u \in All : u # t => pc'[u] = pc[u])
      /\ table'[k] = None /\ (\A j \in Keys : j # k => table'[j] = table[j])
      /\ Made' = Made
  BY <1>0, <1>4 DEF TypeOK, Made
<1>6. \A o \in Made : o # e => (table'[obj[o].key] = o <=> table[obj[o].key] = o)
  BY <1>0, <1>3, <1>5, CacheAssumption DEF ObjsInv, Objs
<1>7. Mapped(e) = 0 /\ Mapped(e)' = 0
  <2>1. obj[e].refcnt = 0 /\ obj[e].refcnt = Cardinality(Holders(e)) + Mapped(e)
    BY <1>0, <1>3 DEF RefsCounted
  <2>2. Cardinality(Holders(e)) \in Nat /\ Mapped(e) \in Nat
    BY <1>0, <1>3, CountType, ObjFields DEF Holders, Mapped, TypeOK
  <2> QED BY <1>2, <1>3, <1>4, <1>5, <2>1, <2>2 DEF Mapped
<1>8. TypeOK' BY <1>0, <1>4 DEF TypeOK, Places
<1>9. GetsInv'
  <2>1. Lookers' = Lookers BY <1>0, <1>5 DEF Lookers, LooksAt, All
  <2> QED BY <1>0, <1>4, <2>1 DEF GetsInv
<1>10. ObjsInv' BY <1>0, <1>2, <1>3, <1>4, <1>5, <1>6 DEF ObjsInv
<1>11. ThreadsInv'
  <2>1. ThreadOK(t, "evictdone", loc[t])'
    BY <1>0, <1>3, <1>4, <1>5 DEF ThreadOK, LooksAt, HasBlock, HoldsAt, RemovesAt
  <2>2. ASSUME NEW u \in All, u # t PROVE ThreadOK(u, pc[u], loc[u])'
    <3>1. ThreadOK(u, pc[u], loc[u]) BY <1>0 DEF ThreadsInv
    <3>2. pc[u] = "del" => loc[u].e # e /\ loc[u].e \in Made
      BY <1>0, <1>1, <2>2, <3>1 DEF Unique, ThreadOK
    <3>3. pc[u] = "del" => table'[obj[loc[u].e].key] = loc[u].e
      BY <1>6, <3>1, <3>2 DEF ThreadOK
    <3> QED
      BY <1>4, <1>5, <2>2, <3>1, <3>3 DEF ThreadOK, HasBlock, HoldsAt, RemovesAt, LooksAt
  <2> QED BY <1>4, <1>5, <2>1, <2>2 DEF ThreadsInv
<1>12. Unique' /\ Pending'
  <2>1. table'[obj[e].key] # e BY <1>2, <1>3, <1>5
  <2>2. \A o \in Made : table'[obj[o].key] = o => o # e /\ table[obj[o].key] = o
    BY <1>6, <2>1
  <2> QED BY <1>0, <1>1, <1>4, <1>5, <2>2 DEF Unique, Pending, All
<1>13. RefsCounted'
  <2>1. \A o : Holders(o)' = Holders(o) BY <1>0, <1>4, <1>5 DEF Holders, Holds, All
  <2>2. \A o \in Objs : o \notin Made => obj[o].page = None
    BY <1>0 DEF ObjsInv, Made, Objs, TypeOK, NullObj
  <2>3. \A o \in Objs : o # e => Mapped(o)' = Mapped(o) BY <1>4, <1>6, <2>2 DEF Mapped
  <2> QED BY <1>0, <1>4, <1>7, <2>1, <2>3 DEF RefsCounted
<1>14. ASSUME ~TryEvicts PROVE EvictInv'
  <2>0. SnapInv /\ PageInv /\ MappedCached BY <1>0, <1>14 DEF EvictInv
  <2>1. t = Evictor /\ loc[t].b = e BY <1>0, <1>1, <2>0 DEF SnapInv, EvictOK, RemovesAt
  <2>2. EvictOK(t, "evictdone", loc[t])'
    BY <1>0, <1>2, <1>3, <1>4, <1>5, <2>0, <2>1 DEF SnapInv, EvictOK, RemovesAt
  <2>3. ASSUME NEW u \in All, u # t PROVE EvictOK(u, pc[u], loc[u])'
    <3>1. EvictOK(u, pc[u], loc[u]) BY <2>0 DEF SnapInv
    <3> QED BY <1>4, <1>5, <2>1, <2>3, <3>1 DEF EvictOK, RemovesAt
  <2>4. SnapInv' BY <1>4, <1>5, <2>0, <2>2, <2>3 DEF SnapInv
  <2>5. \A o \in Made : \A p : Owns(o, p)' <=> Owns(o, p)
    BY <1>0, <1>2, <1>3, <1>4, <1>5, <1>6, <2>1 DEF Owns
  <2>6. PageInv' BY <1>4, <1>5, <2>0, <2>5 DEF PageInv
  <2>7. MappedCached'
    <3> SUFFICES ASSUME NEW p \in Pages, maps[p] > 0
                 PROVE  pins[p] # None /\ table'[obj[pins[p]].key] = pins[p] /\ obj[pins[p]].page = p
      BY <1>4 DEF MappedCached
    <3>1. pins[p] # None /\ table[obj[pins[p]].key] = pins[p] /\ obj[pins[p]].page = p
      BY <2>0 DEF MappedCached
    <3>2. pins[p] \in Objs BY <1>0, <3>1 DEF TypeOK
    <3>3. pins[p] \in Made
      BY <1>0, <3>1, <3>2, CacheAssumption DEF ObjsInv, NullObj, Made, Objs, TypeOK
    <3>4. pins[p] # e BY <1>0, <1>7, <3>1, CacheAssumption DEF Mapped, TypeOK
    <3> QED BY <1>6, <3>1, <3>3, <3>4
  <2> QED BY <2>4, <2>6, <2>7 DEF EvictInv
<1> QED BY <1>0, <1>4, <1>8, <1>9, <1>10, <1>11, <1>12, <1>13, <1>14 DEF IInv, CoreInv

\* Without Tryevict the page that is freed is the one of the removed block.
LEMMA EvictDoneStep ==
    ASSUME IInv, NEW t \in All, EvictDone(t), UNCHANGED data
    PROVE  IInv'
<1>0. /\ TypeOK /\ GetsInv /\ Made \subseteq Objs /\ pc[t] = "evictdone" /\ ThreadOK(t, pc[t], loc[t])
      /\ loc[t] \in LocRecs /\ loc[t].pa \in Pages \cup {None}
  BY MadeObjs, LocType DEF IInv, CoreInv, EvictDone, At, ThreadsInv, TypeOK
<1>1. PICK b \in Made : b = loc[t].b BY <1>0 DEF ThreadOK, HasBlock, RemovesAt
<1>2. PICK p \in Pages : p = obj[b].page BY <1>0, <1>1, ObjFields DEF ThreadOK
<1> DEFINE q == IF t = Evictor THEN "visit" ELSE IF loc[t].pa = None THEN "idle" ELSE "unpinned"
           l == IF t = Evictor THEN loc[t] ELSE [NullLoc EXCEPT !.pa = loc[t].pa]
<1>3. /\ pages' = IF pages[p] = 0 THEN pages ELSE [pages EXCEPT ![p] = pages[p] - 1]
      /\ pc' = [pc EXCEPT ![t] = q] /\ loc' = [loc EXCEPT ![t] = l]
      /\ ev' = IF t = Evictor THEN [ev EXCEPT !.did = @ + 1] ELSE ev
      /\ UNCHANGED <<table, obj, nobj, ngets, nevicts, pins, maps, mutex, data>>
  <2>1. pages' = IF pages[p] = 0 THEN pages ELSE [pages EXCEPT ![p] = pages[p] - 1]
    BY <1>1, <1>2 DEF EvictDone, Refdown
  <2>2. pc' = [pc EXCEPT ![t] = q] /\ loc' = [loc EXCEPT ![t] = l]
    BY <1>0 DEF EvictDone, Back, Return, Goto, TypeOK
  <2> QED BY <2>1, <2>2 DEF EvictDone
<1>4. q \in Places /\ l \in LocRecs /\ l.pa = loc[t].pa /\ (q = "unpinned" => l.pa \in Pages)
  BY <1>0, LocType DEF Places, NullLoc
<1>5. q \in {"visit", "idle", "unpinned"} /\ (q = "visit" <=> t = Evictor)
  OBVIOUS
<1> HIDE DEF q, l
<1>6. TypeOK' /\ ev'.objs = ev.objs
  <2>1. pages' \in [Pages -> Nat] BY <1>0, <1>3 DEF TypeOK
  <2>2. ev' \in [keys : SUBSET Keys, objs : SUBSET Objs, upto : Nat, did : Nat] /\ ev'.objs = ev.objs
    BY <1>0, <1>3 DEF TypeOK
  <2>3. pc' \in [All -> Places] /\ loc' \in [All -> LocRecs]
    BY <1>0, <1>3, <1>4 DEF TypeOK
  <2> QED BY <1>0, <1>3, <2>1, <2>2, <2>3 DEF TypeOK
<1>7. /\ CoreInv'
      /\ pc'[t] = q /\ loc'[t] = l
      /\ \A u \in All : u # t => pc'[u] = pc[u] /\ loc'[u] = loc[u]
  <2>1. ThreadOK(t, q, l)
    BY <1>0, <1>4, <1>5 DEF ThreadOK, LooksAt, HasBlock, HoldsAt, RemovesAt
  <2> QED
    BY <1>0, <1>3, <1>4, <1>5, <1>6, <2>1, CoreMove DEF HoldsAt, LooksAt, IInv, CoreInv, Pending
<1>8. ASSUME ~TryEvicts PROVE EvictInv'
  <2>0. SnapInv /\ PageInv /\ MappedCached BY <1>8 DEF IInv, EvictInv
  <2>1. t = Evictor /\ table[obj[b].key] # b /\ Made' = Made
    BY <1>0, <1>1, <1>3, <2>0 DEF SnapInv, EvictOK, RemovesAt, Made
  <2>2. SnapInv' BY <1>3, <1>5, <1>6, <1>7, <2>0, <2>1 DEF SnapInv, EvictOK, RemovesAt
  <2>3. /\ Owns(b, p) /\ \A g : ~Owns(b, g)'
        /\ \A o \in Made : o # b => \A g : Owns(o, g)' <=> Owns(o, g)
    BY <1>0, <1>1, <1>2, <1>3, <1>5, <1>7, <2>1 DEF Owns
  <2>4. \A u \in Threads : loc'[u].pa = loc[u].pa BY <1>4, <1>7 DEF All
  <2>5. PageInv'
    <3>1. pages[p] \in Nat /\ pages[p] > 0 /\ maps[p] \in Nat
      BY <1>0, <2>0, <2>3 DEF PageInv, TypeOK
    <3>2. pages'[p] = pages[p] - 1 /\ \A g \in Pages : g # p => pages'[g] = pages[g]
      BY <1>0, <1>3, <3>1 DEF TypeOK
    <3>3. \A g \in Pages : g # p => \A o \in Made : Owns(o, g)' <=> Owns(o, g)
      BY <1>2, <2>3 DEF Owns
    <3>4. \A g \in Pages : g # p =>
            pages'[g] = (IF \E o \in Made : Owns(o, g)' THEN 1 ELSE 0) + maps'[g]
                          + (IF \E u \in Threads : loc'[u].pa = g THEN 1 ELSE 0)
      BY <1>3, <2>0, <2>4, <3>2, <3>3 DEF PageInv
    <3>5. \A o \in Made : ~Owns(o, p)' BY <2>0, <2>3 DEF PageInv
    <3>6. pages'[p] = (IF \E o \in Made : Owns(o, p)' THEN 1 ELSE 0) + maps'[p]
                          + (IF \E u \in Threads : loc'[u].pa = p THEN 1 ELSE 0)
      <4>1. \E o \in Made : Owns(o, p) BY <2>3
      <4> QED BY <1>3, <2>0, <2>4, <3>1, <3>2, <3>5, <4>1 DEF PageInv
    <3>7. \A o1, o2 \in Made : \A g \in Pages : Owns(o1, g)' /\ Owns(o2, g)' => o1 = o2
      BY <2>0, <2>3 DEF PageInv
    <3> QED BY <2>1, <3>4, <3>6, <3>7 DEF PageInv
  <2>6. MappedCached' BY <1>3, <2>0 DEF MappedCached
  <2> QED BY <2>2, <2>5, <2>6 DEF EvictInv
<1> QED BY <1>7, <1>8 DEF IInv

(***************************************************************************)
(* The evictor.                                                            *)
(***************************************************************************)
\* Evict_half goes to q with locals l and snapshot ev'.
LEMMA EvictorStep ==
    ASSUME IInv, NEW q \in {"idle", "elems", "visit", "rget"}, NEW l \in LocRecs,
           pc[Evictor] \in {"idle", "elems", "visit"},
           pc' = [pc EXCEPT ![Evictor] = q], loc' = [loc EXCEPT ![Evictor] = l],
           nevicts' \in Nat, ev' \in [keys : SUBSET Keys, objs : SUBSET Objs, upto : Nat, did : Nat],
           UNCHANGED <<table, obj, nobj, ngets, pages, pins, maps, mutex, data>>,
           ThreadOK(Evictor, q, l),
           ev'.objs \subseteq Made, ~TryEvicts => \A o \in ev'.objs : ~obj[o].remove,
           q = "rget" /\ ~TryEvicts => l.b \notin ev'.objs /\ ~obj[l.b].remove
    PROVE  IInv'
<1>0. TypeOK /\ Evictor \in All /\ Evictor \notin Threads /\ q \in Places
  BY CacheAssumption DEF IInv, CoreInv, All, Places
<1>1. TypeOK' BY <1>0 DEF TypeOK
<1>2. /\ CoreInv'
      /\ pc'[Evictor] = q /\ loc'[Evictor] = l
      /\ \A u \in All : u # Evictor => pc'[u] = pc[u] /\ loc'[u] = loc[u]
  BY <1>0, <1>1, CoreMove DEF HoldsAt, LooksAt
<1>3. ASSUME ~TryEvicts PROVE EvictInv'
  <2>0. SnapInv /\ PageInv /\ MappedCached /\ Made' = Made
    BY <1>3 DEF IInv, EvictInv, Made
  <2>1. EvictOK(Evictor, q, l)' BY <1>3 DEF EvictOK, RemovesAt
  <2>2. \A u \in All : u # Evictor => EvictOK(u, pc[u], loc[u])'
    BY <1>2, <2>0 DEF SnapInv, EvictOK, RemovesAt
  <2>3. SnapInv' BY <1>2, <1>3, <2>0, <2>1, <2>2 DEF SnapInv
  <2>4. \A o, p : Owns(o, p)' <=> Owns(o, p) BY <1>2 DEF Owns
  <2>5. \A u \in Threads : loc'[u].pa = loc[u].pa BY <1>0, <1>2 DEF All
  <2>6. PageInv' BY <2>0, <2>4, <2>5 DEF PageInv
  <2>7. MappedCached' BY <2>0 DEF MappedCached
  <2> QED BY <2>3, <2>6, <2>7 DEF EvictInv
<1> QED BY <1>2, <1>3 DEF IInv

\* Evict_half begins.
LEMMA Evict_halfStep ==
    ASSUME IInv, Evict_half, UNCHANGED data
    PROVE  IInv'
<1>0. /\ TypeOK /\ Evictor \in All /\ pc[Evictor] = "idle" /\ ThreadOK(Evictor, pc[Evictor], loc[Evictor])
      /\ loc[Evictor] \in LocRecs
  BY DEF IInv, CoreInv, All, ThreadsInv, TypeOK, Evict_half, At
<1>1. Cardinality({k \in Keys : table[k] # None}) \in Nat
  BY CacheAssumption, FS_Subset, FS_CardinalityType
<1>2. /\ ev' \in [keys : SUBSET Keys, objs : SUBSET Objs, upto : Nat, did : Nat] /\ ev'.objs = {}
      /\ nevicts' \in Nat
  BY <1>0, <1>1 DEF Evict_half, TypeOK
<1>3. /\ pc' = [pc EXCEPT ![Evictor] = "elems"] /\ loc' = [loc EXCEPT ![Evictor] = loc[Evictor]]
      /\ UNCHANGED <<table, obj, nobj, ngets, pages, pins, maps, mutex, data>>
  BY <1>0 DEF Evict_half, Goto, TypeOK
<1>4. ThreadOK(Evictor, "elems", loc[Evictor])
  BY <1>0 DEF ThreadOK, LooksAt, HasBlock, HoldsAt, RemovesAt
<1> QED BY <1>0, <1>2, <1>3, <1>4, EvictorStep

\* A key is read: its object is not marked, as only the evictor marks.
LEMMA ElemsStep ==
    ASSUME IInv, NEW k \in Keys, Elems(k), UNCHANGED data
    PROVE  IInv'
<1> DEFINE q == IF ev.keys = {k} THEN "visit" ELSE "elems"
<1>0. /\ TypeOK /\ GetsInv /\ ObjsInv /\ Evictor \in All /\ pc[Evictor] = "elems" /\ ThreadOK(Evictor, pc[Evictor], loc[Evictor])
      /\ loc[Evictor] \in LocRecs
  BY DEF IInv, CoreInv, All, ThreadsInv, TypeOK, Elems, At
<1>1. /\ ev' \in [keys : SUBSET Keys, objs : SUBSET Objs, upto : Nat, did : Nat]
      /\ ev'.objs = ev.objs \cup ({table[k]} \ {None})
  <2>1. {table[k]} \ {None} \subseteq Objs BY <1>0 DEF TypeOK
  <2>2. ev \in [keys : SUBSET Keys, objs : SUBSET Objs, upto : Nat, did : Nat]
    BY <1>0 DEF TypeOK
  <2>3. ev' = [ev EXCEPT !.keys = @ \ {k}, !.objs = @ \cup ({table[k]} \ {None})]
    BY DEF Elems
  <2> QED BY <2>1, <2>2, <2>3
<1>2. /\ pc' = [pc EXCEPT ![Evictor] = q] /\ loc' = [loc EXCEPT ![Evictor] = loc[Evictor]]
      /\ nevicts' \in Nat
      /\ UNCHANGED <<table, obj, nobj, ngets, pages, pins, maps, mutex, data>>
  BY <1>0 DEF Elems, Goto, TypeOK
<1>3. ThreadOK(Evictor, q, loc[Evictor])
  BY <1>0 DEF ThreadOK, LooksAt, HasBlock, HoldsAt, RemovesAt
<1>4. ASSUME NEW o \in ev'.objs PROVE o \in Made /\ (~TryEvicts => ~obj[o].remove)
  <2>1. CASE o \in ev.objs BY <2>1 DEF IInv, CoreInv, Pending, EvictInv, SnapInv
  <2>2. CASE o = table[k] /\ o # None
    <3>1. o \in Made /\ obj[o].key = k BY <1>0, <2>2 DEF ObjsInv
    <3>2. ASSUME ~TryEvicts PROVE ~obj[o].remove
      <4>1. \A u \in All : pc[u] # "del"
        BY <1>0, <3>2 DEF IInv, EvictInv, SnapInv, EvictOK, RemovesAt
      <4> QED BY <2>2, <3>1, <4>1 DEF IInv, CoreInv, Pending
    <3> QED BY <3>1, <3>2
  <2> QED BY <1>1, <1>4, <2>1, <2>2
<1> QED BY <1>0, <1>1, <1>2, <1>3, <1>4, EvictorStep

\* The next object, or the end.
LEMMA VisitStep ==
    ASSUME IInv, Visit, UNCHANGED data
    PROVE  IInv'
<1>0. /\ TypeOK /\ GetsInv /\ ObjsInv /\ Evictor \in All /\ pc[Evictor] = "visit"
      /\ Made \subseteq Objs /\ nevicts' \in Nat
      /\ UNCHANGED <<table, obj, nobj, ngets, pages, pins, maps, mutex, data>>
  BY MadeObjs DEF IInv, CoreInv, All, TypeOK, Visit, At
<1>1. CASE /\ Goto(Evictor, "idle") /\ UNCHANGED ev /\ loc' = [loc EXCEPT ![Evictor] = NullLoc]
  <2>1. ThreadOK(Evictor, "idle", NullLoc) /\ NullLoc \in LocRecs
    BY LocType DEF ThreadOK, LooksAt, HasBlock, HoldsAt, RemovesAt
  <2>2. ev'.objs \subseteq Made /\ (~TryEvicts => \A o \in ev'.objs : ~obj[o].remove)
    BY <1>1 DEF IInv, CoreInv, Pending, EvictInv, SnapInv
  <2> QED BY <1>0, <1>1, <2>1, <2>2, EvictorStep DEF Goto, TypeOK
<1>2. ASSUME NEW o \in ev.objs, ev' = [ev EXCEPT !.objs = @ \ {o}], Goto(Evictor, "rget"),
             loc' = [loc EXCEPT ![Evictor] = [NullLoc EXCEPT !.b = o, !.key = obj[o].key]]
      PROVE  IInv'
  <2> DEFINE l == [NullLoc EXCEPT !.b = o, !.key = obj[o].key]
  <2>1. o \in Made /\ o \in Objs /\ obj[o].key \in Keys
    BY <1>0, <1>2 DEF Pending, IInv, CoreInv, ObjsInv
  <2>2. l \in LocRecs /\ l.b = o /\ l.key = obj[o].key BY <2>1 DEF LocRecs, NullLoc
  <2> HIDE DEF l
  <2>3. /\ ev' \in [keys : SUBSET Keys, objs : SUBSET Objs, upto : Nat, did : Nat]
        /\ ev'.objs = ev.objs \ {o}
    BY <1>0, <1>2 DEF TypeOK
  <2>4. ThreadOK(Evictor, "rget", l)
    BY <2>1, <2>2 DEF ThreadOK, LooksAt, HasBlock, HoldsAt, RemovesAt
  <2>5. ev.objs \subseteq Made /\ (~TryEvicts => \A x \in ev.objs : ~obj[x].remove)
    BY DEF IInv, CoreInv, Pending, EvictInv, SnapInv
  <2>6. loc' = [loc EXCEPT ![Evictor] = l] /\ pc' = [pc EXCEPT ![Evictor] = "rget"]
    BY <1>2 DEF Goto, l
  <2> QED BY <1>0, <2>2, <2>3, <2>4, <2>5, <2>6, EvictorStep
<1> QED BY <1>1, <1>2 DEF Visit

(***************************************************************************)
(* The theorems.                                                           *)
(***************************************************************************)
\* Every step keeps the invariant.
LEMMA NextInv ==
    ASSUME IInv, ~(TryEvicts /\ Maps), [Next]_vars
    PROVE  IInv'
<1>0. TypeOK BY DEF IInv, CoreInv
<1>1. CASE UNCHANGED vars BY <1>0, <1>1, StillStep DEF vars, TypeOK
<1>2. ASSUME NEW k \in Keys, Balloc(k) PROVE IInv'
  <2>1. data' \subseteq Keys BY <1>0, <1>2 DEF Balloc, TypeOK
  <2> QED BY <1>2, <2>1, StillStep DEF Balloc
<1>3. ASSUME NEW t \in Threads, Get(t), UNCHANGED data PROVE IInv'
  BY <1>3, LookupStep, LookupGetStep, LookupLoadStep, LookupCasStep, LookupSetStep, FillStep,
     LockBlockStep DEF Get
<1>4. ASSUME NEW t \in Threads, Use(t), UNCHANGED data PROVE IInv'
  BY <1>4, TryevictStep, PinStep, RefupStep, UnpinStep, UnpinDoneStep, RelseStep, EvictnowStep,
     DeletePinStep DEF Use
<1>5. ASSUME NEW t \in All, Remove(t), UNCHANGED data PROVE IInv'
  BY <1>5, RemoveGetStep, RemoveLoadStep, RemoveCasStep, RemoveDelStep, EvictDoneStep DEF Remove
<1> QED BY <1>1, <1>2, <1>3, <1>4, <1>5, Evict_halfStep, ElemsStep, VisitStep DEF Next

\* The types of the cache's state, and the inductive invariant, hold in every
\* reachable state of cache.go as bdev.go uses it.
THEOREM CacheInvariant ==
    ASSUME ~(TryEvicts /\ Maps)
    PROVE  Spec => [](TypeOK /\ IInv)
<1>1. Init => IInv BY InitInv
<1>2. IInv /\ [Next]_vars => IInv' BY NextInv
<1>3. IInv => TypeOK BY DEF IInv, CoreInv
<1> QED BY <1>1, <1>2, <1>3, PTL DEF Spec

\* No interleaving of lookupinc, Refup, Relse, pin, unpin, Evictnow and _remove
\* loses or invents a reference.
THEOREM ReferencesCounted ==
    ASSUME ~(TryEvicts /\ Maps)
    PROVE  Spec => []RefsCounted
<1>1. IInv => RefsCounted BY DEF IInv, CoreInv
<1> QED BY <1>1, CacheInvariant, PTL

\* Whoever has a reference to a block has the object that Lookup finds.
THEOREM BlocksInMemoryOnce ==
    ASSUME ~(TryEvicts /\ Maps)
    PROVE  Spec => []InMemoryOnce
<1>1. IInv => InMemoryOnce BY HeldCached DEF InMemoryOnce, Holds, HoldsAt
<1> QED BY <1>1, CacheInvariant, PTL

\* Nobody uses a block before its creator in Get_fill has filled it.
THEOREM HeldBlocksFilled ==
    ASSUME ~(TryEvicts /\ Maps)
    PROVE  Spec => []HeldFilled
<1>1. IInv => HeldFilled
  BY CacheAssumption DEF IInv, CoreInv, ThreadsInv, ThreadOK, HasBlock, HoldsAt, HeldFilled, All
<1> QED BY <1>1, CacheInvariant, PTL

\* A mapped page stays the page of a cached block until it is unmapped.
THEOREM MappedPagesCached ==
    ASSUME ~TryEvicts
    PROVE  Spec => []MappedCached
<1>1. IInv => MappedCached BY DEF IInv, EvictInv
<1> QED BY <1>1, CacheInvariant, PTL

(***************************************************************************)
(* The owners of pages when blocks are removed as they are released.       *)
(***************************************************************************)
\* Object o has page p, in the cache or until EvictDone lets go of it.
Has(o, p) ==
    /\ obj[o].page = p
    /\ table[obj[o].key] = o \/ \E t \in All : pc[t] = "evictdone" /\ loc[t].b = o

Plain(t)   == loc[t].pa = None /\ pc[t] \notin {"unpin", "unpinned"}
Gone(t)    == pc[t] = "evictdone" => table[obj[loc[t].b].key] # loc[t].b
OneFrees   == \A t, u \in All :
                 pc[t] = "evictdone" /\ pc[u] = "evictdone" /\ loc[t].b = loc[u].b => t = u
OneHas     == \A o1, o2 \in Made, p \in Pages : Has(o1, p) /\ Has(o2, p) => o1 = o2
HadCounted == \A o \in Made, p \in Pages : Has(o, p) => pages[p] > 0
OwnInv     == (\A t \in All : Plain(t)) /\ (\A t \in All : Gone(t)) /\ OneFrees /\ OneHas /\ HadCounted

\* Steps that leave the table, the keys and the pages alone, and EvictDone to others.
SameKeys  == nobj' = nobj /\ \A o \in Objs : obj'[o].key = obj[o].key /\ obj'[o].page = obj[o].page
SameFrees == \A t \in All : /\ Plain(t)'
                            /\ pc'[t] = "evictdone" <=> pc[t] = "evictdone"
                            /\ pc[t] = "evictdone" => loc'[t].b = loc[t].b

LEMMA KeptOwners ==
    ASSUME IInv, OwnInv, SameKeys, SameFrees, UNCHANGED <<table, pages>>
    PROVE  OwnInv'
<1>1. Made' = Made /\ Made \subseteq Objs BY MadeObjs DEF IInv, CoreInv, SameKeys, Made
<1>2. \A t \in All : pc[t] = "evictdone" => loc[t].b \in Made
  BY DEF IInv, CoreInv, ThreadsInv, ThreadOK, HasBlock, RemovesAt
<1>3. \A o \in Made, p \in Pages : Has(o, p)' => Has(o, p)
  BY <1>1 DEF Has, SameKeys, SameFrees
<1>4. \A t \in All : Gone(t)' BY <1>1, <1>2 DEF OwnInv, Gone, SameKeys, SameFrees
<1>5. OneFrees' /\ \A t \in All : Plain(t)' BY DEF OwnInv, OneFrees, SameFrees
<1>6. OneHas' /\ HadCounted' BY <1>1, <1>3 DEF OwnInv, OneHas, HadCounted
<1> QED BY <1>4, <1>5, <1>6 DEF OwnInv

\* A step of one thread that goes to q with locals l.
LEMMA MovesOn ==
    ASSUME TypeOK, OwnInv, NEW t \in All, NEW q, NEW l, l.pa = None, pc[t] # "evictdone",
           q \notin {"unpin", "unpinned", "evictdone"},
           pc' = [pc EXCEPT ![t] = q], loc' = [loc EXCEPT ![t] = l]
    PROVE  SameFrees
BY DEF SameFrees, OwnInv, Plain, TypeOK

\* The fields of locals that the steps set.
LEMMA Locals ==
    ASSUME TypeOK, OwnInv, NEW t \in All
    PROVE  /\ loc[t].pa = None /\ NullLoc.pa = None
           /\ \A x : [loc[t] EXCEPT !.e = x].pa = None /\ [loc[t] EXCEPT !.key = x].pa = None
           /\ \A x : [loc[t] EXCEPT !.cnt = x].pa = None /\ [NullLoc EXCEPT !.b = x].pa = None
           /\ \A x, k : [NullLoc EXCEPT !.key = x].pa = None /\ [NullLoc EXCEPT !.b = x, !.key = k].pa = None
<1>1. loc[t] \in LocRecs /\ loc[t].pa = None BY DEF TypeOK, OwnInv, Plain
<1> QED BY <1>1 DEF LocRecs, NullLoc

\* Lookups.
LEMMA LookupOwners ==
    ASSUME IInv, OwnInv, NEW t \in Threads,
           \/ \E k \in Keys : Lookup(t, k)
           \/ LookupGet(t) \/ LookupLoad(t) \/ LookupCas(t) \/ LockBlock(t)
    PROVE  OwnInv'
<1>1. t \in All /\ TypeOK BY DEF All, IInv, CoreInv
<1>2. SameKeys /\ UNCHANGED <<table, pages>>
  <2>1. CASE UNCHANGED <<obj, nobj, table, pages>> BY <2>1 DEF SameKeys
  <2>2. CASE LookupCas(t) BY <1>1, <2>2 DEF LookupCas, TypeOK, ObjRecs, SameKeys
  <2> QED BY <2>1, <2>2 DEF Lookup, LookupGet, LookupLoad, LockBlock
<1>3. SameFrees
  <2>1. CASE UNCHANGED <<pc, loc>> BY <2>1 DEF SameFrees, OwnInv, Plain
  <2>2. ASSUME NEW k \in Keys, Lookup(t, k) PROVE SameFrees
    BY <1>1, <2>2, MovesOn, Locals DEF Lookup, Goto, At
  <2>3. CASE LookupGet(t)
    <3>1. loc' = [loc EXCEPT ![t] = [loc[t] EXCEPT !.e = table[loc[t].key]]]
      BY <2>3 DEF LookupGet
    <3> QED BY <1>1, <2>3, <3>1, MovesOn, Locals DEF LookupGet, Goto, At
  <2>4. CASE LookupLoad(t) /\ ~UNCHANGED <<pc, loc>>
    <3>1. loc' = [loc EXCEPT ![t] = [loc[t] EXCEPT !.cnt = obj[loc[t].e].refcnt]]
      BY <2>4 DEF LookupLoad
    <3> QED BY <1>1, <2>4, <3>1, MovesOn, Locals DEF LookupLoad, Goto, At
  <2>5. CASE LookupCas(t)
    <3>1. PICK l \in {loc[t], [NullLoc EXCEPT !.b = loc[t].e]} : loc' = [loc EXCEPT ![t] = l]
      BY <1>1, <2>5 DEF LookupCas, TypeOK
    <3>2. PICK q \in {"lock", "get"} : pc' = [pc EXCEPT ![t] = q]
      BY <2>5 DEF LookupCas, Goto
    <3>3. l.pa = None /\ pc[t] # "evictdone" BY <1>1, <2>5, <3>1, Locals DEF LookupCas, At
    <3> QED BY <1>1, <3>1, <3>2, <3>3, MovesOn
  <2>6. CASE LockBlock(t)
    <3>1. loc' = [loc EXCEPT ![t] = loc[t]] BY <1>1, <2>6 DEF LockBlock, TypeOK
    <3> QED BY <1>1, <2>6, <3>1, MovesOn, Locals DEF LockBlock, Goto, At
  <2> QED BY <2>1, <2>2, <2>3, <2>4, <2>5, <2>6
<1> QED BY <1>2, <1>3, KeptOwners

\* What users do with a block; without mappings none is pinned or unpinned.
LEMMA UseOwners ==
    ASSUME IInv, OwnInv, ~Maps, NEW t \in Threads, Use(t)
    PROVE  OwnInv'
<1>1. t \in All /\ TypeOK /\ \A p \in Pages : maps[p] = 0 BY DEF All, IInv, CoreInv
<1>2. \/ Tryevict(t) \/ Relse(t) \/ Evictnow(t) \/ DeletePin(t) \/ \E u \in Threads : Refup(t, u)
  <2>1. ~Pin(t) BY DEF Pin
  <2>2. ASSUME NEW p \in Pages, Unpin(t, p) PROVE FALSE
    <3>1. maps[p] > 0 BY <2>2, Zenon DEF Unpin
    <3> QED BY <1>1, <3>1
  <2>3. ~UnpinDone(t) BY <1>1 DEF UnpinDone, At, OwnInv, Plain
  <2> QED BY <2>1, <2>2, <2>3 DEF Use
<1>3. SameKeys /\ UNCHANGED <<table, pages>>
  <2>1. CASE UNCHANGED <<obj, nobj, table, pages>> BY <2>1 DEF SameKeys
  <2>2. CASE Tryevict(t) \/ Relse(t) \/ \E u \in Threads : Refup(t, u)
    BY <1>1, <2>2 DEF Tryevict, Relse, Refup, TypeOK, ObjRecs, SameKeys
  <2> QED BY <1>2, <2>1, <2>2 DEF Evictnow, DeletePin
<1>4. SameFrees
  <2>1. CASE UNCHANGED <<pc, loc>> BY <2>1 DEF SameFrees, OwnInv, Plain
  <2>2. ASSUME NEW u \in Threads, Refup(t, u), ~UNCHANGED <<pc, loc>> PROVE SameFrees
    <3>1. u \in All /\ pc[u] # "evictdone" BY <2>2 DEF Refup, All
    <3>2. /\ pc' = [pc EXCEPT ![u] = "hold"]
          /\ loc' = [loc EXCEPT ![u] = [NullLoc EXCEPT !.b = loc[t].b]]
      <4>1. ~obj[loc[t].b].remove
        <5>1. CASE obj[loc[t].b].remove BY <2>2, <5>1, Zenon DEF Refup, Panic
        <5> QED BY <5>1
      <4> QED BY <2>2, <4>1, Zenon DEF Refup, Goto
    <3>3. [NullLoc EXCEPT !.b = loc[t].b].pa = None BY <1>1, Locals
    <3> QED BY <1>1, <3>1, <3>2, <3>3, MovesOn
  <2>3. CASE Relse(t) \/ Evictnow(t) \/ DeletePin(t)
    <3>1. /\ loc[t].pa = None /\ pc[t] # "evictdone"
          /\ [NullLoc EXCEPT !.pa = loc[t].pa].pa = None
      BY <1>1, <2>3, Locals DEF Relse, Evictnow, DeletePin, At, NullLoc
    <3>2. CASE ~UNCHANGED <<pc, loc>>
      <4>1. PICK q \in {"idle", "relsed", "delpin", "rget"} : pc' = [pc EXCEPT ![t] = q]
        BY <2>3, <3>1, <3>2 DEF Relse, Evictnow, DeletePin, Goto, Return
      <4>2. PICK l \in {loc[t], [NullLoc EXCEPT !.pa = loc[t].pa],
                        [loc[t] EXCEPT !.key = obj[loc[t].b].key]} : loc' = [loc EXCEPT ![t] = l]
        BY <1>1, <2>3, <3>2 DEF Relse, Evictnow, DeletePin, Return, TypeOK
      <4>3. l.pa = None BY <1>1, <3>1, <4>2, Locals
      <4> QED BY <1>1, <3>1, <4>1, <4>2, <4>3, MovesOn
    <3> QED BY <2>1, <3>2
  <2> QED BY <1>2, <2>1, <2>2, <2>3 DEF Tryevict
<1> QED BY <1>3, <1>4, KeptOwners

\* A removal up to the deletion, and the evictor's own steps.
LEMMA RemoveOwners ==
    ASSUME IInv, OwnInv, NEW t \in All,
           \/ RemoveGet(t) \/ RemoveLoad(t) \/ RemoveCas(t)
           \/ t = Evictor /\ (Evict_half \/ Visit \/ \E k \in Keys : Elems(k))
    PROVE  OwnInv'
<1>1. TypeOK BY DEF IInv, CoreInv
<1>2. SameKeys /\ UNCHANGED <<table, pages>>
  <2>1. CASE UNCHANGED <<obj, nobj, table, pages>> BY <2>1 DEF SameKeys
  <2>2. CASE RemoveCas(t) BY <1>1, <2>2 DEF RemoveCas, TypeOK, ObjRecs, SameKeys
  <2> QED BY <2>1, <2>2 DEF RemoveGet, RemoveLoad, Evict_half, Visit, Elems
<1>3. SameFrees
  <2>1. CASE UNCHANGED <<pc, loc>> BY <2>1 DEF SameFrees, OwnInv, Plain
  <2>2. CASE ~UNCHANGED <<pc, loc>>
    <3>1. /\ loc[t].pa = None /\ pc[t] # "evictdone"
          /\ [NullLoc EXCEPT !.pa = loc[t].pa].pa = None
      BY <1>1, Locals DEF RemoveGet, RemoveLoad, RemoveCas, Evict_half, Visit, Elems, At, NullLoc
    <3>2. PICK q \in {"idle", "visit", "elems", "rget", "rload", "rcas", "del"} : pc' = [pc EXCEPT ![t] = q]
      BY <2>2, <3>1 DEF RemoveGet, RemoveLoad, RemoveCas, Evict_half, Visit, Elems, Back, Return, Goto
    <3>3. \E l : l.pa = None /\ loc' = [loc EXCEPT ![t] = l]
      <4>1. CASE UNCHANGED loc BY <1>1, <3>1, <4>1 DEF TypeOK
      <4>2. CASE loc' = [loc EXCEPT ![t] = [NullLoc EXCEPT !.pa = loc[t].pa]]
        BY <3>1, <4>2
      <4>3. CASE RemoveGet(t) /\ ~UNCHANGED loc
        <5>1. CASE loc' = [loc EXCEPT ![t].e = table[loc[t].key]]
          <6>1. loc' = [loc EXCEPT ![t] = [loc[t] EXCEPT !.e = table[loc[t].key]]] BY <5>1
          <6> QED BY <1>1, <6>1, Locals
        <5> QED BY <4>1, <4>2, <4>3, <5>1 DEF RemoveGet, Back, Return
      <4>4. CASE t = Evictor /\ Visit
        <5>1. CASE loc' = [loc EXCEPT ![t] = NullLoc] BY <1>1, <5>1, Locals
        <5>2. ASSUME NEW o \in ev.objs, loc' = [loc EXCEPT ![t] = [NullLoc EXCEPT !.b = o, !.key = obj[o].key]]
              PROVE  \E l : l.pa = None /\ loc' = [loc EXCEPT ![t] = l]
          BY <1>1, <5>2, Locals
        <5> QED BY <4>4, <5>1, <5>2 DEF Visit
      <4> QED
        BY <4>1, <4>2, <4>3, <4>4 DEF RemoveLoad, RemoveCas, Back, Return, Evict_half, Elems
    <3> QED BY <1>1, <3>1, <3>2, <3>3, MovesOn
  <2> QED BY <2>1, <2>2
<1> QED BY <1>2, <1>3, KeptOwners

\* A new block has no page yet.
LEMMA LookupSetOwners ==
    ASSUME IInv, OwnInv, NEW t \in Threads, LookupSet(t)
    PROVE  OwnInv'
<1>0. /\ TypeOK /\ GetsInv /\ ObjsInv /\ t \in All /\ pc[t] = "mkobj" /\ Made \subseteq Objs
      /\ loc[t].key \in Keys
  BY MadeObjs DEF IInv, CoreInv, All, LookupSet, At, ThreadsInv, ThreadOK, LooksAt
<1>1. CASE ~Absent(loc[t].key)
  <2>1. loc' = [loc EXCEPT ![t] = loc[t]] BY <1>0, <1>1 DEF LookupSet, TypeOK
  <2>2. SameFrees BY <1>0, <1>1, <2>1, MovesOn, Locals DEF LookupSet, Goto
  <2>3. SameKeys /\ UNCHANGED <<table, pages>> BY <1>1 DEF LookupSet, SameKeys
  <2> QED BY <2>2, <2>3, KeptOwners
<1>2. CASE Absent(loc[t].key)
  <2> DEFINE k == loc[t].key
             o == nobj + 1
  <2>1. o \in Objs BY <1>0, LookSlot DEF LooksAt
  <2>2. /\ nobj' = o /\ table' = [table EXCEPT ![k] = o] /\ pages' = pages
        /\ obj' = [obj EXCEPT ![o] = [NullObj EXCEPT !.key = k, !.refcnt = 1, !.locked = TRUE]]
        /\ pc' = [pc EXCEPT ![t] = "fill"] /\ loc' = [loc EXCEPT ![t] = [NullLoc EXCEPT !.b = o]]
    BY <1>2 DEF LookupSet, Goto
  <2>3. SameFrees BY <1>0, <2>2, MovesOn, Locals
  <2>4. /\ obj'[o].page = None /\ \A x \in Made : x # o /\ x # None /\ obj'[x] = obj[x]
        /\ Made' = Made \cup {o} /\ table'[k] = o /\ table[k] = None
        /\ \A j \in Keys : j # k => table'[j] = table[j]
    BY <1>0, <1>2, <2>1, <2>2, CacheAssumption DEF TypeOK, Made, NullObj, Absent, Objs
  <2> HIDE DEF k, o
  <2>5. \A x \in Made : table'[obj[x].key] = x <=> table[obj[x].key] = x
    BY <1>0, <2>4 DEF ObjsInv
  <2>6. \A x \in Made', p \in Pages : Has(x, p)' => x \in Made /\ Has(x, p)
    <3>1. None \notin Pages BY CacheAssumption
    <3> QED BY <2>3, <2>4, <2>5, <3>1 DEF Has, SameFrees
  <2>7. \A u \in All : Gone(u)'
    <3>1. \A u \in All : pc[u] = "evictdone" => loc[u].b \in Made
      BY DEF IInv, CoreInv, ThreadsInv, ThreadOK, HasBlock, RemovesAt
    <3> QED BY <2>3, <2>4, <2>5, <3>1 DEF OwnInv, Gone, SameFrees
  <2>8. OneFrees' /\ \A u \in All : Plain(u)' BY <2>3 DEF OwnInv, OneFrees, SameFrees
  <2>9. OneHas' /\ HadCounted' BY <2>2, <2>6 DEF OwnInv, OneHas, HadCounted
  <2> QED BY <2>7, <2>8, <2>9 DEF OwnInv
<1> QED BY <1>1, <1>2

\* A block gets a page that nobody has.
LEMMA FillOwners ==
    ASSUME IInv, OwnInv, NEW t \in Threads, Fill(t)
    PROVE  OwnInv'
<1>0. /\ TypeOK /\ GetsInv /\ t \in All /\ pc[t] = "fill" /\ Made \subseteq Objs
      /\ loc[t].b \in Made /\ UNCHANGED <<table, nobj, loc>>
  BY MadeObjs DEF IInv, CoreInv, All, Fill, At, ThreadsInv, ThreadOK, HasBlock, HoldsAt
<1>1. CASE UNCHANGED <<pages, obj, pc>>
  <2>1. SameKeys /\ SameFrees BY <1>0, <1>1 DEF SameKeys, SameFrees, OwnInv, Plain
  <2> QED BY <1>0, <1>1, <2>1, KeptOwners
<1>2. ASSUME NEW p \in Pages, pages[p] = 0, pages' = [pages EXCEPT ![p] = 1],
             obj' = [obj EXCEPT ![loc[t].b] = [@ EXCEPT !.page = p, !.locked = FALSE]], Goto(t, "hold")
      PROVE  OwnInv'
  <2> DEFINE b == loc[t].b
  <2>1. /\ pages'[p] = 1 /\ \A g \in Pages : g # p => pages'[g] = pages[g]
        /\ obj'[b].page = p /\ Made' = Made
        /\ \A x \in Objs : obj'[x].key = obj[x].key /\ (x # b => obj'[x] = obj[x])
    BY <1>0, <1>2 DEF TypeOK, ObjRecs, Made
  <2>2. SameFrees
    <3>1. loc' = [loc EXCEPT ![t] = loc[t]] BY <1>0 DEF TypeOK
    <3> QED BY <1>0, <1>2, <3>1, MovesOn, Locals DEF Goto
  <2> HIDE DEF b
  <2>3. \A x \in Made, g \in Pages : Has(x, g)' => (x = b /\ g = p) \/ (x # b /\ Has(x, g))
    BY <1>0, <2>1, <2>2 DEF Has, SameFrees
  <2>4. \A x \in Made : ~Has(x, p) BY <1>2 DEF OwnInv, HadCounted
  <2>5. \A u \in All : Gone(u)'
    <3>1. \A u \in All : pc[u] = "evictdone" => loc[u].b \in Made
      BY DEF IInv, CoreInv, ThreadsInv, ThreadOK, HasBlock, RemovesAt
    <3> QED BY <1>0, <2>1, <2>2, <3>1 DEF OwnInv, Gone, SameFrees
  <2>6. OneFrees' /\ \A u \in All : Plain(u)' BY <2>2 DEF OwnInv, OneFrees, SameFrees
  <2>7. OneHas' BY <2>1, <2>3, <2>4 DEF OwnInv, OneHas
  <2>8. HadCounted' BY <2>1, <2>3, <2>4 DEF OwnInv, HadCounted
  <2> QED BY <2>5, <2>6, <2>7, <2>8 DEF OwnInv
<1> QED BY <1>1, <1>2 DEF Fill

\* The block that is deleted is the one that is let go of next.
LEMMA RemoveDelOwners ==
    ASSUME IInv, OwnInv, NEW t \in All, RemoveDel(t), loc[t].e = loc[t].b
    PROVE  OwnInv'
<1>0. /\ TypeOK /\ GetsInv /\ ObjsInv /\ pc[t] = "del" /\ Made \subseteq Objs
      /\ ThreadOK(t, pc[t], loc[t])
  BY MadeObjs DEF IInv, CoreInv, RemoveDel, At, ThreadsInv
<1>1. PICK e \in Made : e = loc[t].b /\ e = loc[t].e /\ table[obj[e].key] = e /\ obj[e].key \in Keys
  BY <1>0 DEF ThreadOK, ObjsInv
<1>2. e # None /\ \A x \in Made : x # None
  <2>1. Made \subseteq Nat BY <1>0 DEF Objs
  <2>2. None \notin Nat BY CacheAssumption, Zenon
  <2> QED BY <1>1, <2>1, <2>2, Zenon
<1>3. /\ table' = [table EXCEPT ![obj[e].key] = None] /\ pc' = [pc EXCEPT ![t] = "evictdone"]
      /\ UNCHANGED <<obj, nobj, pages, loc>>
  BY <1>1, <1>2 DEF RemoveDel, Goto
<1>4. /\ pc'[t] = "evictdone" /\ (\A u \in All : u # t => pc'[u] = pc[u]) /\ Made' = Made
      /\ table'[obj[e].key] = None /\ \A k \in Keys : k # obj[e].key => table'[k] = table[k]
  BY <1>0, <1>1, <1>3 DEF TypeOK, Made
<1>5. \A x \in Made : table'[obj[x].key] = x <=> x # e /\ table[obj[x].key] = x
  BY <1>0, <1>1, <1>2, <1>4 DEF ObjsInv
<1>6. \A u \in All : pc[u] = "evictdone" => loc[u].b \in Made /\ loc[u].b # e
  BY <1>1 DEF IInv, CoreInv, ThreadsInv, ThreadOK, HasBlock, RemovesAt, OwnInv, Gone
<1>7. \A x \in Made, g \in Pages : Has(x, g)' => Has(x, g)
  BY <1>0, <1>1, <1>3, <1>4, <1>5 DEF Has
<1>8. (\A u \in All : Gone(u)') /\ \A u \in All : Plain(u)'
  BY <1>1, <1>3, <1>4, <1>5, <1>6 DEF OwnInv, Gone, Plain
<1>9. OneFrees' BY <1>1, <1>3, <1>4, <1>6 DEF OwnInv, OneFrees
<1>10. OneHas' /\ HadCounted' BY <1>3, <1>4, <1>7 DEF OwnInv, OneHas, HadCounted
<1> QED BY <1>8, <1>9, <1>10 DEF OwnInv

\* The page that is freed has no other owner.
LEMMA EvictDoneOwners ==
    ASSUME IInv, OwnInv, NEW t \in All, EvictDone(t)
    PROVE  OwnInv'
<1>0. /\ TypeOK /\ GetsInv /\ pc[t] = "evictdone" /\ Made \subseteq Objs
      /\ ThreadOK(t, pc[t], loc[t]) /\ loc[t].pa = None
  BY MadeObjs DEF IInv, CoreInv, EvictDone, At, ThreadsInv, OwnInv, Plain
<1>1. PICK b \in Made : b = loc[t].b BY <1>0 DEF ThreadOK, HasBlock, RemovesAt
<1>2. PICK p \in Pages : p = obj[b].page BY <1>0, <1>1, ObjFields DEF ThreadOK
<1>3. Has(b, p) /\ pages[p] > 0 BY <1>0, <1>1, <1>2 DEF Has, OwnInv, HadCounted
<1>4. PICK q \in {"idle", "visit"} : pc' = [pc EXCEPT ![t] = q]
  BY <1>0 DEF EvictDone, Back, Return, Goto
<1>5. \E l : l.pa = None /\ loc' = [loc EXCEPT ![t] = l]
  <2>1. CASE UNCHANGED loc BY <1>0, <2>1 DEF TypeOK
  <2>2. [NullLoc EXCEPT !.pa = loc[t].pa].pa = None BY <1>0 DEF NullLoc
  <2> QED BY <2>1, <2>2 DEF EvictDone, Back, Return
<1>6. /\ pages' = [pages EXCEPT ![p] = pages[p] - 1] /\ UNCHANGED <<table, obj, nobj>>
  BY <1>1, <1>2, <1>3 DEF EvictDone, Refdown
<1>7. /\ pc'[t] = q /\ loc'[t].pa = None /\ Made' = Made
      /\ \A u \in All : u # t => pc'[u] = pc[u] /\ loc'[u] = loc[u]
      /\ \A g \in Pages : g # p => pages'[g] = pages[g]
  BY <1>0, <1>4, <1>5, <1>6 DEF TypeOK, Made
<1>8. \A x \in Made, g \in Pages : Has(x, g)' => x # b /\ Has(x, g)
  <2>1. table[obj[b].key] # b /\ \A u \in All : u # t /\ pc[u] = "evictdone" => loc[u].b # b
    BY <1>0, <1>1 DEF OwnInv, Gone, OneFrees
  <2> QED BY <1>1, <1>4, <1>6, <1>7, <2>1 DEF Has
<1>9. \A x \in Made : Has(x, p) => x = b BY <1>3 DEF OwnInv, OneHas
<1>10. OneHas' /\ HadCounted' BY <1>7, <1>8, <1>9 DEF OwnInv, OneHas, HadCounted
<1>11. (\A u \in All : Gone(u)') /\ (\A u \in All : Plain(u)') /\ OneFrees'
  BY <1>4, <1>6, <1>7 DEF OwnInv, Gone, Plain, OneFrees
<1> QED BY <1>10, <1>11 DEF OwnInv

\* Every step but a mistaken removal keeps the owners.
LEMMA NextOwners ==
    ASSUME IInv, OwnInv, ~Maps, [Next]_vars, [~Mistakes]_vars
    PROVE  OwnInv'
<1>1. CASE UNCHANGED vars
  <2>1. SameKeys /\ SameFrees /\ UNCHANGED <<table, pages>>
    BY <1>1 DEF vars, SameKeys, SameFrees, OwnInv, Plain
  <2> QED BY <2>1, KeptOwners
<1>2. ASSUME NEW k \in Keys, Balloc(k) PROVE OwnInv' BY <1>2 DEF Balloc
<1>3. ASSUME NEW t \in Threads, Get(t) PROVE OwnInv'
  BY <1>3, LookupOwners, LookupSetOwners, FillOwners DEF Get
<1>4. ASSUME NEW t \in Threads, Use(t) PROVE OwnInv' BY <1>4, UseOwners
<1>5. ASSUME NEW t \in All, Remove(t), ~UNCHANGED vars PROVE OwnInv'
  <2>1. RemoveDel(t) => loc[t].e = loc[t].b BY <1>5 DEF Mistakes
  <2> QED BY <1>5, <2>1, RemoveOwners, RemoveDelOwners, EvictDoneOwners DEF Remove
<1>6. ASSUME Evict_half \/ Visit \/ \E k \in Keys : Elems(k) PROVE OwnInv'
  <2>1. Evictor \in All BY DEF All
  <2> QED BY <1>6, <2>1, RemoveOwners
<1> QED BY <1>1, <1>2, <1>3, <1>4, <1>5, <1>6 DEF Next

\* Cached blocks have pages of their own, which are not free, unless some removal
\* deletes another block than the one whose release (bdev.go:199-203) or eviction it was
\* called for: blocks that are removed as they are released are not the cause in themselves.
THEOREM PagesOwned ==
    ASSUME ~(TryEvicts /\ Maps)
    PROVE  Spec /\ [][~Mistakes]_vars => []PageOwned
<1>1. ASSUME ~TryEvicts, IInv PROVE PageOwned
  <2>0. TypeOK /\ GetsInv /\ ObjsInv /\ PageInv /\ Made \subseteq Objs
    BY <1>1, MadeObjs DEF IInv, CoreInv, EvictInv
  <2> SUFFICES ASSUME NEW k \in Keys, table[k] # None, obj[table[k]].page # None
               PROVE  /\ pages[obj[table[k]].page] > 0
                      /\ \A j \in Keys \ {k} : table[j] # None => obj[table[j]].page # obj[table[k]].page
    BY DEF PageOwned
  <2>1. PICK o \in Made : o = table[k] /\ obj[o].key = k BY <2>0 DEF ObjsInv
  <2>2. PICK p \in Pages : p = obj[o].page BY <2>0, <2>1, ObjFields
  <2>3. Owns(o, p) BY <2>1, <2>2 DEF Owns
  <2>4. pages[p] > 0 BY <2>0, <2>3 DEF PageInv, TypeOK
  <2>5. ASSUME NEW j \in Keys \ {k}, table[j] # None, obj[table[j]].page = p PROVE FALSE
    <3>1. table[j] \in Made /\ obj[table[j]].key = j /\ Owns(table[j], p)
      BY <2>0, <2>5 DEF ObjsInv, Owns
    <3> QED BY <2>0, <2>1, <2>3, <3>1 DEF PageInv
  <2> QED BY <2>1, <2>2, <2>4, <2>5
<1>2. CASE ~TryEvicts
  <2>1. IInv => PageOwned BY <1>1, <1>2
  <2> QED BY <2>1, CacheInvariant, PTL
<1>3. CASE ~Maps
  <2>1. Init => OwnInv
    BY CacheAssumption DEF Init, OwnInv, Plain, Gone, OneFrees, OneHas, HadCounted, Has, Made,
       NullLoc, All
  <2>2. IInv /\ OwnInv /\ [Next]_vars /\ [~Mistakes]_vars => OwnInv' BY <1>3, NextOwners
  <2>3. ASSUME IInv, OwnInv PROVE PageOwned
    <3>1. TypeOK /\ GetsInv /\ ObjsInv /\ Made \subseteq Objs
      BY <2>3, MadeObjs DEF IInv, CoreInv
    <3>2. \A k \in Keys : table[k] # None => table[k] \in Made /\ obj[table[k]].key = k
      BY <3>1 DEF ObjsInv
    <3>3. \A o \in Made : obj[o].page # None => obj[o].page \in Pages BY <3>1, ObjFields
    <3> QED BY <2>3, <3>2, <3>3 DEF PageOwned, OwnInv, OneHas, HadCounted, Has
  <2>4. IInv /\ OwnInv => PageOwned BY <2>3
  <2> QED BY <2>1, <2>2, <2>4, CacheInvariant, PTL DEF Spec
<1> QED BY <1>2, <1>3

==============================================================================
