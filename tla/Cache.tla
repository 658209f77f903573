-------------------------------- MODULE Cache --------------------------------
(***************************************************************************)
(* Biscuit's reference-counted object cache (fs/cache.go) as its block     *)
(* cache uses it (fs/bdev.go): lookups that race with eviction, release    *)
(* with eviction on demand, the evictor that runs when memory is short,    *)
(* and blocks pinned because a process has mapped them.                    *)
(*                                                                         *)
(* The cache is nearly lock-free.  An action is one atomic access: a       *)
(* hashtable operation, a load, a compare-and-swap or a decrement of a     *)
(* reference count, or a critical section of the block cache's mutex.      *)
(***************************************************************************)
EXTENDS Naturals, FiniteSets

CONSTANTS Threads,    \* users of the block cache
          Evictor,    \* the thread that runs Evict_half (it holds cache_t's mutex)
          Keys,       \* block numbers
          Pages,      \* physical pages
          None,       \* no object, no page, no key, no thread
          TryEvicts,  \* do users mark blocks with Tryevict?
          Maps,       \* do processes map blocks?
          MaxGets, MaxEvicts, \* bounds on lookups begun, on Evict_half calls,
          MaxMaps             \* and on the mappings of a page

ASSUME CacheAssumption ==
    /\ IsFiniteSet(Threads) /\ IsFiniteSet(Keys) /\ Evictor \notin Threads
    /\ None \notin Threads \cup Keys \cup Pages \cup Nat
    /\ TryEvicts \in BOOLEAN /\ Maps \in BOOLEAN
    /\ MaxGets \in Nat /\ MaxEvicts \in Nat /\ MaxMaps \in Nat

All  == Threads \cup {Evictor}
Objs == 1 .. MaxGets

VARIABLES
    table,   \* the hashtable: the object of each key
    obj,     \* the objects made so far; a count with the REMOVE bit is a field
    nobj, ngets, nevicts,  \* objects made, lookups and evictions begun
    pages,   \* Physmem: the reference count of every page
    pins,    \* bcache.pins
    maps,    \* how many mappings each page has in user address spaces
    mutex,   \* the holder of bcache_t's mutex
    pc,      \* where each thread is
    loc,     \* its locals: key, found object and its count, own block, unpinned page
    ev,      \* Evict_half's locals: keys to read, objects to visit, upto, did
    panic,   \* the kernel's panic message, "none" while it runs
    data     \* the blocks that hold file data; the others hold metadata

vars == <<table, obj, nobj, ngets, nevicts, pages, pins, maps, mutex, pc, loc, ev, panic, data>>

NullObj == [key |-> None, refcnt |-> 0, remove |-> FALSE, tryevict |-> FALSE,
            locked |-> FALSE, page |-> None]
NullLoc == [key |-> None, e |-> None, cnt |-> 0, b |-> None, pa |-> None]

Init ==
    /\ table = [k \in Keys |-> None]
    /\ obj = [o \in Objs |-> NullObj] /\ nobj = 0 /\ ngets = 0 /\ nevicts = 0
    /\ pages = [p \in Pages |-> 0]
    /\ pins = [p \in Pages |-> None] /\ maps = [p \in Pages |-> 0]
    /\ mutex = None
    /\ pc = [t \in All |-> "idle"] /\ loc = [t \in All |-> NullLoc]
    /\ ev = [keys |-> {}, objs |-> {}, upto |-> 0, did |-> 0]
    /\ panic = "none" /\ data = {}

(***************************************************************************)
(* Shared steps.                                                           *)
(***************************************************************************)
At(t, place)    == pc[t] = place /\ panic = "none"
Goto(t, place)  == pc' = [pc EXCEPT ![t] = place]

\* The thread stays where it is and the kernel stops.
Panic(msg) == panic' = msg
Fine       == panic' = "none"

\* Physmem.Refdown of page p.
Refdown(p) ==
    IF pages[p] = 0 THEN Panic("wut") /\ UNCHANGED pages
    ELSE Fine /\ pages' = [pages EXCEPT ![p] = @ - 1]

(***************************************************************************)
(* Lookup and Get_fill, Get_zero, Get_nofill.                              *)
(***************************************************************************)
Lookup(t, k) ==
    /\ At(t, "idle") /\ ngets < MaxGets
    /\ ngets' = ngets + 1
    /\ loc' = [loc EXCEPT ![t] = [NullLoc EXCEPT !.key = k]]
    /\ Goto(t, "get")
    /\ UNCHANGED <<table, obj, nobj, nevicts, pages, pins, maps, mutex, ev, panic>>

\* lookupinc, the hashtable's Get.
LookupGet(t) ==
    /\ At(t, "get")
    /\ loc' = [loc EXCEPT ![t].e = table[loc[t].key]]
    /\ Goto(t, IF table[loc[t].key] = None THEN "mkobj" ELSE "load")
    /\ UNCHANGED <<table, obj, nobj, ngets, nevicts, pages, pins, maps, mutex, ev, panic>>

\* lookupinc's load of the count.  The REMOVE bit makes it negative.
LookupLoad(t) ==
    /\ At(t, "load")
    /\ IF obj[loc[t].e].remove
       THEN Panic("nuts") /\ UNCHANGED <<pc, loc>>
       ELSE /\ Fine /\ Goto(t, "cas")
            /\ loc' = [loc EXCEPT ![t].cnt = obj[loc[t].e].refcnt]
    /\ UNCHANGED <<table, obj, nobj, ngets, nevicts, pages, pins, maps, mutex, ev>>

\* lookupinc's compare-and-swap; it starts over when the count has changed.
CasHits(o, cnt) == ~obj[o].remove /\ obj[o].refcnt = cnt

LookupCas(t) ==
    /\ At(t, "cas")
    /\ IF CasHits(loc[t].e, loc[t].cnt)
       THEN /\ obj' = [obj EXCEPT ![loc[t].e].refcnt = @ + 1]
            /\ loc' = [loc EXCEPT ![t] = [NullLoc EXCEPT !.b = loc[t].e]]
            /\ Goto(t, "lock")
       ELSE Goto(t, "get") /\ UNCHANGED <<obj, loc>>
    /\ UNCHANGED <<table, nobj, ngets, nevicts, pages, pins, maps, mutex, ev, panic>>

\* A new object, locked and with one reference, enters the hashtable unless
\* another thread was faster.
\* (Faulty variant: Set replaces what is there.)
Absent_any(k) == TRUE
Absent(k) == table[k] = None

LookupSet(t) ==
    /\ At(t, "mkobj")
    /\ LET k == loc[t].key
           o == nobj + 1
       IN  IF Absent(k)
           THEN /\ nobj' = o
                /\ obj' = [obj EXCEPT ![o] =
                              [NullObj EXCEPT !.key = k, !.refcnt = 1, !.locked = TRUE]]
                /\ table' = [table EXCEPT ![k] = o]
                /\ loc' = [loc EXCEPT ![t] = [NullLoc EXCEPT !.b = o]]
                /\ Goto(t, "fill")
           ELSE Goto(t, "get") /\ UNCHANGED <<nobj, obj, table, loc>>
    /\ UNCHANGED <<ngets, nevicts, pages, pins, maps, mutex, ev, panic>>

\* The creator gives the block a page, reads it and unlocks the block.
Fill(t) ==
    /\ At(t, "fill")
    /\ \/ /\ \A p \in Pages : pages[p] # 0
          /\ Panic("oom during bdev.new_page") /\ UNCHANGED <<pages, obj, pc>>
       \/ \E p \in Pages :
             /\ pages[p] = 0
             /\ pages' = [pages EXCEPT ![p] = 1]
             /\ obj' = [obj EXCEPT ![loc[t].b] = [@ EXCEPT !.page = p, !.locked = FALSE]]
             /\ Goto(t, "hold") /\ Fine
    /\ UNCHANGED <<table, nobj, ngets, nevicts, pins, maps, mutex, loc, ev>>

\* Any other thread waits for the block's lock.
\* (Faulty variant: it does not.)
Unlocked_now(o) == TRUE
Unlocked(o) == ~obj[o].locked

LockBlock(t) ==
    /\ At(t, "lock") /\ Unlocked(loc[t].b)
    /\ Goto(t, "hold")
    /\ UNCHANGED <<table, obj, nobj, ngets, nevicts, pages, pins, maps, mutex, loc, ev, panic>>

(***************************************************************************)
(* What the holder of a reference does with it.                            *)
(***************************************************************************)
\* The walks over indirect, inode and bitmap blocks mark those blocks.
Tryevict(t) ==
    /\ TryEvicts /\ At(t, "hold") /\ obj[loc[t].b].key \notin data
    /\ obj' = [obj EXCEPT ![loc[t].b].tryevict = TRUE]
    /\ UNCHANGED <<table, nobj, ngets, nevicts, pages, pins, maps, mutex, pc, loc, ev, panic>>

\* Refup on behalf of another thread: the log daemon or the disk driver.
Refup(t, u) ==
    /\ At(t, "hold") /\ pc[u] = "idle"
    /\ IF obj[loc[t].b].remove THEN Panic("wut") /\ UNCHANGED <<obj, loc, pc>>
       ELSE /\ obj' = [obj EXCEPT ![loc[t].b].refcnt = @ + 1]
            /\ loc' = [loc EXCEPT ![u] = [NullLoc EXCEPT !.b = loc[t].b]]
            /\ Goto(u, "hold") /\ Fine
    /\ UNCHANGED <<table, nobj, ngets, nevicts, pages, pins, maps, mutex, ev>>

\* The count of block b after pin's Up.
\* (Faulty variant: pin takes no reference.)
PinUp_none(b) == obj[b].refcnt
PinUp(b) == obj[b].refcnt + 1

\* The count of page p after the VM system's Refup.
\* (Faulty variant: the mapping takes no reference.)
PageUp_none(p) == pages[p]
PageUp(p) == pages[p] + 1

\* immapinfo of a shared mapping: a reference on the page for the VM system
\* and, with pin, one on the block.
Pin(t) ==
    /\ Maps /\ At(t, "hold") /\ obj[loc[t].b].key \in data /\ mutex = None
    /\ LET b == loc[t].b
           p == obj[b].page
       IN  /\ maps[p] < MaxMaps
           /\ IF pins[p] \notin {None, b}
              THEN Panic("uh oh") /\ UNCHANGED <<obj, pages, pins, maps>>
              ELSE /\ obj' = [obj EXCEPT ![b].refcnt = PinUp(b)]
                   /\ pages' = [pages EXCEPT ![p] = PageUp(p)]
                   /\ pins' = [pins EXCEPT ![p] = b]
                   /\ maps' = [maps EXCEPT ![p] = @ + 1]
                   /\ Fine
    /\ UNCHANGED <<table, nobj, ngets, nevicts, mutex, pc, loc, ev>>

\* pmfree of a mapped page: unpin, which calls Relse with the mutex held.
Unpin(t, p) ==
    /\ At(t, "idle") /\ maps[p] > 0 /\ mutex = None
    /\ IF pins[p] = None THEN Panic("block no pinned") /\ UNCHANGED <<maps, mutex, loc, pc>>
       ELSE /\ Fine
            /\ maps' = [maps EXCEPT ![p] = @ - 1]
            /\ mutex' = t
            /\ loc' = [loc EXCEPT ![t] = [NullLoc EXCEPT !.b = pins[p], !.pa = p]]
            /\ Goto(t, "unpin")
    /\ UNCHANGED <<table, obj, nobj, ngets, nevicts, pages, pins, ev>>

\* Back in pmfree: the VM system lets go of the page.
UnpinDone(t) ==
    /\ At(t, "unpinned")
    /\ Refdown(loc[t].pa)
    /\ mutex' = None
    /\ loc' = [loc EXCEPT ![t] = NullLoc]
    /\ Goto(t, "idle")
    /\ UNCHANGED <<table, obj, nobj, ngets, nevicts, pins, maps, ev>>

\* Bfree and Balloc turn an indirect block into a block of a file or back.
\* The log may still have references to it; nobody else has.
Balloc(k) ==
    /\ Maps /\ panic = "none"
    /\ table[k] # None => /\ obj[table[k]].page # None => maps[obj[table[k]].page] = 0
                          /\ \A t \in All : loc[t].b = table[k] => pc[t] \in {"hold", "idle"}
    /\ data' = IF k \in data THEN data \ {k} ELSE data \cup {k}
    /\ UNCHANGED <<table, obj, nobj, ngets, nevicts, pages, pins, maps, mutex, pc, loc, ev, panic>>

(***************************************************************************)
(* Relse: drop the reference; if it was the last one and the block is      *)
(* marked, remove the block from the cache and free its page.              *)
(***************************************************************************)
\* Relse returns, to unpin or to a caller that is done with the block.
Return(t) ==
    /\ Goto(t, IF loc[t].pa = None THEN "idle" ELSE "unpinned")
    /\ loc' = [loc EXCEPT ![t] = [NullLoc EXCEPT !.pa = loc[t].pa]]

Relse(t) ==
    /\ At(t, "hold") \/ At(t, "unpin")
    /\ LET o == obj[loc[t].b]
       IN  IF o.remove \/ o.refcnt = 0
           THEN Panic("Down") /\ UNCHANGED <<obj, pc, loc>>
           ELSE /\ obj' = [obj EXCEPT ![loc[t].b].refcnt = @ - 1]
                /\ IF o.refcnt = 1 THEN Goto(t, "relsed") /\ UNCHANGED loc ELSE Return(t)
                /\ Fine
    /\ UNCHANGED <<table, nobj, ngets, nevicts, pages, pins, maps, mutex, ev>>

Evictnow(t) ==
    /\ At(t, "relsed")
    /\ IF obj[loc[t].b].tryevict THEN Goto(t, "delpin") /\ UNCHANGED loc ELSE Return(t)
    /\ UNCHANGED <<table, obj, nobj, ngets, nevicts, pages, pins, maps, mutex, ev, panic>>

DeletePin(t) ==
    /\ At(t, "delpin") /\ mutex = None
    /\ pins' = [pins EXCEPT ![obj[loc[t].b].page] = None]
    /\ loc' = [loc EXCEPT ![t].key = obj[loc[t].b].key]
    /\ Goto(t, "rget")
    /\ UNCHANGED <<table, obj, nobj, ngets, nevicts, pages, maps, mutex, ev, panic>>

(***************************************************************************)
(* _remove, called by Relse (mustexist) and by the evictor.                *)
(***************************************************************************)
\* _remove returns to the evictor's loop or to Relse.
Back(t) == IF t = Evictor THEN Goto(t, "visit") /\ UNCHANGED loc ELSE Return(t)

RemoveGet(t) ==
    /\ At(t, "rget")
    /\ LET e == table[loc[t].key]
       IN  IF e = None
           THEN IF t = Evictor THEN Fine /\ Back(t)
                ELSE Panic("Remove: non existing") /\ UNCHANGED <<pc, loc>>
           ELSE Fine /\ loc' = [loc EXCEPT ![t].e = e] /\ Goto(t, "rload")
    /\ UNCHANGED <<table, obj, nobj, ngets, nevicts, pages, pins, maps, mutex, ev>>

\* (Faulty variant: referenced objects are removed as well.)
Unused_any(o) == ~obj[o].remove
Unused(o) == ~obj[o].remove /\ obj[o].refcnt = 0

RemoveLoad(t) ==
    /\ At(t, "rload")
    /\ IF Unused(loc[t].e) THEN Goto(t, "rcas") /\ UNCHANGED loc ELSE Back(t)
    /\ UNCHANGED <<table, obj, nobj, ngets, nevicts, pages, pins, maps, mutex, ev, panic>>

RemoveCas(t) ==
    /\ At(t, "rcas")
    /\ IF Unused(loc[t].e)
       THEN /\ obj' = [obj EXCEPT ![loc[t].e].remove = TRUE]
            /\ Goto(t, "del") /\ UNCHANGED loc
       ELSE Back(t) /\ UNCHANGED obj
    /\ UNCHANGED <<table, nobj, ngets, nevicts, pages, pins, maps, mutex, ev, panic>>

RemoveDel(t) ==
    /\ At(t, "del")
    /\ LET k == obj[loc[t].e].key
       IN  IF table[k] = None THEN Panic("del of non-existing key") /\ UNCHANGED <<table, pc>>
           ELSE Fine /\ table' = [table EXCEPT ![k] = None] /\ Goto(t, "evictdone")
    /\ UNCHANGED <<obj, nobj, ngets, nevicts, pages, pins, maps, mutex, loc, ev>>

\* EvictDone of the thread's own block, which need not be the one removed.
EvictDone(t) ==
    /\ At(t, "evictdone")
    /\ Refdown(obj[loc[t].b].page)
    /\ Back(t)
    /\ ev' = IF t = Evictor THEN [ev EXCEPT !.did = @ + 1] ELSE ev
    /\ UNCHANGED <<table, obj, nobj, ngets, nevicts, pins, maps, mutex>>

(***************************************************************************)
(* Evict_half: take a snapshot of the cache, key by key, then try to       *)
(* remove every object in it, in the order of their time stamps.           *)
(***************************************************************************)
Evict_half ==
    /\ At(Evictor, "idle") /\ nevicts < MaxEvicts
    /\ nevicts' = nevicts + 1
    /\ ev' = [keys |-> Keys, objs |-> {}, did |-> 0,
              upto |-> Cardinality({k \in Keys : table[k] # None})]
    /\ Goto(Evictor, "elems")
    /\ UNCHANGED <<table, obj, nobj, ngets, pages, pins, maps, mutex, loc, panic>>

Elems(k) ==
    /\ At(Evictor, "elems") /\ k \in ev.keys
    /\ ev' = [ev EXCEPT !.keys = @ \ {k}, !.objs = @ \cup ({table[k]} \ {None})]
    /\ Goto(Evictor, IF ev.keys = {k} THEN "visit" ELSE "elems")
    /\ UNCHANGED <<table, obj, nobj, ngets, nevicts, pages, pins, maps, mutex, loc, panic>>

Visit ==
    /\ At(Evictor, "visit")
    /\ \/ /\ ev.objs = {} /\ Goto(Evictor, "idle") /\ UNCHANGED ev
          /\ loc' = [loc EXCEPT ![Evictor] = NullLoc]
       \/ \E o \in ev.objs :
             /\ ev' = [ev EXCEPT !.objs = @ \ {o}]
             /\ loc' = [loc EXCEPT ![Evictor] = [NullLoc EXCEPT !.b = o, !.key = obj[o].key]]
             /\ Goto(Evictor, "rget")
    /\ UNCHANGED <<table, obj, nobj, ngets, nevicts, pages, pins, maps, mutex, panic>>

(***************************************************************************)
(* The specification.                                                      *)
(***************************************************************************)
Get(t) ==
    \/ \E k \in Keys : Lookup(t, k)
    \/ LookupGet(t) \/ LookupLoad(t) \/ LookupCas(t) \/ LookupSet(t)
    \/ Fill(t) \/ LockBlock(t)

Use(t) ==
    \/ Tryevict(t) \/ Pin(t) \/ (\E u \in Threads : Refup(t, u))
    \/ (\E p \in Pages : Unpin(t, p)) \/ UnpinDone(t)
    \/ Relse(t) \/ Evictnow(t) \/ DeletePin(t)

Remove(t) == RemoveGet(t) \/ RemoveLoad(t) \/ RemoveCas(t) \/ RemoveDel(t) \/ EvictDone(t)

Next ==
    \/ /\ \/ \E t \in Threads : Get(t) \/ Use(t)
          \/ \E t \in All : Remove(t)
          \/ Evict_half \/ (\E k \in Keys : Elems(k)) \/ Visit
       /\ UNCHANGED data
    \/ \E k \in Keys : Balloc(k)

Spec == Init /\ [][Next]_vars

(***************************************************************************)
(* Properties.                                                             *)
(***************************************************************************)
Places == {"idle", "get", "load", "cas", "mkobj", "fill", "lock", "hold", "unpin", "relsed",
           "delpin", "rget", "rload", "rcas", "del", "evictdone", "unpinned", "elems", "visit"}

ObjRecs == [key : Keys \cup {None}, refcnt : Nat, remove : BOOLEAN, tryevict : BOOLEAN,
            locked : BOOLEAN, page : Pages \cup {None}]
LocRecs == [key : Keys \cup {None}, e : Objs \cup {None}, cnt : Nat, b : Objs \cup {None},
            pa : Pages \cup {None}]

\* The types of the state.
TypeOK ==
    /\ table \in [Keys -> Objs \cup {None}] /\ obj \in [Objs -> ObjRecs]
    /\ nobj \in Nat /\ ngets \in Nat /\ nevicts \in Nat
    /\ pages \in [Pages -> Nat] /\ maps \in [Pages -> Nat]
    /\ pins \in [Pages -> Objs \cup {None}]
    /\ mutex \in Threads \cup {None}
    /\ pc \in [All -> Places] /\ loc \in [All -> LocRecs]
    /\ ev \in [keys : SUBSET Keys, objs : SUBSET Objs, upto : Nat, did : Nat]
    /\ data \subseteq Keys

\* The threads with a reference to object o.
Holds(t)   == pc[t] \in {"fill", "lock", "hold", "unpin"}
Holders(o) == {t \in Threads : Holds(t) /\ loc[t].b = o}

\* The mappings of o's page, each of which has a reference to o.
Mapped(o) ==
    IF obj[o].page # None /\ table[obj[o].key] = o THEN maps[obj[o].page] ELSE 0

\* The count of an object is the number of references to it, and an object
\* marked for removal has none: no interleaving of lookups, releases and
\* removals loses or invents a reference.
RefsCounted ==
    \A o \in Objs :
        /\ obj[o].refcnt = Cardinality(Holders(o)) + Mapped(o)
        /\ obj[o].remove => obj[o].refcnt = 0

\* An object is in memory once: every thread with a reference to block k has
\* the object that a lookup of k finds.
InMemoryOnce ==
    \A t \in Threads : Holds(t) => table[obj[loc[t].b].key] = loc[t].b

\* A thread never uses a block whose creator has not filled it.
HeldFilled == \A t \in Threads : pc[t] = "hold" => obj[loc[t].b].page # None

\* A block that some process has mapped stays in the cache with that page, so
\* that read(2) observes what is written through the mapping.
MappedCached ==
    \A p \in Pages :
        maps[p] > 0 => /\ pins[p] # None
                       /\ table[obj[pins[p]].key] = pins[p] /\ obj[pins[p]].page = p

\* A removal that goes wrong: the block with the key, which is deleted, is not the
\* block whose release or eviction asked for it and whose page will be freed.
Mistakes == \E t \in All : RemoveDel(t) /\ loc[t].e # loc[t].b

\* Cached blocks have pages of their own that are not free.
PageOwned ==
    \A k \in Keys :
        LET p == obj[table[k]].page
        IN  table[k] # None /\ p # None =>
                /\ pages[p] > 0
                /\ \A j \in Keys \ {k} : table[j] # None => obj[table[j]].page # p

(***************************************************************************)
(* What the code's comments say and the code does not do, with PageOwned   *)
(* when TryEvicts holds.  The README gives the constants that lead to a    *)
(* counterexample.                                                         *)
(***************************************************************************)
\* A lookup that meets an object on its way out starts over.
LookupSurvivesRemove == panic # "nuts"

\* Blocks get pages that no other block is recorded as pinned to.
PinsCurrent == panic # "uh oh"

\* A mapped page is pinned until it is unmapped.
PinKept == \A p \in Pages : maps[p] > 0 => pins[p] # None

\* Unpin returns: it does not wait for the mutex that it holds itself.
NoSelfDeadlock == \A t \in Threads : ~(pc[t] = "delpin" /\ mutex = t)

\* Evict_half removes no more than half of the cached objects.
EvictsHalf == 2 * ev.did <= ev.upto + 1

==============================================================================
