------------------------------ MODULE Hashtable ------------------------------
(***************************************************************************)
(* The hashtable (hashtable/hashtable.go) of the caches and of the process *)
(* table: Get and Iter walk a bucket's list without its lock while Set and *)
(* Del, which take it, change the list with one store.                     *)
(*                                                                         *)
(* An action is a load of a pointer by a walk, or a critical section of a  *)
(* bucket's lock.  Elements that are removed stay in memory for those that *)
(* are still at them.                                                      *)
(***************************************************************************)
EXTENDS Integers, Sequences, FiniteSets, FiniteSetsExt

CONSTANTS Keys, Threads,
          khash,     \* khash: the hash of every key
          capacity,  \* capacity: the number of buckets
          MaxElems   \* elements ever made

nil == 0

ASSUME HashtableAssumption ==
    /\ khash \in [Keys -> Nat] /\ capacity \in Nat \ {0} /\ MaxElems \in Nat
    /\ nil \notin Keys

Elems   == 1 .. MaxElems
Buckets == 0 .. capacity - 1

VARIABLES
    first,  \* first of every bucket
    next,   \* next of every element
    key,    \* the key of every element; its value is the element itself
    walk,   \* every thread: the walk that it is in
    tab,    \* history: the element that every key has
    panic

vars == <<first, next, key, walk, tab, panic>>

\* op: what the thread does (got: a Get has its answer, at); key: of a Get; at: the element it is at; bucket: of
\* an Iter or Elems; out: the elements it has met.  History: vals, what the key
\* of a Get has had since the call; was, stay: the elements that have been in
\* the table since the call, at some time and always.
NoWalk == [op |-> "none", key |-> nil, at |-> nil, bucket |-> 0, out |-> << >>,
           vals |-> {}, was |-> {}, stay |-> {}]

Init ==
    /\ first = [b \in Buckets |-> nil]
    /\ next = [e \in Elems |-> nil] /\ key = [e \in Elems |-> nil]
    /\ walk = [t \in Threads |-> NoWalk]
    /\ tab = [k \in Keys |-> nil] /\ panic = FALSE

(***************************************************************************)
(* Buckets.                                                                *)
(***************************************************************************)
hash(k) == khash[k] % capacity

\* The list of a bucket: its i-th element, and nil after the last.
Chain(b) ==
    LET nth[i \in 0 .. MaxElems] ==
            IF i = 0 THEN first[b]
            ELSE IF nth[i - 1] = nil THEN nil ELSE next[nth[i - 1]]
    IN  nth
InTable == {tab[k] : k \in Keys} \ {nil}

\* An element is that of a key.
\* (Faulty variant: the keys have the same hash.)
Match_hash(e, k) == khash[key[e]] = khash[k]
Match(e, k) == khash[key[e]] = khash[k] /\ key[e] = k

\* Where the loops of Set and Del end: at the key's element, before the first
\* with a greater hash, or at the end of the list.
Stop(b, k) ==
    LET c == Chain(b) IN
    Min({i \in 0 .. MaxElems : c[i] # nil => Match(c[i], k) \/ khash[k] < khash[key[c[i]]]})

Free == {e \in Elems : key[e] = nil}

\* The store of add and of rem: into the bucket or into the element before.
storeptr(b, i, e, nx) ==
    IF i = 0 THEN first' = [first EXCEPT ![b] = e] /\ next' = nx
    ELSE first' = first /\ next' = [nx EXCEPT ![Chain(b)[i - 1]] = e]

\* The element of a key has become e: what the walks under way may see.
Told(k, e) ==
    /\ tab' = [tab EXCEPT ![k] = e]
    /\ walk' = [t \in Threads |->
        LET w == walk[t] IN
        IF w.op \in {"none", "got"} THEN w
        ELSE [w EXCEPT !.vals = IF w.op = "get" /\ w.key = k THEN @ \cup {e} ELSE @,
                       !.was  = IF w.op # "get" /\ e # nil THEN @ \cup {e} ELSE @,
                       !.stay = IF e = nil THEN {x \in @ : key[x] # k} ELSE @]]

\* Set inserts an element unless the key has one, whose value it returns.
Set(k) ==
    /\ ~panic /\ Free # {}
    /\ LET b == hash(k)
           i == Stop(b, k)
           e == Chain(b)[i]
           n == Min(Free)
       IN  /\ ~(e # nil /\ Match(e, k))
           /\ key' = [key EXCEPT ![n] = k]
           /\ storeptr(b, i, n, [next EXCEPT ![n] = e])
           /\ Told(k, n)
    /\ UNCHANGED panic

\* What rem leaves of an element: its next, for those that are at it.
\* (Faulty variant: nothing.)
Removed_cut(e) == [next EXCEPT ![e] = nil]
Removed(e) == next

\* Del of a key that is there: callers delete what they have put.
Del(k) ==
    /\ ~panic /\ tab[k] # nil
    /\ LET b == hash(k)
           i == Stop(b, k)
           e == Chain(b)[i]
       IN  IF e # nil /\ Match(e, k)
           THEN storeptr(b, i, next[e], Removed(e)) /\ Told(k, nil) /\ UNCHANGED panic
           ELSE panic' = TRUE /\ UNCHANGED <<first, next, walk, tab>>
    /\ UNCHANGED key

(***************************************************************************)
(* Get.                                                                    *)
(***************************************************************************)
Get(t, k) ==
    /\ ~panic /\ walk[t].op = "none"
    /\ walk' = [walk EXCEPT ![t] = [NoWalk EXCEPT !.op = "get", !.key = k, !.at = first[hash(k)],
                                                  !.vals = {tab[k]}]]
    /\ UNCHANGED <<first, next, key, tab, panic>>

Ended(w) == w.at # nil => Match(w.at, w.key)

GetNext(t) ==
    /\ ~panic /\ walk[t].op = "get" /\ ~Ended(walk[t])
    /\ walk' = [walk EXCEPT ![t].at = next[@]]
    /\ UNCHANGED <<first, next, key, tab, panic>>

GetReturn(t) ==
    /\ ~panic /\ walk[t].op = "get" /\ Ended(walk[t])
    /\ walk' = [walk EXCEPT ![t] = [NoWalk EXCEPT !.op = "got", !.at = walk[t].at]]
    /\ UNCHANGED <<first, next, key, tab, panic>>

(***************************************************************************)
(* Iter, step by step, and Elems, which takes the lock of one bucket after *)
(* the other (as Size does).                                               *)
(***************************************************************************)
Begin(t, op) ==
    /\ ~panic /\ walk[t].op = "none"
    /\ walk' = [walk EXCEPT ![t] = [NoWalk EXCEPT !.op = op, !.at = first[0],
                                                  !.was = InTable, !.stay = InTable]]
    /\ UNCHANGED <<first, next, key, tab, panic>>

\* f is called with the element and answers that the walk goes on.
IterElem(t) ==
    /\ ~panic /\ walk[t].op = "iter" /\ walk[t].at # nil
    /\ walk' = [walk EXCEPT ![t].out = Append(@, walk[t].at), ![t].at = next[@]]
    /\ UNCHANGED <<first, next, key, tab, panic>>

IterBucket(t) ==
    /\ ~panic /\ walk[t].op = "iter" /\ walk[t].at = nil /\ walk[t].bucket + 1 \in Buckets
    /\ walk' = [walk EXCEPT ![t].bucket = @ + 1, ![t].at = first[walk[t].bucket + 1]]
    /\ UNCHANGED <<first, next, key, tab, panic>>

\* The elements of one bucket.
ElemsBucket(t) ==
    /\ ~panic /\ walk[t].op = "elems" /\ walk[t].bucket \in Buckets
    /\ LET c == Chain(walk[t].bucket)
           n == Min({i \in 0 .. MaxElems : c[i] = nil})
       IN  walk' = [walk EXCEPT ![t].bucket = @ + 1, ![t].out = @ \o [i \in 1 .. n |-> c[i - 1]]]
    /\ UNCHANGED <<first, next, key, tab, panic>>

\* The walk has been through all buckets.
AtEnd(w) ==
    \/ w.op = "iter" /\ w.at = nil /\ w.bucket = capacity - 1
    \/ w.op = "elems" /\ w.bucket = capacity

\* It returns, at the end or because f has answered that it is to stop; the
\* answer of a Get is used.
WalkReturn(t) ==
    /\ ~panic
    /\ walk[t].op = "got" \/ AtEnd(walk[t]) \/ (walk[t].op = "iter" /\ walk[t].out # << >>)
    /\ walk' = [walk EXCEPT ![t] = NoWalk]
    /\ UNCHANGED <<first, next, key, tab, panic>>

(***************************************************************************)
(* The specification.                                                      *)
(***************************************************************************)
Next ==
    \/ \E k \in Keys : Set(k) \/ Del(k)
    \/ \E t \in Threads :
        \/ \E k \in Keys : Get(t, k)
        \/ GetNext(t) \/ GetReturn(t)
        \/ \E op \in {"iter", "elems"} : Begin(t, op)
        \/ IterElem(t) \/ IterBucket(t) \/ ElemsBucket(t) \/ WalkReturn(t)

Spec == Init /\ [][Next]_vars

(***************************************************************************)
(* Properties.                                                             *)
(***************************************************************************)
\* The types of the state.
TypeOK ==
    /\ first \in [Buckets -> Elems \cup {nil}] /\ next \in [Elems -> Elems \cup {nil}]
    /\ key \in [Elems -> Keys \cup {nil}] /\ tab \in [Keys -> Elems \cup {nil}] /\ panic \in BOOLEAN
    /\ walk \in [Threads -> [op : {"none", "get", "got", "iter", "elems"}, key : Keys \cup {nil},
                             at : Elems \cup {nil}, bucket : 0 .. capacity, out : Seq(Elems),
                             vals : SUBSET (Elems \cup {nil}), was : SUBSET Elems, stay : SUBSET Elems]]

\* The table is a map with atomic changes, of which a Get sees the one before or
\* the one after: elements that are removed, or put in, while a Get is at them
\* or before them lead it neither to a stale answer nor past the key.  The loops
\* of Set and Del that stop early find what is there: no key gets a second element,
\* and no Del panics.
Map == INSTANCE KVMap WITH
    Vals <- Elems, NoVal <- nil, map <- tab, failed <- panic,
    seen <- [t \in Threads |-> IF walk[t].op = "get" THEN [key |-> walk[t].key, vals |-> walk[t].vals]
                               ELSE [key |-> nil, vals |-> {}]],
    ans <- [t \in Threads |-> IF walk[t].op = "got" THEN walk[t].at ELSE nil]
GetsLinearizable == Map!MSpec

\* A walk meets every element that is in the table from its beginning to its
\* end, once, and none that was not there in between.
WalksComplete ==
    \A t \in Threads :
        LET w == walk[t] IN
        /\ w.op \in {"iter", "elems"} => \A i \in DOMAIN w.out : w.out[i] \in w.was
        /\ \A i, j \in DOMAIN w.out : w.out[i] = w.out[j] => i = j
        /\ AtEnd(w) => \A e \in w.stay : \E i \in DOMAIN w.out : w.out[i] = e

(***************************************************************************)
(* What the code does not do.                                              *)
(***************************************************************************)
\* Elems returns what the table has at one moment, at least that of its return.
ElemsCurrent ==
    \A t \in Threads : walk[t].op = "elems" /\ AtEnd(walk[t]) =>
        {walk[t].out[i] : i \in DOMAIN walk[t].out} \subseteq InTable

==============================================================================
