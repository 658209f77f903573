---------------------------- MODULE HashtableProofs ----------------------------
(***************************************************************************)
(* Theorems about the hashtable (module Hashtable): walks without locks    *)
(* miss nothing and see nothing stale, and the table implements KVMap.     *)
(***************************************************************************)
EXTENDS Hashtable, FiniteSetTheorems, NaturalsInduction, SequenceTheorems, TLAPS

(***************************************************************************)
(* Numbers.                                                                *)
(***************************************************************************)
\* A set of natural numbers has a least element.
LEMMA MinNat ==
    ASSUME NEW S \in SUBSET Nat, S # {}
    PROVE  Min(S) \in S /\ \A y \in S : Min(S) <= y
<1>1. PICK x \in S : \A y \in S : ~(<<y, x>> \in OpToRel(<, Nat))
  BY WFMin, NatLessThanWellFounded
<1>2. \A u, v \in Nat : u < v => <<u, v>> \in OpToRel(<, Nat)
  BY Zenon DEF OpToRel
<1>3. \A y \in S : ~(y < x)
  BY <1>1, <1>2, Zenon
<1>4. \A y \in S : x <= y
  BY <1>3
<1> QED BY <1>4 DEF Min

\* Induction on a set.
LEMMA SetInduction ==
    ASSUME NEW S, 0 \in S, \A n \in Nat : n \in S => n + 1 \in S
    PROVE  Nat \subseteq S
<1> SUFFICES ASSUME Nat \ S # {} PROVE FALSE
  OBVIOUS
<1>1. PICK m \in Nat \ S : \A y \in Nat \ S : m <= y
  BY MinNat
<1>2. m # 0 /\ m - 1 \in Nat /\ m = (m - 1) + 1
  BY <1>1
<1>3. m - 1 \in S
  BY <1>1, <1>2
<1> QED BY <1>1, <1>2, <1>3

(***************************************************************************)
(* The list of a bucket.                                                   *)
(***************************************************************************)
Ptr == Elems \cup {nil}

\* The pointer after p.
After(p) == IF p = nil THEN nil ELSE next[p]

\* The first n + 1 pointers of the list of bucket b.
IsChain(b, n, c) ==
    c \in [0 .. n -> Ptr] /\ c[0] = first[b] /\ \A i \in 1 .. n : c[i] = After(c[i - 1])

LEMMA ChainExists ==
    ASSUME NEW b, first[b] \in Ptr, next \in [Elems -> Ptr], NEW n \in Nat
    PROVE  \E c : IsChain(b, n, c)
<1> DEFINE S == {m \in Nat : \E c : IsChain(b, m, c)}
<1>1. 0 \in S
  <2>1. [i \in 0 .. 0 |-> first[b]] \in [0 .. 0 -> Ptr]
    OBVIOUS
  <2>2. [i \in 0 .. 0 |-> first[b]][0] = first[b] /\ \A i \in 1 .. 0 : FALSE
    OBVIOUS
  <2> QED BY <2>1, <2>2 DEF IsChain
<1>2. ASSUME NEW m \in Nat, m \in S PROVE m + 1 \in S
  <2>1. PICK c \in [0 .. m -> Ptr] : c[0] = first[b] /\ \A i \in 1 .. m : c[i] = After(c[i - 1])
    BY <1>2 DEF IsChain
  <2>2. PICK d : d = [i \in 0 .. m + 1 |-> IF i = m + 1 THEN After(c[m]) ELSE c[i]]
    OBVIOUS
  <2>3. c[m] \in Ptr /\ After(c[m]) \in Ptr
    BY <2>1 DEF After, Ptr
  <2>4. d \in [0 .. m + 1 -> Ptr]
    BY <2>2, <2>3
  <2>5. d[0] = first[b]
    BY <2>1, <2>2
  <2>6. ASSUME NEW i \in 1 .. m + 1 PROVE d[i] = After(d[i - 1])
    <3>1. d[i - 1] = c[i - 1]
      BY <2>2
    <3>2. CASE i = m + 1
      BY <2>2, <3>1, <3>2
    <3>3. CASE i # m + 1
      <4>1. i \in 1 .. m /\ d[i] = c[i]
        BY <2>2, <3>3
      <4> QED BY <2>1, <3>1, <4>1
    <3> QED BY <3>2, <3>3
  <2> QED BY <2>4, <2>5, <2>6 DEF IsChain
<1> HIDE DEF S
<1>3. n \in S
  BY <1>1, <1>2, SetInduction
<1> QED BY <1>3 DEF S

\* What Chain is.
LEMMA ChainDef ==
    ASSUME NEW b, first[b] \in Ptr, next \in [Elems -> Ptr]
    PROVE  /\ Chain(b) \in [0 .. MaxElems -> Ptr] /\ Chain(b)[0] = first[b]
           /\ \A i \in 1 .. MaxElems : Chain(b)[i] = After(Chain(b)[i - 1])
<1> DEFINE F(c) == [i \in 0 .. MaxElems |-> IF i = 0 THEN first[b]
                                            ELSE IF c[i - 1] = nil THEN nil ELSE next[c[i - 1]]]
<1>1. Chain(b) = CHOOSE c : c = F(c)
  BY DEF Chain
<1>2. PICK c \in [0 .. MaxElems -> Ptr] : c[0] = first[b] /\ \A i \in 1 .. MaxElems : c[i] = After(c[i - 1])
  <2>0. MaxElems \in Nat
    BY HashtableAssumption
  <2>1. \E c : IsChain(b, MaxElems, c)
    BY <2>0, ChainExists
  <2>2. PICK c : IsChain(b, MaxElems, c)
    BY <2>1
  <2> QED BY <2>2 DEF IsChain
<1>3. c = F(c)
  <2>1. \A i \in 0 .. MaxElems : i # 0 => i \in 1 .. MaxElems
    BY HashtableAssumption
  <2>2. \A i \in 0 .. MaxElems : c[i] = F(c)[i]
    BY <1>2, <2>1 DEF After
  <2> QED BY <2>2
<1>4. PICK d : d = Chain(b) /\ d = F(d)
  BY <1>1, <1>3
<1>5. d[0] = first[b] /\ \A i \in 1 .. MaxElems : d[i] = After(d[i - 1])
  <2>1. 0 \in 0 .. MaxElems
    BY HashtableAssumption
  <2>2. \A i \in 1 .. MaxElems : i \in 0 .. MaxElems /\ i # 0
    BY HashtableAssumption
  <2>3. \A i \in 0 .. MaxElems : d[i] = IF i = 0 THEN first[b]
                                        ELSE IF d[i - 1] = nil THEN nil ELSE next[d[i - 1]]
    BY <1>4
  <2> QED BY <2>1, <2>2, <2>3 DEF After
<1>6. \A i \in 0 .. MaxElems : d[i] \in Ptr
  <2> DEFINE S == {i \in Nat : i <= MaxElems => d[i] \in Ptr}
  <2>1. 0 \in S
    BY <1>5
  <2>2. ASSUME NEW i \in Nat, i \in S PROVE i + 1 \in S
    <3> SUFFICES ASSUME i + 1 <= MaxElems PROVE d[i + 1] \in Ptr
      OBVIOUS
    <3>1. i + 1 \in 1 .. MaxElems /\ (i + 1) - 1 = i /\ i <= MaxElems
      BY HashtableAssumption
    <3>2. d[i] \in Ptr /\ d[i + 1] = After(d[i])
      BY <1>5, <2>2, <3>1
    <3> QED BY <3>2 DEF After, Ptr
  <2> HIDE DEF S
  <2>3. Nat \subseteq S
    BY <2>1, <2>2, SetInduction
  <2> QED BY <2>3, HashtableAssumption DEF S
<1>7. d \in [0 .. MaxElems -> Ptr]
  <2>1. d = [i \in 0 .. MaxElems |-> d[i]]
    BY <1>4
  <2> QED BY <1>6, <2>1
<1> QED BY <1>4, <1>5, <1>7

(***************************************************************************)
(* The inductive invariant.                                                *)
(***************************************************************************)
\* The elements that have been made, and those of the table in a bucket.
Used == {e \in Elems : key[e] # nil}
Live(b) == {e \in Used : hash(key[e]) = b /\ tab[key[e]] = e}

\* The order of the lists: by hash, and within a hash by age.
Less(e, f) ==
    \/ khash[key[e]] < khash[key[f]]
    \/ khash[key[e]] = khash[key[f]] /\ e < f

\* f is the first of S in the order of the lists, or nil if there is none.
IsLeast(f, S) ==
    \/ f = nil /\ S = {}
    \/ f \in S /\ \A x \in S : x = f \/ Less(f, x)

\* Those that come after e, of the elements that are in the table.
Later(b, e) == {x \in Live(b) : Less(e, x)}

\* A bucket's list has the elements of the table in their order.
ListInv ==
    \A b \in Buckets : /\ IsLeast(first[b], Live(b))
                       /\ \A e \in Live(b) : IsLeast(next[e], Later(b, e))

\* What an element points to, removed or not, comes later in its bucket.
OrderInv ==
    \A e \in Used : next[e] # nil =>
        next[e] \in Used /\ hash(key[next[e]]) = hash(key[e]) /\ Less(e, next[e])

\* Elements are made in ascending order.
FreshInv == \A e \in Used, f \in Free : e < f

\* The element that a key has is one with that key.
TabInv == \A k \in Keys : tab[k] # nil => key[tab[k]] = k

\* The pointers lead from at to g.
Leads(at, g, B) ==
    B \subseteq Used /\ at \in B /\ g \in B /\ \A e \in B : e # g => next[e] \in B
Reaches(at, g) == \E B \in SUBSET Elems : Leads(at, g, B)

\* The pointers lead from at to members of S only.
Confined(at, S, C) ==
    C \subseteq S /\ at \in C \cup {nil} /\ \A e \in C : next[e] \in C \cup {nil}
Only(at, S) == \E C \in SUBSET Elems : Confined(at, S, C)

\* The elements that a Get may meet, and those that an Iter may.
Fit(w)  == {e \in Used : key[e] = w.key => e \in w.vals}
Here(w) == {e \in w.was : hash(key[e]) = w.bucket}

GetOK(w) ==
    /\ w.key \in Keys /\ tab[w.key] \in w.vals
    /\ Only(w.at, Fit(w))
    /\ nil \notin w.vals => Reaches(w.at, tab[w.key])

Met(w, e) == \E i \in DOMAIN w.out : w.out[i] = e
Once(w) == \A i, j \in DOMAIN w.out : w.out[i] = w.out[j] => i = j

\* What has been in the table since a walk began.
SinceOK(w) == InTable \subseteq w.was /\ w.was \subseteq Used /\ w.stay \subseteq InTable

IterOK(w) ==
    /\ w.bucket \in Buckets /\ SinceOK(w) /\ Once(w)
    /\ Only(w.at, Here(w))
    /\ \A i \in DOMAIN w.out : /\ w.out[i] \in w.was
                               /\ hash(key[w.out[i]]) <= w.bucket
                               /\ hash(key[w.out[i]]) = w.bucket /\ w.at # nil => Less(w.out[i], w.at)
    /\ \A e \in w.stay : /\ hash(key[e]) < w.bucket => Met(w, e)
                         /\ hash(key[e]) = w.bucket => Met(w, e) \/ Reaches(w.at, e)

ElemsOK(w) ==
    /\ SinceOK(w) /\ Once(w)
    /\ \A i \in DOMAIN w.out : w.out[i] \in w.was /\ hash(key[w.out[i]]) < w.bucket
    /\ \A e \in w.stay : hash(key[e]) < w.bucket => Met(w, e)

WalkOK(w) ==
    /\ w.op = "get" => GetOK(w)
    /\ w.op = "iter" => IterOK(w)
    /\ w.op = "elems" => ElemsOK(w)
    /\ w.op \in {"none", "get", "got"} => w.out = << >>
WalksInv == \A t \in Threads : WalkOK(walk[t])

\* The state of the lists, and the whole invariant.
TableInv == TypeOK /\ ListInv /\ OrderInv /\ FreshInv /\ TabInv /\ panic = FALSE
IInv == TableInv /\ WalksInv

(***************************************************************************)
(* The order of the lists.                                                 *)
(***************************************************************************)
LEMMA HashBucket ==
    ASSUME NEW k \in Keys
    PROVE  khash[k] \in Nat /\ hash(k) \in Buckets
<1>1. khash[k] \in Nat /\ capacity \in Nat /\ capacity # 0
  BY HashtableAssumption
<1>2. \A a, c \in Nat : c # 0 => a % c \in 0 .. c - 1
  OBVIOUS
<1> QED BY <1>1, <1>2 DEF hash, Buckets

LEMMA UsedFacts ==
    ASSUME TypeOK, NEW e \in Used
    PROVE  /\ e \in Elems /\ e \in Nat /\ e # nil /\ e \notin Free
           /\ key[e] \in Keys /\ khash[key[e]] \in Nat /\ hash(key[e]) \in Buckets
<1>1. e \in Elems /\ key[e] \in Keys
  BY DEF Used, TypeOK
<1>2. e \in Nat /\ e # nil
  BY <1>1, HashtableAssumption DEF Elems, nil
<1>3. e \notin Free
  BY DEF Free, Used
<1> QED BY <1>1, <1>2, <1>3, HashBucket

LEMMA LessIrreflexive ==
    ASSUME TypeOK, NEW e \in Used
    PROVE  ~Less(e, e)
<1>1. e \in Nat /\ khash[key[e]] \in Nat
  BY UsedFacts
<1> QED BY <1>1 DEF Less

LEMMA LessTransitive ==
    ASSUME TypeOK, NEW e \in Used, NEW f \in Used, NEW g \in Used, Less(e, f), Less(f, g)
    PROVE  Less(e, g)
<1>1. /\ e \in Nat /\ f \in Nat /\ g \in Nat
      /\ khash[key[e]] \in Nat /\ khash[key[f]] \in Nat /\ khash[key[g]] \in Nat
  BY UsedFacts
<1> QED BY <1>1 DEF Less

LEMMA LessTotal ==
    ASSUME TypeOK, NEW e \in Used, NEW f \in Used
    PROVE  e = f \/ Less(e, f) \/ Less(f, e)
<1>1. e \in Nat /\ f \in Nat /\ khash[key[e]] \in Nat /\ khash[key[f]] \in Nat
  BY UsedFacts
<1> QED BY <1>1 DEF Less

LEMMA LessHash ==
    ASSUME TypeOK, NEW e \in Used, NEW f \in Used, Less(e, f)
    PROVE  khash[key[e]] <= khash[key[f]]
<1>1. e \in Nat /\ f \in Nat /\ khash[key[e]] \in Nat /\ khash[key[f]] \in Nat
  BY UsedFacts
<1> QED BY <1>1 DEF Less

\* The four facts as one, for steps that need several.
LEMMA LessOrder ==
    ASSUME TypeOK
    PROVE  /\ \A e \in Used : ~Less(e, e)
           /\ \A e, f, g \in Used : Less(e, f) /\ Less(f, g) => Less(e, g)
           /\ \A e, f \in Used : e = f \/ Less(e, f) \/ Less(f, e)
           /\ \A e, f \in Used : Less(e, f) => khash[key[e]] <= khash[key[f]]
<1>1. \A e \in Used : ~Less(e, e)
  BY LessIrreflexive
<1>2. \A e, f, g \in Used : Less(e, f) /\ Less(f, g) => Less(e, g)
  BY LessTransitive
<1>3. \A e, f \in Used : e = f \/ Less(e, f) \/ Less(f, e)
  BY LessTotal
<1>4. \A e, f \in Used : Less(e, f) => khash[key[e]] <= khash[key[f]]
  BY LessHash
<1> QED BY <1>1, <1>2, <1>3, <1>4

LEMMA LiveFacts ==
    ASSUME TypeOK, NEW b, NEW e \in Live(b)
    PROVE  e \in Used /\ e # nil /\ hash(key[e]) = b /\ tab[key[e]] = e
<1>1. e \in Used /\ hash(key[e]) = b /\ tab[key[e]] = e
  BY DEF Live
<1> QED BY <1>1, UsedFacts

\* The element of a key is in the key's list, and those in a list are the
\* elements of their keys.
LEMMA TabLive ==
    ASSUME TypeOK, TabInv, NEW k \in Keys, tab[k] # nil
    PROVE  tab[k] \in Live(hash(k)) /\ key[tab[k]] = k
<1>1. tab[k] \in Elems /\ key[tab[k]] = k /\ k # nil
  BY HashtableAssumption DEF TypeOK, TabInv
<1> QED BY <1>1 DEF Live, Used

LEMMA InTableLive ==
    ASSUME TypeOK, TabInv, NEW e
    PROVE  e \in InTable <=> e \in Used /\ e \in Live(hash(key[e]))
<1>1. ASSUME e \in InTable PROVE e \in Used /\ e \in Live(hash(key[e]))
  <2>1. PICK k \in Keys : e = tab[k] /\ tab[k] # nil
    BY <1>1 DEF InTable
  <2>2. e \in Live(hash(k)) /\ key[e] = k
    BY <2>1, TabLive
  <2> QED BY <2>2 DEF Live
<1>2. ASSUME e \in Used, e \in Live(hash(key[e])) PROVE e \in InTable
  <2>1. e # nil /\ key[e] \in Keys /\ tab[key[e]] = e
    BY <1>2, UsedFacts, LiveFacts
  <2> QED BY <2>1 DEF InTable
<1> QED BY <1>1, <1>2

(***************************************************************************)
(* The list of a bucket is its elements of the table, in their order.      *)
(***************************************************************************)
LEMMA ChainType ==
    ASSUME TypeOK, NEW b \in Buckets
    PROVE  /\ Chain(b) \in [0 .. MaxElems -> Ptr] /\ Chain(b)[0] = first[b]
           /\ \A i \in 1 .. MaxElems : Chain(b)[i] = After(Chain(b)[i - 1])
<1>1. first[b] \in Ptr /\ next \in [Elems -> Ptr]
  BY DEF TypeOK, Ptr
<1> QED BY <1>1, ChainDef

LEMMA ChainLive ==
    ASSUME TableInv, NEW b \in Buckets, NEW i \in 0 .. MaxElems, Chain(b)[i] # nil
    PROVE  Chain(b)[i] \in Live(b)
<1> DEFINE S == {j \in Nat : j <= MaxElems /\ Chain(b)[j] # nil => Chain(b)[j] \in Live(b)}
<1>0. TypeOK /\ ListInv /\ MaxElems \in Nat
  BY HashtableAssumption DEF TableInv
<1>1. 0 \in S
  <2>1. Chain(b)[0] = first[b] /\ IsLeast(first[b], Live(b))
    BY <1>0, ChainType DEF ListInv
  <2> QED BY <2>1 DEF IsLeast
<1>2. ASSUME NEW j \in Nat, j \in S PROVE j + 1 \in S
  <2> SUFFICES ASSUME j + 1 <= MaxElems, Chain(b)[j + 1] # nil PROVE Chain(b)[j + 1] \in Live(b)
    OBVIOUS
  <2>1. j + 1 \in 1 .. MaxElems /\ (j + 1) - 1 = j /\ j <= MaxElems
    BY <1>0
  <2>2. Chain(b)[j + 1] = After(Chain(b)[j])
    BY <1>0, <2>1, ChainType
  <2>3. Chain(b)[j] # nil /\ Chain(b)[j + 1] = next[Chain(b)[j]]
    BY <2>2 DEF After
  <2>4. Chain(b)[j] \in Live(b)
    BY <1>2, <2>1, <2>3
  <2>5. IsLeast(Chain(b)[j + 1], Later(b, Chain(b)[j]))
    BY <1>0, <2>3, <2>4 DEF ListInv
  <2> QED BY <2>5 DEF IsLeast, Later
<1> HIDE DEF S
<1>3. i \in S
  BY <1>1, <1>2, SetInduction
<1> QED BY <1>0, <1>3 DEF S

\* One step along the list.
LEMMA ChainStep ==
    ASSUME TableInv, NEW b \in Buckets, NEW i \in Nat, i + 1 <= MaxElems, Chain(b)[i + 1] # nil
    PROVE  /\ Chain(b)[i] # nil /\ Chain(b)[i + 1] = next[Chain(b)[i]]
           /\ Chain(b)[i] \in Live(b) /\ Chain(b)[i + 1] \in Live(b)
           /\ Less(Chain(b)[i], Chain(b)[i + 1])
<1>0. TypeOK /\ OrderInv /\ MaxElems \in Nat
  BY HashtableAssumption DEF TableInv
<1>1. i + 1 \in 1 .. MaxElems /\ (i + 1) - 1 = i /\ i \in 0 .. MaxElems /\ i + 1 \in 0 .. MaxElems
  BY <1>0
<1>2. Chain(b)[i + 1] = After(Chain(b)[i])
  BY <1>0, <1>1, ChainType
<1>3. Chain(b)[i] # nil /\ Chain(b)[i + 1] = next[Chain(b)[i]]
  BY <1>2 DEF After
<1>4. Chain(b)[i] \in Live(b) /\ Chain(b)[i + 1] \in Live(b)
  BY <1>1, <1>3, ChainLive
<1>5. Chain(b)[i] \in Used
  BY <1>0, <1>4, LiveFacts
<1> QED BY <1>0, <1>3, <1>4, <1>5 DEF OrderInv

LEMMA ChainOrder ==
    ASSUME TableInv, NEW b \in Buckets, NEW i \in Nat, NEW j \in Nat, i < j, j <= MaxElems, Chain(b)[j] # nil
    PROVE  Chain(b)[i] \in Live(b) /\ Less(Chain(b)[i], Chain(b)[j])
<1> DEFINE S == {m \in Nat : i + m + 1 <= MaxElems /\ Chain(b)[i + m + 1] # nil
                                => Chain(b)[i] \in Live(b) /\ Less(Chain(b)[i], Chain(b)[i + m + 1])}
<1>0. TypeOK /\ MaxElems \in Nat
  BY HashtableAssumption DEF TableInv
<1>1. 0 \in S
  <2> SUFFICES ASSUME i + 1 <= MaxElems, Chain(b)[i + 1] # nil
               PROVE  Chain(b)[i] \in Live(b) /\ Less(Chain(b)[i], Chain(b)[i + 1])
    <3>1. i + 0 + 1 = i + 1
      OBVIOUS
    <3> QED BY <3>1
  <2> QED BY ChainStep
<1>2. ASSUME NEW m \in Nat, m \in S PROVE m + 1 \in S
  <2>0. PICK l \in Nat : l = i + m + 1
    OBVIOUS
  <2>1. i + (m + 1) + 1 = l + 1 /\ i + m + 1 = l
    BY <2>0
  <2> SUFFICES ASSUME l + 1 <= MaxElems, Chain(b)[l + 1] # nil
               PROVE  Chain(b)[i] \in Live(b) /\ Less(Chain(b)[i], Chain(b)[l + 1])
    BY <2>1
  <2>2. Chain(b)[l] # nil /\ Chain(b)[l] \in Live(b) /\ Chain(b)[l + 1] \in Live(b) /\ Less(Chain(b)[l], Chain(b)[l + 1])
    BY ChainStep
  <2>3. l <= MaxElems
    BY <1>0
  <2>4. Chain(b)[i] \in Live(b) /\ Less(Chain(b)[i], Chain(b)[l])
    BY <1>2, <2>1, <2>2, <2>3
  <2>5. Chain(b)[i] \in Used /\ Chain(b)[l] \in Used /\ Chain(b)[l + 1] \in Used
    BY <1>0, <2>2, <2>4, LiveFacts
  <2> QED BY <1>0, <2>2, <2>4, <2>5, LessTransitive
<1>3. PICK m \in Nat : j = i + m + 1
  <2>1. j - i - 1 \in Nat /\ j = i + (j - i - 1) + 1
    OBVIOUS
  <2> QED BY <2>1
<1> HIDE DEF S
<1>4. m \in S
  BY <1>1, <1>2, SetInduction
<1> QED BY <1>3, <1>4 DEF S

\* Before an element of the table the list has only smaller ones.
LEMMA ChainMeets ==
    ASSUME TableInv, NEW b \in Buckets, NEW g \in Live(b), NEW i \in 0 .. MaxElems,
           \A j \in 0 .. i : Chain(b)[j] # g
    PROVE  Chain(b)[i] # nil /\ Less(Chain(b)[i], g)
<1> DEFINE S == {m \in Nat : m <= i => Chain(b)[m] # nil /\ Less(Chain(b)[m], g)}
<1>0. TypeOK /\ ListInv /\ MaxElems \in Nat /\ i \in Nat /\ i <= MaxElems
  BY HashtableAssumption DEF TableInv
<1>1. 0 \in S
  <2>1. Chain(b)[0] = first[b] /\ IsLeast(first[b], Live(b))
    BY <1>0, ChainType DEF ListInv
  <2>2. first[b] \in Live(b) /\ (g = first[b] \/ Less(first[b], g))
    BY <2>1 DEF IsLeast
  <2>3. 0 \in 0 .. i /\ Chain(b)[0] # g
    BY <1>0
  <2>4. first[b] # nil
    BY <1>0, <2>2, LiveFacts
  <2> QED BY <2>1, <2>2, <2>3, <2>4
<1>2. ASSUME NEW m \in Nat, m \in S PROVE m + 1 \in S
  <2> SUFFICES ASSUME m + 1 <= i PROVE Chain(b)[m + 1] # nil /\ Less(Chain(b)[m + 1], g)
    OBVIOUS
  <2>1. m + 1 \in 1 .. MaxElems /\ (m + 1) - 1 = m /\ m <= i /\ m \in 0 .. MaxElems /\ m + 1 \in 0 .. i
    BY <1>0
  <2>2. Chain(b)[m] # nil /\ Less(Chain(b)[m], g) /\ Chain(b)[m + 1] # g
    BY <1>2, <2>1
  <2>3. Chain(b)[m + 1] = After(Chain(b)[m])
    BY <1>0, <2>1, ChainType
  <2>4. Chain(b)[m] \in Live(b) /\ Chain(b)[m + 1] = next[Chain(b)[m]]
    BY <2>1, <2>2, <2>3, ChainLive DEF After
  <2>5. IsLeast(Chain(b)[m + 1], Later(b, Chain(b)[m]))
    BY <1>0, <2>4 DEF ListInv
  <2>6. g \in Later(b, Chain(b)[m])
    BY <2>2 DEF Later
  <2>7. Chain(b)[m + 1] \in Later(b, Chain(b)[m]) /\ Less(Chain(b)[m + 1], g)
    BY <2>2, <2>5, <2>6 DEF IsLeast
  <2>8. Chain(b)[m + 1] \in Live(b)
    BY <2>7 DEF Later
  <2> QED BY <1>0, <2>7, <2>8, LiveFacts
<1> HIDE DEF S
<1>3. i \in S
  BY <1>0, <1>1, <1>2, SetInduction
<1> QED BY <1>0, <1>3 DEF S

\* The list ends: it has no more elements than there are.
LEMMA ChainEnds ==
    ASSUME TableInv, NEW b \in Buckets
    PROVE  \E i \in 0 .. MaxElems : Chain(b)[i] = nil
<1> SUFFICES ASSUME \A i \in 0 .. MaxElems : Chain(b)[i] # nil PROVE FALSE
  OBVIOUS
<1>0. TypeOK /\ MaxElems \in Nat /\ Chain(b) \in [0 .. MaxElems -> Ptr]
  BY ChainType, HashtableAssumption DEF TableInv
<1>1. Chain(b) \in [0 .. MaxElems -> Elems]
  BY <1>0 DEF Ptr
<1>2. IsFiniteSet(0 .. MaxElems) /\ Cardinality(0 .. MaxElems) = MaxElems + 1
  <2>1. 0 \in Int /\ MaxElems \in Int /\ ~(0 > MaxElems) /\ MaxElems - 0 + 1 = MaxElems + 1
    BY <1>0
  <2> QED BY <2>1, FS_Interval
<1>3. IsFiniteSet(Elems) /\ Cardinality(Elems) = MaxElems
  <2>1. 1 \in Int /\ MaxElems \in Int /\ (1 > MaxElems => MaxElems = 0) /\ MaxElems - 1 + 1 = MaxElems
    BY <1>0
  <2> QED BY <2>1, FS_Interval DEF Elems
<1>4. Cardinality(0 .. MaxElems) > Cardinality(Elems)
  BY <1>0, <1>2, <1>3
<1>5. PICK i \in 0 .. MaxElems, j \in 0 .. MaxElems : i # j /\ Chain(b)[i] = Chain(b)[j]
  <2>1. PICK D, c : D = 0 .. MaxElems /\ c = Chain(b)
    OBVIOUS
  <2>2. c \in [D -> Elems] /\ IsFiniteSet(D) /\ Cardinality(Elems) < Cardinality(D)
    BY <1>0, <1>1, <1>2, <1>3, <1>4, <2>1
  <2>3. \E x, y \in D : x # y /\ c[x] = c[y]
    BY <1>3, <2>2, FS_PigeonHole
  <2> QED BY <2>1, <2>3
<1>6. \A m, n \in 0 .. MaxElems : m < n => Less(Chain(b)[m], Chain(b)[n]) /\ Chain(b)[n] \in Live(b)
  <2> SUFFICES ASSUME NEW m \in 0 .. MaxElems, NEW n \in 0 .. MaxElems, m < n
               PROVE  Less(Chain(b)[m], Chain(b)[n]) /\ Chain(b)[n] \in Live(b)
    OBVIOUS
  <2>1. m \in Nat /\ n \in Nat /\ n <= MaxElems /\ Chain(b)[n] # nil
    BY <1>0
  <2> QED BY <2>1, ChainOrder, ChainLive
<1>7. i < j \/ j < i
  BY <1>5
<1>8. Less(Chain(b)[i], Chain(b)[i]) /\ Chain(b)[i] \in Live(b)
  BY <1>5, <1>6, <1>7
<1> QED BY <1>0, <1>8, LiveFacts, LessIrreflexive

(***************************************************************************)
(* What Set and Del do.                                                    *)
(***************************************************************************)
\* The places where the loops may end.
Ends(b, k) ==
    {i \in 0 .. MaxElems : Chain(b)[i] # nil => Match(Chain(b)[i], k) \/ khash[k] < khash[key[Chain(b)[i]]]}

LEMMA StopDef ==
    ASSUME TableInv, NEW b \in Buckets, NEW k \in Keys
    PROVE  /\ Stop(b, k) \in 0 .. MaxElems /\ Stop(b, k) \in Ends(b, k)
           /\ \A j \in 0 .. MaxElems : j < Stop(b, k) => j \notin Ends(b, k)
<1>1. Stop(b, k) = Min(Ends(b, k))
  BY DEF Stop, Ends
<1>2. Ends(b, k) \subseteq 0 .. MaxElems
  BY DEF Ends
<1>3. Ends(b, k) \in SUBSET Nat
  BY <1>2, HashtableAssumption
<1>4. Ends(b, k) # {}
  BY ChainEnds DEF Ends
<1>5. PICK S : S = Ends(b, k)
  OBVIOUS
<1>6. Min(S) \in S /\ \A y \in S : Min(S) <= y
  BY <1>3, <1>4, <1>5, MinNat
<1>7. Stop(b, k) \in 0 .. MaxElems /\ Stop(b, k) \in Ends(b, k)
  BY <1>1, <1>2, <1>5, <1>6
<1>8. ASSUME NEW j \in 0 .. MaxElems, j < Stop(b, k), j \in Ends(b, k) PROVE FALSE
  BY <1>1, <1>5, <1>6, <1>7, <1>8, HashtableAssumption
<1> QED BY <1>7, <1>8

\* Before the stop there are other keys, with hashes that are not greater.
LEMMA BeforeStop ==
    ASSUME TableInv, NEW b \in Buckets, NEW k \in Keys, NEW j \in 0 .. MaxElems, j < Stop(b, k)
    PROVE  /\ Chain(b)[j] # nil /\ Chain(b)[j] \in Live(b)
           /\ khash[key[Chain(b)[j]]] <= khash[k] /\ key[Chain(b)[j]] # k
<1>0. TypeOK
  BY DEF TableInv
<1>1. j \notin Ends(b, k)
  BY StopDef
<1>2. Chain(b)[j] # nil /\ ~Match(Chain(b)[j], k) /\ ~(khash[k] < khash[key[Chain(b)[j]]])
  BY <1>1 DEF Ends
<1>3. Chain(b)[j] \in Live(b)
  BY <1>2, ChainLive
<1>4. Chain(b)[j] \in Used
  BY <1>0, <1>3, LiveFacts
<1>5. khash[key[Chain(b)[j]]] \in Nat /\ khash[k] \in Nat
  BY <1>0, <1>4, UsedFacts, HashBucket
<1>6. khash[key[Chain(b)[j]]] <= khash[k]
  BY <1>2, <1>5
<1>7. key[Chain(b)[j]] # k
  BY <1>2 DEF Match
<1> QED BY <1>2, <1>3, <1>6, <1>7

\* The loops find the element of a key that has one.
LEMMA StopFinds ==
    ASSUME TableInv, NEW k \in Keys, tab[k] # nil
    PROVE  Chain(hash(k))[Stop(hash(k), k)] = tab[k]
<1>1. PICK b \in Buckets : b = hash(k)
  BY HashBucket
<1>2. PICK i \in 0 .. MaxElems : i = Stop(b, k) /\ i \in Ends(b, k)
  BY StopDef
<1>3. PICK g : g = tab[k]
  OBVIOUS
<1>0. TypeOK /\ TabInv /\ khash[k] \in Nat /\ MaxElems \in Nat
  BY HashtableAssumption, HashBucket DEF TableInv
<1>4. g \in Live(b) /\ key[g] = k /\ g \in Used
  BY <1>0, <1>1, <1>3, TabLive, LiveFacts
<1> SUFFICES ASSUME Chain(b)[i] # g PROVE FALSE
  BY <1>1, <1>2, <1>3
<1>5. ASSUME NEW j \in 0 .. i PROVE Chain(b)[j] # g
  <2>1. CASE j = i
    BY <2>1
  <2>2. CASE j # i
    <3>1. j \in 0 .. MaxElems /\ j < Stop(b, k)
      BY <1>0, <1>2, <2>2
    <3> QED BY <1>4, <3>1, BeforeStop
  <2> QED BY <2>1, <2>2
<1>6. Chain(b)[i] # nil /\ Less(Chain(b)[i], g)
  BY <1>4, <1>5, ChainMeets
<1>7. Chain(b)[i] \in Live(b)
  BY <1>6, ChainLive
<1>8. Chain(b)[i] \in Used /\ tab[key[Chain(b)[i]]] = Chain(b)[i]
  BY <1>0, <1>7, LiveFacts
<1>9. khash[key[Chain(b)[i]]] <= khash[k] /\ khash[key[Chain(b)[i]]] \in Nat
  BY <1>0, <1>4, <1>6, <1>8, LessHash, UsedFacts
<1>10. Match(Chain(b)[i], k)
  BY <1>0, <1>2, <1>6, <1>9 DEF Ends
<1> QED BY <1>3, <1>8, <1>10 DEF Match

\* They find nothing for one that has none.
LEMMA StopMisses ==
    ASSUME TableInv, NEW k \in Keys, tab[k] = nil,
           Chain(hash(k))[Stop(hash(k), k)] # nil
    PROVE  /\ Chain(hash(k))[Stop(hash(k), k)] \in Live(hash(k))
           /\ ~Match(Chain(hash(k))[Stop(hash(k), k)], k)
           /\ khash[k] < khash[key[Chain(hash(k))[Stop(hash(k), k)]]]
<1>1. PICK b \in Buckets : b = hash(k)
  BY HashBucket
<1>2. PICK i \in 0 .. MaxElems : i = Stop(b, k) /\ i \in Ends(b, k)
  BY StopDef
<1>3. Chain(b)[i] # nil
  BY <1>1, <1>2
<1>4. Chain(b)[i] \in Live(b)
  BY <1>3, ChainLive
<1>5. TypeOK
  BY DEF TableInv
<1>6. tab[key[Chain(b)[i]]] = Chain(b)[i]
  BY <1>4, <1>5, LiveFacts
<1>7. ~Match(Chain(b)[i], k)
  BY <1>3, <1>6 DEF Match
<1> QED BY <1>1, <1>2, <1>3, <1>4, <1>7 DEF Ends

\* Element n, of key k, has come between p and q in the list of its bucket; p is
\* nil if it is the first.
Inserted(k, p, q, n) ==
    /\ n \in Free /\ \A f \in Free : n <= f
    /\ p = nil => /\ first[hash(k)] = q
                  /\ first' = [first EXCEPT ![hash(k)] = n] /\ next' = [next EXCEPT ![n] = q]
    /\ p # nil => /\ p \in Live(hash(k)) /\ next[p] = q /\ khash[key[p]] <= khash[k]
                  /\ first' = first /\ next' = [next EXCEPT ![n] = q, ![p] = n]
    /\ q # nil => q \in Live(hash(k)) /\ khash[k] < khash[key[q]]
    /\ tab[k] = nil
    /\ key' = [key EXCEPT ![n] = k] /\ Told(k, n) /\ panic' = panic

\* Element d, of key k, which came after p, has left the list.
Unlinked(k, p, d) ==
    /\ d = tab[k] /\ d # nil /\ d \in Live(hash(k))
    /\ p = nil => first[hash(k)] = d /\ first' = [first EXCEPT ![hash(k)] = next[d]] /\ next' = next
    /\ p # nil => /\ p \in Live(hash(k)) /\ next[p] = d
                  /\ first' = first /\ next' = [next EXCEPT ![p] = next[d]]
    /\ key' = key /\ Told(k, nil) /\ panic' = panic

\* What is before the i-th pointer of a list.
LEMMA Pred ==
    ASSUME TableInv, NEW b \in Buckets, NEW k \in Keys, NEW i \in 0 .. MaxElems, i = Stop(b, k), i # 0
    PROVE  /\ Chain(b)[i - 1] # nil /\ Chain(b)[i - 1] \in Live(b)
           /\ next[Chain(b)[i - 1]] = Chain(b)[i] /\ khash[key[Chain(b)[i - 1]]] <= khash[k]
<1>1. i - 1 \in 0 .. MaxElems /\ i - 1 < Stop(b, k) /\ i \in 1 .. MaxElems
  BY HashtableAssumption
<1>2. TypeOK
  BY DEF TableInv
<1>3. Chain(b)[i - 1] # nil /\ Chain(b)[i - 1] \in Live(b) /\ khash[key[Chain(b)[i - 1]]] <= khash[k]
  BY <1>1, BeforeStop
<1>4. Chain(b)[i] = After(Chain(b)[i - 1])
  BY <1>1, <1>2, ChainType
<1> QED BY <1>3, <1>4 DEF After

LEMMA SetEffects ==
    ASSUME TableInv, NEW k \in Keys, Set(k)
    PROVE  \E p, q, n : Inserted(k, p, q, n)
<1>1. PICK b \in Buckets : b = hash(k)
  BY HashBucket
<1>2. PICK i \in 0 .. MaxElems : i = Stop(b, k)
  BY StopDef
<1>3. PICK q, n : q = Chain(b)[i] /\ n = Min(Free)
  OBVIOUS
<1>4. /\ Free # {} /\ ~(q # nil /\ Match(q, k))
      /\ key' = [key EXCEPT ![n] = k]
      /\ storeptr(b, i, n, [next EXCEPT ![n] = q])
      /\ Told(k, n) /\ panic' = panic
  BY <1>1, <1>2, <1>3 DEF Set
<1>5. n \in Free /\ \A f \in Free : n <= f
  <2>1. Free \in SUBSET Nat
    BY HashtableAssumption DEF Free, Elems
  <2> QED BY <1>3, <1>4, <2>1, MinNat
<1>0. TypeOK /\ TabInv
  BY DEF TableInv
<1>6. tab[k] = nil
  <2> SUFFICES ASSUME tab[k] # nil PROVE FALSE
    OBVIOUS
  <2>1. q = tab[k] /\ key[q] = k
    BY <1>0, <1>1, <1>2, <1>3, StopFinds, TabLive
  <2>2. Match(q, k)
    BY <2>1 DEF Match
  <2> QED BY <1>4, <2>1, <2>2
<1>7. q # nil => q \in Live(b) /\ khash[k] < khash[key[q]]
  BY <1>1, <1>2, <1>3, <1>6, StopMisses
<1>8. CASE i = 0
  <2>1. first[b] = q
    BY <1>0, <1>3, <1>8, ChainType
  <2>2. first' = [first EXCEPT ![b] = n] /\ next' = [next EXCEPT ![n] = q]
    BY <1>4, <1>8 DEF storeptr
  <2>3. Inserted(k, nil, q, n)
    BY <1>1, <1>4, <1>5, <1>6, <1>7, <2>1, <2>2 DEF Inserted
  <2> QED BY <2>3
<1>9. CASE i # 0
  <2>1. PICK p : p = Chain(b)[i - 1]
    OBVIOUS
  <2>2. p # nil /\ p \in Live(b) /\ next[p] = q /\ khash[key[p]] <= khash[k]
    BY <1>2, <1>3, <1>9, <2>1, Pred
  <2>3. first' = first /\ next' = [[next EXCEPT ![n] = q] EXCEPT ![p] = n]
    BY <1>4, <1>9, <2>1 DEF storeptr
  <2>4. next' = [next EXCEPT ![n] = q, ![p] = n]
    BY <2>3
  <2>5. Inserted(k, p, q, n)
    BY <1>1, <1>4, <1>5, <1>6, <1>7, <2>2, <2>3, <2>4 DEF Inserted
  <2> QED BY <2>5
<1> QED BY <1>8, <1>9

LEMMA DelEffects ==
    ASSUME TableInv, NEW k \in Keys, Del(k)
    PROVE  \E p, d : Unlinked(k, p, d)
<1>1. PICK b \in Buckets : b = hash(k)
  BY HashBucket
<1>2. PICK i \in 0 .. MaxElems : i = Stop(b, k)
  BY StopDef
<1>3. PICK d : d = Chain(b)[i]
  OBVIOUS
<1>0. TypeOK /\ TabInv /\ tab[k] # nil
  BY DEF TableInv, Del
<1>4. d = tab[k] /\ d \in Live(b) /\ key[d] = k
  BY <1>0, <1>1, <1>2, <1>3, StopFinds, TabLive
<1>5. Match(d, k)
  BY <1>4 DEF Match
<1>6. storeptr(b, i, next[d], Removed(d)) /\ Told(k, nil) /\ panic' = panic /\ key' = key
  BY <1>0, <1>1, <1>2, <1>3, <1>4, <1>5 DEF Del
<1>7. CASE i = 0
  <2>1. first[b] = d
    BY <1>0, <1>3, <1>7, ChainType
  <2>2. first' = [first EXCEPT ![b] = next[d]] /\ next' = next
    BY <1>6, <1>7 DEF storeptr, Removed
  <2>3. Unlinked(k, nil, d)
    BY <1>0, <1>1, <1>4, <1>6, <2>1, <2>2 DEF Unlinked
  <2> QED BY <2>3
<1>8. CASE i # 0
  <2>1. PICK p : p = Chain(b)[i - 1]
    OBVIOUS
  <2>2. p # nil /\ p \in Live(b) /\ next[p] = d
    BY <1>2, <1>3, <1>8, <2>1, Pred
  <2>3. first' = first /\ next' = [next EXCEPT ![p] = next[d]]
    BY <1>6, <1>8, <2>1 DEF storeptr, Removed
  <2>4. Unlinked(k, p, d)
    BY <1>0, <1>1, <1>4, <1>6, <2>2, <2>3 DEF Unlinked
  <2> QED BY <2>4
<1> QED BY <1>7, <1>8

(***************************************************************************)
(* Insertion.                                                              *)
(***************************************************************************)
TableType ==
    /\ first \in [Buckets -> Ptr] /\ next \in [Elems -> Ptr]
    /\ key \in [Elems -> Keys \cup {nil}] /\ tab \in [Keys -> Ptr] /\ panic \in BOOLEAN

LEMMA TypeParts ==
    ASSUME TypeOK
    PROVE  TableType
BY DEF TypeOK, TableType, Ptr

LEMMA InsertedPlain ==
    ASSUME TableInv, NEW k \in Keys, NEW p, NEW q, NEW n, Inserted(k, p, q, n)
    PROVE  /\ n \in Elems /\ n \in Nat /\ n \notin Used /\ n # nil /\ p # n /\ q # n
           /\ p # nil => p \in Used
           /\ q # nil => q \in Used
           /\ key'[n] = k /\ \A e \in Elems : e # n => key'[e] = key[e]
           /\ next'[n] = q /\ (p # nil => next'[p] = n)
           /\ \A e \in Elems : e # n /\ e # p => next'[e] = next[e]
           /\ p = nil => first'[hash(k)] = n
           /\ \A b \in Buckets : b # hash(k) \/ p # nil => first'[b] = first[b]
           /\ tab'[k] = n /\ \A j \in Keys : j # k => tab'[j] = tab[j]
           /\ TableType'
<1>0. TypeOK /\ TableType
  BY TypeParts DEF TableInv
<1>1. n \in Elems /\ n \in Nat /\ n # nil /\ n \notin Used
  BY HashtableAssumption DEF Inserted, Free, Used, Elems, nil
<1>2. (p # nil => p \in Used) /\ (q # nil => q \in Used)
  BY <1>0, LiveFacts DEF Inserted
<1>3. p # n /\ q # n
  BY <1>1, <1>2
<1>4. key'[n] = k /\ key' \in [Elems -> Keys \cup {nil}] /\ \A e \in Elems : e # n => key'[e] = key[e]
  BY <1>0, <1>1 DEF Inserted, TableType
<1>5. tab'[k] = n /\ tab' \in [Keys -> Ptr] /\ \A j \in Keys : j # k => tab'[j] = tab[j]
  BY <1>0, <1>1 DEF Inserted, Told, TableType, Ptr
<1>6. p \in Ptr /\ q \in Ptr /\ hash(k) \in Buckets
  BY <1>2, HashBucket DEF Used, Ptr
<1>7. CASE p = nil
  <2>1. first' = [first EXCEPT ![hash(k)] = n] /\ next' = [next EXCEPT ![n] = q]
    BY <1>7 DEF Inserted
  <2>2. first' \in [Buckets -> Ptr] /\ first'[hash(k)] = n /\ \A b \in Buckets : b # hash(k) => first'[b] = first[b]
    BY <1>0, <1>1, <1>6, <2>1 DEF TableType, Ptr
  <2>3. next' \in [Elems -> Ptr] /\ next'[n] = q /\ \A e \in Elems : e # n => next'[e] = next[e]
    BY <1>0, <1>1, <1>6, <2>1 DEF TableType
  <2>4. TableType'
    BY <1>0, <1>4, <1>5, <2>2, <2>3 DEF TableType, Inserted, Ptr
  <2> QED BY <1>1, <1>2, <1>3, <1>4, <1>5, <1>7, <2>2, <2>3, <2>4
<1>8. CASE p # nil
  <2>1. first' = first /\ next' = [next EXCEPT ![n] = q, ![p] = n]
    BY <1>8 DEF Inserted
  <2>2. p \in Elems /\ n \in Ptr
    BY <1>1, <1>6, <1>8 DEF Ptr
  <2>3. next' \in [Elems -> Ptr] /\ next'[n] = q /\ next'[p] = n /\ \A e \in Elems : e # n /\ e # p => next'[e] = next[e]
    BY <1>0, <1>1, <1>3, <1>6, <2>1, <2>2 DEF TableType
  <2>4. TableType'
    BY <1>0, <1>4, <1>5, <2>1, <2>3 DEF TableType, Inserted, Ptr
  <2> QED BY <1>1, <1>2, <1>3, <1>4, <1>5, <1>8, <2>1, <2>3, <2>4
<1> QED BY <1>7, <1>8

LEMMA InsertedSets ==
    ASSUME TableInv, NEW k \in Keys, NEW p, NEW q, NEW n, Inserted(k, p, q, n)
    PROVE  /\ Used' = Used \cup {n} /\ Free' = Free \ {n}
           /\ Live(hash(k))' = Live(hash(k)) \cup {n}
           /\ \A b : b # hash(k) => Live(b)' = Live(b)
           /\ InTable' = InTable \cup {n}
<1>0. TypeOK /\ TabInv /\ k # nil
  BY HashtableAssumption DEF TableInv
<1>1. /\ n \in Elems /\ n \notin Used /\ n # nil
      /\ key'[n] = k /\ \A e \in Elems : e # n => key'[e] = key[e]
      /\ tab'[k] = n /\ \A j \in Keys : j # k => tab'[j] = tab[j]
      /\ tab[k] = nil
  <2>1. tab[k] = nil
    BY DEF Inserted
  <2> QED BY <2>1, InsertedPlain
<1>2. Used' = Used \cup {n} /\ Free' = Free \ {n}
  BY <1>0, <1>1 DEF Used, Free
<1>3. \A b, e : e \in Live(b)' <=> e \in Used' /\ hash(key'[e]) = b /\ tab'[key'[e]] = e
  BY DEF Live, hash
<1>4. \A e \in Used : key'[e] = key[e] /\ (tab'[key[e]] = e <=> tab[key[e]] = e)
  <2> SUFFICES ASSUME NEW e \in Used PROVE key'[e] = key[e] /\ (tab'[key[e]] = e <=> tab[key[e]] = e)
    OBVIOUS
  <2>1. e \in Elems /\ key[e] \in Keys /\ e # n /\ e # nil
    BY <1>0, <1>1, UsedFacts
  <2>2. key'[e] = key[e]
    BY <1>1, <2>1
  <2> QED BY <1>1, <2>1, <2>2
<1>5. \A b, e : e \in Live(b) <=> e \in Used /\ hash(key[e]) = b /\ tab[key[e]] = e
  BY DEF Live
<1>6. n \in Live(hash(k))' /\ \A b : b # hash(k) => n \notin Live(b)'
  BY <1>1, <1>2, <1>3
<1>7. \A b, e : e # n => (e \in Live(b)' <=> e \in Live(b))
  BY <1>2, <1>3, <1>4, <1>5
<1>8. \A b : n \notin Live(b)
  BY <1>1, <1>5
<1>9. Live(hash(k))' = Live(hash(k)) \cup {n}
  BY <1>6, <1>7
<1>10. \A b : b # hash(k) => Live(b)' = Live(b)
  <2> SUFFICES ASSUME NEW b, b # hash(k) PROVE Live(b)' = Live(b)
    OBVIOUS
  <2> QED BY <1>6, <1>7, <1>8
<1>11. InTable' = InTable \cup {n}
  <2>1. \A e : e \in InTable' <=> \E j \in Keys : e = tab'[j] /\ e # nil
    BY DEF InTable
  <2>2. \A e : e \in InTable <=> \E j \in Keys : e = tab[j] /\ e # nil
    BY DEF InTable
  <2>3. ASSUME NEW e, e \in InTable' PROVE e \in InTable \cup {n}
    BY <1>1, <2>1, <2>2, <2>3
  <2>4. ASSUME NEW e, e \in InTable PROVE e \in InTable'
    BY <1>1, <2>1, <2>2, <2>4
  <2>5. n \in InTable'
    BY <1>1, <2>1
  <2> QED BY <2>3, <2>4, <2>5
<1> QED BY <1>2, <1>9, <1>10, <1>11

LEMMA InsertedLess ==
    ASSUME TableInv, NEW k \in Keys, NEW p, NEW q, NEW n, Inserted(k, p, q, n)
    PROVE  /\ \A e, f \in Used : Less(e, f)' <=> Less(e, f)
           /\ \A e \in Used : Less(e, n)' <=> khash[key[e]] <= khash[k]
           /\ \A e \in Used : Less(n, e)' <=> khash[k] < khash[key[e]]
<1>0. TypeOK /\ FreshInv /\ khash[k] \in Nat
  BY HashBucket DEF TableInv
<1>1. n \in Free /\ n \in Nat /\ key'[n] = k
  <2>1. n \in Free
    BY DEF Inserted
  <2> QED BY <2>1, InsertedPlain
<1>2. ASSUME NEW e \in Used
      PROVE  key'[e] = key[e] /\ e \in Nat /\ khash[key[e]] \in Nat /\ e < n
  <2>1. e \in Elems /\ e # n /\ e \in Nat /\ khash[key[e]] \in Nat
    BY <1>0, <1>1, UsedFacts
  <2>2. key'[e] = key[e]
    BY <2>1, InsertedPlain
  <2> QED BY <1>0, <1>1, <2>1, <2>2 DEF FreshInv
<1>3. \A e, f : Less(e, f)' <=> \/ khash[key'[e]] < khash[key'[f]]
                                \/ khash[key'[e]] = khash[key'[f]] /\ e < f
  BY DEF Less
<1>4. ASSUME NEW e \in Used, NEW f \in Used PROVE Less(e, f)' <=> Less(e, f)
  BY <1>2, <1>3 DEF Less
<1>5. ASSUME NEW e \in Used
      PROVE  /\ Less(e, n)' <=> khash[key[e]] <= khash[k]
             /\ Less(n, e)' <=> khash[k] < khash[key[e]]
  <2>1. PICK a \in Nat, h \in Nat : a = khash[key[e]] /\ h = khash[k]
    BY <1>0, <1>2
  <2>2. Less(e, n)' <=> a < h \/ (a = h /\ e < n)
    BY <1>1, <1>2, <1>3, <2>1
  <2>3. Less(n, e)' <=> h < a \/ (h = a /\ n < e)
    BY <1>1, <1>2, <1>3, <2>1
  <2>4. e < n /\ e \in Nat /\ n \in Nat
    BY <1>1, <1>2
  <2>5. (a < h \/ (a = h /\ e < n)) <=> a <= h
    BY <2>1, <2>4
  <2>6. (h < a \/ (h = a /\ n < e)) <=> h < a
    BY <2>1, <2>4
  <2> QED BY <2>1, <2>2, <2>3, <2>5, <2>6
<1> QED BY <1>4, <1>5

LEMMA InsertedFresh ==
    ASSUME TableInv, NEW k \in Keys, NEW p, NEW q, NEW n, Inserted(k, p, q, n)
    PROVE  FreshInv'
<1>1. Used' = Used \cup {n} /\ Free' = Free \ {n}
  BY InsertedSets
<1>2. n \in Free /\ \A f \in Free : n <= f
  BY DEF Inserted
<1>3. \A f \in Free : f \in Nat
  BY HashtableAssumption DEF Free, Elems
<1>4. \A e \in Used, f \in Free : e < f
  BY DEF TableInv, FreshInv
<1>5. ASSUME NEW e \in Used', NEW f \in Free' PROVE e < f
  <2>1. f \in Free /\ f # n
    BY <1>1
  <2>2. CASE e = n
    BY <1>2, <1>3, <2>1, <2>2
  <2>3. CASE e # n
    BY <1>1, <1>4, <2>1, <2>3
  <2> QED BY <2>2, <2>3
<1> QED BY <1>5 DEF FreshInv

LEMMA InsertedTab ==
    ASSUME TableInv, NEW k \in Keys, NEW p, NEW q, NEW n, Inserted(k, p, q, n)
    PROVE  TabInv'
<1>0. TypeOK /\ TabInv
  BY DEF TableInv
<1>1. /\ n \notin Used /\ key'[n] = k /\ \A e \in Elems : e # n => key'[e] = key[e]
      /\ tab'[k] = n /\ \A j \in Keys : j # k => tab'[j] = tab[j]
  BY InsertedPlain
<1>2. ASSUME NEW j \in Keys, tab'[j] # nil PROVE key'[tab'[j]] = j
  <2>1. CASE j = k
    BY <1>1, <2>1
  <2>2. CASE j # k
    <3>1. tab'[j] = tab[j] /\ tab[j] # nil
      BY <1>1, <1>2, <2>2
    <3>2. tab[j] \in Used /\ key[tab[j]] = j
      BY <1>0, <3>1, TabLive, LiveFacts
    <3>3. tab[j] \in Elems /\ tab[j] # n
      BY <1>0, <1>1, <3>2, UsedFacts
    <3> QED BY <1>1, <3>1, <3>2, <3>3
  <2> QED BY <2>1, <2>2
<1> QED BY <1>2 DEF TabInv

LEMMA InsertedOrder ==
    ASSUME TableInv, NEW k \in Keys, NEW p, NEW q, NEW n, Inserted(k, p, q, n)
    PROVE  OrderInv'
<1>0. TypeOK /\ OrderInv
  BY DEF TableInv
<1>1. /\ n \in Elems /\ n \notin Used /\ p # n /\ q # n /\ (p # nil => p \in Used) /\ (q # nil => q \in Used)
      /\ key'[n] = k /\ \A e \in Elems : e # n => key'[e] = key[e]
      /\ next'[n] = q /\ (p # nil => next'[p] = n)
      /\ \A e \in Elems : e # n /\ e # p => next'[e] = next[e]
  BY InsertedPlain
<1>2. Used' = Used \cup {n}
  BY InsertedSets
<1>3. \A e \in Used : e \in Elems /\ e # n /\ e # nil /\ key'[e] = key[e]
  BY <1>0, <1>1, UsedFacts
<1>4. /\ p # nil => hash(key[p]) = hash(k) /\ khash[key[p]] <= khash[k]
      /\ q # nil => hash(key[q]) = hash(k) /\ khash[k] < khash[key[q]]
  BY <1>0, LiveFacts DEF Inserted
<1>5. ASSUME NEW e \in Used', next'[e] # nil
      PROVE  next'[e] \in Used' /\ hash(key'[next'[e]]) = hash(key'[e]) /\ Less(e, next[e])'
  <2>1. CASE e = n
    <3>1. next'[e] = q /\ q \in Used /\ hash(key'[q]) = hash(key'[e])
      BY <1>1, <1>3, <1>4, <1>5, <2>1
    <3>2. Less(n, q)'
      BY <1>4, <1>5, <3>1, InsertedLess
    <3>3. Less(e, next[e])' <=> Less(n, q)'
      BY <2>1, <3>1 DEF Less
    <3> QED BY <1>2, <3>1, <3>2, <3>3
  <2>2. CASE e = p
    <3>1. e \in Used /\ next'[e] = n /\ e # nil
      BY <1>1, <1>2, <1>3, <2>2
    <3>2. Less(p, n)'
      BY <1>4, <2>2, <3>1, InsertedLess
    <3>3. Less(e, next[e])' <=> Less(p, n)'
      BY <2>2, <3>1 DEF Less
    <3> QED BY <1>1, <1>2, <1>3, <1>4, <2>2, <3>1, <3>2, <3>3
  <2>3. CASE e # n /\ e # p
    <3>1. e \in Used /\ next'[e] = next[e]
      BY <1>1, <1>2, <1>3, <2>3
    <3>2. next[e] \in Used /\ hash(key[next[e]]) = hash(key[e]) /\ Less(e, next[e])
      BY <1>0, <1>5, <3>1 DEF OrderInv
    <3>3. PICK f \in Used : f = next[e]
      BY <3>2
    <3>4. Less(e, f)'
      BY <3>1, <3>2, <3>3, InsertedLess
    <3>5. Less(e, next[e])' <=> Less(e, f)'
      BY <3>1, <3>3 DEF Less
    <3> QED BY <1>2, <1>3, <3>1, <3>2, <3>3, <3>4, <3>5
  <2> QED BY <2>1, <2>2, <2>3
<1>6. OrderInv' <=> \A e \in Used' : next'[e] # nil =>
        next'[e] \in Used' /\ hash(key'[next'[e]]) = hash(key'[e]) /\ Less(e, next[e])'
  BY DEF OrderInv, hash
<1> QED BY <1>5, <1>6

\* The lists stay in order: n goes after all whose hash is not greater.
LEMMA InsertedList ==
    ASSUME TableInv, NEW k \in Keys, NEW p, NEW q, NEW n, Inserted(k, p, q, n)
    PROVE  ListInv'
<1>0. TypeOK /\ ListInv
  BY DEF TableInv
<1>1. PICK h : h = hash(k) /\ h \in Buckets
  BY HashBucket
<1>2. /\ n \in Elems /\ n \notin Used /\ n # nil /\ p # n /\ q # n /\ (p # nil => p \in Used) /\ (q # nil => q \in Used)
      /\ next'[n] = q /\ (p # nil => next'[p] = n)
      /\ \A e \in Elems : e # n /\ e # p => next'[e] = next[e]
      /\ p = nil => first'[h] = n
      /\ \A b \in Buckets : b # h \/ p # nil => first'[b] = first[b]
  BY <1>1, InsertedPlain
<1>3. Live(h)' = Live(h) \cup {n} /\ \A b : b # h => Live(b)' = Live(b)
  BY <1>1, InsertedSets
<1>4. /\ \A e, f \in Used : Less(e, f)' <=> Less(e, f)
      /\ \A e \in Used : Less(e, n)' <=> khash[key[e]] <= khash[k]
      /\ \A e \in Used : Less(n, e)' <=> khash[k] < khash[key[e]]
  BY InsertedLess
<1>5. /\ p = nil => first[h] = q
      /\ p # nil => p \in Live(h) /\ next[p] = q /\ khash[key[p]] <= khash[k]
      /\ q # nil => q \in Live(h) /\ khash[k] < khash[key[q]]
  BY <1>1 DEF Inserted
<1>6. \A b : \A e \in Live(b) : e \in Used /\ e \in Elems /\ e # n /\ e # nil /\ hash(key[e]) = b /\ khash[key[e]] \in Nat
  <2> SUFFICES ASSUME NEW b, NEW e \in Live(b)
               PROVE  e \in Used /\ e \in Elems /\ e # n /\ e # nil /\ hash(key[e]) = b /\ khash[key[e]] \in Nat
    OBVIOUS
  <2>1. e \in Used /\ hash(key[e]) = b
    BY <1>0, LiveFacts
  <2> QED BY <1>0, <1>2, <2>1, UsedFacts
<1>9. \A b, e, x : x \in Later(b, e)' <=> x \in Live(b)' /\ Less(e, x)'
  BY DEF Later
<1>10. \A b \in Buckets : /\ IsLeast(first[b], Live(b))
                          /\ \A e \in Live(b) : IsLeast(next[e], Later(b, e))
  BY <1>0 DEF ListInv
<1>11. ListInv' <=> \A b \in Buckets : /\ IsLeast(first[b], Live(b))'
                                       /\ \A e \in Live(b)' : IsLeast(next[e], Later(b, e))'
  BY DEF ListInv
<1>12. /\ \A e \in Used : ~Less(e, e)
       /\ \A e, f, g \in Used : Less(e, f) /\ Less(f, g) => Less(e, g)
       /\ \A e, f \in Used : e = f \/ Less(e, f) \/ Less(f, e)
       /\ \A e, f \in Used : Less(e, f) => khash[key[e]] <= khash[key[f]]
  BY <1>0, LessOrder
<1>13. khash[k] \in Nat /\ \A e \in Used : khash[key[e]] \in Nat
  BY <1>0, UsedFacts, HashBucket
<1>14. \A b : \A e, x \in Live(b) : x \in Later(b, e) <=> Less(e, x)
  BY DEF Later
\* The elements up to p are those whose hash is not greater.
<1>15. ASSUME p = nil, NEW x \in Live(h) PROVE khash[k] < khash[key[x]]
  <2>1. IsLeast(q, Live(h))
    BY <1>1, <1>5, <1>10, <1>15
  <2>2. q \in Live(h) /\ (x = q \/ Less(q, x))
    BY <2>1 DEF IsLeast
  <2>3. q \in Used /\ x \in Used /\ q # nil
    BY <1>6, <2>2
  <2>4. khash[k] < khash[key[q]]
    BY <1>5, <2>3
  <2>5. khash[key[q]] <= khash[key[x]]
    BY <1>12, <1>13, <2>2, <2>3
  <2> QED BY <1>13, <2>3, <2>4, <2>5
<1>16. ASSUME p # nil, NEW x \in Live(h), Less(p, x) PROVE q # nil /\ q \in Live(h) /\ (x = q \/ Less(q, x)) /\ khash[k] < khash[key[x]]
  <2>1. p \in Live(h) /\ next[p] = q
    BY <1>5, <1>16
  <2>2. IsLeast(q, Later(h, p)) /\ x \in Later(h, p)
    BY <1>1, <1>10, <1>14, <1>16, <2>1
  <2>3. q \in Later(h, p) /\ (x = q \/ Less(q, x))
    BY <2>2 DEF IsLeast
  <2>4. q \in Live(h)
    BY <2>3 DEF Later
  <2>5. q \in Used /\ x \in Used /\ q # nil
    BY <1>6, <2>4
  <2>6. khash[k] < khash[key[q]]
    BY <1>5, <2>5
  <2>7. khash[key[q]] <= khash[key[x]]
    BY <1>12, <1>13, <2>3, <2>5
  <2>8. khash[k] < khash[key[x]]
    BY <1>13, <2>5, <2>6, <2>7
  <2> QED BY <2>3, <2>4, <2>5, <2>8
<1>17. ASSUME p # nil, NEW x \in Live(h), x = p \/ Less(x, p) PROVE khash[key[x]] <= khash[k]
  <2>1. p \in Used /\ x \in Used /\ khash[key[p]] <= khash[k]
    BY <1>2, <1>5, <1>6, <1>17
  <2>2. khash[key[x]] <= khash[key[p]]
    BY <1>12, <1>13, <1>17, <2>1
  <2> QED BY <1>13, <2>1, <2>2
\* The first of the list.
<1>18. IsLeast(first[h], Live(h))'
  <2>1. CASE p = nil
    <3>1. first'[h] = n
      BY <1>2, <2>1
    <3>2. ASSUME NEW x \in Live(h)' PROVE x = n \/ Less(n, x)'
      <4>1. CASE x # n
        <5>1. x \in Live(h) /\ x \in Used
          BY <1>3, <1>6, <4>1
        <5>2. khash[k] < khash[key[x]]
          BY <1>15, <2>1, <5>1
        <5> QED BY <1>4, <5>1, <5>2
      <4> QED BY <4>1
    <3>3. n \in Live(h)'
      BY <1>3
    <3>4. IsLeast(n, Live(h))'
      BY <3>2, <3>3 DEF IsLeast
    <3> QED BY <3>1, <3>4 DEF IsLeast, Less
  <2>2. CASE p # nil
    <3>1. PICK f : f = first[h] /\ f = first'[h]
      BY <1>1, <1>2, <2>2
    <3>2. p \in Live(h)
      BY <1>5, <2>2
    <3>3. f \in Live(h) /\ \A x \in Live(h) : x = f \/ Less(f, x)
      BY <1>1, <1>10, <3>1, <3>2 DEF IsLeast
    <3>4. f = p \/ Less(f, p)
      BY <3>2, <3>3
    <3>5. khash[key[f]] <= khash[k]
      BY <1>17, <2>2, <3>3, <3>4
    <3>6. f \in Used /\ Less(f, n)'
      BY <1>4, <1>6, <3>3, <3>5
    <3>7. ASSUME NEW x \in Live(h)' PROVE x = f \/ Less(f, x)'
      BY <1>3, <1>4, <1>6, <3>3, <3>6
    <3>8. f \in Live(h)'
      BY <1>3, <3>3
    <3>9. IsLeast(f, Live(h))'
      BY <3>7, <3>8 DEF IsLeast
    <3> QED BY <3>1, <3>9 DEF IsLeast, Less
  <2> QED BY <2>1, <2>2
\* What comes after n.
<1>19. IsLeast(q, Later(h, n))'
  <2>1. \A x : x \in Later(h, n)' <=> x \in Live(h) /\ khash[k] < khash[key[x]]
    <3>1. ~Less(n, n)'
      <4>1. Less(n, n)' <=> khash[key'[n]] < khash[key'[n]] \/ (khash[key'[n]] = khash[key'[n]] /\ n < n)
        BY DEF Less
      <4>2. key'[n] = k /\ n \in Nat
        BY InsertedPlain
      <4> QED BY <1>13, <4>1, <4>2
    <3> QED BY <1>3, <1>4, <1>6, <1>9, <3>1
  <2>2. CASE q = nil
    <3>1. ASSUME NEW x, x \in Later(h, n)' PROVE FALSE
      <4>1. x \in Live(h) /\ khash[k] < khash[key[x]] /\ x \in Used
        BY <1>6, <2>1, <3>1
      <4>2. CASE p = nil
        <5>1. IsLeast(nil, Live(h))
          BY <1>1, <1>5, <1>10, <2>2, <4>2
        <5> QED BY <1>6, <4>1, <5>1 DEF IsLeast
      <4>3. CASE p # nil
        <5>1. p \in Used /\ ~Less(p, x)
          BY <1>2, <1>16, <2>2, <4>1, <4>3
        <5>2. x = p \/ Less(x, p)
          BY <1>12, <4>1, <5>1
        <5>3. khash[key[x]] <= khash[k]
          BY <1>17, <4>1, <4>3, <5>2
        <5> QED BY <1>13, <4>1, <5>3
      <4> QED BY <4>2, <4>3
    <3>2. Later(h, n)' = {}
      BY <3>1
    <3> QED BY <2>2, <3>2 DEF IsLeast
  <2>3. CASE q # nil
    <3>1. q \in Live(h) /\ khash[k] < khash[key[q]]
      BY <1>5, <2>3
    <3>2. ASSUME NEW x \in Later(h, n)' PROVE x = q \/ Less(q, x)'
      <4>1. x \in Live(h) /\ khash[k] < khash[key[x]] /\ x \in Used /\ q \in Used
        BY <1>6, <2>1, <3>1, <3>2
      <4>2. x = q \/ Less(q, x)
        <5>1. CASE p = nil
          <6>1. IsLeast(q, Live(h))
            BY <1>1, <1>5, <1>10, <5>1
          <6> QED BY <2>3, <4>1, <6>1 DEF IsLeast
        <5>2. CASE p # nil
          <6>1. ~(x = p \/ Less(x, p))
            <7> SUFFICES ASSUME x = p \/ Less(x, p) PROVE FALSE
              OBVIOUS
            <7>1. khash[key[x]] <= khash[k]
              BY <1>17, <4>1, <5>2
            <7> QED BY <1>13, <4>1, <7>1
          <6>2. Less(p, x)
            BY <1>2, <1>12, <4>1, <5>2, <6>1
          <6> QED BY <1>16, <4>1, <5>2, <6>2
        <5> QED BY <5>1, <5>2
      <4> QED BY <1>4, <4>1, <4>2
    <3>3. q \in Later(h, n)'
      BY <2>1, <3>1
    <3> QED BY <3>2, <3>3 DEF IsLeast
  <2> QED BY <2>2, <2>3
\* What comes after another element of the list.
<1>20. ASSUME NEW e \in Live(h) PROVE IsLeast(next[e], Later(h, e))'
  <2>0. e \in Used /\ e \in Elems /\ e # n
    BY <1>6
  <2>1. \A x : x \in Later(h, e)' <=> x \in Later(h, e) \/ (x = n /\ khash[key[e]] <= khash[k])
    <3>1. \A x \in Live(h) : x \in Later(h, e)' <=> x \in Later(h, e)
      BY <1>3, <1>4, <1>6, <1>9, <2>0 DEF Later
    <3>2. n \in Later(h, e)' <=> khash[key[e]] <= khash[k]
      BY <1>3, <1>4, <1>9, <2>0
    <3>3. n \notin Later(h, e)
      BY <1>6 DEF Later
    <3>4. \A x : x \in Later(h, e)' \/ x \in Later(h, e) => x \in Live(h) \/ x = n
      BY <1>3, <1>9 DEF Later
    <3> QED BY <3>1, <3>2, <3>3, <3>4
  <2>2. CASE e = p
    <3>1. next'[e] = n /\ p # nil /\ khash[key[e]] <= khash[k]
      BY <1>2, <1>5, <1>6, <2>2
    <3>2. n \in Later(h, e)'
      BY <2>1, <3>1
    <3>3. ASSUME NEW x \in Later(h, e)' PROVE x = n \/ Less(n, x)'
      <4>1. CASE x # n
        <5>1. x \in Live(h) /\ Less(p, x)
          BY <2>1, <2>2, <4>1 DEF Later
        <5>2. khash[k] < khash[key[x]] /\ x \in Used
          BY <1>6, <1>16, <3>1, <5>1
        <5> QED BY <1>4, <5>2
      <4> QED BY <4>1
    <3>4. IsLeast(n, Later(h, e))'
      BY <3>2, <3>3 DEF IsLeast
    <3> QED BY <3>1, <3>4 DEF IsLeast, Less
  <2>3. CASE e # p
    <3>1. PICK f : f = next[e] /\ f = next'[e]
      BY <1>2, <2>0, <2>3
    <3>2. IsLeast(f, Later(h, e))
      BY <1>1, <1>10, <3>1
    <3>3. CASE khash[key[e]] <= khash[k]
      <4>1. p # nil
        BY <1>13, <1>15, <2>0, <3>3
      <4>2. p \in Live(h) /\ p \in Used
        BY <1>5, <1>6, <4>1
      <4>3. ~Less(p, e)
        BY <1>13, <1>16, <2>0, <3>3, <4>1
      <4>4. Less(e, p)
        BY <1>12, <2>0, <2>3, <4>2, <4>3
      <4>5. p \in Later(h, e)
        BY <4>2, <4>4 DEF Later
      <4>6. f \in Later(h, e) /\ (p = f \/ Less(f, p)) /\ \A x \in Later(h, e) : x = f \/ Less(f, x)
        BY <3>2, <4>5 DEF IsLeast
      <4>7. f \in Live(h) /\ f \in Used
        BY <1>6, <4>6 DEF Later
      <4>8. khash[key[f]] <= khash[k]
        BY <1>17, <4>1, <4>6, <4>7
      <4>9. Less(f, n)'
        BY <1>4, <4>7, <4>8
      <4>10. ASSUME NEW x \in Later(h, e)' PROVE x = f \/ Less(f, x)'
        <5>1. CASE x # n
          <6>1. x \in Later(h, e) /\ x \in Used
            BY <1>6, <2>1, <5>1 DEF Later
          <6> QED BY <1>4, <4>6, <4>7, <6>1
        <5> QED BY <4>9, <5>1
      <4>11. f \in Later(h, e)'
        BY <2>1, <4>6
      <4>12. IsLeast(f, Later(h, e))'
        BY <4>10, <4>11 DEF IsLeast
      <4> QED BY <3>1, <4>12 DEF IsLeast, Less
    <3>4. CASE ~(khash[key[e]] <= khash[k])
      <4>1. Later(h, e)' = Later(h, e)
        BY <2>1, <3>4
      <4>2. \A x \in Later(h, e) : x \in Used
        BY <1>6 DEF Later
      <4>3. IsLeast(f, Later(h, e))'
        BY <1>4, <3>2, <4>1, <4>2 DEF IsLeast
      <4> QED BY <3>1, <4>3 DEF IsLeast, Less
    <3> QED BY <3>3, <3>4
  <2> QED BY <2>2, <2>3
\* Other buckets.
<1>21. ASSUME NEW b \in Buckets, b # h
       PROVE  IsLeast(first[b], Live(b))' /\ \A e \in Live(b)' : IsLeast(next[e], Later(b, e))'
  <2>1. Live(b)' = Live(b) /\ first'[b] = first[b]
    BY <1>2, <1>3, <1>21
  <2>2. PICK f : f = first[b] /\ f = first'[b]
    BY <2>1
  <2>3. IsLeast(f, Live(b))'
    BY <1>4, <1>6, <1>10, <2>1, <2>2 DEF IsLeast
  <2>4. ASSUME NEW e \in Live(b) PROVE IsLeast(next[e], Later(b, e))'
    <3>1. e \in Used /\ e \in Elems /\ e # n /\ e # p
      <4>1. e \in Used /\ e \in Elems /\ e # n /\ e # nil /\ hash(key[e]) = b
        BY <1>6
      <4>2. e # p
        BY <1>5, <1>6, <1>21, <4>1
      <4> QED BY <4>1, <4>2
    <3>2. PICK g : g = next[e] /\ g = next'[e]
      BY <1>2, <3>1
    <3>3. \A x \in Live(b) : x \in Later(b, e)' <=> x \in Later(b, e)
      BY <1>4, <1>6, <1>9, <2>1, <3>1 DEF Later
    <3>4. Later(b, e)' = Later(b, e)
      BY <1>9, <2>1, <3>3 DEF Later
    <3>5. \A x \in Later(b, e) : x \in Used
      BY <1>6 DEF Later
    <3>6. IsLeast(g, Later(b, e))
      BY <1>10, <3>2
    <3>7. IsLeast(g, Later(b, e))'
      BY <1>4, <3>4, <3>5, <3>6 DEF IsLeast
    <3> QED BY <3>2, <3>7 DEF IsLeast, Less
  <2>5. IsLeast(first[b], Live(b))'
    BY <2>2, <2>3 DEF IsLeast, Less
  <2> QED BY <2>1, <2>4, <2>5
<1>22. ASSUME NEW e \in Live(h)' PROVE IsLeast(next[e], Later(h, e))'
  <2>1. CASE e = n
    <3>1. next'[e] = q
      BY <1>2, <2>1
    <3>2. Later(h, e)' = Later(h, n)'
      BY <2>1
    <3> QED BY <1>19, <3>1, <3>2 DEF IsLeast, Less
  <2>2. CASE e # n
    BY <1>3, <1>20, <2>2
  <2> QED BY <2>1, <2>2
<1>23. ASSUME NEW b \in Buckets
       PROVE  IsLeast(first[b], Live(b))' /\ \A e \in Live(b)' : IsLeast(next[e], Later(b, e))'
  BY <1>18, <1>21, <1>22
<1> QED BY <1>11, <1>23

(***************************************************************************)
(* Deletion.                                                               *)
(***************************************************************************)
LEMMA UnlinkedPlain ==
    ASSUME TableInv, NEW k \in Keys, NEW p, NEW d, Unlinked(k, p, d)
    PROVE  /\ d \in Used /\ d \in Elems /\ d # nil /\ p # d /\ (p # nil => p \in Used)
           /\ p # nil => next'[p] = next[d]
           /\ \A e \in Elems : e # p => next'[e] = next[e]
           /\ p = nil => first'[hash(k)] = next[d]
           /\ \A b \in Buckets : b # hash(k) \/ p # nil => first'[b] = first[b]
           /\ tab'[k] = nil /\ \A j \in Keys : j # k => tab'[j] = tab[j]
           /\ key' = key /\ key[d] = k
           /\ TableType'
<1>0. TypeOK /\ TableType /\ OrderInv /\ TabInv
  BY TypeParts DEF TableInv
<1>1. d = tab[k] /\ d # nil /\ d \in Live(hash(k)) /\ key' = key
  BY DEF Unlinked
<1>2. d \in Used /\ d \in Elems /\ key[d] = k
  BY <1>0, <1>1, LiveFacts, UsedFacts, TabLive
<1>3. p # nil => p \in Used /\ p \in Elems /\ next[p] = d
  <2> SUFFICES ASSUME p # nil PROVE p \in Used /\ p \in Elems /\ next[p] = d
    OBVIOUS
  <2>1. p \in Live(hash(k)) /\ next[p] = d
    BY DEF Unlinked
  <2>2. p \in Used
    BY <1>0, <2>1, LiveFacts
  <2> QED BY <1>0, <2>1, <2>2, UsedFacts
<1>4. p # d
  <2> SUFFICES ASSUME p = d PROVE FALSE
    OBVIOUS
  <2>1. p \in Used /\ next[p] = p
    BY <1>1, <1>3
  <2>2. Less(p, p)
    BY <1>0, <1>1, <2>1 DEF OrderInv
  <2> QED BY <1>0, <2>1, <2>2, LessIrreflexive
<1>5. tab'[k] = nil /\ tab' \in [Keys -> Ptr] /\ \A j \in Keys : j # k => tab'[j] = tab[j]
  BY <1>0 DEF Unlinked, Told, TableType, Ptr
<1>6. next[d] \in Ptr /\ hash(k) \in Buckets
  BY <1>0, <1>2, HashBucket DEF TableType
<1>7. CASE p = nil
  <2>1. first' = [first EXCEPT ![hash(k)] = next[d]] /\ next' = next
    BY <1>7 DEF Unlinked
  <2>2. first' \in [Buckets -> Ptr] /\ first'[hash(k)] = next[d] /\ \A b \in Buckets : b # hash(k) => first'[b] = first[b]
    BY <1>0, <1>6, <2>1 DEF TableType
  <2>3. TableType'
    BY <1>0, <1>1, <1>5, <2>1, <2>2 DEF TableType, Unlinked, Ptr
  <2> QED BY <1>1, <1>2, <1>4, <1>5, <1>7, <2>1, <2>2, <2>3
<1>8. CASE p # nil
  <2>1. first' = first /\ next' = [next EXCEPT ![p] = next[d]]
    BY <1>8 DEF Unlinked
  <2>2. next' \in [Elems -> Ptr] /\ next'[p] = next[d] /\ \A e \in Elems : e # p => next'[e] = next[e]
    BY <1>0, <1>3, <1>6, <1>8, <2>1 DEF TableType
  <2>3. TableType'
    BY <1>0, <1>1, <1>5, <2>1, <2>2 DEF TableType, Unlinked, Ptr
  <2> QED BY <1>1, <1>2, <1>3, <1>4, <1>5, <1>8, <2>1, <2>2, <2>3
<1> QED BY <1>7, <1>8

LEMMA UnlinkedSets ==
    ASSUME TableInv, NEW k \in Keys, NEW p, NEW d, Unlinked(k, p, d)
    PROVE  /\ Used' = Used /\ Free' = Free
           /\ Live(hash(k))' = Live(hash(k)) \ {d}
           /\ \A b : b # hash(k) => Live(b)' = Live(b)
           /\ InTable' = InTable \ {d}
           /\ \A e, f : Less(e, f)' <=> Less(e, f)
<1>0. TypeOK /\ TabInv
  BY DEF TableInv
<1>1. /\ d \in Used /\ d # nil /\ key' = key /\ key[d] = k
      /\ tab'[k] = nil /\ \A j \in Keys : j # k => tab'[j] = tab[j]
  BY UnlinkedPlain
<1>2. d = tab[k] /\ d \in Live(hash(k))
  BY DEF Unlinked
<1>3. Used' = Used /\ Free' = Free
  BY <1>1 DEF Used, Free
<1>4. \A b, e : e \in Live(b)' <=> e \in Used' /\ hash(key'[e]) = b /\ tab'[key'[e]] = e
  BY DEF Live, hash
<1>5. \A b, e : e \in Live(b) <=> e \in Used /\ hash(key[e]) = b /\ tab[key[e]] = e
  BY DEF Live
<1>6. \A e \in Used : e # nil /\ key[e] \in Keys
  BY <1>0, UsedFacts
<1>7. \A e \in Used : tab'[key[e]] = e <=> tab[key[e]] = e /\ e # d
  BY <1>1, <1>2, <1>6
<1>8. \A b, e : e \in Live(b)' <=> e \in Live(b) /\ e # d
  BY <1>1, <1>3, <1>4, <1>5, <1>7
<1>9. Live(hash(k))' = Live(hash(k)) \ {d}
  BY <1>8
<1>10. \A b : b # hash(k) => Live(b)' = Live(b)
  <2> SUFFICES ASSUME NEW b, b # hash(k) PROVE Live(b)' = Live(b)
    OBVIOUS
  <2>1. d \notin Live(b)
    BY <1>1, <1>5
  <2> QED BY <1>8, <2>1
<1>11. InTable' = InTable \ {d}
  <2>1. \A e : e \in InTable' <=> \E j \in Keys : e = tab'[j] /\ e # nil
    BY DEF InTable
  <2>2. \A e : e \in InTable <=> \E j \in Keys : e = tab[j] /\ e # nil
    BY DEF InTable
  <2>3. \A j \in Keys : tab[j] # nil => key[tab[j]] = j
    BY <1>0 DEF TabInv
  <2>4. ASSUME NEW e, e \in InTable' PROVE e \in InTable /\ e # d
    <3>1. PICK j \in Keys : e = tab'[j] /\ e # nil
      BY <2>1, <2>4
    <3>2. j # k /\ e = tab[j]
      BY <1>1, <3>1
    <3> QED BY <1>2, <1>1, <2>2, <2>3, <3>1, <3>2
  <2>5. ASSUME NEW e, e \in InTable, e # d PROVE e \in InTable'
    <3>1. PICK j \in Keys : e = tab[j] /\ e # nil
      BY <2>2, <2>5
    <3>2. j # k
      BY <1>2, <2>5, <3>1
    <3> QED BY <1>1, <2>1, <3>1, <3>2
  <2> QED BY <2>4, <2>5
<1>12. \A e, f : Less(e, f)' <=> Less(e, f)
  BY <1>1 DEF Less
<1> QED BY <1>3, <1>9, <1>10, <1>11, <1>12

LEMMA UnlinkedOrder ==
    ASSUME TableInv, NEW k \in Keys, NEW p, NEW d, Unlinked(k, p, d)
    PROVE  OrderInv' /\ FreshInv' /\ TabInv'
<1>0. TypeOK /\ OrderInv /\ FreshInv /\ TabInv
  BY DEF TableInv
<1>1. /\ d \in Used /\ d # nil /\ p # d /\ (p # nil => p \in Used)
      /\ p # nil => next'[p] = next[d]
      /\ \A e \in Elems : e # p => next'[e] = next[e]
      /\ tab'[k] = nil /\ \A j \in Keys : j # k => tab'[j] = tab[j]
      /\ key' = key
  BY UnlinkedPlain
<1>2. Used' = Used /\ Free' = Free /\ \A e, f : Less(e, f)' <=> Less(e, f)
  BY UnlinkedSets
<1>3. p # nil => next[p] = d
  BY DEF Unlinked
<1>4. FreshInv'
  BY <1>0, <1>2 DEF FreshInv
<1>5. TabInv'
  BY <1>0, <1>1 DEF TabInv
<1>6. ASSUME NEW e \in Used, next'[e] # nil
      PROVE  next'[e] \in Used /\ hash(key[next'[e]]) = hash(key[e]) /\ Less(e, next'[e])
  <2>1. CASE e = p
    <3>1. p # nil /\ next[p] = d /\ next'[e] = next[d]
      BY <1>0, <1>1, <1>3, <2>1, UsedFacts
    <3>2. hash(key[d]) = hash(key[e]) /\ Less(e, d)
      BY <1>0, <1>1, <1>6, <2>1, <3>1 DEF OrderInv
    <3>3. next[d] \in Used /\ hash(key[next[d]]) = hash(key[d]) /\ Less(d, next[d])
      BY <1>0, <1>1, <1>6, <3>1 DEF OrderInv
    <3>4. Less(e, next[d])
      BY <1>0, <1>1, <1>6, <3>2, <3>3, LessTransitive
    <3> QED BY <3>1, <3>2, <3>3, <3>4
  <2>2. CASE e # p
    <3>1. next'[e] = next[e]
      BY <1>0, <1>1, <2>2, UsedFacts
    <3> QED BY <1>0, <1>6, <3>1 DEF OrderInv
  <2> QED BY <2>1, <2>2
<1>7. OrderInv' <=> \A e \in Used' : next'[e] # nil =>
        next'[e] \in Used' /\ hash(key'[next'[e]]) = hash(key'[e]) /\ Less(e, next[e])'
  BY DEF OrderInv, hash
<1>8. \A e : Less(e, next[e])' <=> Less(e, next'[e])
  BY <1>1 DEF Less
<1>9. OrderInv'
  BY <1>1, <1>2, <1>6, <1>7, <1>8
<1> QED BY <1>4, <1>5, <1>9

LEMMA UnlinkedList ==
    ASSUME TableInv, NEW k \in Keys, NEW p, NEW d, Unlinked(k, p, d)
    PROVE  ListInv'
<1>0. TypeOK /\ ListInv
  BY DEF TableInv
<1>1. PICK h : h = hash(k) /\ h \in Buckets
  BY HashBucket
<1>2. /\ d \in Used /\ d \in Elems /\ d # nil /\ p # d /\ (p # nil => p \in Used)
      /\ p # nil => next'[p] = next[d]
      /\ \A e \in Elems : e # p => next'[e] = next[e]
      /\ p = nil => first'[h] = next[d]
      /\ \A b \in Buckets : b # h \/ p # nil => first'[b] = first[b]
  BY <1>1, UnlinkedPlain
<1>3. /\ Live(h)' = Live(h) \ {d} /\ \A b : b # h => Live(b)' = Live(b)
      /\ \A e, f : Less(e, f)' <=> Less(e, f)
  BY <1>1, UnlinkedSets
<1>4. /\ d \in Live(h)
      /\ p = nil => first[h] = d
      /\ p # nil => p \in Live(h) /\ next[p] = d
  BY <1>1 DEF Unlinked
<1>5. \A b : \A e \in Live(b) : e \in Used /\ e \in Elems /\ e # nil /\ hash(key[e]) = b
  <2> SUFFICES ASSUME NEW b, NEW e \in Live(b)
               PROVE  e \in Used /\ e \in Elems /\ e # nil /\ hash(key[e]) = b
    OBVIOUS
  <2>1. e \in Used /\ hash(key[e]) = b
    BY <1>0, LiveFacts
  <2> QED BY <1>0, <2>1, UsedFacts
<1>6. \A f, S : IsLeast(f, S)' <=> IsLeast(f, S)
  BY <1>3 DEF IsLeast
<1>7. \A b, e, x : x \in Later(b, e)' <=> x \in Live(b)' /\ Less(e, x)
  BY <1>3 DEF Later
<1>8. \A b, e, x : x \in Later(b, e) <=> x \in Live(b) /\ Less(e, x)
  BY DEF Later
<1>9. \A b \in Buckets : /\ IsLeast(first[b], Live(b))
                         /\ \A e \in Live(b) : IsLeast(next[e], Later(b, e))
  BY <1>0 DEF ListInv
<1>10. ListInv' <=> \A b \in Buckets : /\ IsLeast(first[b], Live(b))'
                                       /\ \A e \in Live(b)' : IsLeast(next[e], Later(b, e))'
  BY DEF ListInv
<1>11. /\ \A b : IsLeast(first[b], Live(b))' <=> IsLeast(first'[b], Live(b)')
       /\ \A b, e : IsLeast(next[e], Later(b, e))' <=> IsLeast(next'[e], Later(b, e)')
  BY <1>3 DEF IsLeast
<1>12. /\ \A e \in Used : ~Less(e, e)
       /\ \A e, f, g \in Used : Less(e, f) /\ Less(f, g) => Less(e, g)
       /\ \A e, f \in Used : e = f \/ Less(e, f) \/ Less(f, e)
  BY <1>0, LessOrder
\* What comes after d.
<1>13. IsLeast(next[d], Later(h, d))
  BY <1>1, <1>4, <1>9
<1>14. p # nil => IsLeast(d, Later(h, p)) /\ Less(p, d)
  BY <1>1, <1>2, <1>4, <1>8, <1>9 DEF IsLeast
<1>15. p = nil => IsLeast(d, Live(h))
  BY <1>1, <1>4, <1>9
\* The first of the list.
<1>16. IsLeast(first'[h], Live(h)')
  <2>1. CASE p = nil
    <3>1. \A x \in Live(h) : x = d \/ Less(d, x)
      BY <1>2, <1>15, <2>1 DEF IsLeast
    <3>2. \A x : x \in Live(h)' <=> x \in Later(h, d)
      BY <1>2, <1>3, <1>5, <1>8, <1>12, <3>1
    <3>3. Live(h)' = Later(h, d)
      BY <3>2
    <3> QED BY <1>2, <1>13, <2>1, <3>3
  <2>2. CASE p # nil
    <3>1. first'[h] = first[h] /\ IsLeast(first[h], Live(h)) /\ p \in Live(h)
      BY <1>1, <1>2, <1>4, <1>9, <2>2
    <3>2. first[h] \in Live(h) /\ (p = first[h] \/ Less(first[h], p)) /\ \A x \in Live(h) : x = first[h] \/ Less(first[h], x)
      BY <3>1 DEF IsLeast
    <3>3. first[h] # d
      <4>1. Less(p, d) /\ p \in Used /\ first[h] \in Used
        BY <1>2, <1>5, <1>14, <2>2, <3>2
      <4> QED BY <1>2, <1>12, <3>2, <4>1
    <3> QED BY <1>3, <3>1, <3>2, <3>3 DEF IsLeast
  <2> QED BY <2>1, <2>2
\* What comes after another element of the list.
<1>17. ASSUME NEW e \in Live(h), e # d PROVE IsLeast(next'[e], Later(h, e)')
  <2>0. e \in Used /\ e \in Elems
    BY <1>5
  <2>1. CASE e = p
    <3>1. p # nil /\ next'[e] = next[d]
      BY <1>2, <1>5, <2>1
    <3>2. \A x \in Later(h, p) : x = d \/ Less(d, x)
      BY <1>2, <1>14, <3>1 DEF IsLeast
    <3>3. \A x : x \in Later(h, e)' <=> x \in Later(h, d)
      <4>1. ASSUME NEW x \in Live(h) PROVE (x # d /\ Less(e, x)) <=> Less(d, x)
        <5>1. x \in Used /\ Less(p, d)
          BY <1>5, <1>14, <3>1
        <5>2. Less(p, x) => x = d \/ Less(d, x)
          BY <1>8, <3>2
        <5>3. Less(d, x) => x # d /\ Less(p, x)
          BY <1>2, <1>12, <3>1, <5>1
        <5> QED BY <2>1, <5>2, <5>3
      <4> QED BY <1>3, <1>7, <1>8, <4>1
    <3>4. Later(h, e)' = Later(h, d)
      BY <3>3
    <3> QED BY <1>13, <3>1, <3>4
  <2>2. CASE e # p
    <3>1. next'[e] = next[e] /\ IsLeast(next[e], Later(h, e))
      BY <1>1, <1>2, <1>9, <2>0, <2>2
    <3>2. \A x : x \in Later(h, e)' <=> x \in Later(h, e) /\ x # d
      BY <1>3, <1>7, <1>8
    <3>3. next[e] # d
      <4> SUFFICES ASSUME next[e] = d PROVE FALSE
        OBVIOUS
      <4>1. d \in Later(h, e) /\ Less(e, d) /\ \A x \in Later(h, e) : x = d \/ Less(d, x)
        BY <1>2, <1>8, <3>1 DEF IsLeast
      <4>2. ~Less(d, e)
        BY <1>2, <1>12, <2>0, <4>1
      <4>3. CASE p = nil
        BY <1>2, <1>15, <1>17, <4>2, <4>3 DEF IsLeast
      <4>4. CASE p # nil
        <5>1. p \in Live(h) /\ p \in Used /\ Less(p, d) /\ \A x \in Later(h, p) : x = d \/ Less(d, x)
          BY <1>2, <1>4, <1>14, <4>4 DEF IsLeast
        <5>2. ~Less(p, e)
          BY <1>8, <1>17, <4>2, <5>1
        <5>3. Less(e, p)
          BY <1>12, <2>0, <2>2, <5>1, <5>2
        <5>4. Less(d, p)
          BY <1>2, <1>8, <4>1, <5>1, <5>3
        <5> QED BY <1>2, <1>12, <5>1, <5>4
      <4> QED BY <4>3, <4>4
    <3>4. Later(h, e) = {} => Later(h, e)' = {}
      BY <3>2
    <3> QED BY <3>1, <3>2, <3>3, <3>4 DEF IsLeast
  <2> QED BY <2>1, <2>2
\* Other buckets.
<1>18. ASSUME NEW b \in Buckets, b # h
       PROVE  IsLeast(first'[b], Live(b)') /\ \A e \in Live(b)' : IsLeast(next'[e], Later(b, e)')
  <2>1. Live(b)' = Live(b) /\ first'[b] = first[b]
    BY <1>2, <1>3, <1>18
  <2>2. ASSUME NEW e \in Live(b) PROVE IsLeast(next'[e], Later(b, e)')
    <3>1. e \in Elems /\ e # p
      <4>1. e \in Elems /\ e # nil /\ hash(key[e]) = b
        BY <1>5
      <4>2. e # p
        BY <1>4, <1>5, <1>18, <4>1
      <4> QED BY <4>1, <4>2
    <3>2. next'[e] = next[e]
      BY <1>2, <3>1
    <3>3. Later(b, e)' = Later(b, e)
      BY <1>7, <1>8, <2>1
    <3> QED BY <1>9, <3>2, <3>3
  <2> QED BY <1>9, <2>1, <2>2
<1>19. ASSUME NEW b \in Buckets
       PROVE  IsLeast(first[b], Live(b))' /\ \A e \in Live(b)' : IsLeast(next[e], Later(b, e))'
  <2>1. CASE b = h
    <3>1. IsLeast(first'[b], Live(b)')
      BY <1>16, <2>1
    <3>2. \A e \in Live(b)' : IsLeast(next'[e], Later(b, e)')
      BY <1>3, <1>17, <2>1
    <3> QED BY <1>11, <3>1, <3>2
  <2>2. CASE b # h
    BY <1>11, <1>18, <2>2
  <2> QED BY <2>1, <2>2
<1> QED BY <1>10, <1>19

(***************************************************************************)
(* Walks while an element comes or goes.                                   *)
(***************************************************************************)
WalkSet ==
    [op : {"none", "get", "got", "iter", "elems"}, key : Keys \cup {nil},
     at : Elems \cup {nil}, bucket : 0 .. capacity, out : Seq(Elems),
     vals : SUBSET (Elems \cup {nil}), was : SUBSET Elems, stay : SUBSET Elems]

LEMMA TypeWhole ==
    TypeOK <=> TableType /\ walk \in [Threads -> WalkSet]
BY DEF TypeOK, TableType, Ptr, WalkSet

LEMMA TypeWholeNext ==
    TypeOK' <=> TableType' /\ walk' \in [Threads -> WalkSet]
BY DEF TypeOK, TableType, Ptr, WalkSet

\* The walks are looked at one by one.
LEMMA WalksNext ==
    ASSUME \A t \in Threads : \A v : v = walk'[t] => WalkOK(v)'
    PROVE  WalksInv'
<1> SUFFICES ASSUME NEW t \in Threads PROVE WalkOK(walk[t])'
  BY DEF WalksInv
<1>1. PICK v : v = walk'[t]
  OBVIOUS
<1>2. WalkOK(v)'
  BY <1>1
<1>3. GetOK(walk[t])' <=> GetOK(v)'
  BY <1>1 DEF GetOK, Fit, Only, Reaches, Leads, Confined, Used
<1>4. IterOK(walk[t])' <=> IterOK(v)'
  BY <1>1 DEF IterOK, SinceOK, Here, Met, Once, Only, Reaches, Leads, Confined, Used, Less, hash
<1>5. ElemsOK(walk[t])' <=> ElemsOK(v)'
  BY <1>1 DEF ElemsOK, SinceOK, Met, Once, hash
<1> QED BY <1>1, <1>2, <1>3, <1>4, <1>5 DEF WalkOK

\* What the new element e of key k (nil: none) does to a walk w.
ToldOne(k, e, w, v) ==
    /\ v \in WalkSet
    /\ v.op = w.op /\ v.key = w.key /\ v.at = w.at /\ v.bucket = w.bucket /\ v.out = w.out
    /\ v.vals = IF w.op = "get" /\ w.key = k THEN w.vals \cup {e} ELSE w.vals
    /\ v.was = IF w.op \in {"iter", "elems"} /\ e # nil THEN w.was \cup {e} ELSE w.was
    /\ w.op \in {"iter", "elems"} =>
         v.stay = IF e = nil THEN {x \in w.stay : key[x] # k} ELSE w.stay

LEMMA ToldWalks ==
    ASSUME TypeOK, NEW k \in Keys, NEW e \in Ptr, Told(k, e), NEW t \in Threads, NEW v, v = walk'[t]
    PROVE  ToldOne(k, e, walk[t], v)
<1>1. PICK w \in WalkSet : w = walk[t]
  BY TypeWhole
<1>2. v = IF w.op \in {"none", "got"} THEN w
          ELSE [w EXCEPT !.vals = IF w.op = "get" /\ w.key = k THEN @ \cup {e} ELSE @,
                         !.was  = IF w.op # "get" /\ e # nil THEN @ \cup {e} ELSE @,
                         !.stay = IF e = nil THEN {x \in @ : key[x] # k} ELSE @]
  BY <1>1 DEF Told
<1>3. CASE w.op \in {"none", "got"}
  BY <1>1, <1>2, <1>3 DEF ToldOne
<1>4. CASE w.op \notin {"none", "got"}
  <2>1. PICK a, b, c : /\ a = IF w.op = "get" /\ w.key = k THEN w.vals \cup {e} ELSE w.vals
                       /\ b = IF w.op # "get" /\ e # nil THEN w.was \cup {e} ELSE w.was
                       /\ c = IF e = nil THEN {x \in w.stay : key[x] # k} ELSE w.stay
    OBVIOUS
  <2>2. v = [w EXCEPT !.vals = a, !.was = b, !.stay = c]
    BY <1>2, <1>4, <2>1
  <2>3. a \in SUBSET (Elems \cup {nil}) /\ b \in SUBSET Elems /\ c \in SUBSET Elems
    BY <2>1 DEF WalkSet, Ptr
  <2>4. /\ v \in WalkSet /\ v.op = w.op /\ v.key = w.key /\ v.at = w.at /\ v.bucket = w.bucket /\ v.out = w.out
        /\ v.vals = a /\ v.was = b /\ v.stay = c
    BY <2>2, <2>3 DEF WalkSet
  <2>5. w.op # "get" <=> w.op \in {"iter", "elems"}
    BY <1>4 DEF WalkSet
  <2> QED BY <1>1, <2>1, <2>4, <2>5 DEF ToldOne
<1> QED BY <1>3, <1>4

LEMMA ToldType ==
    ASSUME TypeOK, TableType', NEW k \in Keys, NEW e \in Ptr, Told(k, e)
    PROVE  TypeOK'
<1>1. \A t \in Threads : walk'[t] \in WalkSet
  BY ToldWalks DEF ToldOne
<1>2. walk' = [t \in Threads |-> walk'[t]]
  BY DEF Told
<1>3. walk' \in [Threads -> WalkSet]
  BY <1>1, <1>2
<1> QED BY <1>3, TypeWholeNext

\* A way from at to g leads over n if it led over p.
LEMMA InsertedReaches ==
    ASSUME TableInv, NEW k \in Keys, NEW p, NEW q, NEW n, Inserted(k, p, q, n),
           NEW at, NEW g, Reaches(at, g)
    PROVE  Reaches(at, g)'
<1>1. PICK B \in SUBSET Elems : B \subseteq Used /\ at \in B /\ g \in B /\ \A e \in B : e # g => next[e] \in B
  BY DEF Reaches, Leads
<1>2. /\ n \in Elems /\ n \notin Used
      /\ next'[n] = q /\ (p # nil => next'[p] = n)
      /\ \A e \in Elems : e # n /\ e # p => next'[e] = next[e]
  BY InsertedPlain
<1>3. p # nil => next[p] = q
  BY DEF Inserted
<1>4. Used' = Used \cup {n}
  BY InsertedSets
<1>5. \A e \in B : e # nil /\ e # n
  <2>1. TypeOK
    BY DEF TableInv
  <2> QED BY <1>1, <1>2, <2>1, UsedFacts
<1>6. PICK D : D = IF p \in B /\ p # g THEN B \cup {n} ELSE B
  OBVIOUS
<1>7. D \in SUBSET Elems /\ D \subseteq Used' /\ at \in D /\ g \in D
  BY <1>1, <1>2, <1>4, <1>6
<1>8. ASSUME NEW e \in D, e # g PROVE next'[e] \in D
  <2>1. CASE p \in B /\ p # g
    <3>1. p # nil /\ q \in B /\ D = B \cup {n}
      BY <1>1, <1>3, <1>5, <1>6, <2>1
    <3>2. CASE e = n \/ e = p
      BY <1>2, <3>1, <3>2
    <3>3. CASE e # n /\ e # p
      <4>1. e \in B /\ next'[e] = next[e]
        BY <1>2, <3>1, <3>3
      <4> QED BY <1>1, <1>8, <3>1, <4>1
    <3> QED BY <3>2, <3>3
  <2>2. CASE ~(p \in B /\ p # g)
    <3>1. e \in B /\ D = B /\ e # p /\ e # n
      BY <1>5, <1>6, <1>8, <2>2
    <3>2. next'[e] = next[e]
      BY <1>2, <3>1
    <3> QED BY <1>1, <1>8, <3>1, <3>2
  <2> QED BY <2>1, <2>2
<1>9. Leads(at, g, D)'
  BY <1>7, <1>8 DEF Leads
<1> QED BY <1>7, <1>9 DEF Reaches

\* The pointers after a step lead from at to members of T only.
OnlyNext(at, T) ==
    \E C \in SUBSET Elems : C \subseteq T /\ at \in C \cup {nil} /\ \A e \in C : next'[e] \in C \cup {nil}

LEMMA InsertedOnly ==
    ASSUME TableInv, NEW k \in Keys, NEW p, NEW q, NEW n, Inserted(k, p, q, n),
           NEW at, NEW S, S \subseteq Used, Only(at, S), NEW T, S \subseteq T, p \in S => n \in T
    PROVE  OnlyNext(at, T)
<1>1. PICK C \in SUBSET Elems : C \subseteq S /\ at \in C \cup {nil} /\ \A e \in C : next[e] \in C \cup {nil}
  BY DEF Only, Confined
<1>2. /\ n \in Elems /\ n \notin Used
      /\ next'[n] = q /\ (p # nil => next'[p] = n)
      /\ \A e \in Elems : e # n /\ e # p => next'[e] = next[e]
  BY InsertedPlain
<1>3. p # nil => next[p] = q
  BY DEF Inserted
<1>4. \A e \in C : e # nil /\ e # n
  <2>1. TypeOK
    BY DEF TableInv
  <2> QED BY <1>1, <1>2, <2>1, UsedFacts
<1>5. PICK D : D = IF p \in C THEN C \cup {n} ELSE C
  OBVIOUS
<1>6. D \in SUBSET Elems /\ D \subseteq T /\ at \in D \cup {nil}
  BY <1>1, <1>2, <1>5
<1>7. ASSUME NEW e \in D PROVE next'[e] \in D \cup {nil}
  <2>1. CASE p \in C
    <3>1. p # nil /\ q \in C \cup {nil} /\ D = C \cup {n}
      BY <1>1, <1>3, <1>4, <1>5, <2>1
    <3>2. CASE e = n \/ e = p
      BY <1>2, <3>1, <3>2
    <3>3. CASE e # n /\ e # p
      <4>1. e \in C /\ next'[e] = next[e]
        BY <1>2, <3>1, <3>3
      <4> QED BY <1>1, <3>1, <4>1
    <3> QED BY <3>2, <3>3
  <2>2. CASE p \notin C
    <3>1. e \in C /\ D = C /\ e # p /\ e # n
      BY <1>4, <1>5, <2>2
    <3>2. next'[e] = next[e]
      BY <1>2, <3>1
    <3> QED BY <1>1, <3>1, <3>2
  <2> QED BY <2>1, <2>2
<1> QED BY <1>6, <1>7 DEF OnlyNext

\* A way from at to g stays when another element is removed.
LEMMA UnlinkedReaches ==
    ASSUME TableInv, NEW k \in Keys, NEW p, NEW d, Unlinked(k, p, d),
           NEW at, NEW g, Reaches(at, g), g # d
    PROVE  Reaches(at, g)'
<1>1. PICK B \in SUBSET Elems : B \subseteq Used /\ at \in B /\ g \in B /\ \A e \in B : e # g => next[e] \in B
  BY DEF Reaches, Leads
<1>2. /\ p # nil => next'[p] = next[d]
      /\ \A e \in Elems : e # p => next'[e] = next[e]
  BY UnlinkedPlain
<1>3. p # nil => next[p] = d
  BY DEF Unlinked
<1>4. Used' = Used
  BY UnlinkedSets
<1>5. \A e \in B : e # nil
  <2>1. TypeOK
    BY DEF TableInv
  <2> QED BY <1>1, <2>1, UsedFacts
<1>6. ASSUME NEW e \in B, e # g PROVE next'[e] \in B
  <2>1. CASE e = p
    <3>1. next[p] = d /\ d \in B /\ next'[e] = next[d]
      BY <1>1, <1>2, <1>3, <1>5, <1>6, <2>1
    <3> QED BY <1>1, <3>1
  <2>2. CASE e # p
    BY <1>1, <1>2, <1>6, <2>2
  <2> QED BY <2>1, <2>2
<1>7. Leads(at, g, B)'
  BY <1>1, <1>4, <1>6 DEF Leads
<1> QED BY <1>7 DEF Reaches

LEMMA UnlinkedOnly ==
    ASSUME TableInv, NEW k \in Keys, NEW p, NEW d, Unlinked(k, p, d),
           NEW at, NEW S, S \subseteq Used, Only(at, S), NEW T, S \subseteq T
    PROVE  OnlyNext(at, T)
<1>1. PICK C \in SUBSET Elems : C \subseteq S /\ at \in C \cup {nil} /\ \A e \in C : next[e] \in C \cup {nil}
  BY DEF Only, Confined
<1>2. /\ p # nil => next'[p] = next[d]
      /\ \A e \in Elems : e # p => next'[e] = next[e]
      /\ d # nil
  BY UnlinkedPlain
<1>3. p # nil => next[p] = d
  BY DEF Unlinked
<1>4. \A e \in C : e # nil
  <2>1. TypeOK
    BY DEF TableInv
  <2> QED BY <1>1, <2>1, UsedFacts
<1>5. ASSUME NEW e \in C PROVE next'[e] \in C \cup {nil}
  <2>1. CASE e = p
    <3>1. next[p] = d /\ d \in C /\ next'[e] = next[d]
      BY <1>1, <1>2, <1>3, <1>4, <1>5, <2>1
    <3> QED BY <1>1, <3>1
  <2>2. CASE e # p
    BY <1>1, <1>2, <1>5, <2>2
  <2> QED BY <2>1, <2>2
<1>6. C \subseteq T /\ at \in C \cup {nil}
  BY <1>1
<1> QED BY <1>5, <1>6 DEF OnlyNext

LEMMA OnlyUsed ==
    ASSUME NEW at, NEW S, Only(at, S), at # nil
    PROVE  at \in S
BY DEF Only, Confined

LEMMA InsertedGet ==
    ASSUME TableInv, NEW k \in Keys, NEW p, NEW q, NEW n, Inserted(k, p, q, n),
           NEW t \in Threads, NEW v, v = walk'[t], walk[t].op = "get", GetOK(walk[t])
    PROVE  GetOK(v)'
<1>1. PICK w : w = walk[t]
  OBVIOUS
<1>2. TypeOK /\ n \in Ptr /\ Told(k, n) /\ tab[k] = nil
  <2>1. n \in Elems
    BY InsertedPlain
  <2> QED BY <2>1 DEF TableInv, Ptr, Inserted
<1>3. /\ v.op = "get" /\ v.key = w.key /\ v.at = w.at
      /\ v.vals = IF v.key = k THEN w.vals \cup {n} ELSE w.vals
  <2>1. ToldOne(k, n, w, v) /\ w.op = "get"
    BY <1>1, <1>2, ToldWalks
  <2> QED BY <2>1 DEF ToldOne
<1>4. /\ w.key \in Keys /\ tab[w.key] \in w.vals /\ Only(w.at, Fit(w))
      /\ nil \notin w.vals => Reaches(w.at, tab[w.key])
  BY <1>1 DEF GetOK
<1>5. /\ n \notin Used /\ tab'[k] = n /\ \A j \in Keys : j # k => tab'[j] = tab[j]
      /\ key'[n] = k /\ \A e \in Elems : e # n => key'[e] = key[e]
  BY InsertedPlain
<1>6. v.key \in Keys /\ tab'[v.key] \in v.vals
  BY <1>3, <1>4, <1>5
<1>7. \A e : e \in Fit(v)' <=> e \in Used' /\ (key'[e] = v.key => e \in v.vals)
  BY DEF Fit
<1>8. \A e : e \in Fit(w) <=> e \in Used /\ (key[e] = w.key => e \in w.vals)
  BY DEF Fit
<1>9. Used' = Used \cup {n}
  BY InsertedSets
<1>10. \A e \in Used : key'[e] = key[e]
  BY <1>2, <1>5, UsedFacts
<1>11. Fit(w) \subseteq Used /\ Fit(w) \subseteq Fit(v)' /\ n \in Fit(v)'
  BY <1>3, <1>5, <1>7, <1>8, <1>9, <1>10
<1>12. OnlyNext(v.at, Fit(v)')
  BY <1>3, <1>4, <1>11, InsertedOnly
<1>13. Only(v.at, Fit(v))'
  BY <1>12 DEF OnlyNext, Only, Confined
<1>14. ASSUME nil \notin v.vals PROVE Reaches(v.at, tab[v.key])'
  <2>1. nil \notin w.vals /\ w.key # k
    BY <1>2, <1>3, <1>4, <1>14
  <2>2. PICK g : g = tab[w.key] /\ g = tab'[v.key]
    BY <1>3, <1>4, <1>5, <2>1
  <2>3. Reaches(v.at, g)'
    BY <1>3, <1>4, <2>1, <2>2, InsertedReaches
  <2> QED BY <2>2, <2>3 DEF Reaches, Leads
<1> QED BY <1>6, <1>13, <1>14 DEF GetOK

\* What has been in the table, for a walk.
LEMMA InsertedSince ==
    ASSUME TableInv, NEW k \in Keys, NEW p, NEW q, NEW n, Inserted(k, p, q, n),
           NEW t \in Threads, NEW v, v = walk'[t], walk[t].op \in {"iter", "elems"}, SinceOK(walk[t])
    PROVE  /\ SinceOK(v)'
           /\ v.op = walk[t].op /\ v.at = walk[t].at /\ v.bucket = walk[t].bucket /\ v.out = walk[t].out
           /\ v.was = walk[t].was \cup {n} /\ v.stay = walk[t].stay
<1>1. TypeOK /\ n \in Ptr /\ Told(k, n) /\ n # nil
  <2>1. n \in Elems /\ n # nil
    BY InsertedPlain
  <2> QED BY <2>1 DEF TableInv, Ptr, Inserted
<1>2. /\ v.op = walk[t].op /\ v.at = walk[t].at /\ v.bucket = walk[t].bucket /\ v.out = walk[t].out
      /\ v.was = walk[t].was \cup {n} /\ v.stay = walk[t].stay
  <2>1. ToldOne(k, n, walk[t], v)
    BY <1>1, ToldWalks
  <2> QED BY <1>1, <2>1 DEF ToldOne
<1>3. Used' = Used \cup {n} /\ InTable' = InTable \cup {n}
  BY InsertedSets
<1>4. SinceOK(v)'
  BY <1>2, <1>3 DEF SinceOK
<1> QED BY <1>2, <1>4

LEMMA InsertedIter ==
    ASSUME TableInv, NEW k \in Keys, NEW p, NEW q, NEW n, Inserted(k, p, q, n),
           NEW t \in Threads, NEW v, v = walk'[t], walk[t].op = "iter", IterOK(walk[t])
    PROVE  IterOK(v)'
<1>1. PICK w : w = walk[t]
  OBVIOUS
<1>2. /\ w.bucket \in Buckets /\ SinceOK(w) /\ Once(w) /\ Only(w.at, Here(w))
      /\ \A i \in DOMAIN w.out : /\ w.out[i] \in w.was
                                 /\ hash(key[w.out[i]]) <= w.bucket
                                 /\ hash(key[w.out[i]]) = w.bucket /\ w.at # nil => Less(w.out[i], w.at)
      /\ \A e \in w.stay : /\ hash(key[e]) < w.bucket => Met(w, e)
                           /\ hash(key[e]) = w.bucket => Met(w, e) \/ Reaches(w.at, e)
  BY <1>1 DEF IterOK
<1>3. /\ SinceOK(v)'
      /\ v.at = w.at /\ v.bucket = w.bucket /\ v.out = w.out
      /\ v.was = w.was \cup {n} /\ v.stay = w.stay
  BY <1>1, <1>2, InsertedSince
<1>4. TypeOK /\ TabInv
  BY DEF TableInv
<1>5. w.was \subseteq Used /\ w.stay \subseteq Used
  BY <1>2 DEF SinceOK
<1>6. \A e \in Used : key'[e] = key[e] /\ e # n
  <2>1. n \notin Used /\ \A e \in Elems : e # n => key'[e] = key[e]
    BY InsertedPlain
  <2> QED BY <1>4, <2>1, UsedFacts
<1>7. \A e : e \in Here(v)' <=> e \in v.was /\ hash(key'[e]) = v.bucket
  BY DEF Here, hash
<1>8. \A e : e \in Here(w) <=> e \in w.was /\ hash(key[e]) = w.bucket
  BY DEF Here
<1>9. Here(w) \subseteq Used /\ Here(w) \subseteq Here(v)'
  BY <1>3, <1>5, <1>6, <1>7, <1>8
<1>10. p \in Here(w) => n \in Here(v)'
  <2> SUFFICES ASSUME p \in Here(w) PROVE n \in Here(v)'
    OBVIOUS
  <2>1. p # nil
    BY <1>4, <1>9, UsedFacts
  <2>2. p \in Live(hash(k))
    BY <2>1 DEF Inserted
  <2>3. hash(key[p]) = hash(k)
    BY <1>4, <2>2, LiveFacts
  <2>4. key'[n] = k
    BY InsertedPlain
  <2> QED BY <1>3, <1>7, <1>8, <2>3, <2>4
<1>11. OnlyNext(v.at, Here(v)')
  BY <1>2, <1>3, <1>9, <1>10, InsertedOnly
<1>12. Only(v.at, Here(v))'
  BY <1>11 DEF OnlyNext, Only, Confined
<1>13. w.at # nil => w.at \in Used
  BY <1>2, <1>9, OnlyUsed
<1>14. ASSUME NEW i \in DOMAIN v.out
       PROVE  /\ v.out[i] \in v.was /\ hash(key'[v.out[i]]) <= v.bucket
              /\ hash(key'[v.out[i]]) = v.bucket /\ v.at # nil => Less(v.out[i], v.at)'
  <2>1. PICK o : o = v.out[i] /\ o = w.out[i]
    BY <1>3
  <2>2. /\ o \in w.was /\ hash(key[o]) <= w.bucket
        /\ hash(key[o]) = w.bucket /\ w.at # nil => Less(o, w.at)
    BY <1>2, <1>3, <2>1
  <2>3. o \in Used /\ key'[o] = key[o]
    BY <1>5, <1>6, <2>2
  <2>4. hash(key'[o]) = w.bucket /\ w.at # nil => Less(o, w.at)'
    BY <1>13, <2>2, <2>3, InsertedLess
  <2> QED BY <1>3, <2>1, <2>2, <2>3, <2>4
<1>15. ASSUME NEW e \in v.stay
       PROVE  /\ hash(key'[e]) < v.bucket => Met(v, e)
              /\ hash(key'[e]) = v.bucket => Met(v, e) \/ Reaches(v.at, e)'
  <2>1. e \in w.stay /\ key'[e] = key[e]
    BY <1>3, <1>5, <1>6
  <2>2. Met(v, e) <=> Met(w, e)
    BY <1>3 DEF Met
  <2>3. Reaches(w.at, e) => Reaches(v.at, e)'
    BY <1>3, InsertedReaches
  <2> QED BY <1>2, <1>3, <2>1, <2>2, <2>3
<1>16. Once(v)
  BY <1>2, <1>3 DEF Once
<1> QED BY <1>2, <1>3, <1>12, <1>14, <1>15, <1>16 DEF IterOK, hash, Met, Once

LEMMA InsertedElems ==
    ASSUME TableInv, NEW k \in Keys, NEW p, NEW q, NEW n, Inserted(k, p, q, n),
           NEW t \in Threads, NEW v, v = walk'[t], walk[t].op = "elems", ElemsOK(walk[t])
    PROVE  ElemsOK(v)'
<1>1. PICK w : w = walk[t]
  OBVIOUS
<1>2. /\ SinceOK(w) /\ Once(w)
      /\ \A i \in DOMAIN w.out : w.out[i] \in w.was /\ hash(key[w.out[i]]) < w.bucket
      /\ \A e \in w.stay : hash(key[e]) < w.bucket => Met(w, e)
  BY <1>1 DEF ElemsOK
<1>3. /\ SinceOK(v)'
      /\ v.bucket = w.bucket /\ v.out = w.out
      /\ v.was = w.was \cup {n} /\ v.stay = w.stay
  BY <1>1, <1>2, InsertedSince
<1>4. TypeOK
  BY DEF TableInv
<1>5. w.was \subseteq Used /\ w.stay \subseteq Used
  BY <1>2 DEF SinceOK
<1>6. \A e \in Used : key'[e] = key[e]
  <2>1. n \notin Used /\ \A e \in Elems : e # n => key'[e] = key[e]
    BY InsertedPlain
  <2> QED BY <1>4, <2>1, UsedFacts
<1>7. \A i \in DOMAIN v.out : v.out[i] \in v.was /\ hash(key'[v.out[i]]) < v.bucket
  BY <1>2, <1>3, <1>5, <1>6
<1>8. \A e \in v.stay : hash(key'[e]) < v.bucket => Met(v, e)
  BY <1>2, <1>3, <1>5, <1>6 DEF Met
<1>9. Once(v)
  BY <1>2, <1>3 DEF Once
<1> QED BY <1>3, <1>7, <1>8, <1>9 DEF ElemsOK, hash, Met, Once

LEMMA SetStep ==
    ASSUME IInv, NEW k \in Keys, Set(k)
    PROVE  IInv'
<1>0. TableInv /\ WalksInv /\ TypeOK /\ panic = FALSE
  BY DEF IInv, TableInv
<1>1. PICK p, q, n : Inserted(k, p, q, n)
  BY <1>0, SetEffects
<1>2. TableType' /\ n \in Ptr /\ Told(k, n) /\ panic' = FALSE
  <2>1. TableType' /\ n \in Elems
    BY <1>0, <1>1, InsertedPlain
  <2> QED BY <1>0, <1>1, <2>1 DEF Inserted, Ptr
<1>3. TypeOK'
  BY <1>0, <1>2, ToldType
<1>4. TableInv'
  BY <1>0, <1>1, <1>2, <1>3, InsertedList, InsertedOrder, InsertedFresh, InsertedTab DEF TableInv
<1>5. ASSUME NEW t \in Threads, NEW v, v = walk'[t] PROVE WalkOK(v)'
  <2>1. WalkOK(walk[t])
    BY <1>0 DEF WalksInv
  <2>2. v.op = walk[t].op /\ v.out = walk[t].out
    <3>1. ToldOne(k, n, walk[t], v)
      BY <1>0, <1>2, <1>5, ToldWalks
    <3> QED BY <3>1 DEF ToldOne
  <2>3. v.op = "get" => GetOK(v)'
    BY <1>0, <1>1, <1>5, <2>1, <2>2, InsertedGet DEF WalkOK
  <2>4. v.op = "iter" => IterOK(v)'
    BY <1>0, <1>1, <1>5, <2>1, <2>2, InsertedIter DEF WalkOK
  <2>5. v.op = "elems" => ElemsOK(v)'
    BY <1>0, <1>1, <1>5, <2>1, <2>2, InsertedElems DEF WalkOK
  <2>6. v.op \in {"none", "get", "got"} => v.out = << >>
    BY <2>1, <2>2 DEF WalkOK
  <2> QED BY <2>3, <2>4, <2>5, <2>6 DEF WalkOK
<1>6. WalksInv'
  BY <1>5, WalksNext
<1> QED BY <1>4, <1>6 DEF IInv

LEMMA UnlinkedGet ==
    ASSUME TableInv, NEW k \in Keys, NEW p, NEW d, Unlinked(k, p, d),
           NEW t \in Threads, NEW v, v = walk'[t], walk[t].op = "get", GetOK(walk[t])
    PROVE  GetOK(v)'
<1>1. PICK w : w = walk[t]
  OBVIOUS
<1>2. TypeOK /\ TabInv /\ nil \in Ptr /\ Told(k, nil) /\ d = tab[k]
  BY DEF TableInv, Ptr, Unlinked
<1>3. /\ v.op = "get" /\ v.key = w.key /\ v.at = w.at
      /\ v.vals = IF v.key = k THEN w.vals \cup {nil} ELSE w.vals
  <2>1. ToldOne(k, nil, w, v) /\ w.op = "get"
    BY <1>1, <1>2, ToldWalks
  <2> QED BY <2>1 DEF ToldOne
<1>4. /\ w.key \in Keys /\ tab[w.key] \in w.vals /\ Only(w.at, Fit(w))
      /\ nil \notin w.vals => Reaches(w.at, tab[w.key])
  BY <1>1 DEF GetOK
<1>5. /\ key' = key /\ key[d] = k /\ tab'[k] = nil /\ \A j \in Keys : j # k => tab'[j] = tab[j]
  BY UnlinkedPlain
<1>6. v.key \in Keys /\ tab'[v.key] \in v.vals
  BY <1>3, <1>4, <1>5
<1>7. \A e : e \in Fit(v)' <=> e \in Used' /\ (key'[e] = v.key => e \in v.vals)
  BY DEF Fit
<1>8. \A e : e \in Fit(w) <=> e \in Used /\ (key[e] = w.key => e \in w.vals)
  BY DEF Fit
<1>9. Used' = Used
  BY UnlinkedSets
<1>10. Fit(w) \subseteq Used /\ Fit(w) \subseteq Fit(v)'
  BY <1>3, <1>5, <1>7, <1>8, <1>9
<1>11. OnlyNext(v.at, Fit(v)')
  BY <1>3, <1>4, <1>10, UnlinkedOnly
<1>12. Only(v.at, Fit(v))'
  BY <1>11 DEF OnlyNext, Only, Confined
<1>13. ASSUME nil \notin v.vals PROVE Reaches(v.at, tab[v.key])'
  <2>1. nil \notin w.vals /\ w.key # k
    BY <1>3, <1>13
  <2>2. PICK g : g = tab[w.key] /\ g = tab'[v.key]
    BY <1>3, <1>4, <1>5, <2>1
  <2>3. g # nil
    BY <1>4, <2>1, <2>2
  <2>4. key[g] = w.key
    BY <1>2, <1>4, <2>2, <2>3 DEF TabInv
  <2>5. g # d
    BY <1>5, <2>1, <2>4
  <2>6. Reaches(v.at, g)'
    BY <1>3, <1>4, <2>1, <2>2, <2>5, UnlinkedReaches
  <2> QED BY <2>2, <2>6 DEF Reaches, Leads
<1> QED BY <1>6, <1>12, <1>13 DEF GetOK

LEMMA UnlinkedSince ==
    ASSUME TableInv, NEW k \in Keys, NEW p, NEW d, Unlinked(k, p, d),
           NEW t \in Threads, NEW v, v = walk'[t], walk[t].op \in {"iter", "elems"}, SinceOK(walk[t])
    PROVE  /\ SinceOK(v)'
           /\ v.op = walk[t].op /\ v.at = walk[t].at /\ v.bucket = walk[t].bucket /\ v.out = walk[t].out
           /\ v.was = walk[t].was /\ v.stay \subseteq walk[t].stay /\ d \notin v.stay
<1>1. TypeOK /\ TabInv /\ nil \in Ptr /\ Told(k, nil) /\ d = tab[k]
  BY DEF TableInv, Ptr, Unlinked
<1>2. /\ v.op = walk[t].op /\ v.at = walk[t].at /\ v.bucket = walk[t].bucket /\ v.out = walk[t].out
      /\ v.was = walk[t].was /\ v.stay = {x \in walk[t].stay : key[x] # k}
  <2>1. ToldOne(k, nil, walk[t], v)
    BY <1>1, ToldWalks
  <2> QED BY <2>1 DEF ToldOne
<1>3. Used' = Used /\ InTable' = InTable \ {d}
  BY UnlinkedSets
<1>4. key[d] = k
  BY UnlinkedPlain
<1>5. v.stay \subseteq walk[t].stay /\ d \notin v.stay
  BY <1>2, <1>4
<1>6. SinceOK(v)'
  BY <1>2, <1>3, <1>5 DEF SinceOK
<1> QED BY <1>2, <1>5, <1>6

LEMMA UnlinkedIter ==
    ASSUME TableInv, NEW k \in Keys, NEW p, NEW d, Unlinked(k, p, d),
           NEW t \in Threads, NEW v, v = walk'[t], walk[t].op = "iter", IterOK(walk[t])
    PROVE  IterOK(v)'
<1>1. PICK w : w = walk[t]
  OBVIOUS
<1>2. /\ w.bucket \in Buckets /\ SinceOK(w) /\ Once(w) /\ Only(w.at, Here(w))
      /\ \A i \in DOMAIN w.out : /\ w.out[i] \in w.was
                                 /\ hash(key[w.out[i]]) <= w.bucket
                                 /\ hash(key[w.out[i]]) = w.bucket /\ w.at # nil => Less(w.out[i], w.at)
      /\ \A e \in w.stay : /\ hash(key[e]) < w.bucket => Met(w, e)
                           /\ hash(key[e]) = w.bucket => Met(w, e) \/ Reaches(w.at, e)
  BY <1>1 DEF IterOK
<1>3. /\ SinceOK(v)'
      /\ v.at = w.at /\ v.bucket = w.bucket /\ v.out = w.out
      /\ v.was = w.was /\ v.stay \subseteq w.stay /\ d \notin v.stay
  BY <1>1, <1>2, UnlinkedSince
<1>4. key' = key /\ \A e, f : Less(e, f)' <=> Less(e, f)
  BY UnlinkedPlain, UnlinkedSets
<1>5. Here(w) \subseteq Used
  BY <1>2 DEF SinceOK, Here
<1>6. Here(v)' = Here(w)
  BY <1>3, <1>4 DEF Here, hash
<1>7. OnlyNext(v.at, Here(v)')
  BY <1>2, <1>3, <1>5, <1>6, UnlinkedOnly
<1>8. Only(v.at, Here(v))'
  BY <1>7 DEF OnlyNext, Only, Confined
<1>9. ASSUME NEW i \in DOMAIN v.out
      PROVE  /\ v.out[i] \in v.was /\ hash(key'[v.out[i]]) <= v.bucket
             /\ hash(key'[v.out[i]]) = v.bucket /\ v.at # nil => Less(v.out[i], v.at)'
  <2>1. PICK o, a : o = v.out[i] /\ o = w.out[i] /\ a = v.at /\ a = w.at
    BY <1>3
  <2>2. Less(o, a)' <=> Less(o, a)
    BY <1>4
  <2> QED BY <1>2, <1>3, <1>4, <2>1, <2>2
<1>10. ASSUME NEW e \in v.stay
       PROVE  /\ hash(key'[e]) < v.bucket => Met(v, e)
              /\ hash(key'[e]) = v.bucket => Met(v, e) \/ Reaches(v.at, e)'
  <2>1. e \in w.stay /\ e # d
    BY <1>3
  <2>2. Met(v, e) <=> Met(w, e)
    BY <1>3 DEF Met
  <2>3. Reaches(w.at, e) => Reaches(v.at, e)'
    BY <1>3, <2>1, UnlinkedReaches
  <2> QED BY <1>2, <1>3, <1>4, <2>1, <2>2, <2>3
<1>11. Once(v)
  BY <1>2, <1>3 DEF Once
<1> QED BY <1>2, <1>3, <1>8, <1>9, <1>10, <1>11 DEF IterOK, hash, Met, Once

LEMMA UnlinkedElems ==
    ASSUME TableInv, NEW k \in Keys, NEW p, NEW d, Unlinked(k, p, d),
           NEW t \in Threads, NEW v, v = walk'[t], walk[t].op = "elems", ElemsOK(walk[t])
    PROVE  ElemsOK(v)'
<1>1. PICK w : w = walk[t]
  OBVIOUS
<1>2. /\ SinceOK(w) /\ Once(w)
      /\ \A i \in DOMAIN w.out : w.out[i] \in w.was /\ hash(key[w.out[i]]) < w.bucket
      /\ \A e \in w.stay : hash(key[e]) < w.bucket => Met(w, e)
  BY <1>1 DEF ElemsOK
<1>3. /\ SinceOK(v)'
      /\ v.bucket = w.bucket /\ v.out = w.out
      /\ v.was = w.was /\ v.stay \subseteq w.stay
  BY <1>1, <1>2, UnlinkedSince
<1>4. key' = key
  BY UnlinkedPlain
<1>5. \A i \in DOMAIN v.out : v.out[i] \in v.was /\ hash(key'[v.out[i]]) < v.bucket
  BY <1>2, <1>3, <1>4
<1>6. \A e \in v.stay : hash(key'[e]) < v.bucket => Met(v, e)
  BY <1>2, <1>3, <1>4 DEF Met
<1>7. Once(v)
  BY <1>2, <1>3 DEF Once
<1> QED BY <1>3, <1>5, <1>6, <1>7 DEF ElemsOK, hash, Met, Once

LEMMA DelStep ==
    ASSUME IInv, NEW k \in Keys, Del(k)
    PROVE  IInv'
<1>0. TableInv /\ WalksInv /\ TypeOK /\ panic = FALSE
  BY DEF IInv, TableInv
<1>1. PICK p, d : Unlinked(k, p, d)
  BY <1>0, DelEffects
<1>2. TableType' /\ nil \in Ptr /\ Told(k, nil) /\ panic' = FALSE
  <2>1. TableType'
    BY <1>0, <1>1, UnlinkedPlain
  <2> QED BY <1>0, <1>1, <2>1 DEF Unlinked, Ptr
<1>3. TypeOK'
  BY <1>0, <1>2, ToldType
<1>4. TableInv'
  BY <1>0, <1>1, <1>2, <1>3, UnlinkedList, UnlinkedOrder DEF TableInv
<1>5. ASSUME NEW t \in Threads, NEW v, v = walk'[t] PROVE WalkOK(v)'
  <2>1. WalkOK(walk[t])
    BY <1>0 DEF WalksInv
  <2>2. v.op = walk[t].op /\ v.out = walk[t].out
    <3>1. ToldOne(k, nil, walk[t], v)
      BY <1>0, <1>2, <1>5, ToldWalks
    <3> QED BY <3>1 DEF ToldOne
  <2>3. v.op = "get" => GetOK(v)'
    BY <1>0, <1>1, <1>5, <2>1, <2>2, UnlinkedGet DEF WalkOK
  <2>4. v.op = "iter" => IterOK(v)'
    BY <1>0, <1>1, <1>5, <2>1, <2>2, UnlinkedIter DEF WalkOK
  <2>5. v.op = "elems" => ElemsOK(v)'
    BY <1>0, <1>1, <1>5, <2>1, <2>2, UnlinkedElems DEF WalkOK
  <2>6. v.op \in {"none", "get", "got"} => v.out = << >>
    BY <2>1, <2>2 DEF WalkOK
  <2> QED BY <2>3, <2>4, <2>5, <2>6 DEF WalkOK
<1>6. WalksInv'
  BY <1>5, WalksNext
<1> QED BY <1>4, <1>6 DEF IInv

(***************************************************************************)
(* The steps of the walks.                                                 *)
(***************************************************************************)
Still == first' = first /\ next' = next /\ key' = key /\ tab' = tab /\ panic' = panic

LEMMA StillWalkOK ==
    ASSUME Still, NEW v
    PROVE  WalkOK(v)' <=> WalkOK(v)
<1>1. GetOK(v)' <=> GetOK(v)
  BY DEF Still, GetOK, Fit, Only, Reaches, Leads, Confined, Used
<1>2. IterOK(v)' <=> IterOK(v)
  BY DEF Still, IterOK, SinceOK, Here, Met, Once, Only, Reaches, Leads, Confined, Used, Less, hash, InTable
<1>3. ElemsOK(v)' <=> ElemsOK(v)
  BY DEF Still, ElemsOK, SinceOK, Met, Once, hash, InTable, Used
<1> QED BY <1>1, <1>2, <1>3 DEF WalkOK

LEMMA StillTable ==
    ASSUME Still, TableInv, TypeOK'
    PROVE  TableInv'
<1>1. TypeOK /\ ListInv /\ OrderInv /\ FreshInv /\ TabInv /\ panic = FALSE
  BY DEF TableInv
<1>2. ListInv'
  BY <1>1 DEF Still, ListInv, IsLeast, Later, Live, Used, Less, hash
<1>3. OrderInv'
  BY <1>1 DEF Still, OrderInv, Used, Less, hash
<1>4. FreshInv' /\ TabInv'
  BY <1>1 DEF Still, FreshInv, TabInv, Used, Free
<1> QED BY <1>1, <1>2, <1>3, <1>4 DEF TableInv, Still

\* A walk has changed into v, which is as it should be.
LEMMA WalkStep ==
    ASSUME IInv, Still, NEW t \in Threads, NEW v \in WalkSet, WalkOK(v), walk' = [walk EXCEPT ![t] = v]
    PROVE  IInv'
<1>0. TableInv /\ WalksInv /\ TypeOK
  BY DEF IInv, TableInv
<1>1. walk \in [Threads -> WalkSet] /\ TableType
  BY <1>0, TypeWhole
<1>2. walk' \in [Threads -> WalkSet] /\ walk'[t] = v /\ \A u \in Threads : u # t => walk'[u] = walk[u]
  BY <1>1
<1>3. TableType'
  BY <1>1 DEF Still, TableType, Ptr
<1>4. TableInv'
  BY <1>0, <1>2, <1>3, TypeWholeNext, StillTable
<1>5. ASSUME NEW u \in Threads, NEW x, x = walk'[u] PROVE WalkOK(x)'
  <2>1. WalkOK(x)
    <3>1. CASE u = t
      BY <1>2, <1>5, <3>1
    <3>2. CASE u # t
      BY <1>0, <1>2, <1>5, <3>2 DEF WalksInv
    <3> QED BY <3>1, <3>2
  <2> QED BY <2>1, StillWalkOK
<1>6. WalksInv'
  BY <1>5, WalksNext
<1> QED BY <1>4, <1>6 DEF IInv

LEMMA FirstReaches ==
    ASSUME TableInv, NEW b \in Buckets, NEW g \in Live(b)
    PROVE  Reaches(first[b], g)
<1>0. TypeOK /\ ListInv
  BY DEF TableInv
<1>1. PICK B : B = {x \in Live(b) : x = g \/ Less(x, g)}
  OBVIOUS
<1>2. \A x \in Live(b) : x \in Used /\ x \in Elems
  <2>1. \A x \in Live(b) : x \in Used
    BY DEF Live
  <2> QED BY <2>1 DEF Used
<1>3. B \in SUBSET Elems /\ B \subseteq Used /\ g \in B
  BY <1>1, <1>2
<1>4. first[b] \in B
  <2>1. IsLeast(first[b], Live(b))
    BY <1>0 DEF ListInv
  <2> QED BY <1>1, <2>1 DEF IsLeast
<1>5. ASSUME NEW e \in B, e # g PROVE next[e] \in B
  <2>1. e \in Live(b) /\ Less(e, g)
    BY <1>1, <1>5
  <2>2. IsLeast(next[e], Later(b, e)) /\ g \in Later(b, e)
    BY <1>0, <2>1 DEF ListInv, Later
  <2>3. next[e] \in Later(b, e) /\ (g = next[e] \/ Less(next[e], g))
    BY <2>2 DEF IsLeast
  <2> QED BY <1>1, <2>3 DEF Later
<1>6. Leads(first[b], g, B)
  BY <1>3, <1>4, <1>5 DEF Leads
<1> QED BY <1>3, <1>6 DEF Reaches

LEMMA FirstOnly ==
    ASSUME TableInv, NEW b \in Buckets, NEW S, Live(b) \subseteq S
    PROVE  Only(first[b], S)
<1>0. ListInv
  BY DEF TableInv
<1>1. Live(b) \in SUBSET Elems
  BY DEF Live, Used
<1>2. first[b] \in Live(b) \cup {nil}
  BY <1>0 DEF ListInv, IsLeast
<1>3. ASSUME NEW e \in Live(b) PROVE next[e] \in Live(b) \cup {nil}
  BY <1>0 DEF ListInv, IsLeast, Later
<1>4. Confined(first[b], S, Live(b))
  BY <1>2, <1>3 DEF Confined
<1> QED BY <1>1, <1>4 DEF Only

LEMMA NextOnly ==
    ASSUME NEW at, at # nil, NEW S, Only(at, S)
    PROVE  at \in S /\ Only(next[at], S)
<1>1. PICK C \in SUBSET Elems : C \subseteq S /\ at \in C \cup {nil} /\ \A e \in C : next[e] \in C \cup {nil}
  BY DEF Only, Confined
<1>2. Confined(next[at], S, C)
  BY <1>1 DEF Confined
<1> QED BY <1>1, <1>2 DEF Only

LEMMA NextReaches ==
    ASSUME NEW at, NEW g, at # g, Reaches(at, g)
    PROVE  Reaches(next[at], g)
<1>1. PICK B \in SUBSET Elems : Leads(at, g, B)
  BY DEF Reaches
<1>2. Leads(next[at], g, B)
  BY <1>1 DEF Leads
<1> QED BY <1>2 DEF Reaches

LEMMA NilReaches ==
    ASSUME TypeOK, NEW g
    PROVE  ~Reaches(nil, g)
<1>1. nil \notin Used
  BY UsedFacts
<1> QED BY <1>1 DEF Reaches, Leads

LEMMA NoWalkOK ==
    NoWalk \in WalkSet /\ WalkOK(NoWalk)
<1>1. 0 \in 0 .. capacity /\ << >> \in Seq(Elems)
  BY HashtableAssumption
<1> QED BY <1>1 DEF NoWalk, WalkSet, WalkOK

LEMMA GetStep ==
    ASSUME IInv, NEW t \in Threads, NEW k \in Keys, Get(t, k)
    PROVE  IInv'
<1>0. TableInv /\ TypeOK /\ TabInv
  BY DEF IInv, TableInv
<1>1. PICK b \in Buckets : b = hash(k)
  BY HashBucket
<1>2. PICK v : v = [NoWalk EXCEPT !.op = "get", !.key = k, !.at = first[b], !.vals = {tab[k]}]
  OBVIOUS
<1>3. walk' = [walk EXCEPT ![t] = v] /\ Still
  BY <1>1, <1>2 DEF Get, Still
<1>4. first[b] \in Ptr /\ tab[k] \in Ptr
  BY <1>0 DEF TypeOK, Ptr
<1>5. /\ v.op = "get" /\ v.key = k /\ v.at = first[b] /\ v.vals = {tab[k]} /\ v.out = << >>
      /\ v \in WalkSet
  <2>1. v = [op |-> "get", key |-> k, at |-> first[b], bucket |-> 0, out |-> << >>,
             vals |-> {tab[k]}, was |-> {}, stay |-> {}]
    BY <1>2 DEF NoWalk
  <2>2. 0 \in 0 .. capacity /\ << >> \in Seq(Elems)
    BY HashtableAssumption
  <2>3. v \in WalkSet
    BY <1>4, <2>1, <2>2 DEF WalkSet, Ptr
  <2> QED BY <2>1, <2>3
<1>6. Live(b) \subseteq Fit(v)
  BY <1>5 DEF Live, Fit
<1>7. Only(v.at, Fit(v))
  BY <1>0, <1>5, <1>6, FirstOnly
<1>8. nil \notin v.vals => Reaches(v.at, tab[k])
  <2> SUFFICES ASSUME tab[k] # nil PROVE Reaches(first[b], tab[k])
    BY <1>5
  <2>1. tab[k] \in Live(b)
    BY <1>0, <1>1, TabLive
  <2> QED BY <1>0, <2>1, FirstReaches
<1>9. GetOK(v)
  BY <1>5, <1>7, <1>8 DEF GetOK
<1>10. WalkOK(v)
  BY <1>5, <1>9 DEF WalkOK
<1> QED BY <1>3, <1>5, <1>10, WalkStep

LEMMA GetNextStep ==
    ASSUME IInv, NEW t \in Threads, GetNext(t)
    PROVE  IInv'
<1>0. TableInv /\ TypeOK /\ TabInv /\ WalksInv
  BY DEF IInv, TableInv
<1>1. PICK w \in WalkSet : w = walk[t]
  BY <1>0, TypeWhole
<1>2. PICK v : v = [w EXCEPT !.at = next[w.at]]
  OBVIOUS
<1>3. walk' = [walk EXCEPT ![t] = v] /\ Still /\ w.op = "get" /\ w.at # nil /\ ~Match(w.at, w.key)
  BY <1>1, <1>2 DEF GetNext, Still, Ended
<1>4. next[w.at] \in Ptr
  BY <1>0, <1>3 DEF TypeOK, Ptr, WalkSet
<1>5. /\ v.op = "get" /\ v.key = w.key /\ v.at = next[w.at] /\ v.vals = w.vals /\ v.out = w.out
      /\ v \in WalkSet
  BY <1>2, <1>3, <1>4 DEF WalkSet, Ptr
<1>6. GetOK(w) /\ w.out = << >>
  BY <1>0, <1>1, <1>3 DEF WalksInv, WalkOK
<1>7. Fit(v) = Fit(w)
  BY <1>5 DEF Fit
<1>8. Only(v.at, Fit(v))
  BY <1>3, <1>5, <1>6, <1>7, NextOnly DEF GetOK
<1>9. nil \notin v.vals => Reaches(v.at, tab[v.key])
  <2> SUFFICES ASSUME nil \notin w.vals PROVE Reaches(next[w.at], tab[w.key])
    BY <1>5
  <2>1. Reaches(w.at, tab[w.key]) /\ w.key \in Keys /\ tab[w.key] # nil
    BY <1>6 DEF GetOK
  <2>2. key[tab[w.key]] = w.key
    BY <1>0, <2>1 DEF TabInv
  <2>3. w.at # tab[w.key]
    BY <1>3, <2>2 DEF Match
  <2> QED BY <2>1, <2>3, NextReaches
<1>10. GetOK(v)
  BY <1>5, <1>6, <1>8, <1>9 DEF GetOK
<1>11. WalkOK(v)
  BY <1>5, <1>6, <1>10 DEF WalkOK
<1> QED BY <1>3, <1>5, <1>11, WalkStep

LEMMA GetReturnStep ==
    ASSUME IInv, NEW t \in Threads, GetReturn(t)
    PROVE  IInv'
<1>0. TableInv /\ TypeOK
  BY DEF IInv, TableInv
<1>1. PICK w \in WalkSet : w = walk[t]
  BY <1>0, TypeWhole
<1>2. PICK v : v = [NoWalk EXCEPT !.op = "got", !.at = w.at]
  OBVIOUS
<1>3. walk' = [walk EXCEPT ![t] = v] /\ Still
  BY <1>1, <1>2 DEF GetReturn, Still
<1>4. v.op = "got" /\ v.out = << >> /\ v \in WalkSet
  <2>1. v = [op |-> "got", key |-> nil, at |-> w.at, bucket |-> 0, out |-> << >>,
             vals |-> {}, was |-> {}, stay |-> {}]
    BY <1>2 DEF NoWalk
  <2>2. 0 \in 0 .. capacity /\ << >> \in Seq(Elems) /\ w.at \in Elems \cup {nil}
    BY HashtableAssumption DEF WalkSet
  <2>3. v \in WalkSet
    BY <2>1, <2>2 DEF WalkSet
  <2> QED BY <2>1, <2>3
<1>5. WalkOK(v)
  BY <1>4 DEF WalkOK
<1> QED BY <1>3, <1>4, <1>5, WalkStep

LEMMA WalkReturnStep ==
    ASSUME IInv, NEW t \in Threads, WalkReturn(t)
    PROVE  IInv'
<1>1. walk' = [walk EXCEPT ![t] = NoWalk] /\ Still
  BY DEF WalkReturn, Still
<1> QED BY <1>1, NoWalkOK, WalkStep

LEMMA BeginStep ==
    ASSUME IInv, NEW t \in Threads, NEW op \in {"iter", "elems"}, Begin(t, op)
    PROVE  IInv'
<1>0. TableInv /\ TypeOK /\ TabInv
  BY DEF IInv, TableInv
<1>1. 0 \in Buckets /\ 0 \in 0 .. capacity /\ << >> \in Seq(Elems)
  BY HashtableAssumption DEF Buckets
<1>2. PICK v : v = [NoWalk EXCEPT !.op = op, !.at = first[0], !.was = InTable, !.stay = InTable]
  OBVIOUS
<1>3. walk' = [walk EXCEPT ![t] = v] /\ Still
  BY <1>2 DEF Begin, Still
<1>4. first[0] \in Elems \cup {nil} /\ InTable \subseteq Elems /\ InTable \subseteq Used
  <2>1. InTable \subseteq Used
    BY <1>0, InTableLive
  <2> QED BY <1>0, <1>1, <2>1 DEF TypeOK, Used
<1>5. v = [op |-> op, key |-> nil, at |-> first[0], bucket |-> 0, out |-> << >>,
           vals |-> {}, was |-> InTable, stay |-> InTable]
  BY <1>2 DEF NoWalk
<1>6. /\ v \in WalkSet /\ v.op = op /\ v.at = first[0] /\ v.bucket = 0 /\ v.out = << >>
      /\ v.was = InTable /\ v.stay = InTable
  <2>1. v \in WalkSet
    BY <1>1, <1>4, <1>5 DEF WalkSet
  <2> QED BY <1>5, <2>1
<1>7. SinceOK(v) /\ Once(v) /\ DOMAIN v.out = {}
  BY <1>4, <1>6 DEF SinceOK, Once
<1>8. \A e \in InTable : hash(key[e]) \in Buckets /\ ~(hash(key[e]) < 0)
  <2>1. \A e \in InTable : hash(key[e]) \in Buckets
    BY <1>0, <1>4, UsedFacts
  <2> QED BY <2>1 DEF Buckets
<1>9. ElemsOK(v)
  BY <1>6, <1>7, <1>8 DEF ElemsOK
<1>10. Live(0) \subseteq Here(v)
  <2>1. \A e \in Live(0) : e \in Used /\ hash(key[e]) = 0
    BY <1>0, LiveFacts
  <2>2. \A e \in Live(0) : e \in InTable
    BY <1>0, <2>1, InTableLive
  <2> QED BY <1>6, <2>1, <2>2 DEF Here
<1>11. Only(v.at, Here(v))
  BY <1>0, <1>1, <1>6, <1>10, FirstOnly
<1>12. ASSUME NEW e \in v.stay, hash(key[e]) = 0 PROVE Reaches(v.at, e)
  <2>1. e \in Live(0)
    BY <1>0, <1>6, <1>12, InTableLive
  <2> QED BY <1>0, <1>1, <1>6, <2>1, FirstReaches
<1>13. IterOK(v)
  BY <1>1, <1>6, <1>7, <1>8, <1>11, <1>12 DEF IterOK
<1>14. WalkOK(v)
  BY <1>6, <1>9, <1>13 DEF WalkOK
<1> QED BY <1>3, <1>6, <1>14, WalkStep

LEMMA IterElemStep ==
    ASSUME IInv, NEW t \in Threads, IterElem(t)
    PROVE  IInv'
<1>0. TableInv /\ TypeOK /\ OrderInv /\ WalksInv
  BY DEF IInv, TableInv
<1>1. PICK w \in WalkSet : w = walk[t]
  BY <1>0, TypeWhole
<1>2. PICK a, o : a = w.at /\ o = w.out
  OBVIOUS
<1>3. PICK v : v = [w EXCEPT !.out = Append(o, a), !.at = next[a]]
  OBVIOUS
<1>4. walk' = [walk EXCEPT ![t] = v] /\ Still /\ w.op = "iter" /\ a # nil
  BY <1>1, <1>2, <1>3 DEF IterElem, Still
<1>5. a \in Elems /\ o \in Seq(Elems) /\ next[a] \in Ptr
  BY <1>0, <1>2, <1>4 DEF TypeOK, Ptr, WalkSet
<1>6. PICK s, m : s = Append(o, a) /\ m = Len(o)
  OBVIOUS
<1>7. /\ m \in Nat /\ s \in Seq(Elems) /\ DOMAIN s = 1 .. m + 1 /\ DOMAIN o = 1 .. m
      /\ s[m + 1] = a /\ \A i \in 1 .. m : s[i] = o[i]
  BY <1>5, <1>6
<1>8. /\ v \in WalkSet /\ v.op = "iter" /\ v.at = next[a] /\ v.out = s /\ v.bucket = w.bucket
      /\ v.was = w.was /\ v.stay = w.stay
  BY <1>3, <1>4, <1>5, <1>6, <1>7 DEF WalkSet, Ptr
<1>9. /\ w.bucket \in Buckets /\ SinceOK(w) /\ Once(w) /\ Only(a, Here(w))
      /\ \A i \in 1 .. m : /\ o[i] \in w.was
                           /\ hash(key[o[i]]) <= w.bucket
                           /\ hash(key[o[i]]) = w.bucket => Less(o[i], a)
      /\ \A e \in w.stay : /\ hash(key[e]) < w.bucket => Met(w, e)
                           /\ hash(key[e]) = w.bucket => Met(w, e) \/ Reaches(a, e)
  <2>1. IterOK(w)
    BY <1>0, <1>1, <1>4 DEF WalksInv, WalkOK
  <2> QED BY <1>2, <1>4, <1>7, <2>1 DEF IterOK
<1>10. a \in Here(w) /\ Only(next[a], Here(w))
  BY <1>4, <1>9, NextOnly
<1>11. a \in w.was /\ hash(key[a]) = w.bucket /\ a \in Used
  BY <1>9, <1>10 DEF Here, SinceOK
<1>12. Here(v) = Here(w)
  BY <1>8 DEF Here
<1>13. \A i \in 1 .. m : o[i] \in Used
  BY <1>9 DEF SinceOK
<1>14. w.bucket \in Nat
  BY <1>9, HashtableAssumption DEF Buckets
<1>15. ASSUME NEW i \in 1 .. m + 1
       PROVE  /\ s[i] \in w.was /\ hash(key[s[i]]) <= w.bucket
              /\ hash(key[s[i]]) = w.bucket /\ next[a] # nil => Less(s[i], next[a])
  <2>1. next[a] # nil => next[a] \in Used /\ Less(a, next[a])
    BY <1>0, <1>11 DEF OrderInv
  <2>2. CASE i = m + 1
    BY <1>7, <1>11, <1>14, <2>1, <2>2
  <2>3. CASE i # m + 1
    <3>1. i \in 1 .. m /\ s[i] = o[i]
      BY <1>7, <2>3
    <3>2. hash(key[o[i]]) = w.bucket /\ next[a] # nil => Less(o[i], next[a])
      BY <1>0, <1>9, <1>11, <1>13, <2>1, <3>1, LessTransitive
    <3> QED BY <1>9, <3>1, <3>2
  <2> QED BY <2>2, <2>3
<1>16. \A e : Met(w, e) => Met(v, e)
  <2>1. \A i \in 1 .. m : i \in 1 .. m + 1
    BY <1>7
  <2> QED BY <1>2, <1>7, <1>8, <2>1 DEF Met
<1>17. Met(v, a)
  <2>1. m + 1 \in 1 .. m + 1
    BY <1>7
  <2> QED BY <1>7, <1>8, <2>1 DEF Met
<1>18. ASSUME NEW e \in w.stay
       PROVE  /\ hash(key[e]) < w.bucket => Met(v, e)
              /\ hash(key[e]) = w.bucket => Met(v, e) \/ Reaches(next[a], e)
  <2>1. CASE e = a
    BY <1>17, <2>1
  <2>2. CASE e # a
    BY <1>9, <1>16, <2>2, NextReaches
  <2> QED BY <2>1, <2>2
<1>19. Once(v)
  <2>1. \A i \in 1 .. m : o[i] # a
    <3> SUFFICES ASSUME NEW i \in 1 .. m, o[i] = a PROVE FALSE
      OBVIOUS
    <3>1. Less(a, a)
      BY <1>9, <1>11
    <3> QED BY <1>0, <1>11, <3>1, LessIrreflexive
  <2>2. \A i, j \in 1 .. m : o[i] = o[j] => i = j
    BY <1>2, <1>7, <1>9 DEF Once
  <2>3. ASSUME NEW i \in 1 .. m + 1, NEW j \in 1 .. m + 1, s[i] = s[j] PROVE i = j
    <3>1. CASE i = m + 1 /\ j = m + 1
      BY <3>1
    <3>2. CASE i = m + 1 /\ j # m + 1
      <4>1. j \in 1 .. m
        BY <1>7, <3>2
      <4> QED BY <1>7, <2>1, <2>3, <3>2, <4>1
    <3>3. CASE i # m + 1 /\ j = m + 1
      <4>1. i \in 1 .. m
        BY <1>7, <3>3
      <4> QED BY <1>7, <2>1, <2>3, <3>3, <4>1
    <3>4. CASE i # m + 1 /\ j # m + 1
      <4>1. i \in 1 .. m /\ j \in 1 .. m
        BY <1>7, <3>4
      <4> QED BY <1>7, <2>2, <2>3, <4>1
    <3> QED BY <3>1, <3>2, <3>3, <3>4
  <2> QED BY <1>7, <1>8, <2>3 DEF Once
<1>20. SinceOK(v)
  BY <1>8, <1>9 DEF SinceOK
<1>21. IterOK(v)
  BY <1>7, <1>8, <1>9, <1>10, <1>12, <1>15, <1>18, <1>19, <1>20 DEF IterOK
<1>22. WalkOK(v)
  BY <1>8, <1>21 DEF WalkOK
<1> QED BY <1>4, <1>8, <1>22, WalkStep

LEMMA IterBucketStep ==
    ASSUME IInv, NEW t \in Threads, IterBucket(t)
    PROVE  IInv'
<1>0. TableInv /\ TypeOK /\ TabInv /\ WalksInv
  BY DEF IInv, TableInv
<1>1. PICK w \in WalkSet : w = walk[t]
  BY <1>0, TypeWhole
<1>2. PICK c : c = w.bucket + 1
  OBVIOUS
<1>3. PICK v : v = [w EXCEPT !.bucket = c, !.at = first[c]]
  OBVIOUS
<1>4. walk' = [walk EXCEPT ![t] = v] /\ Still /\ w.op = "iter" /\ w.at = nil /\ c \in Buckets
  BY <1>1, <1>2, <1>3 DEF IterBucket, Still
<1>5. first[c] \in Elems \cup {nil} /\ c \in 0 .. capacity /\ c \in Nat
  <2>1. c \in 0 .. capacity /\ c \in Nat
    BY <1>4, HashtableAssumption DEF Buckets
  <2> QED BY <1>0, <1>4, <2>1 DEF TypeOK
<1>6. /\ v \in WalkSet /\ v.op = "iter" /\ v.at = first[c] /\ v.out = w.out /\ v.bucket = c
      /\ v.was = w.was /\ v.stay = w.stay
  BY <1>3, <1>4, <1>5 DEF WalkSet
<1>7. IterOK(w)
  BY <1>0, <1>1, <1>4 DEF WalksInv, WalkOK
<1>8. w.bucket \in Nat
  BY <1>7, HashtableAssumption DEF IterOK, Buckets
<1>9. InTable \subseteq w.was /\ w.was \subseteq Used /\ w.stay \subseteq InTable /\ Once(w)
  BY <1>7 DEF IterOK, SinceOK
<1>10. \A e \in Used : hash(key[e]) \in Nat
  <2>1. \A e \in Used : hash(key[e]) \in Buckets
    BY <1>0, UsedFacts
  <2> QED BY <2>1, HashtableAssumption DEF Buckets
<1>11. ASSUME NEW i \in DOMAIN w.out
       PROVE  w.out[i] \in w.was /\ hash(key[w.out[i]]) <= c /\ hash(key[w.out[i]]) # c
  <2>1. w.out[i] \in w.was /\ hash(key[w.out[i]]) <= w.bucket
    BY <1>7 DEF IterOK
  <2>2. PICK x : x = hash(key[w.out[i]])
    OBVIOUS
  <2>3. x \in Nat /\ x <= w.bucket
    BY <1>9, <1>10, <2>1, <2>2
  <2>4. x <= c /\ x # c
    BY <1>2, <1>8, <2>3
  <2> QED BY <2>1, <2>2, <2>4
<1>12. ASSUME NEW e \in w.stay
       PROVE  /\ hash(key[e]) < c => Met(v, e)
              /\ hash(key[e]) = c => Reaches(first[c], e)
  <2>1. e \in InTable /\ e \in Used /\ e \in Live(hash(key[e]))
    BY <1>0, <1>9, InTableLive
  <2>2. Met(v, e) <=> Met(w, e)
    BY <1>6 DEF Met
  <2>3. ~Reaches(w.at, e)
    BY <1>0, <1>4, NilReaches
  <2>4. hash(key[e]) < w.bucket \/ hash(key[e]) = w.bucket => Met(w, e)
    BY <1>7, <2>3 DEF IterOK
  <2>5. PICK x \in Nat : x = hash(key[e])
    BY <1>10, <2>1
  <2>6. x < c => x < w.bucket \/ x = w.bucket
    BY <1>2, <1>8
  <2>7. hash(key[e]) = c => Reaches(first[c], e)
    BY <1>0, <1>4, <2>1, FirstReaches
  <2> QED BY <2>2, <2>4, <2>5, <2>6, <2>7
<1>13. Live(c) \subseteq Here(v)
  <2>1. \A e \in Live(c) : e \in Used /\ hash(key[e]) = c
    BY <1>0, LiveFacts
  <2>2. \A e \in Live(c) : e \in InTable
    BY <1>0, <2>1, InTableLive
  <2> QED BY <1>6, <1>9, <2>1, <2>2 DEF Here
<1>14. Only(v.at, Here(v))
  BY <1>0, <1>4, <1>6, <1>13, FirstOnly
<1>15. SinceOK(v) /\ Once(v)
  BY <1>6, <1>9 DEF SinceOK, Once
<1>16. IterOK(v)
  BY <1>4, <1>6, <1>11, <1>12, <1>14, <1>15 DEF IterOK
<1>17. WalkOK(v)
  BY <1>6, <1>16 DEF WalkOK
<1> QED BY <1>4, <1>6, <1>17, WalkStep

\* The elements of a bucket up to the end of its list: each of those of the
\* table, once.
LEMMA ChainWhole ==
    ASSUME TableInv, NEW b \in Buckets, NEW n, n = Min({i \in 0 .. MaxElems : Chain(b)[i] = nil})
    PROVE  /\ n \in Nat
           /\ \A i \in 1 .. n : Chain(b)[i - 1] \in Live(b)
           /\ \A i, j \in 1 .. n : Chain(b)[i - 1] = Chain(b)[j - 1] => i = j
           /\ \A g \in Live(b) : \E i \in 1 .. n : Chain(b)[i - 1] = g
<1>0. TypeOK /\ MaxElems \in Nat
  BY HashtableAssumption DEF TableInv
<1>1. PICK S : S = {i \in 0 .. MaxElems : Chain(b)[i] = nil}
  OBVIOUS
<1>2. S \in SUBSET Nat /\ S # {}
  BY <1>0, <1>1, ChainEnds
<1>3. n \in S /\ \A y \in S : n <= y
  BY <1>1, <1>2, MinNat
<1>4. n \in Nat /\ n <= MaxElems /\ Chain(b)[n] = nil
  BY <1>0, <1>1, <1>3
<1>5. ASSUME NEW m \in Nat, m < n PROVE Chain(b)[m] # nil /\ m \in 0 .. MaxElems
  <2>1. m \in 0 .. MaxElems
    BY <1>0, <1>4, <1>5
  <2>2. m \notin S
    BY <1>3, <1>4, <1>5
  <2> QED BY <1>1, <2>1, <2>2
<1>6. ASSUME NEW i \in 1 .. n PROVE Chain(b)[i - 1] \in Live(b)
  <2>1. i - 1 \in Nat /\ i - 1 < n
    BY <1>4
  <2>2. Chain(b)[i - 1] # nil /\ i - 1 \in 0 .. MaxElems
    BY <1>5, <2>1
  <2> QED BY <2>2, ChainLive
<1>7. ASSUME NEW l \in Nat, NEW m \in Nat, l < m, m < n PROVE Chain(b)[l] # Chain(b)[m]
  <2>1. Chain(b)[m] # nil /\ m <= MaxElems
    BY <1>4, <1>5, <1>7
  <2>2. Chain(b)[l] \in Live(b) /\ Less(Chain(b)[l], Chain(b)[m])
    BY <1>7, <2>1, ChainOrder
  <2>3. Chain(b)[l] \in Used
    BY <1>0, <2>2, LiveFacts
  <2> QED BY <1>0, <2>2, <2>3, LessIrreflexive
<1>8. ASSUME NEW i \in 1 .. n, NEW j \in 1 .. n, Chain(b)[i - 1] = Chain(b)[j - 1] PROVE i = j
  <2>1. PICK l \in Nat, m \in Nat : l = i - 1 /\ m = j - 1
    BY <1>4
  <2>2. l < n /\ m < n /\ (i = j <=> l = m)
    BY <1>4, <2>1
  <2>3. Chain(b)[l] = Chain(b)[m]
    BY <1>8, <2>1
  <2>4. ~(l < m) /\ ~(m < l)
    BY <1>7, <2>2, <2>3
  <2> QED BY <2>2, <2>4
<1>9. ASSUME NEW g \in Live(b) PROVE \E i \in 1 .. n : Chain(b)[i - 1] = g
  <2>1. n \in 0 .. MaxElems
    BY <1>0, <1>4
  <2>2. PICK j \in 0 .. n : Chain(b)[j] = g
    BY <1>4, <2>1, ChainMeets
  <2>3. g # nil
    BY <1>0, LiveFacts
  <2>4. j # n
    BY <1>4, <2>2, <2>3
  <2>5. j + 1 \in 1 .. n /\ (j + 1) - 1 = j
    BY <1>4, <2>4
  <2> QED BY <2>2, <2>5
<1> QED BY <1>4, <1>6, <1>8, <1>9

LEMMA ElemsBucketStep ==
    ASSUME IInv, NEW t \in Threads, ElemsBucket(t)
    PROVE  IInv'
<1>0. TableInv /\ TypeOK /\ TabInv /\ WalksInv
  BY DEF IInv, TableInv
<1>1. PICK w \in WalkSet : w = walk[t]
  BY <1>0, TypeWhole
<1>2. PICK b, o, m : b = w.bucket /\ o = w.out /\ m = Len(o)
  OBVIOUS
<1>3. PICK n : n = Min({i \in 0 .. MaxElems : Chain(b)[i] = nil})
  OBVIOUS
<1>4. PICK r : r = [i \in 1 .. n |-> Chain(b)[i - 1]]
  OBVIOUS
<1>5. PICK s : s = o \o r
  OBVIOUS
<1>6. PICK v : v = [w EXCEPT !.bucket = b + 1, !.out = s]
  OBVIOUS
<1>7. walk' = [walk EXCEPT ![t] = v] /\ Still /\ w.op = "elems" /\ b \in Buckets
  BY <1>1, <1>2, <1>3, <1>4, <1>5, <1>6 DEF ElemsBucket, Still
<1>8. /\ n \in Nat
      /\ \A i \in 1 .. n : Chain(b)[i - 1] \in Live(b)
      /\ \A i, j \in 1 .. n : Chain(b)[i - 1] = Chain(b)[j - 1] => i = j
      /\ \A g \in Live(b) : \E i \in 1 .. n : Chain(b)[i - 1] = g
  BY <1>0, <1>3, <1>7, ChainWhole
<1>9. /\ \A i \in 1 .. n : r[i] \in Live(b)
      /\ \A i, j \in 1 .. n : r[i] = r[j] => i = j
      /\ \A g \in Live(b) : \E i \in 1 .. n : r[i] = g
  BY <1>4, <1>8
<1>10. \A e \in Live(b) : e \in Used /\ e \in Elems /\ hash(key[e]) = b /\ e \in InTable
  <2>1. \A e \in Live(b) : e \in Used /\ hash(key[e]) = b
    BY <1>0, LiveFacts
  <2>2. \A e \in Live(b) : e \in InTable /\ e \in Elems
    BY <1>0, <2>1, InTableLive, UsedFacts
  <2> QED BY <2>1, <2>2
<1>11. r \in Seq(Elems) /\ Len(r) = n
  BY <1>4, <1>8, <1>9, <1>10
<1>12. o \in Seq(Elems) /\ m \in Nat /\ DOMAIN o = 1 .. m
  BY <1>2 DEF WalkSet
<1>13. /\ s \in Seq(Elems) /\ DOMAIN s = 1 .. m + n
       /\ \A i \in 1 .. m : s[i] = o[i]
       /\ \A i \in 1 .. n : s[m + i] = r[i]
  <2>1. s \in Seq(Elems) /\ Len(s) = m + n
    BY <1>2, <1>5, <1>11, <1>12
  <2>2. DOMAIN s = 1 .. m + n
    BY <2>1
  <2>3. ASSUME NEW i \in 1 .. m PROVE s[i] = o[i]
    BY <1>2, <1>5, <1>8, <1>11, <1>12
  <2>4. ASSUME NEW i \in 1 .. n PROVE s[m + i] = r[i]
    <3>1. m + i \in 1 .. m + n /\ ~(m + i <= m) /\ (m + i) - m = i
      BY <1>8, <1>12
    <3> QED BY <1>2, <1>5, <1>11, <1>12, <3>1
  <2> QED BY <2>1, <2>2, <2>3, <2>4
<1>14. b \in Nat /\ b + 1 \in 0 .. capacity
  BY <1>7, HashtableAssumption DEF Buckets
<1>15. /\ v \in WalkSet /\ v.op = "elems" /\ v.bucket = b + 1 /\ v.out = s
       /\ v.was = w.was /\ v.stay = w.stay
  BY <1>6, <1>7, <1>13, <1>14 DEF WalkSet
<1>16. /\ SinceOK(w) /\ Once(w)
       /\ \A i \in 1 .. m : o[i] \in w.was /\ hash(key[o[i]]) < b
       /\ \A e \in w.stay : hash(key[e]) < b => Met(w, e)
  <2>1. ElemsOK(w)
    BY <1>0, <1>1, <1>7 DEF WalksInv, WalkOK
  <2> QED BY <1>2, <1>12, <2>1 DEF ElemsOK
<1>17. InTable \subseteq w.was /\ w.was \subseteq Used /\ w.stay \subseteq InTable
  BY <1>16 DEF SinceOK
<1>18. \A e \in Used : hash(key[e]) \in Nat
  <2>1. \A e \in Used : hash(key[e]) \in Buckets
    BY <1>0, UsedFacts
  <2> QED BY <2>1, HashtableAssumption DEF Buckets
\* An index of the new sequence is one of the old or one of the bucket's.
<1>19. ASSUME NEW i \in 1 .. m + n PROVE i \in 1 .. m \/ \E l \in 1 .. n : i = m + l
  <2>1. CASE i <= m
    BY <1>8, <1>12, <2>1
  <2>2. CASE ~(i <= m)
    <3>1. i - m \in 1 .. n /\ i = m + (i - m)
      BY <1>8, <1>12, <2>2
    <3> QED BY <3>1
  <2> QED BY <2>1, <2>2
<1>20. ASSUME NEW i \in 1 .. m + n PROVE s[i] \in w.was /\ hash(key[s[i]]) < b + 1
  <2>1. CASE i \in 1 .. m
    <3>1. s[i] = o[i] /\ o[i] \in w.was /\ hash(key[o[i]]) < b
      BY <1>13, <1>16, <2>1
    <3>2. PICK x : x = hash(key[o[i]])
      OBVIOUS
    <3>3. x \in Nat /\ x < b
      BY <1>17, <1>18, <3>1, <3>2
    <3>4. x < b + 1
      BY <1>14, <3>3
    <3> QED BY <3>1, <3>2, <3>4
  <2>2. CASE \E l \in 1 .. n : i = m + l
    <3>1. PICK l \in 1 .. n : i = m + l
      BY <2>2
    <3>2. s[i] = r[l] /\ r[l] \in Live(b)
      BY <1>9, <1>13, <3>1
    <3>3. s[i] \in w.was /\ hash(key[s[i]]) = b
      BY <1>10, <1>17, <3>2
    <3> QED BY <1>14, <3>3
  <2> QED BY <1>19, <2>1, <2>2
<1>21. ASSUME NEW i \in 1 .. m, NEW l \in 1 .. n PROVE o[i] # r[l]
  <2>1. hash(key[o[i]]) < b /\ hash(key[r[l]]) = b
    BY <1>9, <1>10, <1>16
  <2> QED BY <1>14, <2>1
<1>22. \A i, j \in 1 .. m : o[i] = o[j] => i = j
  BY <1>2, <1>12, <1>16 DEF Once
<1>23. ASSUME NEW i \in 1 .. m + n, NEW j \in 1 .. m + n, s[i] = s[j] PROVE i = j
  <2>1. CASE i \in 1 .. m /\ j \in 1 .. m
    BY <1>13, <1>22, <1>23, <2>1
  <2>2. CASE i \in 1 .. m /\ \E l \in 1 .. n : j = m + l
    BY <1>13, <1>21, <1>23, <2>2
  <2>3. CASE j \in 1 .. m /\ \E l \in 1 .. n : i = m + l
    BY <1>13, <1>21, <1>23, <2>3
  <2>4. CASE (\E l \in 1 .. n : i = m + l) /\ (\E l \in 1 .. n : j = m + l)
    <3>1. PICK x \in 1 .. n : i = m + x
      BY <2>4
    <3>2. PICK y \in 1 .. n : j = m + y
      BY <2>4
    <3>3. r[x] = r[y]
      BY <1>13, <1>23, <3>1, <3>2
    <3> QED BY <1>9, <3>1, <3>2, <3>3
  <2> QED BY <1>19, <2>1, <2>2, <2>3, <2>4
<1>24. Once(v)
  BY <1>13, <1>15, <1>23 DEF Once
<1>25. ASSUME NEW e \in w.stay, hash(key[e]) < b + 1 PROVE Met(v, e)
  <2>1. e \in Used /\ e \in Live(hash(key[e]))
    BY <1>0, <1>17, InTableLive
  <2>2. PICK x \in Nat : x = hash(key[e])
    BY <1>18, <2>1
  <2>3. x < b \/ x = b
    BY <1>14, <1>25, <2>2
  <2>4. CASE x < b
    <3>1. PICK i \in 1 .. m : o[i] = e
      BY <1>2, <1>12, <1>16, <2>2, <2>4 DEF Met
    <3>2. i \in 1 .. m + n
      BY <1>8, <1>12
    <3> QED BY <1>13, <1>15, <3>1, <3>2 DEF Met
  <2>5. CASE x = b
    <3>1. PICK l \in 1 .. n : r[l] = e
      BY <1>9, <2>1, <2>2, <2>5
    <3>2. m + l \in 1 .. m + n
      BY <1>8, <1>12
    <3> QED BY <1>13, <1>15, <3>1, <3>2 DEF Met
  <2> QED BY <2>3, <2>4, <2>5
<1>26. SinceOK(v)
  BY <1>15, <1>17 DEF SinceOK
<1>27. ElemsOK(v)
  BY <1>13, <1>15, <1>20, <1>24, <1>25, <1>26 DEF ElemsOK
<1>28. WalkOK(v)
  BY <1>15, <1>27 DEF WalkOK
<1> QED BY <1>7, <1>15, <1>28, WalkStep

(***************************************************************************)
(* The theorems.                                                           *)
(***************************************************************************)
LEMMA InitHolds ==
    ASSUME Init
    PROVE  IInv
<1>1. Used = {} /\ \A b : Live(b) = {}
  BY DEF Init, Used, Live
<1>2. TableType /\ walk \in [Threads -> WalkSet] /\ panic = FALSE
  BY NoWalkOK DEF Init, TableType, Ptr
<1>3. ListInv /\ OrderInv /\ FreshInv
  BY <1>1 DEF ListInv, OrderInv, FreshInv, IsLeast, Init
<1>4. TabInv
  BY DEF TabInv, Init
<1>5. WalksInv
  BY NoWalkOK DEF WalksInv, Init
<1> QED BY <1>2, <1>3, <1>4, <1>5, TypeWhole DEF IInv, TableInv

LEMMA StutterHolds ==
    ASSUME IInv, UNCHANGED vars
    PROVE  IInv'
<1>1. Still /\ walk' = walk
  BY DEF vars, Still
<1>2. TypeOK'
  <2>1. TypeOK
    BY DEF IInv, TableInv
  <2> QED BY <1>1, <2>1 DEF Still, TypeOK
<1>3. TableInv'
  BY <1>1, <1>2, StillTable DEF IInv
<1>4. WalksInv'
  <2>1. ASSUME NEW t \in Threads, NEW v, v = walk'[t] PROVE WalkOK(v)'
    <3>1. WalkOK(v)
      BY <1>1, <2>1 DEF IInv, WalksInv
    <3> QED BY <1>1, <3>1, StillWalkOK
  <2> QED BY <2>1, WalksNext
<1> QED BY <1>3, <1>4 DEF IInv

LEMMA StepHolds ==
    ASSUME IInv, [Next]_vars
    PROVE  IInv'
<1>1. CASE \E k \in Keys : Set(k)
  BY <1>1, SetStep
<1>2. CASE \E k \in Keys : Del(k)
  BY <1>2, DelStep
<1>3. CASE \E t \in Threads : \E k \in Keys : Get(t, k)
  BY <1>3, GetStep
<1>4. CASE \E t \in Threads : GetNext(t) \/ GetReturn(t)
  BY <1>4, GetNextStep, GetReturnStep
<1>5. CASE \E t \in Threads : \E op \in {"iter", "elems"} : Begin(t, op)
  BY <1>5, BeginStep
<1>6. CASE \E t \in Threads : IterElem(t) \/ IterBucket(t)
  BY <1>6, IterElemStep, IterBucketStep
<1>7. CASE \E t \in Threads : ElemsBucket(t) \/ WalkReturn(t)
  BY <1>7, ElemsBucketStep, WalkReturnStep
<1>8. CASE UNCHANGED vars
  BY <1>8, StutterHolds
<1> QED BY <1>1, <1>2, <1>3, <1>4, <1>5, <1>6, <1>7, <1>8 DEF Next

\* The lists are sorted and complete, no operation panics, and every walk under
\* way is on a path to what it has still to meet.
THEOREM HashtableInvariant == Spec => []IInv
<1>1. Init => IInv
  BY InitHolds
<1>2. IInv /\ [Next]_vars => IInv'
  BY StepHolds
<1> QED BY <1>1, <1>2, PTL DEF Spec

LEMMA WalksDone ==
    ASSUME IInv
    PROVE  WalksComplete
<1>0. TypeOK /\ TabInv
  BY DEF IInv, TableInv
<1> SUFFICES ASSUME NEW t \in Threads, NEW w, w = walk[t]
             PROVE  /\ w.op \in {"iter", "elems"} => \A i \in DOMAIN w.out : w.out[i] \in w.was
                    /\ \A i, j \in DOMAIN w.out : w.out[i] = w.out[j] => i = j
                    /\ AtEnd(w) => \A e \in w.stay : \E i \in DOMAIN w.out : w.out[i] = e
  BY DEF WalksComplete
<1>1. WalkOK(w) /\ w \in WalkSet
  BY <1>0, TypeWhole DEF IInv, WalksInv
<1>2. w.op \in {"none", "get", "got", "iter", "elems"}
  BY <1>1 DEF WalkSet
<1>3. w.op \in {"iter", "elems"} => SinceOK(w) /\ Once(w) /\ \A i \in DOMAIN w.out : w.out[i] \in w.was
  BY <1>1 DEF WalkOK, IterOK, ElemsOK
<1>4. w.op \notin {"iter", "elems"} => w.out = << >>
  BY <1>1, <1>2 DEF WalkOK
<1>5. \A i, j \in DOMAIN w.out : w.out[i] = w.out[j] => i = j
  BY <1>3, <1>4 DEF Once
<1>6. ASSUME AtEnd(w), NEW e \in w.stay PROVE Met(w, e)
  <2>1. w.op \in {"iter", "elems"}
    BY <1>6 DEF AtEnd
  <2>2. e \in Used
    BY <1>0, <1>3, <1>6, <2>1, InTableLive DEF SinceOK
  <2>3. PICK h \in Nat : h = hash(key[e]) /\ h < capacity
    <3>1. hash(key[e]) \in Buckets
      BY <1>0, <2>2, UsedFacts
    <3> QED BY <3>1, HashtableAssumption DEF Buckets
  <2>4. CASE w.op = "iter"
    <3>1. IterOK(w) /\ w.at = nil /\ w.bucket = capacity - 1
      BY <1>1, <1>6, <2>4 DEF WalkOK, AtEnd
    <3>2. ~Reaches(w.at, e)
      BY <1>0, <3>1, NilReaches
    <3>3. h < w.bucket \/ h = w.bucket
      BY <2>3, <3>1, HashtableAssumption
    <3> QED BY <1>6, <2>3, <3>1, <3>2, <3>3 DEF IterOK
  <2>5. CASE w.op = "elems"
    BY <1>1, <1>6, <2>3, <2>5 DEF WalkOK, AtEnd, ElemsOK
  <2> QED BY <2>1, <2>4, <2>5
<1> QED BY <1>3, <1>5, <1>6 DEF Met

\* A walk meets every element that is in the table from its beginning to its
\* end, once, and none that was not there in between, whatever Set and Del do
\* beside it.
THEOREM WalksAreComplete == Spec => []WalksComplete
BY HashtableInvariant, WalksDone, PTL

(***************************************************************************)
(* The table is a map (module KVMap).                                      *)
(***************************************************************************)
\* The lookup of a walk, and its answer, as KVMap has them.
SeenOf(w) == IF w.op = "get" THEN [key |-> w.key, vals |-> w.vals] ELSE [key |-> nil, vals |-> {}]
AnsOf(w)  == IF w.op = "got" THEN w.at ELSE nil
Seen == [t \in Threads |-> SeenOf(walk[t])]
Ans  == [t \in Threads |-> AnsOf(walk[t])]

LEMMA ChangeDef ==
    ASSUME NEW k, NEW v
    PROVE  Map!Change(k, v) <=>
              /\ tab' = [tab EXCEPT ![k] = v]
              /\ Seen' = [t \in Threads |-> IF Seen[t].key = k THEN [Seen[t] EXCEPT !.vals = @ \cup {v}]
                                            ELSE Seen[t]]
              /\ Ans' = Ans /\ panic' = panic
BY DEF Map!Change, Seen, Ans, SeenOf, AnsOf

LEMMA StepDefs ==
    /\ \A k, v : Map!MSet(k, v) <=> tab[k] = nil /\ Map!Change(k, v)
    /\ \A k : Map!MDel(k) <=> tab[k] # nil /\ Map!Change(k, nil)
    /\ \A t, k : Map!MCall(t, k) <=>
          /\ Seen[t] = [key |-> nil, vals |-> {}]
          /\ Seen' = [Seen EXCEPT ![t] = [key |-> k, vals |-> {tab[k]}]]
          /\ tab' = tab /\ Ans' = Ans /\ panic' = panic
    /\ \A t : Map!MReturn(t) <=>
          /\ Seen[t] # [key |-> nil, vals |-> {}]
          /\ \E v \in Seen[t].vals : Ans' = [Ans EXCEPT ![t] = v]
          /\ Seen' = [Seen EXCEPT ![t] = [key |-> nil, vals |-> {}]]
          /\ tab' = tab /\ panic' = panic
    /\ \A t : Map!MForget(t) <=> Ans' = [Ans EXCEPT ![t] = nil] /\ tab' = tab /\ Seen' = Seen /\ panic' = panic
    /\ UNCHANGED Map!mvars <=> tab' = tab /\ Seen' = Seen /\ Ans' = Ans /\ panic' = panic
<1>1. \A k, v : Map!MSet(k, v) <=> tab[k] = nil /\ Map!Change(k, v)
  BY DEF Map!MSet
<1>2. \A k : Map!MDel(k) <=> tab[k] # nil /\ Map!Change(k, nil)
  BY DEF Map!MDel
<1>3. \A t, k : Map!MCall(t, k) <=>
          /\ Seen[t] = [key |-> nil, vals |-> {}]
          /\ Seen' = [Seen EXCEPT ![t] = [key |-> k, vals |-> {tab[k]}]]
          /\ tab' = tab /\ Ans' = Ans /\ panic' = panic
  BY DEF Map!MCall, Map!None, Seen, Ans, SeenOf, AnsOf
<1>4. \A t : Map!MReturn(t) <=>
          /\ Seen[t] # [key |-> nil, vals |-> {}]
          /\ \E v \in Seen[t].vals : Ans' = [Ans EXCEPT ![t] = v]
          /\ Seen' = [Seen EXCEPT ![t] = [key |-> nil, vals |-> {}]]
          /\ tab' = tab /\ panic' = panic
  BY DEF Map!MReturn, Map!None, Seen, Ans, SeenOf, AnsOf
<1>5. \A t : Map!MForget(t) <=> Ans' = [Ans EXCEPT ![t] = nil] /\ tab' = tab /\ Seen' = Seen /\ panic' = panic
  BY DEF Map!MForget, Seen, Ans, SeenOf, AnsOf
<1>6. UNCHANGED Map!mvars <=> tab' = tab /\ Seen' = Seen /\ Ans' = Ans /\ panic' = panic
  BY DEF Map!mvars, Seen, Ans, SeenOf, AnsOf
<1> QED BY <1>1, <1>2, <1>3, <1>4, <1>5, <1>6

LEMMA InitMaps ==
    ASSUME Init
    PROVE  Map!MInit
BY DEF Init, Map!MInit, Map!None, NoWalk

\* A change of the table is a change of the map.
LEMMA ToldChange ==
    ASSUME TypeOK, NEW k \in Keys, NEW e \in Ptr, Told(k, e), panic' = panic
    PROVE  Map!Change(k, e)
<1>1. k # nil /\ tab' = [tab EXCEPT ![k] = e] /\ walk \in [Threads -> WalkSet]
  BY TypeWhole, HashtableAssumption DEF Told
<1>2. ASSUME NEW t \in Threads
      PROVE  /\ SeenOf(walk'[t]) = IF Seen[t].key = k THEN [Seen[t] EXCEPT !.vals = @ \cup {e}] ELSE Seen[t]
             /\ AnsOf(walk'[t]) = Ans[t]
  <2>1. PICK w, v : w = walk[t] /\ v = walk'[t]
    OBVIOUS
  <2>2. ToldOne(k, e, w, v)
    BY <2>1, ToldWalks
  <2>3. /\ v.op = w.op /\ v.key = w.key /\ v.at = w.at
        /\ v.vals = IF w.op = "get" /\ w.key = k THEN w.vals \cup {e} ELSE w.vals
    BY <2>2 DEF ToldOne
  <2>4. Seen[t] = SeenOf(w) /\ Ans[t] = AnsOf(w)
    BY <2>1 DEF Seen, Ans
  <2>5. AnsOf(v) = AnsOf(w)
    BY <2>3 DEF AnsOf
  <2>6. CASE w.op = "get"
    <3>1. SeenOf(w) = [key |-> w.key, vals |-> w.vals] /\ SeenOf(v) = [key |-> w.key, vals |-> v.vals]
      BY <2>3, <2>6 DEF SeenOf
    <3>2. CASE w.key = k
      <4>1. SeenOf(v) = [SeenOf(w) EXCEPT !.vals = @ \cup {e}] /\ SeenOf(w).key = k
        BY <2>3, <2>6, <3>1, <3>2
      <4> QED BY <2>1, <2>4, <2>5, <4>1
    <3>3. CASE w.key # k
      <4>1. SeenOf(v) = SeenOf(w) /\ SeenOf(w).key # k
        BY <2>3, <3>1, <3>3
      <4> QED BY <2>1, <2>4, <2>5, <4>1
    <3> QED BY <3>2, <3>3
  <2>7. CASE w.op # "get"
    <3>1. SeenOf(v) = SeenOf(w) /\ SeenOf(w).key # k
      BY <1>1, <2>3, <2>7 DEF SeenOf
    <3> QED BY <2>1, <2>4, <2>5, <3>1
  <2> QED BY <2>6, <2>7
<1>3. Seen' = [t \in Threads |-> SeenOf(walk'[t])] /\ Ans' = [t \in Threads |-> AnsOf(walk'[t])]
  BY DEF Seen, Ans, SeenOf, AnsOf
<1>4. Seen' = [t \in Threads |-> IF Seen[t].key = k THEN [Seen[t] EXCEPT !.vals = @ \cup {e}] ELSE Seen[t]]
  BY <1>2, <1>3
<1>5. Ans' = Ans
  <2>1. Ans = [t \in Threads |-> Ans[t]]
    BY DEF Ans
  <2> QED BY <1>2, <1>3, <2>1
<1> QED BY <1>1, <1>4, <1>5, ChangeDef

LEMMA SetMaps ==
    ASSUME IInv, NEW k \in Keys, Set(k)
    PROVE  Map!MNext
<1>0. TableInv /\ TypeOK
  BY DEF IInv, TableInv
<1>1. PICK p, q, n : Inserted(k, p, q, n)
  BY <1>0, SetEffects
<1>2. n \in Elems
  BY <1>0, <1>1, InsertedPlain
<1>3. tab[k] = nil /\ Told(k, n) /\ panic' = panic
  BY <1>1 DEF Inserted
<1>4. Map!Change(k, n)
  BY <1>0, <1>2, <1>3, ToldChange DEF Ptr
<1>5. Map!MSet(k, n)
  BY <1>3, <1>4, StepDefs
<1> QED BY <1>2, <1>5 DEF Map!MNext

LEMMA DelMaps ==
    ASSUME IInv, NEW k \in Keys, Del(k)
    PROVE  Map!MNext
<1>0. TableInv /\ TypeOK
  BY DEF IInv, TableInv
<1>1. PICK p, d : Unlinked(k, p, d)
  BY <1>0, DelEffects
<1>2. tab[k] # nil /\ Told(k, nil) /\ panic' = panic
  BY <1>1 DEF Unlinked
<1>3. Map!Change(k, nil)
  BY <1>0, <1>2, ToldChange DEF Ptr
<1>4. Map!MDel(k)
  BY <1>2, <1>3, StepDefs
<1> QED BY <1>4 DEF Map!MNext

\* The map's view of a step of one walk.
LEMMA WalkMaps ==
    ASSUME TypeOK, NEW t \in Threads, NEW v, walk' = [walk EXCEPT ![t] = v], Still
    PROVE  /\ Seen' = [Seen EXCEPT ![t] = SeenOf(v)] /\ Ans' = [Ans EXCEPT ![t] = AnsOf(v)]
           /\ tab' = tab /\ panic' = panic
           /\ Seen[t] = SeenOf(walk[t]) /\ Ans[t] = AnsOf(walk[t])
           /\ SeenOf(v) = Seen[t] => Seen' = Seen
           /\ AnsOf(v) = Ans[t] => Ans' = Ans
<1>1. walk \in [Threads -> WalkSet]
  BY TypeWhole
<1>2. Seen' = [u \in Threads |-> SeenOf(walk'[u])] /\ Ans' = [u \in Threads |-> AnsOf(walk'[u])]
  BY DEF Seen, Ans, SeenOf, AnsOf
<1>3. \A u \in Threads : walk'[u] = IF u = t THEN v ELSE walk[u]
  BY <1>1
<1>4. Seen' = [Seen EXCEPT ![t] = SeenOf(v)]
  <2>1. Seen = [u \in Threads |-> SeenOf(walk[u])]
    BY DEF Seen
  <2>2. \A u \in Threads : SeenOf(walk'[u]) = IF u = t THEN SeenOf(v) ELSE SeenOf(walk[u])
    BY <1>3
  <2>3. PICK F : F = [u \in Threads |-> SeenOf(walk'[u])]
    OBVIOUS
  <2>4. F = [Seen EXCEPT ![t] = SeenOf(v)]
    BY <2>1, <2>2, <2>3
  <2> QED BY <1>2, <2>3, <2>4
<1>5. Ans' = [Ans EXCEPT ![t] = AnsOf(v)]
  <2>1. Ans = [u \in Threads |-> AnsOf(walk[u])]
    BY DEF Ans
  <2>2. \A u \in Threads : AnsOf(walk'[u]) = IF u = t THEN AnsOf(v) ELSE AnsOf(walk[u])
    BY <1>3
  <2>3. PICK F : F = [u \in Threads |-> AnsOf(walk'[u])]
    OBVIOUS
  <2>4. F = [Ans EXCEPT ![t] = AnsOf(v)]
    BY <2>1, <2>2, <2>3
  <2> QED BY <1>2, <2>3, <2>4
<1>6. Seen[t] = SeenOf(walk[t]) /\ Ans[t] = AnsOf(walk[t])
  BY DEF Seen, Ans
<1>7. Seen = [Seen EXCEPT ![t] = Seen[t]]
  BY DEF Seen
<1>8. Ans = [Ans EXCEPT ![t] = Ans[t]]
  BY DEF Ans
<1> QED BY <1>4, <1>5, <1>6, <1>7, <1>8 DEF Still

\* A step of a walk that is not seen.
LEMMA WalkHidden ==
    ASSUME TypeOK, NEW t \in Threads, NEW v, walk' = [walk EXCEPT ![t] = v], Still,
           SeenOf(v) = SeenOf(walk[t]), AnsOf(v) = AnsOf(walk[t])
    PROVE  UNCHANGED Map!mvars
<1>1. tab' = tab /\ Seen' = Seen /\ Ans' = Ans /\ panic' = panic
  BY WalkMaps
<1> QED BY <1>1, StepDefs

LEMMA GetMaps ==
    ASSUME IInv, NEW t \in Threads, NEW k \in Keys, Get(t, k)
    PROVE  Map!MNext
<1>0. TypeOK
  BY DEF IInv, TableInv
<1>1. PICK v : v = [NoWalk EXCEPT !.op = "get", !.key = k, !.at = first[hash(k)], !.vals = {tab[k]}]
  OBVIOUS
<1>2. walk' = [walk EXCEPT ![t] = v] /\ Still /\ walk[t].op = "none"
  BY <1>1 DEF Get, Still
<1>3. SeenOf(v) = [key |-> k, vals |-> {tab[k]}] /\ AnsOf(v) = nil
  BY <1>1 DEF SeenOf, AnsOf, NoWalk
<1>4. SeenOf(walk[t]) = [key |-> nil, vals |-> {}] /\ AnsOf(walk[t]) = nil
  BY <1>2 DEF SeenOf, AnsOf
<1>5. /\ Seen' = [Seen EXCEPT ![t] = SeenOf(v)] /\ Ans' = Ans /\ tab' = tab /\ panic' = panic
      /\ Seen[t] = SeenOf(walk[t])
  <2>1. /\ Seen' = [Seen EXCEPT ![t] = SeenOf(v)] /\ tab' = tab /\ panic' = panic
        /\ Seen[t] = SeenOf(walk[t]) /\ Ans[t] = AnsOf(walk[t])
        /\ AnsOf(v) = Ans[t] => Ans' = Ans
    BY <1>0, <1>2, WalkMaps
  <2> QED BY <1>3, <1>4, <2>1
<1>6. Map!MCall(t, k)
  BY <1>3, <1>4, <1>5, StepDefs
<1> QED BY <1>6 DEF Map!MNext

LEMMA GetReturnMaps ==
    ASSUME IInv, NEW t \in Threads, GetReturn(t)
    PROVE  Map!MNext
<1>0. TypeOK /\ WalksInv
  BY DEF IInv, TableInv
<1>1. PICK w : w = walk[t]
  OBVIOUS
<1>2. PICK v : v = [NoWalk EXCEPT !.op = "got", !.at = w.at]
  OBVIOUS
<1>3. walk' = [walk EXCEPT ![t] = v] /\ Still /\ w.op = "get" /\ (w.at # nil => Match(w.at, w.key))
  BY <1>1, <1>2 DEF GetReturn, Still, Ended
<1>4. SeenOf(v) = [key |-> nil, vals |-> {}] /\ AnsOf(v) = w.at
  BY <1>2 DEF SeenOf, AnsOf, NoWalk
<1>5. SeenOf(w) = [key |-> w.key, vals |-> w.vals]
  BY <1>3 DEF SeenOf
<1>6. GetOK(w)
  BY <1>0, <1>1, <1>3 DEF WalksInv, WalkOK
\* The answer is one that the key has had.
<1>7. w.at \in w.vals
  <2>1. CASE w.at = nil
    <3>1. ~Reaches(w.at, tab[w.key])
      BY <1>0, <2>1, NilReaches
    <3> QED BY <1>6, <2>1, <3>1 DEF GetOK
  <2>2. CASE w.at # nil
    <3>1. w.at \in Fit(w)
      BY <1>6, <2>2, OnlyUsed DEF GetOK
    <3> QED BY <1>3, <2>2, <3>1 DEF Fit, Match
  <2> QED BY <2>1, <2>2
<1>8. /\ Seen' = [Seen EXCEPT ![t] = SeenOf(v)] /\ Ans' = [Ans EXCEPT ![t] = AnsOf(v)]
      /\ tab' = tab /\ panic' = panic /\ Seen[t] = SeenOf(w)
  BY <1>0, <1>1, <1>3, WalkMaps
<1>9. Seen[t].vals = w.vals /\ Seen[t].vals # {}
  BY <1>5, <1>7, <1>8
<1>10. Seen[t] # [key |-> nil, vals |-> {}]
  BY <1>9
<1>11. \E x \in Seen[t].vals : Ans' = [Ans EXCEPT ![t] = x]
  BY <1>4, <1>7, <1>8, <1>9
<1>12. Map!MReturn(t)
  BY <1>4, <1>8, <1>10, <1>11, StepDefs
<1> QED BY <1>12 DEF Map!MNext

LEMMA WalkReturnMaps ==
    ASSUME IInv, NEW t \in Threads, WalkReturn(t)
    PROVE  Map!MNext
<1>0. TypeOK
  BY DEF IInv, TableInv
<1>1. walk' = [walk EXCEPT ![t] = NoWalk] /\ Still /\ walk[t].op # "get"
  BY DEF WalkReturn, Still, AtEnd
<1>2. SeenOf(NoWalk) = [key |-> nil, vals |-> {}] /\ AnsOf(NoWalk) = nil
  BY DEF SeenOf, AnsOf, NoWalk
<1>3. SeenOf(walk[t]) = [key |-> nil, vals |-> {}]
  BY <1>1 DEF SeenOf
<1>4. Seen' = Seen /\ Ans' = [Ans EXCEPT ![t] = nil] /\ tab' = tab /\ panic' = panic
  <2>1. /\ Ans' = [Ans EXCEPT ![t] = AnsOf(NoWalk)] /\ tab' = tab /\ panic' = panic
        /\ Seen[t] = SeenOf(walk[t])
        /\ SeenOf(NoWalk) = Seen[t] => Seen' = Seen
    BY <1>0, <1>1, WalkMaps
  <2> QED BY <1>2, <1>3, <2>1
<1>5. Map!MForget(t)
  BY <1>4, StepDefs
<1> QED BY <1>5 DEF Map!MNext

LEMMA HiddenMaps ==
    ASSUME IInv, NEW t \in Threads,
           GetNext(t) \/ (\E op \in {"iter", "elems"} : Begin(t, op)) \/ IterElem(t) \/ IterBucket(t) \/ ElemsBucket(t)
    PROVE  UNCHANGED Map!mvars
<1>0. TypeOK
  BY DEF IInv, TableInv
<1>1. PICK w \in WalkSet : w = walk[t]
  BY <1>0, TypeWhole
<1>2. CASE GetNext(t)
  <2>1. PICK v : v = [w EXCEPT !.at = next[w.at]]
    OBVIOUS
  <2>2. walk' = [walk EXCEPT ![t] = v] /\ Still /\ w.op = "get"
    BY <1>1, <1>2, <2>1 DEF GetNext, Still
  <2>3. v.op = w.op /\ v.key = w.key /\ v.vals = w.vals
    BY <2>1 DEF WalkSet
  <2>4. SeenOf(v) = SeenOf(w) /\ AnsOf(v) = AnsOf(w)
    BY <2>2, <2>3 DEF SeenOf, AnsOf
  <2> QED BY <1>0, <1>1, <2>2, <2>4, WalkHidden
<1>3. ASSUME NEW op \in {"iter", "elems"}, Begin(t, op) PROVE UNCHANGED Map!mvars
  <2>1. PICK v : v = [NoWalk EXCEPT !.op = op, !.at = first[0], !.was = InTable, !.stay = InTable]
    OBVIOUS
  <2>2. walk' = [walk EXCEPT ![t] = v] /\ Still /\ w.op = "none"
    BY <1>1, <1>3, <2>1 DEF Begin, Still
  <2>3. v.op = op
    BY <2>1 DEF NoWalk
  <2>4. SeenOf(v) = SeenOf(w) /\ AnsOf(v) = AnsOf(w)
    BY <2>2, <2>3 DEF SeenOf, AnsOf
  <2> QED BY <1>0, <1>1, <2>2, <2>4, WalkHidden
<1>4. CASE IterElem(t)
  <2>1. PICK v : v = [w EXCEPT !.out = Append(w.out, w.at), !.at = next[w.at]]
    OBVIOUS
  <2>2. walk' = [walk EXCEPT ![t] = v] /\ Still /\ w.op = "iter"
    BY <1>1, <1>4, <2>1 DEF IterElem, Still
  <2>3. v.op = w.op
    BY <2>1 DEF WalkSet
  <2>4. SeenOf(v) = SeenOf(w) /\ AnsOf(v) = AnsOf(w)
    BY <2>2, <2>3 DEF SeenOf, AnsOf
  <2> QED BY <1>0, <1>1, <2>2, <2>4, WalkHidden
<1>5. CASE IterBucket(t)
  <2>1. PICK v : v = [w EXCEPT !.bucket = w.bucket + 1, !.at = first[w.bucket + 1]]
    OBVIOUS
  <2>2. walk' = [walk EXCEPT ![t] = v] /\ Still /\ w.op = "iter"
    BY <1>1, <1>5, <2>1 DEF IterBucket, Still
  <2>3. v.op = w.op
    BY <2>1 DEF WalkSet
  <2>4. SeenOf(v) = SeenOf(w) /\ AnsOf(v) = AnsOf(w)
    BY <2>2, <2>3 DEF SeenOf, AnsOf
  <2> QED BY <1>0, <1>1, <2>2, <2>4, WalkHidden
<1>6. CASE ElemsBucket(t)
  <2>1. PICK s : walk' = [walk EXCEPT ![t].bucket = @ + 1, ![t].out = @ \o s] /\ Still /\ w.op = "elems"
    BY <1>1, <1>6 DEF ElemsBucket, Still
  <2>2. PICK v : v = [w EXCEPT !.bucket = w.bucket + 1, !.out = w.out \o s]
    OBVIOUS
  <2>3. walk' = [walk EXCEPT ![t] = v]
    BY <1>1, <2>1, <2>2
  <2>4. v.op = w.op
    BY <2>2 DEF WalkSet
  <2>5. SeenOf(v) = SeenOf(w) /\ AnsOf(v) = AnsOf(w)
    BY <2>1, <2>4 DEF SeenOf, AnsOf
  <2> QED BY <1>0, <1>1, <2>1, <2>3, <2>5, WalkHidden
<1> QED BY <1>2, <1>3, <1>4, <1>5, <1>6

LEMMA StepMaps ==
    ASSUME IInv, [Next]_vars
    PROVE  [Map!MNext]_Map!mvars
<1>1. CASE \E k \in Keys : Set(k) \/ Del(k)
  BY <1>1, SetMaps, DelMaps
<1>2. CASE \E t \in Threads : (\E k \in Keys : Get(t, k)) \/ GetReturn(t) \/ WalkReturn(t)
  BY <1>2, GetMaps, GetReturnMaps, WalkReturnMaps
<1>3. CASE \E t \in Threads : \/ GetNext(t) \/ (\E op \in {"iter", "elems"} : Begin(t, op))
                              \/ IterElem(t) \/ IterBucket(t) \/ ElemsBucket(t)
  BY <1>3, HiddenMaps
<1>4. CASE UNCHANGED vars
  <2>1. tab' = tab /\ Seen' = Seen /\ Ans' = Ans /\ panic' = panic
    BY <1>4 DEF vars, Seen, Ans, SeenOf, AnsOf
  <2> QED BY <2>1, StepDefs
<1> QED BY <1>1, <1>2, <1>3, <1>4 DEF Next

\* The table implements the map of KVMap: Set and Del change it in one step and
\* never panic, and a Get, which takes no lock, answers with what its key had at
\* some moment since the call.
THEOREM GetsAreLinearizable == Spec => GetsLinearizable
<1>1. Init => Map!MInit
  BY InitMaps
<1>2. IInv /\ [Next]_vars => [Map!MNext]_Map!mvars
  BY StepMaps
<1> QED BY <1>1, <1>2, HashtableInvariant, PTL DEF Spec, GetsLinearizable, Map!MSpec

================================================================================
