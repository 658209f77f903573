-------------------------------- MODULE NamesInv --------------------------------
(***************************************************************************)
(* The vocabulary of the proofs about Names: what its operations do to     *)
(* inodes, the parts of the inductive invariants (CoreInv, LocksInv,       *)
(* TreeInv, FreeInv), and what a step has to do to keep them.              *)
(***************************************************************************)
EXTENDS Names

--------------------------------------------------------------------------------
(***************************************************************************)
(* The operations on inodes, field by field.                               *)
(***************************************************************************)
Tids == Threads \cup {NoThread}
Node == [itype : {"none", "file", "dir", "dead"}, links : Int, ref : Int, lock : Tids,
         gone : BOOLEAN, orphan : BOOLEAN, ents : [Fns -> Inos], fresh : SUBSET Fns, dotdot : Inos]
Nodes == [Inums -> Node]

B(p) == IF p THEN 1 ELSE 0

\* What the inodes s and x have in common.
SameNames(s, x) ==
  \A j \in Inums : /\ x[j].itype = s[j].itype /\ x[j].ents = s[j].ents
                   /\ x[j].dotdot = s[j].dotdot /\ x[j].fresh \subseteq s[j].fresh
SameLinks(s, x) == \A j \in Inums : x[j].links = s[j].links
SameLock(s, x) == \A j \in Inums : x[j].lock = s[j].lock
SameGone(s, x) == \A j \in Inums : x[j].gone = s[j].gone
SameRef(s, x) == \A j \in Inums : x[j].ref = s[j].ref

\* The entries of the directory i differ in n.
SetEntry(s, x, i, n, c) ==
  /\ \A j \in Inums : x[j].itype = s[j].itype /\ x[j].dotdot = s[j].dotdot
  /\ \A j \in Inums \ {i} : x[j].ents = s[j].ents /\ x[j].fresh \subseteq s[j].fresh
  /\ \A m \in Fns : x[i].ents[m] = IF m = n THEN c ELSE s[i].ents[m]
  /\ x[i].fresh \subseteq IF c = Nil THEN s[i].fresh \ {n} ELSE s[i].fresh \cup {n}

\* The entry n of i knows its inode from now on.
Knows(s, i, n) == [s EXCEPT ![i].fresh = @ \ {n}]

\* The inodes of dead are free.
Freed(s, x, dead) ==
  \A j \in Inums :
    /\ x[j].links = s[j].links /\ x[j].ref = s[j].ref /\ x[j].lock = s[j].lock
    /\ x[j].gone = s[j].gone /\ x[j].dotdot = s[j].dotdot
    /\ x[j].itype = IF j \in dead THEN "dead" ELSE s[j].itype
    /\ x[j].ents = IF j \in dead THEN NoEntries ELSE s[j].ents
    /\ x[j].fresh = IF j \in dead THEN {} ELSE s[j].fresh

\* A new inode, c, with the name n in the directory p.
Created(s, x, p, n, c, itype) ==
  /\ \A j \in Inums \ {c} : /\ x[j].itype = s[j].itype /\ x[j].links = s[j].links /\ x[j].ref = s[j].ref
                            /\ x[j].lock = s[j].lock /\ x[j].gone = s[j].gone /\ x[j].dotdot = s[j].dotdot
  /\ \A j \in Inums \ {c, p} : x[j].ents = s[j].ents /\ x[j].fresh = s[j].fresh
  /\ \A m \in Fns : x[p].ents[m] = IF m = n THEN c ELSE s[p].ents[m]
  /\ x[p].fresh \subseteq s[p].fresh \cup {n}
  /\ x[c].itype = itype /\ x[c].links = 1 /\ x[c].ref = 1 /\ x[c].lock = NoThread /\ ~x[c].gone
  /\ x[c].ents = NoEntries /\ x[c].fresh = {} /\ x[c].dotdot = Nil

--------------------------------------------------------------------------------
(***************************************************************************)
(* How often an inode is in a sequence.                                    *)
(***************************************************************************)
Spots(q, i) == {k \in DOMAIN q : q[k] = i}
Cnt(q, i) == Cardinality(Spots(q, i))

Shifted(A, C, d) == (\A k \in A : k + d \in C) /\ (\A k \in C : k - d \in A)

--------------------------------------------------------------------------------
(***************************************************************************)
(* What a call has in its hands, by its place in the code.                 *)
(***************************************************************************)
Walking == {"namei", "verify", "slow", "got"}
Found(r) == <<r.opar, r.ochild, r.npar>> \o (IF r.nchild = Nil THEN <<>> ELSE <<r.nchild>>)

OpOf(cs) == Head(cs).op

LocalOK(r, cs) ==
  /\ Tidy(cs)
  /\ r.pc = "idle" => /\ r = [Idle EXCEPT !.file = r.file]
                      /\ r.file # Nil => cs # <<>> /\ OpOf(cs) = "close"
  /\ r.pc # "idle" => cs # <<>> /\ OpOf(cs) # "close" /\ r.file = Nil
  /\ r.pc \in Walking => r.cur # Nil /\ r.npar = Nil /\ r.nchild = Nil /\ r.next = "idle"
  /\ r.pc \in Walking /\ r.stg = 1 => r.opar = Nil /\ r.ochild = Nil
  /\ r.stg = 2 => /\ r.ochild # Nil
                  /\ \/ OpOf(cs) = "rename" /\ r.opar # Nil
                     \/ OpOf(cs) = "link" /\ r.opar = Nil
  /\ r.pc = "child" => /\ OpOf(cs) \in {"create", "mkdir"} /\ r.cur # Nil /\ r.ochild # Nil
                       /\ r.next = "idle"
  /\ r.pc = "undo" => r.stg = 2 /\ OpOf(cs) = "link" /\ r.next = "idle"
  /\ r.pc \in {"lockall", "locked"} =>
       \/ OpOf(cs) = "unlink" /\ r.stg = 1 /\ r.opar # Nil /\ r.ochild # Nil /\ r.next = "idle"
       \/ OpOf(cs) = "rename" /\ r.stg = 2 /\ r.npar # Nil /\ r.refs = Found(r)
  /\ r.pc = "lockall" => r.tolock # {}
  /\ r.pc \in {"locked", "unlock"} => r.defers # <<>>
  /\ r.pc \in {"up", "look", "unlock"} => OpOf(cs) = "rename" /\ r.stg = 2 /\ r.npar # Nil
  /\ r.pc = "up" => r.cur # Nil /\ r.npar # iroot /\ r.next = "idle"
  /\ r.pc = "unlock" => r.next = "idle"
  /\ r.pc = "reflinks" => r.refs # <<>>
  /\ r.next = "look" => OpOf(cs) = "rename" /\ r.stg = 2 /\ r.npar # Nil

\* Held, of a frame.
SecondOf(r, op) ==
  IF r.stg = 1 THEN <<>>
  ELSE IF op = "link" THEN <<r.ochild>> ELSE <<r.opar, r.ochild>>
Again(r) == IF r.next = "look" THEN <<r.opar, r.ochild, r.npar>> ELSE <<>>
Body(r, op) ==
  CASE r.pc = "idle" -> <<>>
    [] r.pc \in {"namei", "verify"} -> <<iroot>> \o SecondOf(r, op)
    [] r.pc \in {"slow", "got"} -> <<r.cur>> \o SecondOf(r, op)
    [] r.pc = "child" -> <<r.ochild>> \o (IF op = "mkdir" THEN <<r.cur>> ELSE <<>>)
    [] r.pc = "undo" -> <<r.ochild>>
    [] r.pc \in {"lockall", "locked"} /\ op = "unlink" -> <<r.opar, r.ochild>>
    [] r.pc = "up" -> <<r.cur>> \o <<r.opar, r.ochild, r.npar>>
    [] r.pc = "look" -> <<r.opar, r.ochild, r.npar>>
    [] r.pc = "reflinks" -> Tail(r.refs) \o Again(r)
    [] r.pc = "refdown" -> r.refs \o Again(r)
    [] OTHER -> r.refs
HeldOf(r, op) == (IF r.file = Nil THEN <<>> ELSE <<r.file>>) \o Body(r, op)

\* How many references the frame has to i.
N(r, op, i) == Cnt(HeldOf(r, op), i)
T3(r, i) == B(r.opar = i) + B(r.ochild = i) + B(r.npar = i)
A3(r, i) == IF r.next = "look" THEN T3(r, i) ELSE 0

--------------------------------------------------------------------------------
(***************************************************************************)
(* The references of all threads.                                          *)
(***************************************************************************)
Pairs(H) == UNION {{t} \X H[t] : t \in Threads}
FiniteAll(H) == \A t \in Threads : IsFiniteSet(H[t])

--------------------------------------------------------------------------------
(***************************************************************************)
(* The inductive invariant of every behaviour: what holds whatever the     *)
(* code gets wrong.                                                        *)
(***************************************************************************)
TypeInv ==
  /\ ino \in Nodes /\ th \in [Threads -> Frame] /\ rlock \in Tids
  /\ calls \in [Threads -> Seq(Call)] /\ fatal \in BOOLEAN

\* Entries lead to inodes in use, and only directories have some.
Shape(s) ==
  \A i \in Inums :
    /\ s[i].itype # "dir" => s[i].ents = NoEntries
    /\ s[i].itype \in {"none", "file"} => s[i].dotdot = Nil
    /\ \A n \in Fns : s[i].ents[n] # Nil => s[i].ents[n] # iroot /\ s[s[i].ents[n]].itype # "none"
    /\ \A n \in s[i].fresh : s[i].ents[n] # Nil
    /\ s[i].dotdot # Nil => s[s[i].dotdot].itype # "none"

\* What is gone has no links; what is free is gone.
Marks(s) ==
  \A i \in Inums :
    /\ s[i].itype = "none" => s[i].links = 0 /\ s[i].ref = 0 /\ ~s[i].gone
    /\ s[i].itype = "dead" => s[i].gone
    /\ s[i].gone => s[i].links = 0

RootOK(s) == s[iroot].itype = "dir" /\ s[iroot].links > 0

\* The kinds of the inodes that a call has found.
KindOK(s, r, op) ==
  /\ r.pc \in {"namei", "verify"} => s[r.cur].itype # "none"
  /\ r.pc \in Walking \cup {"undo"} /\ r.stg = 2 /\ op = "link" => s[r.ochild].itype = "file"
  /\ r.pc = "child" /\ op = "mkdir" => s[r.ochild].itype = "dir"
  /\ r.pc = "look" \/ r.next = "look" => s[r.npar].itype = "dir"
  /\ r.pc \in {"lockall", "locked"} /\ op = "rename" => s[r.npar].itype = "dir"
  /\ r.pc = "up" /\ r.cur # r.npar => s[r.npar].itype = "dir"
  /\ r.pc = "reflinks" => s[Head(r.refs)].itype # "none"

\* The call has no inode that is gone, except where _isancestor has got to.
KeptOK(s, r, op) ==
  \A i \in Inums : s[i].gone => N(r, op, i) <= B(r.pc = "up" /\ r.cur = i)

DeadOK(s, r) == \A i \in r.dead : s[i].gone

FrameOK(s, r, cs) ==
  /\ LocalOK(r, cs) /\ KindOK(s, r, OpOf(cs)) /\ KeptOK(s, r, OpOf(cs)) /\ DeadOK(s, r)

FramesInv == \A t \in Threads : FrameOK(ino, th[t], calls[t])
RefsHeld == \A i \in Inums : ino[i].ref >= Cardinality(RefsTo(i))
LinksHeld == \A i \in Inums : ino[i].links >= Cardinality(NamesOf(i)) + Cardinality(Pending(i))

CoreInv ==
  /\ TypeInv /\ FramesInv /\ Shape(ino) /\ Marks(ino) /\ RootOK(ino)
  /\ RefsHeld /\ LinksHeld

--------------------------------------------------------------------------------
(***************************************************************************)
(* What a step of t has to do to keep it.                                  *)
(***************************************************************************)
Others(t) == \A u \in Threads \ {t} : th'[u] = th[u] /\ calls'[u] = calls[u]
TypeStep(t) == TypeInv' /\ Others(t)

\* An inode that is in use stays what it is until it is gone.
Evolves(s, x) ==
  \A i \in Inums : /\ s[i].gone => x[i].gone
                   /\ x[i].gone => s[i].gone \/ x[i].ref = 0
                   /\ \/ x[i].itype = s[i].itype
                      \/ s[i].itype = "none"
                      \/ x[i].itype = "dead"
                   /\ x[i].itype = "none" => s[i].itype = "none"
TreeStep == Shape(ino') /\ Marks(ino') /\ RootOK(ino') /\ Evolves(ino, ino')

PendOf(r, op, i) == r.pc \in Walking \cup {"undo"} /\ r.stg = 2 /\ op = "link" /\ r.ochild = i

LinkStep(t) ==
  \A i \in Inums :
     ino'[i].links - Cardinality(NamesIn(ino', i)) - B(PendOf(th'[t], OpOf(calls'[t]), i)) >=
     ino[i].links - Cardinality(NamesIn(ino, i)) - B(PendOf(th[t], OpOf(calls[t]), i))

RefStep(t) ==
  \A i \in Inums :
     ino'[i].ref - ino[i].ref >= N(th'[t], OpOf(calls'[t]), i) - N(th[t], OpOf(calls[t]), i)
RefExact(t) ==
  \A i \in Inums :
     ino'[i].ref - ino[i].ref = N(th'[t], OpOf(calls'[t]), i) - N(th[t], OpOf(calls[t]), i)

OwnStep(t) ==
  /\ LocalOK(th'[t], calls'[t]) /\ KindOK(ino', th'[t], OpOf(calls'[t])) /\ DeadOK(ino', th'[t])
  /\ \A i \in Inums : ino[i].gone =>
       N(th'[t], OpOf(calls'[t]), i) <= B(th'[t].pc = "up" /\ th'[t].cur = i)

CoreStep(t) == TypeStep(t) /\ TreeStep /\ LinkStep(t) /\ RefStep(t) /\ OwnStep(t)

\* The references to i, of the frames f with the calls g.
SpotsOf(f, g, i) == [t \in Threads |-> Spots(HeldOf(f[t], OpOf(g[t])), i)]

RefsAre == \A i : RefsTo(i) = Pairs(SpotsOf(th, calls, i))

PendSet(f, g, i) == {t \in Threads : PendOf(f[t], OpOf(g[t]), i)}

\* The call has a reference to i that it gives back last.
Has(r, op, i) == N(r, op, i) > B(r.pc = "up" /\ r.cur = i)

--------------------------------------------------------------------------------
(***************************************************************************)
(* Kinds of steps.                                                         *)
(***************************************************************************)
TreeTo(x) == x \in Nodes /\ Shape(x) /\ Marks(x) /\ RootOK(x) /\ Evolves(ino, x)

--------------------------------------------------------------------------------
(***************************************************************************)
(* Steps that change references and locks only.                            *)
(***************************************************************************)
\* Names and links stay, except those of inodes that are freed.
CalmTree ==
  \A j \in Inums : /\ ino'[j].links = ino[j].links /\ ino'[j].dotdot = ino[j].dotdot
                   /\ \/ ino'[j].itype = ino[j].itype /\ ino'[j].ents = ino[j].ents
                      \/ ino'[j].itype = "dead" /\ ino'[j].ents = NoEntries /\ ino'[j].gone

\* The links that the call is making stay the same.
PendSame(t) ==
  \A i \in Inums : PendOf(th'[t], OpOf(calls'[t]), i) <=> PendOf(th[t], OpOf(calls[t]), i)

Calm(t) == CalmTree /\ PendSame(t)

Quiet(t) == CoreStep(t) /\ RefExact(t) /\ Calm(t)

\* The inodes x differ from ino in locks and references, and in the inodes that
\* went with the last reference.
Touches(x) ==
  /\ x \in Nodes /\ SameNames(ino, x) /\ SameLinks(ino, x)
  /\ \A j \in Inums : ino[j].gone => x[j].gone
  /\ \A j \in Inums : x[j].gone => ino[j].gone \/ (ino[j].links = 0 /\ x[j].ref = 0 /\ ino[j].itype # "none")
  /\ \A j \in Inums : x[j].ref # ino[j].ref => ino[j].itype # "none"

\* What lets the call of t return, with the file f or nothing.
MayFinish(t, s, dead, f) ==
    /\ calls[t] # <<>> /\ Touches(s) /\ Finish(t, s, dead, f) /\ rlock' \in Tids
    /\ \A i \in dead : s[i].gone
    /\ f # Nil => OpOf(calls[t]) \in {"create", "open"} /\ ~ino[f].gone
    /\ \A i \in Inums : ~PendOf(th[t], OpOf(calls[t]), i)
    /\ \A i \in Inums : B(f = i) = N(th[t], OpOf(calls[t]), i) + (s[i].ref - ino[i].ref)

--------------------------------------------------------------------------------
(***************************************************************************)
(* namei                                                                   *)
(***************************************************************************)
\* The inode that a walk has a reference to.
Hand(r) == IF r.pc \in {"namei", "verify"} THEN iroot ELSE r.cur

--------------------------------------------------------------------------------
(***************************************************************************)
(* References that are given back without the inode's lock.                *)
(***************************************************************************)
Dec(s, i) == [s EXCEPT ![i].ref = @ - 1]

SetGone(s, i, b) == [s EXCEPT ![i].gone = b]

--------------------------------------------------------------------------------
(***************************************************************************)
(* The checks of a rename that holds all locks.                            *)
(***************************************************************************)
\* The locks of H are given up.
Loosen(y, H) == [i \in Inums |-> IF i \in H THEN iunlock(y, i)[i] ELSE y[i]]

\* The frame of a rename that has moved, or has been stopped.
MovedFrame(t) == [[th[t] EXCEPT !.chk = TRUE, !.next = "idle"] EXCEPT !.pc = "unlock"]

--------------------------------------------------------------------------------
(***************************************************************************)
(* Changes of the tree.                                                    *)
(***************************************************************************)
SetDotdot(s, i, p) == [s EXCEPT ![i].dotdot = p]

--------------------------------------------------------------------------------
(***************************************************************************)
(* The steps that change the tree.                                         *)
(***************************************************************************)
\* Links and names change together.
LinkExact(t) ==
  \A i \in Inums :
     ino'[i].links - Cardinality(NamesIn(ino', i)) - B(PendOf(th'[t], OpOf(calls'[t]), i)) =
     ino[i].links - Cardinality(NamesIn(ino, i)) - B(PendOf(th[t], OpOf(calls[t]), i))

\* An entry goes, and the link that it was.
RemovedEntry(s, x, p, n, c) ==
  /\ x \in Nodes /\ SetEntry(s, x, p, n, Nil) /\ \A j \in Inums : x[j].links = s[j].links - B(j = c)

\* What unlink does under the locks of the directory and the inode.
UnlinkedTo(t, s) ==
  LET p == th[t].opar
      c == th[t].ochild
      n == Op(t).old.name
  IN  \/ /\ Valid(ino, p, n, c) /\ do_dirchk(ino, c, Op(t).flag) /\ RemovedEntry(ino, s, p, n, c)
         /\ p \in Inums /\ c \in Inums /\ n \in Fns
      \/ SameNames(ino, s) /\ SameLinks(ino, s)

\* What a rename does under its locks, when nothing stops it.
MovedTo(t, x) ==
  LET r == th[t]
  IN  /\ \A j \in Inums : /\ x[j].itype = ino[j].itype /\ x[j].links = ino[j].links - B(j = r.nchild)
                          /\ x[j].dotdot = IF j = r.ochild /\ IsDir(ino, j) THEN r.npar ELSE ino[j].dotdot
      /\ \A j \in Inums, m \in Fns :
           x[j].ents[m] = IF j = r.npar /\ m = Op(t).new.name THEN r.ochild
                          ELSE IF j = r.opar /\ m = Op(t).old.name THEN Nil ELSE ino[j].ents[m]

--------------------------------------------------------------------------------
(***************************************************************************)
(* Every step.                                                             *)
(***************************************************************************)
\* What every step does to links and references.
Counts(t) == CoreStep(t) /\ (NoLeaks => RefExact(t))

--------------------------------------------------------------------------------
(***************************************************************************)
(* Theorems: types, and what is in use is kept.                            *)
(***************************************************************************)
\* What is in use is kept, whatever calls run and whatever the code gets wrong:
\* no count is less than the references that there are, or the names and the
\* links that are being made, and an inode that was freed has no name, and no
\* call and no open file has it; except the directory that _isancestor has come
\* to (fs.go:575), which may be gone.
KeptWhileUsed ==
  /\ RefsHeld /\ LinksHeld
  /\ \A i \in Inums : ino[i].gone =>
       /\ NamesOf(i) = {}
       /\ \A t \in Threads : HeldOn(t, i) = {} \/ (th[t].pc = "up" /\ th[t].cur = i)

--------------------------------------------------------------------------------
(***************************************************************************)
(* The locks that a call has.                                              *)
(***************************************************************************)
\* The inodes that unlink and rename lock together.
Needed(r, op) ==
  IF op = "unlink" THEN {r.opar, r.ochild} ELSE {r.opar, r.ochild, r.npar} \cup ({r.nchild} \ {Nil})

Makes(r, op) == r.pc = "child" /\ op = "mkdir"
Locked3 == {"lockall", "locked", "unlock"}

\* The inodes that the call has locked; HoldUp: _isancestor keeps the new
\* parent's lock until it leaves it.
Hold(r, op) == IF r.pc = "got" \/ Makes(r, op) THEN {r.cur} ELSE Range(r.defers)
HoldUp(r, op) == IF r.pc = "up" /\ r.cur = r.npar THEN {r.npar} ELSE Hold(r, op)

Orderly(r, op) ==
  /\ r.next = "idle"
  /\ r.pc \notin Locked3 => r.defers = <<>>
  /\ \A j, k \in DOMAIN r.defers : r.defers[j] = r.defers[k] => j = k
  /\ r.pc = "lockall" => r.tolock \cap Range(r.defers) = {}
  /\ r.pc = "locked" => r.tolock = {}
  /\ r.pc \in {"lockall", "locked"} => r.tolock \cup Range(r.defers) = Needed(r, op)
  /\ r.pc = "unlock" => Range(r.defers) \subseteq Needed(r, op) /\ r.refs = Found(r)
  /\ r.stg = 2 /\ op = "rename" => r.ochild # iroot
  /\ r.pc \notin {"undo", "refdown", "reflinks"} => r.dead = {}

LocksInv ==
  \A t \in Threads : /\ Orderly(th[t], OpOf(calls[t]))
                     /\ \A i \in Hold(th[t], OpOf(calls[t])) : ino[i].lock = t

\* A step unlocks U and locks L.
LockMap(t, U, L) ==
  \A j \in Inums : ino'[j].lock = IF j \in U THEN NoThread ELSE IF j \in L THEN t ELSE ino[j].lock

LockEffect(t, U, L) ==
  /\ U \cap L = {} /\ LockMap(t, U, L)
  /\ \A j \in U \cup L : ino[j].lock \in {t, NoThread} \/ ino[j].itype = "none"
  /\ Hold(th'[t], OpOf(calls'[t])) \subseteq (Hold(th[t], OpOf(calls[t])) \ U) \cup L
  /\ ~Strays(t) => (HoldUp(th[t], OpOf(calls[t])) \ U) \cup L \subseteq HoldUp(th'[t], OpOf(calls'[t]))

LockStep(t) ==
  /\ Orderly(th'[t], OpOf(calls'[t]))
  /\ \E U, L \in SUBSET Inums : LockEffect(t, U, L)

--------------------------------------------------------------------------------
(***************************************************************************)
(* What a step does to the call: who makes a directory, and how the walk   *)
(* of a rename from the new parent up to the root goes on.                 *)
(***************************************************************************)
Moves(r, op) == r.pc \in {"up", "look", "lockall", "locked"} /\ op = "rename"

WalkOn(t) ==
  LET o == th[t]
      r == th'[t]
  IN  /\ OpOf(calls[t]) = "rename" /\ r.ochild = o.ochild
      /\ \/ /\ o.pc = "got" /\ o.stg = 2 /\ IsDir(ino, o.ochild) => rlock' = t
            /\ o.pc = "got"
            /\ (r.pc = "up" /\ r.cur = r.npar) \/ (r.pc = "look" /\ r.npar = iroot)
         \/ /\ rlock' = rlock /\ r.npar = o.npar /\ o.pc = "up"
            /\ \/ r.pc = "look" /\ o.cur = iroot
               \/ r.pc = "up" /\ o.cur \notin {o.ochild, iroot} /\ r.cur = ino[o.cur].dotdot
         \/ /\ rlock' = rlock /\ r.npar = o.npar
            /\ o.pc \in {"look", "lockall"} /\ r.pc \in {"lockall", "locked"}

Keeps(t) ==
  /\ ~Makes(th[t], OpOf(calls[t])) /\ ~Makes(th'[t], OpOf(calls'[t]))
  /\ Moves(th'[t], OpOf(calls'[t])) => WalkOn(t)

Locks(t) == LockStep(t) /\ Keeps(t)

\* The call has locked the end of its walk, and unlocks it.
Unlocks(s, x, i) == \A j \in Inums : x[j].lock = IF j = i THEN NoThread ELSE s[j].lock

--------------------------------------------------------------------------------
(***************************************************************************)
(* The tree: the invariant of behaviours in which no rename tries again    *)
(* and nothing is entered in a directory that was removed.                 *)
(***************************************************************************)
NameOf(cs) == Head(cs).old.name

\* The directory p has the directory i.
DirEdge(s, p, i) == s[i].itype = "dir" /\ \E n \in Fns : s[p].ents[n] = i

\* No directories hang in each other.
Acyclic(s) ==
  \A S \in SUBSET Inums : (\A i \in S : \E p \in S : DirEdge(s, p, i)) => S = {}

\* What has no links has no entries.
Empties(s) == \A i \in Inums : s[i].links = 0 => \A n \in Fns : s[i].ents[n] = Nil

OneLink(s) == \A i \in Inums \ {iroot} : s[i].itype = "dir" => s[i].links <= 1

\* As many links as there are names, and names that link(2) is making.
Counted(s, f, g) ==
  \A i \in Inums \ {iroot} : Cardinality(NamesIn(s, i)) + Cardinality(PendSet(f, g, i)) = s[i].links

\* The call makes the directory i.
MakesIt(r, cs, i) == Makes(r, OpOf(cs)) /\ r.ochild = i

Dotted(s, f, g) ==
  \A p, i \in Inums : DirEdge(s, p, i) => s[i].dotdot = p \/ \E u \in Threads : MakesIt(f[u], g[u], i)

\* A new directory has its name, and not yet its `..'.
MakingOK(s, r, cs) ==
  Makes(r, OpOf(cs)) => s[r.cur].ents[NameOf(cs)] = r.ochild /\ s[r.ochild].dotdot = Nil

\* The directories P that _isancestor has passed: their parents are among them,
\* and the one that is renamed is not.
Here(r) == IF r.pc = "up" THEN {r.cur} ELSE {}
Walked(s, r, P) ==
  /\ r.npar \in P /\ Here(r) \subseteq P
  /\ \A i \in P \ Here(r) : i # r.ochild /\ (i # iroot => s[i].dotdot \in P)
WalkOK(s, r, op, rl, t) ==
  Moves(r, op) /\ s[r.ochild].itype = "dir" => rl = t /\ \E P \in SUBSET Inums : Walked(s, r, P)

TreeInv ==
  /\ LocksInv /\ Acyclic(ino) /\ Empties(ino) /\ OneLink(ino) /\ Counted(ino, th, calls) /\ Dotted(ino, th, calls)
  /\ \A t \in Threads : MakingOK(ino, th[t], calls[t]) /\ WalkOK(ino, th[t], OpOf(calls[t]), rlock, t)

\* Entries, of a step that leaves them all.
SameEnts(s, x) == \A j \in Inums : \A n \in Fns : x[j].ents[n] = s[j].ents[n]

--------------------------------------------------------------------------------
(***************************************************************************)
(* Steps that give no directory a new name.                                *)
(***************************************************************************)
\* _renamelock is taken and given back by the thread that has it.
RlockStep(t) ==
  rlock' = rlock \/ (rlock = NoThread /\ rlock' = t) \/ (rlock = t /\ rlock' = NoThread)

FewerEdges(t) ==
  /\ \A p, i \in Inums : DirEdge(ino', p, i) => DirEdge(ino, p, i)
  /\ \A i \in Inums : ino'[i].itype = "dir" => ino[i].itype = "dir" /\ ino'[i].links <= ino[i].links
  /\ \A i \in Inums : ino'[i].dotdot = ino[i].dotdot
  /\ \A p \in Inums, n \in Fns : ino'[p].ents[n] # ino[p].ents[n] => p \in Hold(th[t], OpOf(calls[t]))

--------------------------------------------------------------------------------
(***************************************************************************)
(* Inodes without links: the last reference goes with a call that owes to  *)
(* free the inode.                                                         *)
(***************************************************************************)
Lost(s, i) == s[i].itype \in {"file", "dir"} /\ s[i].links = 0
Left(s, i) == Lost(s, i) /\ s[i].ref = 0
Owes(r, i) == (r.pc = "reflinks" /\ Head(r.refs) = i) \/ i \in r.dead
Owers == {"undo", "refdown", "reflinks"}

\* unlink has two inodes in its hands.
Apart(r, op) == r.pc \in {"lockall", "locked"} /\ op = "unlink" => r.opar # r.ochild

FreeStep(t) ==
  /\ \A i \in Inums : Left(ino', i) => Owes(th'[t], i) \/ (Left(ino, i) /\ ~Owes(th[t], i))
  /\ Apart(th'[t], OpOf(calls'[t]))

\* A step of t that is not one of the wrong ones.
Careful(t) == th'[t] # th[t] => ~Strays(t) /\ ~Abandons(t)

\* The inodes x have the references of s but for one to d, and no more of them
\* are without links.
Less(s, x, d) ==
  \A j \in Inums : x[j].ref >= s[j].ref - B(j = d) /\ (Lost(x, j) => Lost(s, j))

--------------------------------------------------------------------------------
(***************************************************************************)
(* Every lock has a call that holds it, and every inode that has neither   *)
(* links nor references a call that frees it.                              *)
(***************************************************************************)
Renaming == {"up", "look", "lockall", "locked", "unlock", "refdown", "reflinks"}

LocksKnown ==
  \A i \in Inums : ino[i].lock # NoThread =>
    ino[i].lock \in Threads /\ i \in HoldUp(th[ino[i].lock], OpOf(calls[ino[i].lock]))
RlockKnown ==
  rlock # NoThread => rlock \in Threads /\ th[rlock].pc \in Renaming /\ OpOf(calls[rlock]) = "rename"
UpKept == \A t \in Threads : th[t].pc = "up" => ~ino[th[t].cur].gone
AllApart == \A t \in Threads : Apart(th[t], OpOf(calls[t]))
AllOwed == \A i \in Inums : Left(ino, i) => \E t \in Threads : Owes(th[t], i)

FreeInv == LocksKnown /\ RlockKnown /\ UpKept /\ AllApart /\ AllOwed

\* What a step does to the locks, and where a rename is after it.
Walks(t) == Moves(th'[t], OpOf(calls'[t])) => WalkOn(t) \/ th' = th
LockWalk(t) == LockStep(t) /\ Walks(t)
================================================================================
