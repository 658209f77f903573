--------------------------------- MODULE Names ---------------------------------
(***************************************************************************)
(* The name space operations of the file system: fs/fs.go (Fs_unlink,      *)
(* Fs_rename, Fs_link, Fs_mkdir, Fs_open, Fs_close, namei) over            *)
(* fs/inode.go (imemnode_t: lock, links, reference count) and fs/dir.go    *)
(* (entries).  Every call is a sequence of critical sections: it looks up  *)
(* inodes, gives their locks up, takes the locks of all of them in inode   *)
(* order, and looks again.  A step is what a thread does between two       *)
(* acquisitions of a lock, or, where the code touches an inode without its *)
(* lock (the lock-free lookup, Refdown of a returned reference), one       *)
(* access.  An inode stands for an imemnode_t and its number: a number is  *)
(* not used again, the directory cache may miss at any time, paths start   *)
(* at the root, whose number is 1 here, and reservations of memory and     *)
(* blocks never fail.                                                      *)
(***************************************************************************)
EXTENDS Integers, Sequences, FiniteSets, FiniteSetsExt, Functions

CONSTANTS Threads, NoThread,  \* the callers of the file system
          Inums,              \* the inodes, iroot and Nil (0) apart from the others
          Fns,                \* the names of directory entries
          Tree,               \* the inodes of the file system at the start
          Programs            \* the calls of every thread, one function per scenario

iroot == 1
Nil == 0

VARIABLES ino,    \* the inodes: imemnode_t and the entries it leads to
          th,     \* the threads: where they are and what they hold
          rlock,  \* the holder of _renamelock
          calls,  \* the calls that are still to be made
          fatal   \* the kernel has panicked

vars == <<ino, th, rlock, calls, fatal>>

(***************************************************************************)
(* A call: the operation, its path(s) as bpath.Sdirname leaves them, and a *)
(* flag (unlink: rmdir; create: O_EXCL).                                   *)
(***************************************************************************)
Path == [dirs : Seq(Fns), name : Fns]
Call == [op : {"create", "open", "close", "mkdir", "unlink", "link", "rename"},
         old : Path, new : Path, flag : BOOLEAN]

NoEntries == [n \in Fns |-> Nil]

\* fresh: the entries that have not been looked up since they were made, whose
\* icdent_t has no imemnode_t yet.
Inode(itype, ents, dotdot) ==
  [itype |-> itype, links |-> 1, ref |-> 0, lock |-> NoThread, gone |-> FALSE,
   orphan |-> FALSE, ents |-> ents, fresh |-> {}, dotdot |-> dotdot]

Unused == [Inode("none", NoEntries, Nil) EXCEPT !.links = 0]

Idle == [pc |-> "idle", stg |-> 1, cur |-> Nil, rest |-> <<>>, opar |-> Nil,
         ochild |-> Nil, npar |-> Nil, nchild |-> Nil, tolock |-> {},
         defers |-> <<>>, refs |-> <<>>, chk |-> TRUE, dead |-> {}, next |-> "idle",
         file |-> Nil]

IsDir(s, i) == s[i].itype = "dir"
Entry(s, i, n) == IF IsDir(s, i) THEN s[i].ents[n] ELSE Nil

\* The inodes of s that are in use, and the entries that lead to i.
LiveIn(s) == {i \in DOMAIN s : s[i].itype \in {"file", "dir"}}
NamesIn(s, i) == {e \in LiveIn(s) \X Fns : Entry(s, e[1], e[2]) = i}

\* A file system as it is mounted: nobody uses it yet, an inode has as many
\* names as links, a directory one, in its `..', and all hang from the root.
Mounted(s) ==
  /\ DOMAIN s \subseteq Inums /\ iroot \in DOMAIN s /\ IsDir(s, iroot)
  /\ \A i \in DOMAIN s :
       /\ s[i].itype \in {"file", "dir"} /\ s[i].links \in Nat \ {0}
       /\ s[i].ents \in [Fns -> (DOMAIN s \ {iroot}) \cup {Nil}]
       /\ s[i].dotdot \in DOMAIN s \cup {Nil}
       /\ s[i] = [Inode(s[i].itype, s[i].ents, s[i].dotdot) EXCEPT !.links = s[i].links]
       /\ s[i].itype = "file" => s[i].ents = NoEntries /\ s[i].dotdot = Nil
       /\ i # iroot => Cardinality(NamesIn(s, i)) = s[i].links
       /\ i # iroot /\ IsDir(s, i) => /\ s[i].links = 1 /\ s[i].dotdot # Nil
                                     /\ \E n \in Fns : Entry(s, s[i].dotdot, n) = i
  /\ \A S \in SUBSET {i \in DOMAIN s : IsDir(s, i) /\ i # iroot} :
       S # {} => \E i \in S : s[i].dotdot \notin S

\* A thread has one file open at a time: it closes what it opens.
Tidy(cs) ==
  \A k \in DOMAIN cs : cs[k].op \in {"create", "open"} => k < Len(cs) /\ cs[k + 1].op = "close"

ASSUME NamesAssumption ==
  /\ IsFiniteSet(Threads) /\ NoThread \notin Threads
  /\ IsFiniteSet(Inums) /\ Inums \subseteq Nat \ {Nil} /\ iroot \in Inums
  /\ IsFiniteSet(Fns)
  /\ Mounted(Tree)
  /\ Programs \subseteq [Threads -> Seq(Call)] /\ \A p \in Programs, t \in Threads : Tidy(p[t])

Init ==
  /\ ino = [i \in Inums |-> IF i \in DOMAIN Tree THEN Tree[i] ELSE Unused]
  /\ th = [t \in Threads |-> Idle]
  /\ rlock = NoThread
  /\ calls \in Programs
  /\ fatal = FALSE

--------------------------------------------------------------------------------
(***************************************************************************)
(* One inode: what the methods of imemnode_t do to the inodes s.           *)
(***************************************************************************)
ilock(s, i, t) == [s EXCEPT ![i].lock = t]
iunlock(s, i) == [s EXCEPT ![i].lock = NoThread]
Refup(s, i) == [s EXCEPT ![i].ref = @ + 1]

\* Faulty variant: every reference to an inode without links is the last one.
LastRef_links(s, i) == s[i].links = 0

\* The last reference to an inode without links takes it out of the inode
\* cache; the caller of Refdown has to free it.
LastRef(s, i) == s[i].ref = 1 /\ s[i].links = 0
Refdown(s, i) == [s EXCEPT ![i].ref = @ - 1, ![i].gone = @ \/ LastRef(s, i)]
\* Faulty variant: the reference is kept.
iunlock_keep(s, i) == iunlock(s, i)

iunlock_refdown(s, i) == iunlock(Refdown(s, i), i)

_linkup(s, i) == [s EXCEPT ![i].links = @ + 1]
_linkdown(s, i) ==
  [s EXCEPT ![i].links = @ - 1, ![i].orphan = @ \/ s[i].links <= 1]

do_insert(s, i, n, c) == [s EXCEPT ![i].ents[n] = c, ![i].fresh = @ \cup {n}]
do_unlink(s, i, n) == [s EXCEPT ![i].ents[n] = Nil, ![i].fresh = @ \ {n}]

\* ilookup of an entry that is there, under the lock of i: a reference to what
\* it leads to, which the entry then knows.
ilookup(s, i, n) == [Refup(s, s[i].ents[n]) EXCEPT ![i].fresh = @ \ {n}]

\* ilookup_validate: whether the entry still leads to c.  Where the entry does
\* not know its inode, that is fetched, and the reference is kept.
Valid(s, i, n, c) == Entry(s, i, n) = c
ilookup_validate(s, i, n) == IF n \in s[i].fresh THEN ilookup(s, i, n) ELSE s

\* do_dirchk finds nothing against removing i.
do_dirchk(s, i, wantdir) ==
  /\ wantdir = IsDir(s, i)
  /\ wantdir => s[i].ents = NoEntries

\* ifree of the inodes of dead: they and their blocks are free, and so are their
\* orphan bits.
ifree(s, dead) ==
  [i \in DOMAIN s |->
     IF i \in dead
     THEN [s[i] EXCEPT !.itype = "dead", !.orphan = FALSE, !.ents = NoEntries, !.fresh = {}]
     ELSE s[i]]

\* Ialloc takes an inode that is not in use; icreate gives it one link and the
\* caller a reference.
Ialloc(s) == CHOOSE i \in Inums : s[i].itype = "none" /\ \A j \in Inums : s[j].itype = "none" => i <= j
icreate(s, p, n, itype) ==
  LET c == Ialloc(s)
  IN  do_insert([s EXCEPT ![c] = [Inode(itype, NoEntries, Nil) EXCEPT !.ref = 1]], p, n, c)

CanAlloc == \E i \in Inums : ino[i].itype = "none"

--------------------------------------------------------------------------------
(***************************************************************************)
(* Steps of a thread.                                                      *)
(***************************************************************************)
At(t, pc) == ~fatal /\ th[t].pc = pc
Op(t) == Head(calls[t])
AtOp(t, op, pc) == At(t, pc) /\ Op(t).op = op

\* The thread goes on at pc with the locals of r.
Goto(t, r, pc) == th' = [th EXCEPT ![t] = [r EXCEPT !.pc = pc]]

\* The call returns: the inodes of dead are freed; the thread keeps its open
\* file and nothing else.
Finish(t, s, dead, file) ==
  /\ ino' = ifree(s, dead)
  /\ th' = [th EXCEPT ![t] = [Idle EXCEPT !.file = file]]
  /\ calls' = [calls EXCEPT ![t] = Tail(@)]
  /\ UNCHANGED fatal
Return(t, s, dead) == Finish(t, s, dead, th[t].file) /\ UNCHANGED rlock

Panic == fatal' = TRUE /\ UNCHANGED <<ino, th, rlock, calls>>

\* The inodes of is that this step takes out of the inode cache.
Dead(s, is) == {i \in is : s[i].gone /\ ~ino[i].gone}

\* The components that the namei of this stage of the call resolves.
Whole(p) == Append(p.dirs, p.name)
Comps(t, stg) ==
  IF stg = 2 THEN Op(t).new.dirs
  ELSE IF Op(t).op \in {"open", "link"} THEN Whole(Op(t).old) ELSE Op(t).old.dirs

\* The thread t enters namei for the stage stg of its call.
EnterNamei(t, r, s, stg) ==
  /\ ino' = Refup(s, iroot)
  /\ Goto(t, [r EXCEPT !.stg = stg, !.cur = iroot, !.rest = Comps(t, stg)], "namei")

Begin(t) ==
  /\ At(t, "idle") /\ calls[t] # <<>>
  /\ Op(t).op # "close"
  /\ EnterNamei(t, th[t], ino, 1)
  /\ UNCHANGED <<rlock, calls, fatal>>

\* ilookup_lockfree: the next component is found in the directory cache; the
\* last one has to be verified.
NameiFast(t) ==
  /\ At(t, "namei") /\ th[t].rest # <<>>
  /\ Head(th[t].rest) \notin ino[th[t].cur].fresh
  /\ LET n == Entry(ino, th[t].cur, Head(th[t].rest))
     IN  /\ n # Nil
         /\ Goto(t, [th[t] EXCEPT !.cur = n, !.rest = Tail(@)],
                 IF Len(th[t].rest) = 1 THEN "verify" ELSE "namei")
  /\ UNCHANGED <<ino, rlock, calls, fatal>>

\* The directory cache does not have the next component, or the path is empty:
\* the walk starts again with locks.
NameiMiss(t) ==
  /\ At(t, "namei")
  /\ Goto(t, [th[t] EXCEPT !.cur = iroot, !.rest = Comps(t, th[t].stg)], "slow")
  /\ UNCHANGED <<ino, rlock, calls, fatal>>

\* ilookup_lockfree locks the inode that it found before it takes a reference,
\* and gives up when it has been unlinked or evicted since.
Verified(i) == ino[i].links # 0 /\ ~ino[i].gone
NameiVerify(t) ==
  LET i == th[t].cur
  IN  /\ At(t, "verify") /\ ino[i].lock = NoThread
      /\ \/ /\ Verified(i)
            /\ ino' = Refdown(ilock(Refup(ino, i), i, t), iroot)
            /\ Goto(t, th[t], "got")
         \/ /\ ~Verified(i)
            /\ Goto(t, [th[t] EXCEPT !.cur = iroot, !.rest = Comps(t, th[t].stg)], "slow")
            /\ UNCHANGED ino
      /\ UNCHANGED <<rlock, calls, fatal>>

\* What the call does when namei fails: the inodes that it has found before are
\* given back.
NameiFailed(t, s, dead) ==
  CASE th[t].stg = 1 -> Return(t, s, dead)
    [] th[t].stg = 2 /\ Op(t).op = "rename" ->
         /\ ino' = s
         /\ Goto(t, [th[t] EXCEPT !.dead = dead, !.refs = <<th[t].opar, th[t].ochild>>], "refdown")
         /\ UNCHANGED <<rlock, calls, fatal>>
    [] OTHER ->
         /\ ino' = s
         /\ Goto(t, [th[t] EXCEPT !.dead = dead], "undo")
         /\ UNCHANGED <<rlock, calls, fatal>>

\* One component of the walk with locks: the directory is locked, looked into
\* and unlocked; a directory without links has no entries for namei.
NameiSlow(t) ==
  LET i == th[t].cur
      n == IF ino[i].links = 0 THEN Nil ELSE Entry(ino, i, Head(th[t].rest))
      s == Refdown(IF n = Nil THEN ino ELSE ilookup(ino, i, Head(th[t].rest)), i)
  IN  /\ At(t, "slow") /\ th[t].rest # <<>> /\ ino[i].lock = NoThread
      /\ \/ /\ n # Nil
            /\ ino' = s
            /\ Goto(t, [th[t] EXCEPT !.cur = n, !.rest = Tail(@)], "slow")
            /\ UNCHANGED <<rlock, calls, fatal>>
         \/ n = Nil /\ NameiFailed(t, s, Dead(s, {i}))

\* The end of the walk with locks: whatever the last component led to is locked.
NameiLock(t) ==
  /\ At(t, "slow") /\ th[t].rest = <<>> /\ ino[th[t].cur].lock = NoThread
  /\ ino' = ilock(ino, th[t].cur, t)
  /\ Goto(t, th[t], "got")
  /\ UNCHANGED <<rlock, calls, fatal>>

--------------------------------------------------------------------------------
(***************************************************************************)
(* open and close                                                          *)
(***************************************************************************)
\* The locked inode i becomes an open file: the reference that the lookup took
\* is the file's.
Opened(t, i) == Finish(t, iunlock(ino, i), {}, i) /\ UNCHANGED rlock

Open(t) == AtOp(t, "open", "got") /\ Opened(t, th[t].cur)

\* open with O_CREAT, in the locked directory: the entry is there, or an inode
\* is created for it; the directory is given back before the file is locked.
\* Whether the directory is dead by then is not checked.
Create(t) ==
  LET p == th[t].cur
      c == Entry(ino, p, Op(t).old.name)
      Next_(s, i) ==
        /\ ino' = iunlock_refdown(s, p)
        /\ Goto(t, [th[t] EXCEPT !.ochild = i, !.chk = (c = Nil)], "child")
        /\ UNCHANGED <<rlock, calls, fatal>>
  IN  /\ AtOp(t, "create", "got")
      /\ \/ c # Nil /\ Next_(ilookup(ino, p, Op(t).old.name), c)
         \/ c = Nil /\ IsDir(ino, p) /\ CanAlloc
            /\ Next_(icreate(ino, p, Op(t).old.name, "file"), Ialloc(ino))
         \/ c = Nil /\ ~(IsDir(ino, p) /\ CanAlloc)
            /\ Return(t, iunlock_refdown(ino, p), {})

\* chk: the file is new.  O_EXCL refuses an old one, O_CREAT a directory.
CreateOpen(t) ==
  LET c == th[t].ochild
      ok == (th[t].chk \/ ~Op(t).flag) /\ ~IsDir(ino, c)
  IN  /\ AtOp(t, "create", "child") /\ ino[c].lock = NoThread
      /\ IF ok THEN Opened(t, c) ELSE Return(t, Refdown(ino, c), {})

\* The open file is locked and given back; the last reference frees it.
Fs_close(t) ==
  LET i == th[t].file
      s == Refdown(ino, i)
  IN  /\ At(t, "idle") /\ calls[t] # <<>> /\ Op(t).op = "close"
      /\ IF i = Nil THEN Return(t, ino, {})
         ELSE /\ ino[i].lock = NoThread
              /\ Finish(t, s, Dead(s, {i}), Nil) /\ UNCHANGED rlock

--------------------------------------------------------------------------------
(***************************************************************************)
(* mkdir, unlink and link                                                  *)
(***************************************************************************)
\* The caller gives the references rs back once the call is over.
GiveBack(t, s, r, rs, chk) ==
  /\ ino' = s
  /\ Goto(t, [r EXCEPT !.refs = rs, !.chk = chk], "refdown")
  /\ UNCHANGED <<rlock, calls, fatal>>

\* The entry comes first; a name that is taken leaves the reference that the
\* lookup took.
Mkdir(t) ==
  LET p == th[t].cur
      c == Entry(ino, p, Op(t).old.name)
  IN  /\ AtOp(t, "mkdir", "got")
      /\ \/ /\ c = Nil /\ IsDir(ino, p) /\ CanAlloc
            /\ ino' = icreate(ino, p, Op(t).old.name, "dir")
            /\ Goto(t, [th[t] EXCEPT !.ochild = Ialloc(ino)], "child")
            /\ UNCHANGED <<rlock, calls, fatal>>
         \/ /\ c # Nil \/ ~IsDir(ino, p) \/ ~CanAlloc
            /\ GiveBack(t, iunlock(IF c = Nil THEN ino ELSE ilookup(ino, p, Op(t).old.name), p), th[t], <<p>>, TRUE)

\* The new directory is locked and gets its `.' and `..'.
MkdirDots(t) ==
  LET c == th[t].ochild
      p == th[t].cur
  IN  /\ AtOp(t, "mkdir", "child") /\ ino[c].lock = NoThread
      /\ GiveBack(t, iunlock([ino EXCEPT ![c].dotdot = p], p), th[t], <<p, c>>, TRUE)

\* unlink, rmdir: the child is looked up, then both are locked in order.
Unlink(t) ==
  LET p == th[t].cur
      c == Entry(ino, p, Op(t).old.name)
  IN  /\ AtOp(t, "unlink", "got")
      /\ \/ /\ c # Nil
            /\ ino' = iunlock(ilookup(ino, p, Op(t).old.name), p)
            /\ Goto(t, [th[t] EXCEPT !.opar = p, !.ochild = c, !.tolock = {p, c}], "lockall")
            /\ UNCHANGED <<rlock, calls, fatal>>
         \/ c = Nil /\ Return(t, iunlock_refdown(ino, p), {})

\* Faulty variant: unlink locks the child before the parent.
LockAll_child(t) ==
  LET S == th[t].tolock
      i == IF Op(t).op = "unlink" THEN Max(S) ELSE Min(S)
  IN  /\ At(t, "lockall") /\ ino[i].lock = NoThread
      /\ ino' = ilock(ino, i, t)
      /\ Goto(t, [th[t] EXCEPT !.tolock = @ \ {i}, !.defers = Append(@, i)],
              IF S = {i} THEN "locked" ELSE "lockall")
      /\ UNCHANGED <<rlock, calls, fatal>>

\* iref_lockall: every inode once, in the order of their numbers.
LockAll(t) ==
  LET i == Min(th[t].tolock)
  IN  /\ At(t, "lockall") /\ ino[i].lock = NoThread
      /\ ino' = ilock(ino, i, t)
      /\ Goto(t, [th[t] EXCEPT !.tolock = @ \ {i}, !.defers = Append(@, i)],
              IF th[t].tolock = {i} THEN "locked" ELSE "lockall")
      /\ UNCHANGED <<rlock, calls, fatal>>

\* The entry goes if it still leads to the child and the child may go; both are
\* given back, and a dead child is freed.
Unlinked(t) ==
  LET p == th[t].opar
      c == th[t].ochild
      n == Op(t).old.name
      v == ilookup_validate(ino, p, n)
      ok == Valid(ino, p, n, c) /\ do_dirchk(ino, c, Op(t).flag)
      s == iunlock_refdown(IF ok THEN _linkdown(do_unlink(v, p, n), c) ELSE v, c)
  IN  /\ AtOp(t, "unlink", "locked")
      /\ Return(t, iunlock_refdown(s, p), Dead(s, {c}))

\* link: the file has its new link before it has the new name.  Giving back an
\* inode that is not a file and dead frees nothing: a nil inode is freed.
Link(t) ==
  LET i == th[t].cur
      s == iunlock_refdown(ino, i)
  IN  /\ AtOp(t, "link", "got") /\ th[t].stg = 1
      /\ \/ /\ ~IsDir(ino, i)
            /\ EnterNamei(t, [th[t] EXCEPT !.ochild = i], iunlock(_linkup(ino, i), i), 2)
            /\ UNCHANGED <<rlock, calls, fatal>>
         \/ IsDir(ino, i) /\ IF Dead(s, {i}) = {} THEN Return(t, s, {}) ELSE Panic

LinkInsert(t) ==
  LET p == th[t].cur
      n == Op(t).new.name
      i == th[t].ochild
  IN  /\ AtOp(t, "link", "got") /\ th[t].stg = 2
      /\ \/ /\ IsDir(ino, p) /\ ino[p].ents[n] = Nil
            /\ GiveBack(t, iunlock_refdown(do_insert(ino, p, n, i), p), th[t], <<i>>, FALSE)
         \/ /\ ~IsDir(ino, p) \/ ino[p].ents[n] # Nil
            /\ ino' = iunlock_refdown(ino, p)
            /\ Goto(t, th[t], "undo")
            /\ UNCHANGED <<rlock, calls, fatal>>

LinkUndo(t) ==
  LET i == th[t].ochild
      s == Refdown(_linkdown(ino, i), i)
  IN  /\ At(t, "undo") /\ ino[i].lock = NoThread
      /\ Return(t, s, Dead(s, {i}) \cup th[t].dead)

--------------------------------------------------------------------------------
(***************************************************************************)
(* rename                                                                  *)
(***************************************************************************)
RenameOld(t) ==
  LET p == th[t].cur
      c == Entry(ino, p, Op(t).old.name)
  IN  /\ AtOp(t, "rename", "got") /\ th[t].stg = 1
      /\ \/ /\ c # Nil
            /\ EnterNamei(t, [th[t] EXCEPT !.opar = p, !.ochild = c], iunlock(ilookup(ino, p, Op(t).old.name), p), 2)
            /\ UNCHANGED <<rlock, calls, fatal>>
         \/ c = Nil /\ Return(t, iunlock_refdown(ino, p), {})

\* Faulty variant: renames of directories are not serialized.
RenameLock_none(t) ==
  LET p == th[t].cur
  IN  /\ AtOp(t, "rename", "got") /\ th[t].stg = 2
      /\ ino' = IF p = iroot THEN iunlock(ino, p) ELSE Refup(ino, p)
      /\ Goto(t, [th[t] EXCEPT !.npar = p], IF p = iroot THEN "look" ELSE "up")
      /\ UNCHANGED <<rlock, calls, fatal>>

\* A directory is renamed under _renamelock, which is taken with the new
\* parent locked; _isancestor gives the new parent's lock up.
RenameLock(t) ==
  LET p == th[t].cur
  IN  /\ AtOp(t, "rename", "got") /\ th[t].stg = 2
      /\ IF IsDir(ino, th[t].ochild)
         THEN rlock = NoThread /\ rlock' = t
         ELSE UNCHANGED rlock
      /\ ino' = IF p = iroot THEN iunlock(ino, p) ELSE Refup(ino, p)
      /\ Goto(t, [th[t] EXCEPT !.npar = p], IF p = iroot THEN "look" ELSE "up")
      /\ UNCHANGED <<calls, fatal>>

\* The inodes that a rename has found.
Triple(t) == <<th[t].opar, th[t].ochild, th[t].npar>>

\* _isancestor at the directory cur: the old child is an ancestor of the new
\* parent.  The new parent stays locked if it is the old child.
IsAncestor(t) ==
  LET h == th[t].cur
  IN  /\ At(t, "up") /\ h = th[t].ochild
      /\ GiveBack(t, Refdown(ino, h), th[t], Triple(t), FALSE)

\* _isancestor goes one directory up, with the lock of the one it leaves.
Ancestor(t) ==
  LET h == th[t].cur
      up == ino[h].dotdot
      s == iunlock_refdown(Refup(ino, up), h)
  IN  /\ At(t, "up") /\ h \notin {th[t].ochild, iroot}
      /\ ino[h].lock = IF h = th[t].npar THEN t ELSE NoThread
      /\ IF up = Nil THEN GiveBack(t, iunlock_refdown(ino, h), th[t], Triple(t), FALSE)
         ELSE IF Dead(s, {h}) # {} THEN Panic
         ELSE /\ ino' = s
              /\ Goto(t, [th[t] EXCEPT !.cur = up], "up")
              /\ UNCHANGED <<rlock, calls, fatal>>

AncestorRoot(t) ==
  /\ At(t, "up") /\ th[t].cur = iroot
  /\ ino' = Refdown(ino, iroot)
  /\ Goto(t, th[t], "look")
  /\ UNCHANGED <<rlock, calls, fatal>>

\* The new name is looked up under the new parent's lock; then the inodes
\* found, two to four of them, are locked together.
RenameLook(t) ==
  LET r == th[t]
      c == Entry(ino, r.npar, Op(t).new.name)
      found == Triple(t) \o (IF c = Nil THEN <<>> ELSE <<c>>)
  IN  /\ At(t, "look") /\ ino[r.npar].lock = NoThread
      /\ ino' = IF c = Nil THEN ino ELSE ilookup(ino, r.npar, Op(t).new.name)
      /\ Goto(t, [r EXCEPT !.nchild = c, !.refs = found, !.tolock = Range(found)], "lockall")
      /\ UNCHANGED <<rlock, calls, fatal>>

\* The tree has changed under the locks: the old name is gone, and the call
\* fails; or the new name was made or leads elsewhere, and the lookup is done
\* again.  A new name that went is as good as the one that was found.
OldGone(t) == ~Valid(ino, th[t].opar, Op(t).old.name, th[t].ochild)
NewChanged(t) ==
  LET c == Entry(ino, th[t].npar, Op(t).new.name)
  IN  c # Nil /\ c # th[t].nchild

\* The inodes after these checks; a name that is new is looked up, and the
\* reference is given back.
Checked(t) ==
  LET r == th[t]
      n == Op(t).new.name
      s == ilookup_validate(ino, r.opar, Op(t).old.name)
  IN  IF OldGone(t) THEN s
      ELSE IF r.nchild # Nil THEN ilookup_validate(s, r.npar, n)
      ELSE [s EXCEPT ![r.npar].fresh = @ \ {n}]

\* The locks are given up for the next try; their deferred unlocks stay.
RenameRetry(t) ==
  LET r == th[t]
      held == IF r.nchild = Nil THEN {r.opar, r.ochild, r.npar}
              ELSE {r.opar, r.ochild, r.npar, r.nchild}
  IN  /\ AtOp(t, "rename", "locked") /\ ~OldGone(t) /\ NewChanged(t)
      /\ ino' = [i \in Inums |-> IF i \in held THEN iunlock(Checked(t), i)[i] ELSE Checked(t)[i]]
      /\ Goto(t, [r EXCEPT !.refs = IF r.nchild = Nil THEN <<>> ELSE <<r.nchild>>,
                           !.chk = FALSE, !.nchild = Nil, !.next = "look"], "refdown")
      /\ UNCHANGED <<rlock, calls, fatal>>

\* The move, with everything locked: an inode of the new name is unlinked, the
\* entry is moved, and the `..' of a directory changes.
RemoveNew(s, t) ==
  IF th[t].nchild = Nil THEN s
  ELSE _linkdown(do_unlink(s, th[t].npar, Op(t).new.name), th[t].nchild)
MoveOld(s, t) ==
  LET r == th[t]
      x == do_insert(do_unlink(s, r.opar, Op(t).old.name), r.npar, Op(t).new.name, r.ochild)
  IN  IF IsDir(s, r.ochild) THEN [x EXCEPT ![r.ochild].dotdot = r.npar] ELSE x

\* What stops the move: the old name went; both names lead to one inode; the
\* inode of the new name cannot go, or went.
Stopped(t) ==
  LET r == th[t]
  IN  \/ OldGone(t)
      \/ /\ r.nchild # Nil
         /\ \/ r.nchild = r.ochild
            \/ ~do_dirchk(ino, r.nchild, IsDir(ino, r.ochild))
            \/ ~Valid(ino, r.npar, Op(t).new.name, r.nchild)

Rename(t) ==
  /\ AtOp(t, "rename", "locked") /\ (OldGone(t) \/ ~NewChanged(t))
  /\ ino' = IF Stopped(t) THEN Checked(t) ELSE MoveOld(RemoveNew(Checked(t), t), t)
  /\ Goto(t, [th[t] EXCEPT !.chk = TRUE, !.next = "idle"], "unlock")
  /\ UNCHANGED <<rlock, calls, fatal>>

\* The deferred unlocks, the last one first: a mutex that nobody holds must not
\* be unlocked, and one that somebody else holds is.
RenameUnlock(t) ==
  LET d == th[t].defers
      i == d[Len(d)]
      last == Len(d) = 1
  IN  /\ At(t, "unlock")
      /\ IF ino[i].lock = NoThread THEN Panic
         ELSE /\ ino' = iunlock(ino, i)
              /\ rlock' = IF rlock = t /\ last THEN NoThread ELSE rlock
              /\ Goto(t, [th[t] EXCEPT !.defers = SubSeq(d, 1, Len(d) - 1)],
                      IF last THEN "refdown" ELSE "unlock")
              /\ UNCHANGED <<calls, fatal>>

--------------------------------------------------------------------------------
(***************************************************************************)
(* Refdown of inodes that are not locked: the count is decremented, then   *)
(* the links are read.                                                     *)
(***************************************************************************)
RefDec(t) ==
  LET i == Head(th[t].refs)
      last == ino[i].ref = 1
  IN  /\ At(t, "refdown") /\ th[t].refs # <<>>
      /\ ino' = [ino EXCEPT ![i].ref = @ - 1]
      /\ Goto(t, [th[t] EXCEPT !.refs = IF last THEN @ ELSE Tail(@)],
              IF last THEN "reflinks" ELSE "refdown")
      /\ UNCHANGED <<rlock, calls, fatal>>

\* An inode without links is taken out of the cache, which only works if no
\* reference was taken meanwhile; the dead ones are freed where the caller
\* checks.
RefLinks(t) ==
  LET i == Head(th[t].refs)
      dead == ino[i].links = 0
  IN  /\ At(t, "reflinks")
      /\ IF dead /\ (ino[i].ref # 0 \/ ino[i].gone) THEN Panic
         ELSE /\ ino' = [ino EXCEPT ![i].gone = @ \/ dead]
              /\ Goto(t, [th[t] EXCEPT !.refs = Tail(@),
                                       !.dead = IF dead /\ th[t].chk THEN @ \cup {i} ELSE @],
                      "refdown")
              /\ UNCHANGED <<rlock, calls, fatal>>

\* All references are given back: rename looks again, or the call returns.
RefDone(t) ==
  /\ At(t, "refdown") /\ th[t].refs = <<>>
  /\ \/ /\ th[t].next = "look"
        /\ Goto(t, [th[t] EXCEPT !.chk = TRUE], "look")
        /\ UNCHANGED <<ino, rlock, calls, fatal>>
     \/ /\ th[t].next = "idle"
        /\ Finish(t, ino, th[t].dead, th[t].file)
        /\ rlock' = IF rlock = t THEN NoThread ELSE rlock

--------------------------------------------------------------------------------
Step(t) ==
  \/ Begin(t) \/ NameiFast(t) \/ NameiMiss(t) \/ NameiVerify(t) \/ NameiSlow(t) \/ NameiLock(t)
  \/ Open(t) \/ Create(t) \/ CreateOpen(t) \/ Fs_close(t)
  \/ Mkdir(t) \/ MkdirDots(t)
  \/ Unlink(t) \/ LockAll(t) \/ Unlinked(t)
  \/ Link(t) \/ LinkInsert(t) \/ LinkUndo(t)
  \/ RenameOld(t) \/ RenameLock(t) \/ IsAncestor(t) \/ Ancestor(t) \/ AncestorRoot(t)
  \/ RenameLook(t) \/ RenameRetry(t) \/ Rename(t) \/ RenameUnlock(t)
  \/ RefDec(t) \/ RefLinks(t) \/ RefDone(t)

Next == \E t \in Threads : Step(t)

Spec == Init /\ [][Next]_vars

\* The scheduler runs every thread that can run, and a mutex that is free goes
\* to one of those that wait for it.
FairSpec == Spec /\ \A t \in Threads : WF_vars(Step(t))

--------------------------------------------------------------------------------
(***************************************************************************)
(* Properties                                                              *)
(***************************************************************************)
Places == {"idle", "namei", "verify", "slow", "got", "child", "undo", "lockall", "locked",
           "up", "look", "unlock", "refdown", "reflinks"}

Inos == Inums \cup {Nil}
Imemnode == [itype : {"none", "file", "dir", "dead"}, links : Nat, ref : Nat,
             lock : Threads \cup {NoThread}, gone : BOOLEAN, orphan : BOOLEAN,
             ents : [Fns -> Inos], fresh : SUBSET Fns, dotdot : Inos]
Frame == [pc : Places, stg : {1, 2}, cur : Inos, rest : Seq(Fns), opar : Inos, ochild : Inos,
          npar : Inos, nchild : Inos, tolock : SUBSET Inums, defers : Seq(Inums), refs : Seq(Inums),
          chk : BOOLEAN, dead : SUBSET Inums, next : {"idle", "look"}, file : Inos]

TypeOK ==
  /\ ino \in [Inums -> Imemnode] /\ th \in [Threads -> Frame]
  /\ rlock \in Threads \cup {NoThread} /\ calls \in [Threads -> Seq(Call)] /\ fatal \in BOOLEAN

Live == LiveIn(ino)
NamesOf(i) == NamesIn(ino, i)

\* The links that link(2) has counted and not yet entered.
Pending(i) ==
  {t \in Threads : /\ th[t].pc \in {"namei", "verify", "slow", "got", "undo"}
                   /\ th[t].stg = 2 /\ Op(t).op = "link" /\ th[t].ochild = i}

\* The directories that have a name, except those that mkdir is still making.
Making == {th[t].ochild : t \in {u \in Threads : th[u].pc = "child" /\ Op(u).op = "mkdir"}}
Dirs == {i \in Live : IsDir(ino, i) /\ ino[i].links > 0} \ (Making \cup {iroot})

\* The name space is a tree: every linked inode has as many names as links, a
\* directory's `..' is the directory that has its name, and no set of directories
\* hangs in itself, detached from the root, although directories are renamed
\* concurrently (fs.go: "prevent orphaned loops due to concurrent renames"), until
\* something enters a directory that has been removed, or a rename starts again
\* with locks that it does not have (Enters and Retries below).
LinkedTree ==
  /\ \A i \in Live \ {iroot} : Cardinality(NamesOf(i)) + Cardinality(Pending(i)) = ino[i].links
  /\ \A i \in Dirs : \E n \in Fns : Entry(ino, ino[i].dotdot, n) = i
  /\ \A S \in SUBSET Dirs : S # {} => \E i \in S : ino[i].dotdot \notin S

\* The references that the call of t holds on inodes.
Second(t) ==
  IF th[t].stg = 1 THEN <<>>
  ELSE IF Op(t).op = "link" THEN <<th[t].ochild>> ELSE <<th[t].opar, th[t].ochild>>
Held(t) ==
  LET r == th[t]
      again == IF r.next = "look" THEN Triple(t) ELSE <<>>
  IN  (IF r.file = Nil THEN <<>> ELSE <<r.file>>) \o
      CASE r.pc = "idle" -> <<>>
        [] r.pc \in {"namei", "verify"} -> <<iroot>> \o Second(t)
        [] r.pc \in {"slow", "got"} -> <<r.cur>> \o Second(t)
        [] r.pc = "child" -> <<r.ochild>> \o (IF Op(t).op = "mkdir" THEN <<r.cur>> ELSE <<>>)
        [] r.pc = "undo" -> <<r.ochild>>
        [] r.pc \in {"lockall", "locked"} /\ Op(t).op = "unlink" -> <<r.opar, r.ochild>>
        [] r.pc = "up" -> <<r.cur>> \o Triple(t)
        [] r.pc = "look" -> Triple(t)
        [] r.pc = "reflinks" -> Tail(r.refs) \o again
        [] r.pc = "refdown" -> r.refs \o again
        [] OTHER -> r.refs

HeldOn(t, i) == {k \in DOMAIN Held(t) : Held(t)[k] = i}
RefsTo(i) == UNION {{t} \X HeldOn(t, i) : t \in Threads}

\* The count of an inode is the number of references that calls and open files
\* hold, so that the inode goes when, and not before, the last one is given back
\* (until a call Leaks one).
RefsCounted == \A i \in Inums : ino[i].ref = Cardinality(RefsTo(i))

Done(t) == th[t].pc = "idle" /\ calls[t] = <<>>

\* An inode is freed when it has neither names nor references, and never
\* before: nobody meets a freed inode, and once all calls have returned no inode
\* without names is left behind unless it is open, and no lock is held (until a
\* call Retries, Enters, Strays or Abandons).
FreedWhenUnused ==
  /\ \A i \in Inums : ino[i].gone =>
       /\ ino[i].lock = NoThread /\ NamesOf(i) = {}
       /\ \A t \in Threads : HeldOn(t, i) = {}
  /\ (\A t \in Threads : Done(t)) =>
       /\ rlock = NoThread
       /\ \A i \in Inums : /\ ino[i].lock = NoThread
                           /\ i \in Live /\ ino[i].links = 0 => ino[i].ref > 0

\* A file that is marked to be freed at the next start has no name.
OrphansUnlinked == \A i \in Inums : ino[i].orphan => ino[i].links = 0

--------------------------------------------------------------------------------
(***************************************************************************)
(* What the code gets wrong.  Each predicate says of a state that the next *)
(* step of t is a wrong one; the properties hold until one is taken.       *)
(***************************************************************************)
\* A reference is taken that nobody gives back: mkdir of a name that exists
\* (fs.go:1298), and the validation of an entry that was made after the lookup
\* (dir.go:471).
Leaks(t) ==
  \/ AtOp(t, "mkdir", "got") /\ Entry(ino, th[t].cur, Op(t).old.name) # Nil
  \/ At(t, "locked") /\ Op(t).old.name \in ino[th[t].opar].fresh
  \/ AtOp(t, "rename", "locked") /\ th[t].nchild # Nil /\ Op(t).new.name \in ino[th[t].npar].fresh

\* Rename gives locks up which it will unlock once more (fs.go:448).
Retries(t) == AtOp(t, "rename", "locked") /\ ~OldGone(t) /\ NewChanged(t)

\* An entry is made in a directory that has been removed (fs.go:364, inode.go:841).
Enters(t) ==
  \/ At(t, "got") /\ (Op(t).op \in {"create", "mkdir"} \/ (Op(t).op = "link" /\ th[t].stg = 2))
     /\ IsDir(ino, th[t].cur) /\ ino[th[t].cur].links = 0
  \/ AtOp(t, "rename", "locked") /\ ino[th[t].npar].links = 0

\* _isancestor follows the `..' of a removed directory to an inode that is
\* gone (fs.go:575), or leaves a lock behind (fs.go:565).
Strays(t) ==
  /\ At(t, "up")
  /\ \/ th[t].cur = th[t].ochild /\ th[t].ochild = th[t].npar
     \/ /\ th[t].cur # th[t].ochild /\ ino[th[t].cur].dotdot # Nil
        /\ ino[ino[th[t].cur].dotdot].gone

\* The last reference to an inode without links is given back by a caller that
\* does not look whether it was the last one.
LastOf(i) == LastRef(ino, i)
Refuses(t) == (Op(t).flag /\ ~th[t].chk) \/ IsDir(ino, th[t].ochild)
Abandons(t) ==
  \/ AtOp(t, "create", "got") /\ LastOf(th[t].cur)
  \/ AtOp(t, "create", "child") /\ Refuses(t) /\ LastOf(th[t].ochild)
  \/ AtOp(t, "unlink", "got") /\ LastOf(th[t].cur)
  \/ AtOp(t, "unlink", "locked") /\ LastOf(th[t].opar)
  \/ AtOp(t, "link", "got") /\ th[t].stg = 2 /\ LastOf(th[t].cur)
  \/ AtOp(t, "rename", "got") /\ th[t].stg = 1 /\ LastOf(th[t].cur)
  \/ At(t, "up") /\ LastOf(th[t].cur)
  \/ At(t, "reflinks") /\ ~th[t].chk /\ ino[Head(th[t].refs)].links = 0

\* Steps that are not the wrong ones.
NoLeaks == \A t \in Threads : th'[t] # th[t] => ~Leaks(t)
NoOrphans == \A t \in Threads : th'[t] # th[t] => ~Retries(t) /\ ~Enters(t)
NoStrays == \A t \in Threads : th'[t] # th[t] => ~Strays(t) /\ ~Abandons(t)

\* The calls that rename a directory, from the lookup of its new parent on.
MovesDir(t) == th[t].pc # "idle" /\ Op(t).op = "rename" /\ th[t].stg = 2 /\ IsDir(ino, th[t].ochild)

\* None of three things that the code gets wrong happens: two renames of
\* directories at a time, a rename of a directory into itself, which returns with
\* the directory locked (Strays), and a panic.
Undisturbed ==
  /\ ~fatal
  /\ \A t, u \in Threads : MovesDir(t) /\ MovesDir(u) => t = u
  /\ \A t \in Threads : ~Strays(t)

\* Every call returns: no thread waits for an inode's lock for ever, whatever
\* other calls do, as long as directories are renamed one at a time and none of
\* them into itself.
CallsReturn == []Undisturbed => \A t \in Threads : <>Done(t)
================================================================================
