------------------------------- MODULE MCNames -------------------------------
EXTENDS Names, TLC
CONSTANTS t1, t2, t3, a, b

\* The root has the directories a (2), which is empty, and b (3), with a file a (4).
Dirents(f) == [n \in Fns |-> IF n \in DOMAIN f THEN f[n] ELSE Nil]
MCTree ==
  (1 :> Inode("dir", Dirents(a :> 2 @@ b :> 3), Nil)) @@ (2 :> Inode("dir", NoEntries, 1)) @@
  (3 :> Inode("dir", Dirents(a :> 4), 1)) @@ (4 :> Inode("file", NoEntries, Nil))

\* The paths /a, /b, /a/a, /a/b, /b/a, /b/b and /b/a/a, and the calls on them.
A == [dirs |-> <<>>, name |-> a]
B == [dirs |-> <<>>, name |-> b]
AA == [dirs |-> <<a>>, name |-> a]
AB == [dirs |-> <<a>>, name |-> b]
BA == [dirs |-> <<b>>, name |-> a]
BB == [dirs |-> <<b>>, name |-> b]
BAA == [dirs |-> <<b, a>>, name |-> a]

MkCall(op, old, new, flag) == [op |-> op, old |-> old, new |-> new, flag |-> flag]
close == MkCall("close", A, A, FALSE)
create(p, excl) == <<MkCall("create", p, p, excl), close>>
open(p) == <<MkCall("open", p, p, FALSE), close>>
mkdir(p) == <<MkCall("mkdir", p, p, FALSE)>>
unlink(p) == <<MkCall("unlink", p, p, FALSE)>>
rmdir(p) == <<MkCall("unlink", p, p, TRUE)>>
link(p, q) == <<MkCall("link", p, q, FALSE)>>
rename(p, q) == <<MkCall("rename", p, q, FALSE)>>

Sample ==
  <<rename(A, BB), rename(B, AB), rename(A, B), rename(B, A), rename(BA, AA), rename(BA, BB),
    rename(BA, A), create(AA, FALSE), create(BB, TRUE), create(BA, FALSE), open(BA), mkdir(AB),
    unlink(BA), unlink(BB), unlink(AA), rmdir(A), rmdir(B), link(BA, BB), link(BA, AA),
    link(A, BB)>>

\* Pairs that the code gets wrong, and that are left out: a call that uses the
\* directory a while the other one removes it, mkdir of a name that the other
\* one makes, and a call that validates the name /a while the other one makes it
\* lead elsewhere.
Removes(c) == \/ c.op = "unlink" /\ c.old = A
              \/ c.op = "rename" /\ c.old = B /\ c.new = A
Uses(c) == <<a>> \in {c.old.dirs, c.new.dirs}
Makes(c) == c.op \in {"mkdir", "rename"} /\ c.new = AB
Replaces(c) == c.op = "rename" /\ c.old = B /\ c.new = A
Validates(d) == d.op \in {"unlink", "rename"} /\ A \in {d.old, d.new}
Clash(c, d) == \/ Removes(c) /\ Uses(d)
               \/ Replaces(c) /\ Validates(d) /\ c # d
               \/ Makes(c) /\ Makes(d) /\ "mkdir" \in {c.op, d.op}

\* Every two of the sample at a time, and some three.
Pairs ==
  {p \in UNION {{<<Sample[i], Sample[j], <<>>>> : i \in 1..j} : j \in DOMAIN Sample} :
     ~Clash(Head(p[1]), Head(p[2])) /\ ~Clash(Head(p[2]), Head(p[1]))}
Triples ==
  {<<unlink(BA), open(BA), unlink(BA)>>, <<unlink(BA), create(BA, FALSE), open(BA)>>,
   <<rename(A, BB), rename(B, AB), open(BA)>>, <<rename(A, BAA), open(BA), create(BB, TRUE)>>,
   <<rename(BA, AA), create(BA, FALSE), open(BA)>>, <<mkdir(AB), rename(BA, AA), open(BA)>>}
MCPrograms == {(t1 :> p[1]) @@ (t2 :> p[2]) @@ (t3 :> p[3]) : p \in Pairs \cup Triples}
===============================================================================
