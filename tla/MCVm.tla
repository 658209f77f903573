--------------------------------- MODULE MCVm ---------------------------------
(***************************************************************************)
(* Instances of Vm for TLC.                                                *)
(***************************************************************************)
EXTENDS Vm, TLC
CONSTANTS t1, t2, t3, a1, a2

\* A process with two threads, and its child.
MCHome == (t1 :> a1) @@ (t2 :> a1) @@ (t3 :> a2)

\* Private file mappings with one thread in the parent, to keep the instance small.
MCStarts == ({"anon", "shareanon", "sharefile"} \X {{t1, t2}}) \cup ({"file"} \X {{t1}, {t2}})

Symmetry == Permutations(CPUs) \cup Permutations(Frames) \cup Permutations({t1, t2})
===============================================================================
