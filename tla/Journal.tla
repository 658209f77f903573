------------------------------- MODULE Journal -------------------------------
(***************************************************************************)
(* What the journal promises the file system: the operations on logged     *)
(* blocks are atomic with respect to crashes.  The blocks on stable        *)
(* storage are at all times the result of a prefix of the operations that  *)
(* cuts none of them in two, and a crash goes back to such a prefix.       *)
(***************************************************************************)
CONSTANTS Procs, Blks, Vals, InitVal

VARIABLES mem,     \* contents of the blocks as the file system sees them
          snap,    \* contents the next commit will make stable
          stable,  \* contents that survive a crash
          active   \* threads with an operation in progress

vars == <<mem, snap, stable, active>>

Init ==
    /\ mem = [b \in Blks |-> InitVal]
    /\ snap = mem /\ stable = mem
    /\ active = {}

Begin(p) == p \notin active /\ active' = active \cup {p} /\ UNCHANGED <<mem, snap, stable>>

Write(p, b, v) ==
    /\ p \in active
    /\ mem' = [mem EXCEPT ![b] = v]
    /\ UNCHANGED <<snap, stable, active>>

End(p) == p \in active /\ active' = active \ {p} /\ UNCHANGED <<mem, snap, stable>>

\* A transaction closes: only between operations, and one at a time.
Snapshot ==
    /\ active = {} /\ snap = stable
    /\ snap' = mem
    /\ UNCHANGED <<mem, stable, active>>

Commit == stable' = snap /\ UNCHANGED <<mem, snap, active>>

\* The transaction that was being committed is kept or lost as a whole.
Crash ==
    /\ stable' \in {stable, snap}
    /\ mem' = stable' /\ snap' = stable' /\ active' = {}

Next ==
    \/ \E p \in Procs : Begin(p) \/ End(p) \/ \E b \in Blks, v \in Vals : Write(p, b, v)
    \/ Snapshot \/ Commit \/ Crash

Spec == Init /\ [][Next]_vars

==============================================================================
