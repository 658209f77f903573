-------------------------------- MODULE MCLog --------------------------------
(***************************************************************************)
(* Instances of Log for TLC.                                               *)
(***************************************************************************)
EXTENDS Log, TLC

\* The threads are interchangeable.
Symmetry == Permutations(Procs)

==============================================================================
