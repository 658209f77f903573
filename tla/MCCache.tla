------------------------------- MODULE MCCache -------------------------------
(***************************************************************************)
(* Instances of Cache for TLC.                                             *)
(***************************************************************************)
EXTENDS Cache, TLC

\* Users, block numbers and pages are interchangeable.
Symmetry == Permutations(Threads) \cup Permutations(Keys) \cup Permutations(Pages)

==============================================================================
