------------------------------- MODULE MCAhci --------------------------------
(***************************************************************************)
(* Instances of Ahci for TLC.                                              *)
(***************************************************************************)
EXTENDS Ahci, TLC

\* The callers are interchangeable.
Symmetry == Permutations(Threads)

==============================================================================
