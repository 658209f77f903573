------------------------------- MODULE MCPipe --------------------------------
(***************************************************************************)
(* Instances of Pipe for TLC.                                              *)
(***************************************************************************)
EXTENDS Pipe, TLC

\* The threads of a kind are interchangeable.
Symmetry == Permutations(Readers) \cup Permutations(Writers) \cup Permutations(Pollers)

==============================================================================
