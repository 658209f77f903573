----------------------------- MODULE MCHashtable -----------------------------
(***************************************************************************)
(* Instances of Hashtable for TLC.                                         *)
(***************************************************************************)
EXTENDS Hashtable, TLC

\* Keys 1 and 2 have the same hash, 3 a greater one in the same bucket of two.
Hashes == (1 :> 2) @@ (2 :> 2) @@ (3 :> 4)

==============================================================================
