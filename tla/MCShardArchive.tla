--------------------------- MODULE MCShardArchive ---------------------------
(***************************************************************************)
(* Model checking of ShardArchive: chunks of 2 bytes, frames of at most 3. *)
(* A shard of 6 bytes takes exactly two full frames, one of 8 bytes two    *)
(* full frames and a short last one.                                       *)
(***************************************************************************)
EXTENDS ShardArchive, TLC

Symmetry == Permutations(Names \ Stuck)
MCLayouts == {[count |-> c, last |-> l] : c \in {1, 3}, l \in 1..2}
=============================================================================
