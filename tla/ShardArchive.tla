---------------------------- MODULE ShardArchive ----------------------------
(***************************************************************************)
(* The shard writer and the shard reader together: what decryption makes   *)
(* of the output directory at any moment of an encryption, after a failed  *)
(* one, and after a power loss.                                            *)
(***************************************************************************)
EXTENDS ShardWriter, ShardReader

\* The frames of an archive, as whoever wrote it meant them: index, length.
Meant(id) ==
    IF id = 1 THEN [i \in 1..actual.count |-> <<i - 1, ChunkLen(actual, i - 1)>>]
    ELSE << <<0, ChunkSize>> >>

\* Whatever state the directory is in (shards half written, being removed,
\* damaged by a power loss, next to a shard of another archive), decryption
\* accepts it only if it holds exactly one archive, complete and undamaged.
AcceptedIsComplete ==
    Accepts(dir) =>
        LET id == dir[CHOOSE n \in DOMAIN dir : TRUE].global[1].archive_id
            c == Contents(dir)
        IN  /\ [i \in 1..Len(c) |-> <<c[i].index, c[i].len>>] = Meant(id)
            /\ \A i \in 1..Len(c) : c[i].intact

\* When encrypt reports success the directory can be decrypted, unless other
\* shards were there before; with --durability=on this survives a power loss.
SuccessIsReadable ==
    /\ DOMAIN dir \subseteq created
    /\ wpc = "success" \/ (wpc = "lost_after_success" /\ params.mode = "on")
    => Accepts(dir)
=============================================================================
