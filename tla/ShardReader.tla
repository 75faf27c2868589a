---------------------------- MODULE ShardReader ----------------------------
(***************************************************************************)
(* Decryption's view of a shard directory, from ShardReader::discover() to *)
(* the last chunk: which directories are accepted.  A directory is a       *)
(* function from names to shard files (only regular *.bin files count).    *)
(* The passphrase is the right one for every archive.                      *)
(***************************************************************************)
EXTENDS ShardFormat

\* parse_global_public_header(), the rules that relate its fields.
ValidGlobal(g) ==
    /\ g.shard_count > 0 /\ g.global_chunk_count > 0 /\ g.padded_plaintext_size > 0
    /\ g.final_plaintext_chunk_len \in 1..ChunkSize
    /\ g.padded_plaintext_size =
           (g.global_chunk_count - 1) * ChunkSize + g.final_plaintext_chunk_len
    /\ g.shard_count <= g.global_chunk_count

\* parse_shard_public_header().
ValidShardHeader(sh) == sh.shard_chunk_count > 0 /\ sh.shard_payload_len > 0

Sum(s) ==
    LET upto[k \in 0..Len(s)] == IF k = 0 THEN 0 ELSE upto[k - 1] + s[k] IN upto[Len(s)]
PayloadSize(frames) == Sum([k \in 1..Len(frames) |-> FrameSize(frames[k].len)])

\* read_shard_info(): both headers parse and the file has the declared size.
ReadShardInfo(f) ==
    /\ f.global # << >> /\ ValidGlobal(f.global[1])
    /\ f.shard # << >> /\ ValidShardHeader(f.shard[1])
    /\ f.shard[1].shard_index < f.global[1].shard_count
    /\ PayloadSize(f.frames) = f.shard[1].shard_payload_len

\* discover(): one bad .bin file refuses the directory.
Discover(d) == DOMAIN d # {} /\ \A n \in DOMAIN d : ReadShardInfo(d[n])

\* verify_shard_header_mac().
VerifyMac(f) == f.shard[1].header_mac = HeaderMac(f.global[1], f.shard[1])

ShardAt(d, i) == d[CHOOSE n \in DOMAIN d : d[n].shard[1].shard_index = i]

\* validate_shards(): one archive, each shard once and none missing, the
\* chunk ranges adjoining and covering global_chunk_count.
ValidateShards(d) ==
    /\ \A n, m \in DOMAIN d :
          /\ d[n].global = d[m].global
          /\ n # m => d[n].shard[1].shard_index # d[m].shard[1].shard_index
    /\ \A n \in DOMAIN d : VerifyMac(d[n])
    /\ LET g == d[CHOOSE n \in DOMAIN d : TRUE].global[1]
           first(i) == ShardAt(d, i).shard[1].first_global_chunk_index
           end(i) == first(i) + ShardAt(d, i).shard[1].shard_chunk_count
       IN  /\ Cardinality(DOMAIN d) = g.shard_count
           /\ \A i \in 0..(g.shard_count - 1) :
                 \E n \in DOMAIN d : d[n].shard[1].shard_index = i
           /\ \A i \in 0..(g.shard_count - 1) :
                 first(i) = IF i = 0 THEN 0 ELSE end(i - 1)
           /\ end(g.shard_count - 1) = g.global_chunk_count

\* Mutant: the tag is not verified.
OpensUnverified(f, fr) == TRUE

\* AEAD decryption of a frame read from shard file f (CryptoBackend, external):
\* it succeeds only for the bytes and the associated data that were sealed.
Opens(f, fr) == fr.intact /\ fr.aad = PublicHeaderHash(f.global[1], f.shard[1])

\* read_next_chunk_record() for the k-th frame of shard file f.
ReadFrame(f, k) ==
    LET fr == f.frames[k]
        last == f.global[1].global_chunk_count - 1
    IN  /\ fr.shard_index = f.shard[1].shard_index
        /\ fr.index = f.shard[1].first_global_chunk_index + k - 1
        /\ fr.len <= ChunkSize
        /\ fr.final <=> fr.index = last
        /\ ~fr.final => fr.len = ChunkSize

\* close_current_shard_and_check_trailing_garbage(): exactly the declared
\* number of frames, and nothing after them.
ReadShard(f) ==
    /\ Len(f.frames) = f.shard[1].shard_chunk_count
    /\ \A k \in 1..Len(f.frames) : ReadFrame(f, k) /\ Opens(f, f.frames[k])

\* The frames in the order the reader returns them, shard after shard, and the
\* plaintext the consumer of DecryptPipeline counts.
Contents(d) ==
    LET shards == d[CHOOSE n \in DOMAIN d : TRUE].global[1].shard_count
        upto[i \in 0..shards] ==
            IF i = 0 THEN << >> ELSE upto[i - 1] \o ShardAt(d, i - 1).frames
    IN  upto[shards]
PlainSize(frames) == Sum([k \in 1..Len(frames) |-> frames[k].len])

\* core_decrypt() accepts the directory.
Accepts(d) ==
    /\ Discover(d)
    /\ ValidateShards(d)
    /\ \A n \in DOMAIN d : ReadShard(d[n])
    /\ \A n \in DOMAIN d : PlainSize(Contents(d)) = d[n].global[1].padded_plaintext_size
=============================================================================
