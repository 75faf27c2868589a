---------------------------- MODULE ShardFormat ----------------------------
(***************************************************************************)
(* The BSEAL-F1 shard file (io/ShardFrame): a global public header, a      *)
(* shard public header and chunk frames.  Sizes are counted in bytes;      *)
(* contents are the fields that decide how shards fit together.            *)
(*                                                                         *)
(* The header hash (BLAKE3) and the header MAC (HMAC) are taken to be      *)
(* injective, so a digest is represented by what it digests.  A header     *)
(* field of a file is a sequence of at most one header: << >> stands for   *)
(* bytes that do not parse.                                                *)
(***************************************************************************)
EXTENDS Integers, Sequences, FiniteSets

CONSTANTS ChunkSize,      \* global_header.chunk_plain_size
          FrameOverhead   \* kChunkFrameHeaderV1Size + tag_len

ASSUME FormatAssumption == ChunkSize \in Nat \ {0} /\ FrameOverhead \in Nat \ {0}

\* chunk_frame_v1_encoded_size() and ..._from_params().
FrameSize(len) == FrameOverhead + len

GlobalHeader == [archive_id : Nat, shard_count : Nat, global_chunk_count : Nat,
                 padded_plaintext_size : Nat, final_plaintext_chunk_len : Nat]

\* header_mac is << >> (zeros) or what the MAC authenticates.
MakeShardHeader(index, first, count, payload, mac) ==
    [shard_index |-> index, first_global_chunk_index |-> first, shard_chunk_count |-> count,
     shard_payload_len |-> payload, header_mac |-> mac]

\* serialize_shard_public_header_for_mac(): the MAC field counts as zero.
Canonical(sh) == [sh EXCEPT !.header_mac = << >>]

\* compute_public_header_hash() and compute_shard_header_mac().
PublicHeaderHash(g, sh) == <<g, Canonical(sh)>>
HeaderMac(g, sh) == <<g, Canonical(sh)>>

WithMac(g, sh) == [sh EXCEPT !.header_mac = HeaderMac(g, sh)]

\* A chunk frame: its header, the place in the payload it was planned for
\* (ShardWritePosition), the associated data its body was sealed with, and
\* whether its bytes are those that were written.
MakeFrame(shard, offset, index, len, final, aad) ==
    [shard_index |-> shard, offset |-> offset, index |-> index, len |-> len,
     final |-> final, aad |-> aad, intact |-> TRUE]

MakeFile(global, shard, frames) == [global |-> global, shard |-> shard, frames |-> frames]
=============================================================================
