---------------------------- MODULE ArchiveLayout ----------------------------
(***************************************************************************)
(* What core_encrypt derives from the planned size of the archive: the     *)
(* padding, the chunk count, the length of the final chunk and the size    *)
(* fields of the public header, in unsigned integers of Width bits; and    *)
(* what parse_global_public_header demands of those fields.                *)
(***************************************************************************)
EXTENDS RecordFormat

CONSTANTS Width,               \* 64: the integers are uint64_t
          ChunkMin, ChunkMax,  \* 65536 and 67108864
          FrameBytes           \* frame header and tag of one chunk

ASSUME LayoutAssumption ==
    /\ Width \in Nat \ {0} /\ FrameBytes \in Nat
    /\ ChunkMin \in Nat \ {0} /\ ChunkMax \in Nat /\ RecordPrefix <= ChunkMin

MaxU64 == 2^Width - 1
Throws == -1
PowersOfTwo == {2^i : i \in 0..(Width - 1)}

\* common/CheckedArithmetic.
CheckedAdd(a, b) == IF b > MaxU64 - a THEN Throws ELSE a + b
CheckedMul(a, b) == IF a # 0 /\ b > MaxU64 \div a THEN Throws ELSE a * b
CeilDiv(a, b) == IF a = 0 THEN 0 ELSE (a - 1) \div b + 1
NextPowerOfTwo(x) == IF x > 2^(Width - 1) THEN Throws ELSE Min({p \in PowersOfTwo : p >= x})

\* A padding record is at least its prefix.
TooSmall(gap) == gap > 0 /\ gap < RecordPrefix

\* validate_encrypt_params(): the checks on sizes.
ValidSizes(params) ==
    /\ params.chunk \in ChunkMin..ChunkMax /\ params.chunk \in PowersOfTwo
    /\ params.shard_size # 0 /\ FrameBytes + params.chunk <= params.shard_size
    /\ params.policy = "fixed" => params.fixed # 0 /\ params.fixed % params.chunk = 0

\* Mutant: a gap too small for a padding record is left as it is.
PadToChunkTight(raw, chunk) ==
    IF raw % chunk = 0 THEN raw ELSE CheckedAdd(raw, chunk - (raw % chunk))

PadToChunk(raw, chunk) ==
    LET up == IF raw % chunk = 0 THEN raw ELSE CheckedAdd(raw, chunk - (raw % chunk))
    IN  IF up # Throws /\ TooSmall(up - raw) THEN CheckedAdd(up, chunk) ELSE up

PadToPowerOfTwo(raw, chunk) ==
    LET next == NextPowerOfTwo(raw)
        up == IF next # Throws /\ next < chunk THEN chunk ELSE next
    IN  IF up # Throws /\ TooSmall(up - raw) THEN CheckedMul(up, 2) ELSE up

PadToFixed(raw, chunk, fixed) ==
    IF raw > fixed \/ fixed % chunk # 0 \/ TooSmall(fixed - raw) THEN Throws ELSE fixed

\* compute_padding().target_size.
ComputePadding(raw, params) ==
    CASE params.policy = "none" -> raw
      [] params.policy = "chunk" -> PadToChunk(raw, params.chunk)
      [] params.policy = "power2" -> PadToPowerOfTwo(raw, params.chunk)
      [] params.policy = "fixed" -> PadToFixed(raw, params.chunk, params.fixed)

PolicyId(policy) == CHOOSE i \in 0..3 : policy = <<"none", "chunk", "power2", "fixed">>[i + 1]

\* core_encrypt(): the size fields of the public header.  A planned size is
\* never 0, ArchiveBegin and ArchiveEnd alone take room.
Header(padded, params) ==
    [chunk |-> params.chunk, padded |-> padded,
     chunk_count |-> CeilDiv(padded, params.chunk),
     final_len |-> IF padded % params.chunk = 0 THEN params.chunk ELSE padded % params.chunk,
     policy_id |-> PolicyId(params.policy),
     policy_value |-> IF params.policy = "fixed" THEN params.fixed ELSE 0,
     max_shard_payload |-> params.shard_size]

WholeChunks(h) == h.padded % h.chunk = 0 /\ h.final_len = h.chunk

\* The padding rules of parse_global_public_header().
ValidPadding(h) ==
    \/ h.policy_id = 0 /\ h.policy_value = 0
    \/ h.policy_id = 1 /\ h.policy_value = 0 /\ WholeChunks(h)
    \/ h.policy_id = 2 /\ h.policy_value = 0 /\ WholeChunks(h) /\ h.padded \in PowersOfTwo
    \/ h.policy_id = 3 /\ h.policy_value = h.padded /\ WholeChunks(h)

\* parse_global_public_header(): the rules on sizes; the product is unsigned.
ParseGlobal(h) ==
    /\ h.chunk_count # 0 /\ h.padded # 0
    /\ h.chunk \in PowersOfTwo /\ h.chunk \in ChunkMin..ChunkMax
    /\ h.final_len # 0 /\ h.final_len <= h.chunk
    /\ h.padded = ((h.chunk_count - 1) * h.chunk + h.final_len) % 2^Width
    /\ ValidPadding(h)
    /\ h.max_shard_payload # 0
=============================================================================
