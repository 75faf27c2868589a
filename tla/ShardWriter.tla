---------------------------- MODULE ShardWriter ----------------------------
(***************************************************************************)
(* io::ShardWriter and its directory, driven as core_encrypt() and the     *)
(* encrypt pipeline drive it: plan_shards() lays the archive out, the      *)
(* producer thread plans frames ahead of the writer thread, which writes   *)
(* them in order, finalises the shards or, after a failure, removes them.  *)
(* Every call that touches the disk may fail, and the machine may lose     *)
(* power between any two of them.                                          *)
(*                                                                         *)
(* What the pipeline does with the frames in between (seal, reorder) is    *)
(* EncryptPipeline's; two of its theorems are used here: frames arrive in  *)
(* the order of their indexes, and finish() is called only for an archive  *)
(* of the planned size.                                                    *)
(***************************************************************************)
EXTENDS ShardFormat

CONSTANTS Names,        \* file names random_filename() draws from
          Layouts,      \* archives: [count, last], chunks and length of the last one
          ShardSizes,   \* values of --shard-size
          Modes,        \* values of --durability
          MaxInFlight,  \* bound: frames planned and not yet written
          StreamBuffer, \* frames shorter than this may stay in the ofstream's buffer
          Stuck,        \* names whose file a remove() may fail to remove
          Faults        \* what else may fail: see Stage and Disk

Stage == {"pipeline"}   \* some other thread of the pipeline
Disk == {"open", "write", "reopen", "fsync", "close", "power"}

ASSUME WriterAssumption ==
    /\ Layouts \subseteq [count : Nat \ {0}, last : 1..ChunkSize]
    /\ ShardSizes \subseteq Nat
    \* validate_encrypt_params() and plan_shards() refuse smaller ones
    /\ \A s \in ShardSizes : FrameSize(ChunkSize) <= s
    /\ Modes \subseteq {"off", "best_effort", "on"}
    /\ MaxInFlight \in Nat \ {0} /\ StreamBuffer \in Nat
    /\ Faults \subseteq Stage \cup Disk

VARIABLES
    params,     \* the layout announced, --shard-size, --durability
    actual,     \* the layout the archive turns out to have
    plans,      \* shard_plans
    planned,    \* planned_shard_index_, _payload_offset_, _next_chunk_index_
    in_flight,  \* frames planned, sealed and not yet written, in order
    current,    \* the shard being written: current_*
    stream,     \* current_stream_: "closed", "open", or "dirty" (last frame buffered)
    next,       \* next_shard_index_, next_expected_chunk_index_, final_chunk_plaintext_len_
    finalized,  \* finalized_shards_
    wpc,        \* where the writer thread is
    at,         \* loop index over finalized_shards_ in finish() and abort
    dir,        \* files of output_dir, as a reader would see them
    synced,     \* files whose bytes are on stable storage
    linked,     \* files whose directory entry is on stable storage
    created     \* history: names this run has created

plan_vars == <<params, actual, plans>>
writer_vars == <<current, stream, next, finalized, at>>
disk_vars == <<dir, synced, linked, created>>
vars == <<plan_vars, planned, in_flight, writer_vars, wpc, disk_vars>>

\* Length and final flag of chunk i of a layout.
ChunkLen(layout, i) == IF i = layout.count - 1 THEN layout.last ELSE ChunkSize
IsFinal(layout, i) == i = layout.count - 1
Announced == [count |-> params.count, last |-> params.last]
MaxPayload == params.shard_size

\* A shard of an earlier run, another archive, complete in itself.
Foreign ==
    LET g == [archive_id |-> 2, shard_count |-> 1, global_chunk_count |-> 1,
              padded_plaintext_size |-> ChunkSize, final_plaintext_chunk_len |-> ChunkSize]
        sh == MakeShardHeader(0, 0, 1, FrameSize(ChunkSize), << >>)
    IN  MakeFile(<<g>>, <<WithMac(g, sh)>>,
                 <<MakeFrame(0, 0, 0, ChunkSize, TRUE, PublicHeaderHash(g, sh))>>)

\* The archive of this run is archive 1.  core_encrypt() fills in the global header before the first write.
GlobalHeaderOf(shards) ==
    [archive_id |-> 1, shard_count |-> shards, global_chunk_count |-> params.count,
     padded_plaintext_size |-> (params.count - 1) * ChunkSize + params.last,
     final_plaintext_chunk_len |-> params.last]
Announcement == GlobalHeaderOf(Len(plans))

NoShard == [path |-> << >>, index |-> 0, first |-> 0, count |-> 0, payload |-> 0]

Init ==
    /\ \E l \in Layouts, s \in ShardSizes, m \in Modes :
          params = [count |-> l.count, last |-> l.last, shard_size |-> s, mode |-> m]
    /\ actual \in Layouts
    /\ plans = << >>
    /\ planned = [shard |-> 0, offset |-> 0, next |-> 0]
    /\ in_flight = << >>
    /\ current = NoShard /\ stream = "closed"
    /\ next = [shard |-> 0, chunk |-> 0, final_len |-> 0]
    /\ finalized = << >> /\ at = 0
    /\ wpc = "plan"
    /\ \E old \in {S \in SUBSET Names : Cardinality(S) <= 1} :
          /\ dir = [n \in old |-> Foreign]
          /\ synced = old /\ linked = old
    /\ created = {}

----------------------------------------------------------------------------
PlannedChunks == IF plans = << >> THEN 0
                 ELSE plans[Len(plans)].first + plans[Len(plans)].count

\* The test of plan_shards(), plan_chunk_frame() and write_chunk_frame(): the
\* frame does not fit behind the payload written so far.
StartsShard(offset, len) == offset > MaxPayload - FrameSize(len)

\* plan_shards(), one chunk: it joins the current shard or starts the next.
PlanShardChunk ==
    /\ wpc = "plan"
    /\ PlannedChunks < params.count
    /\ LET len == ChunkLen(Announced, PlannedChunks)
           n == Len(plans)
       IN  plans' = IF plans = << >> \/ StartsShard(plans[n].payload, len)
                    THEN Append(plans, [first |-> PlannedChunks, count |-> 1,
                                        payload |-> FrameSize(len)])
                    ELSE [plans EXCEPT ![n] = [first |-> @.first, count |-> @.count + 1,
                                               payload |-> @.payload + FrameSize(len)]]
    /\ UNCHANGED <<params, actual, planned, in_flight, writer_vars, wpc, disk_vars>>

\* The headers and their hashes are known; the pipeline starts.
StartPipeline ==
    /\ wpc = "plan"
    /\ PlannedChunks = params.count
    /\ wpc' = "ready"
    /\ UNCHANGED <<plan_vars, planned, in_flight, writer_vars, disk_vars>>

\* fill_per_shard_hashes(), and select_public_header_hash() with its fallback
\* to the first shard's hash for a shard that was not planned.
ShardHash(i) ==
    LET p == plans[IF i < Len(plans) THEN i + 1 ELSE 1]
        k == IF i < Len(plans) THEN i ELSE 0
    IN  PublicHeaderHash(Announcement, MakeShardHeader(k, p.first, p.count, p.payload, << >>))

Running == wpc \in {"ready", "roll", "open", "write", "full"}

\* plan_chunk_frame() on the producer thread, and the sealing of the chunk
\* with the hash of the shard it was planned into.
PlanFrame ==
    /\ Running
    /\ planned.next < actual.count
    /\ Len(in_flight) < MaxInFlight
    /\ LET len == ChunkLen(actual, planned.next)
           rolls == StartsShard(planned.offset, len)
           shard == IF rolls THEN planned.shard + 1 ELSE planned.shard
           offset == IF rolls THEN 0 ELSE planned.offset
       IN  /\ planned' = [shard |-> shard, offset |-> offset + FrameSize(len),
                          next |-> planned.next + 1]
           /\ in_flight' = Append(in_flight,
                  MakeFrame(shard, offset, planned.next, len, IsFinal(actual, planned.next),
                            ShardHash(shard)))
    /\ UNCHANGED <<plan_vars, writer_vars, wpc, disk_vars>>

----------------------------------------------------------------------------
\* Mutant: the comparison that starts a new shard is off by one.
WriteLabelLate(fr) ==
    IF stream = "closed" THEN "open"
    ELSE IF current.payload > MaxPayload - FrameSize(fr.len) + 1 THEN "roll" ELSE "write"

\* write_chunk_frame(): which file operations the next frame needs.
WriteLabel(fr) ==
    IF stream = "closed" THEN "open"
    ELSE IF StartsShard(current.payload, fr.len) THEN "roll" ELSE "write"

TakeFrame ==
    /\ wpc = "ready"
    /\ in_flight # << >>
    /\ wpc' = IF Head(in_flight).index # next.chunk THEN "throw"
              ELSE WriteLabel(Head(in_flight))
    /\ UNCHANGED <<plan_vars, planned, in_flight, writer_vars, disk_vars>>

Put(d, n, f) == [m \in DOMAIN d \cup {n} |-> IF m = n THEN f ELSE d[m]]
Without(d, n) == [m \in DOMAIN d \ {n} |-> d[m]]

Placeholder == MakeShardHeader(0, 0, 0, 0, << >>)

\* Mutant: the exists() test is left out.
AnyName(n) == n \in Names

\* random_filename() and exists(): an unused name (collisions are retried).
FreshName(n) == n \in Names /\ n \notin DOMAIN dir

\* open_next_shard(): create the file, then write both headers.
OpenShard ==
    /\ wpc = "open"
    /\ \/ \E n \in Names :
             /\ FreshName(n)
             /\ current' = [path |-> <<n>>, index |-> next.shard, first |-> next.chunk,
                            count |-> 0, payload |-> 0]
             /\ next' = [next EXCEPT !.shard = @ + 1]
             /\ stream' = "open"
             /\ created' = created \cup {n}
             /\ synced' = synced \ {n} /\ linked' = linked \ {n}
             /\ \/ /\ wpc' = "write"
                   /\ dir' = Put(dir, n, MakeFile(<<Announcement>>, <<Placeholder>>, << >>))
                \/ /\ "write" \in Faults
                   /\ wpc' = "throw"
                   /\ dir' = Put(dir, n, MakeFile(<< >>, << >>, << >>))
       \/ /\ "open" \in Faults
          /\ wpc' = "throw"
          /\ UNCHANGED <<current, next, stream, disk_vars>>
    /\ UNCHANGED <<plan_vars, planned, in_flight, finalized, at>>

CurrentPath == current.path[1]

\* The frame itself, after a last look at its shard index.  A short frame may
\* stay in the stream's buffer.
FrameWritten(fr) ==
    /\ dir' = [dir EXCEPT ![CurrentPath].frames = Append(@, fr)]
    /\ \/ stream' = "open"
       \/ FrameSize(fr.len) < StreamBuffer /\ stream' = "dirty"
    /\ current' = [current EXCEPT !.count = @ + 1, !.payload = @ + FrameSize(fr.len)]
    /\ next' = [next EXCEPT !.chunk = @ + 1, !.final_len = IF fr.final THEN fr.len ELSE @]
    /\ in_flight' = Tail(in_flight)
    /\ wpc' = IF current'.payload >= MaxPayload THEN "full" ELSE "ready"

FrameTorn(fr) ==
    /\ "write" \in Faults
    /\ dir' = [dir EXCEPT ![CurrentPath].frames = Append(@, [fr EXCEPT !.intact = FALSE])]
    /\ wpc' = "throw"
    /\ UNCHANGED <<current, next, stream, in_flight>>

WriteFrame ==
    /\ wpc = "write"
    /\ IF Head(in_flight).shard_index # current.index
       THEN wpc' = "throw" /\ UNCHANGED <<current, next, stream, dir, in_flight>>
       ELSE FrameWritten(Head(in_flight)) \/ FrameTorn(Head(in_flight))
    /\ synced' = synced \ {CurrentPath}
    /\ UNCHANGED <<plan_vars, planned, finalized, at, linked, created>>

----------------------------------------------------------------------------
\* rewrite_shard_header() for a finalized shard s under global header g.
ShardHeaderOf(s, g) ==
    WithMac(g, MakeShardHeader(s.index, s.first, s.count, s.payload, << >>))

AfterClose == CASE wpc = "roll" -> "open" [] wpc = "full" -> "ready" [] OTHER -> "rewrite"

\* close_current_shard(): close the stream (nobody looks at its state), write
\* the shard header over the placeholder, remember the shard.  An open shard
\* has at least one frame here, so the branch that deletes it is not taken.
CloseShard ==
    /\ wpc \in {"roll", "full", "finish"}
    /\ stream # "closed"
    /\ stream' = "closed"
    /\ synced' = synced \ {CurrentPath}
    /\ \E lost \in {FALSE} \cup {b \in {TRUE} : stream = "dirty" /\ "close" \in Faults} :
       LET file == dir[CurrentPath]
           kept == IF lost THEN SubSeq(file.frames, 1, Len(file.frames) - 1) ELSE file.frames
       IN  \/ /\ dir' = [dir EXCEPT ![CurrentPath] =
                            MakeFile(file.global, <<ShardHeaderOf(current, Announcement)>>, kept)]
              /\ finalized' = Append(finalized, current)
              /\ current' = NoShard
              /\ wpc' = AfterClose
           \/ /\ "reopen" \in Faults
              /\ dir' = [dir EXCEPT ![CurrentPath].frames = kept]
              /\ wpc' = "throw"
              /\ UNCHANGED <<finalized, current>>
    /\ UNCHANGED <<plan_vars, planned, in_flight, next, at, linked, created>>

\* finish(), on the condition EncryptPipeline guarantees: nothing failed and
\* every chunk of an archive of the announced size has been written.
CallFinish ==
    /\ wpc = "ready"
    /\ in_flight = << >>
    /\ planned.next = actual.count
    /\ actual = Announced
    /\ wpc' = IF stream = "closed" THEN "rewrite" ELSE "finish"
    /\ UNCHANGED <<plan_vars, planned, in_flight, writer_vars, disk_vars>>

\* finish(): the global header as it is known after the last chunk.
FinalGlobal ==
    LET counts == [Announcement EXCEPT !.global_chunk_count = next.chunk,
                                       !.shard_count = Len(finalized)]
    IN  IF next.final_len > 0
        THEN [counts EXCEPT !.final_plaintext_chunk_len = next.final_len,
                            !.padded_plaintext_size =
                                (next.chunk - 1) * ChunkSize + next.final_len]
        ELSE counts

Path(k) == finalized[k].path[1]

\* finish(), one shard: the global header and, with its MAC, the shard header
\* are rewritten; the stream is closed without a look at its state.
RewriteShard ==
    /\ wpc = "rewrite"
    /\ at < Len(finalized)
    /\ \/ /\ dir' = [dir EXCEPT ![Path(at + 1)].global = <<FinalGlobal>>,
                                ![Path(at + 1)].shard =
                                    <<ShardHeaderOf(finalized[at + 1], FinalGlobal)>>]
          /\ wpc' = "flush"
       \/ "close" \in Faults /\ wpc' = "flush" /\ UNCHANGED dir
       \/ "reopen" \in Faults /\ wpc' = "throw" /\ UNCHANGED dir
    /\ synced' = synced \ {Path(at + 1)}
    /\ UNCHANGED <<plan_vars, planned, in_flight, writer_vars, linked, created>>

\* posix_fsync(): nothing in mode off; an error is swallowed unless mode is on.
Flush(S, done) ==
    \/ params.mode # "off" /\ done' = done \cup S
    \/ params.mode = "off" /\ UNCHANGED done
    \/ "fsync" \in Faults /\ params.mode = "best_effort" /\ UNCHANGED done

FlushThrows == "fsync" \in Faults /\ params.mode = "on"

\* flush_file() of the shard just rewritten.
FlushShard ==
    /\ wpc = "flush"
    /\ \/ Flush({Path(at + 1)}, synced) /\ at' = at + 1 /\ wpc' = "rewrite"
       \/ FlushThrows /\ wpc' = "throw" /\ UNCHANGED <<synced, at>>
    /\ UNCHANGED <<plan_vars, planned, in_flight, current, stream, next, finalized,
                   dir, linked, created>>

\* Mutant: the directory itself is not flushed.
FlushNothing ==
    /\ wpc = "rewrite" /\ at = Len(finalized)
    /\ wpc' = "success"
    /\ UNCHANGED <<plan_vars, planned, in_flight, writer_vars, disk_vars>>

\* flush_dir(), then finished_ is set, run() returns and encrypt succeeds.
FlushDir ==
    /\ wpc = "rewrite"
    /\ at = Len(finalized)
    /\ \/ Flush(DOMAIN dir, linked) /\ wpc' = "success"
       \/ FlushThrows /\ wpc' = "throw" /\ UNCHANGED linked
    /\ UNCHANGED <<plan_vars, planned, in_flight, writer_vars, dir, synced, created>>

----------------------------------------------------------------------------
\* Another stage fails, or the archive turns out to have another size: the
\* writer sees the failure between two frames and run() throws.
PipelineFails ==
    /\ wpc = "ready"
    /\ "pipeline" \in Faults \/ (planned.next = actual.count /\ actual # Announced)
    /\ wpc' = "throw"
    /\ UNCHANGED <<plan_vars, planned, in_flight, writer_vars, disk_vars>>

\* One remove() whose error is ignored.
Removes(n) ==
    \/ /\ dir' = Without(dir, n)
       /\ synced' = synced \ {n} /\ linked' = linked \ {n}
    \/ n \in Stuck /\ UNCHANGED <<dir, synced, linked>>

\* Mutant: the shard being written is forgotten.
AbortSkipCurrent ==
    /\ wpc = "throw" /\ stream' = "closed" /\ current' = NoShard
    /\ at' = 0 /\ wpc' = "abort"
    /\ UNCHANGED <<plan_vars, planned, in_flight, next, finalized, disk_vars>>

\* Mutant: the stream is left open.
AbortLeavesOpen ==
    /\ wpc = "throw" /\ current' = NoShard
    /\ IF current.path = << >> THEN UNCHANGED <<dir, synced, linked>> ELSE Removes(CurrentPath)
    /\ at' = 0 /\ wpc' = "abort"
    /\ UNCHANGED <<plan_vars, planned, in_flight, stream, next, finalized, created>>

\* abort_and_remove_created_shards_noexcept(): the shard being written, then
\* each finalized one.  The destructor's finish() finds nothing to do after it.
AbortCurrent ==
    /\ wpc = "throw"
    /\ stream' = "closed" /\ current' = NoShard
    /\ IF current.path = << >> THEN UNCHANGED <<dir, synced, linked>> ELSE Removes(CurrentPath)
    /\ at' = 0 /\ wpc' = "abort"
    /\ UNCHANGED <<plan_vars, planned, in_flight, next, finalized, created>>

AbortShard ==
    /\ wpc = "abort"
    /\ IF at < Len(finalized)
       THEN Removes(Path(at + 1)) /\ at' = at + 1 /\ UNCHANGED <<finalized, wpc>>
       ELSE finalized' = << >> /\ at' = 0 /\ wpc' = "aborted" /\ UNCHANGED <<dir, synced, linked>>
    /\ UNCHANGED <<plan_vars, planned, in_flight, current, stream, next, created>>

----------------------------------------------------------------------------
Lost == {"lost", "lost_after_success"}

\* The power goes: what was in memory is gone with it.
PowerLoss ==
    /\ "power" \in Faults
    /\ wpc \notin Lost
    /\ wpc' = IF wpc = "success" THEN "lost_after_success" ELSE "lost"
    /\ UNCHANGED <<plan_vars, planned, in_flight, writer_vars, disk_vars>>

\* What can be left of a file that had not been flushed: any header unwritten
\* or old, the frames cut short or one of them incomplete.
Remains(f) ==
    {f, [f EXCEPT !.global = << >>], [f EXCEPT !.shard = << >>],
        [f EXCEPT !.shard = <<Placeholder>>]}
    \cup {[f EXCEPT !.frames = SubSeq(f.frames, 1, t)] : t \in 0..(Len(f.frames) - 1)}
    \cup {[f EXCEPT !.frames[k].intact = FALSE] : k \in 1..Len(f.frames)}

\* The disk as it is found after the loss, file by file.
SettleFile(n) ==
    /\ wpc \in Lost
    /\ n \in DOMAIN dir
    /\ \/ /\ n \notin synced
          /\ \E f \in Remains(dir[n]) : dir' = [dir EXCEPT ![n] = f]
          /\ synced' = synced \cup {n}
          /\ UNCHANGED linked
       \/ /\ n \notin linked
          /\ \/ dir' = Without(dir, n) /\ synced' = synced \ {n} /\ UNCHANGED linked
             \/ linked' = linked \cup {n} /\ UNCHANGED <<dir, synced>>
    /\ UNCHANGED <<plan_vars, planned, in_flight, writer_vars, wpc, created>>

----------------------------------------------------------------------------
Plan == PlanShardChunk \/ StartPipeline
Write == TakeFrame \/ OpenShard \/ WriteFrame \/ CloseShard
Finish == CallFinish \/ RewriteShard \/ FlushShard \/ FlushDir
Fail == PipelineFails \/ AbortCurrent \/ AbortShard
Power == PowerLoss \/ \E n \in Names : SettleFile(n)

\* encrypt has ended, or the machine is down.
Terminated == wpc \in {"success", "aborted"} \cup Lost /\ UNCHANGED vars

Next == Plan \/ PlanFrame \/ Write \/ Finish \/ Fail \/ Power \/ Terminated

Spec == Init /\ [][Next]_vars

----------------------------------------------------------------------------
Labels == {"plan", "ready", "roll", "open", "write", "full", "finish", "rewrite", "flush",
           "success", "throw", "abort", "aborted"} \cup Lost
Shard == [path : {<<n>> : n \in Names}, index : Nat, first : Nat, count : Nat, payload : Nat]

\* Types of the writer's fields; what is flushed exists, an open stream has a
\* file, and every file the writer still names has been created by it.
TypeOK ==
    /\ wpc \in Labels /\ stream \in {"closed", "open", "dirty"}
    /\ params \in [count : Nat, last : Nat, shard_size : Nat, mode : Modes]
    /\ actual \in Layouts
    /\ plans \in Seq([first : Nat, count : Nat, payload : Nat])
    /\ planned \in [shard : Nat, offset : Nat, next : Nat]
    /\ next \in [shard : Nat, chunk : Nat, final_len : Nat]
    /\ current \in Shard \cup {NoShard} /\ finalized \in Seq(Shard) /\ at \in Nat
    /\ DOMAIN dir \subseteq Names /\ created \subseteq Names
    /\ synced \subseteq DOMAIN dir /\ linked \subseteq DOMAIN dir
    /\ stream # "closed" => current.path # << >>
    /\ current.path # << >> => current.path[1] \in created
    /\ \A k \in 1..Len(finalized) : finalized[k].path[1] \in created

\* The planner on the producer thread, which has run ahead by any number of
\* frames, and the writer agree on the place of every frame: the frame about
\* to be written was planned for the end of the shard that is open, the one
\* whose header its body was sealed with.
PlannerAgrees ==
    wpc = "write" => /\ Head(in_flight).shard_index = current.index
                     /\ Head(in_flight).offset = current.payload

\* Nothing the writer does, a failed run and its clean-up included, touches a
\* file that was in the directory before it.
ExistingUntouched ==
    [][\A n \in DOMAIN dir \ created : n \in DOMAIN dir' /\ dir'[n] = dir[n]]_vars

\* A failed run leaves none of its files behind that it can remove, wherever it
\* failed and whichever other removals fail.  A failed fsync under --durability=on
\* is no exception: docs/DURABILITY.md, by which "the incomplete output is left
\* in place" then, does not describe this code.
AbortRemovesAll == wpc = "aborted" => DOMAIN dir \cap created \subseteq Stuck
=============================================================================
