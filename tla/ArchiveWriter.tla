---------------------------- MODULE ArchiveWriter ----------------------------
(***************************************************************************)
(* core_encrypt up to the pipeline, and archive/ArchiveWriter: the input   *)
(* directory is walked, the size of the archive planned, and the records   *)
(* are emitted one by one, each entry being read again when its turn       *)
(* comes.  Meanwhile the files may change.  The encrypt pipeline cuts the  *)
(* records into chunks; that it delivers all of them or none is shown in   *)
(* EncryptPipeline, so the archive is here the sequence of records.        *)
(***************************************************************************)
EXTENDS ArchiveLayout

CONSTANTS Trees,          \* input directories: functions from paths to nodes
          PathOrder,      \* all paths, in the order of their generic strings
          EncryptParams,  \* chunk, shard_size, policy, fixed
          MaxChanges,     \* bound on the changes to the input during a run
          PayloadMin, PayloadMax  \* 64 KiB and 1 MiB

Policies == {"none", "chunk", "power2", "fixed"}

ASSUME WriterAssumption ==
    /\ MaxChanges \in Nat /\ PayloadMin \in Nat \ {0} /\ PayloadMax \in Nat
    /\ EncryptParams \subseteq [chunk : 0..MaxU64, shard_size : 0..MaxU64, policy : Policies,
                                fixed : 0..MaxU64]

\* A directory entry: what it is, its content and its modification time.
Node(kind, bytes, mtime) == [kind |-> kind, bytes |-> bytes, mtime |-> mtime]
Nodes == [kind : {"file", "dir", "link", "special"}, bytes : Seq(Nat), mtime : Nat]

ASSUME TreesAssumption ==
    /\ PathOrder \in Seq(Seq(STRING))
    /\ \A t \in Trees :
          /\ DOMAIN t \subseteq {PathOrder[i] : i \in DOMAIN PathOrder}
          /\ \A p \in DOMAIN t : /\ t[p] \in Nodes /\ (t[p].kind = "dir" => t[p].bytes = << >>)
                                 /\ \A i \in DOMAIN p : p[i] # "."

VARIABLES input,    \* the input directory
          params,   \* CoreEncryptParams
          stage,    \* where core_encrypt and the writer are
          entries,  \* entries_: paths and the types the walk has seen
          index,    \* entry_index_
          reading,  \* the open file: << >> or its path, announced and read sizes
          header,   \* the planned public header
          raw,      \* raw_plaintext_size
          stream,   \* the records emitted, bytes_produced_ being their size
          changes   \* what happened to the input since the walk

wvars == <<input, params, stage, entries, index, reading, header, raw, stream, changes>>


Emit(r) == stream' = Append(stream, r)
Become(s) == stage' = s

\* current_file_*: the size announced, the bytes read, whether the end was met.
Reading(path, size, read, eof) == [path |-> path, size |-> size, read |-> read, eof |-> eof]

\* file_bytes_payload_size_ and one read() of that size.
PayloadSize == Max({PayloadMin, Min({PayloadMax, params.chunk \div 4})})
NextBytes(file) ==
    LET b == input[file.path].bytes
    IN  SubSeq(b, file.read + 1, Min({file.read + PayloadSize, Len(b)}))

\* validate_encrypt_params().
Validate ==
    /\ stage = "validate"
    /\ Become(IF ValidSizes(params) THEN "walk" ELSE "refused")
    /\ UNCHANGED <<input, params, entries, index, reading, header, raw, stream, changes>>

\* What one walk with skip_permission_denied can come across.  A directory is
\* seen before what is in it, and nothing is seen of what is in a directory that
\* may not be read.  After any other error the iterator equals its end, so the
\* loop is left before it looks at ec: of the directories entered by then, one
\* below the other, a part has been seen.
Walkable == {p \in DOMAIN input : input[p].kind # "link"}
HalfSeen(S) == {Front(p) : p \in S} \cap {Front(p) : p \in Walkable \ S}
CanSee(S) ==
    /\ S \subseteq Walkable
    /\ \A p \in S : \A i \in 1..(Len(p) - 1) : SubSeq(p, 1, i) \in S
    /\ \A p, q \in HalfSeen(S) : IsPrefix(p, q) \/ IsPrefix(q, p)

\* entries_, sorted by path, with the type the walk has seen.
Lists(S) ==
    LET kept == {i \in DOMAIN PathOrder : PathOrder[i] \in S}
    IN  \E s \in [1..Cardinality(kept) -> kept] :
           /\ \A i, j \in DOMAIN s : i < j => s[i] < s[j]
           /\ entries' = [i \in DOMAIN s |-> [path |-> PathOrder[s[i]],
                                             type |-> input[PathOrder[s[i]]].kind]]

\* ArchiveWriter's constructor: a root that is not a directory, or that cannot be
\* resolved, throws; otherwise what the walk comes across is listed, except for
\* symbolic links (core_encrypt never includes them).
Walk ==
    /\ stage = "walk"
    /\ \/ Become("plan") /\ \E S \in SUBSET Walkable : CanSee(S) /\ Lists(S)
       \/ Become("failed") /\ UNCHANGED entries
    /\ UNCHANGED <<input, params, index, reading, header, raw, stream, changes>>

\* metadata_for(): the entry as it is now.
MetadataThrows(e) == e.path \notin DOMAIN input \/ input[e.path].kind = "special"
MetadataFor(e) ==
    LET n == input[e.path] IN
    Metadata(n.kind, e.path, IF n.kind = "file" THEN Len(n.bytes) ELSE 0, n.mtime, << >>)

PlannedEntry(e) ==
    LET m == MetadataFor(e)
        entry == RecordPrefix + MetadataSize(m)
    IN  CASE e.type = "dir" -> entry
          [] e.type = "file" ->
                entry + CeilDiv(m.size, PayloadSize) * RecordPrefix + m.size + RecordPrefix
          [] OTHER -> 0

\* plan_plaintext_size().
PlanPlaintextSize ==
    RecordPrefix + VersionSize
        + SumUpTo([i \in DOMAIN entries |-> PlannedEntry(entries[i])], Len(entries))
        + RecordPrefix

\* core_encrypt(): the size, the padding and the header are fixed before the
\* first record is read.
Plan ==
    /\ stage = "plan"
    /\ IF \E i \in DOMAIN entries : entries[i].type # "special" /\ MetadataThrows(entries[i])
       THEN Become("failed") /\ UNCHANGED <<header, raw>>
       ELSE LET padded == ComputePadding(PlanPlaintextSize, params)
            IN  IF padded = Throws THEN Become("failed") /\ UNCHANGED <<header, raw>>
                ELSE /\ Become("begin")
                     /\ raw' = PlanPlaintextSize
                     /\ header' = <<Header(padded, params)>>
    /\ UNCHANGED <<input, params, entries, index, reading, stream, changes>>

----------------------------------------------------------------------------
\* next_record_bytes().
EmitBegin ==
    /\ stage = "begin"
    /\ Emit(BeginRecord) /\ Become("entries")
    /\ UNCHANGED <<input, params, entries, index, reading, header, raw, changes>>

\* The next entry: special files are skipped, the kind is the cached one and
\* the metadata that of now.  Opening a file may fail.
EmitEntry ==
    /\ stage = "entries" /\ reading = << >> /\ index <= Len(entries)
    /\ LET e == entries[index] IN
       IF e.type = "special" THEN UNCHANGED <<stage, stream, reading>>
       ELSE IF MetadataThrows(e) THEN Become("failed") /\ UNCHANGED <<stream, reading>>
       ELSE \/ /\ Emit(EntryRecord(IF e.type = "dir" THEN "Dir" ELSE "File", MetadataFor(e)))
               /\ reading' = IF e.type = "file"
                             THEN <<Reading(e.path, MetadataFor(e).size, 0, FALSE)>>
                             ELSE << >>
               /\ UNCHANGED stage
            \/ e.type = "file" /\ Become("failed") /\ UNCHANGED <<stream, reading>>
    /\ index' = index + 1
    /\ UNCHANGED <<input, params, entries, header, raw, changes>>

\* next_file_bytes_or_end(): a short read has met the end of the file, and the
\* stream reads no further even if the file grows.
EmitFileBytes ==
    /\ stage = "entries" /\ reading # << >>
    /\ LET f == reading[1] IN
       /\ ~f.eof /\ input[f.path].kind = "file" /\ NextBytes(f) # << >>
       /\ Emit(BytesRecord(NextBytes(f)))
       /\ reading' = <<Reading(f.path, f.size, f.read + Len(NextBytes(f)),
                               Len(NextBytes(f)) < PayloadSize)>>
    /\ UNCHANGED <<input, params, stage, entries, index, header, raw, changes>>

\* Nothing more to read: a read error or a size other than the announced one
\* throws.
EmitFileEnd ==
    /\ stage = "entries" /\ reading # << >>
    /\ LET f == reading[1] IN
       /\ f.eof \/ input[f.path].kind # "file" \/ NextBytes(f) = << >>
       /\ IF input[f.path].kind = "file" /\ f.read = f.size
          THEN Emit(MarkRecord("FileEnd")) /\ UNCHANGED stage
          ELSE Become("failed") /\ UNCHANGED stream
    /\ reading' = << >>
    /\ UNCHANGED <<input, params, entries, index, header, raw, changes>>

EmitEnd ==
    /\ stage = "entries" /\ reading = << >> /\ index > Len(entries)
    /\ Emit(MarkRecord("End")) /\ Become("padding")
    /\ UNCHANGED <<input, params, entries, index, reading, header, raw, changes>>

\* The trailing RandomPadding record that core_encrypt has prepared.
EmitPadding ==
    /\ stage = "padding"
    /\ LET gap == header[1].padded - raw
       IN  IF gap > 0 THEN Emit(PaddingRecord(gap - RecordPrefix)) ELSE UNCHANGED stream
    /\ Become("drained")
    /\ UNCHANGED <<input, params, entries, index, reading, header, raw, changes>>

\* Mutant: the produced size is not compared.
VerifyNothing ==
    /\ stage = "drained" /\ Become("written")
    /\ UNCHANGED <<input, params, entries, index, reading, header, raw, stream, changes>>

\* The pipeline's producer compares bytes_produced() with the planned size.
VerifyProduced ==
    /\ stage = "drained"
    /\ Become(IF StreamSize(stream) = header[1].padded THEN "written" ELSE "failed")
    /\ UNCHANGED <<input, params, entries, index, reading, header, raw, stream, changes>>

----------------------------------------------------------------------------
\* Another process at work in the input directory.  A file that is open when
\* it is removed stays as it is for the writer.
Busy == stage \in {"plan", "begin", "entries"} /\ Len(changes) < MaxChanges
Open(p) == reading # << >> /\ reading[1].path = p
Changed(how) ==
    /\ changes' = Append(changes, how)
    /\ UNCHANGED <<params, stage, entries, index, reading, header, raw, stream>>

GrowFile(p) ==
    /\ Busy /\ input[p].kind = "file"
    /\ input' = [input EXCEPT ![p] = Node("file", Append(@.bytes, 9), @.mtime)]
    /\ Changed("grow")
ShrinkFile(p) ==
    /\ Busy /\ input[p].kind = "file" /\ input[p].bytes # << >>
    /\ input' = [input EXCEPT ![p] = Node("file", Front(@.bytes), @.mtime)]
    /\ Changed("shrink")
Leaf(p) == \A q \in DOMAIN input : ~IsStrictPrefix(p, q)
RemoveEntry(p) ==
    /\ Busy /\ Leaf(p) /\ ~Open(p)
    /\ input' = [q \in DOMAIN input \ {p} |-> input[q]]
    /\ Changed("remove")
ReplaceEntry(p) ==
    /\ Busy /\ Leaf(p) /\ ~Open(p) /\ input[p].kind \in {"file", "dir"}
    /\ \E k \in {"file", "dir"} \ {input[p].kind} : input' = [input EXCEPT ![p] = Node(k, << >>, 5)]
    /\ Changed("replace")

Disturb == \E p \in DOMAIN input : GrowFile(p) \/ ShrinkFile(p) \/ RemoveEntry(p) \/ ReplaceEntry(p)

Encrypt ==
    \/ Validate \/ Walk \/ Plan
    \/ EmitBegin \/ EmitEntry \/ EmitFileBytes \/ EmitFileEnd \/ EmitEnd \/ EmitPadding
    \/ VerifyProduced

WriterInit ==
    /\ input \in Trees /\ params \in EncryptParams /\ stage = "validate"
    /\ entries = << >> /\ index = 1 /\ reading = << >>
    /\ header = << >> /\ raw = 0 /\ stream = << >> /\ changes = << >>
=============================================================================
