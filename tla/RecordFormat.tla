---------------------------- MODULE RecordFormat ----------------------------
(***************************************************************************)
(* The records of the inner archive (archive/RecordFormat, PathSanitizer). *)
(* A record is its type, the size of its payload and what the payload      *)
(* says: the version, an entry's metadata or the bytes of a file.  A path  *)
(* is the sequence of its components; "/" as the first one stands for an   *)
(* absolute path.                                                          *)
(***************************************************************************)
EXTENDS Integers, SequencesExt

CONSTANTS RecordPrefix,     \* kRecordPrefixSize
          MetaSize,         \* encoded size of an entry's metadata without its path
          MaxRecordPayload  \* kMaxRecordPayloadBytes

ASSUME RecordAssumption == RecordPrefix \in Nat \ {0} /\ MetaSize \in Nat /\ MaxRecordPayload \in Nat

Version == 1
VersionSize == 1
RecordTypes == {"Begin", "Dir", "File", "Bytes", "FileEnd", "Link", "End", "Padding"}

MakeRecord(type, size, body) == [type |-> type, size |-> size, body |-> body]
Metadata(kind, path, size, mtime, target) ==
    [kind |-> kind, path |-> path, size |-> size, mtime |-> mtime, target |-> target]

\* serialize_entry_metadata(): only the path and the target vary in length.
MetadataSize(m) == MetaSize + Len(m.path) + Len(m.target)

BeginRecord == MakeRecord("Begin", VersionSize, Version)
EntryRecord(type, m) == MakeRecord(type, MetadataSize(m), m)
BytesRecord(bytes) == MakeRecord("Bytes", Len(bytes), bytes)
MarkRecord(type) == MakeRecord(type, 0, << >>)
PaddingRecord(size) == MakeRecord("Padding", size, << >>)

\* serialize_record(): the prefix and the payload.
EncodedSize(r) == RecordPrefix + r.size

\* The sum of the first n of the sizes w.
SumUpTo(w, n) ==
    LET upto[k \in 0..n] == IF k = 0 THEN 0 ELSE upto[k - 1] + w[k] IN upto[n]
StreamSize(s) == SumUpTo([i \in DOMAIN s |-> EncodedSize(s[i])], Len(s))

\* Mutant: a record is taken as soon as its prefix is there.
FramingEager(available, r) ==
    IF available < RecordPrefix THEN "incomplete"
    ELSE IF r.type \notin RecordTypes \/ r.size > MaxRecordPayload THEN "invalid" ELSE "complete"

\* encoded_record_size_if_complete() when the buffer holds `available' bytes,
\* the first ones being those of r: its prefix is judged before its payload is
\* there.
Framing(available, r) ==
    IF available < RecordPrefix THEN "incomplete"
    ELSE IF r.type \notin RecordTypes \/ r.size > MaxRecordPayload THEN "invalid"
    ELSE IF available < EncodedSize(r) THEN "incomplete" ELSE "complete"

\* is_safe_relative_path().
SafePath(p) == p # << >> /\ p[1] # "/" /\ \A i \in DOMAIN p : p[i] \notin {"..", ""}

\* make_safe_output_path(): lexically_normal() drops the "." components.
NormalPath(p) ==
    LET kept[i \in 0..Len(p)] ==
            IF i = 0 THEN << >>
            ELSE IF p[i] = "." THEN kept[i - 1] ELSE Append(kept[i - 1], p[i])
    IN  kept[Len(p)]

\* parse_entry_metadata().
ValidMetadata(m) ==
    /\ m.kind \in {"file", "dir", "link"}
    /\ m.path # <<".">> /\ SafePath(m.path)
    /\ m.kind # "link" => m.target = << >>
    /\ m.kind \in {"dir", "link"} => m.size = 0
=============================================================================
