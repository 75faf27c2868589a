---------------------------- MODULE ArchiveReader ----------------------------
(***************************************************************************)
(* core_decrypt around archive/ArchiveReader and archive/SafeOutputTree:   *)
(* the plaintext arrives chunk by chunk, complete records are taken out    *)
(* of it and extracted into a temporary tree, and finish() promotes that   *)
(* tree entry by entry into the output directory.  Every system call may   *)
(* fail, and another process may create a file in the output meanwhile.    *)
(* Chunks arrive in order and authenticated (DecryptPipeline).             *)
(***************************************************************************)
EXTENDS ArchiveWriter

CONSTANTS DecryptParams,  \* overwrite, hardened, durable
          Outputs,        \* the output at the start: << >> (none) or <<tree>>
          IntruderPaths   \* what another process may create in the output

VARIABLES rpc,       \* where core_decrypt is
          dparams,   \* CoreDecryptParams
          cut,       \* bytes missing at the end of the stream
          arrived,   \* bytes given to consume()
          taken,     \* bytes of the records processed; the rest is pending_
          records,   \* number of records processed
          begun, ended,  \* archive_begin_seen_, archive_end_seen_
          file,      \* current_file_*: << >> or metadata and bytes written
          temp,      \* the temporary tree: << >> (none) or <<tree>>
          deferred,  \* deferred_directory_metadata_
          todo,      \* paths commit_temp_tree has still to promote
          checked,   \* the path rename_into has found free: << >> or <<path>>
          out, exists, existed,  \* the output tree, whether its root exists, and did before
          before, promoted, intruders, cause, leftover  \* observations

parse_vars == <<arrived, taken, records, begun, ended, file>>
tree_vars == <<temp, deferred, todo, checked>>
out_vars == <<out, exists>>
seen_vars == <<before, promoted, intruders, cause, leftover>>
rvars == <<rpc, dparams, cut, parse_vars, tree_vars, out_vars, existed, seen_vars>>

Now == 0
Total == StreamSize(stream) - cut
Rec == stream[records + 1]
Tmp == temp[1]

----------------------------------------------------------------------------
\* Trees.  Changing a directory's entries changes its modification time.
Parent(p) == Front(p)
AndAncestors(p) == {SubSeq(p, 1, i) : i \in 1..Len(p)}
Touched(t, qs) == [q \in DOMAIN t |-> IF q \in qs THEN Node(t[q].kind, t[q].bytes, Now) ELSE t[q]]
PutNode(t, p, n) ==
    LET u == Touched(t, {Parent(p)}) IN [q \in DOMAIN t \cup {p} |-> IF q = p THEN n ELSE u[q]]
DropTree(t, p) ==
    LET u == Touched(t, {Parent(p)}) IN [q \in {q \in DOMAIN u : ~IsPrefix(p, q)} |-> u[q]]
DirsPossible(t, p) == \A q \in AndAncestors(p) \cap DOMAIN t : t[q].kind = "dir"
MakeDirs(t, p) ==
    LET new == AndAncestors(p) \ DOMAIN t
        u == Touched(t, {Parent(q) : q \in new})
    IN  [q \in DOMAIN t \cup new |-> IF q \in new THEN Node("dir", << >>, Now) ELSE u[q]]

\* A tree is closed: what is above a path is there and is a directory.
Tree(t) ==
    /\ DOMAIN t \subseteq Seq(STRING) \ {<< >>}
    /\ \A p \in DOMAIN t : \A i \in 1..(Len(p) - 1) :
          SubSeq(p, 1, i) \in DOMAIN t /\ t[SubSeq(p, 1, i)].kind = "dir"

\* A directory has no content.
DirsEmpty(t) ==
    \A p \in DOMAIN t : t[p].kind = "dir" => t[p] = Node("dir", << >>, t[p].mtime)

\* What a walk of a directory yields.
ASSUME InputsAssumption == \A t \in Trees : Tree(t) /\ \A p \in DOMAIN t : SafePath(p)

ASSUME OutputsAssumption ==
    /\ \A o \in Outputs : o = << >> \/ (o = <<o[1]>> /\ Tree(o[1]) /\ DirsEmpty(o[1]))
    /\ IntruderPaths \subseteq Seq(STRING) \ {<< >>}

Throw(why) == rpc' = "unwind" /\ cause' = why

----------------------------------------------------------------------------
\* validate_decrypt_params() and the creation of the output directory.
OpenDecrypt(o, dp) ==
    /\ rpc = "idle" /\ stage = "written"
    /\ dparams' = dp
    /\ out' = IF o = << >> THEN << >> ELSE o[1]
    /\ before' = out' /\ existed' = (o # << >>)
    /\ IF o # << >> /\ ~dp.overwrite /\ DOMAIN o[1] # {}
       THEN rpc' = "refused" /\ exists' = TRUE
       ELSE \/ rpc' = "discover" /\ exists' = TRUE
            \/ rpc' = "failed" /\ exists' = (o # << >>)
    /\ UNCHANGED <<cut, parse_vars, tree_vars, promoted, intruders, cause, leftover>>

\* Shards are discovered, keys derived and MACs verified, or not.
Discover ==
    /\ rpc = "discover"
    /\ \/ rpc' = "construct" /\ UNCHANGED cause
       \/ rpc' = "catch" /\ cause' = "fault"
    /\ UNCHANGED <<dparams, cut, parse_vars, tree_vars, out_vars, existed, before, promoted,
                   intruders, leftover>>

\* ArchiveReader's constructor creates the temporary directory.  If it throws
\* there is no reader to clean up.
Construct ==
    /\ rpc = "construct"
    /\ \/ rpc' = "feed" /\ temp' = << << >> >> /\ UNCHANGED cause
       \/ rpc' = "catch" /\ cause' = "fault" /\ UNCHANGED temp
    /\ UNCHANGED <<dparams, cut, parse_vars, deferred, todo, checked, out_vars, existed,
                   before, promoted, intruders, leftover>>

\* consume(): one more chunk is appended to pending_; or a stage of the
\* pipeline fails and the reader gets no more.
Consume ==
    /\ rpc = "feed" /\ arrived < Total
    /\ \/ /\ arrived' = Min({arrived + params.chunk, Total})
          /\ rpc' = "parse" /\ UNCHANGED cause
       \/ Throw("fault") /\ UNCHANGED arrived
    /\ UNCHANGED <<dparams, cut, taken, records, begun, ended, file, tree_vars, out_vars,
                   existed, before, promoted, intruders, leftover>>

\* The loop of consume() ends when no complete record is left.
Arriving == IF records = Len(stream) THEN "incomplete" ELSE Framing(arrived - taken, Rec)
NeedMore ==
    /\ rpc = "parse" /\ Arriving = "incomplete"
    /\ rpc' = "feed"
    /\ UNCHANGED <<dparams, cut, parse_vars, tree_vars, out_vars, existed, seen_vars>>

----------------------------------------------------------------------------
\* process_record() and its handlers: what each demands.
BeginAllowed(r) == ~begun /\ r.size = VersionSize /\ r.body = Version
DirAllowed(m) == /\ begun /\ ValidMetadata(m) /\ m.kind = "dir"
                 /\ DirsPossible(Tmp, NormalPath(m.path))

FileAllowed(m) ==
    /\ begun /\ file = << >> /\ ValidMetadata(m) /\ m.kind = "file"
    /\ LET p == NormalPath(m.path) IN
       p # << >> /\ DirsPossible(Tmp, Parent(p)) /\ (p \in DOMAIN Tmp => Tmp[p].kind = "file")
BytesAllowed(b) == file # << >> /\ Len(b) <= file[1].meta.size - file[1].written
FileEndAllowed == file # << >> /\ file[1].written = file[1].meta.size
LinkAllowed == FALSE  \* core_decrypt: allow_symlinks = false
EndAllowed == begun /\ file = << >>

Allowed(r) ==
    /\ ended => r.type = "Padding"
    /\ CASE r.type = "Begin" -> BeginAllowed(r)
         [] r.type = "Dir" -> DirAllowed(r.body)
         [] r.type = "File" -> FileAllowed(r.body)
         [] r.type = "Bytes" -> BytesAllowed(r.body)
         [] r.type = "FileEnd" -> FileEndAllowed
         [] r.type = "Link" -> LinkAllowed
         [] r.type = "End" -> EndAllowed
         [] r.type = "Padding" -> ended

\* A record that framing or its handler refuses, or whose system call fails.
RejectRecord ==
    /\ rpc = "parse"
    /\ \/ Arriving = "invalid" /\ Throw("reject")
       \/ Arriving = "complete" /\ ~Allowed(Rec) /\ Throw("reject")
       \/ /\ Arriving = "complete" /\ Allowed(Rec)
          /\ Rec.type \in {"Dir", "File", "Bytes", "FileEnd"} /\ Throw("fault")
    /\ UNCHANGED <<dparams, cut, parse_vars, tree_vars, out_vars, existed, before, promoted,
                   intruders, leftover>>

Process(type) ==
    /\ rpc = "parse" /\ Arriving = "complete" /\ Rec.type = type /\ Allowed(Rec)
    /\ records' = records + 1 /\ taken' = taken + EncodedSize(Rec)
    /\ UNCHANGED <<rpc, dparams, cut, arrived, todo, checked, out_vars, existed, seen_vars>>

\* begin_archive(), ArchiveEnd and RandomPadding.
BeginArchive == Process("Begin") /\ begun' = TRUE /\ UNCHANGED <<ended, file, temp, deferred>>
EndArchive == Process("End") /\ ended' = TRUE /\ UNCHANGED <<begun, file, temp, deferred>>
SkipPadding == Process("Padding") /\ UNCHANGED <<begun, ended, file, temp, deferred>>

\* Mutant: the metadata of a directory is applied at once.
CreateDirectoryNow ==
    /\ Process("Dir")
    /\ LET p == NormalPath(Rec.body.path)
       IN  temp' = <<[q \in DOMAIN MakeDirs(Tmp, p) |->
                        IF q = p THEN Node("dir", << >>, Rec.body.mtime) ELSE MakeDirs(Tmp, p)[q]]>>
    /\ UNCHANGED <<begun, ended, file, deferred>>

\* create_directory(): its metadata has to wait for its children.
CreateDirectory ==
    /\ Process("Dir")
    /\ temp' = <<MakeDirs(Tmp, NormalPath(Rec.body.path))>>
    /\ deferred' = deferred \cup {Rec.body}
    /\ UNCHANGED <<begun, ended, file>>

\* begin_file(), write_file_bytes() and end_file().
OpenFile(meta, written) == [meta |-> meta, written |-> written]
BeginFile ==
    /\ Process("File")
    /\ LET p == NormalPath(Rec.body.path)
       IN  temp' = <<PutNode(MakeDirs(Tmp, Parent(p)), p, Node("file", << >>, Now))>>
    /\ file' = <<OpenFile(Rec.body, 0)>>
    /\ UNCHANGED <<begun, ended, deferred>>
WriteFileBytes ==
    /\ Process("Bytes")
    /\ temp' = <<[Tmp EXCEPT ![NormalPath(file[1].meta.path)] =
                        Node(@.kind, @.bytes \o Rec.body, @.mtime)]>>
    /\ file' = <<OpenFile(file[1].meta, file[1].written + Len(Rec.body))>>
    /\ UNCHANGED <<begun, ended, deferred>>
EndFile ==
    /\ Process("FileEnd")
    /\ temp' = <<[Tmp EXCEPT ![NormalPath(file[1].meta.path)] =
                        Node(@.kind, @.bytes, file[1].meta.mtime)]>>
    /\ file' = << >>
    /\ UNCHANGED <<begun, ended, deferred>>

ProcessRecord ==
    \/ BeginArchive \/ CreateDirectory \/ BeginFile \/ WriteFileBytes \/ EndFile
    \/ EndArchive \/ SkipPadding \/ RejectRecord

----------------------------------------------------------------------------
\* The consumer compares the plaintext's length with the header before it calls
\* finish().
LengthMatches == header # << >> => arrived = header[1].padded

\* Mutant: finish() does not look for ArchiveEnd.
CompleteWithoutEnd == arrived = taken /\ begun /\ file = << >> /\ LengthMatches

\* finish(): what must hold before anything is promoted.
Complete == arrived = taken /\ begun /\ ended /\ file = << >> /\ LengthMatches

Finish ==
    /\ rpc = "feed" /\ arrived = Total
    /\ \/ Complete /\ rpc' = "promote" /\ todo' = DOMAIN Tmp /\ UNCHANGED cause
       \/ ~Complete /\ Throw("reject") /\ UNCHANGED todo
       \/ Complete /\ Throw("fault") /\ UNCHANGED todo
    /\ UNCHANGED <<dparams, cut, parse_vars, temp, deferred, checked, out_vars, existed,
                   before, promoted, intruders, leftover>>

\* commit_temp_tree(): parents before children, otherwise in any order.
NextToPromote(p) == p \in todo /\ \A q \in todo : Len(p) <= Len(q)

PromoteFails ==
    /\ Throw("fault")
    /\ UNCHANGED <<todo, checked, out, temp, promoted>>

\* Mutant: with --overwrite a file in the way of a directory is removed.
PromoteDirForced(p) ==
    /\ rpc = "promote" /\ NextToPromote(p) /\ Tmp[p].kind = "dir"
    /\ out' = MakeDirs(IF DirsPossible(out, p) THEN out ELSE DropTree(out, p), p)
    /\ todo' = todo \ {p}
    /\ UNCHANGED <<rpc, cause, checked, temp, promoted>>
    /\ UNCHANGED <<dparams, cut, parse_vars, deferred, exists, existed, before, intruders, leftover>>

\* ensure_dirs(): an existing directory is kept; a file or a link in the way
\* is an error.
PromoteDir(p) ==
    /\ rpc = "promote" /\ NextToPromote(p) /\ Tmp[p].kind = "dir"
    /\ \/ /\ DirsPossible(out, p)
          /\ out' = MakeDirs(out, p) /\ todo' = todo \ {p}
          /\ UNCHANGED <<rpc, cause, checked, temp, promoted>>
       \/ PromoteFails
    /\ UNCHANGED <<dparams, cut, parse_vars, deferred, exists, existed, before, intruders, leftover>>

\* Mutant: rename_into() does not ask whether it may overwrite.
MayReplaceAnything(p) == out[p].kind # "dir" \/ ~dparams.hardened

\* rename_into(): an entry in the way is replaced only with --overwrite, a
\* directory only by the portable code.
MayReplace(p) == dparams.overwrite /\ (out[p].kind # "dir" \/ ~dparams.hardened)

\* rename_into(), first part: what is in the way is removed.  remove_all() may
\* stop with part of a directory gone.
PromoteCheck(p) ==
    /\ rpc = "promote" /\ NextToPromote(p) /\ Tmp[p].kind # "dir"
    /\ \/ /\ DirsPossible(out, Parent(p))
          /\ p \in DOMAIN out => MayReplace(p)
          /\ out' = DropTree(out, p)
          /\ checked' = <<p>> /\ rpc' = "rename"
          /\ UNCHANGED <<todo, temp, promoted, cause>>
       \/ /\ p \in DOMAIN out /\ out[p].kind = "dir" /\ MayReplace(p)
          /\ out' = [q \in {q \in DOMAIN out : ~IsStrictPrefix(p, q)} |-> out[q]]
          /\ checked' = <<p>> /\ Throw("fault")
          /\ UNCHANGED <<todo, temp, promoted>>
       \/ PromoteFails
    /\ UNCHANGED <<dparams, cut, parse_vars, deferred, exists, existed, before, intruders, leftover>>

\* rename_into(), second part: rename() replaces whatever file is there by
\* now.  Then the file is flushed, which may fail with --durability=on.
PromoteRename ==
    /\ rpc = "rename"
    /\ LET p == checked[1] IN
       \/ /\ out' = PutNode(out, p, Tmp[p])
          /\ temp' = <<DropTree(Tmp, p)>>
          /\ todo' = todo \ {p} /\ promoted' = promoted \cup {p} /\ checked' = << >>
          /\ \/ rpc' = "promote" /\ UNCHANGED cause
             \/ dparams.durable /\ Throw("fault")
       \/ PromoteFails
    /\ UNCHANGED <<dparams, cut, parse_vars, deferred, exists, existed, before, intruders, leftover>>

\* Everything is promoted: the output directory is flushed.
PromoteEnd ==
    /\ rpc = "promote" /\ todo = {}
    /\ \/ rpc' = "metadata" /\ UNCHANGED cause
       \/ dparams.durable /\ Throw("fault")
    /\ UNCHANGED <<dparams, cut, parse_vars, tree_vars, out_vars, existed, before, promoted,
                   intruders, leftover>>

\* apply_deferred_directory_metadata(): deepest directories first.
DeepestDeferred(m) == m \in deferred /\ \A d \in deferred : Len(m.path) >= Len(d.path)

ApplyMetadata(m) ==
    /\ rpc = "metadata" /\ DeepestDeferred(m)
    /\ \/ /\ out' = [q \in DOMAIN out |-> IF q = NormalPath(m.path)
                                          THEN Node(out[q].kind, out[q].bytes, m.mtime)
                                          ELSE out[q]]
          /\ deferred' = deferred \ {m} /\ UNCHANGED <<rpc, cause>>
       \/ Throw("fault") /\ UNCHANGED <<out, deferred>>
    /\ UNCHANGED <<dparams, cut, parse_vars, temp, todo, checked, exists, existed, before,
                   promoted, intruders, leftover>>

\* cleanup_temp_tree() ignores errors.
RemoveTemp ==
    \/ temp' = << >> /\ UNCHANGED leftover
    \/ leftover' = TRUE /\ UNCHANGED temp

FinishCleanup ==
    /\ rpc = "metadata" /\ deferred = {}
    /\ RemoveTemp /\ rpc' = "success"
    /\ UNCHANGED <<dparams, cut, parse_vars, deferred, todo, checked, out_vars, existed,
                   before, promoted, intruders, cause>>

\* ~ArchiveReader() while the exception leaves run().
Unwind ==
    /\ rpc = "unwind"
    /\ RemoveTemp /\ rpc' = "catch"
    /\ UNCHANGED <<dparams, cut, parse_vars, deferred, todo, checked, out_vars, existed,
                   before, promoted, intruders, cause>>

\* Mutant: the output directory is never removed.
CatchKeeps ==
    /\ rpc = "catch" /\ rpc' = "failed"
    /\ UNCHANGED <<dparams, cut, parse_vars, tree_vars, out_vars, existed, seen_vars>>

\* core_decrypt's catch block: an output directory that did not exist before
\* and is empty is removed.
Catch ==
    /\ rpc = "catch" /\ rpc' = "failed"
    /\ IF ~existed /\ DOMAIN out = {} /\ temp = << >>
       THEN \/ exists' = FALSE /\ UNCHANGED leftover
            \/ leftover' = TRUE /\ UNCHANGED exists
       ELSE UNCHANGED <<exists, leftover>>
    /\ UNCHANGED <<dparams, cut, parse_vars, tree_vars, out, existed, before, promoted,
                   intruders, cause>>

\* Another process creates a file in the output directory.
Intrude(p) ==
    /\ rpc \notin {"idle", "success", "failed", "refused"} /\ intruders = {}
    /\ p \notin DOMAIN out /\ (Len(p) > 1 => Parent(p) \in DOMAIN out /\ out[Parent(p)].kind = "dir")
    /\ out' = PutNode(out, p, Node("file", <<8>>, 7))
    /\ intruders' = {p}
    /\ UNCHANGED <<rpc, dparams, cut, parse_vars, tree_vars, exists, existed, before, promoted,
                   cause, leftover>>

Decrypt ==
    \/ \E o \in Outputs, dp \in DecryptParams : OpenDecrypt(o, dp)
    \/ Discover \/ Construct \/ Consume \/ NeedMore \/ ProcessRecord \/ Finish
    \/ \E p \in todo : PromoteDir(p) \/ PromoteCheck(p)
    \/ PromoteRename \/ PromoteEnd \/ (\E m \in deferred : ApplyMetadata(m)) \/ FinishCleanup
    \/ Unwind \/ Catch

ReaderInit ==
    /\ rpc = "idle" /\ dparams = << >> /\ arrived = 0 /\ taken = 0 /\ records = 0
    /\ begun = FALSE /\ ended = FALSE /\ file = << >> /\ temp = << >> /\ deferred = {}
    /\ todo = {} /\ checked = << >> /\ out = << >> /\ exists = FALSE /\ existed = FALSE
    /\ before = << >> /\ promoted = {} /\ intruders = {} /\ cause = "none" /\ leftover = FALSE
=============================================================================
