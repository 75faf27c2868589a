-------------------------- MODULE ArchiveRoundTrip --------------------------
(***************************************************************************)
(* Encryption of a directory followed by decryption of the archive: the    *)
(* archive writer and the archive reader with the layout between them.     *)
(* The reader is also given streams that this writer did not produce.      *)
(***************************************************************************)
EXTENDS ArchiveReader

CONSTANT ForeignStreams   \* records and the number of bytes cut off the last one

ASSUME ForeignAssumption ==
    \A f \in ForeignStreams :
        /\ Len(f.records) \in Nat /\ DOMAIN f.records = 1..Len(f.records)
        /\ \A i \in DOMAIN f.records : LET r == f.records[i] IN
              /\ r.size \in Nat /\ (r.type \in {"Dir", "File"} => r.body.path \in Seq(STRING))
              /\ r.type = "Bytes" => r.body \in Seq(Nat)
        /\ f.cut \in 0..StreamSize(f.records)
        /\ f.cut > 0 => f.cut < EncodedSize(f.records[Len(f.records)])

vars == <<wvars, rvars>>

\* An archive some other program wrote: its shards are in order, its records
\* need not be.
ForeignInit(f) ==
    /\ input = << >> /\ stage = "written"
    /\ params \in {p \in EncryptParams : ValidSizes(p) /\ p.policy = "none"}
    /\ entries = << >> /\ index = 1 /\ reading = << >> /\ header = << >> /\ raw = 0
    /\ stream = f.records /\ cut = f.cut /\ changes = <<"foreign">>

Init ==
    /\ \/ WriterInit /\ cut = 0
       \/ \E f \in ForeignStreams : ForeignInit(f)
    /\ ReaderInit

Ended == rpc \in {"success", "failed", "refused"} \/ stage \in {"failed", "refused"}

Next ==
    \/ (Encrypt \/ Disturb) /\ UNCHANGED rvars
    \/ (Decrypt \/ \E p \in IntruderPaths : Intrude(p)) /\ UNCHANGED wvars
    \/ Ended /\ UNCHANGED vars

Spec == Init /\ [][Next]_vars

----------------------------------------------------------------------------
\* What a stream of records says, by its text alone.
At(type) == {i \in DOMAIN stream : stream[i].type = type}
Paths(type) == {NormalPath(stream[i].body.path) : i \in At(type)}
FileEndOf(i) == Min({j \in At("FileEnd") : j > i} \cup {Len(stream) + 1})
BytesBetween(s, i, j) ==
    LET upto[k \in 0..j] ==
            IF k <= i THEN << >>
            ELSE IF s[k].type = "Bytes" THEN upto[k - 1] \o s[k].body ELSE upto[k - 1]
    IN  upto[j]
Content(i) == BytesBetween(stream, i, FileEndOf(i) - 1)
DescribedFile(p) ==
    LET i == Max({i \in At("File") : NormalPath(stream[i].body.path) = p})
    IN  Node("file", Content(i), stream[i].body.mtime)
DescribedDirs ==
    (Paths("Dir") \cup UNION {AndAncestors(Parent(p)) : p \in Paths("Dir") \cup Paths("File")})
        \ {<< >>}

\* The archives the format allows: Begin, entries, End, padding.
WellFormed ==
    /\ stream # << >> /\ At("Begin") = {1} /\ stream[1].body = Version
    /\ \E e \in At("End") :
          /\ At("End") = {e} /\ At("Padding") = (e + 1)..Len(stream)
          /\ \A i \in At("File") : FileEndOf(i) < e
    /\ At("Link") = {} /\ \A i \in DOMAIN stream : stream[i].type \in RecordTypes
    /\ \A i \in At("Dir") \cup At("File") :
          LET m == stream[i].body IN m.path # <<".">> /\ SafePath(m.path)
    /\ \A i \in At("File") :
          /\ Len(Content(i)) = stream[i].body.size
          /\ \A j \in At("File") : i < j => FileEndOf(i) < j
    /\ \A j \in At("Bytes") \cup At("FileEnd") :
          \E i \in At("File") : i < j /\ j <= FileEndOf(i)

----------------------------------------------------------------------------
\* Types of the variables.
TypeOK ==
    /\ stage \in {"validate", "refused", "walk", "plan", "begin", "entries", "padding",
                  "drained", "written", "failed"}
    /\ rpc \in {"idle", "refused", "discover", "construct", "feed", "parse", "promote", "rename",
                "metadata", "success", "unwind", "catch", "failed"}
    /\ taken <= arrived /\ arrived <= Total /\ records <= Len(stream)
    /\ Len(reading) <= 1 /\ Len(file) <= 1 /\ Len(temp) <= 1 /\ Len(checked) <= 1
    /\ rpc \in {"promote", "rename"} => todo \subseteq DOMAIN Tmp
    /\ file # << >> /\ temp # << >> => NormalPath(file[1].meta.path) \in DOMAIN Tmp
    /\ checked # << >> => checked[1] \in todo
    /\ DOMAIN out # {} => exists

\* The public header core_encrypt plans is one that decryption accepts, for
\* every size and policy, what is missing to the padded size has room for a
\* padding record, and if nothing disturbs the run the records produced have
\* exactly the announced size: encryption fails only for a file it cannot open.
\* plan_plaintext_size() does not look for overflow; the sizes are those it can
\* hold.
AnnouncedLayout ==
    header # << >> /\ raw <= MaxU64 =>
        /\ ParseGlobal(header[1])
        /\ header[1].padded >= raw
        /\ header[1].padded - raw = 0 \/ header[1].padded - raw >= RecordPrefix
        /\ stage = "drained" /\ changes = << >> => StreamSize(stream) = header[1].padded

\* Every archive that encryption reports as written is read back: no record
\* of it is refused, however the policy padded it and whatever happened to
\* the files meanwhile, unless an entry was replaced by one of another kind.
WrittenIsReadable ==
    cause = "reject" => \E i \in DOMAIN changes : changes[i] \in {"foreign", "replace"}

\* Decryption restores what the walk has listed, and nothing else: kinds, contents
\* and times of all files and directories.  What is missing of the input is what
\* a walk can miss: the content of directories that may not be read and, if the
\* walk broke off, what it had not come to.
Listing == {entries[i].path : i \in DOMAIN entries}
RoundTrip ==
    rpc = "success" /\ changes = << >> /\ intruders = {} =>
        /\ CanSee(Listing)
        /\ \A p \in Listing :
              input[p].kind \in {"file", "dir"} => p \in DOMAIN out /\ out[p] = input[p]
        /\ DOMAIN out \subseteq Listing \cup DOMAIN before

\* "Given the correct secrets and unmodified output files, restoration should
\* reproduce the protected directory tree" (docs/INCENTIVE.md): every file and
\* directory of the input is in the output of a decryption that succeeds.
TreeReproduced ==
    rpc = "success" /\ changes = << >> =>
        \A p \in DOMAIN input : input[p].kind \in {"file", "dir"} => p \in DOMAIN out

\* Decryption succeeds only for archives of the format, and the output then
\* holds exactly what the records say.
SuccessIsExact ==
    rpc = "success" =>
        /\ WellFormed /\ cut = 0
        /\ \A p \in Paths("File") : p \in DOMAIN out /\ out[p] = DescribedFile(p)
        /\ \A p \in DescribedDirs : p \in DOMAIN out /\ out[p].kind = "dir"
        /\ \A p \in DOMAIN out : \/ p \in Paths("File") \cup DescribedDirs \cup intruders
                                 \/ p \in DOMAIN before /\ out[p].kind = before[p].kind

\* At any moment, failures included, a path of the output holds what it held
\* before or the archive's complete entry; only the path whose rename failed
\* may have lost its old entry; and the archive's entries appear only when
\* all of it has been read.
Removed == promoted \cup {checked[i] : i \in DOMAIN checked}
Replaceable(p) == dparams.overwrite /\ \E c \in Removed : IsPrefix(c, p)
OutputConsistent ==
    rpc \notin {"idle", "refused"} =>
        /\ \A p \in DOMAIN before \ DOMAIN out : Replaceable(p)
        /\ \A p \in DOMAIN out \ intruders :
              \/ p \in DOMAIN before /\ out[p].kind = before[p].kind /\ out[p].bytes = before[p].bytes
              \/ /\ arrived = Total /\ Complete
                 /\ IF p \in promoted THEN out[p] = DescribedFile(p)
                    ELSE p \in DescribedDirs \ DOMAIN before /\ out[p].kind = "dir"

\* Without --overwrite no file is replaced or removed that decryption did not
\* put there itself, whenever it was created, unless it appears between the
\* look at its path and the rename.
OthersKept ==
    [][rpc # "idle" /\ ~dparams.overwrite =>
         \A p \in DOMAIN out \ promoted :
            out[p].kind = "file" /\ checked # <<p>> => p \in DOMAIN out' /\ out'[p] = out[p]]_vars

\* Nothing is left behind: the temporary tree is gone, and so is an output
\* directory that a failed decryption created and put nothing into.
NoDebris ==
    rpc \in {"success", "failed"} /\ ~leftover =>
        temp = << >> /\ (rpc = "failed" /\ ~existed /\ DOMAIN out = {} => ~exists)

\* A decryption that fails leaves nothing of the archive in the output.
AllOrNothing == rpc = "failed" => promoted = {}
=============================================================================
