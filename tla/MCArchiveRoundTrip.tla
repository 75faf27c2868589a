------------------------- MODULE MCArchiveRoundTrip -------------------------
(***************************************************************************)
(* Model checking of ArchiveRoundTrip, scaled down: 6-bit sizes, record    *)
(* prefixes of 3 bytes, chunks of 8 and file payloads of 2.                *)
(***************************************************************************)
EXTENDS ArchiveRoundTrip

d == <<"d">>
e == <<"d", "e">>
f == <<"d", "f">>
g == <<"g">>
MCPathOrder == <<d, e, f, g, <<"l">>, <<"s">>>>

Bytes(n) == [i \in 1..n |-> i]
Dir(t) == Node("dir", << >>, t)
File(n, t) == Node("file", Bytes(n), t)

\* A single file of every size up to three payloads, a directory of which a walk
\* may see a part, and all kinds of entries.
MCTrees ==
    {<< >>, (d :> Dir(3)),
     (g :> File(1, 4)) @@ (<<"l">> :> Node("link", << >>, 1))
        @@ (<<"s">> :> Node("special", << >>, 1)),
     (d :> Dir(3)) @@ (e :> File(0, 5)) @@ (f :> File(1, 4)),
     (d :> Dir(3)) @@ (f :> File(3, 4)) @@ (g :> File(0, 5)) @@ (<<"l">> :> Node("link", << >>, 1))}
    \cup {(g :> File(n, 4)) : n \in 2..6}

Params(chunk, shard, policy, fixed) ==
    [chunk |-> chunk, shard_size |-> shard, policy |-> policy, fixed |-> fixed]
MCEncryptParams ==
    {Params(8, 20, p, 0) : p \in {"none", "chunk", "power2"}}
    \cup {Params(8, 20, "fixed", 32), Params(8, 20, "fixed", 20), Params(6, 20, "none", 0),
          Params(8, 9, "none", 0)}
MCPower2 == {Params(8, 20, "power2", 0)}

Decryption(overwrite, hardened, durable) ==
    [overwrite |-> overwrite, hardened |-> hardened, durable |-> durable]
MCDecryptParams ==
    {Decryption(FALSE, TRUE, TRUE), Decryption(TRUE, TRUE, FALSE), Decryption(TRUE, FALSE, TRUE)}
MCFresh == {Decryption(FALSE, TRUE, TRUE)}

\* Nothing, an empty directory, old files, a file in the way of a directory,
\* a directory in the way of a file.
Old == Node("file", <<7>>, 6)
MCOutputs ==
    {<< >>, << << >> >>, <<(g :> Old) @@ (d :> Dir(2))>>, <<(d :> Old)>>,
     <<(g :> Dir(2)) @@ (<<"g", "x">> :> Old)>>, <<(g :> Node("link", << >>, 2))>>}
MCNoOutput == {<< >>}

\* Another writer's archive, and what differs from it in one record.
Base ==
    <<BeginRecord, EntryRecord("Dir", Metadata("dir", d, 0, 3, << >>)),
      EntryRecord("File", Metadata("file", f, 3, 4, << >>)), BytesRecord(<<1, 2>>),
      BytesRecord(<<3>>), MarkRecord("FileEnd"), MarkRecord("End"), PaddingRecord(2)>>
Odd ==
    {BeginRecord, MakeRecord("Begin", 1, 2), EntryRecord("Dir", Metadata("dir", <<"..">>, 0, 3, << >>)),
     EntryRecord("Dir", Metadata("dir", <<".">>, 0, 3, << >>)),
     EntryRecord("Dir", Metadata("dir", g, 1, 3, << >>)), EntryRecord("Dir", Metadata("dir", f, 0, 3, << >>)),
     EntryRecord("Dir", Metadata("dir", g, 0, 3, << >>)),
     EntryRecord("File", Metadata("file", <<".", "g">>, 0, 4, << >>)),
     EntryRecord("File", Metadata("file", d, 0, 4, << >>)), EntryRecord("File", Metadata("dir", g, 0, 4, << >>)),
     EntryRecord("Link", Metadata("link", g, 0, 1, d)), BytesRecord(<<5>>), MarkRecord("FileEnd"),
     MarkRecord("End"), PaddingRecord(1), PaddingRecord(MaxRecordPayload + 1), MarkRecord("unknown")}
Foreign(s, n) == [records |-> s, cut |-> n]
MCForeignStreams ==
    {Foreign(Base, n) : n \in {0, 1, 4}} \cup {Foreign(Front(Base), 2)}
    \cup {Foreign(SubSeq(Base, 1, i), 0) : i \in 1..(Len(Base) - 1)}
    \cup {Foreign(RemoveAt(Base, i), 0) : i \in DOMAIN Base}
    \cup {Foreign(ReplaceAt(Base, i, r), 0) : i \in DOMAIN Base, r \in Odd}
    \cup {Foreign(InsertAt(Base, i, r), 0) : i \in DOMAIN Base, r \in Odd}
MCIntruderPaths == {f, g}
=============================================================================
