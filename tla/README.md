# bseal: TLA+ models, checks and proofs

bseal packs a directory tree into an archive stream, cuts the stream into
chunks, seals each chunk with an AEAD under a nonce derived from the chunk's
index, and writes the frames into `.bin` shards; decryption runs the other way.
This directory models the parts of it that are hard to test: the threads of
both pipelines, the queue between them, how failures travel, the shard
directory with its planner, writer, clean-up and reader under failing calls and
power loss, the archive from the input directory to the output directory while
both change, and the window of the graphical interface with its two threads.

Paths below are relative to the repository root (`src/pipeline/...`).

## 1. Inventory

| Component | State | Operations | Interacts with | Hard behaviour | What makes it correct |
|---|---|---|---|---|---|
| `pipeline/WorkQueue` | `queue_`, `closed_`, two condition variables | `push`, `pop`, `close` | every thread of both pipelines | lost wake-ups, close racing with waiters, notifications outside the lock | FIFO, drained after close, nobody sleeps for ever |
| `pipeline/EncryptPipeline`, `PipelineCommon` | chunk being filled, held-back full chunk, chunk counter, two queues, reorder map, `FailureState` | producer, N workers, joiner, ordered writer, `run` | `ArchiveWriter` (source), crypto backend, `ShardWriter` (sink) | interleaving, failure of any stage at any time, blocking on full queues | order, nonce uniqueness, all or nothing, termination |
| `pipeline/DecryptPipeline` | two queues, reorder map, byte count, `FailureState` | reader, N workers, joiner, ordered consumer, `run` | `ShardReader` (source), crypto backend, `ArchiveReader` (sink) | same | only authenticated plaintext is parsed, in order; promotion only of a complete archive |
| `io/ShardWriter`, `StdoutShardWriter` | open shard, finalised shards, write position, planned position | plan, write, close shard, finish, abort | file system, `DurableFile` hooks | crash in `finish`, failing writes, plan and write must agree | a finished directory reads back; an aborted one leaves nothing |
| `io/ShardReader` | validated shards, position, seen indexes | discover, validate, read next | file system, `DecryptPipeline` | directories left by a crash, mixed archives | returns the frames of one archive, in order, or refuses |
| `io/ShardFrame` | none | (de)serialise headers, MAC, sizes | reader, writer | size arithmetic, consistency checks | what the writer produces the parser accepts |
| `app/CoreApi` | plan of one run | `core_encrypt`, `core_decrypt`, padding and shard planning | everything above | arithmetic edges, cleanup after failure | the announced layout is the layout written |
| `archive/ArchiveWriter`, `RecordFormat` | entry list, current file | `plan_plaintext_size`, `next_record_bytes` | file system, `CoreApi`'s padding and header | files changing between plan and read | what is written is what the header announced and what a reader takes |
| `archive/ArchiveReader`, `SafeOutputTree`, `PathSanitizer` | parser state, temporary tree, deferred metadata | `consume`, `finish`, commit, cleanup | file system, other processes in the output | records split over chunks, failing renames, files that appear meanwhile | the output is what the archive says, or what it was |
| `io/AsyncReader`, `AsyncWriter`, `BufferPool` | job queue, stop flag, pool | submit, stop, acquire, release | used by tests only | shutdown with queued jobs | every future is completed |
| `crypto/*` | keys | derive, seal, open | pipelines | memory locking | cryptographic, out of scope |
| `gui/MainWindow`, `GuiOptions`, `GuiPreview`, option dialogs | fields, running flags, two worker threads, posted events, preview and cache | edit, run, confirm, finish, preview, close | `CoreApi` | events of two threads, modal dialogs, stale results, close while running | controls tell what is running, what runs was confirmed, no secret stays behind |
| `cli`, `platform`, `SelfTest`, `common` | none that lasts | parsing, OS wrappers, vectors | | | |

`PROJECT.json` lists every hazard with its line and the property that would
catch it.

## 2. Plan

Done:

1. `ClosableQueue`, `WorkQueue`: the queue's contract and its implementation.
2. `OrderedStream`, `EncryptPipeline`, `DecryptPipeline`: the pipelines, using
   the queue through its contract.
3. `ShardFormat`, `ShardWriter`, `ShardReader` and their composition
   `ShardArchive`: plan, write, finish, abort over a directory whose calls may
   fail and that may lose power; what a reader accepts of what is left.
4. Proofs: `WorkQueueProofs`, `EncryptPipelineProofs`, `DecryptPipelineProofs`,
   `ShardWriterProofs`, `ShardArchiveProofs`, `ArchiveRoundTripProofs`,
   `ExtractionProofs`, `MainWindowProofs`.
5. `RecordFormat`, `ArchiveLayout`, `ArchiveWriter`, `ArchiveReader` and their
   composition `ArchiveRoundTrip`: padding, header and parser rules in integers
   of fixed width; the record stream; extraction, promotion, clean-up.
6. `GuiOptions`, `MainWindow`.

Left:

7. `StdoutShardWriter`, `AsyncReader`, `AsyncWriter`, `BufferPool`: see section 6.

## 3. Modules

### ClosableQueue and WorkQueue (`src/pipeline/WorkQueue.hpp`)

`WorkQueue` has one step per critical section, plus the steps outside the
mutex: waking up, and the two `notify_all` calls of `close()`. `not_full` and
`not_empty` are the sets of threads blocked on the condition variables.
`notify_one` wakes any one waiter; spurious wake-ups are allowed at any time.
`ClosableQueue` is the contract in the header's comment with atomic
operations; the refinement mapping is `accepted <- taken \o queue`,
`delivered <- Len(taken)`, `shut <- closed`.

### EncryptPipeline (`src/pipeline/EncryptPipeline.cpp`)

One label per thread (`pc`). A step ends where the thread next touches shared
state. Correspondence:

| Code | Actions |
|---|---|
| `producer_main`, `append_record_bytes_to_chunks`, `enqueue_planned_chunk` | `ProducerRead` ... `ProducerClose`, `ProducerPlanFails`, `PushPlain`, `Fills` |
| `encryption_worker_main` | `WorkerCheck`, `WorkerSeal`, `WorkerDrained`, `WorkerPush`, `WorkerCloseEncrypt`, `WorkerCloseWrite` |
| `ordered_writer_main` | `WriterPop`, `WriterWrite`, `WriterEnd`, `WriterFinish`, `WriterClose` |
| `FailureState::record` | `RecordException`, `StoreFailed` (two steps: exception, then flag) |
| `run` | `Init`, `JoinWorkers`, `RunReturn` |

Bytes are counted and not represented. A chunk is its index, length and final
flag. `Faulty` names the stages whose library calls (files, AEAD) may throw; a
stage that is not in it can still fail through the code's own checks. The two
queues are `ClosableQueue`s; that `WorkQueue` implements one is proved.

### DecryptPipeline (`src/pipeline/DecryptPipeline.cpp`)

Same shape. `Init` chooses which frames are forged and how long the final frame
is; `ShardReader` returns frames in order or throws.

### OrderedStream

What both pipelines promise: chunks reach the sink in order, and the sink is
committed only if the source is complete and all of it has arrived. Both
pipelines are checked and proved to implement it.

### ShardFormat, ShardWriter (`src/io/ShardWriter.cpp`, `src/platform/DurableFile.cpp`)

A file is its two headers and its frames; a header that does not parse is
`<< >>`. Sizes are bytes. The header hash and the MAC are taken to be injective
and are represented by what they cover. Correspondence:

| Code | Actions |
|---|---|
| `plan_shards`, `fill_per_shard_hashes` (`src/app/CoreApi.cpp`) | `PlanShardChunk`, `StartPipeline`, `ShardHash` |
| `plan_chunk_frame`, on the producer thread | `PlanFrame` |
| `write_chunk_frame` | `TakeFrame`, `WriteFrame` |
| `open_next_shard`, `close_current_shard` | `OpenShard`, `CloseShard` |
| `finish` | `CallFinish`, `RewriteShard`, `FlushShard`, `FlushDir` |
| `abort_and_remove_created_shards_noexcept` | `AbortCurrent`, `AbortShard` |
| `posix_fsync` and the three durability modes | `Flush`, `FlushThrows` |

`Faults` names what may fail, and `Stuck` the names whose removal may. The disk has two kinds of volatile state: bytes
of a file not in `synced`, and directory entries not in `linked`. `PowerLoss`
stops the program; `SettleFile` then decides what is left of each file that was
not flushed: headers old or missing, frames cut short or damaged, the whole
file gone. `stream = "dirty"` says that the last frame is short enough to be
still in the `ofstream`'s buffer, where only `close()` writes it.

Between planner and writer stands the encrypt pipeline; here it is the queue
`in_flight`, because `FramesWrittenInOrder` and `FinishImpliesComplete` are
proved of it. `actual`, the layout that the archive turns out to have, may
differ from the one announced; then the pipeline fails, as proved there.

### ShardReader and ShardArchive (`src/io/ShardReader.cpp`)

`Accepts(d)` says whether decryption succeeds on directory `d`: `Discover`,
`ValidateShards`, `ReadShard` with AEAD opening, and the length check of the
consumer. `ShardArchive` puts writer and reader together.

### RecordFormat, ArchiveLayout (`src/archive/RecordFormat.cpp`, `src/app/CoreApi.cpp`, `src/io/ShardFrame.cpp`)

A record is its type, the size of its payload and what the payload says; the
size of a stream is the sum of encoded sizes. `ArchiveLayout` has the checked
arithmetic on `Width` bits, `compute_padding`, the header fields that
`core_encrypt` derives and the rules that `parse_global_public_header` applies
to them.

### ArchiveWriter (`src/archive/ArchiveWriter.cpp`, `core_encrypt`)

| Code | Actions |
|---|---|
| `validate_encrypt_params`, constructor | `Validate`, `Walk` |
| `plan_plaintext_size`, `compute_padding`, header | `Plan` |
| `next_record_bytes`, `next_file_bytes_or_end` | `EmitBegin`, `EmitEntry`, `EmitFileBytes`, `EmitFileEnd`, `EmitEnd`, `EmitPadding` |
| size check at the end of the producer | `VerifyProduced` |
| other processes | `GrowFile`, `ShrinkFile` and the other `Changed` actions |

`Walk` is the constructor. It throws for a root that cannot be resolved or is not a
directory, and otherwise lists what the walk comes across, links left out, sorted
by path. What it comes across (`CanSee`) need not be everything: with
`skip_permission_denied` the content of a directory that may not be read is passed
over, and after any other error the iterator equals its end, so that the loop ends
before line 63 looks at `ec`. Then a part is listed of the directories entered by
that time, which lie one below the other (`HalfSeen`), in any order, as the order
of a directory's entries is not defined. The input stays as it is during the walk;
it may change from then on.

The pipeline in between delivers the whole stream or fails, as
`EncryptPipeline` shows; therefore the archive is here a sequence of records.

### ArchiveReader (`src/archive/ArchiveReader.cpp`, `src/archive/SafeOutputTree.cpp`, `core_decrypt`)

The plaintext arrives in chunks; a record is processed when its last byte is
there. Trees are functions from paths to nodes; every change of a directory
changes its time, which is why directory metadata must come last. `checked` is
the path between the look at a destination and the rename onto it, the moment
another process can use. Every call may fail (`cause = "fault"`), which is
told apart from a record being refused (`cause = "reject"`). The reader is also
fed streams that this writer never writes: one valid archive cut short, and with
one record removed, replaced or inserted.

### GuiOptions, MainWindow (`src/gui/`)

| Code | Actions |
|---|---|
| fields, key files, mode radio buttons, check boxes | `TypeInput`, `TypePassphrase`, `TypeConfirmation`, `AddKeyfile`, `RemoveKeyfile`, `CheckLock`, `SwitchMode` |
| `EncryptOptionsWidget`, `DecryptOptionsWidget` | `OpenAdvanced`, `EditAdvanced`, `CloseAdvanced`, `ApplyEncrypt`, `ApplyDecrypt` |
| `onRun` | `RunClicked`, `Answer`, `LockMemory`, `TakePassphrases` with `StartOperation` |
| the worker of `onRun` | `Report`, `FinishJob` |
| `triggerPreview` and its worker | `PreviewClicked`, `PreviewWork` |
| the event loop and the slots | `Dispatch`: `OnProgress`, `OnOperationFinished`, `OnPreviewFinished` |
| `closeEvent`, destruction in `main` | `CloseEvent`, `Destroy` |

Handlers are steps of the one GUI thread; `run` says where `onRun` is, since it
gives way to the event loop inside its dialogs, where posted events are handled
but the window takes no input. `events` is the queue that both workers post to.
The output path is treated by the code as the input path is, and the three
limits on the KDF alike: the model has one of each. File dialogs are one step.

## 4. Runs

| Run | Instance | Result |
|---|---|---|
| `work_queue` | 2 producers, 2 consumers, 2 closers, capacity 2, 4 pushes | contract, no lost wake-up, delivery, release hold |
| `encrypt` | 2 workers, depth 2, chunk 2, records of 1, 3 and 6 bytes, archive up to 8, 7 expected; all stages may fail | order, nonces, all or nothing, honest outcome hold; `run()` ends unless the writer throws |
| `encrypt_writer_failure` | 1 worker; the writer may fail | **violated**: `run()` may hang |
| `decrypt` | 2 workers, depth 1, 4 frames, any forged set, any final length; reader and consumer may fail | only authentic plaintext, all or nothing, honest outcome hold; `run()` ends unless the consumer throws |
| `shards` | chunks of 2 bytes, frames of 3; archives of 1 and 3 chunks, last one full or short; shards of 3, 6 and 8 bytes; 3 names, the removal of one may fail; any call but `close()` may fail, power may be lost at any point | all hold |
| `shards_close_error` | 3 chunks, the last one short; `close()` may lose it | **violated**: success without the data |
| `roundtrip` | ten input trees (a file of 0 to 6 bytes, directories, links, special files), whatever a walk can see of them, four padding policies and parameters that are refused, six outputs, one change of the input, one file appearing in the output, some 290 foreign streams | all hold |
| `walk_incomplete` | power-of-two padding, new output | **violated**: files of the input are missing after success on both sides |
| `padding_limit` | records limited to 8 bytes, power-of-two padding | **violated**: an archive is written that cannot be read |
| `partial_promotion` | power-of-two padding, new output | **violated**: a failed decryption leaves part of the archive |
| `gui` | one path, two key files of the same name, two passphrases, four and three forms, 2 progress events, 3 changes besides passphrases | all hold |
| `gui_preview_crash` | the same | **violated**: a preview ends the process under a running operation |

Bounds. As many workers as queue slots or more, and more chunks than both make every
queue fill and drain and let a late chunk overtake others; records of 1 and 3
bytes with chunks of 2 give a record inside a chunk, across two, and an archive
that ends on a boundary and off it; an archive may end at any size up to 8, so
it can be shorter than, equal to or longer than the 7 bytes planned. The hang
needs more chunks than fit in the queue and the worker, which the `hang`
instances allow. No symmetry is used in runs with liveness.

For the shards, a shard of 3 bytes takes one frame, 6 takes exactly two, 8 takes
two and a short last one but not three: the frame that fits exactly, the one
that does not, and a shard closed as full with no frame after it all occur. Two
frames in flight let the planner be in another shard than the writer. One shard
of another archive may lie in the directory from the start, beside at most two
shards of the run, since there are three names. Names are symmetric except for
the one whose removal may fail. More names and chunks
take too long with power loss; there the theorems speak, which hold for all sizes. These runs check deadlock: a run of `encrypt` ends in success, in a
finished clean-up or without power.

In `roundtrip` integers have 6 bits, record prefixes 3 bytes, chunks 8, file
payloads 2, and sizes scale with them: gaps smaller than a prefix, sizes on and
next to multiples of the chunk and powers of two, padding that overflows, files
of less than one, exactly one and several payloads, records that end inside, at
and after the end of a chunk all occur. The outputs are: none, an empty
directory, old files, a file where the archive has a directory, a directory where
it has a file, a link. The run checks deadlock. `padding_limit` scales the
128 MiB limit down as the other sizes are scaled.

In `gui` three changes are enough to set the path, switch the mode and change a
form (or switch twice under a preview, or tick both check boxes); passphrases may
be typed any number of times, so operations follow each other. The two key files
differ in their directory only, which neither the key of a preview nor its text
may tell. The empty passphrase stands for those `extractPassphrase()` refuses.

Deadlock. The pipelines' runs allow it because the hang after a failing writer
(or consumer) is a real deadlock, which `encrypt_writer_failure` reports;
`Termination` says that there is no other. The queue's run ends when every
caller has been told that the queue is closed, or when nobody calls `close()`.
The window may be gone, or its user idle.

Fairness. Weak fairness for each thread of a pipeline: a thread that can take a
step is scheduled by the operating system some day, and library calls return.
The producer's fairness leaves out `ProducerPlanFails`, since nothing guarantees
a failure: a blocked `push()` must not be rescued by one.
In `WorkQueue` no fairness is assumed for spurious wake-ups, nor for calling
`close()`, only for finishing it. In `MainWindow` weak fairness for the two
workers, for `onRun` outside its dialogs and for destruction; strong fairness for
`Dispatch`, because every turn of Qt's event loop delivers the posted events
before it looks at new input, so that a busy user cannot hold them back. Nothing
is assumed of the user. That the worker ends assumes that `core_encrypt` and
`core_decrypt` do; with the hang below the window could never be closed.

### What the violations say

* `encrypt_writer_failure`: the last stage's catch block closes only the queue it
  reads. The workers then leave, and the first stage, blocked in `push()` on the
  other queue, is never woken: `run()` waits in `join()` for ever and neither
  cleanup nor the error message happens. A worker's catch block closes both
  queues, and `Termination` shows that this suffices. The consumer of
  `DecryptPipeline` has the same catch block (`DecryptPipeline.cpp:215`) and the
  same hang; `Termination` there excludes exactly it.
* `shards_close_error`: neither `close_current_shard()` nor `finish()` looks at
  the state of a stream after `close()`. Bytes that were still in the stream's
  buffer (a short last frame, or both rewritten headers) may be lost while
  `encrypt` reports success.
* `walk_incomplete`: an unreadable subdirectory, or an error of the directory
  iterator, is not reported; the archive lacks what was not seen, and decryption
  succeeds as well. The code's own `throw` for such an error cannot be reached. A
  *file* that cannot be read does make encryption fail. `RoundTrip` says what does
  hold: what the walk has listed is restored exactly and nothing else is, and what
  is missing is what a walk can miss.
* `padding_limit`: the gap up to the padded size becomes one record, however
  large; above 128 MiB decryption refuses it. With power-of-two padding this
  concerns archives a little larger than 256 MiB.
* `partial_promotion`: promotion is not atomic; what was renamed before a
  failure stays. `OutputConsistent` says what does hold: each path has its old
  entry or the complete new one, only the path whose rename failed may have lost
  its old entry (with `--overwrite`), and nothing appears before all of the
  archive has been authenticated and parsed.
* `gui_preview_crash`: an exception in the middle of the preview's directory
  scan leaves its thread and terminates the process. The close guard, which keeps
  the user from interrupting an operation, does not help.

Some observations are not runs of their own. The ordered writer takes every
frame that arrives into its map while it waits for a late one, so a slow worker
lets memory grow with the archive. A mode switched while a preview is being made
leaves the preview of the other mode on the screen, although `MainWindow.cpp:258`
clears "stale preview text on mode switch", and a preview of options that have
changed meanwhile is shown as it is: `PreviewHonest` covers the cache in full and
what is shown only while the mode was not switched. A file that appears in the
output between the look at its path and the rename is replaced without
`--overwrite`; `OthersKept` covers every other moment. After a failed operation the status
bar keeps its last progress message.

One finding needs no violated property. `docs/DURABILITY.md:47-49` says that when a
flush fails with `--durability=on`, "The incomplete output is left in place; no
partial data is deleted automatically." The code does the opposite: `core_encrypt`
catches what `run()` throws and removes the shards, as `README.md:52` says. The run
`shards` has failing flushes, and `AbortRemovesAll` holds for them.

## 5. Proofs

All theorems hold for any number of threads, any capacity and any sizes
(assumptions: `ThreadsAssumption`, `BoundsAssumption`, `WorkersAssumption`,
`SizesAssumption`, `FormatAssumption`, and for `ShardWriter` its
`WriterAssumption`, which holds what `validate_encrypt_params` and `plan_shards`
check: a full frame fits into a shard). The archive theorems hold for any input
trees, output trees, parameters and foreign archives that are well typed
(`WriterAssumption` of `ArchiveWriter`, `TreesAssumption`, `OutputsAssumption`,
`ForeignAssumption`: what is above a path in an output tree is a directory) and for any
limits (`RecordAssumption`, `LayoutAssumption`: the prefix of a record is no
longer than the smallest chunk; it is 9 bytes, the chunk at least 64 KiB). The
window's theorems need only a number of phases (`PhasesAssumption`).

`WorkQueueProofs`: `TypeCorrect`, `WakeupsNeverLost`,
`QueueImplementsContract`. The last two rest on an auxiliary invariant that
ties the sets of waiters to the labels, and on counting the running threads
before and after one of them is woken.

`EncryptPipelineProofs` proves the inductive invariant `PipelineInv`
(`PipelineInvariant`), in parts:

* `PlaceInv`: queued indexes are unsealed and increasing; a sealed chunk is in
  exactly one of: a worker, the write queue, the reorder map, the shards. This
  alone gives `NoncesUsedOnce`.
* `RecordInv`, `CloseInv`: `failed_` follows a stored exception; without a
  failure a queue is closed only by the thread whose job it is, and a worker ends
  only when everything is drained. Needed because every dropped chunk must be
  explained by a failure.
* `CompleteInv`: without a failure every index handed out is somewhere.
* `TurnInv`, `FinishInv`, `OutcomeInv`: what the writer knows when it waits,
  finalises and returns.
* `BytesInv`, `ShapeInv`: chunks are full except the last, only the last is
  final, and their lengths add up to the bytes produced.

From it: `FramesWrittenInOrder`, `InternalErrorsImpossible`, `OutcomeIsHonest`,
`FinishImpliesComplete` (with the division lemma `ChunkArithmetic` for the
count in the public header) and `PipelineImplementsStream`.

`DecryptPipelineProofs` has the same `PipelineInv` with two differences. `PlaceInv`
also says that an opened frame which is queued, pending or consumed is authentic,
whichever frames `Init` chose to forge; a worker that met a forged one keeps it.
And the announced size is checked by the consumer, not by the producer, so
`BytesInv` ties what it has counted to the plaintext of the frames it has passed on. From
it: `TypeCorrect`, `ConsumerSeesAuthenticPrefix`, `InternalErrorsImpossible`,
`PromotedIsAuthentic` and `PipelineImplementsStream`.

`ShardWriterProofs`, for any sizes, any number of frames in flight, any
failures and power losses:

* `TypeCorrect`. `TypeInv` adds what each label knows (a frame is at hand, the
  stream is open) and that the files the writer names exist until the clean-up.
* `PlannerAgreesAlways`, from `Placed`: frames in flight follow each other
  (`Chained`), the first follows what has been written (`Joined`), and each label
  remembers the comparison that led to it (`Compared`). The point that needs care
  is the time between two shards, when the writer has forgotten the payload of
  the last one: it has closed it only because the next frame does not fit, or
  because no frame could (the shard is full), and the planner, which sees the
  same sizes later or earlier, comes to the same conclusion because a frame is
  never empty and a full chunk fits into an empty shard.
* `ExistingUntouchedAlways`, from `Kept`: every step touches at most one file,
  and it is one the run has created.
* `AbortRemovesAllAlways`, from `Tracked`: until the clean-up has come to it, every
  file the run has created is the current one or in `finalized_shards_`; what is
  left at the end are files whose removal may fail.

`ShardArchiveProofs`, for the writer and the reader of a shard directory
together:

* `AcceptedAlwaysComplete`, from `DirInv`: whatever state a file is in, a frame of
  this run in it carries the index, the length and the flag of its chunk, and any
  other file is the foreign shard. The reader's own tests do the rest
  (`ReadInOrder`): the frames it returns have the indexes 0, 1, 2, ... with none
  missing, because the ranges adjoin and the shards are all there, and the only
  frame with the final flag decides how many there are. No hypothesis: it holds in
  every state of every run, half written and half removed directories included.
* `SuccessAlwaysReadable`, from `ReadableInv`: the shards the planner has closed
  and opens are adjoining, hold what fits and no more (`PlansInv`); the counters of
  the writer follow that plan shard by shard (`CountInv`); every file is the shard
  its name stands for, with the header the writer has given it so far, and frames
  sealed for exactly that header (`FileInv`); with `--durability=on` what is
  flushed is what will be read (`SyncInv`), so that a power loss after success
  finds nothing to damage (`NothingToSettle`). `DoneAccepted` then takes the reader's
  tests one by one; the number of files is the number of shards by a bijection, and
  the sizes are equal because the sums run over equal lengths. The theorem assumes
  `"close" \notin Faults`: nobody looks at the state of a stream after `close()`, which
  may lose the last frame, and the run `shards_close_error` shows the property false
  without it.

`ArchiveRoundTripProofs` begins with the layout: `HeaderAccepted`, that every header `core_encrypt` derives
from `compute_padding` passes `parse_global_public_header`, for every word width,
size, chunk size and policy. The provers have no induction over data, so induction
is used as a fact about sets of numbers (`LeastNatural`, `NatInd`): a set with 0
and the successor of each of its members has all numbers. With it powers of two
are strictly increasing, which is what the search of `checked_next_power_of_two_u64`
relies on, and sums of sizes are numbers, split and extend. The policies are then
three lemmas: each pads to at least the size it was given and to whole chunks where
the parser wants them, and never to a gap too small for a record.

Then, for both ends of an archive:

* `LayoutAnnounced`, from `LayoutInv`: types (`WriterTyped`), what is known of
  the plan (`PlanInv`), and the balance (`BalanceInv`): while nothing disturbs
  the run, the bytes emitted and those still expected of the open file add up to
  what the plan counted for the entries so far. The invariant has to speak of the
  middle of a file, where the plan counted whole payloads and the writer emits them
  one by one; `PlannedUpTo` and `Unread` say how much is left.
  Sizes are limited to a word: `plan_plaintext_size` adds without a check for
  overflow, which only an input of 2^64 bytes would reach.
* `NothingLeftBehind`, from `DebrisInv`.
* `TypeCorrect` and `FilesKept`, from `ReaderInv`: what the reader is given
  (`StreamInv`) and how far it has come (`ProgressInv`); the temporary tree is
  closed under parents and holds the open file and the deferred directories
  (`TempInv`); the output is such a tree too (`OutInv`); directories are promoted
  before what is in them (`PromoteInv`). The last part is what the others
  need: because parents come first, the parent of the entry being renamed is
  already a directory of the output, so the output stays a tree, and a rename
  touches its own path and the time of a directory, never another file.

`ExtractionProofs`, for what the files contain:

* `OutputAlwaysConsistent`, from `ExtractInv`, used together with `ReaderInv`.
  `ParseInv`: the records taken so far follow the grammar the parser's state machine
  accepts (`Grammar`), the temporary tree holds exactly what they describe
  (`Extracted`), and their sizes add up to what was read. `SettledInv`:
  nothing is promoted before the parser has accepted the end of a complete stream.
  `ClosingInv`: during the promotion every described file is in the temporary tree
  with its content or has been promoted, and every described directory is there.
  `OutputInv`: a path of the output is as it was found, or promoted with the content
  the archive describes, or a described directory that was not there. The content
  of a file is the concatenation of its records; the provers cannot unfold the fold
  the model uses, so lemmas give what one more record does to it.
* `SuccessAlwaysExact`, from the same invariant. At `finish()` all records were
  taken and the tree is what they describe (`AllTaken`, `FinishedTree`). That the
  promotion then yields exactly that needs four facts: no file path is above another
  entry, the parents of files are described directories or made for them, nothing
  promoted is dropped, and a directory made by the run was not there before.
* `RoundTripHolds`, from `RestoreInv`, which adds the writer. `SourceInv`: while no
  other process changes the input, every record comes from an entry of the input,
  a finished file was emitted whole, the open one is a prefix of the input's, and
  every entry of the walk has its record. The list is what the walk has seen, because
  it is a sequence without repetition as long as that set is large (`WalkComplete`),
  and it stays that (`CanSee(Listing)` is part of `SourceInv`). That nothing else is
  restored follows from `SuccessIsExact`, from every record being made of an entry
  (`FormInv`) and from the directories above an entry being listed with it.
  Nothing is assumed of the walk but `CanSee`. `DeferInv` and `TimesInv`:
  each directory's time is set or still deferred; two records that
  meet in one directory agree, because both carry the input's time.
* `WrittenAlwaysReadable`: `WrittenIsReadable` in every state in which no record is
  longer than the reader's limit (`WithinLimit`). Without that condition it is false, as
  the run `padding_limit` shows. The files may grow, shrink and vanish during
  encryption. On the writer's side: every entry of the walk keeps its kind while it is
  there, and nothing is below a file (`WalkedInv`, from the input being a tree); the
  records emitted satisfy the grammar the reader's tests amount to, each made from an
  entry (`FormInv`). On the reader's side: no complete record is left while it waits for a chunk
  (`FeedInv`), so at the end of the stream all are taken (`EndComplete`); the
  handlers' demands then follow from the grammar (`RecordAllowed`). That the bytes of a file
  never exceed the announced size is not known when they are written, only when its
  FileEnd is: a file that has grown makes encryption fail there. The proof
  takes the first FileEnd after the record and the fact that contents only grow.

Assumptions of these theorems: an archive not written by this run consists of framed
records and is cut, if at all, inside its last one (`ForeignAssumption`; a cut at a
boundary is a shorter stream); the paths of the input are in `PathOrder` and have no
"." component, directories have no content, and a tree has a
directory above each entry and no "..", empty or root component
(`TreesAssumption`, `InputsAssumption`), which is what `recursive_directory_iterator`
returns.

`MainWindowProofs`: the inductive invariant is `WindowInv`
(`WindowInvariant`): types (what the worker runs with was valid and agreed to is
part of them), `RunInv` (during `onRun()` the options do not change and what was
confirmed was confirmed for them), `EventsInv` (at most one outcome and one preview
are posted, each after its thread has ended), `FlagsInv` (`running` and
`previewRunning` say whether a thread or its event is outstanding, and the controls
follow them), `SecretsTaken`, which is inductive with the others, and `ModeInv`
(what is previewed, posted or shown is of the current mode unless it was switched
meanwhile). From it: `TypeCorrect`, `FlagsTellTruth`,
`CloseKeepsOutcomes`, `RunsAgreedOptions`, `SecretsAreTaken`, `PreviewsAreHonest`.
No fairness is used.

Only model-checked:

* All liveness properties (`EveryItemDelivered`, `CloseReleasesAll`,
  `Termination`, `FailureIsReported`, `WindowRecovers`), which are beyond the
  prover.

## 6. Not modelled

Cryptography (library calls), byte layouts, option parsing, OS wrappers, widgets
and the wording of messages. `StdoutShardWriter` keeps one shard in memory and
writes it in one call: there is nothing between its steps to go wrong that a test
would not reach. `AsyncReader`, `AsyncWriter` and `BufferPool` are used by tests
only. `std::thread` construction failing inside `run()` is left out: the process
terminates.

Of archives: changes to the input during the walk itself; the extraction of symbolic links, which `core_decrypt` never turns
on; a link as a directory component of the output in the portable mode; another
process that removes or renames in the output (it only creates files); times and
permissions of zero, which the reader leaves alone. Permissions travel with the
times. `EncryptPipeline` and `ShardWriter` stand between the two ends with what
is shown of them.

Of the window: that a change of the files under the input path leaves the size
in a cached preview as it was (the code says so), and the test seams.

Of the shard directory: that a removed file reappears after a power loss, that
128 random names are all taken, two runs writing into one directory at the same
time, and the Windows branch of `DurableFile`, which flushes no directories.
`finish()` called by the destructor after an abort finds no shards and flushes
the directory once more; the model leaves it out.
