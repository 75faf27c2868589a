-------------------------- MODULE EncryptPipeline --------------------------
(***************************************************************************)
(* pipeline::EncryptPipeline::run(): a producer thread cuts the archive    *)
(* into chunks, worker threads encrypt them, a joiner thread waits for the *)
(* workers, and the calling thread ("writer") writes the frames in order   *)
(* and joins the others.  Two WorkQueues connect the stages; they are used *)
(* here through their contract (ClosableQueue), which WorkQueue implements.*)
(*                                                                         *)
(* A step ends where the thread next touches shared state (a queue, the    *)
(* FailureState, another thread's end); what it computes in between is     *)
(* local to it.  Bytes are counted, not represented; ciphertexts keep the  *)
(* index, length and final flag of the chunk they seal.                    *)
(***************************************************************************)
EXTENDS Integers, Sequences, FiniteSets

CONSTANTS Workers,        \* worker threads, resolve_worker_count()
          QueueDepth,     \* resolve_queue_depth()
          ChunkSize,      \* options.chunk_plain_size
          RecordSizes,    \* sizes of the records ArchiveWriter may return
          MaxBytes,       \* bound: bytes the archive may grow to
          ExpectedBytes,  \* options.expected_plaintext_bytes
          Faulty          \* stages whose library calls may throw

Stages == {"producer", "worker", "writer"}

ASSUME WorkersAssumption ==
    /\ Workers # {} /\ IsFiniteSet(Workers)
    /\ Workers \cap {"producer", "joiner", "writer"} = {}
ASSUME SizesAssumption ==
    /\ QueueDepth \in Nat \ {0} /\ ChunkSize \in Nat \ {0}
    /\ RecordSizes \subseteq Nat \ {0}
    /\ MaxBytes \in Nat /\ ExpectedBytes \in Nat
ASSUME FaultyAssumption == Faulty \subseteq Stages

VARIABLES
    pc,              \* label of each thread
    record,          \* bytes of the current record still to copy
    current,         \* current_chunk.size()
    pending_full,    \* pending_full_chunk holds a full chunk
    produced,        \* archive_writer.bytes_produced()
    next_chunk,      \* next_chunk_index
    encrypt_queue, encrypt_closed,
    write_queue, write_closed,
    job,             \* the chunk a worker is processing
    sealed,          \* history: indexes whose nonce has been used
    pending,         \* the writer's reorder map, as a set of chunks
    written,         \* frames passed to ShardWriter::write_chunk_frame()
    finished,        \* ShardWriter::finish() has returned
    first_exception, \* FailureState: an exception is stored
    failed           \* FailureState::failed_

producer_vars == <<record, current, pending_full, produced, next_chunk>>
queue_vars == <<encrypt_queue, encrypt_closed, write_queue, write_closed>>
worker_vars == <<job, sealed>>
writer_vars == <<pending, written, finished>>
failure_vars == <<first_exception, failed>>
vars == <<pc, producer_vars, queue_vars, worker_vars, writer_vars, failure_vars>>

Threads == Workers \cup {"producer", "joiner", "writer"}
Chunk == [index : Nat, len : Nat, final : BOOLEAN]
NoChunk == [index |-> -1, len |-> 0, final |-> FALSE]
NextExpected == Len(written)           \* next_expected_index
Indexes(S) == {c.index : c \in S}

Goto(t, l) == pc' = [pc EXCEPT ![t] = l]

Init ==
    /\ pc = [t \in Threads |->
                 CASE t = "producer" -> "read" [] t = "joiner" -> "join"
                   [] t = "writer" -> "pop" [] OTHER -> "check"]
    /\ record = 0 /\ current = 0 /\ pending_full = FALSE
    /\ produced = 0 /\ next_chunk = 0
    /\ encrypt_queue = << >> /\ encrypt_closed = FALSE
    /\ write_queue = << >> /\ write_closed = FALSE
    /\ job = [w \in Workers |-> NoChunk] /\ sealed = {}
    /\ pending = {} /\ written = << >> /\ finished = FALSE
    /\ first_exception = FALSE /\ failed = FALSE

----------------------------------------------------------------------------
\* Mutant: only the flag is set, the exception itself is not kept.
RecordNothing(t) ==
    /\ pc[t] = "record"
    /\ Goto(t, "flag")
    /\ UNCHANGED <<producer_vars, queue_vars, worker_vars, writer_vars, failure_vars>>

\* FailureState::record(): the first exception is kept under the mutex, then
\* failed_ is stored; only then does the catch block close queues.
RecordException(t) ==
    /\ pc[t] = "record"
    /\ first_exception' = TRUE
    /\ Goto(t, "flag")
    /\ UNCHANGED <<producer_vars, queue_vars, worker_vars, writer_vars, failed>>

StoreFailed(t) ==
    /\ pc[t] = "flag"
    /\ failed' = TRUE
    /\ Goto(t, IF t \in Workers THEN "close_encrypt"
               ELSE IF t = "producer" THEN "quit" ELSE "close_write")
    /\ UNCHANGED <<producer_vars, queue_vars, worker_vars, writer_vars, first_exception>>

----------------------------------------------------------------------------
\* producer_main(), the loop head: stop if some stage failed, otherwise take
\* the next record.  The archive may end anywhere, also short of or beyond
\* the planned size (its files may change while it is read).
ProducerRead ==
    /\ pc["producer"] = "read"
    /\ \/ /\ failed
          /\ Goto("producer", "quit")
          /\ UNCHANGED <<record, produced>>
       \/ /\ ~failed
          /\ \E n \in RecordSizes :
                /\ produced + n <= MaxBytes
                /\ record' = n
                /\ produced' = produced + n
          /\ Goto("producer", "append")
       \/ /\ ~failed
          /\ Goto("producer", "tail")
          /\ UNCHANGED <<record, produced>>
       \/ /\ ~failed
          /\ "producer" \in Faulty
          /\ Goto("producer", "record")
          /\ UNCHANGED <<record, produced>>
    /\ UNCHANGED <<current, pending_full, next_chunk, queue_vars, worker_vars,
                   writer_vars, failure_vars>>

\* Mutant: next_chunk_index is not incremented.
PushPlainSameIndex(len, final) ==
    /\ encrypt_closed \/ Len(encrypt_queue) < QueueDepth
    /\ next_chunk' = next_chunk
    /\ encrypt_queue' =
           IF encrypt_closed THEN encrypt_queue
           ELSE Append(encrypt_queue, [index |-> next_chunk, len |-> len, final |-> final])

\* enqueue_planned_chunk(): push() waits for room, and fails once closed.
PushPlain(len, final) ==
    /\ encrypt_closed \/ Len(encrypt_queue) < QueueDepth
    /\ next_chunk' = next_chunk + 1
    /\ encrypt_queue' =
           IF encrypt_closed THEN encrypt_queue
           ELSE Append(encrypt_queue, [index |-> next_chunk, len |-> len, final |-> final])

\* Mutant: off by one in the room left in the chunk.
FillsEarly == current + record >= ChunkSize - 1

\* append_record_bytes_to_chunks(), one turn of its loop.  A chunk that fills
\* up becomes the pending one, after the previous pending chunk is pushed.
Fills == current + record >= ChunkSize

ProducerCopy ==
    /\ pc["producer"] = "append"
    /\ ~(Fills /\ pending_full)
    /\ IF Fills
       THEN /\ record' = record - (ChunkSize - current)
            /\ current' = 0
            /\ pending_full' = TRUE
       ELSE /\ record' = 0
            /\ current' = current + record
            /\ UNCHANGED pending_full
    /\ Goto("producer", IF record' = 0 THEN "read" ELSE "append")
    /\ UNCHANGED <<produced, next_chunk, queue_vars, worker_vars, writer_vars, failure_vars>>

\* push() returning false makes producer_main close the queue and return;
\* its locals are dead then.
ProducerFlush ==
    /\ pc["producer"] = "append"
    /\ Fills /\ pending_full
    /\ PushPlain(ChunkSize, FALSE)
    /\ record' = record - (ChunkSize - current)
    /\ current' = 0
    /\ Goto("producer", IF encrypt_closed THEN "quit"
                        ELSE IF record' = 0 THEN "read" ELSE "append")
    /\ UNCHANGED <<pending_full, produced, encrypt_closed, write_queue, write_closed,
                   worker_vars, writer_vars, failure_vars>>

\* End of the archive: the failure flag is read again, then what is left is
\* pushed, the last chunk with the final flag.
ProducerTail ==
    /\ pc["producer"] = "tail"
    /\ Goto("producer", IF failed THEN "quit"
                        ELSE IF current > 0 /\ pending_full THEN "tail_full"
                        ELSE "tail_final")
    /\ UNCHANGED <<producer_vars, queue_vars, worker_vars, writer_vars, failure_vars>>

ProducerTailFull ==
    /\ pc["producer"] = "tail_full"
    /\ PushPlain(ChunkSize, FALSE)
    /\ pending_full' = FALSE
    /\ Goto("producer", IF encrypt_closed THEN "quit" ELSE "tail_final")
    /\ UNCHANGED <<record, current, produced, encrypt_closed, write_queue, write_closed,
                   worker_vars, writer_vars, failure_vars>>

\* The result of this push is ignored.  An empty archive still emits one
\* empty final chunk (emit_final_chunk_when_empty, which core_encrypt sets).
ProducerTailFinal ==
    /\ pc["producer"] = "tail_final"
    /\ PushPlain(IF pending_full THEN ChunkSize ELSE current, TRUE)
    /\ pending_full' = FALSE
    /\ current' = 0
    /\ Goto("producer", "verify")
    /\ UNCHANGED <<record, produced, encrypt_closed, write_queue, write_closed,
                   worker_vars, writer_vars, failure_vars>>

\* plan_chunk_frame() throws before the chunk is pushed.
ProducerPlanFails ==
    /\ "producer" \in Faulty
    /\ \/ pc["producer"] = "append" /\ Fills /\ pending_full
       \/ pc["producer"] \in {"tail_full", "tail_final"}
    /\ Goto("producer", "record")
    /\ UNCHANGED <<producer_vars, queue_vars, worker_vars, writer_vars, failure_vars>>

\* Mutant: the produced size is not compared with the plan.
ProducerVerifyNothing ==
    /\ pc["producer"] = "verify"
    /\ Goto("producer", "close")
    /\ UNCHANGED <<producer_vars, queue_vars, worker_vars, writer_vars, failure_vars>>

\* expected_plaintext_bytes against bytes_produced(), the final chunk being
\* already on its way.
ProducerVerify ==
    /\ pc["producer"] = "verify"
    /\ Goto("producer", IF ExpectedBytes > 0 /\ produced # ExpectedBytes
                        THEN "record" ELSE "close")
    /\ UNCHANGED <<producer_vars, queue_vars, worker_vars, writer_vars, failure_vars>>

\* encrypt_queue.close(), after the last chunk ("close") or after a failure,
\* the producer's own or another's ("quit").
ProducerClose ==
    /\ pc["producer"] \in {"close", "quit"}
    /\ encrypt_closed' = TRUE
    /\ Goto("producer", IF pc["producer"] = "close" THEN "done" ELSE "stopped")
    /\ UNCHANGED <<producer_vars, encrypt_queue, write_queue, write_closed,
                   worker_vars, writer_vars, failure_vars>>

----------------------------------------------------------------------------
\* encryption_worker_main(): the loop head.
WorkerCheck(w) ==
    /\ pc[w] = "check"
    /\ Goto(w, IF failed THEN "done" ELSE "pop")
    /\ UNCHANGED <<producer_vars, queue_vars, worker_vars, writer_vars, failure_vars>>

\* pop(), then derive the nonce of the chunk's index and encrypt.
WorkerSeal(w) ==
    /\ pc[w] = "pop"
    /\ encrypt_queue # << >>
    /\ encrypt_queue' = Tail(encrypt_queue)
    /\ job' = [job EXCEPT ![w] = Head(encrypt_queue)]
    /\ sealed' = sealed \cup {Head(encrypt_queue).index}
    /\ \/ Goto(w, "push")
       \/ "worker" \in Faulty /\ Goto(w, "record")
    /\ UNCHANGED <<producer_vars, encrypt_closed, write_queue, write_closed,
                   writer_vars, failure_vars>>

WorkerDrained(w) ==
    /\ pc[w] = "pop"
    /\ encrypt_queue = << >> /\ encrypt_closed
    /\ Goto(w, "done")
    /\ UNCHANGED <<producer_vars, queue_vars, worker_vars, writer_vars, failure_vars>>

\* Mutant: the chunk is dropped instead of waiting for room.
WorkerTryPush(w) ==
    /\ pc[w] = "push"
    /\ write_queue' = IF Len(write_queue) < QueueDepth THEN Append(write_queue, job[w])
                      ELSE write_queue
    /\ job' = [job EXCEPT ![w] = NoChunk]
    /\ Goto(w, IF write_closed THEN "done" ELSE "check")
    /\ UNCHANGED <<producer_vars, encrypt_queue, encrypt_closed, write_closed, sealed,
                   writer_vars, failure_vars>>

\* write_queue.push() of the sealed chunk; false ends the worker and the
\* chunk is dropped.
WorkerPush(w) ==
    /\ pc[w] = "push"
    /\ write_closed \/ Len(write_queue) < QueueDepth
    /\ write_queue' = IF write_closed THEN write_queue ELSE Append(write_queue, job[w])
    /\ job' = [job EXCEPT ![w] = NoChunk]
    /\ Goto(w, IF write_closed THEN "done" ELSE "check")
    /\ UNCHANGED <<producer_vars, encrypt_queue, encrypt_closed, write_closed, sealed,
                   writer_vars, failure_vars>>

\* Mutant: a failing worker leaves encrypt_queue open.
WorkerSkipEncrypt(w) ==
    /\ pc[w] = "close_encrypt"
    /\ Goto(w, "close_write")
    /\ UNCHANGED <<producer_vars, queue_vars, worker_vars, writer_vars, failure_vars>>

\* The catch block: both queues are closed, one after the other.
WorkerCloseEncrypt(w) ==
    /\ pc[w] = "close_encrypt"
    /\ encrypt_closed' = TRUE
    /\ Goto(w, "close_write")
    /\ UNCHANGED <<producer_vars, encrypt_queue, write_queue, write_closed,
                   worker_vars, writer_vars, failure_vars>>

WorkerCloseWrite(w) ==
    /\ pc[w] = "close_write"
    /\ write_closed' = TRUE
    /\ Goto(w, "done")
    /\ UNCHANGED <<producer_vars, encrypt_queue, encrypt_closed, write_queue,
                   worker_vars, writer_vars, failure_vars>>

\* worker_joiner: all workers have ended, so no more frames will come.
JoinWorkers ==
    /\ pc["joiner"] = "join"
    /\ \A w \in Workers : pc[w] = "done"
    /\ write_closed' = TRUE
    /\ Goto("joiner", "done")
    /\ UNCHANGED <<producer_vars, encrypt_queue, encrypt_closed, write_queue,
                   worker_vars, writer_vars, failure_vars>>

----------------------------------------------------------------------------
\* ordered_writer_main(): take a frame into the reorder map; a stale or a
\* duplicate index is an error.
WriterPop ==
    /\ pc["writer"] = "pop"
    /\ write_queue # << >>
    /\ write_queue' = Tail(write_queue)
    /\ IF Head(write_queue).index < NextExpected
             \/ Head(write_queue).index \in Indexes(pending)
       THEN Goto("writer", "record") /\ UNCHANGED pending
       ELSE Goto("writer", "write") /\ pending' = pending \cup {Head(write_queue)}
    /\ UNCHANGED <<producer_vars, encrypt_queue, encrypt_closed, write_closed,
                   worker_vars, written, finished, failure_vars>>

\* Mutant: any frame that has arrived is written.
ReadyAny(c) == c.index >= NextExpected

\* pending.find(next_expected_index).
Ready(c) == c.index = NextExpected

\* Write the next frame if it has arrived, otherwise wait for more.
WriterWrite ==
    /\ pc["writer"] = "write"
    /\ \/ \E c \in pending :
             /\ Ready(c)
             /\ \/ /\ written' = Append(written, c)
                   /\ pending' = pending \ {c}
                   /\ UNCHANGED pc
                \/ /\ "writer" \in Faulty
                   /\ Goto("writer", "record")
                   /\ UNCHANGED <<written, pending>>
       \/ /\ \A c \in pending : ~Ready(c)
          /\ Goto("writer", "pop")
          /\ UNCHANGED <<written, pending>>
    /\ UNCHANGED <<producer_vars, queue_vars, worker_vars, finished, failure_vars>>

\* Mutant: finish() runs although a stage has failed.
WriterEndUnchecked ==
    /\ pc["writer"] = "pop"
    /\ write_queue = << >> /\ write_closed
    /\ Goto("writer", "finish")
    /\ UNCHANGED <<producer_vars, queue_vars, worker_vars, writer_vars, failure_vars>>

\* The queue is closed and drained: missing frames are an error unless a
\* failure explains them, and finish() runs only if there was no failure.
WriterEnd ==
    /\ pc["writer"] = "pop"
    /\ write_queue = << >> /\ write_closed
    /\ Goto("writer", IF failed THEN "join_all"
                      ELSE IF pending # {} THEN "record" ELSE "finish")
    /\ UNCHANGED <<producer_vars, queue_vars, worker_vars, writer_vars, failure_vars>>

WriterFinish ==
    /\ pc["writer"] = "finish"
    /\ \/ finished' = TRUE /\ Goto("writer", "join_all")
       \/ "writer" \in Faulty /\ Goto("writer", "record") /\ UNCHANGED finished
    /\ UNCHANGED <<producer_vars, queue_vars, worker_vars, pending, written, failure_vars>>

\* The writer's catch block closes write_queue, and only that one.
WriterClose ==
    /\ pc["writer"] = "close_write"
    /\ write_closed' = TRUE
    /\ Goto("writer", "join_all")
    /\ UNCHANGED <<producer_vars, encrypt_queue, encrypt_closed, write_queue,
                   worker_vars, writer_vars, failure_vars>>

\* Mutant: rethrow_if_failed() is forgotten.
RunReturnSilently ==
    /\ pc["writer"] = "join_all"
    /\ pc["producer"] \in {"done", "stopped"}
    /\ pc["joiner"] = "done"
    /\ Goto("writer", "returned")
    /\ UNCHANGED <<producer_vars, queue_vars, worker_vars, writer_vars, failure_vars>>

\* run() joins the producer and the joiner and rethrows the first exception.
RunReturn ==
    /\ pc["writer"] = "join_all"
    /\ pc["producer"] \in {"done", "stopped"}
    /\ pc["joiner"] = "done"
    /\ Goto("writer", IF first_exception THEN "threw" ELSE "returned")
    /\ UNCHANGED <<producer_vars, queue_vars, worker_vars, writer_vars, failure_vars>>

----------------------------------------------------------------------------
ProducerRuns ==
    \/ ProducerRead \/ ProducerCopy \/ ProducerFlush \/ ProducerTail
    \/ ProducerTailFull \/ ProducerTailFinal \/ ProducerVerify \/ ProducerClose
    \/ RecordException("producer") \/ StoreFailed("producer")

Producer == ProducerRuns \/ ProducerPlanFails

Worker(w) ==
    \/ WorkerCheck(w) \/ WorkerSeal(w) \/ WorkerDrained(w) \/ WorkerPush(w)
    \/ WorkerCloseEncrypt(w) \/ WorkerCloseWrite(w)
    \/ RecordException(w) \/ StoreFailed(w)

Writer ==
    \/ WriterPop \/ WriterWrite \/ WriterEnd \/ WriterFinish \/ WriterClose
    \/ RunReturn \/ RecordException("writer") \/ StoreFailed("writer")

\* run() has ended; nothing happens any more.
Ended == pc["writer"] \in {"returned", "threw"}
Terminated == Ended /\ UNCHANGED vars

Next == Producer \/ (\E w \in Workers : Worker(w)) \/ JoinWorkers \/ Writer \/ Terminated

\* Every thread that can proceed is eventually scheduled.  Nothing makes
\* plan_chunk_frame() throw: a producer that waits for room in push() has
\* planned its chunk, and no failure of its own will release it.
Fairness ==
    /\ WF_vars(ProducerRuns) /\ WF_vars(JoinWorkers) /\ WF_vars(Writer)
    /\ \A w \in Workers : WF_vars(Worker(w))

Spec == Init /\ [][Next]_vars
FairSpec == Spec /\ Fairness

----------------------------------------------------------------------------
ProducerLabels == {"read", "append", "tail", "tail_full", "tail_final", "verify",
                   "close", "quit", "done", "stopped", "record", "flag"}
WorkerLabels == {"check", "pop", "push", "done", "record", "flag",
                 "close_encrypt", "close_write"}
WriterLabels == {"pop", "write", "finish", "join_all", "returned", "threw",
                 "record", "flag", "close_write"}
Labels == ProducerLabels \cup WorkerLabels \cup WriterLabels \cup {"join"}

\* Each thread is at a label of its own code.
ControlOK ==
    /\ pc \in [Threads -> Labels]
    /\ pc["producer"] \in ProducerLabels /\ pc["writer"] \in WriterLabels
    /\ pc["joiner"] \in {"join", "done"}
    /\ \A w \in Workers : pc[w] \in WorkerLabels

FlagsOK ==
    /\ pending_full \in BOOLEAN /\ encrypt_closed \in BOOLEAN /\ write_closed \in BOOLEAN
    /\ finished \in BOOLEAN /\ first_exception \in BOOLEAN /\ failed \in BOOLEAN

DataOK ==
    /\ record \in Nat /\ current \in Nat /\ produced \in Nat /\ next_chunk \in Nat
    /\ encrypt_queue \in Seq(Chunk) /\ write_queue \in Seq(Chunk)
    /\ job \in [Workers -> Chunk \cup {NoChunk}] /\ sealed \subseteq Nat
    /\ pending \subseteq Chunk /\ written \in Seq(Chunk)

JobsOK == \A w \in Workers : pc[w] = "push" => job[w] # NoChunk

\* Types of the variables.
TypeOK == ControlOK /\ FlagsOK /\ DataOK /\ JobsOK

\* Frames reach the shard writer in the order of their indexes, every frame
\* but the last being full and not final, whatever order the workers end in.
WrittenInOrder ==
    \A i \in 1..Len(written) :
        /\ written[i].index = i - 1
        /\ i < Len(written) => written[i].len = ChunkSize /\ ~written[i].final

\* What core_encrypt announces in the public header, from the planned size.
ChunkCount == IF ExpectedBytes = 0 THEN 1 ELSE (ExpectedBytes + ChunkSize - 1) \div ChunkSize
FinalChunkLen == IF ExpectedBytes % ChunkSize = 0 THEN ChunkSize ELSE ExpectedBytes % ChunkSize

\* The shards are finalised only if nothing failed anywhere and the frames on
\* disk are exactly those the public header announces: a producer that
\* noticed a changed file, or a worker that dropped its chunk, always stops
\* finish(), however late it fails.
FinishOnlyComplete ==
    finished =>
        /\ ~first_exception /\ ~failed
        /\ \A w \in Workers : pc[w] = "done"
        /\ ExpectedBytes > 0 => /\ Len(written) = ChunkCount
                                /\ written[Len(written)].len = FinalChunkLen
        /\ written[Len(written)].final

\* The writer's internal errors cannot occur: no stale, duplicate or missing
\* chunk, except for missing ones that a recorded failure explains.
NoInternalError ==
    /\ \A i \in 1..Len(write_queue) :
          /\ write_queue[i].index >= NextExpected
          /\ write_queue[i].index \notin Indexes(pending)
          /\ \A k \in 1..(i - 1) : write_queue[k].index # write_queue[i].index
    /\ pc["writer"] = "pop" /\ write_queue = << >> /\ write_closed /\ ~failed => pending = {}

\* A chunk index, hence a nonce, is never used for a second encryption.
NonceUsedOnce ==
    [][\A w \in Workers : job'[w] # job[w] /\ job'[w] # NoChunk
                              => job'[w].index \notin sealed]_vars

\* run() reports exactly what happened: it returns normally iff the shards
\* were finalised.
OutcomeHonest == Ended => (pc["writer"] = "returned" <=> finished)

\* The pipeline is an ordered stream into the shard writer, all or nothing.
Stream == INSTANCE OrderedStream WITH
              emitted   <- next_chunk,
              complete  <- pc["producer"] \in {"close", "done"},
              delivered <- Len(written),
              outcome   <- IF finished THEN "committed"
                           ELSE IF pc["writer"] = "threw" THEN "abandoned" ELSE "open"
ImplementsStream == Stream!Spec

\* run() comes back, whatever the producer and the workers run into, unless
\* the writer itself throws: the queues that a failing thread closes are
\* enough to release every other thread.
Termination == [](pc["writer"] # "record") => <>Ended

\* After a failure of any stage run() throws, so that core_encrypt can remove
\* the shards created so far.
FailureIsReported == first_exception ~> pc["writer"] = "threw"
=============================================================================
