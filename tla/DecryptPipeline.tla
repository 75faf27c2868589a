-------------------------- MODULE DecryptPipeline --------------------------
(***************************************************************************)
(* pipeline::DecryptPipeline::run(): a reader thread takes frames from the *)
(* ShardReader, workers authenticate and decrypt them, a joiner waits for  *)
(* the workers, and the calling thread ("consumer") feeds the plaintext to *)
(* the ArchiveReader in order and promotes the extracted tree at the end.  *)
(*                                                                         *)
(* The frames on disk are data of the environment: which of them fail      *)
(* authentication, and how long the final one is, is chosen in Init.       *)
(* ShardReader::read_next_chunk_record() returns frames 0, 1, ... in order *)
(* and requires every frame but the last to be full, or throws.            *)
(***************************************************************************)
EXTENDS Integers, Sequences, FiniteSets

CONSTANTS Workers,      \* worker threads
          QueueDepth,   \* resolve_queue_depth()
          NumChunks,    \* global_chunk_count of the authenticated header
          ChunkSize,    \* chunk_plain_size
          PaddedSize,   \* options.padded_plaintext_size
          Faulty        \* stages whose library calls may throw

ASSUME WorkersAssumption ==
    /\ Workers # {} /\ IsFiniteSet(Workers)
    /\ Workers \cap {"reader", "joiner", "consumer"} = {}
ASSUME SizesAssumption ==
    /\ QueueDepth \in Nat \ {0} /\ NumChunks \in Nat \ {0} /\ ChunkSize \in Nat \ {0}
    /\ PaddedSize \in Nat
ASSUME FaultyAssumption == Faulty \subseteq {"reader", "consumer"}

VARIABLES
    pc,              \* label of each thread
    forged,          \* frames whose tag does not verify
    final_len,       \* plaintext_len of the final frame
    next_read,       \* frames returned by the ShardReader so far
    decrypt_queue, decrypt_closed,
    plaintext_queue, plaintext_closed,
    job,             \* the frame a worker is processing
    pending,         \* the consumer's reorder map, as a set of indexes
    consumed,        \* indexes passed to ArchiveReader::consume()
    total,           \* total_plaintext_bytes
    promoted,        \* ArchiveReader::finish() has returned
    first_exception, \* FailureState: an exception is stored
    failed           \* FailureState::failed_

archive_vars == <<forged, final_len>>
queue_vars == <<decrypt_queue, decrypt_closed, plaintext_queue, plaintext_closed>>
consumer_vars == <<pending, consumed, total, promoted>>
failure_vars == <<first_exception, failed>>
vars == <<pc, archive_vars, next_read, queue_vars, job, consumer_vars, failure_vars>>

Threads == Workers \cup {"reader", "joiner", "consumer"}
NoJob == -1
NextExpected == Len(consumed)
PlainLen(i) == IF i = NumChunks - 1 THEN final_len ELSE ChunkSize

Goto(t, l) == pc' = [pc EXCEPT ![t] = l]

Init ==
    /\ pc = [t \in Threads |->
                 CASE t = "reader" -> "read" [] t = "joiner" -> "join"
                   [] t = "consumer" -> "pop" [] OTHER -> "check"]
    /\ forged \in SUBSET (0..(NumChunks - 1))
    /\ final_len \in 0..ChunkSize
    /\ next_read = 0
    /\ decrypt_queue = << >> /\ decrypt_closed = FALSE
    /\ plaintext_queue = << >> /\ plaintext_closed = FALSE
    /\ job = [w \in Workers |-> NoJob]
    /\ pending = {} /\ consumed = << >> /\ total = 0 /\ promoted = FALSE
    /\ first_exception = FALSE /\ failed = FALSE

----------------------------------------------------------------------------
\* FailureState::record(), then the catch block of the stage.
RecordException(t) ==
    /\ pc[t] = "record"
    /\ first_exception' = TRUE
    /\ Goto(t, "flag")
    /\ UNCHANGED <<archive_vars, next_read, queue_vars, job, consumer_vars, failed>>

StoreFailed(t) ==
    /\ pc[t] = "flag"
    /\ failed' = TRUE
    /\ Goto(t, IF t \in Workers THEN "close_decrypt"
               ELSE IF t = "reader" THEN "quit" ELSE "close_plain")
    /\ UNCHANGED <<archive_vars, next_read, queue_vars, job, consumer_vars, first_exception>>

----------------------------------------------------------------------------
\* Mutant: one frame too many is read.
ReaderReadPast ==
    /\ pc["reader"] = "read"
    /\ \/ failed /\ Goto("reader", "quit")
       \/ ~failed /\ next_read <= NumChunks /\ Goto("reader", "push")
       \/ ~failed /\ next_read > NumChunks /\ Goto("reader", "close")
    /\ UNCHANGED <<archive_vars, next_read, queue_vars, job, consumer_vars, failure_vars>>

\* reader_main(): stop on failure; otherwise the next frame, the end of the
\* archive, or an error of the ShardReader.
ReaderRead ==
    /\ pc["reader"] = "read"
    /\ \/ failed /\ Goto("reader", "quit")
       \/ ~failed /\ next_read < NumChunks /\ Goto("reader", "push")
       \/ ~failed /\ next_read = NumChunks /\ Goto("reader", "close")
       \/ ~failed /\ "reader" \in Faulty /\ Goto("reader", "record")
    /\ UNCHANGED <<archive_vars, next_read, queue_vars, job, consumer_vars, failure_vars>>

ReaderPush ==
    /\ pc["reader"] = "push"
    /\ decrypt_closed \/ Len(decrypt_queue) < QueueDepth
    /\ next_read' = next_read + 1
    /\ decrypt_queue' = IF decrypt_closed THEN decrypt_queue ELSE Append(decrypt_queue, next_read)
    /\ Goto("reader", IF decrypt_closed THEN "quit" ELSE "read")
    /\ UNCHANGED <<archive_vars, decrypt_closed, plaintext_queue, plaintext_closed, job,
                   consumer_vars, failure_vars>>

\* decrypt_queue.close(), after the last frame or after a failure.
ReaderClose ==
    /\ pc["reader"] \in {"close", "quit"}
    /\ decrypt_closed' = TRUE
    /\ Goto("reader", IF pc["reader"] = "close" THEN "done" ELSE "stopped")
    /\ UNCHANGED <<archive_vars, next_read, decrypt_queue, plaintext_queue, plaintext_closed,
                   job, consumer_vars, failure_vars>>

----------------------------------------------------------------------------
\* decryption_worker_main(): the loop head.
WorkerCheck(w) ==
    /\ pc[w] = "check"
    /\ Goto(w, IF failed THEN "done" ELSE "pop")
    /\ UNCHANGED <<archive_vars, next_read, queue_vars, job, consumer_vars, failure_vars>>

\* Mutant: a tag failure is not raised.
Authentic_Always(i) == TRUE

\* decrypt_chunk() succeeds iff the tag verifies.
Authentic(i) == i \notin forged

\* pop() and decrypt; AuthenticationFailed ends the worker.
WorkerOpen(w) ==
    /\ pc[w] = "pop"
    /\ decrypt_queue # << >>
    /\ decrypt_queue' = Tail(decrypt_queue)
    /\ job' = [job EXCEPT ![w] = Head(decrypt_queue)]
    /\ Goto(w, IF Authentic(Head(decrypt_queue)) THEN "push" ELSE "record")
    /\ UNCHANGED <<archive_vars, next_read, decrypt_closed, plaintext_queue,
                   plaintext_closed, consumer_vars, failure_vars>>

WorkerDrained(w) ==
    /\ pc[w] = "pop"
    /\ decrypt_queue = << >> /\ decrypt_closed
    /\ Goto(w, "done")
    /\ UNCHANGED <<archive_vars, next_read, queue_vars, job, consumer_vars, failure_vars>>

\* Mutant: the chunk is dropped instead of waiting for room.
WorkerTryPush(w) ==
    /\ pc[w] = "push"
    /\ plaintext_queue' = IF Len(plaintext_queue) < QueueDepth
                          THEN Append(plaintext_queue, job[w]) ELSE plaintext_queue
    /\ job' = [job EXCEPT ![w] = NoJob]
    /\ Goto(w, IF plaintext_closed THEN "done" ELSE "check")
    /\ UNCHANGED <<archive_vars, next_read, decrypt_queue, decrypt_closed, plaintext_closed,
                   consumer_vars, failure_vars>>

\* plaintext_queue.push(); false ends the worker and the plaintext is dropped.
WorkerPush(w) ==
    /\ pc[w] = "push"
    /\ plaintext_closed \/ Len(plaintext_queue) < QueueDepth
    /\ plaintext_queue' = IF plaintext_closed THEN plaintext_queue
                          ELSE Append(plaintext_queue, job[w])
    /\ job' = [job EXCEPT ![w] = NoJob]
    /\ Goto(w, IF plaintext_closed THEN "done" ELSE "check")
    /\ UNCHANGED <<archive_vars, next_read, decrypt_queue, decrypt_closed, plaintext_closed,
                   consumer_vars, failure_vars>>

\* Mutant: a failing worker leaves decrypt_queue open.
WorkerSkipDecrypt(w) ==
    /\ pc[w] = "close_decrypt"
    /\ Goto(w, "close_plain")
    /\ UNCHANGED <<archive_vars, next_read, queue_vars, job, consumer_vars, failure_vars>>

\* The catch block closes both queues, one after the other.
WorkerCloseDecrypt(w) ==
    /\ pc[w] = "close_decrypt"
    /\ decrypt_closed' = TRUE
    /\ Goto(w, "close_plain")
    /\ UNCHANGED <<archive_vars, next_read, decrypt_queue, plaintext_queue, plaintext_closed,
                   job, consumer_vars, failure_vars>>

WorkerClosePlain(w) ==
    /\ pc[w] = "close_plain"
    /\ plaintext_closed' = TRUE
    /\ Goto(w, "done")
    /\ UNCHANGED <<archive_vars, next_read, decrypt_queue, decrypt_closed, plaintext_queue,
                   job, consumer_vars, failure_vars>>

\* worker_joiner: no more plaintext will come.
JoinWorkers ==
    /\ pc["joiner"] = "join"
    /\ \A w \in Workers : pc[w] = "done"
    /\ plaintext_closed' = TRUE
    /\ Goto("joiner", "done")
    /\ UNCHANGED <<archive_vars, next_read, decrypt_queue, decrypt_closed, plaintext_queue,
                   job, consumer_vars, failure_vars>>

----------------------------------------------------------------------------
\* ordered_plaintext_consumer_main(): into the reorder map.
ConsumerPop ==
    /\ pc["consumer"] = "pop"
    /\ plaintext_queue # << >>
    /\ plaintext_queue' = Tail(plaintext_queue)
    /\ IF Head(plaintext_queue) < NextExpected \/ Head(plaintext_queue) \in pending
       THEN Goto("consumer", "record") /\ UNCHANGED pending
       ELSE Goto("consumer", "consume") /\ pending' = pending \cup {Head(plaintext_queue)}
    /\ UNCHANGED <<archive_vars, next_read, decrypt_queue, decrypt_closed, plaintext_closed,
                   job, consumed, total, promoted, failure_vars>>

\* Mutant: the plaintexts are consumed in the order they arrive.
ReadyAny(i) == i >= NextExpected

\* pending.find(next_expected_index).
Ready(i) == i = NextExpected

\* consume() the next plaintext if it is there; the bytes are counted first.
ConsumerConsume ==
    /\ pc["consumer"] = "consume"
    /\ \/ \E i \in pending :
             /\ Ready(i)
             /\ total' = total + PlainLen(i)
             /\ \/ /\ consumed' = Append(consumed, i)
                   /\ pending' = pending \ {i}
                   /\ UNCHANGED pc
                \/ /\ "consumer" \in Faulty
                   /\ Goto("consumer", "record")
                   /\ UNCHANGED <<consumed, pending>>
       \/ /\ \A i \in pending : ~Ready(i)
          /\ Goto("consumer", "pop")
          /\ UNCHANGED <<total, consumed, pending>>
    /\ UNCHANGED <<archive_vars, next_read, queue_vars, job, promoted, failure_vars>>

\* Mutant: the failure flag is not consulted and the length is not compared.
ConsumerEndUnchecked ==
    /\ pc["consumer"] = "pop"
    /\ plaintext_queue = << >> /\ plaintext_closed
    /\ Goto("consumer", "finish")
    /\ UNCHANGED <<archive_vars, next_read, queue_vars, job, consumer_vars, failure_vars>>

\* Mutant: the decrypted length is not compared with the header.
ConsumerEndAnyLength ==
    /\ pc["consumer"] = "pop"
    /\ plaintext_queue = << >> /\ plaintext_closed
    /\ Goto("consumer", IF failed THEN "join_all"
                        ELSE IF pending # {} THEN "record" ELSE "finish")
    /\ UNCHANGED <<archive_vars, next_read, queue_vars, job, consumer_vars, failure_vars>>

\* Closed and drained: without a failure, missing chunks and a length other
\* than the header's padded_plaintext_size are errors, before finish().
ConsumerEnd ==
    /\ pc["consumer"] = "pop"
    /\ plaintext_queue = << >> /\ plaintext_closed
    /\ Goto("consumer", IF failed THEN "join_all"
                        ELSE IF \/ pending # {}
                                \/ PaddedSize # 0 /\ total # PaddedSize
                             THEN "record" ELSE "finish")
    /\ UNCHANGED <<archive_vars, next_read, queue_vars, job, consumer_vars, failure_vars>>

\* ArchiveReader::finish() promotes the temporary tree, or throws.
ConsumerFinish ==
    /\ pc["consumer"] = "finish"
    /\ \/ promoted' = TRUE /\ Goto("consumer", "join_all")
       \/ "consumer" \in Faulty /\ Goto("consumer", "record") /\ UNCHANGED promoted
    /\ UNCHANGED <<archive_vars, next_read, queue_vars, job, pending, consumed, total,
                   failure_vars>>

\* The consumer's catch block closes plaintext_queue, and only that one.
ConsumerClose ==
    /\ pc["consumer"] = "close_plain"
    /\ plaintext_closed' = TRUE
    /\ Goto("consumer", "join_all")
    /\ UNCHANGED <<archive_vars, next_read, decrypt_queue, decrypt_closed, plaintext_queue,
                   job, consumer_vars, failure_vars>>

\* run() joins the reader and the joiner and rethrows the first exception.
RunReturn ==
    /\ pc["consumer"] = "join_all"
    /\ pc["reader"] \in {"done", "stopped"}
    /\ pc["joiner"] = "done"
    /\ Goto("consumer", IF first_exception THEN "threw" ELSE "returned")
    /\ UNCHANGED <<archive_vars, next_read, queue_vars, job, consumer_vars, failure_vars>>

----------------------------------------------------------------------------
Reader == ReaderRead \/ ReaderPush \/ ReaderClose
              \/ RecordException("reader") \/ StoreFailed("reader")

Worker(w) ==
    \/ WorkerCheck(w) \/ WorkerOpen(w) \/ WorkerDrained(w) \/ WorkerPush(w)
    \/ WorkerCloseDecrypt(w) \/ WorkerClosePlain(w)
    \/ RecordException(w) \/ StoreFailed(w)

Consumer ==
    \/ ConsumerPop \/ ConsumerConsume \/ ConsumerEnd \/ ConsumerFinish \/ ConsumerClose
    \/ RunReturn \/ RecordException("consumer") \/ StoreFailed("consumer")

Ended == pc["consumer"] \in {"returned", "threw"}
Terminated == Ended /\ UNCHANGED vars

Next == Reader \/ (\E w \in Workers : Worker(w)) \/ JoinWorkers \/ Consumer \/ Terminated

\* Every thread that can proceed is eventually scheduled.
Fairness ==
    /\ WF_vars(Reader) /\ WF_vars(JoinWorkers) /\ WF_vars(Consumer)
    /\ \A w \in Workers : WF_vars(Worker(w))

Spec == Init /\ [][Next]_vars
FairSpec == Spec /\ Fairness

----------------------------------------------------------------------------
\* Types of the variables.
TypeOK ==
    /\ pc \in [Threads -> {"read", "push", "close", "quit", "stopped", "check", "pop",
                           "record", "flag", "close_decrypt", "close_plain", "join",
                           "consume", "finish", "join_all", "done", "returned", "threw"}]
    /\ forged \subseteq 0..(NumChunks - 1) /\ final_len \in 0..ChunkSize
    /\ next_read \in 0..NumChunks
    /\ decrypt_queue \in Seq(0..(NumChunks - 1)) /\ decrypt_closed \in BOOLEAN
    /\ plaintext_queue \in Seq(0..(NumChunks - 1)) /\ plaintext_closed \in BOOLEAN
    /\ job \in [Workers -> -1..(NumChunks - 1)]
    /\ pending \subseteq 0..(NumChunks - 1) /\ consumed \in Seq(0..(NumChunks - 1))
    /\ total \in Nat /\ promoted \in BOOLEAN
    /\ first_exception \in BOOLEAN /\ failed \in BOOLEAN

\* The archive parser is only ever fed authenticated plaintext, in order:
\* chunk i is the i-th thing it sees, and it verified.
ConsumesAuthenticPrefix ==
    \A i \in 1..Len(consumed) : consumed[i] = i - 1 /\ consumed[i] \notin forged

\* The extracted tree is promoted only if every frame of the archive
\* verified and was parsed, the lengths add up to the authenticated header's
\* padded_plaintext_size, and no stage has failed or can still fail; and
\* run() returns normally exactly when it has been promoted.
PromoteOnlyAuthentic ==
    /\ Ended => (pc["consumer"] = "returned" <=> promoted)
    /\ promoted =>
           /\ forged = {} /\ Len(consumed) = NumChunks
           /\ PaddedSize # 0 => (NumChunks - 1) * ChunkSize + final_len = PaddedSize
           /\ ~first_exception
           /\ \A w \in Workers : pc[w] = "done"

\* No stale, duplicate or missing plaintext chunk, except for missing ones
\* that a recorded failure explains.
NoInternalError ==
    /\ \A i \in 1..Len(plaintext_queue) :
          /\ plaintext_queue[i] >= NextExpected
          /\ plaintext_queue[i] \notin pending
          /\ \A k \in 1..(i - 1) : plaintext_queue[k] # plaintext_queue[i]
    /\ pc["consumer"] = "pop" /\ plaintext_queue = << >> /\ plaintext_closed /\ ~failed
           => pending = {}

\* The pipeline is an ordered stream into the archive reader, all or nothing.
Stream == INSTANCE OrderedStream WITH
              emitted   <- next_read,
              complete  <- pc["reader"] \in {"close", "done"},
              delivered <- Len(consumed),
              outcome   <- IF promoted THEN "committed"
                           ELSE IF pc["consumer"] = "threw" THEN "abandoned" ELSE "open"
ImplementsStream == Stream!Spec

\* run() comes back, whatever the reader and the workers run into, unless the
\* consumer itself throws: the queues that a failing thread closes are enough
\* to release every other thread.
Termination == [](pc["consumer"] # "record") => <>Ended
=============================================================================
