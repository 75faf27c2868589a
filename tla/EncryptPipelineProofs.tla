----------------------- MODULE EncryptPipelineProofs -----------------------
(***************************************************************************)
(* Proofs about EncryptPipeline for any number of workers, any queue depth *)
(* and chunk size, and archives of any length.                             *)
(***************************************************************************)
EXTENDS EncryptPipeline, TLAPS, SequenceTheorems

\* The thread names are distinct.
LEMMA ThreadNames ==
    /\ "producer" \in Threads /\ "writer" \in Threads /\ "joiner" \in Threads
    /\ \A w \in Workers : w \in Threads /\ w # "producer" /\ w # "writer" /\ w # "joiner"
  BY WorkersAssumption DEF Threads

\* The pipeline starts well typed.
LEMMA TypeInit == Init => TypeOK
<1> SUFFICES ASSUME Init PROVE TypeOK
  OBVIOUS
<1>1. ControlOK
  BY ThreadNames DEF Init, ControlOK, Labels, ProducerLabels, WorkerLabels, WriterLabels
<1>2. FlagsOK
  BY Zenon DEF Init, FlagsOK
<1>3. DataOK
  BY DEF Init, DataOK
<1>4. JobsOK
  BY ThreadNames DEF Init, JobsOK
<1> QED
  BY <1>1, <1>2, <1>3, <1>4 DEF TypeOK

\* Every thread stays within its code.
LEMMA ControlStep == ControlOK /\ [Next]_vars => ControlOK'
<1> SUFFICES ASSUME ControlOK, [Next]_vars PROVE ControlOK'
  OBVIOUS
<1> USE ThreadNames DEF ControlOK, Goto, Labels, ProducerLabels, WorkerLabels, WriterLabels
<1>1. CASE ProducerRead
  BY <1>1 DEF ProducerRead
<1>2. CASE ProducerCopy
  BY <1>2 DEF ProducerCopy, Fills
<1>3. CASE ProducerFlush
  BY <1>3 DEF ProducerFlush, PushPlain, Fills
<1>4. CASE ProducerTail
  BY <1>4 DEF ProducerTail
<1>5. CASE ProducerTailFull
  BY <1>5 DEF ProducerTailFull, PushPlain
<1>6. CASE ProducerTailFinal
  BY <1>6 DEF ProducerTailFinal, PushPlain
<1>7. CASE ProducerVerify
  BY <1>7 DEF ProducerVerify
<1>8. CASE ProducerClose
  BY <1>8 DEF ProducerClose
<1>9. ASSUME NEW w \in Workers, WorkerCheck(w) PROVE ControlOK'
  BY <1>9 DEF WorkerCheck
<1>10. ASSUME NEW w \in Workers, WorkerSeal(w) PROVE ControlOK'
  BY <1>10 DEF WorkerSeal
<1>11. ASSUME NEW w \in Workers, WorkerDrained(w) PROVE ControlOK'
  BY <1>11 DEF WorkerDrained
<1>12. ASSUME NEW w \in Workers, WorkerPush(w) PROVE ControlOK'
  BY <1>12 DEF WorkerPush
<1>13. ASSUME NEW w \in Workers, WorkerCloseEncrypt(w) PROVE ControlOK'
  BY <1>13 DEF WorkerCloseEncrypt
<1>14. ASSUME NEW w \in Workers, WorkerCloseWrite(w) PROVE ControlOK'
  BY <1>14 DEF WorkerCloseWrite
<1>15. CASE JoinWorkers
  BY <1>15 DEF JoinWorkers
<1>16. CASE WriterPop
  BY <1>16 DEF WriterPop
<1>17. CASE WriterWrite
  BY <1>17 DEF WriterWrite, Ready
<1>18. CASE WriterEnd
  BY <1>18 DEF WriterEnd
<1>19. CASE WriterFinish
  BY <1>19 DEF WriterFinish
<1>20. CASE WriterClose
  BY <1>20 DEF WriterClose
<1>21. CASE RunReturn
  BY <1>21 DEF RunReturn
<1>22. ASSUME NEW t \in Threads, RecordException(t) PROVE ControlOK'
  BY <1>22 DEF RecordException
<1>23. ASSUME NEW t \in Threads, StoreFailed(t) PROVE ControlOK'
  BY <1>23 DEF StoreFailed
<1>24. CASE UNCHANGED vars
  BY <1>24 DEF vars, producer_vars, queue_vars, worker_vars, writer_vars, failure_vars
<1>25. CASE ProducerPlanFails
  BY <1>25 DEF ProducerPlanFails
<1> QED
  BY <1>1, <1>2, <1>3, <1>4, <1>5, <1>6, <1>7, <1>8, <1>9, <1>10, <1>11,
     <1>12, <1>13, <1>14, <1>15, <1>16, <1>17, <1>18, <1>19, <1>20, <1>21,
     <1>22, <1>23, <1>24, <1>25, ThreadNames
     DEF Next, Producer, ProducerRuns, Worker, Writer, Terminated

\* The flags stay Boolean.
LEMMA FlagsStep == FlagsOK /\ [Next]_vars => FlagsOK'
<1> SUFFICES ASSUME FlagsOK, [Next]_vars PROVE FlagsOK'
  OBVIOUS
<1> USE DEF FlagsOK, producer_vars, queue_vars, worker_vars, writer_vars, failure_vars
<1>1. CASE ProducerRead
  BY <1>1 DEF ProducerRead
<1>2. CASE ProducerCopy
  BY <1>2 DEF ProducerCopy, Fills
<1>3. CASE ProducerFlush
  BY <1>3 DEF ProducerFlush, PushPlain, Fills
<1>4. CASE ProducerTail
  BY <1>4 DEF ProducerTail
<1>5. CASE ProducerTailFull
  BY <1>5 DEF ProducerTailFull, PushPlain
<1>6. CASE ProducerTailFinal
  BY <1>6 DEF ProducerTailFinal, PushPlain
<1>7. CASE ProducerVerify
  BY <1>7 DEF ProducerVerify
<1>8. CASE ProducerClose
  BY <1>8 DEF ProducerClose
<1>9. ASSUME NEW w \in Workers, WorkerCheck(w) PROVE FlagsOK'
  BY <1>9 DEF WorkerCheck
<1>10. ASSUME NEW w \in Workers, WorkerSeal(w) PROVE FlagsOK'
  BY <1>10 DEF WorkerSeal
<1>11. ASSUME NEW w \in Workers, WorkerDrained(w) PROVE FlagsOK'
  BY <1>11 DEF WorkerDrained
<1>12. ASSUME NEW w \in Workers, WorkerPush(w) PROVE FlagsOK'
  BY <1>12 DEF WorkerPush
<1>13. ASSUME NEW w \in Workers, WorkerCloseEncrypt(w) PROVE FlagsOK'
  BY <1>13 DEF WorkerCloseEncrypt
<1>14. ASSUME NEW w \in Workers, WorkerCloseWrite(w) PROVE FlagsOK'
  BY <1>14 DEF WorkerCloseWrite
<1>15. CASE JoinWorkers
  BY <1>15 DEF JoinWorkers
<1>16. CASE WriterPop
  BY <1>16 DEF WriterPop
<1>17. CASE WriterWrite
  BY <1>17 DEF WriterWrite, Ready
<1>18. CASE WriterEnd
  BY <1>18 DEF WriterEnd
<1>19. CASE WriterFinish
  BY <1>19 DEF WriterFinish
<1>20. CASE WriterClose
  BY <1>20 DEF WriterClose
<1>21. CASE RunReturn
  BY <1>21 DEF RunReturn
<1>22. ASSUME NEW t \in Threads, RecordException(t) PROVE FlagsOK'
  BY <1>22 DEF RecordException
<1>23. ASSUME NEW t \in Threads, StoreFailed(t) PROVE FlagsOK'
  BY <1>23 DEF StoreFailed
<1>24. CASE UNCHANGED vars
  BY <1>24 DEF vars, producer_vars, queue_vars, worker_vars, writer_vars, failure_vars
<1>25. CASE ProducerPlanFails
  BY <1>25 DEF ProducerPlanFails
<1> QED
  BY <1>1, <1>2, <1>3, <1>4, <1>5, <1>6, <1>7, <1>8, <1>9, <1>10, <1>11,
     <1>12, <1>13, <1>14, <1>15, <1>16, <1>17, <1>18, <1>19, <1>20, <1>21,
     <1>22, <1>23, <1>24, <1>25, ThreadNames
     DEF Next, Producer, ProducerRuns, Worker, Writer, Terminated

\* Chunks, queues and counters keep their types.
LEMMA DataStep == DataOK /\ JobsOK /\ [Next]_vars => DataOK'
<1> SUFFICES ASSUME DataOK, JobsOK, [Next]_vars PROVE DataOK'
  OBVIOUS
<1> USE DEF DataOK, producer_vars, queue_vars, worker_vars, writer_vars, failure_vars
<1>1. CASE ProducerRead
  BY <1>1, SizesAssumption DEF ProducerRead
<1>2. CASE ProducerCopy
  BY <1>2, SizesAssumption DEF ProducerCopy, Fills
<1>3. CASE ProducerFlush
  <2>1. [index |-> next_chunk, len |-> ChunkSize, final |-> FALSE] \in Chunk
    BY SizesAssumption DEF Chunk
  <2> QED
    BY <1>3, <2>1, SizesAssumption DEF ProducerFlush, PushPlain, Fills
<1>4. CASE ProducerTail
  BY <1>4 DEF ProducerTail
<1>5. CASE ProducerTailFull
  <2>1. [index |-> next_chunk, len |-> ChunkSize, final |-> FALSE] \in Chunk
    BY SizesAssumption DEF Chunk
  <2> QED
    BY <1>5, <2>1, SizesAssumption DEF ProducerTailFull, PushPlain
<1>6. CASE ProducerTailFinal
  <2>1. [index |-> next_chunk, len |-> IF pending_full THEN ChunkSize ELSE current, final |-> TRUE] \in Chunk
    BY SizesAssumption DEF Chunk
  <2> QED
    BY <1>6, <2>1, SizesAssumption DEF ProducerTailFinal, PushPlain
<1>7. CASE ProducerVerify
  BY <1>7 DEF ProducerVerify
<1>8. CASE ProducerClose
  BY <1>8 DEF ProducerClose
<1>9. ASSUME NEW w \in Workers, WorkerCheck(w) PROVE DataOK'
  BY <1>9 DEF WorkerCheck
<1>10. ASSUME NEW w \in Workers, WorkerSeal(w) PROVE DataOK'
  <2>1. Head(encrypt_queue) \in Chunk /\ Tail(encrypt_queue) \in Seq(Chunk)
    BY <1>10 DEF WorkerSeal
  <2>2. Head(encrypt_queue).index \in Nat
    BY <2>1 DEF Chunk
  <2> QED
    BY <1>10, <2>1, <2>2 DEF WorkerSeal
<1>11. ASSUME NEW w \in Workers, WorkerDrained(w) PROVE DataOK'
  BY <1>11 DEF WorkerDrained
<1>12. ASSUME NEW w \in Workers, WorkerPush(w) PROVE DataOK'
  <2>1. job[w] \in Chunk
    BY <1>12 DEF WorkerPush, JobsOK
  <2> QED
    BY <1>12, <2>1 DEF WorkerPush
<1>13. ASSUME NEW w \in Workers, WorkerCloseEncrypt(w) PROVE DataOK'
  BY <1>13 DEF WorkerCloseEncrypt
<1>14. ASSUME NEW w \in Workers, WorkerCloseWrite(w) PROVE DataOK'
  BY <1>14 DEF WorkerCloseWrite
<1>15. CASE JoinWorkers
  BY <1>15 DEF JoinWorkers
<1>16. CASE WriterPop
  <2>1. Head(write_queue) \in Chunk /\ Tail(write_queue) \in Seq(Chunk)
    BY <1>16 DEF WriterPop
  <2> QED
    BY <1>16, <2>1 DEF WriterPop
<1>17. CASE WriterWrite
  <2>1. ASSUME NEW c \in pending, written' = Append(written, c) PROVE written' \in Seq(Chunk)
    BY <2>1
  <2>2. written' \in Seq(Chunk) /\ pending' \subseteq Chunk
    BY <1>17, <2>1 DEF WriterWrite, Ready
  <2> QED
    BY <1>17, <2>2 DEF WriterWrite, Ready
<1>18. CASE WriterEnd
  BY <1>18 DEF WriterEnd
<1>19. CASE WriterFinish
  BY <1>19 DEF WriterFinish
<1>20. CASE WriterClose
  BY <1>20 DEF WriterClose
<1>21. CASE RunReturn
  BY <1>21 DEF RunReturn
<1>22. ASSUME NEW t \in Threads, RecordException(t) PROVE DataOK'
  BY <1>22 DEF RecordException
<1>23. ASSUME NEW t \in Threads, StoreFailed(t) PROVE DataOK'
  BY <1>23 DEF StoreFailed
<1>24. CASE UNCHANGED vars
  BY <1>24 DEF vars, producer_vars, queue_vars, worker_vars, writer_vars, failure_vars
<1>25. CASE ProducerPlanFails
  BY <1>25 DEF ProducerPlanFails
<1> QED
  BY <1>1, <1>2, <1>3, <1>4, <1>5, <1>6, <1>7, <1>8, <1>9, <1>10, <1>11,
     <1>12, <1>13, <1>14, <1>15, <1>16, <1>17, <1>18, <1>19, <1>20, <1>21,
     <1>22, <1>23, <1>24, <1>25, ThreadNames
     DEF Next, Producer, ProducerRuns, Worker, Writer, Terminated

\* A worker that is about to push holds a chunk.
LEMMA JobsStep == TypeOK /\ [Next]_vars => JobsOK'
<1> SUFFICES ASSUME TypeOK, [Next]_vars PROVE JobsOK'
  OBVIOUS
<1> USE ThreadNames DEF TypeOK, ControlOK, JobsOK, Goto, worker_vars
<1>1. CASE ProducerRead
  BY <1>1 DEF ProducerRead
<1>2. CASE ProducerCopy
  BY <1>2 DEF ProducerCopy, Fills
<1>3. CASE ProducerFlush
  BY <1>3 DEF ProducerFlush, PushPlain, Fills
<1>4. CASE ProducerTail
  BY <1>4 DEF ProducerTail
<1>5. CASE ProducerTailFull
  BY <1>5 DEF ProducerTailFull, PushPlain
<1>6. CASE ProducerTailFinal
  BY <1>6 DEF ProducerTailFinal, PushPlain
<1>7. CASE ProducerVerify
  BY <1>7 DEF ProducerVerify
<1>8. CASE ProducerClose
  BY <1>8 DEF ProducerClose
<1>9. ASSUME NEW w \in Workers, WorkerCheck(w) PROVE JobsOK'
  BY <1>9 DEF WorkerCheck
<1>10. ASSUME NEW w \in Workers, WorkerSeal(w) PROVE JobsOK'
  <2>1. Head(encrypt_queue) \in Chunk
    BY <1>10 DEF WorkerSeal, DataOK
  <2>2. Head(encrypt_queue) # NoChunk
    BY <2>1 DEF Chunk, NoChunk
  <2> QED
    BY <1>10, <2>2 DEF WorkerSeal, DataOK
<1>11. ASSUME NEW w \in Workers, WorkerDrained(w) PROVE JobsOK'
  BY <1>11 DEF WorkerDrained
<1>12. ASSUME NEW w \in Workers, WorkerPush(w) PROVE JobsOK'
  BY <1>12 DEF WorkerPush, DataOK
<1>13. ASSUME NEW w \in Workers, WorkerCloseEncrypt(w) PROVE JobsOK'
  BY <1>13 DEF WorkerCloseEncrypt
<1>14. ASSUME NEW w \in Workers, WorkerCloseWrite(w) PROVE JobsOK'
  BY <1>14 DEF WorkerCloseWrite
<1>15. CASE JoinWorkers
  BY <1>15 DEF JoinWorkers
<1>16. CASE WriterPop
  BY <1>16 DEF WriterPop
<1>17. CASE WriterWrite
  BY <1>17 DEF WriterWrite, Ready
<1>18. CASE WriterEnd
  BY <1>18 DEF WriterEnd
<1>19. CASE WriterFinish
  BY <1>19 DEF WriterFinish
<1>20. CASE WriterClose
  BY <1>20 DEF WriterClose
<1>21. CASE RunReturn
  BY <1>21 DEF RunReturn
<1>22. ASSUME NEW t \in Threads, RecordException(t) PROVE JobsOK'
  BY <1>22 DEF RecordException
<1>23. ASSUME NEW t \in Threads, StoreFailed(t) PROVE JobsOK'
  BY <1>23 DEF StoreFailed
<1>24. CASE UNCHANGED vars
  BY <1>24 DEF vars, producer_vars, queue_vars, worker_vars, writer_vars, failure_vars
<1>25. CASE ProducerPlanFails
  BY <1>25 DEF ProducerPlanFails
<1> QED
  BY <1>1, <1>2, <1>3, <1>4, <1>5, <1>6, <1>7, <1>8, <1>9, <1>10, <1>11,
     <1>12, <1>13, <1>14, <1>15, <1>16, <1>17, <1>18, <1>19, <1>20, <1>21,
     <1>22, <1>23, <1>24, <1>25, ThreadNames
     DEF Next, Producer, ProducerRuns, Worker, Writer, Terminated

\* Type correctness of the pipeline (EncryptPipeline.cpp): every thread stays
\* within its code and queues, reorder map and frames only hold real chunks.
THEOREM TypeCorrect == Spec => []TypeOK
<1>1. Init => TypeOK
  BY TypeInit
<1>2. TypeOK /\ [Next]_vars => TypeOK'
  BY ControlStep, FlagsStep, DataStep, JobsStep DEF TypeOK
<1> QED
  BY <1>1, <1>2, PTL DEF Spec

----------------------------------------------------------------------------
(* Where the chunks are: no chunk is in two places. *)

\* A plaintext chunk in the queue has an index that was handed out and not
\* sealed yet; the queue is in increasing order.
QueuedInv ==
    /\ \A i \in sealed : i < next_chunk
    /\ \A k \in 1..Len(encrypt_queue) :
          encrypt_queue[k].index < next_chunk /\ encrypt_queue[k].index \notin sealed
    /\ \A j, k \in 1..Len(encrypt_queue) :
          j < k => encrypt_queue[j].index < encrypt_queue[k].index

\* The frames written are the first sealed chunks, in order.
WrittenInv ==
    \A i \in 1..Len(written) : written[i].index = i - 1 /\ i - 1 \in sealed

\* A sealed chunk that is not written yet is with one worker, in the write
\* queue or in the reorder map, and in one place only.
Unwritten(i) == i \in sealed /\ i >= NextExpected

PendingInv ==
    /\ \A c \in pending : Unwritten(c.index)
    /\ \A c, d \in pending : c.index = d.index => c = d

WriteQueueInv ==
    \A k \in 1..Len(write_queue) :
        /\ Unwritten(write_queue[k].index)
        /\ \A c \in pending : c.index # write_queue[k].index
        /\ \A j \in 1..Len(write_queue) : j # k => write_queue[j].index # write_queue[k].index

JobInv ==
    \A w \in Workers : job[w] # NoChunk =>
        /\ Unwritten(job[w].index)
        /\ \A c \in pending : c.index # job[w].index
        /\ \A k \in 1..Len(write_queue) : write_queue[k].index # job[w].index
        /\ \A v \in Workers : v # w => job[v].index # job[w].index

PlaceInv == QueuedInv /\ WrittenInv /\ PendingInv /\ WriteQueueInv /\ JobInv

chunk_vars == <<next_chunk, encrypt_queue, write_queue, job, sealed, pending, written>>

\* A push into the plaintext queue.
Enqueue == /\ pc["producer"] \in {"append", "tail_full", "tail_final"}
           /\ \E len \in Nat, final \in BOOLEAN : PushPlain(len, final)
           /\ UNCHANGED <<write_queue, job, sealed, pending, written>>

\* These steps move chunks; all others leave them where they are.
LEMMA ChunkMoves ==
    ASSUME TypeOK, [Next]_vars
    PROVE  \/ Enqueue \/ (\E w \in Workers : WorkerSeal(w) \/ WorkerPush(w))
           \/ WriterPop \/ WriterWrite \/ UNCHANGED chunk_vars
<1> USE DEF chunk_vars, producer_vars, queue_vars, worker_vars, writer_vars, failure_vars
<1>1. CASE ProducerFlush \/ ProducerTailFull \/ ProducerTailFinal
  <2>1. ChunkSize \in Nat /\ current \in Nat
    BY SizesAssumption DEF TypeOK, DataOK
  <2> QED
    BY <1>1, <2>1 DEF Enqueue, ProducerFlush, ProducerTailFull, ProducerTailFinal
<1>2. CASE \/ ProducerRead \/ ProducerCopy \/ ProducerTail \/ ProducerPlanFails
           \/ ProducerVerify \/ ProducerClose \/ JoinWorkers \/ WriterEnd \/ WriterFinish \/ WriterClose \/ RunReturn
           \/ UNCHANGED vars
  BY <1>2 DEF ProducerRead, ProducerCopy, ProducerTail, ProducerPlanFails, ProducerVerify,
     ProducerClose, JoinWorkers, WriterEnd, WriterFinish, WriterClose, RunReturn, vars
<1>3. ASSUME NEW t \in Threads, RecordException(t) \/ StoreFailed(t)
      PROVE  UNCHANGED chunk_vars
  BY <1>3 DEF RecordException, StoreFailed
<1>4. ASSUME NEW w \in Workers, \/ WorkerCheck(w) \/ WorkerDrained(w)
                                \/ WorkerCloseEncrypt(w) \/ WorkerCloseWrite(w)
      PROVE  UNCHANGED chunk_vars
  BY <1>4 DEF WorkerCheck, WorkerDrained, WorkerCloseEncrypt, WorkerCloseWrite
<1> QED
  BY <1>1, <1>2, <1>3, <1>4, ThreadNames DEF Next, Producer, ProducerRuns, Worker, Writer, Terminated

\* The indexes of chunks are natural numbers.
LEMMA ChunkIndexes ==
    ASSUME TypeOK
    PROVE  /\ \A k \in 1..Len(encrypt_queue) : encrypt_queue[k].index \in Nat
           /\ \A k \in 1..Len(write_queue) : write_queue[k].index \in Nat
           /\ \A c \in pending : c.index \in Nat
           /\ \A w \in Workers : job[w] # NoChunk => job[w].index \in Nat
           /\ Len(written) \in Nat
<1>1. \A c \in Chunk : c.index \in Nat
  BY DEF Chunk
<1>2. /\ encrypt_queue \in Seq(Chunk) /\ write_queue \in Seq(Chunk) /\ written \in Seq(Chunk)
      /\ pending \subseteq Chunk /\ job \in [Workers -> Chunk \cup {NoChunk}]
  BY DEF TypeOK, DataOK
<1> QED
  BY <1>1, <1>2

\* A chunk that the producer pushes gets the next index.
LEMMA EnqueuePlaces == TypeOK /\ PlaceInv /\ Enqueue => PlaceInv'
<1> SUFFICES ASSUME TypeOK, PlaceInv, Enqueue PROVE PlaceInv'
  OBVIOUS
<1>1. PICK len \in Nat, final \in BOOLEAN : PushPlain(len, final)
  BY DEF Enqueue
<1>2. UNCHANGED <<write_queue, job, sealed, pending, written>>
  BY DEF Enqueue
<1> DEFINE c == [index |-> next_chunk, len |-> len, final |-> final]
<1>3. c.index = next_chunk /\ c \in Chunk
  BY DEF TypeOK, DataOK, Chunk
<1>4. /\ next_chunk' = next_chunk + 1
      /\ encrypt_queue' = encrypt_queue \/ encrypt_queue' = Append(encrypt_queue, c)
  BY <1>1 DEF PushPlain
<1> HIDE DEF c
<1>5. QueuedInv'
  <2>1. /\ sealed \subseteq Nat /\ next_chunk \in Nat /\ encrypt_queue \in Seq(Chunk)
    BY DEF TypeOK, DataOK
  <2>2. CASE encrypt_queue' = encrypt_queue
    BY <1>2, <1>4, <2>1, <2>2, ChunkIndexes DEF PlaceInv, QueuedInv
  <2>3. CASE encrypt_queue' = Append(encrypt_queue, c)
    <3>1. /\ Len(encrypt_queue') = Len(encrypt_queue) + 1 /\ Len(encrypt_queue) \in Nat
          /\ \A k \in 1..Len(encrypt_queue) : encrypt_queue'[k] = encrypt_queue[k]
          /\ encrypt_queue'[Len(encrypt_queue) + 1] = c
      BY <1>3, <2>1, <2>3
    <3>2. \A k \in 1..Len(encrypt_queue') : k \in 1..Len(encrypt_queue) \/ k = Len(encrypt_queue) + 1
      BY <3>1
    <3> QED
      BY <1>2, <1>3, <1>4, <2>1, <3>1, <3>2, ChunkIndexes DEF PlaceInv, QueuedInv
  <2> QED
    BY <1>4, <2>2, <2>3
<1> QED
  BY <1>2, <1>5 DEF PlaceInv, WrittenInv, PendingInv, WriteQueueInv, JobInv, Unwritten,
     NextExpected

\* A worker takes the oldest plaintext chunk, whose index is not sealed yet.
LEMMA SealPlaces ==
    ASSUME TypeOK, PlaceInv, NEW w \in Workers, WorkerSeal(w)
    PROVE  PlaceInv' /\ Head(encrypt_queue).index \notin sealed
<1> DEFINE c == Head(encrypt_queue)
<1>1. encrypt_queue \in Seq(Chunk) /\ encrypt_queue # << >>
  BY DEF TypeOK, DataOK, WorkerSeal
<1>2. /\ encrypt_queue' = Tail(encrypt_queue) /\ job' = [job EXCEPT ![w] = c]
      /\ sealed' = sealed \cup {c.index}
      /\ UNCHANGED <<next_chunk, write_queue, pending, written>>
  BY DEF WorkerSeal, producer_vars, writer_vars
<1>3. /\ c = encrypt_queue[1] /\ 1 \in 1..Len(encrypt_queue)
      /\ c.index \in Nat /\ c \in Chunk
  BY <1>1, ChunkIndexes
<1>4. /\ c.index \notin sealed /\ c.index < next_chunk
      /\ \A k \in 2..Len(encrypt_queue) : c.index < encrypt_queue[k].index
  BY <1>1, <1>3 DEF PlaceInv, QueuedInv
<1>5. \A k \in 1..Len(Tail(encrypt_queue)) :
         k + 1 \in 1..Len(encrypt_queue) /\ Tail(encrypt_queue)[k] = encrypt_queue[k + 1]
  BY <1>1
<1>6. c.index >= NextExpected
  <2> SUFFICES ASSUME c.index < Len(written) PROVE FALSE
    BY <1>3, ChunkIndexes DEF NextExpected
  <2>1. c.index + 1 \in 1..Len(written) /\ (c.index + 1) - 1 = c.index
    BY <1>3, ChunkIndexes
  <2> QED
    BY <1>4, <2>1 DEF PlaceInv, WrittenInv
<1> HIDE DEF c
<1>7. QueuedInv'
  BY <1>1, <1>2, <1>3, <1>4, <1>5, ChunkIndexes DEF PlaceInv, QueuedInv
<1>8. WrittenInv' /\ PendingInv' /\ WriteQueueInv'
  BY <1>2 DEF PlaceInv, WrittenInv, PendingInv, WriteQueueInv, Unwritten, NextExpected
<1>9. JobInv'
  <2> SUFFICES ASSUME NEW v \in Workers, job'[v] # NoChunk
               PROVE  /\ Unwritten(job[v].index)'
                      /\ \A d \in pending : d.index # job'[v].index
                      /\ \A k \in 1..Len(write_queue) : write_queue[k].index # job'[v].index
                      /\ \A u \in Workers : u # v => job'[u].index # job'[v].index
    BY <1>2 DEF JobInv
  <2>1. job \in [Workers -> Chunk \cup {NoChunk}]
    BY DEF TypeOK, DataOK
  <2>2. \A u \in Workers : job[u].index # c.index
    BY <1>3, <1>4, <2>1 DEF PlaceInv, JobInv, Unwritten, NoChunk
  <2>3. CASE v = w
    BY <1>2, <1>3, <1>4, <1>6, <2>1, <2>2, <2>3
       DEF PlaceInv, PendingInv, WriteQueueInv, Unwritten, NextExpected
  <2>4. CASE v # w
    BY <1>2, <2>1, <2>2, <2>4 DEF PlaceInv, JobInv, Unwritten, NextExpected
  <2> QED
    BY <2>3, <2>4
<1> QED
  BY <1>4, <1>7, <1>8, <1>9 DEF PlaceInv, c

\* A worker hands its chunk over to the write queue, or drops it.
LEMMA PushPlaces ==
    ASSUME TypeOK, PlaceInv, NEW w \in Workers, WorkerPush(w)
    PROVE  PlaceInv'
<1>1. /\ job' = [job EXCEPT ![w] = NoChunk]
      /\ write_queue' = write_queue \/ write_queue' = Append(write_queue, job[w])
      /\ UNCHANGED <<next_chunk, encrypt_queue, sealed, pending, written>>
  BY DEF WorkerPush, producer_vars, writer_vars
<1>2. /\ job \in [Workers -> Chunk \cup {NoChunk}] /\ write_queue \in Seq(Chunk)
      /\ job[w] # NoChunk
  BY DEF TypeOK, DataOK, JobsOK, WorkerPush
<1>3. QueuedInv' /\ WrittenInv' /\ PendingInv'
  BY <1>1 DEF PlaceInv, QueuedInv, WrittenInv, PendingInv, Unwritten, NextExpected
<1>4. /\ Unwritten(job[w].index) /\ \A c \in pending : c.index # job[w].index
      /\ \A k \in 1..Len(write_queue) : write_queue[k].index # job[w].index
      /\ job[w] \in Chunk
  BY <1>2 DEF PlaceInv, JobInv
<1>5. WriteQueueInv'
  BY <1>1, <1>2, <1>4 DEF PlaceInv, WriteQueueInv, Unwritten, NextExpected
<1>6. JobInv'
  <2> SUFFICES ASSUME NEW v \in Workers, job'[v] # NoChunk
               PROVE  /\ Unwritten(job[v].index)'
                      /\ \A d \in pending : d.index # job'[v].index
                      /\ \A k \in 1..Len(write_queue') : write_queue'[k].index # job'[v].index
                      /\ \A u \in Workers : u # v => job'[u].index # job'[v].index
    BY <1>1 DEF JobInv
  <2>1. v # w /\ job'[v] = job[v] /\ job[v] # NoChunk
    BY <1>1, <1>2
  <2>2. /\ Unwritten(job[v].index) /\ \A c \in pending : c.index # job[v].index
        /\ \A k \in 1..Len(write_queue) : write_queue[k].index # job[v].index
        /\ \A u \in Workers : u # v => job[u].index # job[v].index
        /\ job[v].index \in Nat
    BY <2>1, ChunkIndexes DEF PlaceInv, JobInv
  <2>3. \A u \in Workers : job'[u] = job[u] \/ job'[u] = NoChunk
    BY <1>1, <1>2
  <2>4. NoChunk.index # job[v].index
    BY <2>2 DEF NoChunk
  <2>5. \A k \in 1..Len(write_queue') : write_queue'[k].index # job[v].index
    BY <1>1, <1>2, <1>4, <2>1, <2>2
  <2> QED
    BY <1>1, <2>1, <2>2, <2>3, <2>4, <2>5 DEF Unwritten, NextExpected
<1> QED
  BY <1>3, <1>5, <1>6 DEF PlaceInv

\* The writer moves the oldest sealed chunk into the reorder map.
LEMMA PopPlaces == TypeOK /\ PlaceInv /\ WriterPop => PlaceInv'
<1> SUFFICES ASSUME TypeOK, PlaceInv, WriterPop PROVE PlaceInv'
  OBVIOUS
<1> DEFINE c == Head(write_queue)
<1>1. write_queue \in Seq(Chunk) /\ write_queue # << >>
  BY DEF TypeOK, DataOK, WriterPop
<1>2. /\ write_queue' = Tail(write_queue)
      /\ pending' = pending \/ pending' = pending \cup {c}
      /\ UNCHANGED <<next_chunk, encrypt_queue, job, sealed, written>>
  BY DEF WriterPop, producer_vars, worker_vars
<1>3. c = write_queue[1] /\ 1 \in 1..Len(write_queue)
  BY <1>1
<1>4. \A k \in 1..Len(Tail(write_queue)) :
         /\ k + 1 \in 1..Len(write_queue) /\ k + 1 # 1
         /\ Tail(write_queue)[k] = write_queue[k + 1]
  BY <1>1
<1>5. /\ Unwritten(c.index) /\ \A d \in pending : d.index # c.index
      /\ \A k \in 1..Len(write_queue) : k # 1 => write_queue[k].index # c.index
  BY <1>3 DEF PlaceInv, WriteQueueInv
<1> HIDE DEF c
<1>6. QueuedInv' /\ WrittenInv'
  BY <1>2 DEF PlaceInv, QueuedInv, WrittenInv
<1>7. PendingInv'
  BY <1>2, <1>5 DEF PlaceInv, PendingInv, Unwritten, NextExpected
<1>8. WriteQueueInv'
  <2> SUFFICES ASSUME NEW k \in 1..Len(Tail(write_queue))
               PROVE  /\ Unwritten(write_queue[k + 1].index)
                      /\ \A d \in pending' : d.index # write_queue[k + 1].index
                      /\ \A j \in 1..Len(Tail(write_queue)) :
                            j # k => write_queue[j + 1].index # write_queue[k + 1].index
    BY <1>2, <1>4 DEF WriteQueueInv, Unwritten, NextExpected
  <2>1. \A j \in 1..Len(Tail(write_queue)) : j # k => j + 1 # k + 1
    OBVIOUS
  <2> QED
    BY <1>2, <1>4, <1>5, <2>1 DEF PlaceInv, WriteQueueInv
<1>9. JobInv'
  BY <1>2, <1>3, <1>4, <1>5 DEF PlaceInv, JobInv, Unwritten, NextExpected
<1> QED
  BY <1>6, <1>7, <1>8, <1>9 DEF PlaceInv

\* The writer writes the chunk whose turn it is.
LEMMA WritePlaces == TypeOK /\ PlaceInv /\ WriterWrite => PlaceInv'
<1> SUFFICES ASSUME TypeOK, PlaceInv, WriterWrite PROVE PlaceInv'
  OBVIOUS
<1>1. UNCHANGED <<next_chunk, encrypt_queue, write_queue, job, sealed>>
  BY DEF WriterWrite, producer_vars, queue_vars, worker_vars
<1>2. CASE UNCHANGED <<pending, written>>
  BY <1>1, <1>2 DEF PlaceInv, QueuedInv, WrittenInv, PendingInv, WriteQueueInv, JobInv,
     Unwritten, NextExpected
<1>3. ASSUME NEW c \in pending, c.index = NextExpected,
             written' = Append(written, c), pending' = pending \ {c}
      PROVE  PlaceInv'
  <2>1. written \in Seq(Chunk) /\ c \in Chunk /\ c.index \in Nat /\ Unwritten(c.index)
    BY ChunkIndexes DEF TypeOK, DataOK, PlaceInv, PendingInv
  <2>2. QueuedInv'
    BY <1>1 DEF PlaceInv, QueuedInv
  <2>3. WrittenInv'
    BY <1>1, <1>3, <2>1 DEF PlaceInv, WrittenInv, Unwritten, NextExpected
  <2>4. Len(written') = Len(written) + 1 /\ Len(written) \in Nat
    BY <1>3, <2>1
  <2>5. \A i \in Nat : Unwritten(i) /\ i # c.index => Unwritten(i)'
    BY <1>1, <1>3, <2>4 DEF Unwritten, NextExpected
  <2>6. PendingInv'
    BY <1>3, <2>5, ChunkIndexes DEF PlaceInv, PendingInv
  <2>7. WriteQueueInv'
    BY <1>1, <1>3, <2>5, ChunkIndexes DEF PlaceInv, WriteQueueInv
  <2>8. JobInv'
    BY <1>1, <1>3, <2>5, ChunkIndexes DEF PlaceInv, JobInv
  <2> QED
    BY <2>2, <2>3, <2>6, <2>7, <2>8 DEF PlaceInv
<1> QED
  BY <1>2, <1>3 DEF WriterWrite, Ready

\* No step puts a chunk in two places.
LEMMA PlaceStep == TypeOK /\ PlaceInv /\ [Next]_vars => PlaceInv'
<1> SUFFICES ASSUME TypeOK, PlaceInv, [Next]_vars PROVE PlaceInv'
  OBVIOUS
<1>1. CASE UNCHANGED chunk_vars
  BY <1>1 DEF chunk_vars, PlaceInv, QueuedInv, WrittenInv, PendingInv, WriteQueueInv, JobInv,
     Unwritten, NextExpected
<1> QED
  BY <1>1, ChunkMoves, EnqueuePlaces, SealPlaces, PushPlaces, PopPlaces, WritePlaces

\* Initially there is no chunk anywhere.
LEMMA PlaceInit == Init => PlaceInv
  BY DEF Init, PlaceInv, QueuedInv, WrittenInv, PendingInv, WriteQueueInv, JobInv

\* No chunk is ever in two places (EncryptPipeline.cpp: the queues, the
\* workers and the writer's reorder map together lose track of no chunk).
THEOREM ChunksInOnePlace == Spec => []PlaceInv
<1>1. TypeOK /\ PlaceInv /\ [Next]_vars => PlaceInv'
  BY PlaceStep
<1> QED
  BY <1>1, PlaceInit, TypeCorrect, PTL DEF Spec

\* No nonce is used twice (encryption_worker_main derives it from the chunk
\* index): the index a worker seals was never sealed before.
THEOREM NoncesUsedOnce == Spec => NonceUsedOnce
<1> DEFINE Fresh == \A w \in Workers : job'[w] # job[w] /\ job'[w] # NoChunk
                                           => job'[w].index \notin sealed
<1>1. TypeOK /\ PlaceInv /\ [Next]_vars => [Fresh]_vars
  <2> SUFFICES ASSUME TypeOK, PlaceInv, [Next]_vars, NEW w \in Workers,
                      job'[w] # job[w], job'[w] # NoChunk
               PROVE  job'[w].index \notin sealed
    OBVIOUS
  <2>1. job \in [Workers -> Chunk \cup {NoChunk}]
    BY DEF TypeOK, DataOK
  <2>2. ASSUME NEW v \in Workers, WorkerSeal(v) PROVE job'[w].index \notin sealed
    BY <2>1, <2>2, SealPlaces DEF WorkerSeal
  <2>3. ASSUME NEW v \in Workers, WorkerPush(v) PROVE FALSE
    BY <2>1, <2>3 DEF WorkerPush
  <2>4. CASE Enqueue \/ WriterPop \/ WriterWrite \/ UNCHANGED chunk_vars
    BY <2>4 DEF Enqueue, WriterPop, WriterWrite, chunk_vars, worker_vars
  <2> QED
    BY <2>2, <2>3, <2>4, ChunkMoves
<1> QED
  BY <1>1, TypeCorrect, ChunksInOnePlace, PTL DEF Spec, NonceUsedOnce

----------------------------------------------------------------------------
(* How the threads end. *)

\* failed_ is set after an exception was stored, and a stored exception is
\* followed by failed_; a thread gives up early only when failed_ is set.
RecordInv ==
    /\ failed => first_exception
    /\ \A t \in Threads : pc[t] = "flag" => first_exception
    /\ first_exception /\ ~failed => \E t \in Threads : pc[t] = "flag"
    /\ \A w \in Workers : pc[w] \in {"close_encrypt", "close_write"} => failed
    /\ pc["writer"] = "close_write" => failed
    /\ pc["producer"] \in {"quit", "stopped"} => failed

\* Without a failure a queue is closed only by the thread that has to, and a
\* worker ends with nothing left to do.
CloseInv ==
    /\ encrypt_closed /\ ~failed => pc["producer"] = "done"
    /\ write_closed /\ ~failed => pc["joiner"] = "done"
    /\ pc["joiner"] = "done" => \A w \in Workers : pc[w] = "done"
    /\ \A w \in Workers : pc[w] = "done" /\ ~failed
           => encrypt_closed /\ encrypt_queue = << >> /\ job[w] = NoChunk
    /\ \A w \in Workers : pc[w] \in {"check", "pop"} => job[w] = NoChunk

\* The order in which a failure is recorded, reported and acted on.
LEMMA RecordStep == TypeOK /\ RecordInv /\ CloseInv /\ [Next]_vars => RecordInv'
<1> SUFFICES ASSUME TypeOK, RecordInv, CloseInv, [Next]_vars PROVE RecordInv'
  OBVIOUS
<1> USE ThreadNames DEF TypeOK, ControlOK, FlagsOK, RecordInv, Goto, failure_vars
<1>1. CASE ProducerRead
  BY <1>1 DEF ProducerRead
<1>2. CASE ProducerCopy
  BY <1>2 DEF ProducerCopy, Fills
<1>3. CASE ProducerFlush
  BY <1>3 DEF ProducerFlush, PushPlain, Fills, CloseInv
<1>4. CASE ProducerTail
  BY <1>4 DEF ProducerTail
<1>5. CASE ProducerTailFull
  BY <1>5 DEF ProducerTailFull, PushPlain, CloseInv
<1>6. CASE ProducerTailFinal
  BY <1>6 DEF ProducerTailFinal, PushPlain
<1>7. CASE ProducerVerify
  BY <1>7 DEF ProducerVerify
<1>8. CASE ProducerClose
  BY <1>8 DEF ProducerClose
<1>9. ASSUME NEW w \in Workers, WorkerCheck(w) PROVE RecordInv'
  BY <1>9 DEF WorkerCheck
<1>10. ASSUME NEW w \in Workers, WorkerSeal(w) PROVE RecordInv'
  BY <1>10 DEF WorkerSeal
<1>11. ASSUME NEW w \in Workers, WorkerDrained(w) PROVE RecordInv'
  BY <1>11 DEF WorkerDrained
<1>12. ASSUME NEW w \in Workers, WorkerPush(w) PROVE RecordInv'
  BY <1>12 DEF WorkerPush
<1>13. ASSUME NEW w \in Workers, WorkerCloseEncrypt(w) PROVE RecordInv'
  BY <1>13 DEF WorkerCloseEncrypt
<1>14. ASSUME NEW w \in Workers, WorkerCloseWrite(w) PROVE RecordInv'
  BY <1>14 DEF WorkerCloseWrite
<1>15. CASE JoinWorkers
  BY <1>15 DEF JoinWorkers
<1>16. CASE WriterPop
  BY <1>16 DEF WriterPop
<1>17. CASE WriterWrite
  BY <1>17 DEF WriterWrite, Ready
<1>18. CASE WriterEnd
  BY <1>18 DEF WriterEnd
<1>19. CASE WriterFinish
  BY <1>19 DEF WriterFinish
<1>20. CASE WriterClose
  BY <1>20 DEF WriterClose
<1>21. CASE RunReturn
  BY <1>21 DEF RunReturn
<1>22. ASSUME NEW t \in Threads, RecordException(t) PROVE RecordInv'
  BY <1>22 DEF RecordException
<1>23. ASSUME NEW t \in Threads, StoreFailed(t) PROVE RecordInv'
  BY <1>23 DEF StoreFailed
<1>24. CASE UNCHANGED vars
  BY <1>24 DEF vars, producer_vars, queue_vars, worker_vars, writer_vars, failure_vars
<1>25. CASE ProducerPlanFails
  BY <1>25 DEF ProducerPlanFails
<1> QED
  BY <1>1, <1>2, <1>3, <1>4, <1>5, <1>6, <1>7, <1>8, <1>9, <1>10, <1>11,
     <1>12, <1>13, <1>14, <1>15, <1>16, <1>17, <1>18, <1>19, <1>20, <1>21,
     <1>22, <1>23, <1>24, <1>25, ThreadNames
     DEF Next, Producer, ProducerRuns, Worker, Writer, Terminated

\* Queues are closed, and workers end, in order.
LEMMA CloseStep == TypeOK /\ RecordInv /\ CloseInv /\ [Next]_vars => CloseInv'
<1> SUFFICES ASSUME TypeOK, RecordInv, CloseInv, [Next]_vars PROVE CloseInv'
  OBVIOUS
<1> USE ThreadNames DEF TypeOK, ControlOK, FlagsOK, DataOK, RecordInv, CloseInv, Goto,
        queue_vars, worker_vars, failure_vars
<1>1. CASE ProducerRead
  BY <1>1 DEF ProducerRead
<1>2. CASE ProducerCopy
  BY <1>2 DEF ProducerCopy, Fills
<1>3. CASE ProducerFlush
  BY <1>3 DEF ProducerFlush, PushPlain, Fills
<1>4. CASE ProducerTail
  BY <1>4 DEF ProducerTail
<1>5. CASE ProducerTailFull
  BY <1>5 DEF ProducerTailFull, PushPlain
<1>6. CASE ProducerTailFinal
  BY <1>6 DEF ProducerTailFinal, PushPlain
<1>7. CASE ProducerVerify
  BY <1>7 DEF ProducerVerify
<1>8. CASE ProducerClose
  BY <1>8 DEF ProducerClose
<1>9. ASSUME NEW w \in Workers, WorkerCheck(w) PROVE CloseInv'
  BY <1>9 DEF WorkerCheck
<1>10. ASSUME NEW w \in Workers, WorkerSeal(w) PROVE CloseInv'
  BY <1>10 DEF WorkerSeal
<1>11. ASSUME NEW w \in Workers, WorkerDrained(w) PROVE CloseInv'
  BY <1>11 DEF WorkerDrained
<1>12. ASSUME NEW w \in Workers, WorkerPush(w) PROVE CloseInv'
  BY <1>12 DEF WorkerPush
<1>13. ASSUME NEW w \in Workers, WorkerCloseEncrypt(w) PROVE CloseInv'
  BY <1>13 DEF WorkerCloseEncrypt
<1>14. ASSUME NEW w \in Workers, WorkerCloseWrite(w) PROVE CloseInv'
  BY <1>14 DEF WorkerCloseWrite
<1>15. CASE JoinWorkers
  BY <1>15 DEF JoinWorkers
<1>16. CASE WriterPop
  BY <1>16 DEF WriterPop
<1>17. CASE WriterWrite
  BY <1>17 DEF WriterWrite, Ready
<1>18. CASE WriterEnd
  BY <1>18 DEF WriterEnd
<1>19. CASE WriterFinish
  BY <1>19 DEF WriterFinish
<1>20. CASE WriterClose
  BY <1>20 DEF WriterClose
<1>21. CASE RunReturn
  BY <1>21 DEF RunReturn
<1>22. ASSUME NEW t \in Threads, RecordException(t) PROVE CloseInv'
  BY <1>22 DEF RecordException
<1>23. ASSUME NEW t \in Threads, StoreFailed(t) PROVE CloseInv'
  BY <1>23 DEF StoreFailed
<1>24. CASE UNCHANGED vars
  BY <1>24 DEF vars, producer_vars, queue_vars, worker_vars, writer_vars, failure_vars
<1>25. CASE ProducerPlanFails
  BY <1>25 DEF ProducerPlanFails
<1> QED
  BY <1>1, <1>2, <1>3, <1>4, <1>5, <1>6, <1>7, <1>8, <1>9, <1>10, <1>11,
     <1>12, <1>13, <1>14, <1>15, <1>16, <1>17, <1>18, <1>19, <1>20, <1>21,
     <1>22, <1>23, <1>24, <1>25, ThreadNames
     DEF Next, Producer, ProducerRuns, Worker, Writer, Terminated

----------------------------------------------------------------------------
(* As long as nothing has failed, no chunk is lost. *)

InFlight(i) == \/ i < NextExpected
               \/ \E c \in pending : c.index = i
               \/ \E k \in 1..Len(write_queue) : write_queue[k].index = i
               \/ \E w \in Workers : job[w].index = i

Queued(i) == \E k \in 1..Len(encrypt_queue) : encrypt_queue[k].index = i

\* Every index handed out is queued or sealed, and a sealed one is with a
\* worker, on its way to the writer, waiting for its turn, or written.
CompleteInv ==
    ~failed => /\ \A i \in 0..(next_chunk - 1) : i \in sealed \/ Queued(i)
               /\ \A i \in sealed : InFlight(i)

ThreadsInv == TypeOK /\ RecordInv /\ CloseInv

\* The failure flag is never cleared.
LEMMA FailedStays == [Next]_vars /\ failed => failed'
<1> USE DEF failure_vars
<1>1. ASSUME NEW w \in Workers, Worker(w), failed PROVE failed'
  BY <1>1 DEF Worker, WorkerCheck, WorkerSeal, WorkerDrained, WorkerPush, WorkerCloseEncrypt,
     WorkerCloseWrite, RecordException, StoreFailed
<1>2. ASSUME Producer, failed PROVE failed'
  BY <1>2 DEF Producer, ProducerRuns, ProducerRead, ProducerCopy, ProducerFlush, ProducerTail,
     ProducerTailFull, ProducerTailFinal, ProducerPlanFails, ProducerVerify, ProducerClose,
     RecordException, StoreFailed
<1>3. ASSUME JoinWorkers \/ Writer, failed PROVE failed'
  BY <1>3 DEF JoinWorkers, Writer, WriterPop, WriterWrite, WriterEnd, WriterFinish,
     WriterClose, RunReturn, RecordException, StoreFailed
<1> QED
  BY <1>1, <1>2, <1>3 DEF Next, Terminated, vars

\* A chunk handed out is queued: the queue is open as nothing has failed.
LEMMA EnqueueComplete ==
    ASSUME ThreadsInv, CompleteInv, ~failed, Enqueue
    PROVE  CompleteInv'
<1>1. PICK len \in Nat, final \in BOOLEAN : PushPlain(len, final)
  BY DEF Enqueue
<1>2. UNCHANGED <<write_queue, job, sealed, pending, written>>
  BY DEF Enqueue
<1>3. ~encrypt_closed
  BY DEF ThreadsInv, CloseInv, Enqueue
<1> DEFINE c == [index |-> next_chunk, len |-> len, final |-> final]
<1>4. /\ c.index = next_chunk /\ c \in Chunk
      /\ next_chunk \in Nat /\ encrypt_queue \in Seq(Chunk)
  BY DEF ThreadsInv, TypeOK, DataOK, Chunk
<1>5. next_chunk' = next_chunk + 1 /\ encrypt_queue' = Append(encrypt_queue, c)
  BY <1>1, <1>3 DEF PushPlain
<1> HIDE DEF c
<1>6. /\ Len(encrypt_queue') = Len(encrypt_queue) + 1 /\ Len(encrypt_queue) \in Nat
      /\ \A k \in 1..Len(encrypt_queue) : encrypt_queue'[k] = encrypt_queue[k]
      /\ encrypt_queue'[Len(encrypt_queue) + 1] = c
  BY <1>4, <1>5
<1>7. \A i : Queued(i) => Queued(i)'
  BY <1>6 DEF Queued
<1>8. \A i : i = next_chunk => Queued(i)'
  BY <1>4, <1>6 DEF Queued
<1>9. \A i \in 0..(next_chunk' - 1) : i \in 0..(next_chunk - 1) \/ i = next_chunk
  BY <1>4, <1>5
<1>10. \A i \in sealed : InFlight(i)'
  BY <1>2 DEF CompleteInv, InFlight, NextExpected
<1> QED
  BY <1>2, <1>7, <1>8, <1>9, <1>10 DEF CompleteInv

\* The chunk taken from the queue is with the worker.
LEMMA SealComplete ==
    ASSUME ThreadsInv, CompleteInv, ~failed, NEW w \in Workers, WorkerSeal(w)
    PROVE  CompleteInv'
<1> DEFINE c == Head(encrypt_queue)
<1>1. /\ encrypt_queue \in Seq(Chunk) /\ encrypt_queue # << >>
      /\ job \in [Workers -> Chunk \cup {NoChunk}] /\ job[w] = NoChunk
      /\ next_chunk \in Nat /\ sealed \subseteq Nat
  BY DEF ThreadsInv, TypeOK, DataOK, CloseInv, WorkerSeal
<1>2. /\ encrypt_queue' = Tail(encrypt_queue) /\ job' = [job EXCEPT ![w] = c]
      /\ sealed' = sealed \cup {c.index}
      /\ UNCHANGED <<next_chunk, write_queue, pending, written>>
  BY DEF WorkerSeal, producer_vars, writer_vars
<1>3. c = encrypt_queue[1]
  BY <1>1
<1>4. \A k \in 1..Len(encrypt_queue) : k # 1 =>
         k - 1 \in 1..Len(Tail(encrypt_queue)) /\ Tail(encrypt_queue)[k - 1] = encrypt_queue[k]
  BY <1>1
<1> HIDE DEF c
<1>5. \A i : Queued(i) => i = c.index \/ Queued(i)'
  BY <1>2, <1>3, <1>4 DEF Queued
<1>6. job'[w] = c /\ \A v \in Workers : v # w => job'[v] = job[v]
  BY <1>1, <1>2
<1>7. \A i \in sealed : i \in Nat /\ NoChunk.index # i
  BY <1>1 DEF NoChunk
<1>8. \A i \in sealed : InFlight(i) => InFlight(i)'
  BY <1>1, <1>2, <1>6, <1>7 DEF InFlight, NextExpected
<1>9. \A i : i = c.index => InFlight(i)'
  BY <1>6 DEF InFlight
<1> QED
  BY <1>2, <1>5, <1>8, <1>9 DEF CompleteInv

\* The worker's chunk goes to the write queue, which is open.
LEMMA PushComplete ==
    ASSUME ThreadsInv, CompleteInv, ~failed, NEW w \in Workers, WorkerPush(w)
    PROVE  CompleteInv'
<1>1. ~write_closed
  BY DEF ThreadsInv, CloseInv, WorkerPush
<1>2. /\ job' = [job EXCEPT ![w] = NoChunk]
      /\ write_queue' = Append(write_queue, job[w])
      /\ UNCHANGED <<next_chunk, encrypt_queue, sealed, pending, written>>
  BY <1>1 DEF WorkerPush, producer_vars, writer_vars
<1>3. /\ job \in [Workers -> Chunk \cup {NoChunk}] /\ write_queue \in Seq(Chunk)
      /\ job[w] \in Chunk
  BY DEF ThreadsInv, TypeOK, DataOK, JobsOK, WorkerPush
<1>4. /\ Len(write_queue') = Len(write_queue) + 1 /\ Len(write_queue) \in Nat
      /\ \A k \in 1..Len(write_queue) : write_queue'[k] = write_queue[k]
      /\ write_queue'[Len(write_queue) + 1] = job[w]
  BY <1>2, <1>3
<1>5. \A v \in Workers : v # w => job'[v] = job[v]
  BY <1>2, <1>3
<1>6. \A i \in sealed : InFlight(i) => InFlight(i)'
  BY <1>2, <1>4, <1>5 DEF InFlight, NextExpected
<1> QED
  BY <1>2, <1>6 DEF CompleteInv, Queued

\* The writer keeps what it takes: no index is stale or a duplicate.
LEMMA PopComplete ==
    ASSUME ThreadsInv, PlaceInv, CompleteInv, ~failed, WriterPop
    PROVE  CompleteInv'
<1> DEFINE c == Head(write_queue)
<1>1. write_queue \in Seq(Chunk) /\ write_queue # << >>
  BY DEF ThreadsInv, TypeOK, DataOK, WriterPop
<1>2. c = write_queue[1] /\ 1 \in 1..Len(write_queue) /\ c.index \in Nat
  BY <1>1, ChunkIndexes DEF ThreadsInv
<1>3. ~(c.index < NextExpected \/ c.index \in Indexes(pending))
  BY <1>2, ChunkIndexes DEF PlaceInv, WriteQueueInv, Unwritten, NextExpected, Indexes, ThreadsInv
<1>4. /\ write_queue' = Tail(write_queue) /\ pending' = pending \cup {c}
      /\ UNCHANGED <<next_chunk, encrypt_queue, job, sealed, written>>
  BY <1>3 DEF WriterPop, producer_vars, worker_vars
<1>5. \A k \in 1..Len(write_queue) : k # 1 =>
         k - 1 \in 1..Len(Tail(write_queue)) /\ Tail(write_queue)[k - 1] = write_queue[k]
  BY <1>1
<1> HIDE DEF c
<1>6. \A i \in sealed : InFlight(i) => InFlight(i)'
  BY <1>2, <1>4, <1>5 DEF InFlight, NextExpected
<1> QED
  BY <1>4, <1>6 DEF CompleteInv, Queued

\* A frame leaves the reorder map only to be written.
LEMMA WriteComplete ==
    ASSUME ThreadsInv, CompleteInv, ~failed, WriterWrite
    PROVE  CompleteInv'
<1>1. UNCHANGED <<next_chunk, encrypt_queue, write_queue, job, sealed>>
  BY DEF WriterWrite, producer_vars, queue_vars, worker_vars
<1>2. CASE UNCHANGED <<pending, written>>
  BY <1>1, <1>2 DEF CompleteInv, Queued, InFlight, NextExpected
<1>3. ASSUME NEW c \in pending, c.index = NextExpected,
             written' = Append(written, c), pending' = pending \ {c}
      PROVE  CompleteInv'
  <2>1. written \in Seq(Chunk) /\ c \in Chunk /\ sealed \subseteq Nat
    BY DEF ThreadsInv, TypeOK, DataOK
  <2>2. Len(written') = Len(written) + 1 /\ Len(written) \in Nat
    BY <1>3, <2>1
  <2>3. \A i \in sealed : InFlight(i) => InFlight(i)'
    BY <1>1, <1>3, <2>1, <2>2 DEF InFlight, NextExpected
  <2> QED
    BY <1>1, <2>3 DEF CompleteInv, Queued
<1> QED
  BY <1>2, <1>3 DEF WriterWrite, Ready

\* No step loses a chunk unless something has failed.
LEMMA CompleteStep ==
    ThreadsInv /\ PlaceInv /\ CompleteInv /\ [Next]_vars => CompleteInv'
<1> SUFFICES ASSUME ThreadsInv, PlaceInv, CompleteInv, [Next]_vars, ~failed'
             PROVE  CompleteInv'
  BY DEF CompleteInv
<1>1. ~failed
  BY FailedStays
<1>2. CASE UNCHANGED chunk_vars
  BY <1>1, <1>2 DEF chunk_vars, CompleteInv, Queued, InFlight, NextExpected
<1> QED
  BY <1>1, <1>2, ChunkMoves, EnqueueComplete, SealComplete, PushComplete, PopComplete,
     WriteComplete DEF ThreadsInv

----------------------------------------------------------------------------
(* What the writer knows when it ends. *)

\* The writer waits for more only when the next frame is missing; it reaches
\* finish() only when every thread has ended well and everything is written.
TurnInv == pc["writer"] = "pop" => \A c \in pending : c.index # NextExpected
Settled == /\ ~failed /\ ~first_exception
           /\ pc["producer"] = "done" /\ pc["joiner"] = "done"
           /\ NextExpected = next_chunk
FinishInv == pc["writer"] = "finish" \/ finished => Settled
OutcomeInv ==
    /\ finished => pc["writer"] \in {"join_all", "returned"}
    /\ pc["writer"] = "join_all" => finished \/ first_exception
    /\ pc["writer"] = "returned" => finished
    /\ pc["writer"] = "threw" => ~finished
    /\ pc["writer"] \in {"returned", "threw"} => pc["producer"] \in {"done", "stopped"}

ChunksInv == ThreadsInv /\ PlaceInv /\ CompleteInv

\* The writer's queue is closed and drained and nothing has failed.
Drained == write_queue = << >> /\ write_closed /\ ~failed

\* Then the workers and the producer have ended, and every chunk handed out
\* is written or waits in the reorder map.
LEMMA DrainedChunks ==
    ASSUME ChunksInv, Drained
    PROVE  /\ pc["producer"] = "done" /\ pc["joiner"] = "done"
           /\ \A w \in Workers : pc[w] = "done"
           /\ \A i \in 0..(next_chunk - 1) : i < NextExpected \/ \E c \in pending : c.index = i
<1>1. pc["joiner"] = "done" /\ \A w \in Workers : pc[w] = "done"
  BY DEF Drained, ChunksInv, ThreadsInv, CloseInv
<1>2. encrypt_closed /\ encrypt_queue = << >> /\ \A w \in Workers : job[w] = NoChunk
  BY <1>1, WorkersAssumption DEF Drained, ChunksInv, ThreadsInv, CloseInv
<1>3. pc["producer"] = "done"
  BY <1>2 DEF Drained, ChunksInv, ThreadsInv, CloseInv
<1>4. next_chunk \in Nat /\ sealed \subseteq Nat
  BY DEF ChunksInv, ThreadsInv, TypeOK, DataOK
<1>5. \A i \in 0..(next_chunk - 1) : i \in sealed
  BY <1>2 DEF Drained, ChunksInv, CompleteInv, Queued
<1>6. \A i \in sealed : i < NextExpected \/ \E c \in pending : c.index = i
  BY <1>2, <1>4 DEF Drained, ChunksInv, CompleteInv, InFlight, NoChunk
<1> QED
  BY <1>1, <1>3, <1>5, <1>6

\* So nothing waits in the reorder map: its first frame would be due.
LEMMA DrainedMap ==
    ASSUME ChunksInv, TurnInv, Drained, pc["writer"] = "pop"
    PROVE  pending = {} /\ NextExpected = next_chunk
<1>1. NextExpected \in Nat /\ next_chunk \in Nat
  BY DEF ChunksInv, ThreadsInv, TypeOK, DataOK, NextExpected
<1>2. NextExpected >= next_chunk
  BY <1>1, DrainedChunks DEF TurnInv
<1>3. \A i \in sealed : i < next_chunk
  BY DEF ChunksInv, PlaceInv, QueuedInv
<1>4. pending = {}
  BY <1>1, <1>2, <1>3, ChunkIndexes DEF ChunksInv, ThreadsInv, PlaceInv, PendingInv, Unwritten
<1>5. NextExpected <= next_chunk
  <2> SUFFICES ASSUME NextExpected > 0 PROVE NextExpected <= next_chunk
    BY <1>1
  <2>1. Len(written) \in 1..Len(written)
    BY <1>1 DEF NextExpected
  <2>2. Len(written) - 1 \in sealed
    BY <2>1 DEF ChunksInv, PlaceInv, WrittenInv
  <2> QED
    BY <1>1, <1>3, <2>2 DEF NextExpected
<1> QED
  BY <1>1, <1>2, <1>4, <1>5

\* The writer looks for its next frame before it waits again.
LEMMA TurnStep == TypeOK /\ TurnInv /\ [Next]_vars => TurnInv'
<1> SUFFICES ASSUME TypeOK, TurnInv, [Next]_vars PROVE TurnInv'
  OBVIOUS
<1> USE ThreadNames DEF TypeOK, ControlOK, TurnInv, Goto, NextExpected, writer_vars
<1>1. CASE ProducerRead
  BY <1>1 DEF ProducerRead
<1>2. CASE ProducerCopy
  BY <1>2 DEF ProducerCopy, Fills
<1>3. CASE ProducerFlush
  BY <1>3 DEF ProducerFlush, PushPlain, Fills
<1>4. CASE ProducerTail
  BY <1>4 DEF ProducerTail
<1>5. CASE ProducerTailFull
  BY <1>5 DEF ProducerTailFull, PushPlain
<1>6. CASE ProducerTailFinal
  BY <1>6 DEF ProducerTailFinal, PushPlain
<1>7. CASE ProducerVerify
  BY <1>7 DEF ProducerVerify
<1>8. CASE ProducerClose
  BY <1>8 DEF ProducerClose
<1>9. ASSUME NEW w \in Workers, WorkerCheck(w) PROVE TurnInv'
  BY <1>9 DEF WorkerCheck
<1>10. ASSUME NEW w \in Workers, WorkerSeal(w) PROVE TurnInv'
  BY <1>10 DEF WorkerSeal
<1>11. ASSUME NEW w \in Workers, WorkerDrained(w) PROVE TurnInv'
  BY <1>11 DEF WorkerDrained
<1>12. ASSUME NEW w \in Workers, WorkerPush(w) PROVE TurnInv'
  BY <1>12 DEF WorkerPush
<1>13. ASSUME NEW w \in Workers, WorkerCloseEncrypt(w) PROVE TurnInv'
  BY <1>13 DEF WorkerCloseEncrypt
<1>14. ASSUME NEW w \in Workers, WorkerCloseWrite(w) PROVE TurnInv'
  BY <1>14 DEF WorkerCloseWrite
<1>15. CASE JoinWorkers
  BY <1>15 DEF JoinWorkers
<1>16. CASE WriterPop
  BY <1>16 DEF WriterPop
<1>17. CASE WriterWrite
  BY <1>17 DEF WriterWrite, Ready
<1>18. CASE WriterEnd
  BY <1>18 DEF WriterEnd
<1>19. CASE WriterFinish
  BY <1>19 DEF WriterFinish
<1>20. CASE WriterClose
  BY <1>20 DEF WriterClose
<1>21. CASE RunReturn
  BY <1>21 DEF RunReturn
<1>22. ASSUME NEW t \in Threads, RecordException(t) PROVE TurnInv'
  BY <1>22 DEF RecordException
<1>23. ASSUME NEW t \in Threads, StoreFailed(t) PROVE TurnInv'
  BY <1>23 DEF StoreFailed
<1>24. CASE UNCHANGED vars
  BY <1>24 DEF vars, producer_vars, queue_vars, worker_vars, writer_vars, failure_vars
<1>25. CASE ProducerPlanFails
  BY <1>25 DEF ProducerPlanFails
<1> QED
  BY <1>1, <1>2, <1>3, <1>4, <1>5, <1>6, <1>7, <1>8, <1>9, <1>10, <1>11,
     <1>12, <1>13, <1>14, <1>15, <1>16, <1>17, <1>18, <1>19, <1>20, <1>21,
     <1>22, <1>23, <1>24, <1>25, ThreadNames
     DEF Next, Producer, ProducerRuns, Worker, Writer, Terminated

\* It goes on to finish() only when everything has settled, and then nothing
\* moves any more.
LEMMA FinishStep ==
    ChunksInv /\ TurnInv /\ FinishInv /\ OutcomeInv /\ [Next]_vars => FinishInv'
<1> SUFFICES ASSUME ChunksInv, TurnInv, FinishInv, OutcomeInv, [Next]_vars PROVE FinishInv'
  OBVIOUS
<1>1. TypeOK /\ RecordInv /\ CloseInv
  BY DEF ChunksInv, ThreadsInv
<1>2. CASE WriterEnd
  <2>1. CASE pc'["writer"] # "finish"
    <3>1. ~finished
      BY <1>2 DEF WriterEnd, OutcomeInv
    <3> QED
      BY <1>2, <2>1, <3>1 DEF WriterEnd, writer_vars, FinishInv
  <2>2. CASE pc'["writer"] = "finish"
    <3>1. pc["writer"] = "pop" /\ Drained
      BY <1>1, <1>2, <2>2, ThreadNames DEF WriterEnd, Goto, Drained, TypeOK, ControlOK
    <3>2. \A t \in Threads : pc[t] # "flag"
      BY <3>1, DrainedChunks DEF Threads
    <3>3. ~first_exception
      BY <1>1, <3>1, <3>2 DEF RecordInv, Drained
    <3>4. Settled
      BY <3>1, <3>3, DrainedChunks, DrainedMap DEF Settled, Drained
    <3> QED
      BY <1>1, <1>2, <3>4, ThreadNames DEF WriterEnd, Goto, FinishInv, Settled, NextExpected,
         TypeOK, ControlOK, failure_vars, writer_vars, producer_vars
  <2> QED
    BY <2>1, <2>2
<1>3. CASE ~(pc["writer"] = "finish" \/ finished) /\ ~WriterEnd
  <2> USE <1>1, <1>3, ThreadNames DEF TypeOK, ControlOK, FinishInv, Goto, writer_vars
  <2>1. CASE ProducerRead
    BY <2>1 DEF ProducerRead
  <2>2. CASE ProducerCopy
    BY <2>2 DEF ProducerCopy, Fills
  <2>3. CASE ProducerFlush
    BY <2>3 DEF ProducerFlush, PushPlain, Fills
  <2>4. CASE ProducerTail
    BY <2>4 DEF ProducerTail
  <2>5. CASE ProducerTailFull
    BY <2>5 DEF ProducerTailFull, PushPlain
  <2>6. CASE ProducerTailFinal
    BY <2>6 DEF ProducerTailFinal, PushPlain
  <2>7. CASE ProducerVerify
    BY <2>7 DEF ProducerVerify
  <2>8. CASE ProducerClose
    BY <2>8 DEF ProducerClose
  <2>9. ASSUME NEW w \in Workers, WorkerCheck(w) PROVE FinishInv'
    BY <2>9 DEF WorkerCheck
  <2>10. ASSUME NEW w \in Workers, WorkerSeal(w) PROVE FinishInv'
    BY <2>10 DEF WorkerSeal
  <2>11. ASSUME NEW w \in Workers, WorkerDrained(w) PROVE FinishInv'
    BY <2>11 DEF WorkerDrained
  <2>12. ASSUME NEW w \in Workers, WorkerPush(w) PROVE FinishInv'
    BY <2>12 DEF WorkerPush
  <2>13. ASSUME NEW w \in Workers, WorkerCloseEncrypt(w) PROVE FinishInv'
    BY <2>13 DEF WorkerCloseEncrypt
  <2>14. ASSUME NEW w \in Workers, WorkerCloseWrite(w) PROVE FinishInv'
    BY <2>14 DEF WorkerCloseWrite
  <2>15. CASE JoinWorkers
    BY <2>15 DEF JoinWorkers
  <2>16. CASE WriterPop
    BY <2>16 DEF WriterPop
  <2>17. CASE WriterWrite
    BY <2>17 DEF WriterWrite, Ready
  <2>18. CASE WriterEnd
    BY <2>18 DEF WriterEnd
  <2>19. CASE WriterFinish
    BY <2>19 DEF WriterFinish
  <2>20. CASE WriterClose
    BY <2>20 DEF WriterClose
  <2>21. CASE RunReturn
    BY <2>21 DEF RunReturn
  <2>22. ASSUME NEW t \in Threads, RecordException(t) PROVE FinishInv'
    BY <2>22 DEF RecordException
  <2>23. ASSUME NEW t \in Threads, StoreFailed(t) PROVE FinishInv'
    BY <2>23 DEF StoreFailed
  <2>24. CASE UNCHANGED vars
    BY <2>24 DEF vars, producer_vars, queue_vars, worker_vars, writer_vars, failure_vars
  <2>25. CASE ProducerPlanFails
    BY <2>25 DEF ProducerPlanFails
  <2> QED
    BY <2>1, <2>2, <2>3, <2>4, <2>5, <2>6, <2>7, <2>8, <2>9, <2>10, <2>11,
       <2>12, <2>13, <2>14, <2>15, <2>16, <2>17, <2>18, <2>19, <2>20, <2>21,
       <2>22, <2>23, <2>24, <2>25, ThreadNames
         DEF Next, Producer, ProducerRuns, Worker, Writer, Terminated
<1>4. CASE pc["writer"] = "finish" \/ finished
  <2>1. /\ Settled /\ pc["writer"] \in {"finish", "join_all", "returned"}
        /\ \A w \in Workers : pc[w] = "done"
    BY <1>1, <1>4 DEF FinishInv, OutcomeInv, CloseInv, Settled
  <2>2. CASE WriterFinish
    BY <1>1, <2>1, <2>2, ThreadNames DEF WriterFinish, Goto, TypeOK, ControlOK, FinishInv, Settled,
       NextExpected, failure_vars, producer_vars
  <2>3. CASE RunReturn
    BY <1>1, <2>1, <2>3, ThreadNames DEF RunReturn, Goto, TypeOK, ControlOK, FinishInv, Settled,
       NextExpected, failure_vars, producer_vars, writer_vars
  <2>4. CASE UNCHANGED vars
    BY <1>1, <2>1, <2>4 DEF FinishInv, Settled, NextExpected, vars, failure_vars,
       producer_vars, writer_vars
  <2> QED
    BY <2>1, <2>2, <2>3, <2>4 DEF Settled, Next, Producer, ProducerRuns, Worker, Writer, Terminated,
       ProducerRead, ProducerCopy, ProducerFlush, ProducerTail, ProducerTailFull,
       ProducerTailFinal, ProducerPlanFails, ProducerVerify, ProducerClose, WorkerCheck, WorkerSeal,
       WorkerDrained, WorkerPush, WorkerCloseEncrypt, WorkerCloseWrite, JoinWorkers,
       WriterPop, WriterWrite, WriterEnd, WriterClose, RecordException, StoreFailed
<1> QED
  BY <1>2, <1>3, <1>4

\* run() throws or returns according to what was finalised.
LEMMA OutcomeStep ==
    TypeOK /\ RecordInv /\ FinishInv /\ OutcomeInv /\ [Next]_vars => OutcomeInv'
<1> SUFFICES ASSUME TypeOK, RecordInv, FinishInv, OutcomeInv, [Next]_vars PROVE OutcomeInv'
  OBVIOUS
<1> USE ThreadNames DEF TypeOK, ControlOK, FlagsOK, RecordInv, FinishInv, Settled, OutcomeInv,
        Goto, writer_vars, failure_vars
<1>1. CASE ProducerRead
  BY <1>1 DEF ProducerRead
<1>2. CASE ProducerCopy
  BY <1>2 DEF ProducerCopy, Fills
<1>3. CASE ProducerFlush
  BY <1>3 DEF ProducerFlush, PushPlain, Fills
<1>4. CASE ProducerTail
  BY <1>4 DEF ProducerTail
<1>5. CASE ProducerTailFull
  BY <1>5 DEF ProducerTailFull, PushPlain
<1>6. CASE ProducerTailFinal
  BY <1>6 DEF ProducerTailFinal, PushPlain
<1>7. CASE ProducerVerify
  BY <1>7 DEF ProducerVerify
<1>8. CASE ProducerClose
  BY <1>8 DEF ProducerClose
<1>9. ASSUME NEW w \in Workers, WorkerCheck(w) PROVE OutcomeInv'
  BY <1>9 DEF WorkerCheck
<1>10. ASSUME NEW w \in Workers, WorkerSeal(w) PROVE OutcomeInv'
  BY <1>10 DEF WorkerSeal
<1>11. ASSUME NEW w \in Workers, WorkerDrained(w) PROVE OutcomeInv'
  BY <1>11 DEF WorkerDrained
<1>12. ASSUME NEW w \in Workers, WorkerPush(w) PROVE OutcomeInv'
  BY <1>12 DEF WorkerPush
<1>13. ASSUME NEW w \in Workers, WorkerCloseEncrypt(w) PROVE OutcomeInv'
  BY <1>13 DEF WorkerCloseEncrypt
<1>14. ASSUME NEW w \in Workers, WorkerCloseWrite(w) PROVE OutcomeInv'
  BY <1>14 DEF WorkerCloseWrite
<1>15. CASE JoinWorkers
  BY <1>15 DEF JoinWorkers
<1>16. CASE WriterPop
  BY <1>16 DEF WriterPop
<1>17. CASE WriterWrite
  BY <1>17 DEF WriterWrite, Ready
<1>18. CASE WriterEnd
  BY <1>18 DEF WriterEnd
<1>19. CASE WriterFinish
  BY <1>19 DEF WriterFinish
<1>20. CASE WriterClose
  BY <1>20 DEF WriterClose
<1>21. CASE RunReturn
  BY <1>21 DEF RunReturn
<1>22. ASSUME NEW t \in Threads, RecordException(t) PROVE OutcomeInv'
  BY <1>22 DEF RecordException
<1>23. ASSUME NEW t \in Threads, StoreFailed(t) PROVE OutcomeInv'
  BY <1>23 DEF StoreFailed
<1>24. CASE UNCHANGED vars
  BY <1>24 DEF vars, producer_vars, queue_vars, worker_vars, writer_vars, failure_vars
<1>25. CASE ProducerPlanFails
  BY <1>25 DEF ProducerPlanFails
<1> QED
  BY <1>1, <1>2, <1>3, <1>4, <1>5, <1>6, <1>7, <1>8, <1>9, <1>10, <1>11,
     <1>12, <1>13, <1>14, <1>15, <1>16, <1>17, <1>18, <1>19, <1>20, <1>21,
     <1>22, <1>23, <1>24, <1>25, ThreadNames
     DEF Next, Producer, ProducerRuns, Worker, Writer, Terminated

----------------------------------------------------------------------------
(* What the chunks contain. *)

Chunks == {encrypt_queue[k] : k \in 1..Len(encrypt_queue)}
              \cup {job[w] : w \in {v \in Workers : job[v] # NoChunk}}
              \cup {write_queue[k] : k \in 1..Len(write_queue)}
              \cup pending \cup {written[i] : i \in 1..Len(written)}

\* The producer is past its last push, or has failed.
TailDone == pc["producer"] \in {"verify", "close", "done", "record", "flag", "quit", "stopped"}
AllPushed == pc["producer"] \in {"verify", "close", "done"}

\* Every chunk but the last is full, and only the last one is final.
Shape(c) ==
    /\ c.index < next_chunk
    /\ c.final => c.index = next_chunk - 1 /\ TailDone
    /\ ~c.final => c.len = ChunkSize

\* The last chunk holds the rest of the bytes produced.
LastChunk(c) ==
    AllPushed /\ c.index = next_chunk - 1
        => /\ c.final
           /\ (next_chunk - 1) * ChunkSize + c.len = produced
           /\ c.len <= ChunkSize /\ (produced > 0 => c.len > 0)

ShapeInv == \A c \in Chunks : Shape(c) /\ LastChunk(c)

\* Bytes are neither lost nor added between the archive and the chunks.
Held == IF pending_full THEN ChunkSize ELSE 0
BytesInv ==
    /\ current < ChunkSize
    /\ pc["producer"] \in {"read", "tail", "tail_full", "tail_final"} => record = 0
    /\ pc["producer"] \in {"read", "append", "tail", "tail_full", "tail_final"}
           => next_chunk * ChunkSize + Held + current + record = produced
    /\ pc["producer"] \in {"read", "append", "tail", "tail_full"} /\ next_chunk > 0 => pending_full
    /\ pc["producer"] = "tail_full" => pending_full /\ current > 0
    /\ pc["producer"] = "tail_final" => /\ ~(pending_full /\ current > 0)
                                        /\ next_chunk > 0 => pending_full \/ current > 0
    /\ AllPushed => next_chunk > 0
    /\ pc["producer"] \in {"close", "done"} /\ ExpectedBytes > 0 => produced = ExpectedBytes

\* Workers and writer neither create nor change chunks.
LEMMA ChunksKept ==
    ASSUME TypeOK, \/ \E w \in Workers : WorkerSeal(w) \/ WorkerPush(w)
                   \/ WriterPop \/ WriterWrite \/ UNCHANGED chunk_vars
    PROVE  Chunks' \subseteq Chunks
<1>1. /\ encrypt_queue \in Seq(Chunk) /\ write_queue \in Seq(Chunk) /\ written \in Seq(Chunk)
      /\ job \in [Workers -> Chunk \cup {NoChunk}] /\ pending \subseteq Chunk
      /\ \A w \in Workers : pc[w] = "push" => job[w] \in Chunk /\ job[w] # NoChunk
  BY DEF TypeOK, DataOK, JobsOK
<1> USE DEF producer_vars, worker_vars, writer_vars
<1>2. ASSUME NEW w \in Workers, WorkerSeal(w) PROVE Chunks' \subseteq Chunks
  <2>1. /\ encrypt_queue' = Tail(encrypt_queue) /\ job' = [job EXCEPT ![w] = Head(encrypt_queue)]
        /\ UNCHANGED <<write_queue, pending, written>> /\ encrypt_queue # << >>
    BY <1>2 DEF WorkerSeal
  <2>2. \A k \in 1..Len(Tail(encrypt_queue)) :
           k + 1 \in 1..Len(encrypt_queue) /\ Tail(encrypt_queue)[k] = encrypt_queue[k + 1]
    BY <1>1, <2>1
  <2>3. Head(encrypt_queue) = encrypt_queue[1] /\ 1 \in 1..Len(encrypt_queue)
    BY <1>1, <2>1
  <2>4. \A v \in Workers : job'[v] = job[v] \/ job'[v] = Head(encrypt_queue)
    BY <1>1, <2>1
  <2> QED
    BY <2>1, <2>2, <2>3, <2>4 DEF Chunks
<1>3. ASSUME NEW w \in Workers, WorkerPush(w) PROVE Chunks' \subseteq Chunks
  <2>1. /\ write_queue' = write_queue \/ write_queue' = Append(write_queue, job[w])
        /\ job' = [job EXCEPT ![w] = NoChunk] /\ job[w] # NoChunk /\ job[w] \in Chunk
        /\ UNCHANGED <<encrypt_queue, pending, written>>
    BY <1>1, <1>3 DEF WorkerPush
  <2>2. \A k \in 1..Len(write_queue') :
           \/ k \in 1..Len(write_queue) /\ write_queue'[k] = write_queue[k]
           \/ write_queue'[k] = job[w]
    BY <1>1, <2>1
  <2>3. \A v \in Workers : job'[v] = job[v] \/ job'[v] = NoChunk
    BY <1>1, <2>1
  <2> QED
    BY <2>1, <2>2, <2>3 DEF Chunks
<1>4. CASE WriterPop
  <2>1. /\ write_queue' = Tail(write_queue) /\ write_queue # << >>
        /\ pending' = pending \/ pending' = pending \cup {Head(write_queue)}
        /\ UNCHANGED <<encrypt_queue, job, written>>
    BY <1>4 DEF WriterPop
  <2>2. \A k \in 1..Len(Tail(write_queue)) :
           k + 1 \in 1..Len(write_queue) /\ Tail(write_queue)[k] = write_queue[k + 1]
    BY <1>1, <2>1
  <2>3. Head(write_queue) = write_queue[1] /\ 1 \in 1..Len(write_queue)
    BY <1>1, <2>1
  <2> QED
    BY <2>1, <2>2, <2>3 DEF Chunks
<1>5. CASE WriterWrite
  <2>1. /\ UNCHANGED <<encrypt_queue, job, write_queue>>
        /\ \/ UNCHANGED <<pending, written>>
           \/ \E c \in pending : pending' = pending \ {c} /\ written' = Append(written, c)
    BY <1>5 DEF WriterWrite, queue_vars
  <2>2. \A k \in 1..Len(written') :
           (k \in 1..Len(written) /\ written'[k] = written[k]) \/ written'[k] \in pending
    BY <1>1, <2>1
  <2>3. pending' \subseteq pending
    BY <2>1
  <2> QED
    BY <2>1, <2>2, <2>3 DEF Chunks
<1>6. CASE UNCHANGED chunk_vars
  BY <1>6 DEF chunk_vars, Chunks
<1> QED
  BY <1>2, <1>3, <1>4, <1>5, <1>6

\* The producer adds at most the chunk it pushes.
LEMMA ChunksAdded ==
    ASSUME TypeOK, NEW len \in Nat, NEW final \in BOOLEAN, PushPlain(len, final),
           UNCHANGED <<write_queue, job, pending, written>>
    PROVE  Chunks' \subseteq Chunks \cup {[index |-> next_chunk, len |-> len, final |-> final]}
<1> DEFINE c == [index |-> next_chunk, len |-> len, final |-> final]
<1>1. encrypt_queue \in Seq(Chunk) /\ c \in Chunk
  BY DEF TypeOK, DataOK, Chunk
<1>2. encrypt_queue' = encrypt_queue \/ encrypt_queue' = Append(encrypt_queue, c)
  BY DEF PushPlain
<1> HIDE DEF c
<1>3. \A k \in 1..Len(encrypt_queue') :
         \/ k \in 1..Len(encrypt_queue) /\ encrypt_queue'[k] = encrypt_queue[k]
         \/ encrypt_queue'[k] = c
  BY <1>1, <1>2
<1>4. Chunks' \subseteq Chunks \cup {c}
  BY <1>3 DEF Chunks
<1> QED
  BY <1>4 DEF c

\* The other threads leave the producer's state alone.
LEMMA OthersLeaveProducer ==
    ASSUME TypeOK, [Next]_vars
    PROVE  Producer \/ (UNCHANGED producer_vars /\ pc'["producer"] = pc["producer"])
<1> USE ThreadNames DEF TypeOK, ControlOK, Goto
<1>1. ASSUME NEW w \in Workers, Worker(w)
      PROVE  UNCHANGED producer_vars /\ pc'["producer"] = pc["producer"]
  BY <1>1 DEF Worker, WorkerCheck, WorkerSeal, WorkerDrained, WorkerPush, WorkerCloseEncrypt,
     WorkerCloseWrite, RecordException, StoreFailed
<1>2. CASE JoinWorkers \/ Writer
  BY <1>2 DEF JoinWorkers, Writer, WriterPop, WriterWrite, WriterEnd, WriterFinish, WriterClose,
     RunReturn, RecordException, StoreFailed
<1>3. CASE UNCHANGED vars
  BY <1>3 DEF vars
<1> QED
  BY <1>1, <1>2, <1>3 DEF Next, Terminated

\* The byte count is kept by every step of the producer.
LEMMA BytesStep == TypeOK /\ BytesInv /\ [Next]_vars => BytesInv'
<1> SUFFICES ASSUME TypeOK, BytesInv, [Next]_vars PROVE BytesInv'
  OBVIOUS
<1>1. CASE UNCHANGED producer_vars /\ pc'["producer"] = pc["producer"]
  BY <1>1 DEF BytesInv, Held, AllPushed, producer_vars
<1>2. /\ ChunkSize \in Nat /\ ChunkSize > 0 /\ ExpectedBytes \in Nat /\ RecordSizes \subseteq Nat
      /\ record \in Nat /\ current \in Nat /\ produced \in Nat /\ next_chunk \in Nat
      /\ pc \in [Threads -> Labels] /\ "producer" \in Threads
  BY SizesAssumption, ThreadNames DEF TypeOK, ControlOK, DataOK
<1>3. (next_chunk + 1) * ChunkSize = next_chunk * ChunkSize + ChunkSize
  BY <1>2
<1>4. next_chunk * ChunkSize \in Nat
  BY <1>2
<1> USE <1>2 DEF BytesInv, Held, AllPushed, Goto
<1>5. CASE ProducerRead
  BY <1>4, <1>5 DEF ProducerRead
<1>6. CASE ProducerCopy
  BY <1>4, <1>6 DEF ProducerCopy, Fills
<1>7. CASE ProducerFlush
  BY <1>3, <1>4, <1>7 DEF ProducerFlush, PushPlain, Fills
<1>8. CASE ProducerTail
  BY <1>8 DEF ProducerTail, producer_vars
<1>9. CASE ProducerTailFull
  BY <1>3, <1>4, <1>9 DEF ProducerTailFull, PushPlain
<1>10. CASE ProducerTailFinal
  BY <1>10 DEF ProducerTailFinal, PushPlain
<1>11. CASE ProducerVerify
  BY <1>11 DEF ProducerVerify, producer_vars
<1>12. CASE ProducerClose
  BY <1>12 DEF ProducerClose, producer_vars
<1>13. CASE RecordException("producer") \/ StoreFailed("producer") \/ ProducerPlanFails
  BY <1>13, ThreadNames DEF RecordException, StoreFailed, ProducerPlanFails, producer_vars
<1> QED
  BY <1>1, <1>5, <1>6, <1>7, <1>8, <1>9, <1>10, <1>11, <1>12, <1>13, OthersLeaveProducer
     DEF Producer, ProducerRuns

\* The chunks in the pipeline are chunks.
LEMMA ChunksTyped == TypeOK => Chunks \subseteq Chunk
<1> SUFFICES ASSUME TypeOK PROVE Chunks \subseteq Chunk
  OBVIOUS
<1>1. /\ encrypt_queue \in Seq(Chunk) /\ write_queue \in Seq(Chunk) /\ written \in Seq(Chunk)
      /\ pending \subseteq Chunk /\ job \in [Workers -> Chunk \cup {NoChunk}]
  BY DEF TypeOK, DataOK
<1> QED
  BY <1>1 DEF Chunks

\* A chunk pushed before the last one leaves the others in shape.
LEMMA PushInShape ==
    ASSUME TypeOK, BytesInv, ShapeInv, ~TailDone, ~AllPushed, ~AllPushed',
           PushPlain(ChunkSize, FALSE), UNCHANGED <<write_queue, job, pending, written>>
    PROVE  ShapeInv'
<1> DEFINE d == [index |-> next_chunk, len |-> ChunkSize, final |-> FALSE]
<1>1. Chunks' \subseteq Chunks \cup {d}
  BY ChunksAdded, SizesAssumption
<1>2. next_chunk \in Nat /\ next_chunk' = next_chunk + 1
  BY DEF TypeOK, DataOK, PushPlain
<1>3. d.index < next_chunk' /\ ~d.final /\ d.len = ChunkSize
  BY <1>2
<1> HIDE DEF d
<1>4. \A c \in Chunks : c.index < next_chunk' /\ ~c.final /\ c.len = ChunkSize
  <2>1. \A c \in Chunks : c.index \in Nat
    BY ChunksTyped DEF Chunk
  <2> QED
    BY <1>2, <2>1 DEF ShapeInv, Shape
<1> QED
  BY <1>1, <1>3, <1>4 DEF ShapeInv, Shape, LastChunk

\* The final chunk holds what is left of the archive.
LEMMA FinalInShape == TypeOK /\ BytesInv /\ ShapeInv /\ ProducerTailFinal => ShapeInv'
<1> SUFFICES ASSUME TypeOK, BytesInv, ShapeInv, ProducerTailFinal PROVE ShapeInv'
  OBVIOUS
<1> DEFINE n == IF pending_full THEN ChunkSize ELSE current
           d == [index |-> next_chunk, len |-> n, final |-> TRUE]
<1>1. /\ ChunkSize \in Nat /\ ChunkSize > 0 /\ current \in Nat /\ current < ChunkSize
      /\ record = 0 /\ produced \in Nat /\ next_chunk \in Nat
      /\ next_chunk * ChunkSize + Held + current + record = produced
      /\ ~(pending_full /\ current > 0) /\ (next_chunk > 0 => pending_full \/ current > 0)
  BY SizesAssumption DEF TypeOK, DataOK, BytesInv, ProducerTailFinal
<1>2. next_chunk * ChunkSize \in Nat
  BY <1>1
<1>3. /\ n \in Nat /\ n <= ChunkSize /\ next_chunk * ChunkSize + n = produced
      /\ (produced > 0 => n > 0)
  <2>1. next_chunk = 0 => next_chunk * ChunkSize = 0
    BY <1>1
  <2> QED
    BY <1>1, <1>2, <2>1 DEF Held
<1>4. /\ Chunks' \subseteq Chunks \cup {d} /\ next_chunk' = next_chunk + 1
      /\ UNCHANGED produced /\ pc'["producer"] = "verify" /\ pc["producer"] = "tail_final"
  <2>1. PushPlain(n, TRUE) /\ UNCHANGED <<write_queue, job, pending, written>>
    BY DEF ProducerTailFinal, worker_vars, writer_vars
  <2>2. pc'["producer"] = "verify"
    BY ThreadNames DEF ProducerTailFinal, Goto, TypeOK, ControlOK
  <2>3. Chunks' \subseteq Chunks \cup {d}
    BY <1>3, <2>1, ChunksAdded
  <2> QED
    BY <2>1, <2>2, <2>3 DEF ProducerTailFinal, PushPlain
<1>5. \A c \in Chunks : /\ c.index \in Nat /\ c.index < next_chunk
                        /\ ~c.final /\ c.len = ChunkSize
  <2>1. \A c \in Chunks : c.index \in Nat
    BY ChunksTyped DEF Chunk
  <2> QED
    BY <1>4, <2>1 DEF ShapeInv, Shape, TailDone
<1>6. d.index = next_chunk /\ d.len = n /\ d.final
  OBVIOUS
<1>7. next_chunk' - 1 = next_chunk
  BY <1>1, <1>4
<1> HIDE DEF n, d
<1>8. \A c \in Chunks : Shape(c)' /\ LastChunk(c)'
  BY <1>1, <1>4, <1>5 DEF Shape, LastChunk
<1>9. \A c : c = d => Shape(c)' /\ LastChunk(c)'
  BY <1>1, <1>3, <1>4, <1>6, <1>7 DEF Shape, LastChunk, TailDone
<1> QED
  BY <1>4, <1>8, <1>9 DEF ShapeInv

\* Every chunk keeps the shape it was given.
LEMMA ShapeStep == TypeOK /\ BytesInv /\ ShapeInv /\ [Next]_vars => ShapeInv'
<1> SUFFICES ASSUME TypeOK, BytesInv, ShapeInv, [Next]_vars PROVE ShapeInv'
  OBVIOUS
<1> USE ThreadNames DEF producer_vars, queue_vars, worker_vars, writer_vars
<1>1. ASSUME UNCHANGED <<next_chunk, produced>>, Chunks' \subseteq Chunks,
             TailDone => TailDone', AllPushed' => AllPushed
      PROVE  ShapeInv'
  BY <1>1 DEF ShapeInv, Shape, LastChunk
<1>2. CASE UNCHANGED producer_vars /\ pc'["producer"] = pc["producer"] /\ ~Producer
  <2>1. ~Enqueue
    <3>1. next_chunk' = next_chunk /\ next_chunk \in Nat
      BY <1>2 DEF TypeOK, DataOK
    <3>2. Enqueue => next_chunk' = next_chunk + 1
      BY DEF Enqueue, PushPlain
    <3> QED
      BY <3>1, <3>2
  <2>2. Chunks' \subseteq Chunks
    BY <2>1, ChunkMoves, ChunksKept
  <2> QED
    BY <1>1, <1>2, <2>2 DEF TailDone, AllPushed
<1>3. CASE ProducerFlush \/ ProducerTailFull
  <2>1. /\ PushPlain(ChunkSize, FALSE) /\ UNCHANGED <<write_queue, job, pending, written>>
        /\ ~TailDone /\ ~AllPushed /\ ~AllPushed'
    BY <1>3 DEF ProducerFlush, ProducerTailFull, TailDone, AllPushed, Goto, TypeOK, ControlOK
  <2> QED
    BY <2>1, PushInShape
<1>4. CASE \/ ProducerCopy \/ ProducerTail \/ ProducerVerify \/ ProducerClose
           \/ RecordException("producer") \/ StoreFailed("producer") \/ ProducerPlanFails
  <2>1. UNCHANGED chunk_vars /\ UNCHANGED produced
    BY <1>4 DEF ProducerCopy, ProducerTail, ProducerVerify, ProducerClose, RecordException,
       StoreFailed, ProducerPlanFails, chunk_vars
  <2>2. (TailDone => TailDone') /\ (AllPushed' => AllPushed)
    BY <1>4 DEF ProducerCopy, ProducerTail, ProducerVerify, ProducerClose, RecordException,
       StoreFailed, ProducerPlanFails, TailDone, AllPushed, Goto, TypeOK, ControlOK
  <2> QED
    BY <1>1, <2>1, <2>2, ChunksKept DEF chunk_vars
<1>5. CASE ProducerRead
  <2>1. UNCHANGED chunk_vars /\ ~TailDone /\ ~AllPushed'
    BY <1>5 DEF ProducerRead, chunk_vars, TailDone, AllPushed, Goto, TypeOK, ControlOK
  <2> QED
    BY <2>1, ChunksKept DEF ShapeInv, Shape, LastChunk, chunk_vars
<1> QED
  BY <1>2, <1>3, <1>4, <1>5, FinalInShape, OthersLeaveProducer DEF Producer, ProducerRuns

----------------------------------------------------------------------------
(* The invariant of the pipeline, and what follows from it. *)

WriterInv == TurnInv /\ FinishInv /\ OutcomeInv
PipelineInv == ChunksInv /\ WriterInv /\ BytesInv /\ ShapeInv

\* It holds initially.
LEMMA PipelineInit == Init => PipelineInv
<1> SUFFICES ASSUME Init PROVE PipelineInv
  OBVIOUS
<1> USE ThreadNames DEF Init
<1>1. RecordInv
  BY DEF RecordInv
<1>2. CloseInv
  BY DEF CloseInv
<1>3. CompleteInv
  BY DEF CompleteInv
<1>4. WriterInv
  BY DEF WriterInv, TurnInv, FinishInv, OutcomeInv
<1>5. BytesInv
  BY SizesAssumption DEF BytesInv, Held, AllPushed
<1>6. ShapeInv
  BY DEF ShapeInv, Chunks
<1> QED
  BY <1>1, <1>2, <1>3, <1>4, <1>5, <1>6, TypeInit, PlaceInit
     DEF PipelineInv, ChunksInv, ThreadsInv

\* The whole invariant is inductive.
THEOREM PipelineInvariant == Spec => []PipelineInv
<1>1. PipelineInv /\ [Next]_vars => PipelineInv'
  <2> SUFFICES ASSUME PipelineInv, [Next]_vars PROVE PipelineInv'
    OBVIOUS
  <2>1. ThreadsInv'
    BY ControlStep, FlagsStep, DataStep, JobsStep, RecordStep, CloseStep
       DEF PipelineInv, ChunksInv, ThreadsInv, TypeOK
  <2>2. PlaceInv' /\ CompleteInv'
    BY PlaceStep, CompleteStep DEF PipelineInv, ChunksInv, ThreadsInv
  <2>3. WriterInv'
    BY TurnStep, FinishStep, OutcomeStep DEF PipelineInv, ChunksInv, ThreadsInv, WriterInv
  <2>4. BytesInv' /\ ShapeInv'
    BY BytesStep, ShapeStep DEF PipelineInv, ChunksInv, ThreadsInv
  <2> QED
    BY <2>1, <2>2, <2>3, <2>4 DEF PipelineInv, ChunksInv
<1> QED
  BY <1>1, PipelineInit, PTL DEF Spec

\* The frame that is written last has an index below next_chunk_index.
LEMMA WrittenBound == PipelineInv => NextExpected <= next_chunk /\ NextExpected \in Nat
<1> SUFFICES ASSUME PipelineInv PROVE NextExpected <= next_chunk /\ NextExpected \in Nat
  OBVIOUS
<1>1. NextExpected \in Nat /\ next_chunk \in Nat
  BY DEF PipelineInv, ChunksInv, ThreadsInv, TypeOK, DataOK, NextExpected
<1>2. CASE NextExpected > 0
  <2>1. Len(written) \in 1..Len(written) /\ Len(written) - 1 \in sealed
    BY <1>1, <1>2 DEF PipelineInv, ChunksInv, PlaceInv, WrittenInv, NextExpected
  <2> QED
    BY <1>1, <2>1 DEF PipelineInv, ChunksInv, PlaceInv, QueuedInv, NextExpected
<1> QED
  BY <1>1, <1>2

\* Frames are written in order, all full but the last (ordered_writer_main
\* and append_record_bytes_to_chunks together).
THEOREM FramesWrittenInOrder == Spec => []WrittenInOrder
<1>1. PipelineInv => WrittenInOrder
  <2> SUFFICES ASSUME PipelineInv, NEW i \in 1..Len(written)
               PROVE  /\ written[i].index = i - 1
                      /\ i < Len(written) => written[i].len = ChunkSize /\ ~written[i].final
    BY DEF WrittenInOrder
  <2>1. written[i].index = i - 1
    BY DEF PipelineInv, ChunksInv, PlaceInv, WrittenInv
  <2>2. Shape(written[i])
    BY DEF PipelineInv, ShapeInv, Chunks
  <2>3. Len(written) <= next_chunk /\ Len(written) \in Nat /\ next_chunk \in Nat
    BY WrittenBound DEF NextExpected, PipelineInv, ChunksInv, ThreadsInv, TypeOK, DataOK
  <2> QED
    BY <2>1, <2>2, <2>3 DEF Shape
<1> QED
  BY <1>1, PipelineInvariant, PTL

\* The internal errors of ordered_writer_main cannot happen.
THEOREM InternalErrorsImpossible == Spec => []NoInternalError
<1>1. PipelineInv => NoInternalError
  <2> SUFFICES ASSUME PipelineInv PROVE NoInternalError
    OBVIOUS
  <2>1. \A i \in 1..Len(write_queue) :
          /\ write_queue[i].index >= NextExpected
          /\ write_queue[i].index \notin Indexes(pending)
          /\ \A k \in 1..(i - 1) : write_queue[k].index # write_queue[i].index
    <3>1. Len(write_queue) \in Nat
      BY DEF PipelineInv, ChunksInv, ThreadsInv, TypeOK, DataOK
    <3> QED
      BY <3>1 DEF PipelineInv, ChunksInv, PlaceInv, WriteQueueInv, Unwritten, Indexes
  <2>2. pc["writer"] = "pop" /\ write_queue = << >> /\ write_closed /\ ~failed => pending = {}
    BY DrainedMap DEF PipelineInv, WriterInv, Drained
  <2> QED
    BY <2>1, <2>2 DEF NoInternalError
<1> QED
  BY <1>1, PipelineInvariant, PTL

\* run() returns normally exactly when the shards were finalised.
THEOREM OutcomeIsHonest == Spec => []OutcomeHonest
<1>1. PipelineInv => OutcomeHonest
  BY DEF PipelineInv, WriterInv, OutcomeInv, OutcomeHonest, Ended
<1> QED
  BY <1>1, PipelineInvariant, PTL

\* A size cut into full chunks and a non-empty last one determines the chunk
\* count and the last length that core_encrypt computes.
LEMMA ChunkArithmetic ==
    ASSUME NEW n \in Nat, n > 0, NEW l \in Nat, 0 < l, l <= ChunkSize,
           (n - 1) * ChunkSize + l = ExpectedBytes
    PROVE  ExpectedBytes > 0 /\ n = ChunkCount /\ l = FinalChunkLen
<1>1. ChunkSize \in Nat /\ ChunkSize > 0 /\ (n - 1) * ChunkSize \in Nat
  BY SizesAssumption
<1>2. ExpectedBytes \in Nat /\ ExpectedBytes > 0
  BY <1>1
<1>3. ExpectedBytes + ChunkSize - 1 = n * ChunkSize + (l - 1)
  BY <1>1
<1>4. (n * ChunkSize + (l - 1)) \div ChunkSize = n
  BY <1>1
<1>5. CASE l = ChunkSize
  <2>1. ExpectedBytes = n * ChunkSize
    BY <1>1, <1>5
  <2>2. ExpectedBytes % ChunkSize = 0
    BY <1>1, <2>1
  <2> QED
    BY <1>2, <1>3, <1>4, <1>5, <2>2 DEF ChunkCount, FinalChunkLen
<1>6. CASE l < ChunkSize
  <2>1. ExpectedBytes % ChunkSize = l
    BY <1>1, <1>6
  <2> QED
    BY <1>2, <1>3, <1>4, <2>1 DEF ChunkCount, FinalChunkLen
<1> QED
  BY <1>1, <1>5, <1>6

\* finish() runs only when nothing failed and the frames written are those
\* that core_encrypt announced in the public header.
THEOREM FinishImpliesComplete == Spec => []FinishOnlyComplete
<1>1. PipelineInv => FinishOnlyComplete
  <2> SUFFICES ASSUME PipelineInv, finished
               PROVE  /\ ~first_exception /\ ~failed
                      /\ \A w \in Workers : pc[w] = "done"
                      /\ ExpectedBytes > 0 => /\ Len(written) = ChunkCount
                                              /\ written[Len(written)].len = FinalChunkLen
                      /\ written[Len(written)].final
    BY DEF FinishOnlyComplete
  <2>1. Settled
    BY DEF PipelineInv, WriterInv, FinishInv
  <2>2. \A w \in Workers : pc[w] = "done"
    BY <2>1 DEF Settled, PipelineInv, ChunksInv, ThreadsInv, CloseInv
  <2> DEFINE c == written[Len(written)]
  <2>3. AllPushed /\ next_chunk > 0 /\ next_chunk \in Nat /\ Len(written) = next_chunk
    BY <2>1 DEF Settled, AllPushed, NextExpected, PipelineInv, BytesInv, ChunksInv, ThreadsInv,
       TypeOK, DataOK
  <2>4. /\ Len(written) \in 1..Len(written) /\ c.index = next_chunk - 1
        /\ c \in Chunks /\ c \in Chunk
    BY <2>3 DEF PipelineInv, ChunksInv, PlaceInv, WrittenInv, Chunks, ThreadsInv, TypeOK, DataOK
  <2>5. LastChunk(c) /\ c.len \in Nat
    BY <2>4 DEF PipelineInv, ShapeInv, Chunk
  <2> HIDE DEF c
  <2>6. /\ c.final /\ (next_chunk - 1) * ChunkSize + c.len = produced
        /\ c.len <= ChunkSize /\ (produced > 0 => c.len > 0)
    BY <2>3, <2>4, <2>5 DEF LastChunk
  <2>7. ExpectedBytes > 0 => next_chunk = ChunkCount /\ c.len = FinalChunkLen
    <3>1. ExpectedBytes > 0 => produced = ExpectedBytes
      BY <2>1 DEF Settled, PipelineInv, BytesInv
    <3> QED
      BY <2>3, <2>5, <2>6, <3>1, ChunkArithmetic
  <2> QED
    BY <2>1, <2>2, <2>3, <2>6, <2>7 DEF Settled, c
<1> QED
  BY <1>1, PipelineInvariant, PTL

----------------------------------------------------------------------------
\* Every step of the threads is a step of the ordered stream or none.
LEMMA StreamStep == PipelineInv /\ [Next]_vars => [Stream!Next]_Stream!svars
<1> SUFFICES ASSUME PipelineInv, [Next]_vars PROVE Stream!Next \/ UNCHANGED Stream!svars
  OBVIOUS
<1>0. TypeOK /\ PlaceInv /\ FinishInv /\ OutcomeInv
  BY DEF PipelineInv, ChunksInv, ThreadsInv, WriterInv
<1> USE <1>0, ThreadNames
<1> USE DEF TypeOK, ControlOK, FinishInv, OutcomeInv, Goto, Stream!svars, Stream!Next,
        producer_vars, queue_vars, worker_vars, writer_vars, failure_vars
<1>1. CASE ProducerRead
  BY <1>1 DEF ProducerRead
<1>2. CASE ProducerCopy
  BY <1>2 DEF ProducerCopy, Fills
<1>3. CASE ProducerFlush
  <2>1. ~finished /\ pc["writer"] # "threw"
    BY <1>3 DEF ProducerFlush, PushPlain, Fills, Settled
  <2> QED
    BY <1>3, <2>1 DEF ProducerFlush, PushPlain, Fills, Stream!Emit
<1>4. CASE ProducerTail
  BY <1>4 DEF ProducerTail
<1>5. CASE ProducerTailFull
  <2>1. ~finished /\ pc["writer"] # "threw"
    BY <1>5 DEF ProducerTailFull, PushPlain, Settled
  <2> QED
    BY <1>5, <2>1 DEF ProducerTailFull, PushPlain, Stream!Emit
<1>6. CASE ProducerTailFinal
  <2>1. ~finished /\ pc["writer"] # "threw"
    BY <1>6 DEF ProducerTailFinal, PushPlain, Settled
  <2> QED
    BY <1>6, <2>1 DEF ProducerTailFinal, PushPlain, Stream!Emit
<1>7. CASE ProducerVerify
  <2>1. ~finished /\ pc["writer"] # "threw"
    BY <1>7 DEF ProducerVerify, Settled
  <2> QED
    BY <1>7, <2>1 DEF ProducerVerify, Stream!Complete
<1>8. CASE ProducerClose
  BY <1>8 DEF ProducerClose
<1>9. ASSUME NEW w \in Workers, WorkerCheck(w) PROVE Stream!Next \/ UNCHANGED Stream!svars
  BY <1>9 DEF WorkerCheck
<1>10. ASSUME NEW w \in Workers, WorkerSeal(w) PROVE Stream!Next \/ UNCHANGED Stream!svars
  BY <1>10 DEF WorkerSeal
<1>11. ASSUME NEW w \in Workers, WorkerDrained(w) PROVE Stream!Next \/ UNCHANGED Stream!svars
  BY <1>11 DEF WorkerDrained
<1>12. ASSUME NEW w \in Workers, WorkerPush(w) PROVE Stream!Next \/ UNCHANGED Stream!svars
  BY <1>12 DEF WorkerPush
<1>13. ASSUME NEW w \in Workers, WorkerCloseEncrypt(w) PROVE Stream!Next \/ UNCHANGED Stream!svars
  BY <1>13 DEF WorkerCloseEncrypt
<1>14. ASSUME NEW w \in Workers, WorkerCloseWrite(w) PROVE Stream!Next \/ UNCHANGED Stream!svars
  BY <1>14 DEF WorkerCloseWrite
<1>15. CASE JoinWorkers
  BY <1>15 DEF JoinWorkers
<1>16. CASE WriterPop
  BY <1>16 DEF WriterPop
<1>17. CASE WriterWrite
  <2>1. ~finished
    BY <1>17 DEF WriterWrite, Ready
  <2>2. \A c \in pending : c.index = NextExpected => NextExpected < next_chunk
    BY DEF PlaceInv, PendingInv, Unwritten, QueuedInv
  <2>3. written \in Seq(Chunk) /\ pending \subseteq Chunk
    BY DEF DataOK
  <2>4. CASE UNCHANGED written
    BY <1>17, <2>4 DEF WriterWrite, Ready
  <2>5. ASSUME NEW c \in pending, c.index = NextExpected, written' = Append(written, c), pc' = pc
        PROVE  Stream!Deliver
    BY <1>17, <2>1, <2>2, <2>3, <2>5 DEF WriterWrite, Ready, Stream!Deliver, NextExpected
  <2> QED
    BY <1>17, <2>4, <2>5 DEF WriterWrite, Ready
<1>18. CASE WriterEnd
  BY <1>18 DEF WriterEnd
<1>19. CASE WriterFinish
  <2>1. Settled /\ ~finished
    BY <1>19 DEF WriterFinish
  <2> QED
    BY <1>19, <2>1 DEF WriterFinish, Stream!Commit, Settled, NextExpected
<1>20. CASE WriterClose
  BY <1>20 DEF WriterClose
<1>21. CASE RunReturn
  <2>1. CASE finished
    BY <1>21, <2>1 DEF RunReturn
  <2>2. CASE ~finished
    BY <1>21, <2>2 DEF RunReturn, Stream!Abandon
  <2> QED
    BY <2>1, <2>2
<1>22. ASSUME NEW t \in Threads, RecordException(t) PROVE Stream!Next \/ UNCHANGED Stream!svars
  BY <1>22 DEF RecordException
<1>23. ASSUME NEW t \in Threads, StoreFailed(t) PROVE Stream!Next \/ UNCHANGED Stream!svars
  BY <1>23 DEF StoreFailed
<1>24. CASE UNCHANGED vars
  BY <1>24 DEF vars, producer_vars, queue_vars, worker_vars, writer_vars, failure_vars
<1>25. CASE ProducerPlanFails
  BY <1>25 DEF ProducerPlanFails
<1> QED
  BY <1>1, <1>2, <1>3, <1>4, <1>5, <1>6, <1>7, <1>8, <1>9, <1>10, <1>11,
     <1>12, <1>13, <1>14, <1>15, <1>16, <1>17, <1>18, <1>19, <1>20, <1>21,
     <1>22, <1>23, <1>24, <1>25, ThreadNames
     DEF Next, Producer, ProducerRuns, Worker, Writer, Terminated

\* EncryptPipeline::run() is an all-or-nothing ordered stream: the shards are
\* finalised only when every chunk of a complete archive has been written.
THEOREM PipelineImplementsStream == Spec => ImplementsStream
<1>1. Init => Stream!Init
  BY ThreadNames DEF Init, Stream!Init
<1> QED
  BY <1>1, StreamStep, PipelineInvariant, PTL DEF Spec, ImplementsStream, Stream!Spec
=============================================================================
