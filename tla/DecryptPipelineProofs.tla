----------------------- MODULE DecryptPipelineProofs -----------------------
(***************************************************************************)
(* Proofs about DecryptPipeline for any number of workers, any queue depth *)
(* and chunk size, archives of any length, and any set of forged frames.   *)
(***************************************************************************)
EXTENDS DecryptPipeline, TLAPS, SequenceTheorems

\* Every thread stays within its code; the reader asks for another frame only
\* while there is one, and a worker that pushes holds a frame.
ControlOK ==
    /\ pc["reader"] \in {"read", "push", "close", "quit", "stopped", "record", "flag", "done"}
    /\ \A w \in Workers : pc[w] \in {"check", "pop", "push", "record", "flag", "close_decrypt",
                                     "close_plain", "done"}
    /\ pc["joiner"] \in {"join", "done"}
    /\ pc["consumer"] \in {"pop", "consume", "record", "flag", "finish", "close_plain",
                           "join_all", "returned", "threw"}
    /\ pc["reader"] = "push" => next_read < NumChunks
    /\ pc["reader"] \in {"close", "done"} => next_read = NumChunks
    /\ \A w \in Workers : pc[w] = "push" => job[w] # NoJob

TypedInv == TypeOK /\ ControlOK

----------------------------------------------------------------------------
(* Types. *)

\* The thread names are distinct.
LEMMA ThreadNames ==
    /\ "reader" \in Threads /\ "joiner" \in Threads /\ "consumer" \in Threads
    /\ \A w \in Workers : w \in Threads /\ w # "reader" /\ w # "joiner" /\ w # "consumer"
  BY WorkersAssumption DEF Threads

\* The pipeline starts well typed.
LEMMA TypeInit == Init => TypedInv
<1> SUFFICES ASSUME Init PROVE TypedInv
  OBVIOUS
<1>1. ControlOK
  BY ThreadNames, SizesAssumption DEF Init, ControlOK
<1>2. pc \in [Threads -> {"read", "push", "close", "quit", "stopped", "check", "pop",
                          "record", "flag", "close_decrypt", "close_plain", "join",
                          "consume", "finish", "join_all", "done", "returned", "threw"}]
  BY DEF Init
<1>3. job \in [Workers -> -1..(NumChunks - 1)] /\ next_read \in 0..NumChunks /\ total \in Nat
  BY SizesAssumption DEF Init, NoJob
<1>4. /\ forged \subseteq 0..(NumChunks - 1) /\ final_len \in 0..ChunkSize /\ pending = {}
      /\ decrypt_queue = << >> /\ plaintext_queue = << >> /\ consumed = << >>
  BY DEF Init
<1>5. /\ decrypt_closed \in BOOLEAN /\ plaintext_closed \in BOOLEAN /\ promoted \in BOOLEAN
      /\ first_exception \in BOOLEAN /\ failed \in BOOLEAN
  BY Zenon DEF Init
<1> QED
  BY <1>1, <1>2, <1>3, <1>4, <1>5 DEF TypedInv, TypeOK

\* Every thread stays within its code.
LEMMA ControlStep == TypedInv /\ [Next]_vars => ControlOK'
<1> SUFFICES ASSUME TypedInv, [Next]_vars PROVE ControlOK'
  OBVIOUS
<1> USE ThreadNames, SizesAssumption DEF TypedInv, TypeOK, ControlOK, Goto
<1>1. CASE ReaderRead
  BY <1>1 DEF ReaderRead
<1>2. CASE ReaderPush
  BY <1>2 DEF ReaderPush
<1>3. CASE ReaderClose
  BY <1>3 DEF ReaderClose
<1>4. ASSUME NEW w \in Workers, WorkerCheck(w) PROVE ControlOK'
  BY <1>4 DEF WorkerCheck
<1>5. ASSUME NEW w \in Workers, WorkerOpen(w) PROVE ControlOK'
  <2>1. Head(decrypt_queue) \in 0..(NumChunks - 1)
    BY <1>5 DEF WorkerOpen
  <2> QED
    BY <1>5, <2>1 DEF WorkerOpen, NoJob
<1>6. ASSUME NEW w \in Workers, WorkerDrained(w) PROVE ControlOK'
  BY <1>6 DEF WorkerDrained
<1>7. ASSUME NEW w \in Workers, WorkerPush(w) PROVE ControlOK'
  BY <1>7 DEF WorkerPush
<1>8. ASSUME NEW w \in Workers, WorkerCloseDecrypt(w) PROVE ControlOK'
  BY <1>8 DEF WorkerCloseDecrypt
<1>9. ASSUME NEW w \in Workers, WorkerClosePlain(w) PROVE ControlOK'
  BY <1>9 DEF WorkerClosePlain
<1>10. CASE JoinWorkers
  BY <1>10 DEF JoinWorkers
<1>11. CASE ConsumerPop
  BY <1>11 DEF ConsumerPop
<1>12. CASE ConsumerConsume
  BY <1>12 DEF ConsumerConsume, Ready
<1>13. CASE ConsumerEnd
  BY <1>13 DEF ConsumerEnd
<1>14. CASE ConsumerFinish
  BY <1>14 DEF ConsumerFinish
<1>15. CASE ConsumerClose
  BY <1>15 DEF ConsumerClose
<1>16. CASE RunReturn
  BY <1>16 DEF RunReturn
<1>17. ASSUME NEW t \in Threads, RecordException(t) PROVE ControlOK'
  BY <1>17 DEF RecordException
<1>18. ASSUME NEW t \in Threads, StoreFailed(t) PROVE ControlOK'
  BY <1>18 DEF StoreFailed
<1>19. CASE UNCHANGED vars
  BY <1>19 DEF vars, archive_vars, queue_vars, consumer_vars, failure_vars
<1> QED
  BY <1>1, <1>2, <1>3, <1>4, <1>5, <1>6, <1>7, <1>8, <1>9, <1>10, <1>11,
     <1>12, <1>13, <1>14, <1>15, <1>16, <1>17, <1>18, <1>19, ThreadNames
     DEF Next, Reader, Worker, Consumer, Terminated

\* Queues, reorder map and counters only hold frames of the archive.
LEMMA TypeStep == TypedInv /\ [Next]_vars => TypeOK'
<1> SUFFICES ASSUME TypedInv, [Next]_vars PROVE TypeOK'
  OBVIOUS
<1> USE ThreadNames, SizesAssumption DEF TypedInv, TypeOK, Goto, archive_vars, queue_vars,
        consumer_vars, failure_vars
<1>1. CASE ReaderRead
  BY <1>1 DEF ReaderRead
<1>2. CASE ReaderPush
  <2>1. next_read \in 0..(NumChunks - 1)
    BY <1>2 DEF ReaderPush, ControlOK
  <2>2. /\ Append(decrypt_queue, next_read) \in Seq(0..(NumChunks - 1))
        /\ next_read + 1 \in 0..NumChunks
    BY <2>1
  <2> HIDE DEF TypeOK
  <2>3. decrypt_queue' \in Seq(0..(NumChunks - 1)) /\ next_read' \in 0..NumChunks
    BY <1>2, <2>2 DEF ReaderPush, TypeOK
  <2> QED
    BY <1>2, <2>3 DEF ReaderPush, TypeOK
<1>3. CASE ReaderClose
  BY <1>3 DEF ReaderClose
<1>4. ASSUME NEW w \in Workers, WorkerCheck(w) PROVE TypeOK'
  BY <1>4 DEF WorkerCheck
<1>5. ASSUME NEW w \in Workers, WorkerOpen(w) PROVE TypeOK'
  <2>1. /\ Head(decrypt_queue) \in 0..(NumChunks - 1)
        /\ Tail(decrypt_queue) \in Seq(0..(NumChunks - 1))
    BY <1>5 DEF WorkerOpen
  <2> QED
    BY <1>5, <2>1 DEF WorkerOpen
<1>6. ASSUME NEW w \in Workers, WorkerDrained(w) PROVE TypeOK'
  BY <1>6 DEF WorkerDrained
<1>7. ASSUME NEW w \in Workers, WorkerPush(w) PROVE TypeOK'
  <2>1. job[w] \in 0..(NumChunks - 1)
    BY <1>7 DEF WorkerPush, ControlOK, NoJob
  <2>2. Append(plaintext_queue, job[w]) \in Seq(0..(NumChunks - 1))
    BY <2>1
  <2>3. plaintext_queue' \in Seq(0..(NumChunks - 1))
    BY <1>7, <2>2 DEF WorkerPush
  <2>4. job' \in [Workers -> -1..(NumChunks - 1)]
    BY <1>7 DEF WorkerPush, NoJob
  <2> QED
    BY <1>7, <2>3, <2>4 DEF WorkerPush
<1>8. ASSUME NEW w \in Workers, WorkerCloseDecrypt(w) PROVE TypeOK'
  BY <1>8 DEF WorkerCloseDecrypt
<1>9. ASSUME NEW w \in Workers, WorkerClosePlain(w) PROVE TypeOK'
  BY <1>9 DEF WorkerClosePlain
<1>10. CASE JoinWorkers
  BY <1>10 DEF JoinWorkers
<1>11. CASE ConsumerPop
  <2>1. /\ Head(plaintext_queue) \in 0..(NumChunks - 1)
        /\ Tail(plaintext_queue) \in Seq(0..(NumChunks - 1))
    BY <1>11 DEF ConsumerPop
  <2> QED
    BY <1>11, <2>1 DEF ConsumerPop
<1>12. CASE ConsumerConsume
  <2>1. \A i \in pending : PlainLen(i) \in Nat /\ i \in 0..(NumChunks - 1)
    BY DEF PlainLen
  <2>2. \A i \in pending : /\ Append(consumed, i) \in Seq(0..(NumChunks - 1))
                           /\ total + PlainLen(i) \in Nat
    BY <2>1
  <2>3. consumed' \in Seq(0..(NumChunks - 1))
    BY <1>12, <2>2 DEF ConsumerConsume
  <2>4. total' \in Nat
    BY <1>12, <2>2 DEF ConsumerConsume
  <2>5. pending' \subseteq 0..(NumChunks - 1)
    BY <1>12 DEF ConsumerConsume
  <2> QED
    BY <1>12, <2>3, <2>4, <2>5 DEF ConsumerConsume
<1>13. CASE ConsumerEnd
  BY <1>13 DEF ConsumerEnd
<1>14. CASE ConsumerFinish
  BY <1>14 DEF ConsumerFinish
<1>15. CASE ConsumerClose
  BY <1>15 DEF ConsumerClose
<1>16. CASE RunReturn
  BY <1>16 DEF RunReturn
<1>17. ASSUME NEW t \in Threads, RecordException(t) PROVE TypeOK'
  BY <1>17 DEF RecordException
<1>18. ASSUME NEW t \in Threads, StoreFailed(t) PROVE TypeOK'
  BY <1>18 DEF StoreFailed
<1>19. CASE UNCHANGED vars
  BY <1>19 DEF vars, archive_vars, queue_vars, consumer_vars, failure_vars
<1> QED
  BY <1>1, <1>2, <1>3, <1>4, <1>5, <1>6, <1>7, <1>8, <1>9, <1>10, <1>11,
     <1>12, <1>13, <1>14, <1>15, <1>16, <1>17, <1>18, <1>19, ThreadNames
     DEF Next, Reader, Worker, Consumer, Terminated

\* Type correctness of the pipeline (DecryptPipeline.cpp): every thread stays
\* within its code, and queues, workers and reorder map only hold frames that
\* the archive's header announces.
THEOREM TypeCorrect == Spec => []TypeOK
<1>1. TypedInv /\ [Next]_vars => TypedInv'
  BY ControlStep, TypeStep DEF TypedInv
<1>2. TypedInv => TypeOK
  BY DEF TypedInv
<1> QED
  BY <1>1, <1>2, TypeInit, PTL DEF Spec

----------------------------------------------------------------------------
(* Where the frames are: no frame is in two places. *)

\* The frame has been taken off decrypt_queue, which is in increasing order.
Opened(i) == /\ i < next_read
             /\ \A k \in 1..Len(decrypt_queue) : i < decrypt_queue[k]

QueuedInv ==
    /\ \A k \in 1..Len(decrypt_queue) : decrypt_queue[k] < next_read
    /\ \A j, k \in 1..Len(decrypt_queue) : j < k => decrypt_queue[j] < decrypt_queue[k]

\* The archive reader has seen the first frames, in order, all authentic.
ConsumedInv ==
    \A i \in 1..Len(consumed) :
        consumed[i] = i - 1 /\ Opened(consumed[i]) /\ consumed[i] \notin forged

\* An opened frame that is not consumed yet is with one worker, in the
\* plaintext queue or in the reorder map, and in one place only.
Unconsumed(i) == Opened(i) /\ i >= NextExpected

PendingInv == \A i \in pending : Unconsumed(i) /\ i \notin forged

PlaintextInv ==
    \A k \in 1..Len(plaintext_queue) :
        /\ Unconsumed(plaintext_queue[k]) /\ plaintext_queue[k] \notin forged
        /\ plaintext_queue[k] \notin pending
        /\ \A j \in 1..Len(plaintext_queue) : j # k => plaintext_queue[j] # plaintext_queue[k]

\* A worker that met a forged frame keeps it to its end.
JobInv ==
    \A w \in Workers : job[w] # NoJob =>
        /\ Unconsumed(job[w]) /\ job[w] \notin pending
        /\ pc[w] = "push" => job[w] \notin forged
        /\ \A k \in 1..Len(plaintext_queue) : plaintext_queue[k] # job[w]
        /\ \A v \in Workers : v # w => job[v] # job[w]

PlaceInv == QueuedInv /\ ConsumedInv /\ PendingInv /\ PlaintextInv /\ JobInv

----------------------------------------------------------------------------
(* How the threads end. *)

\* failed_ is set after an exception was stored, and a stored exception is
\* followed by failed_; a thread gives up early only when failed_ is set.
RecordInv ==
    /\ failed => first_exception
    /\ \A t \in Threads : pc[t] = "flag" => first_exception
    /\ first_exception /\ ~failed => \E t \in Threads : pc[t] = "flag"
    /\ \A w \in Workers : pc[w] \in {"close_decrypt", "close_plain"} => failed
    /\ pc["consumer"] = "close_plain" => failed
    /\ pc["reader"] \in {"quit", "stopped"} => failed

\* Without a failure a queue is closed only by the thread that has to, and a
\* worker ends with nothing left to do.
CloseInv ==
    /\ decrypt_closed /\ ~failed => pc["reader"] = "done"
    /\ plaintext_closed /\ ~failed => pc["joiner"] = "done"
    /\ pc["joiner"] = "done" => \A w \in Workers : pc[w] = "done"
    /\ \A w \in Workers : pc[w] = "done" /\ ~failed
           => decrypt_closed /\ decrypt_queue = << >> /\ job[w] = NoJob
    /\ \A w \in Workers : pc[w] \in {"check", "pop"} => job[w] = NoJob

\* As long as nothing has failed, no frame is lost: it is queued, with a
\* worker, on its way to the consumer, waiting for its turn, or consumed.
Queued(i) == \E k \in 1..Len(decrypt_queue) : decrypt_queue[k] = i
InFlight(i) == \/ i < NextExpected \/ i \in pending
               \/ \E k \in 1..Len(plaintext_queue) : plaintext_queue[k] = i
               \/ \E w \in Workers : job[w] = i
CompleteInv == ~failed => \A i \in 0..(next_read - 1) : Queued(i) \/ InFlight(i)

----------------------------------------------------------------------------
(* What the consumer knows when it ends. *)

\* The plaintext bytes of the first n frames.
FirstBytes(n) == IF n = NumChunks THEN (NumChunks - 1) * ChunkSize + final_len
                 ELSE n * ChunkSize
BytesInv == pc["consumer"] \in {"pop", "consume", "finish"} => total = FirstBytes(NextExpected)

\* The consumer waits for more only when the next frame is missing; it reaches
\* finish() only when every thread has ended well and everything is consumed.
TurnInv == pc["consumer"] = "pop" => NextExpected \notin pending
Settled == /\ ~failed /\ ~first_exception
           /\ pc["reader"] = "done" /\ pc["joiner"] = "done"
           /\ NextExpected = NumChunks
           /\ PaddedSize # 0 => FirstBytes(NumChunks) = PaddedSize
FinishInv == pc["consumer"] = "finish" \/ promoted => Settled
OutcomeInv ==
    /\ promoted => pc["consumer"] \in {"join_all", "returned"}
    /\ pc["consumer"] = "join_all" => promoted \/ first_exception
    /\ pc["consumer"] = "returned" => promoted
    /\ pc["consumer"] = "threw" => ~promoted
    /\ pc["consumer"] \in {"returned", "threw"} => pc["reader"] \in {"done", "stopped"}

ThreadsInv == TypedInv /\ RecordInv /\ CloseInv
FramesInv == ThreadsInv /\ PlaceInv /\ CompleteInv
ConsumerInv == BytesInv /\ TurnInv /\ FinishInv /\ OutcomeInv
PipelineInv == FramesInv /\ ConsumerInv

----------------------------------------------------------------------------
(* No frame is in two places. *)

frame_vars == <<forged, next_read, decrypt_queue, plaintext_queue, job, pending, consumed>>

\* The frames' places, in the types that the arguments below use.
LEMMA FrameTypes ==
    ASSUME TypedInv
    PROVE  /\ next_read \in Nat /\ Len(consumed) \in Nat
           /\ decrypt_queue \in Seq(Nat) /\ plaintext_queue \in Seq(Nat) /\ consumed \in Seq(Nat)
           /\ pending \subseteq Nat /\ job \in [Workers -> Nat \cup {NoJob}]
           /\ \A k \in 1..Len(decrypt_queue) : decrypt_queue[k] \in Nat
           /\ \A k \in 1..Len(plaintext_queue) : plaintext_queue[k] \in Nat
<1>1. 0..(NumChunks - 1) \subseteq Nat /\ -1..(NumChunks - 1) \subseteq Nat \cup {NoJob}
  BY SizesAssumption DEF NoJob
<1>2. /\ decrypt_queue \in Seq(Nat) /\ plaintext_queue \in Seq(Nat) /\ consumed \in Seq(Nat)
  BY <1>1, SeqMonotonic DEF TypedInv, TypeOK
<1>3. pending \subseteq Nat /\ job \in [Workers -> Nat \cup {NoJob}] /\ next_read \in Nat
  BY <1>1, SizesAssumption DEF TypedInv, TypeOK
<1> QED
  BY <1>2, <1>3

\* These steps move frames; all others leave them where they are.
LEMMA FrameMoves ==
    ASSUME TypedInv, [Next]_vars
    PROVE  \/ ReaderPush \/ (\E w \in Workers : WorkerOpen(w) \/ WorkerPush(w))
           \/ ConsumerPop \/ ConsumerConsume \/ UNCHANGED frame_vars
<1> USE DEF frame_vars, archive_vars, queue_vars, consumer_vars, failure_vars
<1>1. CASE \/ ReaderRead \/ ReaderClose \/ JoinWorkers \/ ConsumerEnd \/ ConsumerFinish
           \/ ConsumerClose \/ RunReturn \/ UNCHANGED vars
  BY <1>1 DEF ReaderRead, ReaderClose, JoinWorkers, ConsumerEnd, ConsumerFinish, ConsumerClose,
     RunReturn, vars
<1>2. ASSUME NEW t \in Threads, RecordException(t) \/ StoreFailed(t)
      PROVE  UNCHANGED frame_vars
  BY <1>2 DEF RecordException, StoreFailed
<1>3. ASSUME NEW w \in Workers, \/ WorkerCheck(w) \/ WorkerDrained(w)
                                \/ WorkerCloseDecrypt(w) \/ WorkerClosePlain(w)
      PROVE  UNCHANGED frame_vars
  BY <1>3 DEF WorkerCheck, WorkerDrained, WorkerCloseDecrypt, WorkerClosePlain
<1> QED
  BY <1>1, <1>2, <1>3, ThreadNames DEF Next, Reader, Worker, Consumer, Terminated

\* A worker starts to push only when it has opened a frame.
LEMMA PushStarts ==
    ASSUME TypedInv, [Next]_vars, NEW w \in Workers, pc'[w] = "push", pc[w] # "push"
    PROVE  WorkerOpen(w)
<1> USE ThreadNames DEF TypedInv, TypeOK, ControlOK, Goto
<1>1. CASE Reader \/ JoinWorkers \/ Consumer
  BY <1>1 DEF Reader, Consumer, ReaderRead, ReaderPush, ReaderClose, JoinWorkers, ConsumerPop,
     ConsumerConsume, ConsumerEnd, ConsumerFinish, ConsumerClose, RunReturn, RecordException,
     StoreFailed
<1>2. ASSUME NEW v \in Workers, Worker(v) PROVE WorkerOpen(w)
  <2>1. v = w
    BY <1>2 DEF Worker, WorkerCheck, WorkerOpen, WorkerDrained, WorkerPush, WorkerCloseDecrypt,
       WorkerClosePlain, RecordException, StoreFailed
  <2> QED
    BY <1>2, <2>1 DEF Worker, WorkerCheck, WorkerDrained, WorkerPush, WorkerCloseDecrypt,
       WorkerClosePlain, RecordException, StoreFailed
<1> QED
  BY <1>1, <1>2 DEF Next, Terminated, vars

\* Frames that stay where they are stay in one place.
LEMMA StayPlaces ==
    ASSUME TypedInv, PlaceInv, [Next]_vars, UNCHANGED frame_vars
    PROVE  PlaceInv'
<1>1. \A w \in Workers : pc'[w] = "push" => pc[w] = "push"
  <2> SUFFICES ASSUME NEW w \in Workers, pc'[w] = "push", pc[w] # "push" PROVE FALSE
    OBVIOUS
  <2>1. WorkerOpen(w)
    BY PushStarts
  <2>2. decrypt_queue' = Tail(decrypt_queue) /\ decrypt_queue # << >> /\ decrypt_queue \in Seq(Nat)
    BY <2>1, FrameTypes DEF WorkerOpen
  <2>3. Len(decrypt_queue') # Len(decrypt_queue)
    BY <2>2
  <2> QED
    BY <2>3 DEF frame_vars
<1> QED
  BY <1>1 DEF frame_vars, PlaceInv, QueuedInv, ConsumedInv, PendingInv, PlaintextInv, JobInv,
     Unconsumed, Opened, NextExpected

\* A frame that the reader pushes is younger than every frame so far.
LEMMA ReadPlaces == TypedInv /\ PlaceInv /\ ReaderPush => PlaceInv'
<1> SUFFICES ASSUME TypedInv, PlaceInv, ReaderPush PROVE PlaceInv'
  OBVIOUS
<1>1. /\ next_read' = next_read + 1
      /\ decrypt_queue' = decrypt_queue \/ decrypt_queue' = Append(decrypt_queue, next_read)
      /\ UNCHANGED <<forged, plaintext_queue, job, pending, consumed>>
  BY DEF ReaderPush, archive_vars, consumer_vars
<1>2. \A w \in Workers : pc'[w] = pc[w]
  BY ThreadNames DEF ReaderPush, Goto, TypedInv, TypeOK
<1>3. \A k \in 1..Len(decrypt_queue') :
         \/ k \in 1..Len(decrypt_queue) /\ decrypt_queue'[k] = decrypt_queue[k]
         \/ k = Len(decrypt_queue) + 1 /\ decrypt_queue'[k] = next_read
  <2>1. decrypt_queue \in Seq(Nat) /\ next_read \in Nat
    BY FrameTypes
  <2> QED
    BY <1>1, <2>1
<1>4. QueuedInv'
  <2>1. \A k \in 1..Len(decrypt_queue') : decrypt_queue'[k] < next_read'
    BY <1>1, <1>3, FrameTypes DEF PlaceInv, QueuedInv
  <2>2. ASSUME NEW j \in 1..Len(decrypt_queue'), NEW k \in 1..Len(decrypt_queue'), j < k
        PROVE  decrypt_queue'[j] < decrypt_queue'[k]
    <3>1. j \in 1..Len(decrypt_queue) /\ decrypt_queue'[j] = decrypt_queue[j]
      BY <1>1, <1>3, <2>2, FrameTypes
    <3> QED
      BY <1>3, <2>2, <3>1 DEF PlaceInv, QueuedInv
  <2> QED
    BY <2>1, <2>2 DEF QueuedInv
<1>5. \A i \in Nat : Opened(i) => Opened(i)'
  BY <1>1, <1>3, FrameTypes DEF Opened
<1>6. \A i \in Nat : Unconsumed(i) => Unconsumed(i)'
  BY <1>1, <1>5 DEF Unconsumed, NextExpected
<1>7. ConsumedInv'
  BY <1>1, <1>5, FrameTypes DEF PlaceInv, ConsumedInv
<1>8. PendingInv' /\ PlaintextInv'
  BY <1>1, <1>6, FrameTypes DEF PlaceInv, PendingInv, PlaintextInv
<1>9. JobInv'
  BY <1>1, <1>2, <1>6, FrameTypes DEF PlaceInv, JobInv
<1> QED
  BY <1>4, <1>7, <1>8, <1>9 DEF PlaceInv

\* A worker takes the oldest frame of the queue, which is nowhere else.
LEMMA OpenPlaces ==
    ASSUME TypedInv, PlaceInv, NEW w \in Workers, WorkerOpen(w)
    PROVE  PlaceInv'
<1> DEFINE c == Head(decrypt_queue)
<1>1. decrypt_queue \in Seq(Nat) /\ decrypt_queue # << >>
  BY FrameTypes DEF WorkerOpen
<1>2. /\ decrypt_queue' = Tail(decrypt_queue) /\ job' = [job EXCEPT ![w] = c]
      /\ UNCHANGED <<forged, next_read, plaintext_queue, pending, consumed>>
  BY DEF WorkerOpen, archive_vars, consumer_vars
<1>3. /\ \A v \in Workers : v # w => pc'[v] = pc[v]
      /\ pc'[w] = "push" => c \notin forged
  BY ThreadNames DEF WorkerOpen, Goto, Authentic, TypedInv, TypeOK
<1>4. c = decrypt_queue[1] /\ 1 \in 1..Len(decrypt_queue) /\ c \in Nat
  BY <1>1
<1>5. \A k \in 1..Len(Tail(decrypt_queue)) :
         /\ k + 1 \in 1..Len(decrypt_queue) /\ 1 < k + 1
         /\ Tail(decrypt_queue)[k] = decrypt_queue[k + 1]
  BY <1>1
<1>6. c < next_read /\ \A k \in 1..Len(Tail(decrypt_queue)) : c < Tail(decrypt_queue)[k]
  BY <1>4, <1>5 DEF PlaceInv, QueuedInv
<1>7. \A i \in Nat : Opened(i) => i < c
  BY <1>4 DEF Opened
<1> HIDE DEF c
<1>8. \A i \in Nat : Opened(i) => Opened(i)'
  BY <1>2, <1>5 DEF Opened
<1>9. \A i : i = c => Opened(i)'
  BY <1>2, <1>6 DEF Opened
<1>10. QueuedInv'
  BY <1>1, <1>2, <1>5 DEF PlaceInv, QueuedInv
<1>11. \A i \in Nat : Unconsumed(i) => Unconsumed(i)' /\ i < c
  BY <1>2, <1>7, <1>8 DEF Unconsumed, NextExpected
<1>12. c >= NextExpected
  <2> SUFFICES ASSUME c < Len(consumed) PROVE FALSE
    BY <1>4, FrameTypes DEF NextExpected
  <2>1. c + 1 \in 1..Len(consumed) /\ (c + 1) - 1 = c
    BY <1>4, FrameTypes
  <2> QED
    BY <1>4, <1>7, <2>1 DEF PlaceInv, ConsumedInv
<1>13. ConsumedInv'
  BY <1>2, <1>8, FrameTypes DEF PlaceInv, ConsumedInv
<1>14. PendingInv' /\ PlaintextInv'
  BY <1>2, <1>11, FrameTypes DEF PlaceInv, PendingInv, PlaintextInv
<1>15. JobInv'
  <2>1. /\ c \notin pending /\ \A k \in 1..Len(plaintext_queue) : plaintext_queue[k] # c
        /\ \A v \in Workers : job[v] # c
    <3>1. \A v \in Workers : job[v] # NoJob => job[v] \in Nat /\ job[v] < c
      BY <1>11, FrameTypes DEF PlaceInv, JobInv
    <3>2. c # NoJob
      BY <1>4 DEF NoJob
    <3> QED
      BY <1>4, <1>11, <3>1, <3>2, FrameTypes DEF PlaceInv, PendingInv, PlaintextInv
  <2>2. \A i : i = c => Unconsumed(i)'
    BY <1>2, <1>4, <1>9, <1>12 DEF Unconsumed, NextExpected
  <2>3. job'[w] = c /\ \A v \in Workers : v # w => job'[v] = job[v]
    BY <1>2, FrameTypes
  <2>4. \A v \in Workers : job[v] # NoJob => \A i : i = job[v] => Unconsumed(i)'
    BY <1>11, FrameTypes DEF PlaceInv, JobInv
  <2> SUFFICES ASSUME NEW v \in Workers, job'[v] # NoJob
               PROVE  /\ Unconsumed(job[v])' /\ job'[v] \notin pending
                      /\ pc'[v] = "push" => job'[v] \notin forged
                      /\ \A k \in 1..Len(plaintext_queue) : plaintext_queue[k] # job'[v]
                      /\ \A u \in Workers : u # v => job'[u] # job'[v]
    BY <1>2 DEF JobInv
  <2>5. CASE v = w
    <3>1. job'[v] = c
      BY <2>3, <2>5
    <3>2. Unconsumed(job[v])'
      BY <2>2, <3>1 DEF Unconsumed, Opened, NextExpected
    <3>3. \A u \in Workers : u # v => job'[u] # job'[v]
      BY <2>1, <2>3, <2>5, <3>1
    <3> QED
      BY <1>3, <2>1, <2>5, <3>1, <3>2, <3>3
  <2>6. CASE v # w
    <3>1. job'[v] = job[v] /\ job[v] # NoJob /\ pc'[v] = pc[v]
      BY <1>3, <2>3, <2>6
    <3>2. \A u \in Workers : u # v => job'[u] # job'[v]
      BY <2>1, <2>3, <2>6, <3>1 DEF PlaceInv, JobInv
    <3>3. Unconsumed(job[v])'
      BY <2>4, <3>1 DEF Unconsumed, Opened, NextExpected
    <3> QED
      BY <3>1, <3>2, <3>3 DEF PlaceInv, JobInv
  <2> QED
    BY <2>5, <2>6
<1> QED
  BY <1>10, <1>13, <1>14, <1>15 DEF PlaceInv

\* A worker hands its plaintext over to the plaintext queue, or drops it.
LEMMA PushPlaces ==
    ASSUME TypedInv, PlaceInv, NEW w \in Workers, WorkerPush(w)
    PROVE  PlaceInv'
<1>1. /\ job' = [job EXCEPT ![w] = NoJob]
      /\ plaintext_queue' = plaintext_queue \/ plaintext_queue' = Append(plaintext_queue, job[w])
      /\ UNCHANGED <<forged, next_read, decrypt_queue, pending, consumed>>
  BY DEF WorkerPush, archive_vars, consumer_vars
<1>2. \A v \in Workers : v # w => pc'[v] = pc[v] /\ job'[v] = job[v]
  BY <1>1, ThreadNames, FrameTypes DEF WorkerPush, Goto, TypedInv, TypeOK
<1>3. job'[w] = NoJob /\ job[w] # NoJob /\ job[w] \in Nat
  BY <1>1, FrameTypes DEF WorkerPush, TypedInv, ControlOK
<1>4. /\ Unconsumed(job[w]) /\ job[w] \notin pending /\ job[w] \notin forged
      /\ \A k \in 1..Len(plaintext_queue) : plaintext_queue[k] # job[w]
      /\ \A v \in Workers : v # w => job[v] # job[w]
  BY <1>3 DEF PlaceInv, JobInv, WorkerPush
<1>5. \A k \in 1..Len(plaintext_queue') :
         \/ k \in 1..Len(plaintext_queue) /\ plaintext_queue'[k] = plaintext_queue[k]
         \/ k = Len(plaintext_queue) + 1 /\ plaintext_queue'[k] = job[w]
  BY <1>1, <1>3, FrameTypes
<1>6. \A i : Unconsumed(i) => Unconsumed(i)'
  BY <1>1 DEF Unconsumed, Opened, NextExpected
<1>7. QueuedInv' /\ ConsumedInv' /\ PendingInv'
  BY <1>1 DEF PlaceInv, QueuedInv, ConsumedInv, PendingInv, Unconsumed, Opened, NextExpected
<1>8. PlaintextInv'
  <2> SUFFICES ASSUME NEW k \in 1..Len(plaintext_queue')
               PROVE  /\ Unconsumed(plaintext_queue[k])' /\ plaintext_queue'[k] \notin forged
                      /\ plaintext_queue'[k] \notin pending
                      /\ \A j \in 1..Len(plaintext_queue') :
                            j # k => plaintext_queue'[j] # plaintext_queue'[k]
    BY <1>1 DEF PlaintextInv
  <2>1. Unconsumed(plaintext_queue'[k]) /\ plaintext_queue'[k] \notin forged
        /\ plaintext_queue'[k] \notin pending
    BY <1>4, <1>5 DEF PlaceInv, PlaintextInv
  <2>2. \A j \in 1..Len(plaintext_queue') : j # k => plaintext_queue'[j] # plaintext_queue'[k]
    BY <1>4, <1>5 DEF PlaceInv, PlaintextInv
  <2>3. Unconsumed(plaintext_queue[k])'
    BY <1>1, <2>1 DEF Unconsumed, Opened, NextExpected
  <2> QED
    BY <2>1, <2>2, <2>3
<1>9. JobInv'
  <2> SUFFICES ASSUME NEW v \in Workers, job'[v] # NoJob
               PROVE  /\ Unconsumed(job[v])' /\ job'[v] \notin pending
                      /\ pc'[v] = "push" => job'[v] \notin forged
                      /\ \A k \in 1..Len(plaintext_queue') : plaintext_queue'[k] # job'[v]
                      /\ \A u \in Workers : u # v => job'[u] # job'[v]
    BY <1>1 DEF JobInv
  <2>1. v # w /\ job'[v] = job[v] /\ pc'[v] = pc[v] /\ job[v] # NoJob
    BY <1>2, <1>3
  <2>2. Unconsumed(job[v])'
    BY <1>1, <2>1 DEF PlaceInv, JobInv, Unconsumed, Opened, NextExpected
  <2>3. \A k \in 1..Len(plaintext_queue') : plaintext_queue'[k] # job[v]
    BY <1>4, <1>5, <2>1 DEF PlaceInv, JobInv
  <2>4. \A u \in Workers : u # v => job'[u] # job[v]
    BY <1>2, <1>3, <2>1 DEF PlaceInv, JobInv
  <2> QED
    BY <2>1, <2>2, <2>3, <2>4 DEF PlaceInv, JobInv
<1> QED
  BY <1>7, <1>8, <1>9 DEF PlaceInv

\* The consumer moves the oldest plaintext into the reorder map.
LEMMA PopPlaces == TypedInv /\ PlaceInv /\ ConsumerPop => PlaceInv'
<1> SUFFICES ASSUME TypedInv, PlaceInv, ConsumerPop PROVE PlaceInv'
  OBVIOUS
<1> DEFINE c == Head(plaintext_queue)
<1>1. plaintext_queue \in Seq(Nat) /\ plaintext_queue # << >>
  BY FrameTypes DEF ConsumerPop
<1>2. /\ plaintext_queue' = Tail(plaintext_queue)
      /\ pending' = pending \/ pending' = pending \cup {c}
      /\ UNCHANGED <<forged, next_read, decrypt_queue, job, consumed>>
  BY DEF ConsumerPop, archive_vars
<1>3. \A w \in Workers : pc'[w] = pc[w]
  BY ThreadNames DEF ConsumerPop, Goto, TypedInv, TypeOK
<1>4. c = plaintext_queue[1] /\ 1 \in 1..Len(plaintext_queue)
  BY <1>1
<1>5. \A k \in 1..Len(Tail(plaintext_queue)) :
         /\ k + 1 \in 1..Len(plaintext_queue) /\ k + 1 # 1
         /\ Tail(plaintext_queue)[k] = plaintext_queue[k + 1]
  BY <1>1
<1>6. /\ Unconsumed(c) /\ c \notin forged
      /\ \A k \in 1..Len(plaintext_queue) : k # 1 => plaintext_queue[k] # c
  BY <1>4 DEF PlaceInv, PlaintextInv
<1> HIDE DEF c
<1>7. QueuedInv' /\ ConsumedInv'
  BY <1>2 DEF PlaceInv, QueuedInv, ConsumedInv, Opened
<1>8. PendingInv'
  BY <1>2, <1>6 DEF PlaceInv, PendingInv, Unconsumed, Opened, NextExpected
<1>9. PlaintextInv'
  <2> SUFFICES ASSUME NEW k \in 1..Len(Tail(plaintext_queue))
               PROVE  /\ Unconsumed(plaintext_queue[k + 1])
                      /\ plaintext_queue[k + 1] \notin forged
                      /\ plaintext_queue[k + 1] \notin pending'
                      /\ \A j \in 1..Len(Tail(plaintext_queue)) :
                            j # k => plaintext_queue[j + 1] # plaintext_queue[k + 1]
    BY <1>2, <1>5 DEF PlaintextInv, Unconsumed, Opened, NextExpected
  <2>1. \A j \in 1..Len(Tail(plaintext_queue)) : j # k => j + 1 # k + 1
    OBVIOUS
  <2> QED
    BY <1>2, <1>5, <1>6, <2>1 DEF PlaceInv, PlaintextInv
<1>10. JobInv'
  BY <1>2, <1>3, <1>4, <1>5, <1>6 DEF PlaceInv, JobInv, Unconsumed, Opened, NextExpected
<1> QED
  BY <1>7, <1>8, <1>9, <1>10 DEF PlaceInv

\* The archive reader gets the frame whose turn it is.
LEMMA ConsumePlaces == TypedInv /\ PlaceInv /\ ConsumerConsume => PlaceInv'
<1> SUFFICES ASSUME TypedInv, PlaceInv, ConsumerConsume PROVE PlaceInv'
  OBVIOUS
<1>1. UNCHANGED <<forged, next_read, decrypt_queue, plaintext_queue, job>>
  BY DEF ConsumerConsume, archive_vars, queue_vars
<1>2. \A w \in Workers : pc'[w] = pc[w]
  BY ThreadNames DEF ConsumerConsume, Goto, TypedInv, TypeOK
<1>3. CASE UNCHANGED <<pending, consumed>>
  BY <1>1, <1>2, <1>3 DEF PlaceInv, QueuedInv, ConsumedInv, PendingInv, PlaintextInv, JobInv,
     Unconsumed, Opened, NextExpected
<1>4. ASSUME NEW c \in pending, c = NextExpected,
             consumed' = Append(consumed, c), pending' = pending \ {c}
      PROVE  PlaceInv'
  <2>1. Unconsumed(c) /\ c \notin forged /\ c \in Nat
    BY FrameTypes DEF PlaceInv, PendingInv
  <2>2. /\ Len(consumed') = Len(consumed) + 1 /\ Len(consumed) \in Nat /\ c = Len(consumed)
        /\ \A i \in 1..Len(consumed) : consumed'[i] = consumed[i]
        /\ consumed'[Len(consumed) + 1] = c
    BY <1>4, <2>1, FrameTypes DEF NextExpected
  <2>3. QueuedInv'
    BY <1>1 DEF PlaceInv, QueuedInv
  <2>4. \A i \in 1..Len(consumed') : i \in 1..Len(consumed) \/ i = Len(consumed) + 1
    BY <2>2
  <2>5. ConsumedInv'
    BY <1>1, <2>1, <2>2, <2>4 DEF PlaceInv, ConsumedInv, Unconsumed, Opened
  <2>6. \A i \in Nat : Unconsumed(i) /\ i # c => Unconsumed(i)'
    BY <1>1, <2>2 DEF Unconsumed, Opened, NextExpected
  <2>7. PendingInv'
    BY <1>1, <1>4, <2>6, FrameTypes DEF PlaceInv, PendingInv
  <2>8. PlaintextInv'
    BY <1>1, <1>4, <2>6, FrameTypes DEF PlaceInv, PlaintextInv
  <2>9. JobInv'
    BY <1>1, <1>2, <1>4, <2>6, FrameTypes DEF PlaceInv, JobInv
  <2> QED
    BY <2>3, <2>5, <2>7, <2>8, <2>9 DEF PlaceInv
<1> QED
  BY <1>3, <1>4 DEF ConsumerConsume, Ready

\* No step puts a frame in two places.
LEMMA PlaceStep == TypedInv /\ PlaceInv /\ [Next]_vars => PlaceInv'
  BY FrameMoves, StayPlaces, ReadPlaces, OpenPlaces, PushPlaces, PopPlaces, ConsumePlaces

\* Initially there is no frame anywhere.
LEMMA PlaceInit == Init => PlaceInv
  BY DEF Init, PlaceInv, QueuedInv, ConsumedInv, PendingInv, PlaintextInv, JobInv

----------------------------------------------------------------------------
(* How the threads end. *)

\* The order in which a failure is recorded, reported and acted on.
LEMMA RecordStep == ThreadsInv /\ [Next]_vars => RecordInv'
<1> SUFFICES ASSUME ThreadsInv, [Next]_vars PROVE RecordInv'
  OBVIOUS
<1> USE ThreadNames DEF ThreadsInv, TypedInv, TypeOK, ControlOK, RecordInv, Goto, failure_vars
<1>1. CASE ReaderRead
  BY <1>1 DEF ReaderRead
<1>2. CASE ReaderPush
  BY <1>2 DEF ReaderPush, CloseInv
<1>3. CASE ReaderClose
  BY <1>3 DEF ReaderClose
<1>4. ASSUME NEW w \in Workers, WorkerCheck(w) PROVE RecordInv'
  BY <1>4 DEF WorkerCheck
<1>5. ASSUME NEW w \in Workers, WorkerOpen(w) PROVE RecordInv'
  BY <1>5 DEF WorkerOpen, Authentic
<1>6. ASSUME NEW w \in Workers, WorkerDrained(w) PROVE RecordInv'
  BY <1>6 DEF WorkerDrained
<1>7. ASSUME NEW w \in Workers, WorkerPush(w) PROVE RecordInv'
  BY <1>7 DEF WorkerPush
<1>8. ASSUME NEW w \in Workers, WorkerCloseDecrypt(w) PROVE RecordInv'
  BY <1>8 DEF WorkerCloseDecrypt
<1>9. ASSUME NEW w \in Workers, WorkerClosePlain(w) PROVE RecordInv'
  BY <1>9 DEF WorkerClosePlain
<1>10. CASE JoinWorkers
  BY <1>10 DEF JoinWorkers
<1>11. CASE ConsumerPop
  BY <1>11 DEF ConsumerPop
<1>12. CASE ConsumerConsume
  BY <1>12 DEF ConsumerConsume, Ready
<1>13. CASE ConsumerEnd
  BY <1>13 DEF ConsumerEnd
<1>14. CASE ConsumerFinish
  BY <1>14 DEF ConsumerFinish
<1>15. CASE ConsumerClose
  BY <1>15 DEF ConsumerClose
<1>16. CASE RunReturn
  BY <1>16 DEF RunReturn
<1>17. ASSUME NEW t \in Threads, RecordException(t) PROVE RecordInv'
  BY <1>17 DEF RecordException
<1>18. ASSUME NEW t \in Threads, StoreFailed(t) PROVE RecordInv'
  BY <1>18 DEF StoreFailed
<1>19. CASE UNCHANGED vars
  BY <1>19 DEF vars, archive_vars, queue_vars, consumer_vars, failure_vars
<1> QED
  BY <1>1, <1>2, <1>3, <1>4, <1>5, <1>6, <1>7, <1>8, <1>9, <1>10, <1>11,
     <1>12, <1>13, <1>14, <1>15, <1>16, <1>17, <1>18, <1>19, ThreadNames
     DEF Next, Reader, Worker, Consumer, Terminated

\* Queues are closed, and workers end, in order.
LEMMA CloseStep == ThreadsInv /\ [Next]_vars => CloseInv'
<1> SUFFICES ASSUME ThreadsInv, [Next]_vars PROVE CloseInv'
  OBVIOUS
<1> USE ThreadNames DEF ThreadsInv, TypedInv, TypeOK, ControlOK, RecordInv, CloseInv, Goto,
        queue_vars, failure_vars
<1>1. CASE ReaderRead
  BY <1>1 DEF ReaderRead
<1>2. CASE ReaderPush
  BY <1>2 DEF ReaderPush
<1>3. CASE ReaderClose
  BY <1>3 DEF ReaderClose
<1>4. ASSUME NEW w \in Workers, WorkerCheck(w) PROVE CloseInv'
  BY <1>4 DEF WorkerCheck
<1>5. ASSUME NEW w \in Workers, WorkerOpen(w) PROVE CloseInv'
  BY <1>5 DEF WorkerOpen, Authentic
<1>6. ASSUME NEW w \in Workers, WorkerDrained(w) PROVE CloseInv'
  BY <1>6 DEF WorkerDrained
<1>7. ASSUME NEW w \in Workers, WorkerPush(w) PROVE CloseInv'
  BY <1>7 DEF WorkerPush
<1>8. ASSUME NEW w \in Workers, WorkerCloseDecrypt(w) PROVE CloseInv'
  BY <1>8 DEF WorkerCloseDecrypt
<1>9. ASSUME NEW w \in Workers, WorkerClosePlain(w) PROVE CloseInv'
  BY <1>9 DEF WorkerClosePlain
<1>10. CASE JoinWorkers
  BY <1>10 DEF JoinWorkers
<1>11. CASE ConsumerPop
  BY <1>11 DEF ConsumerPop
<1>12. CASE ConsumerConsume
  BY <1>12 DEF ConsumerConsume, Ready
<1>13. CASE ConsumerEnd
  BY <1>13 DEF ConsumerEnd
<1>14. CASE ConsumerFinish
  BY <1>14 DEF ConsumerFinish
<1>15. CASE ConsumerClose
  BY <1>15 DEF ConsumerClose
<1>16. CASE RunReturn
  BY <1>16 DEF RunReturn
<1>17. ASSUME NEW t \in Threads, RecordException(t) PROVE CloseInv'
  BY <1>17 DEF RecordException
<1>18. ASSUME NEW t \in Threads, StoreFailed(t) PROVE CloseInv'
  BY <1>18 DEF StoreFailed
<1>19. CASE UNCHANGED vars
  BY <1>19 DEF vars, archive_vars, queue_vars, consumer_vars, failure_vars
<1> QED
  BY <1>1, <1>2, <1>3, <1>4, <1>5, <1>6, <1>7, <1>8, <1>9, <1>10, <1>11,
     <1>12, <1>13, <1>14, <1>15, <1>16, <1>17, <1>18, <1>19, ThreadNames
     DEF Next, Reader, Worker, Consumer, Terminated

\* The failure flag is never cleared.
LEMMA FailedStays == [Next]_vars /\ failed => failed'
<1> USE DEF failure_vars
<1>1. ASSUME NEW w \in Workers, Worker(w), failed PROVE failed'
  BY <1>1 DEF Worker, WorkerCheck, WorkerOpen, WorkerDrained, WorkerPush, WorkerCloseDecrypt,
     WorkerClosePlain, RecordException, StoreFailed
<1>2. ASSUME Reader \/ JoinWorkers, failed PROVE failed'
  BY <1>2 DEF Reader, ReaderRead, ReaderPush, ReaderClose, JoinWorkers, RecordException,
     StoreFailed
<1>3. ASSUME Consumer, failed PROVE failed'
  BY <1>3 DEF Consumer, ConsumerPop, ConsumerConsume, ConsumerEnd, ConsumerFinish,
     ConsumerClose, RunReturn, RecordException, StoreFailed
<1> QED
  BY <1>1, <1>2, <1>3 DEF Next, Terminated, vars

\* A frame read is queued: the queue is open as nothing has failed.
LEMMA ReadComplete ==
    ASSUME ThreadsInv, CompleteInv, ~failed, ReaderPush
    PROVE  CompleteInv'
<1>1. ~decrypt_closed
  BY DEF ThreadsInv, CloseInv, ReaderPush
<1>2. /\ next_read' = next_read + 1 /\ decrypt_queue' = Append(decrypt_queue, next_read)
      /\ UNCHANGED <<plaintext_queue, job, pending, consumed>>
  BY <1>1 DEF ReaderPush, consumer_vars
<1>3. next_read \in Nat /\ decrypt_queue \in Seq(Nat)
  BY FrameTypes DEF ThreadsInv
<1>4. /\ Len(decrypt_queue') = Len(decrypt_queue) + 1 /\ Len(decrypt_queue) \in Nat
      /\ \A k \in 1..Len(decrypt_queue) : decrypt_queue'[k] = decrypt_queue[k]
      /\ decrypt_queue'[Len(decrypt_queue) + 1] = next_read
  BY <1>2, <1>3
<1>5. \A i : (Queued(i) => Queued(i)') /\ (InFlight(i) => InFlight(i)')
  BY <1>2, <1>4 DEF Queued, InFlight, NextExpected
<1>6. \A i : i = next_read => Queued(i)'
  BY <1>4 DEF Queued
<1>7. \A i \in 0..(next_read' - 1) : i \in 0..(next_read - 1) \/ i = next_read
  BY <1>2, <1>3
<1> QED
  BY <1>5, <1>6, <1>7 DEF CompleteInv

\* The frame taken from the queue is with the worker.
LEMMA OpenComplete ==
    ASSUME ThreadsInv, CompleteInv, ~failed, NEW w \in Workers, WorkerOpen(w)
    PROVE  CompleteInv'
<1> DEFINE c == Head(decrypt_queue)
<1>1. /\ decrypt_queue \in Seq(Nat) /\ decrypt_queue # << >> /\ next_read \in Nat
      /\ job \in [Workers -> Nat \cup {NoJob}] /\ job[w] = NoJob
  BY FrameTypes DEF ThreadsInv, CloseInv, WorkerOpen
<1>2. /\ decrypt_queue' = Tail(decrypt_queue) /\ job' = [job EXCEPT ![w] = c]
      /\ UNCHANGED <<next_read, plaintext_queue, pending, consumed>>
  BY DEF WorkerOpen, consumer_vars
<1>3. c = decrypt_queue[1]
  BY <1>1
<1>4. \A k \in 1..Len(decrypt_queue) : k # 1 =>
         k - 1 \in 1..Len(Tail(decrypt_queue)) /\ Tail(decrypt_queue)[k - 1] = decrypt_queue[k]
  BY <1>1
<1> HIDE DEF c
<1>5. job'[w] = c /\ \A v \in Workers : v # w => job'[v] = job[v]
  BY <1>1, <1>2
<1>6. \A i : i = c => InFlight(i)'
  BY <1>5 DEF InFlight
<1>7. \A i : Queued(i) => i = c \/ Queued(i)'
  BY <1>2, <1>3, <1>4 DEF Queued
<1>8. \A i \in Nat : InFlight(i) => InFlight(i)'
  BY <1>1, <1>2, <1>5 DEF InFlight, NextExpected, NoJob
<1>9. \A i \in 0..(next_read - 1) : i \in Nat
  BY <1>1
<1> QED
  BY <1>2, <1>6, <1>7, <1>8, <1>9 DEF CompleteInv

\* The worker's plaintext goes to the plaintext queue, which is open.
LEMMA PushComplete ==
    ASSUME ThreadsInv, CompleteInv, ~failed, NEW w \in Workers, WorkerPush(w)
    PROVE  CompleteInv'
<1>1. ~plaintext_closed
  BY DEF ThreadsInv, CloseInv, WorkerPush
<1>2. /\ job' = [job EXCEPT ![w] = NoJob]
      /\ plaintext_queue' = Append(plaintext_queue, job[w])
      /\ UNCHANGED <<next_read, decrypt_queue, pending, consumed>>
  BY <1>1 DEF WorkerPush, consumer_vars
<1>3. /\ job \in [Workers -> Nat \cup {NoJob}] /\ plaintext_queue \in Seq(Nat)
      /\ job[w] \in Nat
  BY FrameTypes DEF ThreadsInv, TypedInv, ControlOK, WorkerPush
<1>4. /\ Len(plaintext_queue') = Len(plaintext_queue) + 1 /\ Len(plaintext_queue) \in Nat
      /\ \A k \in 1..Len(plaintext_queue) : plaintext_queue'[k] = plaintext_queue[k]
      /\ plaintext_queue'[Len(plaintext_queue) + 1] = job[w]
  BY <1>2, <1>3
<1>5. \A v \in Workers : v # w => job'[v] = job[v]
  BY <1>2, <1>3
<1>6. \A i : InFlight(i) => InFlight(i)'
  BY <1>2, <1>4, <1>5 DEF InFlight, NextExpected
<1> QED
  BY <1>2, <1>6 DEF CompleteInv, Queued

\* The consumer keeps what it takes: no index is stale or a duplicate.
LEMMA PopComplete ==
    ASSUME ThreadsInv, PlaceInv, CompleteInv, ~failed, ConsumerPop
    PROVE  CompleteInv'
<1> DEFINE c == Head(plaintext_queue)
<1>1. plaintext_queue \in Seq(Nat) /\ plaintext_queue # << >> /\ NextExpected \in Nat
  BY FrameTypes DEF ThreadsInv, ConsumerPop, NextExpected
<1>2. c = plaintext_queue[1] /\ 1 \in 1..Len(plaintext_queue) /\ c \in Nat
  BY <1>1
<1>3. ~(c < NextExpected \/ c \in pending)
  BY <1>1, <1>2 DEF PlaceInv, PlaintextInv, Unconsumed
<1>4. /\ plaintext_queue' = Tail(plaintext_queue) /\ pending' = pending \cup {c}
      /\ UNCHANGED <<next_read, decrypt_queue, job, consumed>>
  BY <1>3 DEF ConsumerPop
<1>5. \A k \in 1..Len(plaintext_queue) : k # 1 =>
         /\ k - 1 \in 1..Len(Tail(plaintext_queue))
         /\ Tail(plaintext_queue)[k - 1] = plaintext_queue[k]
  BY <1>1
<1> HIDE DEF c
<1>6. \A i : InFlight(i) => InFlight(i)'
  BY <1>2, <1>4, <1>5 DEF InFlight, NextExpected
<1> QED
  BY <1>4, <1>6 DEF CompleteInv, Queued

\* A frame leaves the reorder map only to be consumed.
LEMMA ConsumeComplete ==
    ASSUME ThreadsInv, CompleteInv, ~failed, ConsumerConsume
    PROVE  CompleteInv'
<1>1. UNCHANGED <<next_read, decrypt_queue, plaintext_queue, job>>
  BY DEF ConsumerConsume, queue_vars
<1>2. CASE UNCHANGED <<pending, consumed>>
  BY <1>1, <1>2 DEF CompleteInv, Queued, InFlight, NextExpected
<1>3. ASSUME NEW c \in pending, c = NextExpected,
             consumed' = Append(consumed, c), pending' = pending \ {c}
      PROVE  CompleteInv'
  <2>1. consumed \in Seq(Nat) /\ c \in Nat /\ next_read \in Nat
    BY FrameTypes DEF ThreadsInv
  <2>2. Len(consumed') = Len(consumed) + 1 /\ Len(consumed) \in Nat
    BY <1>3, <2>1
  <2>3. \A i \in Nat : InFlight(i) => InFlight(i)'
    BY <1>1, <1>3, <2>1, <2>2 DEF InFlight, NextExpected
  <2>4. \A i \in 0..(next_read - 1) : i \in Nat
    BY <2>1
  <2> QED
    BY <1>1, <2>3, <2>4 DEF CompleteInv, Queued
<1> QED
  BY <1>2, <1>3 DEF ConsumerConsume, Ready

\* No step loses a frame unless something has failed.
LEMMA CompleteStep ==
    ThreadsInv /\ PlaceInv /\ CompleteInv /\ [Next]_vars => CompleteInv'
<1> SUFFICES ASSUME ThreadsInv, PlaceInv, CompleteInv, [Next]_vars, ~failed'
             PROVE  CompleteInv'
  BY DEF CompleteInv
<1>1. ~failed
  BY FailedStays
<1>2. CASE UNCHANGED frame_vars
  BY <1>1, <1>2 DEF frame_vars, CompleteInv, Queued, InFlight, NextExpected
<1> QED
  BY <1>1, <1>2, FrameMoves, ReadComplete, OpenComplete, PushComplete, PopComplete,
     ConsumeComplete DEF ThreadsInv

----------------------------------------------------------------------------
(* What the consumer knows when it ends. *)

\* The consumer's queue is closed and drained and nothing has failed.
Drained == plaintext_queue = << >> /\ plaintext_closed /\ ~failed

\* Then the workers and the reader have ended, and every frame of the archive
\* is consumed or waits in the reorder map.
LEMMA DrainedFrames ==
    ASSUME FramesInv, Drained
    PROVE  /\ pc["reader"] = "done" /\ pc["joiner"] = "done"
           /\ \A w \in Workers : pc[w] = "done"
           /\ next_read = NumChunks
           /\ \A i \in 0..(next_read - 1) : i < NextExpected \/ i \in pending
<1>1. pc["joiner"] = "done" /\ \A w \in Workers : pc[w] = "done"
  BY DEF Drained, FramesInv, ThreadsInv, CloseInv
<1>2. decrypt_closed /\ decrypt_queue = << >> /\ \A w \in Workers : job[w] = NoJob
  BY <1>1, WorkersAssumption DEF Drained, FramesInv, ThreadsInv, CloseInv
<1>3. pc["reader"] = "done"
  BY <1>2 DEF Drained, FramesInv, ThreadsInv, CloseInv
<1>4. next_read = NumChunks /\ next_read \in Nat
  BY <1>3, SizesAssumption DEF FramesInv, ThreadsInv, TypedInv, ControlOK
<1>5. \A i \in 0..(next_read - 1) : i < NextExpected \/ i \in pending
  BY <1>2, <1>4 DEF Drained, FramesInv, CompleteInv, Queued, InFlight, NoJob
<1> QED
  BY <1>1, <1>3, <1>4, <1>5

\* No more frames are consumed than were read.
LEMMA ConsumedBound ==
    ASSUME TypedInv, ConsumedInv
    PROVE  NextExpected \in Nat /\ NextExpected <= next_read /\ next_read <= NumChunks
<1>1. NextExpected \in Nat /\ next_read \in Nat /\ next_read <= NumChunks
  BY FrameTypes, SizesAssumption DEF NextExpected, TypedInv, TypeOK
<1>2. CASE NextExpected > 0
  <2>1. Len(consumed) \in 1..Len(consumed)
    BY <1>1, <1>2 DEF NextExpected
  <2>2. Len(consumed) - 1 < next_read
    BY <2>1 DEF ConsumedInv, Opened
  <2> QED
    BY <1>1, <2>2 DEF NextExpected
<1> QED
  BY <1>1, <1>2

\* So nothing waits in the reorder map: its first frame would be due.
LEMMA DrainedMap ==
    ASSUME FramesInv, TurnInv, Drained, pc["consumer"] = "pop"
    PROVE  pending = {} /\ NextExpected = NumChunks
<1>1. /\ NextExpected \in Nat /\ NextExpected <= next_read /\ next_read = NumChunks
      /\ NumChunks \in Nat /\ pending \subseteq Nat
  BY ConsumedBound, DrainedFrames, FrameTypes, SizesAssumption
     DEF FramesInv, ThreadsInv, PlaceInv
<1>2. NextExpected >= next_read
  BY <1>1, DrainedFrames DEF TurnInv
<1>3. \A i \in pending : i < next_read /\ i >= NextExpected
  BY DEF FramesInv, PlaceInv, PendingInv, Unconsumed, Opened
<1> QED
  BY <1>1, <1>2, <1>3

\* The other threads leave the consumer's state alone.
LEMMA OthersLeaveConsumer ==
    ASSUME TypedInv, [Next]_vars
    PROVE  \/ Consumer
           \/ UNCHANGED <<consumer_vars, archive_vars>> /\ pc'["consumer"] = pc["consumer"]
<1> USE ThreadNames DEF TypedInv, TypeOK, Goto
<1>1. ASSUME NEW w \in Workers, Worker(w)
      PROVE  UNCHANGED <<consumer_vars, archive_vars>> /\ pc'["consumer"] = pc["consumer"]
  BY <1>1 DEF Worker, WorkerCheck, WorkerOpen, WorkerDrained, WorkerPush, WorkerCloseDecrypt,
     WorkerClosePlain, RecordException, StoreFailed
<1>2. CASE Reader \/ JoinWorkers
  BY <1>2 DEF Reader, ReaderRead, ReaderPush, ReaderClose, JoinWorkers, RecordException,
     StoreFailed
<1>3. CASE UNCHANGED vars
  BY <1>3 DEF vars
<1> QED
  BY <1>1, <1>2, <1>3 DEF Next, Terminated

\* The bytes counted are those of the frames consumed.
LEMMA BytesStep == TypedInv /\ PlaceInv /\ BytesInv /\ [Next]_vars => BytesInv'
<1> SUFFICES ASSUME TypedInv, PlaceInv, BytesInv, [Next]_vars PROVE BytesInv'
  OBVIOUS
<1>1. CASE UNCHANGED <<consumer_vars, archive_vars>> /\ pc'["consumer"] = pc["consumer"]
  BY <1>1 DEF BytesInv, FirstBytes, NextExpected, consumer_vars, archive_vars
<1>2. CASE \/ ConsumerPop \/ ConsumerEnd \/ ConsumerFinish \/ ConsumerClose \/ RunReturn
           \/ RecordException("consumer") \/ StoreFailed("consumer")
  <2>1. UNCHANGED <<total, consumed, final_len>>
    BY <1>2 DEF ConsumerPop, ConsumerEnd, ConsumerFinish, ConsumerClose, RunReturn,
       RecordException, StoreFailed, consumer_vars, archive_vars
  <2>2. pc'["consumer"] \in {"pop", "consume", "finish"} =>
            pc["consumer"] \in {"pop", "consume", "finish"}
    BY <1>2, ThreadNames DEF ConsumerPop, ConsumerEnd, ConsumerFinish, ConsumerClose, RunReturn,
       RecordException, StoreFailed, Goto, TypedInv, TypeOK
  <2> QED
    BY <2>1, <2>2 DEF BytesInv, FirstBytes, NextExpected
<1>3. CASE ConsumerConsume
  <2>1. UNCHANGED final_len /\ pc["consumer"] = "consume"
    BY <1>3 DEF ConsumerConsume, archive_vars
  <2>2. CASE UNCHANGED <<consumed, total>>
    BY <2>1, <2>2 DEF BytesInv, FirstBytes, NextExpected
  <2>3. CASE pc'["consumer"] = "record"
    BY <2>3 DEF BytesInv
  <2>4. ASSUME NEW i \in pending, i = NextExpected, total' = total + PlainLen(i),
               consumed' = Append(consumed, i)
        PROVE  BytesInv'
    <3>1. /\ i \in Nat /\ i < NumChunks /\ NumChunks \in Nat /\ ChunkSize \in Nat
          /\ final_len \in Nat /\ consumed \in Seq(Nat)
      BY FrameTypes, ConsumedBound, SizesAssumption
         DEF TypedInv, TypeOK, PlaceInv, PendingInv, Unconsumed, Opened
    <3>2. Len(consumed') = i + 1
      BY <2>4, <3>1 DEF NextExpected
    <3>3. total = i * ChunkSize
      BY <2>1, <2>4, <3>1 DEF BytesInv, FirstBytes
    <3>4. (i + 1) * ChunkSize = i * ChunkSize + ChunkSize /\ i * ChunkSize \in Nat
      BY <3>1
    <3>5. CASE i = NumChunks - 1
      <4>1. total' = (NumChunks - 1) * ChunkSize + final_len
        BY <2>4, <3>3, <3>5 DEF PlainLen
      <4>2. Len(consumed') = NumChunks
        BY <3>1, <3>2, <3>5
      <4> QED
        BY <2>1, <4>1, <4>2 DEF BytesInv, FirstBytes, NextExpected
    <3>6. CASE i # NumChunks - 1
      <4>1. total' = (i + 1) * ChunkSize
        BY <2>4, <3>3, <3>4, <3>6 DEF PlainLen
      <4>2. Len(consumed') = i + 1 /\ i + 1 # NumChunks
        BY <3>1, <3>2, <3>6
      <4> QED
        BY <2>1, <4>1, <4>2 DEF BytesInv, FirstBytes, NextExpected
    <3> QED
      BY <3>5, <3>6
  <2>5. pc \in [Threads -> {"read", "push", "close", "quit", "stopped", "check", "pop",
                           "record", "flag", "close_decrypt", "close_plain", "join",
                           "consume", "finish", "join_all", "done", "returned", "threw"}]
    BY DEF TypedInv, TypeOK
  <2>6. \/ UNCHANGED <<consumed, total>> \/ pc'["consumer"] = "record"
        \/ \E i \in pending : /\ i = NextExpected /\ total' = total + PlainLen(i)
                              /\ consumed' = Append(consumed, i)
    BY <1>3, <2>5, ThreadNames DEF ConsumerConsume, Ready, Goto
  <2> QED
    BY <2>2, <2>3, <2>4, <2>6
<1> QED
  BY <1>1, <1>2, <1>3, OthersLeaveConsumer DEF Consumer

\* The consumer looks for its next frame before it waits again.
LEMMA TurnStep == TypedInv /\ TurnInv /\ [Next]_vars => TurnInv'
<1> SUFFICES ASSUME TypedInv, TurnInv, [Next]_vars PROVE TurnInv'
  OBVIOUS
<1>1. CASE UNCHANGED <<consumer_vars, archive_vars>> /\ pc'["consumer"] = pc["consumer"]
  BY <1>1 DEF TurnInv, NextExpected, consumer_vars
<1>2. CASE \/ ConsumerPop \/ ConsumerEnd \/ ConsumerFinish \/ ConsumerClose \/ RunReturn
           \/ RecordException("consumer") \/ StoreFailed("consumer")
  <2>1. pc'["consumer"] # "pop"
    BY <1>2, ThreadNames DEF ConsumerPop, ConsumerEnd, ConsumerFinish, ConsumerClose, RunReturn,
       RecordException, StoreFailed, Goto, TypedInv, TypeOK
  <2> QED
    BY <2>1 DEF TurnInv
<1>3. CASE ConsumerConsume
  BY <1>3, ThreadNames DEF ConsumerConsume, Ready, TurnInv, NextExpected, Goto, TypedInv, TypeOK
<1> QED
  BY <1>1, <1>2, <1>3, OthersLeaveConsumer DEF Consumer

\* It goes on to finish() only when everything has settled, and then nothing
\* moves any more.
LEMMA FinishStep == PipelineInv /\ [Next]_vars => FinishInv'
<1> SUFFICES ASSUME PipelineInv, [Next]_vars PROVE FinishInv'
  OBVIOUS
<1>0. TypedInv /\ RecordInv /\ CloseInv /\ FinishInv /\ OutcomeInv
  BY DEF PipelineInv, FramesInv, ThreadsInv, ConsumerInv
<1>1. CASE ConsumerEnd /\ pc'["consumer"] = "finish"
  <2>1. /\ pc["consumer"] = "pop" /\ Drained
        /\ PaddedSize # 0 => total = PaddedSize
    BY <1>0, <1>1, ThreadNames DEF ConsumerEnd, Goto, Drained, TypedInv, TypeOK
  <2>2. \A t \in Threads : pc[t] # "flag"
    BY <2>1, DrainedFrames DEF Threads, PipelineInv
  <2>3. ~first_exception
    BY <1>0, <2>1, <2>2 DEF RecordInv, Drained
  <2>4. NextExpected = NumChunks /\ total = FirstBytes(NextExpected)
    BY <2>1, DrainedMap DEF PipelineInv, ConsumerInv, BytesInv
  <2>5. Settled
    BY <2>1, <2>3, <2>4, DrainedFrames DEF Settled, Drained, PipelineInv
  <2> QED
    BY <1>0, <1>1, <2>5, ThreadNames DEF ConsumerEnd, Goto, FinishInv, Settled, NextExpected,
       FirstBytes, TypedInv, TypeOK, failure_vars, consumer_vars, archive_vars
<1>2. CASE pc["consumer"] = "finish" \/ promoted
  <2>1. /\ Settled /\ pc["consumer"] \in {"finish", "join_all", "returned"}
        /\ \A w \in Workers : pc[w] = "done"
    BY <1>0, <1>2 DEF FinishInv, OutcomeInv, CloseInv, Settled
  <2>2. CASE ConsumerFinish \/ RunReturn \/ UNCHANGED vars
    <3>1. UNCHANGED <<consumed, final_len, first_exception, failed>>
      BY <2>2 DEF ConsumerFinish, RunReturn, vars, consumer_vars, archive_vars, failure_vars
    <3>2. pc'["reader"] = pc["reader"] /\ pc'["joiner"] = pc["joiner"]
      BY <1>0, <2>2, ThreadNames DEF ConsumerFinish, RunReturn, vars, Goto, TypedInv, TypeOK
    <3> QED
      BY <2>1, <3>1, <3>2 DEF FinishInv, Settled, NextExpected, FirstBytes
  <2> QED
    BY <2>1, <2>2 DEF Settled, Next, Reader, Worker, Consumer, Terminated, ReaderRead, ReaderPush,
       ReaderClose, WorkerCheck, WorkerOpen, WorkerDrained, WorkerPush, WorkerCloseDecrypt,
       WorkerClosePlain, JoinWorkers, ConsumerPop, ConsumerConsume, ConsumerEnd, ConsumerClose,
       RecordException, StoreFailed
<1>3. CASE ~(pc["consumer"] = "finish" \/ promoted) /\ ~(ConsumerEnd /\ pc'["consumer"] = "finish")
  <2>1. CASE UNCHANGED <<consumer_vars, archive_vars>> /\ pc'["consumer"] = pc["consumer"]
    BY <1>3, <2>1 DEF FinishInv, consumer_vars
  <2>2. CASE Consumer
    BY <1>0, <1>3, <2>2, ThreadNames DEF Consumer, ConsumerPop, ConsumerConsume, ConsumerEnd,
       ConsumerFinish, ConsumerClose, RunReturn, RecordException, StoreFailed, Goto, FinishInv,
       TypedInv, TypeOK, consumer_vars
  <2> QED
    BY <1>0, <2>1, <2>2, OthersLeaveConsumer
<1> QED
  BY <1>1, <1>2, <1>3

\* run() throws or returns according to what was promoted.
LEMMA OutcomeStep ==
    TypedInv /\ RecordInv /\ FinishInv /\ OutcomeInv /\ [Next]_vars => OutcomeInv'
<1> SUFFICES ASSUME TypedInv, RecordInv, FinishInv, OutcomeInv, [Next]_vars PROVE OutcomeInv'
  OBVIOUS
<1> USE ThreadNames DEF TypedInv, TypeOK, ControlOK, RecordInv, FinishInv, Settled, OutcomeInv,
        Goto, consumer_vars, failure_vars
<1>1. CASE ReaderRead
  BY <1>1 DEF ReaderRead
<1>2. CASE ReaderPush
  BY <1>2 DEF ReaderPush
<1>3. CASE ReaderClose
  BY <1>3 DEF ReaderClose
<1>4. ASSUME NEW w \in Workers, WorkerCheck(w) PROVE OutcomeInv'
  BY <1>4 DEF WorkerCheck
<1>5. ASSUME NEW w \in Workers, WorkerOpen(w) PROVE OutcomeInv'
  BY <1>5 DEF WorkerOpen, Authentic
<1>6. ASSUME NEW w \in Workers, WorkerDrained(w) PROVE OutcomeInv'
  BY <1>6 DEF WorkerDrained
<1>7. ASSUME NEW w \in Workers, WorkerPush(w) PROVE OutcomeInv'
  BY <1>7 DEF WorkerPush
<1>8. ASSUME NEW w \in Workers, WorkerCloseDecrypt(w) PROVE OutcomeInv'
  BY <1>8 DEF WorkerCloseDecrypt
<1>9. ASSUME NEW w \in Workers, WorkerClosePlain(w) PROVE OutcomeInv'
  BY <1>9 DEF WorkerClosePlain
<1>10. CASE JoinWorkers
  BY <1>10 DEF JoinWorkers
<1>11. CASE ConsumerPop
  BY <1>11 DEF ConsumerPop
<1>12. CASE ConsumerConsume
  BY <1>12 DEF ConsumerConsume, Ready
<1>13. CASE ConsumerEnd
  BY <1>13 DEF ConsumerEnd
<1>14. CASE ConsumerFinish
  BY <1>14 DEF ConsumerFinish
<1>15. CASE ConsumerClose
  BY <1>15 DEF ConsumerClose
<1>16. CASE RunReturn
  BY <1>16 DEF RunReturn
<1>17. ASSUME NEW t \in Threads, RecordException(t) PROVE OutcomeInv'
  BY <1>17 DEF RecordException
<1>18. ASSUME NEW t \in Threads, StoreFailed(t) PROVE OutcomeInv'
  BY <1>18 DEF StoreFailed
<1>19. CASE UNCHANGED vars
  BY <1>19 DEF vars, archive_vars, queue_vars, consumer_vars, failure_vars
<1> QED
  BY <1>1, <1>2, <1>3, <1>4, <1>5, <1>6, <1>7, <1>8, <1>9, <1>10, <1>11,
     <1>12, <1>13, <1>14, <1>15, <1>16, <1>17, <1>18, <1>19, ThreadNames
     DEF Next, Reader, Worker, Consumer, Terminated

----------------------------------------------------------------------------
(* The invariant of the pipeline, and what follows from it. *)

\* It holds initially.
LEMMA PipelineInit == Init => PipelineInv
<1> SUFFICES ASSUME Init PROVE PipelineInv
  OBVIOUS
<1> USE ThreadNames DEF Init
<1>1. RecordInv
  BY DEF RecordInv
<1>2. CloseInv
  BY DEF CloseInv
<1>3. CompleteInv
  BY DEF CompleteInv
<1>4. BytesInv
  BY SizesAssumption DEF BytesInv, FirstBytes, NextExpected
<1>5. TurnInv /\ FinishInv /\ OutcomeInv
  BY DEF TurnInv, FinishInv, OutcomeInv
<1> QED
  BY <1>1, <1>2, <1>3, <1>4, <1>5, TypeInit, PlaceInit
     DEF PipelineInv, FramesInv, ThreadsInv, ConsumerInv

\* The whole invariant is inductive: no frame is ever in two places, none is
\* lost before a failure, and the consumer ends knowing what it needs to know.
THEOREM PipelineInvariant == Spec => []PipelineInv
<1>1. PipelineInv /\ [Next]_vars => PipelineInv'
  <2> SUFFICES ASSUME PipelineInv, [Next]_vars PROVE PipelineInv'
    OBVIOUS
  <2>1. ThreadsInv'
    BY ControlStep, TypeStep, RecordStep, CloseStep
       DEF PipelineInv, FramesInv, ThreadsInv, TypedInv
  <2>2. PlaceInv' /\ CompleteInv'
    BY PlaceStep, CompleteStep DEF PipelineInv, FramesInv, ThreadsInv
  <2>3. ConsumerInv'
    BY BytesStep, TurnStep, FinishStep, OutcomeStep
       DEF PipelineInv, FramesInv, ThreadsInv, ConsumerInv
  <2> QED
    BY <2>1, <2>2, <2>3 DEF PipelineInv, FramesInv
<1> QED
  BY <1>1, PipelineInit, PTL DEF Spec

\* The archive reader is fed verified plaintext only, in order and without a
\* gap (ordered_plaintext_consumer_main), whichever frames are forged.
THEOREM ConsumerSeesAuthenticPrefix == Spec => []ConsumesAuthenticPrefix
<1>1. PipelineInv => ConsumesAuthenticPrefix
  BY DEF PipelineInv, FramesInv, PlaceInv, ConsumedInv, ConsumesAuthenticPrefix
<1> QED
  BY <1>1, PipelineInvariant, PTL

\* The internal errors of ordered_plaintext_consumer_main cannot happen.
THEOREM InternalErrorsImpossible == Spec => []NoInternalError
<1>1. PipelineInv => NoInternalError
  <2> SUFFICES ASSUME PipelineInv PROVE NoInternalError
    OBVIOUS
  <2>1. \A i \in 1..Len(plaintext_queue) :
          /\ plaintext_queue[i] >= NextExpected
          /\ plaintext_queue[i] \notin pending
          /\ \A k \in 1..(i - 1) : plaintext_queue[k] # plaintext_queue[i]
    <3>1. Len(plaintext_queue) \in Nat
      BY FrameTypes DEF PipelineInv, FramesInv, ThreadsInv
    <3> QED
      BY <3>1 DEF PipelineInv, FramesInv, PlaceInv, PlaintextInv, Unconsumed
  <2>2. pc["consumer"] = "pop" /\ plaintext_queue = << >> /\ plaintext_closed /\ ~failed
            => pending = {}
    BY DrainedMap DEF PipelineInv, ConsumerInv, Drained
  <2> QED
    BY <2>1, <2>2 DEF NoInternalError
<1> QED
  BY <1>1, PipelineInvariant, PTL

\* ArchiveReader::finish() promotes a tree only from an archive whose every
\* frame verified and was parsed, of the announced length, with no failure
\* recorded or to come; and run() returns normally exactly then.
THEOREM PromotedIsAuthentic == Spec => []PromoteOnlyAuthentic
<1>1. PipelineInv => PromoteOnlyAuthentic
  <2> SUFFICES ASSUME PipelineInv PROVE PromoteOnlyAuthentic
    OBVIOUS
  <2>1. Ended => (pc["consumer"] = "returned" <=> promoted)
    BY DEF PipelineInv, ConsumerInv, OutcomeInv, Ended
  <2>2. ASSUME promoted
        PROVE  /\ forged = {} /\ Len(consumed) = NumChunks
               /\ PaddedSize # 0 => (NumChunks - 1) * ChunkSize + final_len = PaddedSize
               /\ ~first_exception
               /\ \A w \in Workers : pc[w] = "done"
    <3>1. Settled
      BY <2>2 DEF PipelineInv, ConsumerInv, FinishInv
    <3>2. \A w \in Workers : pc[w] = "done"
      BY <3>1 DEF Settled, PipelineInv, FramesInv, ThreadsInv, CloseInv
    <3>3. Len(consumed) = NumChunks
      BY <3>1 DEF Settled, NextExpected
    <3>4. ASSUME NEW i \in forged PROVE FALSE
      <4>1. i \in 0..(NumChunks - 1) /\ NumChunks \in Nat
        BY SizesAssumption DEF PipelineInv, FramesInv, ThreadsInv, TypedInv, TypeOK
      <4>2. i + 1 \in 1..Len(consumed) /\ (i + 1) - 1 = i
        BY <3>3, <4>1
      <4> QED
        BY <4>2 DEF PipelineInv, FramesInv, PlaceInv, ConsumedInv
    <3> QED
      BY <3>1, <3>2, <3>3, <3>4 DEF Settled, FirstBytes
  <2> QED
    BY <2>1, <2>2 DEF PromoteOnlyAuthentic
<1> QED
  BY <1>1, PipelineInvariant, PTL

----------------------------------------------------------------------------
\* Every step of the threads is a step of the ordered stream or none.
LEMMA StreamStep == PipelineInv /\ [Next]_vars => [Stream!Next]_Stream!svars
<1> SUFFICES ASSUME PipelineInv, [Next]_vars PROVE Stream!Next \/ UNCHANGED Stream!svars
  OBVIOUS
<1>0. TypedInv /\ PlaceInv /\ FinishInv /\ OutcomeInv
  BY DEF PipelineInv, FramesInv, ThreadsInv, ConsumerInv
<1> USE <1>0, ThreadNames
<1> USE DEF TypedInv, TypeOK, ControlOK, FinishInv, OutcomeInv, Goto, Stream!svars, Stream!Next,
        archive_vars, queue_vars, consumer_vars, failure_vars
<1>1. CASE ReaderRead
  <2>1. ~promoted /\ pc["consumer"] # "threw"
    BY <1>1 DEF ReaderRead, Settled
  <2> QED
    BY <1>1, <2>1 DEF ReaderRead, Stream!Complete
<1>2. CASE ReaderPush
  <2>1. ~promoted /\ pc["consumer"] # "threw"
    BY <1>2 DEF ReaderPush, Settled
  <2> QED
    BY <1>2, <2>1 DEF ReaderPush, Stream!Emit
<1>3. CASE ReaderClose
  BY <1>3 DEF ReaderClose
<1>4. ASSUME NEW w \in Workers, WorkerCheck(w) PROVE Stream!Next \/ UNCHANGED Stream!svars
  BY <1>4 DEF WorkerCheck
<1>5. ASSUME NEW w \in Workers, WorkerOpen(w) PROVE Stream!Next \/ UNCHANGED Stream!svars
  BY <1>5 DEF WorkerOpen, Authentic
<1>6. ASSUME NEW w \in Workers, WorkerDrained(w) PROVE Stream!Next \/ UNCHANGED Stream!svars
  BY <1>6 DEF WorkerDrained
<1>7. ASSUME NEW w \in Workers, WorkerPush(w) PROVE Stream!Next \/ UNCHANGED Stream!svars
  BY <1>7 DEF WorkerPush
<1>8. ASSUME NEW w \in Workers, WorkerCloseDecrypt(w) PROVE Stream!Next \/ UNCHANGED Stream!svars
  BY <1>8 DEF WorkerCloseDecrypt
<1>9. ASSUME NEW w \in Workers, WorkerClosePlain(w) PROVE Stream!Next \/ UNCHANGED Stream!svars
  BY <1>9 DEF WorkerClosePlain
<1>10. CASE JoinWorkers
  BY <1>10 DEF JoinWorkers
<1>11. CASE ConsumerPop
  BY <1>11 DEF ConsumerPop
<1>12. CASE ConsumerConsume
  <2>1. ~promoted
    BY <1>12 DEF ConsumerConsume
  <2>2. \A i \in pending : i = NextExpected => NextExpected < next_read
    BY DEF PlaceInv, PendingInv, Unconsumed, Opened
  <2>3. CASE UNCHANGED consumed
    BY <1>12, <2>3 DEF ConsumerConsume
  <2>4. ASSUME NEW i \in pending, i = NextExpected, consumed' = Append(consumed, i), pc' = pc
        PROVE  Stream!Deliver
    BY <1>12, <2>1, <2>2, <2>4 DEF ConsumerConsume, Stream!Deliver, NextExpected
  <2> QED
    BY <1>12, <2>3, <2>4 DEF ConsumerConsume, Ready
<1>13. CASE ConsumerEnd
  BY <1>13 DEF ConsumerEnd
<1>14. CASE ConsumerFinish
  <2>1. Settled /\ ~promoted
    BY <1>14 DEF ConsumerFinish
  <2> QED
    BY <1>14, <2>1 DEF ConsumerFinish, Stream!Commit, Settled, NextExpected
<1>15. CASE ConsumerClose
  BY <1>15 DEF ConsumerClose
<1>16. CASE RunReturn
  <2>1. CASE promoted
    BY <1>16, <2>1 DEF RunReturn
  <2>2. CASE ~promoted
    BY <1>16, <2>2 DEF RunReturn, Stream!Abandon
  <2> QED
    BY <2>1, <2>2
<1>17. ASSUME NEW t \in Threads, RecordException(t) PROVE Stream!Next \/ UNCHANGED Stream!svars
  BY <1>17 DEF RecordException
<1>18. ASSUME NEW t \in Threads, StoreFailed(t) PROVE Stream!Next \/ UNCHANGED Stream!svars
  BY <1>18 DEF StoreFailed
<1>19. CASE UNCHANGED vars
  BY <1>19 DEF vars, archive_vars, queue_vars, consumer_vars, failure_vars
<1> QED
  BY <1>1, <1>2, <1>3, <1>4, <1>5, <1>6, <1>7, <1>8, <1>9, <1>10, <1>11,
     <1>12, <1>13, <1>14, <1>15, <1>16, <1>17, <1>18, <1>19, ThreadNames
     DEF Next, Reader, Worker, Consumer, Terminated

\* DecryptPipeline::run() is an all-or-nothing ordered stream: the tree is
\* promoted only when every frame of a complete archive has been parsed.
THEOREM PipelineImplementsStream == Spec => ImplementsStream
<1>1. Init => Stream!Init
  BY ThreadNames DEF Init, Stream!Init
<1> QED
  BY <1>1, StreamStep, PipelineInvariant, PTL DEF Spec, ImplementsStream, Stream!Spec
=============================================================================
