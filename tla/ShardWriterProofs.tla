------------------------- MODULE ShardWriterProofs -------------------------
(***************************************************************************)
(* Proofs about ShardWriter, for any chunk and shard size, any number of   *)
(* frames planned ahead, any failures and any power loss.                  *)
(***************************************************************************)
EXTENDS ShardWriter, TLAPS, SequenceTheorems

ShardHeader == [shard_index : Nat, first_global_chunk_index : Nat, shard_chunk_count : Nat,
                shard_payload_len : Nat, header_mac : {<< >>}]
Frame == [shard_index : Nat, offset : Nat, index : Nat, len : Nat, final : BOOLEAN,
          aad : GlobalHeader \X ShardHeader, intact : BOOLEAN]

\* The options core_encrypt() passes are within the limits it has checked,
\* and the pipeline runs only once the shards are planned.
OptionsOK ==
    /\ params.count \in Nat \ {0} /\ params.last \in 1..ChunkSize
    /\ FrameSize(ChunkSize) <= params.shard_size
    /\ wpc \notin {"plan"} \cup Lost => plans # << >>

\* Frames in flight are frames of at most ChunkSize bytes.
FlightOK ==
    /\ in_flight \in Seq(Frame)
    /\ \A k \in 1..Len(in_flight) : in_flight[k].len <= ChunkSize

\* Each label of the writer knows whether the stream is open and whether a
\* frame is at hand.
LabelsOK ==
    /\ wpc \in {"open", "write", "roll"} => in_flight # << >>
    /\ wpc \in {"open", "plan", "rewrite", "flush", "success", "abort", "aborted"}
           => stream = "closed"
    /\ wpc \in {"write", "roll", "full", "finish"} => stream # "closed"
    /\ wpc = "flush" => at < Len(finalized)
    /\ at <= Len(finalized)

\* Until the clean-up or a power loss, every file the writer names exists.
FilesOK ==
    wpc \notin {"abort", "aborted"} \cup Lost =>
        /\ current.path # << >> => CurrentPath \in DOMAIN dir
        /\ \A k \in 1..Len(finalized) : Path(k) \in DOMAIN dir

TypeInv == TypeOK /\ OptionsOK /\ FlightOK /\ LabelsOK /\ FilesOK

----------------------------------------------------------------------------
\* What is assumed of the constants.
USE DEF FrameSize, MaxPayload

\* A chunk of a layout has at most ChunkSize bytes.
LEMMA ChunkLenBounded ==
    ASSUME NEW l \in [count : Nat \ {0}, last : 1..ChunkSize], NEW i \in Nat
    PROVE  ChunkLen(l, i) \in 0..ChunkSize
  BY FormatAssumption DEF ChunkLen

\* The layouts of the model are layouts.
LEMMA LayoutsTyped == \A l \in Layouts : l \in [count : Nat \ {0}, last : 1..ChunkSize]
  BY WriterAssumption

\* The ends of a sequence that is not empty.
LEMMA SeqEnds ==
    ASSUME NEW S, NEW q \in Seq(S), q # << >>
    PROVE  /\ Len(q) \in Nat \ {0} /\ q[Len(q)] \in S /\ q[1] \in S
           /\ Head(q) = q[1] /\ Tail(q) \in Seq(S) /\ Len(Tail(q)) = Len(q) - 1
           /\ \A k \in 1..(Len(q) - 1) : Tail(q)[k] = q[k + 1]
<1>1. Len(q) \in Nat \ {0}
  BY EmptySeq
<1> QED
  BY <1>1

\* The initial state satisfies the typing invariant.
LEMMA TypeInit == Init => TypeInv
<1> SUFFICES ASSUME Init PROVE TypeInv
  OBVIOUS
<1>1. PICK l \in Layouts, s \in ShardSizes, m \in Modes :
         params = [count |-> l.count, last |-> l.last, shard_size |-> s, mode |-> m]
  BY DEF Init
<1>2. /\ l.count \in Nat \ {0} /\ l.last \in 1..ChunkSize
      /\ s \in Nat /\ FrameSize(ChunkSize) <= s
  BY LayoutsTyped, WriterAssumption
<1>3. OptionsOK
  BY <1>1, <1>2 DEF OptionsOK, Init, Lost
<1>4. PICK old \in SUBSET Names : /\ dir = [n \in old |-> Foreign]
                                  /\ synced = old /\ linked = old
  BY DEF Init
<1>5. params \in [count : Nat, last : Nat, shard_size : Nat, mode : Modes]
  BY <1>1, <1>2, FormatAssumption
<1>6. TypeOK
  BY <1>4, <1>5 DEF TypeOK, Init, Labels, NoShard
<1>7. FlightOK /\ LabelsOK /\ FilesOK
  BY DEF NoShard,  FlightOK, LabelsOK, FilesOK, CurrentPath, Path, Lost, Init
<1> QED
  BY <1>3, <1>6, <1>7 DEF TypeInv

\* Planning keeps the typing invariant.
LEMMA TypePlan == TypeInv /\ (PlanShardChunk \/ StartPipeline) => TypeInv'
<1> SUFFICES ASSUME TypeInv, PlanShardChunk \/ StartPipeline PROVE TypeInv'
  OBVIOUS
<1>1. CASE PlanShardChunk
  <2> DEFINE len == ChunkLen(Announced, PlannedChunks)
  <2>1. /\ plans \in Seq([first : Nat, count : Nat, payload : Nat])
        /\ Announced \in [count : Nat \ {0}, last : 1..ChunkSize]
    BY DEF TypeInv, TypeOK, OptionsOK, Announced
  <2>2. PlannedChunks \in Nat
    <3>1. CASE plans = << >>
      BY <3>1 DEF PlannedChunks
    <3>2. CASE plans # << >>
      <4>1. plans[Len(plans)] \in [first : Nat, count : Nat, payload : Nat]
        BY <2>1, <3>2, SeqEnds
      <4> QED
        BY <3>2, <4>1 DEF PlannedChunks
    <3> QED
      BY <3>1, <3>2
  <2>3. len \in 0..ChunkSize /\ FrameOverhead + len \in Nat
    <3>1. len \in 0..ChunkSize
      BY <2>1, <2>2, ChunkLenBounded
    <3> HIDE DEF len
    <3> QED
      BY <3>1, FormatAssumption
  <2> HIDE DEF len
  <2>4. plans' \in Seq([first : Nat, count : Nat, payload : Nat])
    <3>1. CASE plans = << >> \/ StartsShard(plans[Len(plans)].payload, len)
      <4>1. plans' = Append(plans, [first |-> PlannedChunks, count |-> 1,
                                    payload |-> FrameSize(len)])
        BY <1>1, <3>1 DEF PlanShardChunk, len
      <4> QED
        BY <2>1, <2>2, <2>3, <4>1
    <3>2. CASE ~(plans = << >> \/ StartsShard(plans[Len(plans)].payload, len))
      <4>1. plans' = [plans EXCEPT ![Len(plans)] = [first |-> @.first, count |-> @.count + 1,
                                                    payload |-> @.payload + FrameSize(len)]]
        BY <1>1, <3>2 DEF PlanShardChunk, len
      <4>2. plans[Len(plans)] \in [first : Nat, count : Nat, payload : Nat]
        BY <2>1, <3>2, SeqEnds
      <4> DEFINE p == plans[Len(plans)]
                 e == [first |-> p.first, count |-> p.count + 1,
                       payload |-> p.payload + FrameSize(len)]
      <4>3. e \in [first : Nat, count : Nat, payload : Nat]
        BY <2>3, <4>2
      <4>4. plans' = [plans EXCEPT ![Len(plans)] = e]
        BY <4>1
      <4> HIDE DEF e
      <4> QED
        BY <2>1, <3>2, <4>3, <4>4, ExceptSeq, SeqEnds
    <3> QED
      BY <3>1, <3>2
  <2> QED
    BY <1>1, <2>4 DEF PlanShardChunk, TypeInv, TypeOK, OptionsOK, FlightOK, LabelsOK, FilesOK, CurrentPath, Path, Lost,
       disk_vars, writer_vars
<1>2. CASE StartPipeline
  <2>1. plans # << >>
    BY <1>2 DEF StartPipeline, PlannedChunks, TypeInv, OptionsOK
  <2> QED
    BY <1>2, <2>1 DEF StartPipeline, TypeInv, TypeOK, OptionsOK, FlightOK, LabelsOK, FilesOK, CurrentPath, Path, Lost, Labels,
       disk_vars, writer_vars, plan_vars
<1> QED
  BY <1>1, <1>2

\* So does the planning of a frame.
LEMMA TypePlanFrame == TypeInv /\ PlanFrame => TypeInv'
<1> SUFFICES ASSUME TypeInv, PlanFrame PROVE TypeInv'
  OBVIOUS
<1> DEFINE len == ChunkLen(actual, planned.next)
           rolls == StartsShard(planned.offset, len)
           shard == IF rolls THEN planned.shard + 1 ELSE planned.shard
           offset == IF rolls THEN 0 ELSE planned.offset
           fr == MakeFrame(shard, offset, planned.next, len, IsFinal(actual, planned.next),
                           ShardHash(shard))
<1>1. planned.shard \in Nat /\ planned.offset \in Nat /\ planned.next \in Nat
  BY DEF TypeInv, TypeOK
<1>2. len \in 0..ChunkSize
  BY <1>1, LayoutsTyped, ChunkLenBounded DEF TypeInv, TypeOK
<1> HIDE DEF len
<1>3. len \in Nat /\ FrameSize(len) \in Nat /\ len <= ChunkSize
  BY <1>2, FormatAssumption
<1>4. shard \in Nat /\ offset \in Nat
  BY <1>1
<1>5. ShardHash(shard) \in GlobalHeader \X ShardHeader
  <2>1. plans \in Seq([first : Nat, count : Nat, payload : Nat]) /\ plans # << >>
    BY DEF TypeInv, TypeOK, OptionsOK, PlanFrame, Running, Lost
  <2>2. Len(plans) \in Nat \ {0}
    BY <2>1, SeqEnds
  <2> HIDE DEF shard, offset, rolls
  <2> DEFINE p == plans[IF shard < Len(plans) THEN shard + 1 ELSE 1]
             k == IF shard < Len(plans) THEN shard ELSE 0
             sh == MakeShardHeader(k, p.first, p.count, p.payload, << >>)
  <2>3. p \in [first : Nat, count : Nat, payload : Nat] /\ k \in Nat
    <3> DEFINE j == IF shard < Len(plans) THEN shard + 1 ELSE 1
    <3>1. j \in 1..Len(plans) /\ k \in Nat
      BY <1>4, <2>2
    <3> HIDE DEF j
    <3>2. plans[j] \in [first : Nat, count : Nat, payload : Nat]
      BY <2>1, <3>1, ElementOfSeq
    <3> QED
      BY <3>1, <3>2 DEF j
  <2>4. sh \in ShardHeader /\ Canonical(sh) = sh
    BY <2>3 DEF MakeShardHeader, ShardHeader, Canonical
  <2>5. Announcement \in GlobalHeader
    <3>1. params.count \in Nat \ {0} /\ params.last \in Nat
      BY FormatAssumption DEF TypeInv, OptionsOK
    <3>2. (params.count - 1) * ChunkSize + params.last \in Nat
      BY <3>1, FormatAssumption
    <3> QED
      BY <2>2, <3>1, <3>2 DEF Announcement, GlobalHeaderOf, GlobalHeader
  <2>6. ShardHash(shard) = <<Announcement, sh>>
    BY <2>4 DEF ShardHash, PublicHeaderHash
  <2> QED
    BY <2>4, <2>5, <2>6
<1>6. fr \in Frame /\ fr.len = len
  BY <1>1, <1>3, <1>4, <1>5 DEF MakeFrame, Frame, IsFinal
<1>7. in_flight' = Append(in_flight, fr)
  BY DEF PlanFrame, len
<1>8. planned' = [shard |-> shard, offset |-> offset + FrameSize(len), next |-> planned.next + 1]
  BY DEF PlanFrame, len
<1>9. planned' \in [shard : Nat, offset : Nat, next : Nat]
  BY <1>1, <1>3, <1>4, <1>8
<1> HIDE DEF fr, shard, offset
<1>10. FlightOK'
  BY <1>3, <1>6, <1>7 DEF FlightOK, TypeInv
<1>11. in_flight' # << >>
  BY <1>6, <1>7 DEF FlightOK, TypeInv
<1> QED
  BY <1>9, <1>10, <1>11 DEF PlanFrame, TypeInv, TypeOK, OptionsOK, LabelsOK, FilesOK, CurrentPath, Path,
     plan_vars, writer_vars, disk_vars

\* The steps of write_chunk_frame() keep the typing invariant.
LEMMA TypeTake == TypeInv /\ TakeFrame => TypeInv'
  BY DEF TypeInv, TypeOK, OptionsOK, FlightOK, LabelsOK, FilesOK, CurrentPath, Path, Lost, TakeFrame, WriteLabel, Labels,
     plan_vars, writer_vars, disk_vars

\* open_next_shard() keeps it: the file it names is the file it creates.
LEMMA TypeOpen == TypeInv /\ OpenShard => TypeInv'
<1> SUFFICES ASSUME TypeInv, OpenShard PROVE TypeInv'
  OBVIOUS
<1> USE DEF TypeInv, OptionsOK, FlightOK, LabelsOK, FilesOK, CurrentPath, Path, Lost, Labels, plan_vars, disk_vars
<1>1. ASSUME NEW n \in Names, FreshName(n),
             current' = [path |-> <<n>>, index |-> next.shard, first |-> next.chunk,
                         count |-> 0, payload |-> 0],
             next' = [next EXCEPT !.shard = @ + 1], stream' = "open",
             created' = created \cup {n}, synced' = synced \ {n}, linked' = linked \ {n},
             wpc' \in {"write", "throw"}, NEW f, dir' = Put(dir, n, f)
      PROVE  TypeInv'
  <2>1. DOMAIN dir' = DOMAIN dir \cup {n}
    BY <1>1 DEF Put
  <2>2. current' \in Shard /\ current'.path = <<n>> /\ <<n>>[1] = n
    BY <1>1 DEF TypeOK, Shard
  <2>3. next' \in [shard : Nat, chunk : Nat, final_len : Nat]
    <3>1. next \in [shard : Nat, chunk : Nat, final_len : Nat]
      BY DEF TypeOK
    <3> QED
      BY <1>1, <3>1
  <2> QED
    BY <1>1, <2>1, <2>2, <2>3 DEF TypeOK, OpenShard
<1>2. CASE "open" \in Faults /\ wpc' = "throw" /\ UNCHANGED <<current, next, stream, disk_vars>>
  BY <1>2 DEF TypeOK, OpenShard
<1> QED
  BY <1>1, <1>2 DEF OpenShard

\* What TypeInv says of the shard that is open.
LEMMA OpenStream ==
    ASSUME TypeInv, stream # "closed"
    PROVE  /\ current \in Shard /\ CurrentPath \in created
           /\ current.index \in Nat /\ current.count \in Nat /\ current.payload \in Nat
  BY DEF TypeInv, TypeOK, NoShard, Shard, CurrentPath

\* The frame the writer has taken is the oldest in flight.
LEMMA HeadFrame ==
    ASSUME TypeInv, in_flight # << >>
    PROVE  /\ Head(in_flight) = in_flight[1] /\ Head(in_flight) \in Frame
           /\ Head(in_flight).len \in 0..ChunkSize
           /\ Len(in_flight) \in Nat \ {0} /\ Len(Tail(in_flight)) = Len(in_flight) - 1
           /\ Tail(in_flight) \in Seq(Frame)
           /\ \A k \in 1..Len(Tail(in_flight)) : Tail(in_flight)[k] = in_flight[k + 1]
<1>1. in_flight \in Seq(Frame) /\ \A k \in 1..Len(in_flight) : in_flight[k].len <= ChunkSize
  BY DEF TypeInv, FlightOK
<1>2. Head(in_flight) = in_flight[1] /\ in_flight[1] \in Frame /\ Len(in_flight) \in Nat \ {0}
  BY <1>1, SeqEnds
<1>3. in_flight[1].len \in Nat /\ in_flight[1].len <= ChunkSize
  BY <1>1, <1>2 DEF Frame
<1> QED
  BY <1>1, <1>2, <1>3, SeqEnds, FormatAssumption

\* A shard with one more frame.
LEMMA ShardGrows ==
    ASSUME NEW c \in Shard, NEW s \in Nat, NEW d,
           d = [c EXCEPT !.count = @ + 1, !.payload = @ + s]
    PROVE  /\ d \in Shard /\ d.path = c.path /\ d.index = c.index
           /\ d.payload = c.payload + s
<1>1. c.count + 1 \in Nat /\ c.payload + s \in Nat
  BY DEF Shard
<1> QED
  BY <1>1, Zenon DEF Shard

\* The counters after it.
LEMMA CountersGrow ==
    ASSUME NEW c \in [shard : Nat, chunk : Nat, final_len : Nat], NEW l \in Nat
    PROVE  [c EXCEPT !.chunk = @ + 1, !.final_len = l]
               \in [shard : Nat, chunk : Nat, final_len : Nat]
<1>1. c.chunk + 1 \in Nat
  OBVIOUS
<1> QED
  BY <1>1, Zenon

\* Writing a frame keeps the typing invariant.
LEMMA TypeWrite == TypeInv /\ WriteFrame => TypeInv'
<1> SUFFICES ASSUME TypeInv, WriteFrame PROVE TypeInv'
  OBVIOUS
<1> DEFINE fr == Head(in_flight)
<1> USE DEF TypeInv, OptionsOK, LabelsOK, FilesOK, CurrentPath, Path, Lost, Labels, plan_vars
<1>0. in_flight # << >> /\ stream # "closed" /\ wpc = "write"
  BY DEF WriteFrame
<1>1. fr \in Frame /\ fr.len \in 0..ChunkSize /\ FrameSize(fr.len) \in Nat
  BY <1>0, HeadFrame, FormatAssumption
<1>2. current \in Shard
  BY <1>0, OpenStream
<1>3. CASE FrameWritten(fr)
  <2>1. FlightOK'
    <3>1. in_flight' = Tail(in_flight)
      BY <1>3 DEF FrameWritten
    <3>2. \A k \in 1..Len(Tail(in_flight)) : k + 1 \in 1..Len(in_flight)
      BY <1>0, HeadFrame
    <3> QED
      BY <1>0, <3>1, <3>2, HeadFrame DEF FlightOK
  <2>2. current' \in Shard /\ current'.path = current.path
    <3>1. current' = [current EXCEPT !.count = @ + 1, !.payload = @ + FrameSize(fr.len)]
      BY <1>3 DEF FrameWritten
    <3>2. FrameSize(fr.len) \in Nat
      BY <1>1
    <3> HIDE DEF fr
    <3> QED
      BY <1>2, <3>1, <3>2, ShardGrows
  <2>3. next' \in [shard : Nat, chunk : Nat, final_len : Nat]
    <3>1. next \in [shard : Nat, chunk : Nat, final_len : Nat]
      BY DEF TypeOK
    <3>2. fr.len \in Nat
      BY <1>1
    <3>3. next' = [next EXCEPT !.chunk = @ + 1, !.final_len = IF fr.final THEN fr.len ELSE @]
      BY <1>3 DEF FrameWritten
    <3> HIDE DEF fr
    <3>4. (IF fr.final THEN fr.len ELSE next.final_len) \in Nat
      BY <3>1, <3>2
    <3> QED
      BY <3>1, <3>3, <3>4, CountersGrow
  <2>4. DOMAIN dir' = DOMAIN dir
    BY <1>3 DEF FrameWritten
  <2>5. wpc' \in {"full", "ready"} /\ stream' \in {"open", "dirty"}
    BY <1>3 DEF FrameWritten
  <2> QED
    BY <1>0, <2>1, <2>2, <2>3, <2>4, <2>5 DEF TypeOK, WriteFrame
<1>4. CASE wpc' = "throw" /\ DOMAIN dir' = DOMAIN dir
           /\ UNCHANGED <<current, next, stream, in_flight>>
  BY <1>0, <1>4 DEF TypeOK, WriteFrame, FlightOK
<1>5. FrameTorn(fr) => DOMAIN dir' = DOMAIN dir
  BY DEF FrameTorn
<1> QED
  BY <1>3, <1>4, <1>5 DEF WriteFrame, FrameTorn

\* So does the end of a shard.
LEMMA TypeClose == TypeInv /\ CloseShard => TypeInv'
<1> SUFFICES ASSUME TypeInv, CloseShard PROVE TypeInv'
  OBVIOUS
<1> USE DEF TypeInv, OptionsOK, LabelsOK, FilesOK, CurrentPath, Path, Lost, Labels, plan_vars
<1>1. current \in Shard /\ current.path # << >> /\ CurrentPath \in created
  BY OpenStream DEF CloseShard, TypeOK
<1>2. DOMAIN dir' = DOMAIN dir
  BY DEF CloseShard
<1>3. FlightOK'
  BY DEF CloseShard, FlightOK
<1>4. CASE finalized' = Append(finalized, current) /\ current' = NoShard /\ wpc' = AfterClose
  <2>1. finalized \in Seq(Shard) /\ at \in Nat
    BY DEF TypeOK
  <2>2. /\ finalized' \in Seq(Shard) /\ Len(finalized') = Len(finalized) + 1
        /\ \A k \in 1..Len(finalized') :
              finalized'[k] = IF k = Len(finalized) + 1 THEN current ELSE finalized[k]
    BY <1>1, <1>4, <2>1
  <2>3. \A k \in 1..Len(finalized') : /\ finalized'[k].path[1] \in created
                                     /\ finalized'[k].path[1] \in DOMAIN dir
    <3>1. \A k \in 1..Len(finalized) : /\ finalized[k].path[1] \in created
                                      /\ finalized[k].path[1] \in DOMAIN dir
      BY DEF CloseShard, TypeOK
    <3>2. CurrentPath \in DOMAIN dir
      BY <1>1 DEF CloseShard
    <3> SUFFICES ASSUME NEW k \in 1..Len(finalized')
                 PROVE  finalized'[k].path[1] \in created /\ finalized'[k].path[1] \in DOMAIN dir
      OBVIOUS
    <3>3. CASE k = Len(finalized) + 1
      BY <1>1, <2>2, <3>2, <3>3
    <3>4. CASE k # Len(finalized) + 1
      <4>1. k \in 1..Len(finalized)
        BY <2>1, <2>2, <3>4
      <4> QED
        BY <2>2, <3>1, <3>4, <4>1
    <3> QED
      BY <3>3, <3>4
  <2>4. wpc' \in {"open", "ready", "rewrite"} /\ (wpc' = "open" => wpc = "roll")
    BY <1>4 DEF AfterClose, CloseShard
  <2>5. at <= Len(finalized')
    BY <2>1, <2>2
  <2>6. current'.path = << >>
    BY <1>4 DEF NoShard
  <2> QED
    BY <1>2, <1>3, <1>4, <2>2, <2>3, <2>4, <2>5, <2>6 DEF TypeOK, CloseShard
<1>5. CASE wpc' = "throw" /\ UNCHANGED <<finalized, current>>
  BY <1>2, <1>3, <1>5 DEF TypeOK, CloseShard
<1> QED
  BY <1>4, <1>5 DEF CloseShard

\* So do the steps of finish().
LEMMA TypeFinish == TypeInv /\ Finish => TypeInv'
<1> SUFFICES ASSUME TypeInv, Finish PROVE TypeInv'
  OBVIOUS
<1> USE DEF TypeInv, OptionsOK, FlightOK, LabelsOK, FilesOK, CurrentPath, Path, Lost, Labels,
        plan_vars, writer_vars, disk_vars
<1>1. CASE CallFinish
  BY <1>1 DEF TypeOK, CallFinish
<1>2. CASE RewriteShard
  <2>1. DOMAIN dir' = DOMAIN dir
    BY <1>2 DEF RewriteShard
  <2>2. wpc' \in {"flush", "throw"} /\ at' = at /\ finalized' = finalized
    BY <1>2 DEF RewriteShard
  <2> QED
    BY <1>2, <2>1, <2>2 DEF TypeOK, RewriteShard
<1>3. CASE FlushShard
  <2>1. at \in Nat /\ Len(finalized) \in Nat /\ at < Len(finalized)
    BY <1>3 DEF FlushShard, TypeOK
  <2>2. Path(at + 1) \in DOMAIN dir
    BY <1>3, <2>1 DEF FlushShard
  <2>3. synced' \subseteq DOMAIN dir
    BY <1>3, <2>2 DEF FlushShard, Flush, TypeOK
  <2>4. at' \in Nat /\ at' <= Len(finalized)
    BY <1>3, <2>1 DEF FlushShard
  <2>5. wpc' \in {"rewrite", "throw"}
    BY <1>3 DEF FlushShard
  <2> QED
    BY <1>3, <2>3, <2>4, <2>5 DEF TypeOK, FlushShard
<1>4. CASE FlushDir
  <2>1. linked' \subseteq DOMAIN dir
    BY <1>4 DEF FlushDir, Flush, TypeOK
  <2>2. wpc' \in {"success", "throw"}
    BY <1>4 DEF FlushDir
  <2> QED
    BY <1>4, <2>1, <2>2 DEF TypeOK, FlushDir
<1> QED
  BY <1>1, <1>2, <1>3, <1>4 DEF Finish

\* So do a failure and the clean-up after it.
LEMMA TypeFail == TypeInv /\ Fail => TypeInv'
<1> SUFFICES ASSUME TypeInv, Fail PROVE TypeInv'
  OBVIOUS
<1> USE DEF TypeInv, OptionsOK, FlightOK, LabelsOK, FilesOK, CurrentPath, Path, Lost, Labels,
        plan_vars, writer_vars, disk_vars
<1>1. CASE PipelineFails
  BY <1>1 DEF TypeOK, PipelineFails
<1>2. ASSUME NEW n, Removes(n)
      PROVE  /\ DOMAIN dir' \subseteq Names
             /\ synced' \subseteq DOMAIN dir' /\ linked' \subseteq DOMAIN dir'
  BY <1>2 DEF Removes, Without, TypeOK
<1>3. UNCHANGED <<dir, synced, linked>> =>
             /\ DOMAIN dir' \subseteq Names
             /\ synced' \subseteq DOMAIN dir' /\ linked' \subseteq DOMAIN dir'
  BY DEF TypeOK
<1>4. CASE AbortCurrent
  <2>1. /\ DOMAIN dir' \subseteq Names
        /\ synced' \subseteq DOMAIN dir' /\ linked' \subseteq DOMAIN dir'
    BY <1>2, <1>3, <1>4 DEF AbortCurrent
  <2>2. Len(finalized) \in Nat
    BY DEF TypeOK
  <2>3. current' = NoShard /\ NoShard.path = << >> /\ wpc' = "abort" /\ at' = 0
    BY <1>4 DEF AbortCurrent, NoShard
  <2>4. 0 \in Nat /\ 0 <= Len(finalized)
    BY <2>2
  <2> QED
    BY <1>4, <2>1, <2>3, <2>4 DEF TypeOK, AbortCurrent
<1>5. CASE AbortShard
  <2>1. /\ DOMAIN dir' \subseteq Names
        /\ synced' \subseteq DOMAIN dir' /\ linked' \subseteq DOMAIN dir'
    BY <1>2, <1>3, <1>5 DEF AbortShard
  <2>2. Len(finalized) \in Nat /\ at \in Nat
    BY DEF TypeOK
  <2>3. /\ finalized' \in Seq(Shard) /\ at' \in Nat /\ at' <= Len(finalized')
        /\ \A k \in 1..Len(finalized') : finalized'[k].path[1] \in created
    <3>1. CASE at < Len(finalized)
      BY <1>5, <2>2, <3>1 DEF AbortShard, TypeOK
    <3>2. CASE ~(at < Len(finalized))
      BY <1>5, <3>2 DEF AbortShard
    <3> QED
      BY <3>1, <3>2
  <2>4. wpc' \in {"abort", "aborted"}
    BY <1>5 DEF AbortShard
  <2> QED
    BY <1>5, <2>1, <2>3, <2>4 DEF TypeOK, AbortShard
<1> QED
  BY <1>1, <1>4, <1>5 DEF Fail

\* So does a power loss.
LEMMA TypePower == TypeInv /\ Power => TypeInv'
<1> SUFFICES ASSUME TypeInv, Power PROVE TypeInv'
  OBVIOUS
<1> USE DEF TypeInv, OptionsOK, FlightOK, LabelsOK, FilesOK, CurrentPath, Path, Lost, Labels,
        plan_vars, writer_vars, disk_vars
<1>1. CASE PowerLoss
  <2>1. wpc' \in Lost
    BY <1>1 DEF PowerLoss
  <2> QED
    BY <1>1, <2>1 DEF PowerLoss, TypeOK
<1>2. ASSUME NEW n \in Names, SettleFile(n) PROVE TypeInv'
  <2>1. /\ DOMAIN dir' \subseteq Names
        /\ synced' \subseteq DOMAIN dir' /\ linked' \subseteq DOMAIN dir'
    <3>0. DOMAIN dir \subseteq Names /\ synced \subseteq DOMAIN dir /\ linked \subseteq DOMAIN dir
          /\ n \in DOMAIN dir
      BY <1>2 DEF SettleFile, TypeOK
    <3>1. CASE /\ \E f \in Remains(dir[n]) : dir' = [dir EXCEPT ![n] = f]
               /\ synced' = synced \cup {n} /\ UNCHANGED linked
      <4>1. DOMAIN dir' = DOMAIN dir
        BY <3>1
      <4> QED
        BY <3>0, <3>1, <4>1
    <3>2. CASE n \notin linked /\ dir' = Without(dir, n) /\ synced' = synced \ {n}
               /\ UNCHANGED linked
      <4>1. DOMAIN dir' = DOMAIN dir \ {n}
        BY <3>2 DEF Without
      <4> QED
        BY <3>0, <3>2, <4>1
    <3>3. CASE linked' = linked \cup {n} /\ UNCHANGED <<dir, synced>>
      BY <3>0, <3>3
    <3> QED
      BY <1>2, <3>1, <3>2, <3>3 DEF SettleFile
  <2> QED
    BY <1>2, <2>1 DEF TypeOK, SettleFile
<1> QED
  BY <1>1, <1>2 DEF Power

\* The typing invariant is inductive.
LEMMA TypeStep == TypeInv /\ [Next]_vars => TypeInv'
<1> SUFFICES ASSUME TypeInv, [Next]_vars PROVE TypeInv'
  OBVIOUS
<1>1. CASE UNCHANGED vars
  BY <1>1 DEF TypeInv, TypeOK, OptionsOK, FlightOK, LabelsOK, FilesOK, CurrentPath, Path,
     vars, plan_vars, writer_vars, disk_vars
<1> QED
  BY <1>1, TypePlan, TypePlanFrame, TypeTake, TypeOpen, TypeWrite, TypeClose, TypeFinish,
     TypeFail, TypePower DEF Next, Plan, Write, Terminated

\* In every state of the writer, its clean-up and the disk after a power loss,
\* TypeOK holds, whatever fails.
THEOREM TypeCorrect == Spec => []TypeOK
<1>1. TypeInv => TypeOK
  BY DEF TypeInv
<1> QED
  BY <1>1, TypeInit, TypeStep, PTL DEF Spec

----------------------------------------------------------------------------
\* The planner and the writer.  plan_chunk_frame() puts a frame fr behind
\* offset bytes of a shard, or at the start of the next one.
Follows(shard, offset, fr) ==
    IF StartsShard(offset, fr.len)
    THEN fr.shard_index = shard + 1 /\ fr.offset = 0
    ELSE fr.shard_index = shard /\ fr.offset = offset

\* Frames in flight follow each other, and the planner stands behind the last.
Chained ==
    /\ \A k \in 1..(Len(in_flight) - 1) :
          Follows(in_flight[k].shard_index, in_flight[k].offset + FrameSize(in_flight[k].len),
                  in_flight[k + 1])
    /\ in_flight # << >> =>
          LET last == in_flight[Len(in_flight)]
          IN  planned.shard = last.shard_index /\ planned.offset = last.offset + FrameSize(last.len)

\* The first of them follows what the writer has written.  Between two shards
\* the writer has forgotten the last payload, but it only closes a shard when
\* the next frame is known not to fit.
Joined ==
    /\ stream # "closed" => next.shard = current.index + 1
    /\ in_flight # << >> /\ stream # "closed" =>
          Follows(current.index, current.payload, in_flight[1])
    /\ in_flight # << >> /\ stream = "closed" =>
          in_flight[1].shard_index = next.shard /\ in_flight[1].offset = 0
    /\ in_flight = << >> /\ stream # "closed" =>
          planned.shard = current.index /\ planned.offset = current.payload
    /\ in_flight = << >> /\ stream = "closed" =>
          \/ next.shard = 0 /\ planned.shard = 0 /\ planned.offset = 0
          \/ next.shard = planned.shard + 1 /\ planned.offset >= MaxPayload

\* Each label records the outcome of its comparison.
Compared ==
    /\ wpc = "roll" => StartsShard(current.payload, Head(in_flight).len)
    /\ wpc = "write" => ~StartsShard(current.payload, Head(in_flight).len)
    /\ wpc = "full" => current.payload >= MaxPayload

Placed == Running \/ wpc = "plan" => Chained /\ Joined /\ Compared

\* The facts about numbers the comparison rests on: a frame fits into an empty
\* shard, and nothing fits into a full one.
LEMMA Fits ==
    ASSUME TypeInv, NEW len \in 0..ChunkSize
    PROVE  /\ ~StartsShard(0, len)
           /\ \A o \in Nat : o >= MaxPayload => StartsShard(o, len)
           /\ MaxPayload \in Nat /\ FrameSize(len) \in Nat
<1>1. params.shard_size \in Nat /\ FrameSize(ChunkSize) <= params.shard_size
  BY DEF TypeInv, TypeOK, OptionsOK
<1> QED
  BY <1>1, FormatAssumption DEF StartsShard

\* The frame the planner adds follows the planner's position.
LEMMA PlannedFrame ==
    ASSUME TypeInv, PlanFrame
    PROVE  \E fr : /\ in_flight' = Append(in_flight, fr)
                   /\ fr.shard_index \in Nat /\ fr.offset \in Nat /\ fr.len \in 0..ChunkSize
                   /\ Follows(planned.shard, planned.offset, fr)
                   /\ planned'.shard = fr.shard_index
                   /\ planned'.offset = fr.offset + FrameSize(fr.len)
<1> DEFINE len == ChunkLen(actual, planned.next)
           rolls == StartsShard(planned.offset, len)
           shard == IF rolls THEN planned.shard + 1 ELSE planned.shard
           offset == IF rolls THEN 0 ELSE planned.offset
           fr == MakeFrame(shard, offset, planned.next, len, IsFinal(actual, planned.next),
                           ShardHash(shard))
<1>1. planned.shard \in Nat /\ planned.offset \in Nat /\ planned.next \in Nat
  BY DEF TypeInv, TypeOK
<1>2. len \in 0..ChunkSize
  BY <1>1, LayoutsTyped, ChunkLenBounded DEF TypeInv, TypeOK
<1>3. in_flight' = Append(in_flight, fr)
  BY DEF PlanFrame
<1>4. planned' = [shard |-> shard, offset |-> offset + FrameSize(len), next |-> planned.next + 1]
  BY DEF PlanFrame
<1>5. fr.shard_index = shard /\ fr.offset = offset /\ fr.len = len
  BY DEF MakeFrame
<1>6. planned'.shard = shard /\ planned'.offset = offset + FrameSize(len)
  BY <1>4
<1>7. shard \in Nat /\ offset \in Nat
  BY <1>1
<1> HIDE DEF fr, len
<1>8. Follows(planned.shard, planned.offset, fr)
  BY <1>5 DEF Follows
<1> QED
  BY <1>2, <1>3, <1>5, <1>6, <1>7, <1>8

\* Planning a frame keeps planner and writer together.
LEMMA PlacedPlanFrame == TypeInv /\ Placed /\ PlanFrame => Placed'
<1> SUFFICES ASSUME TypeInv, Placed, PlanFrame PROVE Chained' /\ Joined' /\ Compared'
  BY DEF Placed
<1>1. PICK fr : /\ in_flight' = Append(in_flight, fr)
                /\ fr.shard_index \in Nat /\ fr.offset \in Nat /\ fr.len \in 0..ChunkSize
                /\ Follows(planned.shard, planned.offset, fr)
                /\ planned'.shard = fr.shard_index
                /\ planned'.offset = fr.offset + FrameSize(fr.len)
  BY PlannedFrame
<1>2. Chained /\ Joined /\ Compared
  BY DEF Placed, PlanFrame
<1>3. UNCHANGED <<wpc, params, current, stream, next>>
  BY DEF PlanFrame, plan_vars, writer_vars
<1>4. /\ in_flight \in Seq(Frame) /\ Len(in_flight) \in Nat
      /\ Len(in_flight') = Len(in_flight) + 1 /\ in_flight'[Len(in_flight) + 1] = fr
      /\ \A k \in 1..Len(in_flight) : in_flight'[k] = in_flight[k]
      /\ in_flight' # << >>
      /\ in_flight = << >> <=> Len(in_flight) = 0
  BY <1>1, EmptySeq DEF TypeInv, FlightOK
<1>5. MaxPayload' = MaxPayload /\ \A s, o, f : Follows(s, o, f)' <=> Follows(s, o, f)
  BY <1>3 DEF Follows, StartsShard
<1>6. Chained'
  <2>1. ASSUME NEW k \in 1..Len(in_flight)
        PROVE  Follows(in_flight'[k].shard_index,
                       in_flight'[k].offset + FrameSize(in_flight'[k].len), in_flight'[k + 1])
    <3>1. CASE k = Len(in_flight)
      BY <1>1, <1>2, <1>4, <3>1 DEF Chained
    <3>2. CASE k # Len(in_flight)
      BY <1>2, <1>4, <3>2 DEF Chained
    <3> QED
      BY <3>1, <3>2
  <2>2. \A k \in 1..(Len(in_flight') - 1) : k \in 1..Len(in_flight)
    BY <1>4
  <2> QED
    BY <1>1, <1>3, <1>4, <2>1, <2>2 DEF Chained, Follows, StartsShard
<1>7. Joined'
  <2>1. CASE in_flight = << >>
    <3>1. in_flight'[1] = fr
      BY <1>4, <2>1
    <3>2. CASE stream # "closed"
      BY <1>1, <1>2, <1>3, <1>4, <2>1, <3>1, <3>2 DEF Joined, Follows, StartsShard
    <3>3. CASE stream = "closed"
      <4>1. fr.shard_index = next.shard /\ fr.offset = 0
        <5>1. planned.offset \in Nat /\ planned.shard \in Nat
          BY DEF TypeInv, TypeOK
        <5> QED
          BY <1>1, <1>2, <2>1, <3>3, <5>1, Fits DEF Joined, Follows
      <4> QED
        BY <1>3, <1>4, <3>1, <3>3, <4>1 DEF Joined
    <3> QED
      BY <3>2, <3>3
  <2>2. CASE in_flight # << >>
    <3>1. in_flight'[1] = in_flight[1]
      BY <1>4, <2>2
    <3> QED
      BY <1>2, <1>3, <1>4, <2>2, <3>1 DEF Joined, Follows, StartsShard
  <2> QED
    BY <2>1, <2>2
<1>8. Compared'
  <2>1. wpc \in {"roll", "write"} => Head(in_flight') = Head(in_flight)
    BY <1>4 DEF TypeInv, LabelsOK
  <2> QED
    BY <1>2, <1>3, <2>1 DEF Compared, StartsShard
<1> QED
  BY <1>6, <1>7, <1>8

\* Taking a frame: the label is the comparison.
LEMMA PlacedTake == TypeInv /\ Placed /\ TakeFrame => Placed'
<1> SUFFICES ASSUME TypeInv, Placed, TakeFrame PROVE Chained' /\ Joined' /\ Compared'
  BY DEF Placed
<1>1. Chained /\ Joined
  BY DEF Placed, TakeFrame, Running
<1>2. UNCHANGED <<params, planned, in_flight, current, stream, next>>
  BY DEF TakeFrame, plan_vars, writer_vars
<1>3. Chained' /\ Joined'
  BY <1>1, <1>2 DEF Chained, Joined, Follows, StartsShard
<1>4. Compared'
  BY <1>2 DEF Compared, TakeFrame, WriteLabel, StartsShard
<1> QED
  BY <1>3, <1>4

\* Opening a shard: the frame at hand was planned for its start.
LEMMA PlacedOpen == TypeInv /\ Placed /\ OpenShard => Placed'
<1> SUFFICES ASSUME TypeInv, Placed, OpenShard, (Running \/ wpc = "plan")'
             PROVE  Chained' /\ Joined' /\ Compared'
  BY DEF Placed
<1>1. Chained /\ Joined /\ wpc = "open" /\ stream = "closed" /\ in_flight # << >>
  BY DEF Placed, OpenShard, Running, TypeInv, LabelsOK
<1>2. UNCHANGED <<params, planned, in_flight>>
  BY DEF OpenShard, plan_vars
<1>3. wpc' = "write" /\ stream' = "open" /\ next' = [next EXCEPT !.shard = @ + 1]
      /\ \E n \in Names : current' = [path |-> <<n>>, index |-> next.shard,
                                       first |-> next.chunk, count |-> 0, payload |-> 0]
  BY DEF OpenShard, Running
<1>4. next.shard \in Nat /\ next'.shard = next.shard + 1
  <2>1. next \in [shard : Nat, chunk : Nat, final_len : Nat]
    BY DEF TypeInv, TypeOK
  <2> QED
    BY <1>3, <2>1
<1>5. current'.index = next.shard /\ current'.payload = 0
  BY <1>3
<1>6. Head(in_flight) = in_flight[1] /\ in_flight[1].len \in 0..ChunkSize
  BY <1>1, HeadFrame
<1>7. ~StartsShard(0, in_flight[1].len)
  BY <1>6, Fits
<1>8. Chained'
  BY <1>1, <1>2 DEF Chained, Follows, StartsShard
<1>9. Joined'
  BY <1>1, <1>2, <1>3, <1>4, <1>5, <1>7 DEF Joined, Follows, StartsShard
<1>10. Compared'
  BY <1>2, <1>3, <1>5, <1>6, <1>7 DEF Compared, StartsShard
<1> QED
  BY <1>8, <1>9, <1>10

\* The frame about to be written was planned for the place the writer is at.
LEMMA PlacedAgrees == TypeInv /\ Placed => PlannerAgrees
<1> SUFFICES ASSUME TypeInv, Placed, wpc = "write"
             PROVE  /\ Head(in_flight).shard_index = current.index
                    /\ Head(in_flight).offset = current.payload
  BY DEF PlannerAgrees
<1>1. in_flight # << >> /\ stream # "closed" /\ Joined /\ Compared
  BY DEF TypeInv, LabelsOK, Placed, Running
<1>2. Head(in_flight) = in_flight[1]
  BY <1>1, HeadFrame
<1> QED
  BY <1>1, <1>2 DEF Joined, Compared, Follows

\* Writing it moves both ends of the argument by one frame.
LEMMA PlacedWrite == TypeInv /\ Placed /\ WriteFrame => Placed'
<1> SUFFICES ASSUME TypeInv, Placed, WriteFrame, (Running \/ wpc = "plan")'
             PROVE  Chained' /\ Joined' /\ Compared'
  BY DEF Placed
<1> DEFINE fr == Head(in_flight)
<1>1. Chained /\ Joined /\ wpc = "write" /\ stream # "closed" /\ in_flight # << >>
  BY DEF Placed, WriteFrame, Running, TypeInv, LabelsOK
<1>2. FrameWritten(fr)
  BY DEF WriteFrame, FrameTorn, Running
<1>3. fr.shard_index = current.index /\ fr.offset = current.payload
  BY <1>1, PlacedAgrees DEF PlannerAgrees
<1>4. /\ fr = in_flight[1] /\ fr.len \in 0..ChunkSize
      /\ Len(in_flight) \in Nat \ {0} /\ Len(in_flight') = Len(in_flight) - 1
      /\ in_flight' \in Seq(Frame)
      /\ \A k \in 1..Len(in_flight') : in_flight'[k] = in_flight[k + 1]
  BY <1>1, <1>2, HeadFrame DEF FrameWritten
<1>5. current'.index = current.index /\ current'.payload = current.payload + FrameSize(fr.len)
  <2>1. current \in Shard /\ FrameSize(fr.len) \in Nat
    BY <1>1, <1>4, OpenStream, Fits
  <2>2. current' = [current EXCEPT !.count = @ + 1, !.payload = @ + FrameSize(fr.len)]
    BY <1>2 DEF FrameWritten
  <2> HIDE DEF fr
  <2> QED
    BY <2>1, <2>2, ShardGrows
<1>6. next'.shard = next.shard
  <2>1. next \in [shard : Nat, chunk : Nat, final_len : Nat]
    BY DEF TypeInv, TypeOK
  <2>2. next' = [next EXCEPT !.chunk = @ + 1, !.final_len = IF fr.final THEN fr.len ELSE @]
    BY <1>2 DEF FrameWritten
  <2> HIDE DEF fr
  <2> QED
    BY <2>1, <2>2, Zenon
<1>7. UNCHANGED <<params, planned>> /\ stream' # "closed" /\ wpc' \in {"full", "ready"}
  BY <1>2 DEF WriteFrame, plan_vars, FrameWritten
<1> HIDE DEF fr
<1>8. Chained'
  <2>1. ASSUME NEW k \in 1..(Len(in_flight') - 1)
        PROVE  Follows(in_flight'[k].shard_index,
                       in_flight'[k].offset + FrameSize(in_flight'[k].len), in_flight'[k + 1])
    <3>1. k + 1 \in 1..(Len(in_flight) - 1) /\ k \in 1..Len(in_flight')
          /\ k + 1 \in 1..Len(in_flight')
      BY <1>4
    <3> QED
      BY <1>1, <1>4, <3>1 DEF Chained
  <2>2. in_flight' # << >> => in_flight'[Len(in_flight')] = in_flight[Len(in_flight)]
    BY <1>4, EmptySeq
  <2> QED
    BY <1>1, <1>7, <2>1, <2>2 DEF Chained, Follows, StartsShard
<1>9. Joined'
  <2>1. CASE in_flight' = << >>
    <3>1. Len(in_flight) = 1
      BY <1>4, <2>1
    <3> QED
      BY <1>1, <1>3, <1>4, <1>5, <1>6, <1>7, <2>1, <3>1 DEF Chained, Joined
  <2>2. CASE in_flight' # << >>
    <3>1. Len(in_flight') > 0
      BY <1>4, <2>2, EmptySeq
    <3>2. in_flight'[1] = in_flight[2] /\ 1 \in 1..(Len(in_flight) - 1)
      BY <1>4, <3>1
    <3>3. Follows(fr.shard_index, fr.offset + FrameSize(fr.len), in_flight[2])
      BY <1>1, <1>4, <3>2 DEF Chained
    <3>4. Follows(current'.index, current'.payload, in_flight'[1])
      BY <1>3, <1>5, <3>2, <3>3
    <3> QED
      BY <1>1, <1>5, <1>6, <1>7, <2>2, <3>4 DEF Joined, Follows, StartsShard
  <2> QED
    BY <2>1, <2>2
<1>10. Compared'
  BY <1>2, <1>7 DEF Compared, FrameWritten
<1> QED
  BY <1>8, <1>9, <1>10

\* Closing a shard forgets its payload; what is left to know is that the next
\* frame starts the next shard.
LEMMA PlacedClose == TypeInv /\ Placed /\ CloseShard => Placed'
<1> SUFFICES ASSUME TypeInv, Placed, CloseShard, (Running \/ wpc = "plan")'
             PROVE  Chained' /\ Joined' /\ Compared'
  BY DEF Placed
<1>1. wpc \in {"roll", "full"} /\ wpc' = AfterClose
  BY DEF CloseShard, AfterClose, Running
<1>2. Chained /\ Joined /\ Compared /\ stream # "closed"
  BY <1>1 DEF Placed, CloseShard, Running
<1>3. UNCHANGED <<params, planned, in_flight, next>> /\ stream' = "closed"
  BY DEF CloseShard, plan_vars
<1>4. wpc' \in {"open", "ready"}
  BY <1>1 DEF AfterClose
<1>5. current.payload \in Nat /\ current.index \in Nat
  BY <1>2, OpenStream
<1>6. Chained' /\ Compared'
  BY <1>2, <1>3, <1>4 DEF Chained, Compared, Follows, StartsShard
<1>7. CASE in_flight # << >>
  <2>1. Head(in_flight) = in_flight[1] /\ in_flight[1].len \in 0..ChunkSize
    BY <1>7, HeadFrame
  <2>2. StartsShard(current.payload, in_flight[1].len)
    BY <1>1, <1>2, <1>5, <2>1, Fits DEF Compared
  <2>3. in_flight[1].shard_index = next.shard /\ in_flight[1].offset = 0
    BY <1>2, <1>7, <2>2 DEF Joined, Follows
  <2> QED
    BY <1>3, <1>6, <1>7, <2>3 DEF Joined
<1>8. CASE in_flight = << >>
  <2>1. current.payload >= MaxPayload
    BY <1>1, <1>2, <1>8 DEF Compared, TypeInv, LabelsOK
  <2>2. planned.shard = current.index /\ planned.offset = current.payload
        /\ next.shard = current.index + 1
    BY <1>2, <1>8 DEF Joined
  <2> QED
    BY <1>3, <1>6, <1>8, <2>1, <2>2 DEF Joined
<1> QED
  BY <1>7, <1>8

\* The other steps leave the frames and the writer's position alone, or end
\* the writing.
LEMMA PlacedOthers ==
    TypeInv /\ Placed /\ (Plan \/ Finish \/ Fail \/ Power \/ UNCHANGED vars) => Placed'
<1> SUFFICES ASSUME TypeInv, Placed, Plan \/ Finish \/ Fail \/ Power \/ UNCHANGED vars,
                    (Running \/ wpc = "plan")'
             PROVE  Chained' /\ Joined' /\ Compared'
  BY DEF Placed
<1>1. CASE Plan \/ UNCHANGED vars
  <2>1. UNCHANGED <<params, planned, in_flight, current, stream, next>>
    BY <1>1 DEF Plan, PlanShardChunk, StartPipeline, vars, plan_vars, writer_vars
  <2>2. wpc' = wpc \/ (wpc = "plan" /\ wpc' = "ready")
    BY <1>1 DEF Plan, PlanShardChunk, StartPipeline, vars
  <2>3. Chained /\ Joined /\ Compared
    BY <2>2 DEF Placed, Running
  <2> QED
    BY <2>1, <2>2, <2>3 DEF Chained, Joined, Compared, Follows, StartsShard
<1>2. CASE Finish
  BY <1>2 DEF Finish, CallFinish, RewriteShard, FlushShard, FlushDir, Running
<1>3. CASE Fail
  BY <1>3 DEF Fail, PipelineFails, AbortCurrent, AbortShard, Running
<1>4. CASE Power
  BY <1>4 DEF Power, PowerLoss, SettleFile, Running, Lost
<1> QED
  BY <1>1, <1>2, <1>3, <1>4

\* No frame is written at a place it was not planned for: the planner on the
\* producer thread may run any number of frames ahead of the writer, with any
\* chunk and shard sizes, and a short last chunk, and still they agree.
THEOREM PlannerAgreesAlways == Spec => []PlannerAgrees
<1>1. Init => Placed
  <2> SUFFICES ASSUME Init PROVE Placed
    OBVIOUS
  <2>1. Len(in_flight) = 0
    BY DEF Init
  <2> QED
    BY <2>1 DEF Init, Placed, Chained, Joined, Compared
<1>2. TypeInv /\ Placed /\ [Next]_vars => Placed'
  BY PlacedPlanFrame, PlacedTake, PlacedOpen, PlacedWrite, PlacedClose, PlacedOthers
     DEF Next, Write, Terminated
<1> QED
  BY <1>1, <1>2, TypeInit, TypeStep, PlacedAgrees, PTL DEF Spec

----------------------------------------------------------------------------
\* The files of others are on stable storage, and stay what they are.
Kept == DOMAIN dir \ created \subseteq synced \cap linked
Untouched == \A n \in DOMAIN dir \ created : n \in DOMAIN dir' /\ dir'[n] = dir[n]

\* A step that touches at most the file p.
Touches(p) ==
    /\ \A n \in DOMAIN dir \ {p} : n \in DOMAIN dir' /\ dir'[n] = dir[n]
    /\ DOMAIN dir' \subseteq DOMAIN dir \cup {p}
    /\ synced \ {p} \subseteq synced' /\ linked \ {p} \subseteq linked'

\* Touching one's own file leaves the others alone.
LEMMA OwnFile ==
    ASSUME Kept, NEW p, Touches(p),
           (p \in created /\ created' = created)
             \/ (p \notin DOMAIN dir /\ created' = created \cup {p})
    PROVE  Kept' /\ Untouched
  BY DEF Kept, Untouched, Touches

\* So does a step that only flushes.
LEMMA NoFile ==
    ASSUME Kept, UNCHANGED <<dir, created>>, synced \subseteq synced', linked \subseteq linked'
    PROVE  Kept' /\ Untouched
  BY DEF Kept, Untouched

\* Every step of the writer touches at most a file of its own.
LEMMA KeptStep == TypeInv /\ Kept /\ [Next]_vars => Kept' /\ Untouched
<1> SUFFICES ASSUME TypeInv, Kept, [Next]_vars PROVE Kept' /\ Untouched
  OBVIOUS
<1> USE DEF disk_vars
<1>1. CASE Plan \/ PlanFrame \/ TakeFrame \/ CallFinish \/ PipelineFails \/ PowerLoss
           \/ UNCHANGED vars
  BY <1>1, NoFile DEF Plan, PlanShardChunk, StartPipeline, PlanFrame, TakeFrame, CallFinish,
     PipelineFails, PowerLoss, vars
<1>2. CASE OpenShard
  <2>1. ASSUME NEW n \in Names, FreshName(n), created' = created \cup {n},
               synced' = synced \ {n}, linked' = linked \ {n}, NEW f, dir' = Put(dir, n, f)
        PROVE  Kept' /\ Untouched
    <3>1. Touches(n)
      BY <2>1 DEF Touches, Put
    <3> QED
      BY <2>1, <3>1, OwnFile DEF FreshName
  <2> QED
    BY <1>2, <2>1, NoFile DEF OpenShard
<1>3. CASE WriteFrame
  <2>1. CurrentPath \in created
    BY <1>3, OpenStream DEF WriteFrame, TypeInv, LabelsOK
  <2>2. /\ DOMAIN dir' = DOMAIN dir
        /\ \A n \in DOMAIN dir \ {CurrentPath} : dir'[n] = dir[n]
    <3>1. CASE dir' = dir
      BY <3>1
    <3>2. CASE FrameWritten(Head(in_flight))
      BY <3>2 DEF FrameWritten
    <3>3. CASE FrameTorn(Head(in_flight))
      BY <3>3 DEF FrameTorn
    <3> QED
      BY <1>3, <3>1, <3>2, <3>3 DEF WriteFrame
  <2>3. Touches(CurrentPath)
    BY <1>3, <2>2 DEF WriteFrame, Touches
  <2> QED
    BY <1>3, <2>1, <2>3, OwnFile DEF WriteFrame
<1>4. CASE CloseShard
  <2>1. CurrentPath \in created
    BY <1>4, OpenStream DEF CloseShard
  <2>2. /\ DOMAIN dir' = DOMAIN dir
        /\ \A n \in DOMAIN dir \ {CurrentPath} : dir'[n] = dir[n]
    BY <1>4 DEF CloseShard
  <2>3. Touches(CurrentPath)
    BY <1>4, <2>2 DEF CloseShard, Touches
  <2> QED
    BY <1>4, <2>1, <2>3, OwnFile DEF CloseShard
<1>5. at \in Nat /\ Len(finalized) \in Nat
  BY DEF TypeInv, TypeOK
<1>6. at < Len(finalized) => Path(at + 1) \in created
  BY <1>5 DEF TypeInv, TypeOK, Path
<1>7. CASE RewriteShard
  <2>1. /\ DOMAIN dir' = DOMAIN dir
        /\ \A n \in DOMAIN dir \ {Path(at + 1)} : dir'[n] = dir[n]
    BY <1>7 DEF RewriteShard
  <2>2. Touches(Path(at + 1))
    BY <1>7, <2>1 DEF RewriteShard, Touches
  <2> QED
    BY <1>6, <1>7, <2>2, OwnFile DEF RewriteShard
<1>8. CASE FlushShard \/ FlushDir
  <2>1. synced \subseteq synced' /\ linked \subseteq linked' /\ UNCHANGED <<dir, created>>
    BY <1>8 DEF FlushShard, FlushDir, Flush
  <2> QED
    BY <2>1, NoFile
<1>9. ASSUME NEW n \in created, Removes(n), created' = created PROVE Kept' /\ Untouched
  <2>1. Touches(n)
    BY <1>9 DEF Removes, Without, Touches
  <2> QED
    BY <1>9, <2>1, OwnFile
<1>10. CASE AbortCurrent
  <2>1. current.path # << >> => CurrentPath \in created
    BY DEF TypeInv, TypeOK, CurrentPath
  <2> QED
    BY <1>9, <1>10, <2>1, NoFile DEF AbortCurrent
<1>11. CASE AbortShard
  BY <1>6, <1>9, <1>11, NoFile DEF AbortShard
<1>12. ASSUME NEW n \in Names, SettleFile(n) PROVE Kept' /\ Untouched
  <2>1. n \in created
    BY <1>12 DEF SettleFile, Kept
  <2>2. Touches(n)
    BY <1>12 DEF SettleFile, Touches, Without
  <2> QED
    BY <1>12, <2>1, <2>2, OwnFile DEF SettleFile
<1> QED
  BY <1>1, <1>2, <1>3, <1>4, <1>7, <1>8, <1>10, <1>11, <1>12
     DEF Next, Write, Finish, Fail, Power, Terminated

\* A run of encrypt that writes, fails, cleans up or loses power never changes
\* or removes a file that was in the output directory before it.
THEOREM ExistingUntouchedAlways == Spec => ExistingUntouched
<1>1. Init => Kept
  BY DEF Init, Kept
<1>2. Kept /\ TypeInv /\ [Next]_vars =>
         [\A n \in DOMAIN dir \ created : n \in DOMAIN dir' /\ dir'[n] = dir[n]]_vars
  BY KeptStep DEF Untouched
<1> QED
  BY <1>1, <1>2, TypeInit, TypeStep, KeptStep, PTL DEF Spec, ExistingUntouched

----------------------------------------------------------------------------
\* The names the clean-up still has to visit.
ToRemove ==
    {n \in Names : (current.path # << >> /\ n = CurrentPath)
                   \/ \E k \in 1..Len(finalized) : n = Path(k) /\ (wpc = "abort" => k > at)}

\* As long as the machine is up, every file of the run that can be removed is
\* known to the writer, and a shard is forgotten only once it is finalized.
Tracked ==
    wpc \notin Lost =>
        /\ stream = "closed" /\ wpc # "throw" => current.path = << >>
        /\ (created \cap DOMAIN dir) \ Stuck \subseteq (IF wpc = "aborted" THEN {} ELSE ToRemove)

\* Every step keeps track of the files.
LEMMA TrackedStep == TypeInv /\ Tracked /\ [Next]_vars => Tracked'
<1> SUFFICES ASSUME TypeInv, Tracked, [Next]_vars, wpc' \notin Lost PROVE Tracked'
  BY DEF Tracked
<1> USE DEF writer_vars, disk_vars, Lost
<1>1. CASE Plan \/ PlanFrame \/ TakeFrame \/ CallFinish \/ PipelineFails \/ UNCHANGED vars
  <2>1. UNCHANGED <<current, stream, finalized, at, dir, created>>
    BY <1>1 DEF Plan, PlanShardChunk, StartPipeline, PlanFrame, TakeFrame, CallFinish,
       PipelineFails, vars
  <2>2. wpc' = wpc \/ ({wpc, wpc'} \cap ({"throw", "abort", "aborted"} \cup Lost) \subseteq {"throw"}
                       /\ wpc # "throw")
    BY <1>1 DEF Plan, PlanShardChunk, StartPipeline, PlanFrame, TakeFrame, CallFinish,
       PipelineFails, vars, WriteLabel
  <2> QED
    BY <2>1, <2>2 DEF Tracked, ToRemove, CurrentPath, Path
<1>2. CASE OpenShard
  <2>1. current.path = << >> /\ wpc = "open"
    BY <1>2 DEF OpenShard, Tracked, TypeInv, LabelsOK
  <2>2. ASSUME NEW n \in Names, created' = created \cup {n}, current'.path = <<n>>,
               NEW f, dir' = Put(dir, n, f), stream' = "open", wpc' \in {"write", "throw"}
        PROVE  Tracked'
    <3>1. <<n>>[1] = n /\ <<n>> # << >> /\ DOMAIN dir' = DOMAIN dir \cup {n}
      BY <2>2 DEF Put
    <3>2. finalized' = finalized /\ at' = at
      BY <1>2 DEF OpenShard
    <3>3. n \in ToRemove'
      BY <2>2, <3>1 DEF ToRemove, CurrentPath
    <3>4. ToRemove \subseteq ToRemove'
      BY <2>1, <2>2, <3>2 DEF ToRemove, Path
    <3> QED
      BY <2>1, <2>2, <3>1, <3>3, <3>4 DEF Tracked
  <2>3. CASE wpc' = "throw" /\ UNCHANGED <<current, next, stream, disk_vars>>
    BY <1>2, <2>1, <2>3 DEF OpenShard, Tracked, ToRemove, CurrentPath, Path
  <2> QED
    BY <1>2, <2>2, <2>3 DEF OpenShard
<1>3. CASE WriteFrame
  <2>1. wpc = "write" /\ stream # "closed" /\ wpc' \in {"full", "ready", "throw"}
    BY <1>3 DEF WriteFrame, FrameWritten, FrameTorn, TypeInv, LabelsOK
  <2>2. current'.path = current.path /\ DOMAIN dir' = DOMAIN dir
    <3>1. CASE FrameWritten(Head(in_flight))
      <4>1. DOMAIN dir' = DOMAIN dir
        BY <3>1 DEF FrameWritten
      <4>2. current \in Shard /\ FrameSize(Head(in_flight).len) \in Nat
        BY <2>1, OpenStream, HeadFrame, Fits DEF TypeInv, LabelsOK
      <4>3. current' = [current EXCEPT !.count = @ + 1,
                                       !.payload = @ + FrameSize(Head(in_flight).len)]
        BY <3>1 DEF FrameWritten
      <4> QED
        BY <4>1, <4>2, <4>3, ShardGrows
    <3>2. CASE FrameTorn(Head(in_flight))
      BY <3>2 DEF FrameTorn
    <3> QED
      BY <1>3, <3>1, <3>2 DEF WriteFrame
  <2>3. UNCHANGED <<finalized, at, created>> /\ stream' # "closed"
    BY <1>3, <2>1 DEF WriteFrame, FrameWritten, FrameTorn
  <2> QED
    BY <2>1, <2>2, <2>3 DEF Tracked, ToRemove, CurrentPath, Path
<1>4. CASE CloseShard
  <2>1. wpc \in {"roll", "full", "finish"} /\ wpc' \in {"open", "ready", "rewrite", "throw"}
        /\ DOMAIN dir' = DOMAIN dir /\ created' = created /\ at' = at
    BY <1>4 DEF CloseShard, AfterClose
  <2>2. CASE finalized' = Append(finalized, current) /\ current' = NoShard
    <3>1. finalized \in Seq(Shard) /\ current \in Shard /\ current.path # << >>
      BY <1>4, OpenStream DEF CloseShard, TypeInv, TypeOK
    <3>2. /\ Len(finalized) \in Nat /\ Len(finalized') = Len(finalized) + 1
          /\ finalized'[Len(finalized) + 1] = current
          /\ \A k \in 1..Len(finalized) : finalized'[k] = finalized[k]
      BY <2>2, <3>1
    <3>3. ToRemove \subseteq ToRemove'
      <4> SUFFICES ASSUME NEW n \in ToRemove
                   PROVE  \E k \in 1..Len(finalized') : n = finalized'[k].path[1]
        BY <2>1 DEF ToRemove, Path
      <4>1. CASE n = CurrentPath
        BY <3>2, <4>1 DEF CurrentPath
      <4>2. ASSUME NEW k \in 1..Len(finalized), n = Path(k)
            PROVE  \E j \in 1..Len(finalized') : n = finalized'[j].path[1]
        <5>1. k \in 1..Len(finalized') /\ finalized'[k] = finalized[k]
          BY <3>2
        <5> QED
          BY <4>2, <5>1 DEF Path
      <4> QED
        BY <4>1, <4>2 DEF ToRemove
    <3> QED
      BY <2>1, <2>2, <3>3 DEF Tracked, NoShard
  <2>3. CASE wpc' = "throw" /\ UNCHANGED <<finalized, current>>
    BY <2>1, <2>3 DEF Tracked, ToRemove, CurrentPath, Path
  <2> QED
    BY <1>4, <2>2, <2>3 DEF CloseShard
<1>5. CASE RewriteShard \/ FlushShard \/ FlushDir
  <2>1. /\ wpc \in {"rewrite", "flush"} /\ wpc' \in {"rewrite", "flush", "success", "throw"}
        /\ DOMAIN dir' = DOMAIN dir /\ UNCHANGED <<created, current, stream, finalized>>
    BY <1>5 DEF RewriteShard, FlushShard, FlushDir
  <2> QED
    BY <2>1 DEF Tracked, ToRemove, CurrentPath, Path
<1>6. ASSUME NEW n, Removes(n)
      PROVE  DOMAIN dir' \subseteq DOMAIN dir /\ (n \notin Stuck => n \notin DOMAIN dir')
  BY <1>6 DEF Removes, Without
<1>7. at \in Nat /\ Len(finalized) \in Nat
  BY DEF TypeInv, TypeOK
<1>8. CASE AbortCurrent
  <2>1. /\ wpc = "throw" /\ wpc' = "abort" /\ at' = 0 /\ current' = NoShard
        /\ UNCHANGED <<finalized, created>>
    BY <1>8 DEF AbortCurrent
  <2>2. ASSUME NEW n \in (created \cap DOMAIN dir') \ Stuck
        PROVE  n \in ToRemove'
    <3>1. n \in DOMAIN dir /\ ~(current.path # << >> /\ n = CurrentPath)
      BY <1>6, <1>8, <2>2 DEF AbortCurrent
    <3>2. n \in Names /\ \E k \in 1..Len(finalized) : n = Path(k)
      BY <2>1, <2>2, <3>1 DEF Tracked, ToRemove
    <3>3. \A k \in 1..Len(finalized) : k > 0
      BY <1>7
    <3> QED
      BY <2>1, <3>2, <3>3 DEF ToRemove, Path
  <2> QED
    BY <2>1, <2>2 DEF Tracked, NoShard
<1>9. CASE AbortShard
  <2>1. /\ wpc = "abort" /\ stream = "closed" /\ current.path = << >>
        /\ UNCHANGED <<created, current, stream>>
    BY <1>9 DEF AbortShard, TypeInv, LabelsOK, Tracked
  <2>2. CASE at < Len(finalized)
    <3>1. Removes(Path(at + 1)) /\ at' = at + 1 /\ UNCHANGED <<finalized, wpc>>
      BY <1>9, <2>2 DEF AbortShard
    <3>2. ASSUME NEW n \in (created \cap DOMAIN dir') \ Stuck
          PROVE  n \in ToRemove'
      <4>1. n \in DOMAIN dir /\ n # Path(at + 1)
        BY <1>6, <3>1, <3>2
      <4>2. PICK k \in 1..Len(finalized) : n = Path(k) /\ k > at
        BY <2>1, <3>2, <4>1 DEF Tracked, ToRemove
      <4>3. k > at + 1
        BY <1>7, <4>1, <4>2
      <4>4. n \in Names
        BY <2>1, <3>2, <4>1 DEF Tracked, ToRemove
      <4> QED
        BY <3>1, <4>2, <4>3, <4>4 DEF ToRemove, Path
    <3> QED
      BY <2>1, <3>1, <3>2 DEF Tracked
  <2>3. CASE ~(at < Len(finalized))
    <3>1. wpc' = "aborted" /\ UNCHANGED dir
      BY <1>9, <2>3 DEF AbortShard
    <3>2. ToRemove = {}
      BY <1>7, <2>1, <2>3 DEF ToRemove
    <3> QED
      BY <2>1, <3>1, <3>2 DEF Tracked
  <2> QED
    BY <2>2, <2>3
<1>10. CASE Power
  BY <1>10 DEF Power, PowerLoss, SettleFile
<1> QED
  BY <1>1, <1>2, <1>3, <1>4, <1>5, <1>8, <1>9, <1>10
     DEF Next, Write, Finish, Fail, Terminated

\* Wherever a run fails, while the headers of a new shard are written, in the
\* middle of a frame, while shards are finalized or flushed, its clean-up
\* knows every file the run has created.
THEOREM AbortRemovesAllAlways == Spec => []AbortRemovesAll
<1>1. Init => Tracked
  BY DEF Init, Tracked, NoShard, ToRemove
<1>2. Tracked => AbortRemovesAll
  BY DEF Tracked, AbortRemovesAll, Lost
<1> QED
  BY <1>1, <1>2, TypeInit, TypeStep, TrackedStep, PTL DEF Spec
=============================================================================
