-------------------------- MODULE ShardArchiveProofs --------------------------
(***************************************************************************)
(* The shard writer and the shard reader together: whatever is left of an  *)
(* encryption, decryption accepts complete archives only, and it accepts   *)
(* what encryption reports as written.  For any layout, any sizes, any     *)
(* failures and any power loss.                                            *)
(***************************************************************************)
EXTENDS ShardArchive, ShardWriterProofs, FiniteSetTheorems, WellFoundedInduction

----------------------------------------------------------------------------
\* Every set of naturals has a least element.
LEMMA LeastNatural ==
    ASSUME NEW S, S \subseteq Nat, S # {}
    PROVE  \E x \in S : \A y \in S : x <= y
<1>1. PICK x \in S : \A y \in S : ~(<<y, x>> \in OpToRel(<, Nat))
  BY NatLessThanWellFounded, WFMin
<1>2. \A y \in S : ~(y < x)
  BY <1>1 DEF OpToRel
<1> QED
  BY <1>2

\* Induction, as a fact about sets.
LEMMA NatInd ==
    ASSUME NEW T, 0 \in T, \A k \in Nat : k \in T => k + 1 \in T
    PROVE  Nat \subseteq T
<1> SUFFICES ASSUME NEW n \in Nat, n \notin T PROVE FALSE
  OBVIOUS
<1>1. PICK x \in Nat \ T : \A y \in Nat \ T : x <= y
  BY LeastNatural
<1>2. x - 1 \in Nat
  BY <1>1
<1> QED
  BY <1>1, <1>2

----------------------------------------------------------------------------
(* Sums. *)

\* u holds the partial sums of s.
Sums(u, s) == u = [k \in 0..Len(s) |-> IF k = 0 THEN 0 ELSE u[k - 1] + s[k]]

\* A sequence has partial sums.
LEMMA SumsExist == ASSUME NEW S, NEW s \in Seq(S) PROVE \E u : Sums(u, s)
<1> DEFINE part(m, u) == \A k \in 0..m : u[k] = IF k = 0 THEN 0 ELSE u[k - 1] + s[k]
           T == {m \in Nat : \E u : part(m, u)}
<1>1. 0 \in T
  <2>1. part(0, [k \in 0..0 |-> 0])
    OBVIOUS
  <2> QED
    BY <2>1
<1>2. ASSUME NEW m \in Nat, m \in T PROVE m + 1 \in T
  <2>1. PICK u : part(m, u)
    BY <1>2
  <2> DEFINE v == [k \in 0..(m + 1) |-> IF k = m + 1 THEN u[m] + s[m + 1] ELSE u[k]]
  <2>2. part(m + 1, v)
    BY <2>1
  <2> HIDE DEF v
  <2> QED
    BY <2>2
<1>3. Len(s) \in T
  <2> HIDE DEF T
  <2> QED
    BY <1>1, <1>2, NatInd
<1>4. PICK u : part(Len(s), u)
  BY <1>3
<1> DEFINE v == [k \in 0..Len(s) |-> u[k]]
<1>5. \A k \in 0..Len(s) : v[k] = IF k = 0 THEN 0 ELSE v[k - 1] + s[k]
  BY <1>4
<1>6. v = [k \in 0..Len(s) |-> v[k]]
  OBVIOUS
<1> HIDE DEF v
<1>7. Sums(v, s)
  BY <1>5, <1>6 DEF Sums
<1> QED
  BY <1>7

\* The sum is the last of them.
LEMMA SumIsLast == ASSUME NEW S, NEW s \in Seq(S) PROVE \E u : Sums(u, s) /\ Sum(s) = u[Len(s)]
<1> DEFINE upto[k \in 0..Len(s)] == IF k = 0 THEN 0 ELSE upto[k - 1] + s[k]
<1>1. Sums(upto, s)
  BY SumsExist DEF Sums
<1>2. Sum(s) = upto[Len(s)]
  BY DEF Sum
<1> QED
  BY <1>1, <1>2

\* Two sequences of partial sums agree where the terms do.
LEMMA SumsAgree ==
    ASSUME NEW S, NEW s \in Seq(S), NEW t \in Seq(S), NEW u, NEW v, Sums(u, s), Sums(v, t),
           NEW m \in 0..Len(s), m <= Len(t), \A k \in 1..m : s[k] = t[k]
    PROVE  u[m] = v[m]
<1> DEFINE T == {k \in Nat : k <= m => u[k] = v[k]}
<1>1. 0 \in T
  BY DEF Sums
<1>2. ASSUME NEW k \in Nat, k \in T PROVE k + 1 \in T
  <2> SUFFICES ASSUME k + 1 <= m PROVE u[k + 1] = v[k + 1]
    OBVIOUS
  <2>1. k + 1 \in 0..Len(s) /\ k + 1 \in 0..Len(t) /\ k + 1 # 0 /\ (k + 1) - 1 = k
    OBVIOUS
  <2>2. u[k + 1] = u[k] + s[k + 1]
    BY <2>1 DEF Sums
  <2>3. v[k + 1] = v[k] + t[k + 1]
    BY <2>1 DEF Sums
  <2> QED
    BY <2>1, <2>2, <2>3, <1>2
<1> HIDE DEF T
<1>3. Nat \subseteq T
  BY <1>1, <1>2, NatInd
<1> QED
  BY <1>3 DEF T

\* The empty sum, and the sum of one term more.
LEMMA SumEmpty == ASSUME NEW s \in Seq(Nat), Len(s) = 0 PROVE Sum(s) = 0
<1>1. PICK u : Sums(u, s) /\ Sum(s) = u[Len(s)]
  BY SumIsLast
<1> QED
  BY <1>1 DEF Sums

LEMMA SumMore ==
    ASSUME NEW s \in Seq(Nat), NEW t \in Seq(Nat), Len(t) = Len(s) + 1,
           \A k \in 1..Len(s) : t[k] = s[k]
    PROVE  Sum(t) = Sum(s) + t[Len(t)]
<1>1. PICK u : Sums(u, s) /\ Sum(s) = u[Len(s)]
  BY SumIsLast
<1>2. PICK v : Sums(v, t) /\ Sum(t) = v[Len(t)]
  BY SumIsLast
<1>3. u[Len(s)] = v[Len(s)]
  <2>1. Len(s) \in 0..Len(s) /\ Len(s) <= Len(t) /\ \A k \in 1..Len(s) : s[k] = t[k]
    OBVIOUS
  <2> QED
    BY <1>1, <1>2, <2>1, SumsAgree
<1>4. v[Len(t)] = v[Len(t) - 1] + t[Len(t)]
  BY <1>2 DEF Sums
<1> QED
  BY <1>1, <1>2, <1>3, <1>4

\* A frame appended adds its size to the payload.
LEMMA PayloadEmpty == PayloadSize(<< >>) = 0
<1> DEFINE s == [k \in 1..Len(<< >>) |-> FrameSize(<< >>[k].len)]
<1>1. s \in Seq(Nat) /\ Len(s) = 0
  OBVIOUS
<1> HIDE DEF s
<1>2. Sum(s) = 0
  BY <1>1, SumEmpty
<1> QED
  BY <1>2 DEF PayloadSize, s

LEMMA PayloadAppend ==
    ASSUME NEW q \in Seq(Frame), NEW fr \in Frame
    PROVE  PayloadSize(Append(q, fr)) = PayloadSize(q) + FrameSize(fr.len)
<1> DEFINE s == [k \in 1..Len(q) |-> FrameSize(q[k].len)]
           r == Append(q, fr)
           t == [k \in 1..Len(r) |-> FrameSize(r[k].len)]
<1>1. r \in Seq(Frame) /\ Len(r) = Len(q) + 1 /\ r[Len(q) + 1] = fr
      /\ \A k \in 1..Len(q) : r[k] = q[k]
  OBVIOUS
<1> HIDE DEF r
<1>2. \A f \in Frame : FrameSize(f.len) \in Nat
  BY FormatAssumption DEF Frame, FrameSize
<1>3. \A k \in 1..Len(q) : q[k] \in Frame
  OBVIOUS
<1>4. \A k \in 1..Len(r) : r[k] \in Frame
  BY <1>1
<1>5. s \in Seq(Nat) /\ Len(s) = Len(q)
  BY <1>2, <1>3, IsASeq
<1>6. t \in Seq(Nat) /\ Len(t) = Len(r)
  BY <1>2, <1>4, <1>1, IsASeq
<1>7. \A k \in 1..Len(s) : t[k] = s[k]
  BY <1>1, <1>5, <1>6
<1>8. t[Len(t)] = FrameSize(fr.len)
  BY <1>1, <1>6
<1> HIDE DEF s, t
<1>9. Sum(t) = Sum(s) + t[Len(t)]
  BY <1>1, <1>5, <1>6, <1>7, SumMore
<1> QED
  BY <1>8, <1>9 DEF PayloadSize, r, s, t

----------------------------------------------------------------------------
(* What the reader returns for a directory it accepts. *)

SomeShardHeader ==
    [shard_index : Nat, first_global_chunk_index : Nat, shard_chunk_count : Nat,
     shard_payload_len : Nat, header_mac : {<< >>} \cup (GlobalHeader \X ShardHeader)]
File == [global : {<< >>} \cup {<<g>> : g \in GlobalHeader},
         shard : {<< >>} \cup {<<s>> : s \in SomeShardHeader}, frames : Seq(Frame)]

\* Global header of a directory whose files agree on it.
GlobalOf(d) == d[CHOOSE n \in DOMAIN d : TRUE].global[1]

\* u holds the frames of the first shards.
Joins(u, d, n) ==
    u = [i \in 0..n |-> IF i = 0 THEN << >> ELSE u[i - 1] \o ShardAt(d, i - 1).frames]

\* There are such sequences,
LEMMA JoinsExist == ASSUME NEW d, NEW n \in Nat PROVE \E u : Joins(u, d, n)
<1> DEFINE fr(i) == ShardAt(d, i).frames
           part(m, u) == \A k \in 0..m : u[k] = IF k = 0 THEN << >> ELSE u[k - 1] \o fr(k - 1)
           T == {m \in Nat : \E u : part(m, u)}
<1> HIDE DEF fr
<1>1. 0 \in T
  <2>1. part(0, [k \in 0..0 |-> << >>])
    OBVIOUS
  <2> QED
    BY <2>1
<1>2. ASSUME NEW m \in Nat, m \in T PROVE m + 1 \in T
  <2>1. PICK u : part(m, u)
    BY <1>2
  <2> DEFINE v == [k \in 0..(m + 1) |-> IF k = m + 1 THEN u[m] \o fr(m) ELSE u[k]]
  <2>2. part(m + 1, v)
    BY <2>1
  <2> HIDE DEF v
  <2> QED
    BY <2>2
<1>3. n \in T
  <2> HIDE DEF T
  <2> QED
    BY <1>1, <1>2, NatInd
<1>4. PICK u : part(n, u)
  BY <1>3
<1> DEFINE v == [k \in 0..n |-> u[k]]
<1>5. \A k \in 0..n : v[k] = IF k = 0 THEN << >> ELSE v[k - 1] \o fr(k - 1)
  BY <1>4
<1>6. v = [k \in 0..n |-> v[k]]
  OBVIOUS
<1> HIDE DEF v
<1>7. Joins(v, d, n)
  BY <1>5, <1>6 DEF Joins, fr
<1> QED
  BY <1>7

\* and the last of them is what the reader returns.
LEMMA ContentsIsLast ==
    ASSUME NEW d, GlobalOf(d).shard_count \in Nat
    PROVE  \E u : Joins(u, d, GlobalOf(d).shard_count) /\ Contents(d) = u[GlobalOf(d).shard_count]
<1> DEFINE n == GlobalOf(d).shard_count
           upto[i \in 0..n] == IF i = 0 THEN << >> ELSE upto[i - 1] \o ShardAt(d, i - 1).frames
<1>1. Joins(upto, d, n)
  BY JoinsExist DEF Joins
<1>2. Contents(d) = upto[n]
  BY DEF Contents, GlobalOf
<1> QED
  BY <1>1, <1>2

\* Shards that pass validate_shards() and whose frames pass the reader's tests.
Sound(d) ==
    /\ DOMAIN d # {} /\ \A n \in DOMAIN d : d[n] \in File /\ ReadShardInfo(d[n])
    /\ ValidateShards(d) /\ \A n \in DOMAIN d : ReadShard(d[n])

\* The frames come in the order of their indexes and none is missing.
LEMMA ReadInOrder ==
    ASSUME NEW d, Sound(d)
    PROVE  LET c == Contents(d) IN
           /\ c \in Seq(Frame) /\ Len(c) = GlobalOf(d).global_chunk_count
           /\ \A i \in 1..Len(c) : /\ c[i].index = i - 1
                                   /\ \E n \in DOMAIN d : \E k \in 1..Len(d[n].frames) :
                                         c[i] = d[n].frames[k]
<1> DEFINE g == GlobalOf(d)
           N == g.shard_count
           first(i) == ShardAt(d, i).shard[1].first_global_chunk_index
           end(i) == first(i) + ShardAt(d, i).shard[1].shard_chunk_count
<1>1. g \in GlobalHeader /\ g.shard_count \in Nat \ {0} /\ g.global_chunk_count \in Nat
  <2>1. PICK n \in DOMAIN d : g = d[n].global[1]
    BY DEF Sound, GlobalOf
  <2>2. d[n] \in File /\ d[n].global # << >> /\ d[n].global[1].shard_count > 0
    BY DEF Sound, ReadShardInfo, ValidGlobal
  <2>3. g \in GlobalHeader
    BY <2>1, <2>2 DEF File
  <2> QED
    BY <2>1, <2>2, <2>3 DEF GlobalHeader
<1>2. /\ \A i \in 0..(N - 1) : \E n \in DOMAIN d : d[n].shard[1].shard_index = i
      /\ \A i \in 0..(N - 1) : first(i) = IF i = 0 THEN 0 ELSE end(i - 1)
      /\ end(N - 1) = g.global_chunk_count
  BY DEF Sound, ValidateShards, GlobalOf
<1>3. ASSUME NEW i \in 0..(N - 1)
      PROVE  /\ \E n \in DOMAIN d : ShardAt(d, i) = d[n]
             /\ first(i) \in Nat /\ end(i) = first(i) + Len(ShardAt(d, i).frames)
             /\ ShardAt(d, i).frames \in Seq(Frame)
             /\ \A k \in 1..Len(ShardAt(d, i).frames) :
                   ShardAt(d, i).frames[k].index = first(i) + k - 1
  <2>1. PICK n \in DOMAIN d : ShardAt(d, i) = d[n]
    BY <1>2 DEF ShardAt
  <2>2. d[n] \in File /\ d[n].shard # << >> /\ ReadShard(d[n])
    BY DEF Sound, ReadShardInfo
  <2>3. d[n].shard[1] \in SomeShardHeader /\ d[n].frames \in Seq(Frame)
    BY <2>2 DEF File
  <2>4. first(i) \in Nat
    BY <2>1, <2>3 DEF SomeShardHeader
  <2>5. \A k \in 1..Len(d[n].frames) : d[n].frames[k].index = first(i) + k - 1
    BY <2>1, <2>2 DEF ReadShard, ReadFrame
  <2>6. end(i) = first(i) + Len(d[n].frames)
    BY <2>1, <2>2 DEF ReadShard
  <2> QED
    BY <2>1, <2>3, <2>4, <2>5, <2>6
<1>4. PICK u : Joins(u, d, N) /\ Contents(d) = u[N]
  BY <1>1, ContentsIsLast
<1> HIDE DEF g, first, end
<1> DEFINE from(x) == \E n \in DOMAIN d : \E k \in 1..Len(d[n].frames) : x = d[n].frames[k]
           good(j) == /\ u[j] \in Seq(Frame) /\ Len(u[j]) = IF j = 0 THEN 0 ELSE end(j - 1)
                      /\ \A i \in 1..Len(u[j]) : u[j][i].index = i - 1 /\ from(u[j][i])
           T == {j \in Nat : j <= N => good(j)}
<1>5. 0 \in T
  <2>1. u[0] = << >>
    BY <1>1, <1>4 DEF Joins
  <2>2. << >> \in Seq(Frame) /\ Len(<< >>) = 0 /\ 1..0 = {}
    OBVIOUS
  <2> HIDE DEF from
  <2>3. u[0] \in Seq(Frame) /\ Len(u[0]) = 0
    BY <2>1, <2>2
  <2>4. \A i \in 1..Len(u[0]) : u[0][i].index = i - 1 /\ from(u[0][i])
    BY <2>2, <2>3
  <2>5. good(0)
    BY <2>3, <2>4
  <2> HIDE DEF good
  <2> QED
    BY <2>5
<1>6. ASSUME NEW j \in Nat, j \in T PROVE j + 1 \in T
  <2> SUFFICES ASSUME j + 1 <= N PROVE good(j + 1)
    OBVIOUS
  <2> DEFINE f == ShardAt(d, j)
             a == u[j]
  <2>1. j \in 0..(N - 1) /\ good(j)
    BY <1>1, <1>6
  <2>2. u[j + 1] = a \o f.frames
    <3>1. j + 1 \in 0..N /\ j + 1 # 0 /\ (j + 1) - 1 = j
      BY <2>1, <1>1
    <3>2. u[j + 1] = IF j + 1 = 0 THEN << >> ELSE u[(j + 1) - 1] \o ShardAt(d, (j + 1) - 1).frames
      BY <3>1, <1>4, Zenon DEF Joins
    <3> QED
      BY <3>1, <3>2
  <2>3. first(j) = Len(a) /\ first(j) \in Nat
    BY <2>1, <1>2, <1>3
  <2>4. end(j) = Len(a) + Len(f.frames) /\ f.frames \in Seq(Frame)
    BY <2>1, <1>3, <2>3
  <2>5. /\ \A k \in 1..Len(f.frames) : f.frames[k].index = Len(a) + k - 1
        /\ \E n \in DOMAIN d : f = d[n]
    BY <2>1, <1>3, <2>3
  <2>6. \A k \in 1..Len(f.frames) : from(f.frames[k])
    BY <2>5
  <2>7. a \in Seq(Frame) /\ \A i \in 1..Len(a) : a[i].index = i - 1 /\ from(a[i])
    BY <2>1
  <2> HIDE DEF a, f, from
  <2>8. a \o f.frames \in Seq(Frame) /\ Len(a \o f.frames) = Len(a) + Len(f.frames)
    BY <2>4, <2>7
  <2>9. ASSUME NEW i \in 1..(Len(a) + Len(f.frames))
        PROVE  (a \o f.frames)[i].index = i - 1 /\ from((a \o f.frames)[i])
    <3>1. CASE i <= Len(a)
      <4>1. (a \o f.frames)[i] = a[i] /\ i \in 1..Len(a)
        BY <3>1, <2>4, <2>7
      <4> QED
        BY <4>1, <2>7
    <3>2. CASE i > Len(a)
      <4> DEFINE k == i - Len(a)
      <4>1. k \in 1..Len(f.frames) /\ (a \o f.frames)[i] = f.frames[k]
        BY <3>2, <2>4, <2>7
      <4>2. f.frames[k].index = Len(a) + k - 1 /\ from(f.frames[k])
        BY <4>1, <2>5, <2>6
      <4>3. Len(a) + k - 1 = i - 1
        BY <2>7
      <4> QED
        BY <4>1, <4>2, <4>3
    <3> QED
      BY <3>1, <3>2, <2>7
  <2>10. (j + 1) - 1 = j /\ j + 1 # 0
    OBVIOUS
  <2> QED
    BY <2>2, <2>4, <2>8, <2>9, <2>10
<1> HIDE DEF T, good
<1>7. N \in T
  BY <1>1, <1>5, <1>6, NatInd
<1>8. good(N)
  BY <1>7, <1>1 DEF T
<1> QED
  BY <1>1, <1>2, <1>4, <1>8 DEF good, g

----------------------------------------------------------------------------
(* What is in the files, whatever has happened to them. *)

\* A frame of the archive: its index decides on its length and its flag.
MeantFrame(fr) == fr.len = ChunkLen(actual, fr.index) /\ fr.final = IsFinal(actual, fr.index)

\* A file of this run, damaged or not.
Written(f) ==
    /\ f \in File /\ (f.global # << >> => f.global[1].archive_id = 1)
    /\ \A k \in 1..Len(f.frames) : MeantFrame(f.frames[k])

DirInv ==
    /\ \A n \in DOMAIN dir \ created : dir[n] = Foreign
    /\ \A n \in DOMAIN dir \cap created : Written(dir[n])
    /\ \A k \in 1..Len(in_flight) : MeantFrame(in_flight[k])
    /\ next.final_len > 0 => next.chunk > 0

\* A step that leaves a file alone or makes another file of this run of it.
LEMMA DirKept ==
    ASSUME DirInv, actual' = actual,
           \A n \in DOMAIN dir' :
              \/ n \in DOMAIN dir /\ dir'[n] = dir[n] /\ (n \in created' <=> n \in created)
              \/ n \in created' /\ Written(dir'[n]),
           \A k \in 1..Len(in_flight') : MeantFrame(in_flight'[k]),
           next'.final_len > 0 => next'.chunk > 0
    PROVE  DirInv'
<1>1. ASSUME NEW f PROVE Written(f) <=> Written(f)'
  BY DEF Written, MeantFrame, ChunkLen, IsFinal
<1>2. ASSUME NEW n \in DOMAIN dir' \ created' PROVE dir'[n] = Foreign
  BY <1>2 DEF DirInv
<1>3. ASSUME NEW n \in DOMAIN dir' \cap created' PROVE Written(dir'[n])
  <2>1. CASE n \in DOMAIN dir /\ dir'[n] = dir[n] /\ n \in created
    BY <2>1 DEF DirInv
  <2> QED
    BY <2>1
<1>4. \A k \in 1..Len(in_flight') : MeantFrame(in_flight[k])'
  BY DEF MeantFrame, ChunkLen, IsFinal
<1>5. \A n \in DOMAIN dir' \cap created' : Written(dir[n])'
  BY <1>3 DEF Written, MeantFrame, ChunkLen, IsFinal
<1> QED
  BY <1>2, <1>4, <1>5 DEF DirInv, Foreign

\* A step that touches no file.
LEMMA DirSame ==
    ASSUME DirInv, UNCHANGED <<actual, dir, created, in_flight, next>> PROVE DirInv'
  BY DirKept DEF DirInv

\* Other frames, other headers.
LEMMA FramesReplaced ==
    ASSUME NEW f, Written(f), NEW q \in Seq(Frame), \A k \in 1..Len(q) : MeantFrame(q[k])
    PROVE  Written([f EXCEPT !.frames = q])
  BY DEF Written, File

LEMMA HeadersReplaced ==
    ASSUME NEW f, Written(f), NEW g \in {<< >>} \cup {<<h>> : h \in GlobalHeader},
           g # << >> => g[1].archive_id = 1,
           NEW s \in {<< >>} \cup {<<h>> : h \in SomeShardHeader}
    PROVE  Written([f EXCEPT !.global = g, !.shard = s]) /\ Written([f EXCEPT !.global = g])
           /\ Written([f EXCEPT !.shard = s])
  BY DEF Written, File

\* The headers this run writes.
LEMMA HeadersTyped ==
    ASSUME TypeInv, DirInv
    PROVE  /\ Announcement \in GlobalHeader /\ Announcement.archive_id = 1
           /\ FinalGlobal \in GlobalHeader /\ FinalGlobal.archive_id = 1
           /\ Placeholder \in SomeShardHeader
           /\ \A s \in Shard, g \in GlobalHeader : ShardHeaderOf(s, g) \in SomeShardHeader
<1>1. params.count \in Nat \ {0} /\ params.last \in Nat /\ Len(plans) \in Nat
      /\ Len(finalized) \in Nat /\ next.chunk \in Nat /\ next.final_len \in Nat
      /\ ChunkSize \in Nat
  <2>1. ChunkSize \in Nat /\ 1..ChunkSize \subseteq Nat
    BY FormatAssumption
  <2>2. params.count \in Nat \ {0} /\ params.last \in Nat
    BY <2>1 DEF TypeInv, OptionsOK
  <2>3. Len(plans) \in Nat /\ Len(finalized) \in Nat
    BY DEF TypeInv, TypeOK
  <2>4. next.chunk \in Nat /\ next.final_len \in Nat
    BY DEF TypeInv, TypeOK
  <2> QED
    BY <2>1, <2>2, <2>3, <2>4
<1>2. (params.count - 1) * ChunkSize + params.last \in Nat
  <2>1. params.count - 1 \in Nat
    BY <1>1
  <2>2. (params.count - 1) * ChunkSize \in Nat
    BY <2>1, <1>1
  <2> QED
    BY <2>2, <1>1
<1>3. Announcement \in GlobalHeader /\ Announcement.archive_id = 1
  BY <1>1, <1>2 DEF Announcement, GlobalHeaderOf, GlobalHeader
<1>4. FinalGlobal \in GlobalHeader /\ FinalGlobal.archive_id = 1
  <2> DEFINE counts == [Announcement EXCEPT !.global_chunk_count = next.chunk,
                                            !.shard_count = Len(finalized)]
  <2>1. counts \in GlobalHeader /\ counts.archive_id = 1
    BY <1>1, <1>3 DEF GlobalHeader
  <2>2. CASE next.final_len > 0
    <3>1. next.chunk - 1 \in Nat
      BY <2>2, <1>1 DEF DirInv
    <3>2. (next.chunk - 1) * ChunkSize \in Nat
      BY <3>1, <1>1
    <3>3. (next.chunk - 1) * ChunkSize + next.final_len \in Nat
      BY <3>2, <1>1
    <3> HIDE DEF counts
    <3> QED
      BY <2>1, <2>2, <3>3, <1>1 DEF FinalGlobal, counts, GlobalHeader
  <2>3. CASE ~(next.final_len > 0)
    BY <2>1, <2>3 DEF FinalGlobal
  <2> QED
    BY <2>2, <2>3
<1>5. Placeholder \in SomeShardHeader
  BY DEF Placeholder, MakeShardHeader, SomeShardHeader
<1>6. ASSUME NEW s \in Shard, NEW g \in GlobalHeader
      PROVE  ShardHeaderOf(s, g) \in SomeShardHeader
  <2> DEFINE h == MakeShardHeader(s.index, s.first, s.count, s.payload, << >>)
  <2>1. h \in ShardHeader
    BY <1>6 DEF MakeShardHeader, Shard, ShardHeader
  <2>2. Canonical(h) = h
    BY DEF MakeShardHeader, Canonical
  <2>3. HeaderMac(g, h) \in GlobalHeader \X ShardHeader
    BY <2>1, <2>2 DEF HeaderMac
  <2> HIDE DEF h
  <2>4. [h EXCEPT !.header_mac = HeaderMac(g, h)] \in SomeShardHeader
    BY <2>1, <2>3 DEF ShardHeader, SomeShardHeader
  <2> QED
    BY <2>4 DEF ShardHeaderOf, WithMac, h
<1> QED
  BY <1>3, <1>4, <1>5, <1>6

\* A step that touches the file p of this run.
LEMMA DirTouched ==
    ASSUME DirInv, actual' = actual, NEW p \in created', created' \subseteq created \cup {p},
           created \subseteq created', DOMAIN dir' \subseteq DOMAIN dir \cup {p},
           \A n \in DOMAIN dir' \ {p} : dir'[n] = dir[n],
           p \in DOMAIN dir' => Written(dir'[p]),
           \A k \in 1..Len(in_flight') : MeantFrame(in_flight'[k]),
           next'.final_len > 0 => next'.chunk > 0
    PROVE  DirInv'
<1>1. ASSUME NEW n \in DOMAIN dir'
      PROVE  \/ n \in DOMAIN dir /\ dir'[n] = dir[n] /\ (n \in created' <=> n \in created)
             \/ n \in created' /\ Written(dir'[n])
  <2>1. CASE n = p
    BY <2>1
  <2>2. CASE n # p
    BY <2>2
  <2> QED
    BY <2>1, <2>2
<1> QED
  BY <1>1, DirKept

\* The file being written.
LEMMA CurrentFile ==
    ASSUME TypeInv, DirInv, stream # "closed", wpc \notin {"abort", "aborted"} \cup Lost
    PROVE  CurrentPath \in DOMAIN dir \cap created /\ Written(dir[CurrentPath])
<1>1. CurrentPath \in created /\ current.path # << >>
  BY OpenStream DEF TypeInv, TypeOK
<1>2. CurrentPath \in DOMAIN dir
  BY <1>1 DEF TypeInv, FilesOK
<1> QED
  BY <1>1, <1>2 DEF DirInv

\* The planner's frame has the length and the flag of its chunk.
LEMMA DirPlanFrame == TypeInv /\ DirInv /\ PlanFrame => DirInv'
<1> SUFFICES ASSUME TypeInv, DirInv, PlanFrame PROVE DirInv'
  OBVIOUS
<1>1. PICK fr : /\ in_flight' = Append(in_flight, fr)
                /\ fr.len = ChunkLen(actual, planned.next) /\ fr.index = planned.next
                /\ fr.final = IsFinal(actual, planned.next)
  BY DEF PlanFrame, MakeFrame
<1>2. in_flight \in Seq(Frame) /\ in_flight' \in Seq(Frame)
  BY TypePlanFrame DEF TypeInv, FlightOK
<1>3. Len(in_flight') = Len(in_flight) + 1 /\ in_flight'[Len(in_flight) + 1] = fr
      /\ \A k \in 1..Len(in_flight) : in_flight'[k] = in_flight[k]
  BY <1>1, <1>2
<1>4. MeantFrame(fr)
  BY <1>1 DEF MeantFrame
<1>5. \A k \in 1..Len(in_flight') : MeantFrame(in_flight'[k])
  <2> SUFFICES ASSUME NEW k \in 1..Len(in_flight') PROVE MeantFrame(in_flight'[k])
    OBVIOUS
  <2>1. k \in 1..Len(in_flight) \/ k = Len(in_flight) + 1
    BY <1>2, <1>3
  <2> QED
    BY <1>3, <1>4, <2>1 DEF DirInv
<1>6. UNCHANGED <<actual, dir, created, next>>
  BY DEF PlanFrame, plan_vars, writer_vars, disk_vars
<1> QED
  BY <1>5, <1>6, DirKept DEF DirInv

\* A new shard has the announced header and no frames.
LEMMA DirOpen == TypeInv /\ DirInv /\ OpenShard => DirInv'
<1> SUFFICES ASSUME TypeInv, DirInv, OpenShard PROVE DirInv'
  OBVIOUS
<1>1. UNCHANGED <<actual, in_flight>>
  BY DEF OpenShard, plan_vars
<1>2. CASE UNCHANGED <<dir, created, next>>
  BY <1>1, <1>2, DirSame
<1>3. ASSUME NEW n \in Names, FreshName(n), created' = created \cup {n},
             next' = [next EXCEPT !.shard = @ + 1],
             NEW f, Written(f), dir' = Put(dir, n, f)
      PROVE  DirInv'
  <2>1. next'.final_len = next.final_len /\ next'.chunk = next.chunk
    BY <1>3 DEF TypeInv, TypeOK
  <2>2. DOMAIN dir' \subseteq DOMAIN dir \cup {n} /\ dir'[n] = f
        /\ \A m \in DOMAIN dir' \ {n} : dir'[m] = dir[m]
    BY <1>3 DEF Put
  <2>3. n \in created' /\ created' \subseteq created \cup {n} /\ created \subseteq created'
    BY <1>3
  <2> QED
    BY <1>1, <1>3, <2>1, <2>2, <2>3, DirTouched DEF DirInv
<1>4. /\ Written(MakeFile(<<Announcement>>, <<Placeholder>>, << >>))
      /\ Written(MakeFile(<< >>, << >>, << >>))
  <2>1. Announcement \in GlobalHeader /\ Announcement.archive_id = 1
        /\ Placeholder \in SomeShardHeader
    BY HeadersTyped
  <2>2. << >> \in Seq(Frame) /\ Len(<< >>) = 0
    OBVIOUS
  <2> QED
    BY <2>1, <2>2 DEF Written, MakeFile, File
<1> QED
  BY <1>2, <1>3, <1>4 DEF OpenShard, disk_vars

\* A frame is appended as it was planned, or torn.
LEMMA DirWrite == TypeInv /\ DirInv /\ WriteFrame => DirInv'
<1> SUFFICES ASSUME TypeInv, DirInv, WriteFrame PROVE DirInv'
  OBVIOUS
<1> DEFINE p == CurrentPath
           fr == Head(in_flight)
<1>1. wpc = "write" /\ stream # "closed" /\ in_flight # << >> /\ UNCHANGED <<actual, created>>
  BY DEF WriteFrame, TypeInv, LabelsOK, plan_vars
<1>2. p \in DOMAIN dir /\ p \in created /\ Written(dir[p])
  BY <1>1, CurrentFile DEF Lost
<1>3. fr = in_flight[1] /\ fr \in Frame /\ Len(in_flight) \in Nat \ {0}
      /\ Len(Tail(in_flight)) = Len(in_flight) - 1
      /\ \A k \in 1..Len(Tail(in_flight)) : Tail(in_flight)[k] = in_flight[k + 1]
  BY <1>1, HeadFrame
<1>4. MeantFrame(fr)
  BY <1>3 DEF DirInv
<1> HIDE DEF p, fr
<1>5. ASSUME NEW x \in Frame, MeantFrame(x) PROVE Written([dir[p] EXCEPT !.frames = Append(@, x)])
  <2>1. dir[p].frames \in Seq(Frame) /\ \A k \in 1..Len(dir[p].frames) : MeantFrame(dir[p].frames[k])
    BY <1>2 DEF Written, File
  <2> DEFINE q == Append(dir[p].frames, x)
  <2>2. q \in Seq(Frame) /\ \A k \in 1..Len(q) : MeantFrame(q[k])
    BY <2>1, <1>5
  <2> HIDE DEF q
  <2>3. Written([dir[p] EXCEPT !.frames = q])
    BY <1>2, <2>2, FramesReplaced
  <2> QED
    BY <2>3 DEF q
<1>6. CASE UNCHANGED <<dir, in_flight, next>>
  BY <1>1, <1>6, DirSame
<1>7. CASE FrameWritten(fr)
  <2>1. dir' = [dir EXCEPT ![p].frames = Append(@, fr)]
    BY <1>7 DEF FrameWritten, p
  <2>2. DOMAIN dir' = DOMAIN dir /\ dir'[p] = [dir[p] EXCEPT !.frames = Append(@, fr)]
        /\ \A n \in DOMAIN dir' \ {p} : dir'[n] = dir[n]
    BY <1>2, <2>1
  <2>3. in_flight' = Tail(in_flight)
    BY <1>7 DEF FrameWritten
  <2>4. \A k \in 1..Len(in_flight') : MeantFrame(in_flight'[k])
    BY <1>3, <2>3 DEF DirInv
  <2>5. next'.chunk > 0
    <3>1. next.chunk \in Nat /\ next \in [shard : Nat, chunk : Nat, final_len : Nat]
      BY DEF TypeInv, TypeOK
    <3>2. next'.chunk = next.chunk + 1
      BY <3>1, <1>7 DEF FrameWritten
    <3> QED
      BY <3>1, <3>2
  <2>6. Written(dir'[p])
    BY <1>3, <1>4, <1>5, <2>2
  <2> QED
    BY <1>1, <1>2, <2>2, <2>4, <2>5, <2>6, DirTouched
<1>8. CASE FrameTorn(fr)
  <2> DEFINE x == [fr EXCEPT !.intact = FALSE]
  <2>1. x \in Frame /\ MeantFrame(x)
    BY <1>3, <1>4 DEF Frame, MeantFrame
  <2> HIDE DEF x
  <2>2. dir' = [dir EXCEPT ![p].frames = Append(@, x)] /\ UNCHANGED <<next, in_flight>>
    BY <1>8 DEF FrameTorn, p, x
  <2>3. DOMAIN dir' = DOMAIN dir /\ dir'[p] = [dir[p] EXCEPT !.frames = Append(@, x)]
        /\ \A n \in DOMAIN dir' \ {p} : dir'[n] = dir[n]
    BY <1>2, <2>2
  <2>4. Written(dir'[p])
    BY <1>5, <2>1, <2>3
  <2> QED
    BY <1>1, <1>2, <2>2, <2>3, <2>4, DirTouched DEF DirInv
<1> QED
  BY <1>6, <1>7, <1>8 DEF WriteFrame, fr

\* A file cut short.
LEMMA FramesCut ==
    ASSUME NEW f, Written(f), NEW t \in 0..Len(f.frames)
    PROVE  /\ Written([f EXCEPT !.frames = SubSeq(f.frames, 1, t)])
           /\ SubSeq(f.frames, 1, t) \in Seq(Frame)
           /\ \A k \in 1..Len(SubSeq(f.frames, 1, t)) : MeantFrame(SubSeq(f.frames, 1, t)[k])
<1> DEFINE q == SubSeq(f.frames, 1, t)
<1>1. f.frames \in Seq(Frame) /\ \A k \in 1..Len(f.frames) : MeantFrame(f.frames[k])
  BY DEF Written, File
<1>2. q \in Seq(Frame) /\ Len(q) = t /\ \A k \in 1..t : q[k] = f.frames[k]
  BY <1>1, SubSeqProperties
<1>3. q \in Seq(Frame) /\ \A k \in 1..Len(q) : MeantFrame(q[k])
  BY <1>1, <1>2
<1> HIDE DEF q
<1>4. Written([f EXCEPT !.frames = q])
  BY <1>3, FramesReplaced
<1> QED
  BY <1>3, <1>4 DEF q

\* Closing a shard writes its header and may lose its last frame.
LEMMA DirClose == TypeInv /\ DirInv /\ CloseShard => DirInv'
<1> SUFFICES ASSUME TypeInv, DirInv, CloseShard PROVE DirInv'
  OBVIOUS
<1> DEFINE p == CurrentPath
           f == dir[p]
<1>1. stream # "closed" /\ wpc \in {"roll", "full", "finish"}
      /\ UNCHANGED <<actual, created, in_flight, next>>
  BY DEF CloseShard, plan_vars
<1>2. p \in DOMAIN dir /\ p \in created /\ Written(f)
  BY <1>1, CurrentFile DEF Lost
<1>3. f.frames \in Seq(Frame) /\ f.global \in {<< >>} \cup {<<h>> : h \in GlobalHeader}
      /\ (f.global # << >> => f.global[1].archive_id = 1)
  BY <1>2 DEF Written, File
<1> DEFINE kept(q) == q \in Seq(Frame) /\ \A k \in 1..Len(q) : MeantFrame(q[k])
<1>4. kept(f.frames) /\ kept(SubSeq(f.frames, 1, Len(f.frames) - 1))
  <2>1. kept(f.frames)
    BY <1>2 DEF Written, File
  <2>2. CASE Len(f.frames) = 0
    <3>1. SubSeq(f.frames, 1, Len(f.frames) - 1) \in Seq(Frame)
          /\ Len(SubSeq(f.frames, 1, Len(f.frames) - 1)) = 0
      BY <1>3, <2>2
    <3> QED
      BY <2>1, <3>1
  <2>3. CASE Len(f.frames) # 0
    <3>1. Len(f.frames) - 1 \in 0..Len(f.frames)
      BY <1>3, <2>3
    <3> QED
      BY <1>2, <2>1, <3>1, FramesCut
  <2> QED
    BY <2>2, <2>3
<1>5. ShardHeaderOf(current, Announcement) \in SomeShardHeader
  BY <1>1, OpenStream, HeadersTyped
<1>6. ASSUME NEW q, kept(q)
      PROVE  /\ Written(MakeFile(f.global, <<ShardHeaderOf(current, Announcement)>>, q))
             /\ Written([f EXCEPT !.frames = q])
  <2>1. Written([f EXCEPT !.frames = q])
    BY <1>2, <1>6, FramesReplaced
  <2> HIDE DEF f, p
  <2>2. Written(MakeFile(f.global, <<ShardHeaderOf(current, Announcement)>>, q))
    BY <1>3, <1>5, <1>6 DEF Written, File, MakeFile
  <2> QED
    BY <2>1, <2>2
<1>7. PICK q : /\ kept(q)
               /\ \/ dir' = [dir EXCEPT ![p] = MakeFile(f.global,
                                <<ShardHeaderOf(current, Announcement)>>, q)]
                  \/ dir' = [dir EXCEPT ![p].frames = q]
  BY <1>4 DEF CloseShard
<1> HIDE DEF kept
<1>8. DOMAIN dir' = DOMAIN dir /\ Written(dir'[p]) /\ \A n \in DOMAIN dir' \ {p} : dir'[n] = dir[n]
  BY <1>2, <1>6, <1>7
<1> HIDE DEF p, f
<1> QED
  BY <1>1, <1>2, <1>8, DirTouched DEF DirInv

\* finish() rewrites headers and flushes.
LEMMA DirFinish == TypeInv /\ DirInv /\ Finish => DirInv'
<1> SUFFICES ASSUME TypeInv, DirInv, Finish PROVE DirInv'
  OBVIOUS
<1>1. CASE CallFinish \/ FlushShard \/ FlushDir
  BY <1>1, DirSame DEF CallFinish, FlushShard, FlushDir, plan_vars, writer_vars, disk_vars
<1>2. CASE RewriteShard
  <2> DEFINE p == Path(at + 1)
             f == dir[p]
  <2>1. at + 1 \in 1..Len(finalized) /\ wpc = "rewrite" /\ UNCHANGED <<actual, created, in_flight, next>>
    BY <1>2 DEF RewriteShard, plan_vars, writer_vars, TypeInv, TypeOK
  <2>2. p \in DOMAIN dir /\ p \in created /\ finalized[at + 1] \in Shard
    <3>1. \A k \in 1..Len(finalized) : Path(k) \in DOMAIN dir
      BY <2>1 DEF TypeInv, FilesOK, Lost
    <3>2. finalized \in Seq(Shard) /\ \A k \in 1..Len(finalized) : Path(k) \in created
      BY DEF TypeInv, TypeOK, Path
    <3> QED
      BY <2>1, <3>1, <3>2
  <2>3. Written(f)
    BY <2>2 DEF DirInv
  <2> DEFINE g == <<FinalGlobal>>
             s == <<ShardHeaderOf(finalized[at + 1], FinalGlobal)>>
  <2>4. g \in {<<h>> : h \in GlobalHeader} /\ g[1].archive_id = 1 /\ s \in {<<h>> : h \in SomeShardHeader}
    BY <2>2, HeadersTyped
  <2>5. dir' = dir \/ dir' = [dir EXCEPT ![p].global = g, ![p].shard = s]
    BY <1>2 DEF RewriteShard
  <2> HIDE DEF g, s, p
  <2>6. Written([f EXCEPT !.global = g, !.shard = s])
    BY <2>3, <2>4, HeadersReplaced
  <2>7. DOMAIN dir' = DOMAIN dir /\ Written(dir'[p]) /\ \A n \in DOMAIN dir' \ {p} : dir'[n] = dir[n]
    BY <2>2, <2>3, <2>5, <2>6
  <2> QED
    BY <2>1, <2>2, <2>7, DirTouched DEF DirInv
<1> QED
  BY <1>1, <1>2 DEF Finish

\* A failure removes files.
LEMMA DirFail == TypeInv /\ DirInv /\ Fail => DirInv'
<1> SUFFICES ASSUME TypeInv, DirInv, Fail PROVE DirInv'
  OBVIOUS
<1>1. UNCHANGED <<actual, created, in_flight, next>>
  BY DEF Fail, PipelineFails, AbortCurrent, AbortShard, plan_vars, writer_vars, disk_vars
<1>2. DOMAIN dir' \subseteq DOMAIN dir /\ \A n \in DOMAIN dir' : dir'[n] = dir[n]
  BY DEF Fail, PipelineFails, AbortCurrent, AbortShard, Removes, Without, disk_vars
<1> QED
  BY <1>1, <1>2, DirKept DEF DirInv

\* Nothing a power loss leaves of a file is a file of another archive.
LEMMA DirPower == TypeInv /\ Kept /\ DirInv /\ Power => DirInv'
<1> SUFFICES ASSUME TypeInv, Kept, DirInv, Power PROVE DirInv'
  OBVIOUS
<1>1. CASE PowerLoss
  BY <1>1, DirSame DEF PowerLoss, plan_vars, writer_vars, disk_vars
<1>2. ASSUME NEW n \in Names, SettleFile(n) PROVE DirInv'
  <2>1. n \in DOMAIN dir /\ UNCHANGED <<actual, created, in_flight, next>>
    BY <1>2 DEF SettleFile, plan_vars, writer_vars
  <2>2. n \in created
    BY <1>2, <2>1 DEF SettleFile, Kept
  <2>3. CASE dir' = dir \/ dir' = Without(dir, n)
    <3>1. DOMAIN dir' \subseteq DOMAIN dir /\ \A m \in DOMAIN dir' : dir'[m] = dir[m]
      BY <2>3 DEF Without
    <3> QED
      BY <3>1, <2>1, DirKept DEF DirInv
  <2>4. ASSUME NEW f \in Remains(dir[n]), dir' = [dir EXCEPT ![n] = f] PROVE DirInv'
    <3> DEFINE o == dir[n]
    <3>1. Written(o)
      BY <2>1, <2>2 DEF DirInv
    <3>2. o.frames \in Seq(Frame) /\ \A k \in 1..Len(o.frames) : MeantFrame(o.frames[k])
      BY <3>1 DEF Written, File
    <3> HIDE DEF o
    <3>3. ASSUME NEW k \in 1..Len(o.frames) PROVE Written([o EXCEPT !.frames[k].intact = FALSE])
      <4> DEFINE x == [o.frames[k] EXCEPT !.intact = FALSE]
                 q == [o.frames EXCEPT ![k] = x]
      <4>1. o.frames[k] \in Frame /\ MeantFrame(o.frames[k])
        BY <3>2
      <4>2. x \in Frame /\ MeantFrame(x)
        BY <4>1 DEF Frame, MeantFrame
      <4> HIDE DEF x
      <4>3. q \in Seq(Frame) /\ Len(q) = Len(o.frames)
            /\ \A j \in 1..Len(q) : q[j] = IF j = k THEN x ELSE o.frames[j]
        BY <3>2, <4>2, ExceptSeq
      <4>4. \A j \in 1..Len(q) : MeantFrame(q[j])
        BY <4>2, <4>3, <3>2
      <4> HIDE DEF q
      <4>5. Written([o EXCEPT !.frames = q])
        BY <3>1, <4>3, <4>4, FramesReplaced
      <4> QED
        BY <4>5 DEF q, x
    <3>4. /\ Written([o EXCEPT !.global = << >>]) /\ Written([o EXCEPT !.shard = << >>])
          /\ Written([o EXCEPT !.shard = <<Placeholder>>])
      BY <3>1, HeadersReplaced, HeadersTyped
    <3>5. \A t \in 0..(Len(o.frames) - 1) : Written([o EXCEPT !.frames = SubSeq(o.frames, 1, t)])
      BY <3>1, <3>2, FramesCut
    <3>6. Written(f)
      BY <2>4, <3>1, <3>3, <3>4, <3>5 DEF Remains, o
    <3>7. DOMAIN dir' = DOMAIN dir /\ dir'[n] = f /\ \A m \in DOMAIN dir' \ {n} : dir'[m] = dir[m]
      BY <2>1, <2>4
    <3> QED
      BY <2>1, <2>2, <3>6, <3>7, DirTouched DEF DirInv
  <2> QED
    BY <1>2, <2>3, <2>4 DEF SettleFile
<1> QED
  BY <1>1, <1>2 DEF Power

\* No step puts anything else into the directory.
LEMMA DirStep == TypeInv /\ Kept /\ DirInv /\ [Next]_vars => DirInv'
<1> SUFFICES ASSUME TypeInv, Kept, DirInv, [Next]_vars PROVE DirInv'
  OBVIOUS
<1>1. CASE Plan \/ TakeFrame \/ UNCHANGED vars
  BY <1>1, DirSame DEF Plan, PlanShardChunk, StartPipeline, TakeFrame, vars, plan_vars, writer_vars,
     disk_vars
<1> QED
  BY <1>1, DirPlanFrame, DirOpen, DirWrite, DirClose, DirFinish, DirFail, DirPower
     DEF Next, Write, Terminated

----------------------------------------------------------------------------
(* AcceptedIsComplete. *)

\* The shard of an earlier run is well formed.
LEMMA ForeignTyped == Foreign \in File /\ Foreign.global # << >> /\ Foreign.global[1].archive_id = 2
<1> DEFINE g == [archive_id |-> 2, shard_count |-> 1, global_chunk_count |-> 1,
                 padded_plaintext_size |-> ChunkSize, final_plaintext_chunk_len |-> ChunkSize]
           sh == MakeShardHeader(0, 0, 1, FrameSize(ChunkSize), << >>)
           fr == MakeFrame(0, 0, 0, ChunkSize, TRUE, PublicHeaderHash(g, sh))
<1>1. g \in GlobalHeader
  BY FormatAssumption DEF GlobalHeader
<1>2. sh \in ShardHeader /\ Canonical(sh) = sh
  BY FormatAssumption DEF MakeShardHeader, ShardHeader, Canonical, FrameSize
<1>3. PublicHeaderHash(g, sh) = <<g, sh>> /\ HeaderMac(g, sh) = <<g, sh>>
  BY <1>2 DEF PublicHeaderHash, HeaderMac
<1>4. Foreign = MakeFile(<<g>>, <<WithMac(g, sh)>>, <<fr>>)
  BY DEF Foreign
<1> HIDE DEF g, sh
<1>5. WithMac(g, sh) \in SomeShardHeader
  BY <1>1, <1>2, <1>3 DEF WithMac, ShardHeader, SomeShardHeader
<1>6. fr \in Frame
  BY <1>1, <1>2, <1>3, FormatAssumption DEF MakeFrame, Frame
<1> HIDE DEF fr
<1>7. <<fr>> \in Seq(Frame)
  BY <1>6
<1>8. Foreign \in File
  BY <1>1, <1>4, <1>5, <1>7 DEF MakeFile, File
<1>9. Foreign.global = <<g>> /\ g.archive_id = 2
  BY <1>4 DEF MakeFile, g
<1> QED
  BY <1>8, <1>9

\* Whatever the state of the directory, an accepted one is sound.
LEMMA AcceptedIsSound == ASSUME DirInv, Accepts(dir) PROVE Sound(dir)
<1>1. \A n \in DOMAIN dir : dir[n] \in File
  BY ForeignTyped DEF DirInv, Written
<1> QED
  BY <1>1 DEF Accepts, Discover, Sound

\* Decryption accepts complete and undamaged archives only: the writer's
\* frames carry the index, length and flag of their chunk, a reader that has
\* seen all indexes has seen the final frame, and the final frame tells how
\* many there are.
LEMMA AcceptedComplete == DirInv /\ actual \in Layouts => AcceptedIsComplete
<1> SUFFICES ASSUME DirInv, actual \in Layouts, Accepts(dir)
             PROVE  LET id == GlobalOf(dir).archive_id
                        c == Contents(dir)
                    IN  /\ [i \in 1..Len(c) |-> <<c[i].index, c[i].len>>] = Meant(id)
                        /\ \A i \in 1..Len(c) : c[i].intact
  BY DEF AcceptedIsComplete, GlobalOf
<1> DEFINE g == GlobalOf(dir)
           c == Contents(dir)
           from(x) == \E n \in DOMAIN dir : \E k \in 1..Len(dir[n].frames) : x = dir[n].frames[k]
<1>1. Sound(dir)
  BY AcceptedIsSound
<1>2. /\ c \in Seq(Frame) /\ Len(c) = g.global_chunk_count
      /\ \A i \in 1..Len(c) : c[i].index = i - 1 /\ from(c[i])
  BY <1>1, ReadInOrder
<1>3. DOMAIN dir # {} /\ \A n \in DOMAIN dir : dir[n].global # << >> /\ dir[n].global[1] = g
  <2>1. PICK m \in DOMAIN dir : g = dir[m].global[1]
    BY <1>1 DEF Sound, GlobalOf
  <2>2. \A n \in DOMAIN dir : dir[n].global = dir[m].global
    BY <1>1 DEF Sound, ValidateShards
  <2> QED
    BY <1>1, <2>1, <2>2 DEF Sound, ReadShardInfo
<1>4. \A n \in DOMAIN dir : \A k \in 1..Len(dir[n].frames) :
         /\ dir[n].frames[k].intact
         /\ dir[n].frames[k].final <=> dir[n].frames[k].index = g.global_chunk_count - 1
  BY <1>1, <1>3 DEF Sound, ReadShard, Opens, ReadFrame
<1>5. g.global_chunk_count \in Nat /\ g.global_chunk_count > 0
  <2>1. PICK m \in DOMAIN dir : TRUE
    BY <1>3
  <2>2. dir[m] \in File /\ ValidGlobal(g)
    BY <1>1, <1>3 DEF Sound, ReadShardInfo
  <2>3. g \in GlobalHeader
    BY <2>2, <1>3 DEF File
  <2> QED
    BY <2>2, <2>3 DEF ValidGlobal, GlobalHeader
<1> HIDE DEF g, c
<1>6. CASE \E n \in DOMAIN dir : n \in created
  <2>1. g.archive_id = 1
    BY <1>3, <1>6 DEF DirInv, Written
  <2>2. \A n \in DOMAIN dir : n \in created
    BY <2>1, <1>3, ForeignTyped DEF DirInv
  <2>3. \A i \in 1..Len(c) : /\ c[i].len = ChunkLen(actual, i - 1)
                             /\ c[i].final = (i - 1 = actual.count - 1)
                             /\ c[i].final <=> i - 1 = g.global_chunk_count - 1
                             /\ c[i].intact
    <3> SUFFICES ASSUME NEW i \in 1..Len(c)
                 PROVE  /\ c[i].len = ChunkLen(actual, i - 1)
                        /\ c[i].final = (i - 1 = actual.count - 1)
                        /\ c[i].final <=> i - 1 = g.global_chunk_count - 1
                        /\ c[i].intact
      OBVIOUS
    <3>0. PICK n \in DOMAIN dir : \E k \in 1..Len(dir[n].frames) : c[i] = dir[n].frames[k]
      BY <1>2
    <3>1. PICK k \in 1..Len(dir[n].frames) : c[i] = dir[n].frames[k]
      BY <3>0
    <3>2. MeantFrame(c[i])
      BY <3>1, <2>2 DEF DirInv, Written
    <3>3. c[i].index = i - 1
      BY <1>2
    <3>4. c[i].intact /\ (c[i].final <=> c[i].index = g.global_chunk_count - 1)
      BY <3>1, <1>4
    <3> QED
      BY <3>2, <3>3, <3>4, Zenon DEF MeantFrame, IsFinal
  <2>4. actual.count \in Nat \ {0}
    BY LayoutsTyped
  <2>5. actual.count = g.global_chunk_count
    <3>1. Len(c) \in 1..Len(c) /\ Len(c) - 1 = g.global_chunk_count - 1
      BY <1>2, <1>5
    <3>2. Len(c) - 1 = actual.count - 1
      BY <2>3, <3>1, Zenon
    <3> QED
      BY <1>2, <1>5, <2>4, <3>2
  <2>6. [i \in 1..Len(c) |-> <<c[i].index, c[i].len>>]
            = [i \in 1..actual.count |-> <<i - 1, ChunkLen(actual, i - 1)>>]
    BY <1>2, <2>3, <2>5
  <2> QED
    BY <2>1, <2>3, <2>6 DEF Meant, g, c
<1>7. CASE \A n \in DOMAIN dir : n \notin created
  <2>1. \A n \in DOMAIN dir : dir[n] = Foreign
    BY <1>7 DEF DirInv
  <2>2. Foreign.frames = <<Foreign.frames[1]>> /\ Foreign.frames[1].len = ChunkSize
        /\ Foreign.global[1].global_chunk_count = 1
    BY DEF Foreign, MakeFile, MakeFrame
  <2>3. g.archive_id = 2 /\ g.global_chunk_count = 1
    BY <1>3, <2>1, <2>2, ForeignTyped
  <2>4. Len(c) = 1 /\ c[1].index = 0 /\ c[1].len = ChunkSize /\ c[1].intact
    <3>1. Len(c) = 1 /\ c[1].index = 0 /\ from(c[1])
      BY <1>2, <2>3
    <3>2. Len(Foreign.frames) = 1
      BY <2>2
    <3> QED
      BY <3>1, <3>2, <2>1, <2>2, <1>4
  <2>5. [i \in 1..Len(c) |-> <<c[i].index, c[i].len>>] = << <<0, ChunkSize>> >>
    BY <2>4
  <2> QED
    BY <2>3, <2>4, <2>5 DEF Meant, g, c
<1> QED
  BY <1>6, <1>7

\* Whatever state a run of encrypt, its failure, its clean-up or a power loss
\* leaves the directory in, and whatever archive was there before, decryption
\* accepts it only if it is exactly one archive, complete and undamaged.
THEOREM AcceptedAlwaysComplete == Spec => []AcceptedIsComplete
<1>1. Init => Kept /\ DirInv
  BY DEF Init, Kept, DirInv
<1>2. TypeInv /\ DirInv => AcceptedIsComplete
  BY AcceptedComplete DEF TypeInv, TypeOK
<1> QED
  BY <1>1, <1>2, TypeInit, TypeStep, KeptStep, DirStep, PTL DEF Spec

----------------------------------------------------------------------------
(* SuccessIsReadable: the shards planned are the shards written. *)

\* The payload of count chunks from the chunk first on.
PayloadOf(first, count) ==
    count * FrameSize(ChunkSize)
        - (IF first + count = params.count THEN ChunkSize - params.last ELSE 0)
End(p) == p.first + p.count

\* Shard k of the plan adjoins the one before, every chunk of it fits behind the
\* others, and the chunk after it does not.
PlanShape(p, k, start, more) ==
    /\ p.count > 0 /\ End(p) <= params.count /\ k - 1 <= p.first
    /\ p.payload = PayloadOf(p.first, p.count)
    /\ p.first = start
    /\ \A c \in 1..(p.count - 1) :
          ~StartsShard(PayloadOf(p.first, c), ChunkLen(Announced, p.first + c))
    /\ more => StartsShard(p.payload, ChunkLen(Announced, End(p)))
Start(k) == IF k = 1 THEN 0 ELSE End(plans[k - 1])
PlannedShard(k) == PlanShape(plans[k], k, Start(k), k < Len(plans))

PlansInv ==
    /\ \A k \in 1..Len(plans) : PlannedShard(k)
    /\ wpc \notin {"plan", "lost"} => plans # << >> /\ End(plans[Len(plans)]) = params.count

\* Nothing has gone wrong, and what there is must survive.
Standing ==
    \/ wpc \in {"ready", "roll", "open", "write", "full", "finish", "rewrite", "flush", "success"}
    \/ wpc = "lost_after_success" /\ params.mode = "on"
Ending == {"rewrite", "flush", "success", "lost_after_success"}

\* The writer's counters follow the plan.
ShardsInv ==
    LET n == Len(finalized) IN
    /\ n <= Len(plans)
    /\ \A k \in 1..n : /\ finalized[k].index = k - 1 /\ finalized[k].first = plans[k].first
                       /\ finalized[k].count = plans[k].count
                       /\ finalized[k].payload = plans[k].payload
    /\ stream = "closed" =>
          /\ current.path = << >> /\ next.shard = n
          /\ next.chunk = IF n = 0 THEN 0 ELSE End(plans[n])
    /\ stream # "closed" =>
          /\ n < Len(plans) /\ current.index = n /\ next.shard = n + 1
          /\ current.first = plans[n + 1].first /\ current.count <= plans[n + 1].count
          /\ current.payload = PayloadOf(current.first, current.count)
          /\ next.chunk = current.first + current.count
          /\ wpc # "write" => current.count > 0

ChunksInv ==
    /\ next.chunk <= params.count
    /\ next.final_len = IF next.chunk = params.count THEN params.last ELSE 0
    /\ Running => planned.next = next.chunk + Len(in_flight) /\ planned.next <= params.count
    /\ wpc \in {"open", "write", "roll"} => Head(in_flight).index = next.chunk
    /\ wpc \in {"finish"} \cup Ending => next.chunk = params.count
    /\ wpc \in Ending => Len(finalized) = Len(plans)

CountInv == actual = Announced /\ Standing => ShardsInv /\ ChunksInv

\* The frames of shard k of the plan, the first count of them.
Holds(f, k, count) ==
    /\ f.global = <<Announcement>> /\ Len(f.frames) = count
    /\ \A j \in 1..count : /\ f.frames[j].shard_index = k - 1 /\ f.frames[j].intact
                           /\ f.frames[j].index = plans[k].first + j - 1
                           /\ f.frames[j].aad = ShardHash(k - 1)

\* Frames in flight were sealed with the hash of the shard they are for.
Sealed(q) == \A j \in 1..Len(q) : q[j].intact /\ q[j].aad = ShardHash(q[j].shard_index)

\* File f is shard k, whose counters are s.
ShardFile(f, k, s) == Holds(f, k, s.count) /\ PayloadSize(f.frames) = s.payload

\* The files are the shards, and no two are the same file.
FilesOf(fin, cur, st, d, made) ==
    /\ \A k \in 1..Len(fin) : /\ fin[k].path[1] \in DOMAIN d
                              /\ ShardFile(d[fin[k].path[1]], k, fin[k])
                              /\ d[fin[k].path[1]].shard = <<ShardHeaderOf(fin[k], Announcement)>>
    /\ st # "closed" => /\ cur.path[1] \in DOMAIN d
                        /\ ShardFile(d[cur.path[1]], Len(fin) + 1, cur)
                        /\ \A k \in 1..Len(fin) : fin[k].path[1] # cur.path[1]
    /\ \A j, k \in 1..Len(fin) : fin[j].path[1] = fin[k].path[1] => j = k
    /\ \A n \in made : \/ st # "closed" /\ n = cur.path[1]
                       \/ \E k \in 1..Len(fin) : n = fin[k].path[1]

ContentInv ==
    (Running => Sealed(in_flight)) /\ FilesOf(finalized, current, stream, dir, created)

FileInv == actual = Announced /\ Standing => ContentInv

\* With --durability=on what has been flushed stays.
SyncInv ==
    /\ wpc \in {"finish"} \cup Ending => actual = Announced
    /\ Running \/ wpc = "finish" => at = 0
    /\ params.mode = "on" /\ wpc \in Ending =>
          /\ \A k \in 1..at : Path(k) \in synced
          /\ wpc \in {"success", "lost_after_success"} =>
                 at = Len(finalized) /\ DOMAIN dir \subseteq linked

\* Before the pipeline starts nothing has been written.
FreshInv ==
    wpc = "plan" => /\ planned.next = 0 /\ in_flight = << >> /\ finalized = << >> /\ at = 0
                    /\ current = NoShard /\ stream = "closed" /\ created = {}
                    /\ next = [shard |-> 0, chunk |-> 0, final_len |-> 0]

ReadableInv == PlansInv /\ FreshInv /\ CountInv /\ FileInv /\ SyncInv

\* The parameters never change, and the plan only while it is made.
LEMMA PlanFixed ==
    [Next]_vars => UNCHANGED <<params, actual>> /\ (UNCHANGED plans \/ PlanShardChunk)
  BY DEF Next, Plan, PlanShardChunk, StartPipeline, PlanFrame, Write, TakeFrame, OpenShard, WriteFrame,
     CloseShard, Finish, CallFinish, RewriteShard, FlushShard, FlushDir, Fail, PipelineFails,
     AbortCurrent, AbortShard, Power, PowerLoss, SettleFile, Terminated, vars, plan_vars

\* Sizes of frames, and of payloads with one chunk more.
LEMMA Sizes ==
    ASSUME TypeInv, NEW f \in Nat, NEW c \in Nat, f + c < params.count
    PROVE  LET len == ChunkLen(Announced, f + c) IN
           /\ len \in 1..ChunkSize /\ FrameSize(len) \in Nat \ {0}
           /\ PayloadOf(f, c) \in Nat /\ (c = 0 => PayloadOf(f, c) = 0)
           /\ PayloadOf(f, c + 1) = PayloadOf(f, c) + FrameSize(len)
<1>1. params.count \in Nat \ {0} /\ params.last \in 1..ChunkSize
      /\ ChunkSize \in Nat \ {0} /\ FrameOverhead \in Nat \ {0}
  BY FormatAssumption DEF TypeInv, OptionsOK
<1> DEFINE len == ChunkLen(Announced, f + c)
           K == FrameSize(ChunkSize)
<1>2. len = IF f + c = params.count - 1 THEN params.last ELSE ChunkSize
  BY DEF ChunkLen, Announced
<1>3. len \in 1..ChunkSize /\ FrameSize(len) \in Nat \ {0}
  BY <1>1, <1>2 DEF FrameSize
<1>4. K \in Nat /\ FrameSize(len) = K - (ChunkSize - len)
  BY <1>1, <1>3 DEF FrameSize
<1>5. PayloadOf(f, c) = c * K
  BY <1>1, <1>4 DEF PayloadOf
<1>6. PayloadOf(f, c + 1) = (c + 1) * K - (ChunkSize - len)
  <2>1. f + (c + 1) = params.count <=> f + c = params.count - 1
    BY <1>1
  <2>2. CASE f + c = params.count - 1
    BY <2>1, <2>2, <1>2 DEF PayloadOf
  <2>3. CASE f + c # params.count - 1
    <3>1. len = ChunkSize /\ ChunkSize - len = 0
      BY <2>3, <1>1, <1>2
    <3>2. PayloadOf(f, c + 1) = (c + 1) * K - 0
      BY <2>1, <2>3 DEF PayloadOf
    <3> QED
      BY <3>1, <3>2
  <2> QED
    BY <2>2, <2>3
<1> HIDE DEF K, len
<1>7. c * K \in Nat /\ (c + 1) * K = c * K + K /\ (c = 0 => c * K = 0)
  BY <1>4
<1> QED
  BY <1>1, <1>3, <1>4, <1>5, <1>6, <1>7 DEF len

\* The shards of the plan have numbers.
LEMMA PlanTyped ==
    ASSUME TypeInv, NEW k \in 1..Len(plans)
    PROVE  plans[k].first \in Nat /\ plans[k].count \in Nat /\ plans[k].payload \in Nat
           /\ Len(plans) \in Nat
<1>1. plans \in Seq([first : Nat, count : Nat, payload : Nat])
  BY DEF TypeInv, TypeOK
<1>2. plans[k] \in [first : Nat, count : Nat, payload : Nat] /\ Len(plans) \in Nat
  BY <1>1, ElementOfSeq, LenProperties
<1> QED
  BY <1>2

\* The shape of a shard depends on the parameters only.
LEMMA ShapeFixed ==
    ASSUME UNCHANGED params, NEW k
    PROVE  PlannedShard(k)' <=> PlanShape(plans'[k], k, Start(k)', k < Len(plans'))
  BY DEF PlannedShard, PlanShape, PayloadOf, End, StartsShard, ChunkLen, Announced, MaxPayload, FrameSize

\* plan_shards() chunk by chunk.
LEMMA PlansStep == TypeInv /\ PlansInv /\ [Next]_vars => PlansInv'
<1> SUFFICES ASSUME TypeInv, PlansInv, [Next]_vars PROVE PlansInv'
  OBVIOUS
<1>1. CASE UNCHANGED plans
  <2>1. UNCHANGED params
    BY PlanFixed
  <2>2. \A k \in 1..Len(plans') : PlannedShard(k)'
    BY <1>1, <2>1, ShapeFixed DEF PlansInv, PlannedShard, Start, End
  <2>3. wpc' \notin {"plan", "lost"} => wpc \notin {"plan", "lost"} \/ StartPipeline
    BY DEF Next, Plan, PlanShardChunk, StartPipeline, PlanFrame, Write, TakeFrame, OpenShard, WriteFrame,
       FrameWritten, FrameTorn, CloseShard, Finish, CallFinish, RewriteShard, FlushShard, FlushDir, Fail,
       PipelineFails, AbortCurrent, AbortShard, Power, PowerLoss, SettleFile, Terminated, vars, Lost,
       Running
  <2>4. StartPipeline => plans # << >> /\ End(plans[Len(plans)]) = params.count
    BY DEF StartPipeline, PlannedChunks, End, TypeInv, OptionsOK
  <2> QED
    BY <1>1, <2>1, <2>2, <2>3, <2>4 DEF PlansInv, End
<1>2. CASE PlanShardChunk
  <2>0. PICK n, i : n = Len(plans) /\ i = PlannedChunks
    OBVIOUS
  <2> DEFINE len == ChunkLen(Announced, i)
  <2>1. wpc = "plan" /\ wpc' = "plan" /\ i < params.count /\ UNCHANGED params
    BY <1>2, <2>0 DEF PlanShardChunk
  <2>2. plans \in Seq([first : Nat, count : Nat, payload : Nat]) /\ n \in Nat
        /\ params.count \in Nat \ {0} /\ (n = 0 <=> plans = << >>)
    BY <2>0, EmptySeq DEF TypeInv, TypeOK, OptionsOK
  <2>3. i \in Nat /\ i >= n /\ (n = 0 => i = 0) /\ (n # 0 => i = End(plans[n]) /\ PlannedShard(n))
    <3>1. CASE n = 0
      BY <2>0, <3>1, <2>2 DEF PlannedChunks
    <3>2. CASE n # 0
      <4>1. n \in 1..n /\ plans # << >>
        BY <3>2, <2>2
      <4>2. i = End(plans[n]) /\ PlannedShard(n) /\ plans[n].first \in Nat /\ plans[n].count \in Nat
        BY <2>0, <4>1, PlanTyped DEF PlannedChunks, End, PlansInv
      <4>3. plans[n].count > 0 /\ n - 1 <= plans[n].first
        BY <4>2 DEF PlannedShard, PlanShape
      <4>4. i = plans[n].first + plans[n].count
        BY <4>2 DEF End
      <4>5. i \in Nat /\ i >= n
        <5>1. n \in Nat
          BY <2>2
        <5>2. PICK a \in Nat, b \in Nat : b > 0 /\ n - 1 <= a /\ i = a + b
          BY <4>2, <4>3, <4>4
        <5> QED
          BY <5>1, <5>2
      <4> QED
        BY <3>2, <4>2, <4>5
    <3> QED
      BY <3>1, <3>2
  <2>4. len \in Nat /\ FrameSize(len) = PayloadOf(i, 1)
    <3>1. i + 0 = i /\ i + 0 < params.count /\ 0 + 1 = 1
      BY <2>1, <2>2, <2>3
    <3>2. ChunkLen(Announced, i + 0) \in 1..ChunkSize /\ PayloadOf(i, 0) = 0
          /\ FrameSize(ChunkLen(Announced, i + 0)) \in Nat
          /\ PayloadOf(i, 0 + 1) = PayloadOf(i, 0) + FrameSize(ChunkLen(Announced, i + 0))
      BY <3>1, <2>3, Sizes
    <3> QED
      BY <3>1, <3>2
  <2> HIDE DEF len
  <2>5. CASE plans = << >> \/ StartsShard(plans[n].payload, len)
    <3> DEFINE q == [first |-> i, count |-> 1, payload |-> FrameSize(len)]
    <3>1. plans' = Append(plans, q)
      BY <1>2, <2>0, <2>5 DEF PlanShardChunk, len
    <3>2. Len(plans') = n + 1 /\ plans'[n + 1] = q /\ \A k \in 1..n : plans'[k] = plans[k]
      BY <2>0, <3>1, <2>2
    <3> HIDE DEF q
    <3>3. \A k \in 1..(n + 1) : Start(k)' = IF k = 1 THEN 0 ELSE End(plans[k - 1])
      <4> SUFFICES ASSUME NEW k \in 1..(n + 1), k # 1 PROVE End(plans'[k - 1]) = End(plans[k - 1])
        BY DEF Start, End
      <4>1. k - 1 \in 1..n
        BY <2>2
      <4> QED
        BY <4>1, <3>2
    <3>4. ASSUME NEW k \in 1..n PROVE PlannedShard(k)'
      <4>1. PlanShape(plans[k], k, Start(k), k < n) /\ plans'[k] = plans[k] /\ Start(k)' = Start(k)
        BY <2>0, <2>2, <3>2, <3>3 DEF PlansInv, PlannedShard, Start
      <4>2. StartsShard(plans[k].payload, ChunkLen(Announced, End(plans[k])))
        <5>1. CASE k = n
          BY <5>1, <2>2, <2>3, <2>5 DEF len
        <5>2. CASE k # n
          BY <5>2, <4>1, <2>2 DEF PlanShape
        <5> QED
          BY <5>1, <5>2
      <4>3. PlanShape(plans'[k], k, Start(k)', k < Len(plans'))
        BY <4>1, <4>2 DEF PlanShape
      <4> QED
        BY <4>3, <2>1, ShapeFixed
    <3>5. PlannedShard(n + 1)'
      <4>1. q.count = 1 /\ q.first = i /\ q.payload = FrameSize(len) /\ End(q) = i + 1
        BY DEF End, q
      <4>2. Start(n + 1)' = i
        <5>1. n + 1 \in 1..(n + 1) /\ (n + 1) - 1 = n /\ (n + 1 = 1 <=> n = 0)
          BY <2>2
        <5>2. Start(n + 1)' = IF n = 0 THEN 0 ELSE End(plans[n])
          BY <5>1, <3>3
        <5> QED
          BY <5>2, <2>3
      <4>3. End(q) <= params.count /\ (n + 1) - 1 <= q.first /\ q.count - 1 = 0 /\ ~(n + 1 < Len(plans'))
        BY <4>1, <2>1, <2>2, <2>3, <3>2
      <4>4. PlanShape(q, n + 1, i, n + 1 < Len(plans'))
        BY <4>1, <4>3, <2>4 DEF PlanShape
      <4>5. PlanShape(plans'[n + 1], n + 1, Start(n + 1)', n + 1 < Len(plans'))
        BY <4>2, <4>4, <3>2
      <4> QED
        BY <4>5, <2>1, ShapeFixed
    <3>6. \A k \in 1..Len(plans') : k \in 1..n \/ k = n + 1
      BY <3>2, <2>2
    <3>7. \A k \in 1..Len(plans') : PlannedShard(k)'
      BY <3>4, <3>5, <3>6
    <3> QED
      BY <2>1, <3>7 DEF PlansInv
  <2>6. CASE plans # << >> /\ ~StartsShard(plans[n].payload, len)
    <3> DEFINE o == plans[n]
               q == [first |-> o.first, count |-> o.count + 1, payload |-> o.payload + FrameSize(len)]
    <3>1. plans' = [plans EXCEPT ![n] = q] /\ n \in 1..n
      BY <1>2, <2>0, <2>2, <2>3, <2>6 DEF PlanShardChunk, len
    <3>2. Len(plans') = n /\ plans'[n] = q /\ \A k \in 1..(n - 1) : plans'[k] = plans[k]
      BY <2>0, <3>1, <2>2
    <3>3. o.first \in Nat /\ o.count \in Nat /\ o.payload \in Nat
      BY <2>0, <3>1, PlanTyped
    <3>4. PlanShape(o, n, Start(n), n < n) /\ i = o.first + o.count
      BY <2>0, <3>1, <2>2, <2>3 DEF End, PlannedShard
    <3>5. q.count = o.count + 1 /\ q.first = o.first /\ q.payload = o.payload + FrameSize(len)
      OBVIOUS
    <3> HIDE DEF q, o
    <3>6. \A k \in 1..n : Start(k)' = Start(k)
      <4> SUFFICES ASSUME NEW k \in 1..n, k # 1 PROVE End(plans'[k - 1]) = End(plans[k - 1])
        BY DEF Start, End
      <4>1. k - 1 \in 1..(n - 1)
        BY <2>2
      <4> QED
        BY <4>1, <3>2
    <3>7. ASSUME NEW k \in 1..(n - 1) PROVE PlannedShard(k)'
      <4>1. k \in 1..n
        BY <2>2
      <4>2. PlanShape(plans[k], k, Start(k), k < n) /\ plans'[k] = plans[k] /\ Start(k)' = Start(k)
        BY <2>0, <4>1, <3>2, <3>6 DEF PlansInv, PlannedShard
      <4> QED
        BY <4>2, <2>1, <3>2, ShapeFixed
    <3>8. PlannedShard(n)'
      <4>1. o.payload = PayloadOf(o.first, o.count) /\ o.count > 0 /\ n - 1 <= o.first /\ o.first = Start(n)
            /\ \A c \in 1..(o.count - 1) :
                  ~StartsShard(PayloadOf(o.first, c), ChunkLen(Announced, o.first + c))
        BY <3>4 DEF PlanShape
      <4>2. q.payload = PayloadOf(q.first, q.count)
        <5>1. o.first + o.count < params.count
          BY <2>1, <3>4
        <5>2. PayloadOf(o.first, o.count + 1)
                 = PayloadOf(o.first, o.count) + FrameSize(ChunkLen(Announced, o.first + o.count))
          BY <5>1, <3>3, Sizes
        <5> QED
          BY <5>2, <4>1, <3>4, <3>5 DEF len
      <4>3. ASSUME NEW c \in 1..(q.count - 1)
            PROVE  ~StartsShard(PayloadOf(q.first, c), ChunkLen(Announced, q.first + c))
        <5>1. CASE c = o.count
          BY <5>1, <2>6, <3>4, <3>5, <4>1 DEF o, len
        <5>2. CASE c # o.count
          <6>1. c \in 1..(o.count - 1)
            BY <5>2, <3>3, <3>5
          <6> QED
            BY <6>1, <4>1, <3>5
        <5> QED
          BY <5>1, <5>2
      <4>4. q.count > 0 /\ End(q) <= params.count /\ n - 1 <= q.first /\ q.first = Start(n) /\ ~(n < n)
        <5>1. End(q) = i + 1
          BY <3>3, <3>4, <3>5 DEF End
        <5> QED
          BY <5>1, <4>1, <2>1, <2>2, <2>3, <3>3, <3>5
      <4>5. PlanShape(q, n, Start(n), n < n)
        BY <4>2, <4>3, <4>4 DEF PlanShape
      <4>6. PlanShape(plans'[n], n, Start(n)', n < Len(plans'))
        BY <4>5, <3>1, <3>2, <3>6
      <4> QED
        BY <4>6, <2>1, ShapeFixed
    <3>9. \A k \in 1..Len(plans') : k = n \/ k \in 1..(n - 1)
      BY <3>2, <2>2
    <3>10. \A k \in 1..Len(plans') : PlannedShard(k)'
      BY <3>7, <3>8, <3>9
    <3> QED
      BY <2>1, <3>10 DEF PlansInv
  <2> QED
    BY <2>5, <2>6
<1> QED
  BY <1>1, <1>2, PlanFixed

\* What the writer has to know of a complete plan.
LEMMA PlanFacts ==
    ASSUME TypeInv, PlansInv, wpc \notin {"plan", "lost"}
    PROVE  /\ Len(plans) \in Nat \ {0} /\ plans[1].first = 0 /\ params.count \in Nat \ {0}
           /\ \A k \in 1..Len(plans) :
                 /\ plans[k].first \in Nat /\ plans[k].count \in Nat \ {0} /\ plans[k].payload \in Nat
                 /\ plans[k].payload = PayloadOf(plans[k].first, plans[k].count)
                 /\ End(plans[k]) \in Nat /\ End(plans[k]) <= params.count
                 /\ \A c \in 1..(plans[k].count - 1) :
                       ~StartsShard(PayloadOf(plans[k].first, c),
                                    ChunkLen(Announced, plans[k].first + c))
                 /\ k < Len(plans) =>
                       StartsShard(plans[k].payload, ChunkLen(Announced, End(plans[k])))
                 /\ k < Len(plans) => plans[k + 1].first = End(plans[k])
                 /\ End(plans[k]) = params.count <=> k = Len(plans)
<1>1. Len(plans) \in Nat \ {0} /\ End(plans[Len(plans)]) = params.count /\ params.count \in Nat \ {0}
  <2>1. plans # << >> /\ End(plans[Len(plans)]) = params.count
    BY DEF PlansInv
  <2>2. plans \in Seq([first : Nat, count : Nat, payload : Nat])
    BY DEF TypeInv, TypeOK
  <2> QED
    BY <2>1, <2>2, EmptySeq, LenProperties DEF TypeInv, OptionsOK
<1>2. ASSUME NEW k \in 1..Len(plans)
      PROVE  /\ plans[k].first \in Nat /\ plans[k].count \in Nat \ {0} /\ plans[k].payload \in Nat
             /\ End(plans[k]) \in Nat /\ End(plans[k]) <= params.count
             /\ End(plans[k]) > plans[k].first
             /\ PlanShape(plans[k], k, Start(k), k < Len(plans))
  <2>1. PlanShape(plans[k], k, Start(k), k < Len(plans))
    BY DEF PlansInv, PlannedShard
  <2>2. plans[k].count > 0 /\ End(plans[k]) <= params.count
    BY <2>1 DEF PlanShape
  <2>3. plans[k].first \in Nat /\ plans[k].count \in Nat /\ plans[k].payload \in Nat
    BY PlanTyped
  <2>4. End(plans[k]) = plans[k].first + plans[k].count
    BY DEF End
  <2> QED
    BY <2>1, <2>2, <2>3, <2>4
<1>3. ASSUME NEW k \in 1..Len(plans), k < Len(plans)
      PROVE  plans[k + 1].first = End(plans[k]) /\ End(plans[k]) # params.count
  <2>1. k + 1 \in 1..Len(plans) /\ k + 1 # 1 /\ (k + 1) - 1 = k
    BY <1>1, <1>3
  <2>2. plans[k + 1].first = Start(k + 1)
    BY <1>2, <2>1 DEF PlanShape
  <2>3. Start(k + 1) = End(plans[k])
    BY <2>1 DEF Start
  <2>4. plans[k + 1].first \in Nat /\ End(plans[k + 1]) \in Nat
        /\ End(plans[k + 1]) <= params.count /\ End(plans[k + 1]) > plans[k + 1].first
    BY <1>2, <2>1
  <2> QED
    BY <1>1, <2>2, <2>3, <2>4
<1>4. plans[1].first = 0
  <2>1. 1 \in 1..Len(plans)
    BY <1>1
  <2> QED
    BY <1>2, <2>1 DEF PlanShape, Start
<1>5. ASSUME NEW k \in 1..Len(plans) PROVE End(plans[k]) = params.count <=> k = Len(plans)
  <2>1. k < Len(plans) \/ k = Len(plans)
    BY <1>1
  <2> QED
    BY <1>1, <1>3, <2>1
<1> QED
  BY <1>1, <1>2, <1>3, <1>4, <1>5 DEF PlanShape

\* How many chunks are left decides how many shards are.
Base == TypeInv /\ Placed /\ PlansInv /\ DirInv /\ actual = Announced /\ wpc \notin {"plan", "lost"}

LEMMA ClosedPlace ==
    ASSUME Base, ShardsInv, ChunksInv, stream = "closed"
    PROVE  /\ Len(finalized) \in 0..Len(plans) /\ next.chunk \in Nat
           /\ Len(finalized) < Len(plans) => plans[Len(finalized) + 1].first = next.chunk
           /\ Len(finalized) = Len(plans) <=> next.chunk = params.count
<1> DEFINE n == Len(finalized)
<1>1. n \in Nat /\ n <= Len(plans) /\ next.chunk = (IF n = 0 THEN 0 ELSE End(plans[n]))
      /\ next.chunk \in Nat
  BY LenProperties DEF ShardsInv, Base, TypeInv, TypeOK
<1>2. Len(plans) \in Nat \ {0} /\ plans[1].first = 0 /\ params.count \in Nat \ {0}
  BY PlanFacts DEF Base
<1>3. CASE n = 0
  BY <1>1, <1>2, <1>3
<1>4. CASE n # 0
  <2>1. n \in 1..Len(plans) /\ next.chunk = End(plans[n])
    BY <1>1, <1>2, <1>4
  <2> HIDE DEF n
  <2>2. /\ n < Len(plans) => plans[n + 1].first = End(plans[n])
        /\ End(plans[n]) = params.count <=> n = Len(plans)
    BY <2>1, PlanFacts DEF Base
  <2> QED
    BY <1>1, <1>2, <2>1, <2>2 DEF n
<1> QED
  BY <1>3, <1>4

\* The open shard is full, by the plan, exactly when the writer starts the next.
LEMMA OpenPlace ==
    ASSUME Base, ShardsInv, ChunksInv, stream # "closed", NEW n, n = Len(finalized),
           NEW pl, pl = plans[n + 1]
    PROVE  /\ n \in Nat /\ n + 1 \in 1..Len(plans) /\ n < Len(plans) /\ current.count \in Nat
           /\ pl.first \in Nat /\ pl.count \in Nat \ {0} /\ current.first = pl.first
           /\ current.count <= pl.count /\ current.payload \in Nat
           /\ current.payload = PayloadOf(pl.first, current.count)
           /\ next.chunk = pl.first + current.count
           /\ current.count = pl.count => next.chunk = End(pl) /\ current.payload = pl.payload
           /\ next.chunk < params.count
                 /\ ~StartsShard(current.payload, ChunkLen(Announced, next.chunk))
                 => current.count < pl.count
           /\ current.count > 0
                 /\ (next.chunk = params.count
                     \/ StartsShard(current.payload, ChunkLen(Announced, next.chunk)))
                 => current.count = pl.count
           /\ End(pl) = params.count <=> n + 1 = Len(plans)
<1>1. /\ n < Len(plans) /\ current.index = n /\ next.shard = n + 1
      /\ current.first = pl.first /\ current.count <= pl.count
      /\ current.payload = PayloadOf(current.first, current.count)
      /\ next.chunk = current.first + current.count
  BY DEF ShardsInv
<1>2. n \in Nat /\ Len(plans) \in Nat /\ n + 1 \in 1..Len(plans)
  <2>1. n \in Nat
    BY LenProperties DEF Base, TypeInv, TypeOK
  <2>2. Len(plans) \in Nat
    BY PlanFacts DEF Base
  <2> QED
    BY <1>1, <2>1, <2>2
<1>3. current.count \in Nat /\ current.payload \in Nat /\ next.chunk <= params.count
  BY OpenStream DEF Base, ChunksInv
<1>4. /\ pl.first \in Nat /\ pl.count \in Nat \ {0} /\ params.count \in Nat
      /\ pl.payload = PayloadOf(pl.first, pl.count)
      /\ End(pl) \in Nat /\ End(pl) <= params.count /\ End(pl) = pl.first + pl.count
      /\ \A c \in 1..(pl.count - 1) :
            ~StartsShard(PayloadOf(pl.first, c), ChunkLen(Announced, pl.first + c))
      /\ n + 1 < Len(plans) => StartsShard(pl.payload, ChunkLen(Announced, End(pl)))
      /\ End(pl) = params.count <=> n + 1 = Len(plans)
  BY <1>2, PlanFacts DEF Base, End
<1>5. current.count = pl.count => next.chunk = End(pl) /\ current.payload = pl.payload
  BY <1>1, <1>4
<1>6. ASSUME next.chunk < params.count,
             ~StartsShard(current.payload, ChunkLen(Announced, next.chunk))
      PROVE  current.count < pl.count
  <2>1. CASE current.count = pl.count
    <3>1. n + 1 < Len(plans)
      BY <1>2, <1>4, <1>5, <1>6, <2>1
    <3> QED
      BY <1>4, <1>5, <1>6, <2>1, <3>1
  <2> QED
    BY <1>1, <1>3, <1>4, <2>1
<1>7. ASSUME current.count > 0, next.chunk = params.count
                 \/ StartsShard(current.payload, ChunkLen(Announced, next.chunk))
      PROVE  current.count = pl.count
  <2> SUFFICES ASSUME current.count # pl.count PROVE FALSE
    OBVIOUS
  <2>1. current.count \in 1..(pl.count - 1) /\ next.chunk = pl.first + current.count
    BY <1>1, <1>3, <1>4, <1>7
  <2>2. next.chunk # params.count
    BY <1>4, <2>1
  <2>3. ~StartsShard(current.payload, ChunkLen(Announced, next.chunk))
    BY <1>1, <1>4, <2>1
  <2> QED
    BY <1>7, <2>2, <2>3
<1> QED
  BY <1>1, <1>2, <1>3, <1>4, <1>5, <1>6, <1>7

\* The frame the writer has taken is the next chunk of the archive.
LEMMA HeadMeant ==
    ASSUME Base, ChunksInv, wpc \in {"open", "write", "roll"}
    PROVE  /\ Head(in_flight).len = ChunkLen(Announced, next.chunk)
           /\ Head(in_flight).final <=> next.chunk = params.count - 1
           /\ next.chunk \in Nat /\ next.chunk < params.count /\ params.count \in Nat
           /\ Head(in_flight).index = next.chunk
<1>1. in_flight # << >> /\ Running /\ next.chunk \in Nat /\ params.count \in Nat
  BY PlanFacts DEF Base, TypeInv, LabelsOK, Running, TypeOK
<1>2. Head(in_flight) = in_flight[1] /\ Len(in_flight) \in Nat \ {0}
  BY <1>1, HeadFrame DEF Base
<1>3. MeantFrame(Head(in_flight)) /\ actual = Announced
  BY <1>2 DEF Base, DirInv
<1>4. Head(in_flight).index = next.chunk /\ planned.next = next.chunk + Len(in_flight)
      /\ planned.next <= params.count
  BY <1>1 DEF ChunksInv
<1>5. Head(in_flight).len = ChunkLen(Announced, next.chunk)
  BY <1>3, <1>4 DEF MeantFrame
<1>6. Head(in_flight).final <=> next.chunk = params.count - 1
  BY <1>3, <1>4 DEF MeantFrame, IsFinal, Announced
<1>7. next.chunk < params.count
  BY <1>1, <1>2, <1>4
<1> QED
  BY <1>1, <1>4, <1>5, <1>6, <1>7

\* The writer's counters.
Counted == ShardsInv /\ ChunksInv

\* The planner's next frame.
LEMMA CountPlanFrame == ASSUME Base, Counted, PlanFrame PROVE Counted'
<1>1. /\ UNCHANGED <<params, actual, plans, current, stream, next, finalized, wpc>>
      /\ Running /\ planned.next < params.count /\ planned'.next = planned.next + 1
      /\ \E fr : in_flight' = Append(in_flight, fr)
  BY DEF PlanFrame, plan_vars, writer_vars, Base, Announced
<1>2. in_flight \in Seq(Frame) /\ planned.next \in Nat /\ params.count \in Nat /\ next.chunk \in Nat
  BY PlanFacts DEF Base, TypeInv, TypeOK, FlightOK
<1>3. Len(in_flight') = Len(in_flight) + 1 /\ (in_flight # << >> => Head(in_flight') = Head(in_flight))
      /\ Len(in_flight) \in Nat
  BY <1>1, <1>2, EmptySeq
<1>4. ShardsInv'
  BY <1>1 DEF Counted, ShardsInv, PayloadOf
<1>5. planned.next = next.chunk + Len(in_flight) /\ planned.next <= params.count
  BY <1>1 DEF Counted, ChunksInv
<1>6. planned'.next = next.chunk + Len(in_flight') /\ planned'.next <= params.count
  <2>1. planned'.next = planned.next + 1 /\ planned.next < params.count
    BY <1>1
  <2>2. planned.next \in Nat /\ params.count \in Nat /\ next.chunk \in Nat
    BY <1>2
  <2> QED
    BY <1>3, <1>5, <2>1, <2>2
<1>7. wpc \in {"open", "write", "roll"} => Head(in_flight').index = next.chunk
  BY <1>3 DEF Base, TypeInv, LabelsOK, Counted, ChunksInv
<1>8. ChunksInv'
  BY <1>1, <1>6, <1>7 DEF Counted, ChunksInv, Running, Ending
<1> QED
  BY <1>4, <1>8 DEF Counted

\* write_chunk_frame() begins: no counter moves.
LEMMA CountTake == ASSUME Base, Counted, TakeFrame, Standing' PROVE Counted'
<1>1. /\ UNCHANGED <<params, plans, planned, in_flight, current, stream, next, finalized>>
      /\ wpc = "ready" /\ wpc' \in {"open", "roll", "write"} /\ Head(in_flight).index = next.chunk
  BY DEF TakeFrame, plan_vars, writer_vars, Standing, WriteLabel
<1>2. ShardsInv'
  BY <1>1 DEF Counted, ShardsInv, PayloadOf
<1>3. ChunksInv'
  BY <1>1 DEF Counted, ChunksInv, Running, Ending
<1> QED
  BY <1>2, <1>3 DEF Counted

\* open_next_shard() opens the next shard of the plan.
LEMMA CountOpen == ASSUME Base, Counted, OpenShard, Standing' PROVE Counted'
<1>1. /\ wpc = "open" /\ wpc' = "write" /\ stream = "closed" /\ stream' = "open"
      /\ UNCHANGED <<params, plans, planned, in_flight, finalized>>
      /\ next' = [next EXCEPT !.shard = @ + 1]
      /\ \E m \in Names : current' = [path |-> <<m>>, index |-> next.shard, first |-> next.chunk,
                                      count |-> 0, payload |-> 0]
  BY DEF OpenShard, plan_vars, Standing, Base, TypeInv, LabelsOK
<1>2. /\ current'.index = next.shard /\ current'.first = next.chunk
      /\ current'.count = 0 /\ current'.payload = 0
  BY <1>1
<1>3. next \in [shard : Nat, chunk : Nat, final_len : Nat]
  BY DEF Base, TypeInv, TypeOK
<1>4. next'.shard = next.shard + 1 /\ next'.chunk = next.chunk /\ next'.final_len = next.final_len
  BY <1>1, <1>3
<1>5. next.chunk < params.count /\ next.chunk \in Nat /\ params.count \in Nat
  BY <1>1, HeadMeant DEF Counted
<1>6. PICK n : n = Len(finalized)
  OBVIOUS
<1>7. n \in 0..Len(plans) /\ n < Len(plans) /\ plans[n + 1].first = next.chunk
      /\ next.shard = n /\ Len(plans) \in Nat
  <2>1. /\ n \in 0..Len(plans) /\ (n < Len(plans) => plans[n + 1].first = next.chunk)
        /\ n = Len(plans) <=> next.chunk = params.count
    BY <1>1, <1>6, ClosedPlace DEF Counted
  <2>2. next.shard = n
    BY <1>1, <1>6 DEF Counted, ShardsInv
  <2>3. Len(plans) \in Nat
    BY PlanFacts DEF Base
  <2> QED
    BY <1>5, <2>1, <2>2, <2>3
<1>8. plans[n + 1].count \in Nat /\ PayloadOf(next.chunk, 0) = 0
  <2>1. n + 1 \in 1..Len(plans) /\ next.chunk + 0 = next.chunk /\ 0 \in Nat
    BY <1>5, <1>7
  <2>2. plans[n + 1].count \in Nat
    BY <2>1, PlanFacts DEF Base
  <2>3. PayloadOf(next.chunk, 0) = 0
    BY <1>5, <2>1, Sizes DEF Base
  <2> QED
    BY <2>2, <2>3
<1>9. PayloadOf(current.first, current.count)' = 0 /\ next.chunk + 0 = next.chunk
  BY <1>1, <1>2, <1>5, <1>8 DEF PayloadOf
<1>10. 0 <= plans[n + 1].count
  BY <1>8
<1>11. ShardsInv'
  <2>1. \A k \in 1..n : /\ finalized[k].index = k - 1 /\ finalized[k].first = plans[k].first
                        /\ finalized[k].count = plans[k].count
                        /\ finalized[k].payload = plans[k].payload
    BY <1>6 DEF Counted, ShardsInv
  <2> QED
    BY <1>1, <1>2, <1>4, <1>6, <1>7, <1>8, <1>9, <1>10, <2>1 DEF ShardsInv, PayloadOf
<1>12. ChunksInv'
  BY <1>1, <1>4 DEF Counted, ChunksInv, Running, Ending
<1> QED
  BY <1>11, <1>12 DEF Counted

\* The frame that fits is one the plan has put into this shard.
LEMMA CountWrite == ASSUME Base, Counted, WriteFrame, Standing' PROVE Counted'
<1> DEFINE fr == Head(in_flight)
<1>1. /\ wpc = "write" /\ stream # "closed" /\ in_flight # << >> /\ FrameWritten(fr)
      /\ UNCHANGED <<params, plans, planned, finalized>>
  BY DEF WriteFrame, FrameTorn, plan_vars, Standing, Base, TypeInv, LabelsOK
<1>2. /\ fr.len = ChunkLen(Announced, next.chunk) /\ (fr.final <=> next.chunk = params.count - 1)
      /\ next.chunk \in Nat /\ next.chunk < params.count /\ params.count \in Nat
  BY <1>1, HeadMeant DEF Counted
<1>3. PICK n, pl : n = Len(finalized) /\ pl = plans[n + 1]
  OBVIOUS
<1>4. ~StartsShard(current.payload, ChunkLen(Announced, next.chunk))
  BY <1>1, <1>2 DEF Base, Placed, Compared, Running
<1>5. /\ n \in Nat /\ n + 1 \in 1..Len(plans) /\ n < Len(plans) /\ current.count \in Nat
      /\ pl.first \in Nat /\ pl.count \in Nat /\ current.first = pl.first
      /\ current.count <= pl.count /\ current.payload \in Nat
      /\ current.payload = PayloadOf(pl.first, current.count)
      /\ next.chunk = pl.first + current.count
      /\ current.count < pl.count
  BY <1>1, <1>2, <1>3, <1>4, OpenPlace DEF Counted
<1>6. FrameSize(fr.len) \in Nat /\ fr.len \in 1..ChunkSize
      /\ PayloadOf(pl.first, current.count + 1) = current.payload + FrameSize(fr.len)
  <2>1. pl.first + current.count < params.count
    BY <1>2, <1>5
  <2>2. LET len == ChunkLen(Announced, pl.first + current.count) IN
        /\ len \in 1..ChunkSize /\ FrameSize(len) \in Nat \ {0}
        /\ PayloadOf(pl.first, current.count + 1)
               = PayloadOf(pl.first, current.count) + FrameSize(len)
    BY <1>5, <2>1, Sizes DEF Base
  <2>3. fr.len = ChunkLen(Announced, pl.first + current.count)
    BY <1>2, <1>5
  <2> HIDE DEF fr
  <2> QED
    BY <1>5, <2>2, <2>3
<1>7. current \in Shard
  BY <1>1, OpenStream DEF Base
<1>8. /\ current'.count = current.count + 1 /\ current'.payload = current.payload + FrameSize(fr.len)
      /\ current'.index = current.index /\ current'.first = current.first
  <2>1. current' = [current EXCEPT !.count = @ + 1, !.payload = @ + FrameSize(fr.len)]
    BY <1>1 DEF FrameWritten
  <2> HIDE DEF fr
  <2> QED
    BY <1>7, <2>1, Zenon DEF Shard
<1>9. /\ next'.chunk = next.chunk + 1 /\ next'.shard = next.shard
      /\ next'.final_len = IF fr.final THEN fr.len ELSE next.final_len
  <2>1. next \in [shard : Nat, chunk : Nat, final_len : Nat]
    BY DEF Base, TypeInv, TypeOK
  <2>2. next' = [next EXCEPT !.chunk = @ + 1, !.final_len = IF fr.final THEN fr.len ELSE @]
    BY <1>1 DEF FrameWritten
  <2> HIDE DEF fr
  <2> QED
    BY <2>1, <2>2, Zenon
<1>10. /\ Len(in_flight) \in Nat \ {0} /\ Len(in_flight') = Len(in_flight) - 1
       /\ wpc' \in {"full", "ready"} /\ stream' # "closed"
  BY <1>1, HeadFrame DEF FrameWritten, Base
<1> HIDE DEF fr
<1>11. /\ current'.first = pl.first /\ current'.count <= pl.count /\ current'.count > 0
       /\ next'.chunk = current'.first + current'.count
  BY <1>5, <1>8, <1>9
<1>12. current'.payload = PayloadOf(pl.first, current.count + 1)
  BY <1>6, <1>8
<1>13. next.shard = n + 1 /\ current.index = n
       /\ \A k \in 1..n : /\ finalized[k].index = k - 1 /\ finalized[k].first = plans[k].first
                          /\ finalized[k].count = plans[k].count
                          /\ finalized[k].payload = plans[k].payload
  BY <1>1, <1>3 DEF Counted, ShardsInv
<1>14. ShardsInv'
  <2>1. (PayloadOf(current.first, current.count))' = PayloadOf(pl.first, current.count + 1)
    BY <1>1, <1>5, <1>8 DEF PayloadOf
  <2>2. /\ n < Len(plans) /\ current'.index = n /\ next'.shard = n + 1 /\ n <= Len(plans)
        /\ current'.first = plans[n + 1].first /\ current'.count <= plans[n + 1].count
        /\ next'.chunk = current'.first + current'.count /\ current'.count > 0
    BY <1>3, <1>5, <1>8, <1>9, <1>11, <1>13
  <2>3. current'.payload = (PayloadOf(current.first, current.count))'
    BY <1>12, <2>1
  <2> QED
    BY <1>1, <1>3, <1>10, <1>13, <2>2, <2>3 DEF ShardsInv
<1>15. ChunksInv'
  <2>1. /\ planned.next = next.chunk + Len(in_flight) /\ planned.next <= params.count
        /\ next.final_len = 0 /\ planned.next \in Nat
    BY <1>1, <1>2 DEF Counted, ChunksInv, Running, Base, TypeInv, TypeOK
  <2>2. planned.next = next'.chunk + Len(in_flight') /\ next'.chunk <= params.count
    BY <1>2, <1>9, <1>10, <2>1
  <2>3. fr.final => fr.len = params.last
    BY <1>2 DEF ChunkLen, Announced
  <2>4. next'.final_len = IF next'.chunk = params.count THEN params.last ELSE 0
    BY <1>2, <1>9, <2>1, <2>3
  <2> QED
    BY <1>1, <1>10, <2>1, <2>2, <2>4 DEF ChunksInv, Running, Ending
<1> QED
  BY <1>14, <1>15 DEF Counted

\* A shard is closed when the plan has nothing more for it.
LEMMA CountClose == ASSUME Base, Counted, CloseShard, Standing' PROVE Counted'
<1>1. /\ wpc \in {"roll", "full", "finish"} /\ stream # "closed" /\ stream' = "closed"
      /\ UNCHANGED <<params, plans, planned, in_flight, next>>
      /\ finalized' = Append(finalized, current) /\ current' = NoShard /\ wpc' = AfterClose
  BY DEF CloseShard, plan_vars, Standing
<1>2. PICK n, pl : n = Len(finalized) /\ pl = plans[n + 1]
  OBVIOUS
<1>3. /\ n \in Nat /\ n + 1 \in 1..Len(plans) /\ n < Len(plans)
      /\ current.count \in Nat /\ current.first = pl.first /\ current.payload \in Nat
      /\ current.count = pl.count => next.chunk = End(pl) /\ current.payload = pl.payload
      /\ current.count > 0
            /\ (next.chunk = params.count
                \/ StartsShard(current.payload, ChunkLen(Announced, next.chunk)))
            => current.count = pl.count
      /\ End(pl) = params.count <=> n + 1 = Len(plans)
  BY <1>1, <1>2, OpenPlace DEF Counted
<1>4. current.count > 0 /\ current.index = n /\ next.shard = n + 1
  BY <1>1, <1>2 DEF Counted, ShardsInv
<1>5. next.chunk = params.count \/ StartsShard(current.payload, ChunkLen(Announced, next.chunk))
  <2>1. CASE wpc = "finish"
    BY <2>1 DEF Counted, ChunksInv
  <2>2. CASE wpc = "roll"
    BY <2>2, HeadMeant DEF Base, Placed, Compared, Running, Counted
  <2>3. CASE wpc = "full"
    <3>1. current.payload >= MaxPayload
      BY <2>3 DEF Base, Placed, Compared, Running
    <3>2. next.chunk \in Nat /\ Announced \in [count : Nat \ {0}, last : 1..ChunkSize]
      BY DEF Base, TypeInv, TypeOK, OptionsOK, Announced
    <3>3. ChunkLen(Announced, next.chunk) \in 0..ChunkSize
      BY <3>2, ChunkLenBounded
    <3> QED
      BY <1>3, <3>1, <3>3, Fits DEF Base
  <2> QED
    BY <1>1, <2>1, <2>2, <2>3
<1>6. current.count = pl.count /\ next.chunk = End(pl) /\ current.payload = pl.payload
  BY <1>3, <1>4, <1>5
<1>7. finalized \in Seq(Shard) /\ current \in Shard
  BY <1>1, OpenStream DEF Base, TypeInv, TypeOK
<1>8. Len(finalized') = n + 1 /\ finalized'[n + 1] = current
      /\ \A k \in 1..n : finalized'[k] = finalized[k]
  BY <1>1, <1>2, <1>7
<1>9. wpc' \in {"open", "ready", "rewrite"} /\ (wpc' = "open" => wpc = "roll")
      /\ (wpc' = "rewrite" => wpc = "finish") /\ (wpc' # "rewrite" => Running)
  BY <1>1 DEF AfterClose, Running
<1>10. ShardsInv'
  <2>1. ASSUME NEW k \in 1..(n + 1)
        PROVE  /\ finalized'[k].index = k - 1 /\ finalized'[k].first = plans[k].first
               /\ finalized'[k].count = plans[k].count /\ finalized'[k].payload = plans[k].payload
    <3>1. CASE k = n + 1
      BY <1>2, <1>3, <1>4, <1>6, <1>8, <3>1
    <3>2. CASE k # n + 1
      <4>1. k \in 1..n
        BY <1>3, <3>2
      <4> QED
        BY <1>2, <1>8, <4>1 DEF Counted, ShardsInv
    <3> QED
      BY <3>1, <3>2
  <2>2. n + 1 <= Len(plans) /\ n + 1 # 0
    BY <1>3
  <2>3. current'.path = << >>
    BY <1>1 DEF NoShard
  <2> QED
    BY <1>1, <1>2, <1>4, <1>6, <1>8, <2>1, <2>2, <2>3 DEF ShardsInv
<1>11. ChunksInv'
  <2>1. wpc' = "rewrite" => n + 1 = Len(plans) /\ next.chunk = params.count
    BY <1>3, <1>6, <1>9 DEF Counted, ChunksInv
  <2> QED
    BY <1>1, <1>8, <1>9, <2>1 DEF Counted, ChunksInv, Running, Ending
<1> QED
  BY <1>10, <1>11 DEF Counted

\* finish() is called once every chunk has been written, and counts no more.
LEMMA CountFinish == ASSUME Base, Counted, Finish, Standing' PROVE Counted'
<1>1. UNCHANGED <<params, plans, planned, in_flight, current, stream, next, finalized>>
  BY DEF Finish, CallFinish, RewriteShard, FlushShard, FlushDir, plan_vars, writer_vars
<1>2. wpc' # "write" /\ (stream # "closed" => current.count > 0)
  <2>1. wpc # "write" /\ wpc' # "write"
    BY DEF Finish, CallFinish, RewriteShard, FlushShard, FlushDir
  <2> QED
    BY <2>1 DEF Counted, ShardsInv
<1>3. ShardsInv'
  BY <1>1, <1>2 DEF Counted, ShardsInv, PayloadOf
<1>4. CASE CallFinish
  <2>1. /\ wpc = "ready" /\ planned.next = params.count /\ in_flight = << >>
        /\ wpc' = IF stream = "closed" THEN "rewrite" ELSE "finish"
    BY <1>4 DEF CallFinish, Base, Announced
  <2>2. next.chunk = params.count
    <3>1. Len(in_flight) = 0 /\ next.chunk \in Nat /\ planned.next = next.chunk + Len(in_flight)
      BY <2>1 DEF Counted, ChunksInv, Running, Base, TypeInv, TypeOK
    <3> QED
      BY <2>1, <3>1
  <2>3. stream = "closed" => Len(finalized) = Len(plans)
    BY <2>2, ClosedPlace DEF Counted
  <2> QED
    BY <1>1, <1>3, <2>1, <2>2, <2>3 DEF Counted, ChunksInv, Running, Ending
<1>5. CASE RewriteShard \/ FlushShard \/ FlushDir
  <2>1. wpc \in {"rewrite", "flush"} /\ wpc' \in {"rewrite", "flush", "success"}
    BY <1>5 DEF RewriteShard, FlushShard, FlushDir, Standing
  <2> QED
    BY <1>1, <1>3, <2>1 DEF Counted, ChunksInv, Running, Ending
<1> QED
  BY <1>4, <1>5 DEF Finish

\* Nothing is written before the pipeline starts.
LEMMA FreshStep == FreshInv /\ [Next]_vars => FreshInv'
<1> SUFFICES ASSUME FreshInv, [Next]_vars, wpc' = "plan" PROVE FreshInv'
  BY DEF FreshInv
<1>1. PlanShardChunk \/ UNCHANGED vars
  BY DEF Next, Plan, PlanShardChunk, StartPipeline, PlanFrame, Running, Write, TakeFrame, WriteLabel,
     OpenShard, WriteFrame, FrameWritten, FrameTorn, CloseShard, AfterClose, Finish, CallFinish,
     RewriteShard, FlushShard, FlushDir, Fail, PipelineFails, AbortCurrent, AbortShard, Power,
     PowerLoss, SettleFile, Lost, Terminated
<1> QED
  BY <1>1 DEF FreshInv, PlanShardChunk, vars, writer_vars, disk_vars

\* A run that has not failed has not failed before.
LEMMA StandingBefore ==
    ASSUME [Next]_vars, Standing', ~StartPipeline
    PROVE  Standing /\ wpc \notin {"plan", "lost"}
<1>1. params' = params
  BY PlanFixed
<1>2. CASE Plan \/ PlanFrame \/ Write
  BY <1>1, <1>2 DEF Plan, PlanShardChunk, PlanFrame, Running, Write, TakeFrame, WriteLabel,
     OpenShard, WriteFrame, FrameWritten, FrameTorn, CloseShard, AfterClose, Standing
<1>3. CASE Finish \/ Fail
  BY <1>1, <1>3 DEF Finish, CallFinish, RewriteShard, FlushShard, FlushDir, Fail, PipelineFails,
     AbortCurrent, AbortShard, Standing
<1>4. CASE Power \/ UNCHANGED vars
  BY <1>1, <1>4 DEF Power, PowerLoss, SettleFile, Lost, vars, Standing
<1> QED
  BY <1>2, <1>3, <1>4 DEF Next, Terminated

\* What holds after every step a run that has not failed takes.
LEMMA CountStep ==
    TypeInv /\ Placed /\ DirInv /\ PlansInv /\ FreshInv /\ CountInv /\ [Next]_vars => CountInv'
<1> SUFFICES ASSUME TypeInv, Placed, DirInv, PlansInv, FreshInv, CountInv, [Next]_vars,
                    (actual = Announced)', Standing'
             PROVE  Counted'
  BY DEF CountInv, Counted
<1>1. UNCHANGED <<params, actual>> /\ actual = Announced
  BY PlanFixed DEF Announced
<1>2. CASE StartPipeline
  <2>1. /\ wpc' = "ready" /\ UNCHANGED <<plans, planned, in_flight, current, stream, next, finalized>>
        /\ wpc = "plan"
    BY <1>2 DEF StartPipeline, plan_vars, writer_vars
  <2>2. /\ planned.next = 0 /\ in_flight = << >> /\ finalized = << >> /\ current.path = << >>
        /\ stream = "closed" /\ next.shard = 0 /\ next.chunk = 0 /\ next.final_len = 0
    BY <2>1 DEF FreshInv, NoShard
  <2>3. Len(finalized) = 0 /\ Len(in_flight) = 0 /\ Len(plans) \in Nat /\ params.count \in Nat \ {0}
    BY <2>2, LenProperties DEF TypeInv, TypeOK, OptionsOK
  <2>4. ShardsInv'
    BY <2>1, <2>2, <2>3 DEF ShardsInv
  <2>5. ChunksInv'
    BY <1>1, <2>1, <2>2, <2>3 DEF ChunksInv, Running, Ending
  <2> QED
    BY <2>4, <2>5 DEF Counted
<1>3. CASE ~StartPipeline
  <2>1. Base /\ Counted /\ Standing
    BY <1>1, <1>3, StandingBefore DEF Base, CountInv, Counted
  <2>2. CASE PowerLoss \/ (\E m \in Names : SettleFile(m)) \/ UNCHANGED vars
    <3>1. UNCHANGED <<params, plans, planned, in_flight, current, stream, next, finalized>>
      BY <2>2 DEF PowerLoss, SettleFile, vars, plan_vars, writer_vars
    <3>2. wpc' = wpc \/ (wpc = "success" /\ wpc' = "lost_after_success")
      BY <2>2 DEF PowerLoss, SettleFile, vars, Standing
    <3>3. ShardsInv'
      BY <2>1, <3>1, <3>2 DEF Counted, ShardsInv, PayloadOf
    <3>4. ChunksInv'
      BY <2>1, <3>1, <3>2 DEF Counted, ChunksInv, Running, Ending
    <3> QED
      BY <3>3, <3>4 DEF Counted
  <2>3. CASE PlanShardChunk \/ Fail
    BY <2>1, <2>3 DEF PlanShardChunk, Base, Fail, PipelineFails, AbortCurrent, AbortShard, Standing
  <2> QED
    BY <1>3, <2>1, <2>2, <2>3, CountPlanFrame, CountTake, CountOpen, CountWrite, CountClose, CountFinish
       DEF Next, Plan, Write, Power, Terminated
<1> QED
  BY <1>2, <1>3

----------------------------------------------------------------------------
\* What the files must hold depends on the parameters and the plan only.
LEMMA MeaningFixed ==
    ASSUME UNCHANGED <<params, plans>>
    PROVE  /\ Announcement' = Announcement /\ \A i : ShardHash(i)' = ShardHash(i)
           /\ FilesOf(finalized, current, stream, dir, created)'
                  <=> FilesOf(finalized', current', stream', dir', created')
           /\ Sealed(in_flight)' <=> Sealed(in_flight')
<1>1. Announcement' = Announcement /\ \A i : ShardHash(i)' = ShardHash(i)
  BY DEF ShardHash, Announcement, GlobalHeaderOf
<1>2. \A f, k, c : Holds(f, k, c)' <=> Holds(f, k, c)
  BY <1>1 DEF Holds, ShardHash, Announcement, GlobalHeaderOf
<1>3. FilesOf(finalized, current, stream, dir, created)'
          <=> FilesOf(finalized', current', stream', dir', created')
  BY <1>1, <1>2 DEF FilesOf, ShardFile, Holds, ShardHash, Announcement, GlobalHeaderOf
<1>4. Sealed(in_flight)' <=> Sealed(in_flight')
  BY <1>1 DEF Sealed, ShardHash, Announcement, GlobalHeaderOf
<1> QED
  BY <1>1, <1>3, <1>4

\* A step that touches no file.
LEMMA FilesSame ==
    ASSUME ContentInv, UNCHANGED <<params, plans, finalized, current, stream, dir, created>>,
           Running' => Sealed(in_flight')
    PROVE  ContentInv'
  BY MeaningFixed DEF ContentInv

\* The planner's next frame is sealed with the hash of its shard.
LEMMA FilesPlanFrame == ASSUME Base, ContentInv, PlanFrame PROVE ContentInv'
<1>1. UNCHANGED <<params, plans, finalized, current, stream, dir, created>> /\ Running
  BY DEF PlanFrame, plan_vars, writer_vars, disk_vars
<1>2. PICK fr : in_flight' = Append(in_flight, fr) /\ fr.intact /\ fr.aad = ShardHash(fr.shard_index)
  BY DEF PlanFrame, MakeFrame
<1>3. in_flight \in Seq(Frame) /\ Sealed(in_flight)
  BY <1>1 DEF Base, TypeInv, FlightOK, ContentInv
<1>4. Len(in_flight') = Len(in_flight) + 1 /\ in_flight'[Len(in_flight) + 1] = fr
      /\ (\A k \in 1..Len(in_flight) : in_flight'[k] = in_flight[k]) /\ Len(in_flight) \in Nat
  BY <1>2, <1>3
<1>5. Sealed(in_flight')
  <2> SUFFICES ASSUME NEW j \in 1..Len(in_flight')
               PROVE  in_flight'[j].intact /\ in_flight'[j].aad = ShardHash(in_flight'[j].shard_index)
    BY DEF Sealed
  <2>1. j \in 1..Len(in_flight) \/ j = Len(in_flight) + 1
    BY <1>4
  <2> QED
    BY <1>2, <1>3, <1>4, <2>1 DEF Sealed
<1> QED
  BY <1>1, <1>5, FilesSame

\* A new shard is another file, with the announced header and no frames.
LEMMA FilesOpen == ASSUME Base, Counted, ContentInv, OpenShard, Standing' PROVE ContentInv'
<1>1. PICK m \in Names :
         /\ m \notin DOMAIN dir
         /\ current' = [path |-> <<m>>, index |-> next.shard, first |-> next.chunk,
                        count |-> 0, payload |-> 0]
         /\ created' = created \cup {m}
         /\ dir' = Put(dir, m, MakeFile(<<Announcement>>, <<Placeholder>>, << >>))
  BY DEF OpenShard, Standing, FreshName
<1>2. /\ wpc = "open" /\ stream = "closed" /\ stream' = "open"
      /\ UNCHANGED <<params, plans, in_flight, finalized>>
  BY DEF OpenShard, plan_vars, Standing, Base, TypeInv, LabelsOK
<1>3. current'.path[1] = m /\ current'.count = 0 /\ current'.payload = 0
  BY <1>1
<1>4. DOMAIN dir' = DOMAIN dir \cup {m}
      /\ dir'[m] = MakeFile(<<Announcement>>, <<Placeholder>>, << >>)
      /\ \A x \in DOMAIN dir : dir'[x] = dir[x]
  BY <1>1 DEF Put
<1>5. FilesOf(finalized, current, stream, dir, created) /\ Sealed(in_flight)
  BY <1>2 DEF ContentInv, Running
<1>6. ShardFile(dir'[m], Len(finalized) + 1, current')
  <2>1. dir'[m].global = <<Announcement>> /\ dir'[m].frames = << >>
    BY <1>4 DEF MakeFile
  <2>2. Len(<< >>) = 0 /\ 1..0 = {}
    OBVIOUS
  <2>3. Holds(dir'[m], Len(finalized) + 1, 0)
    BY <2>1, <2>2 DEF Holds
  <2>4. PayloadSize(dir'[m].frames) = 0
    BY <2>1, PayloadEmpty
  <2> QED
    BY <1>3, <2>3, <2>4 DEF ShardFile
<1>7. \A k \in 1..Len(finalized) : finalized[k].path[1] \in DOMAIN dir
  BY <1>5 DEF FilesOf
<1>8. FilesOf(finalized, current', stream', dir', created')
  <2>1. ASSUME NEW k \in 1..Len(finalized)
        PROVE  LET p == finalized[k].path[1] IN
               /\ p \in DOMAIN dir' /\ dir'[p] = dir[p] /\ p # m
               /\ ShardFile(dir[p], k, finalized[k])
               /\ dir[p].shard = <<ShardHeaderOf(finalized[k], Announcement)>>
    BY <1>1, <1>4, <1>5, <1>7 DEF FilesOf
  <2>2. \A j, k \in 1..Len(finalized) : finalized[j].path[1] = finalized[k].path[1] => j = k
    BY <1>5 DEF FilesOf
  <2>3. \A x \in created : \E k \in 1..Len(finalized) : x = finalized[k].path[1]
    BY <1>2, <1>5 DEF FilesOf
  <2>4. m \in DOMAIN dir'
    BY <1>4
  <2> QED
    BY <1>1, <1>2, <1>3, <1>6, <2>1, <2>2, <2>3, <2>4 DEF FilesOf
<1> QED
  BY <1>2, <1>5, <1>8, MeaningFixed DEF ContentInv

\* The frame written belongs where it is written.
LEMMA FilesWrite == ASSUME Base, Counted, ContentInv, WriteFrame, Standing' PROVE ContentInv'
<1> DEFINE fr == Head(in_flight)
           p == CurrentPath
<1>1. /\ wpc = "write" /\ stream # "closed" /\ in_flight # << >> /\ FrameWritten(fr)
      /\ UNCHANGED <<params, plans, finalized, created>>
  BY DEF WriteFrame, FrameTorn, plan_vars, Standing, Base, TypeInv, LabelsOK
<1>2. FilesOf(finalized, current, stream, dir, created) /\ Sealed(in_flight)
  BY <1>1 DEF ContentInv, Running
<1>3. fr = in_flight[1] /\ fr \in Frame /\ Len(in_flight) \in Nat \ {0}
      /\ Len(Tail(in_flight)) = Len(in_flight) - 1
      /\ \A k \in 1..Len(Tail(in_flight)) : Tail(in_flight)[k] = in_flight[k + 1]
  BY <1>1, HeadFrame DEF Base
<1>4. Sealed(in_flight')
  <2>1. in_flight' = Tail(in_flight)
    BY <1>1 DEF FrameWritten
  <2>2. \A k \in 1..Len(Tail(in_flight)) : k + 1 \in 1..Len(in_flight)
    BY <1>3
  <2> QED
    BY <1>2, <1>3, <2>1, <2>2 DEF Sealed
<1>5. PICK n : n = Len(finalized)
  OBVIOUS
<1>6. /\ fr.shard_index = n /\ fr.index = plans[n + 1].first + current.count
      /\ fr.intact /\ fr.aad = ShardHash(n)
  <2>1. fr.shard_index = current.index
    BY <1>1, PlacedAgrees DEF Base, PlannerAgrees
  <2>2. current.index = n /\ current.first = plans[n + 1].first
        /\ next.chunk = current.first + current.count
    BY <1>1, <1>5 DEF Counted, ShardsInv
  <2>3. fr.index = next.chunk
    BY <1>1, HeadMeant DEF Counted
  <2>4. fr.intact /\ fr.aad = ShardHash(fr.shard_index)
    BY <1>2, <1>3 DEF Sealed
  <2> QED
    BY <2>1, <2>2, <2>3, <2>4
<1>7. /\ p \in DOMAIN dir /\ Written(dir[p]) /\ ShardFile(dir[p], n + 1, current)
      /\ \A k \in 1..Len(finalized) : finalized[k].path[1] # p
  BY <1>1, <1>2, <1>5, CurrentFile DEF FilesOf, CurrentPath, Base, Lost
<1>8. dir[p] \in File /\ dir[p].frames \in Seq(Frame)
  BY <1>7 DEF Written, File
<1>9. current \in Shard /\ current.count \in Nat /\ FrameSize(fr.len) \in Nat
  BY <1>1, OpenStream, HeadFrame, Fits DEF Base
<1>10. /\ current'.count = current.count + 1 /\ current'.payload = current.payload + FrameSize(fr.len)
       /\ current'.path = current.path /\ stream' # "closed"
  <2>1. current' = [current EXCEPT !.count = @ + 1, !.payload = @ + FrameSize(fr.len)]
        /\ stream' # "closed"
    BY <1>1 DEF FrameWritten
  <2> HIDE DEF fr
  <2> QED
    BY <1>9, <2>1, Zenon DEF Shard
<1> DEFINE f == [dir[p] EXCEPT !.frames = Append(@, fr)]
<1>11. DOMAIN dir' = DOMAIN dir /\ dir'[p] = f /\ \A x \in DOMAIN dir \ {p} : dir'[x] = dir[x]
  BY <1>1, <1>7 DEF FrameWritten
<1> HIDE DEF fr, p
<1>12. f.global = dir[p].global /\ f.frames = Append(dir[p].frames, fr)
  BY <1>8 DEF File
<1> HIDE DEF f
<1>13. ShardFile(f, n + 1, current')
  <2>1. Holds(dir[p], n + 1, current.count) /\ PayloadSize(dir[p].frames) = current.payload
    BY <1>7 DEF ShardFile
  <2>2. PayloadSize(f.frames) = current'.payload
    BY <1>3, <1>8, <1>10, <1>12, <2>1, PayloadAppend
  <2>3. Len(f.frames) = current.count + 1 /\ f.frames[current.count + 1] = fr
        /\ \A j \in 1..current.count : f.frames[j] = dir[p].frames[j]
    BY <1>3, <1>8, <1>9, <1>12, <2>1 DEF Holds
  <2>4. (n + 1) - 1 = n /\ n \in Nat
    BY <1>5, LenProperties DEF Base, TypeInv, TypeOK
  <2>5. ASSUME NEW j \in 1..(current.count + 1)
        PROVE  /\ f.frames[j].shard_index = (n + 1) - 1 /\ f.frames[j].intact
               /\ f.frames[j].index = plans[n + 1].first + j - 1
               /\ f.frames[j].aad = ShardHash((n + 1) - 1)
    <3>1. CASE j = current.count + 1
      <4>1. plans[n + 1].first + current.count = plans[n + 1].first + j - 1
        <5>1. plans[n + 1].first \in Nat
          BY <1>1, <1>5, OpenPlace DEF Counted
        <5> QED
          BY <1>9, <3>1, <5>1
      <4> QED
        BY <1>6, <2>3, <2>4, <3>1, <4>1
    <3>2. CASE j # current.count + 1
      <4>1. j \in 1..current.count
        BY <1>9, <3>2
      <4> QED
        BY <2>1, <2>3, <4>1 DEF Holds
    <3> QED
      BY <3>1, <3>2
  <2>6. f.global = <<Announcement>>
    BY <1>12, <2>1 DEF Holds
  <2> QED
    BY <1>10, <2>2, <2>3, <2>5, <2>6 DEF ShardFile, Holds
<1>14. FilesOf(finalized, current', stream', dir', created)
  <2>1. current'.path[1] = p /\ current.path[1] = p
    BY <1>10 DEF CurrentPath, p
  <2>2. ASSUME NEW k \in 1..Len(finalized)
        PROVE  LET q == finalized[k].path[1] IN
               /\ q \in DOMAIN dir' /\ dir'[q] = dir[q] /\ q # p
               /\ ShardFile(dir[q], k, finalized[k])
               /\ dir[q].shard = <<ShardHeaderOf(finalized[k], Announcement)>>
    BY <1>2, <1>7, <1>11 DEF FilesOf
  <2>3. /\ \A j, k \in 1..Len(finalized) : finalized[j].path[1] = finalized[k].path[1] => j = k
        /\ \A x \in created : x = p \/ \E k \in 1..Len(finalized) : x = finalized[k].path[1]
    BY <1>2, <2>1 DEF FilesOf
  <2> QED
    BY <1>5, <1>7, <1>10, <1>11, <1>13, <2>1, <2>2, <2>3 DEF FilesOf
<1> QED
  BY <1>1, <1>4, <1>14, MeaningFixed DEF ContentInv

\* A shard that is closed gets its header and keeps its frames, if the stream
\* could write what it had buffered.
LEMMA FilesClose ==
    ASSUME "close" \notin Faults, Base, Counted, ContentInv, CloseShard, Standing' PROVE ContentInv'
<1> DEFINE p == CurrentPath
<1>1. /\ wpc \in {"roll", "full", "finish"} /\ stream # "closed" /\ stream' = "closed"
      /\ UNCHANGED <<params, plans, in_flight, created>>
      /\ finalized' = Append(finalized, current) /\ current' = NoShard /\ wpc' = AfterClose
      /\ dir' = [dir EXCEPT ![p] = MakeFile(dir[p].global, <<ShardHeaderOf(current, Announcement)>>,
                                            dir[p].frames)]
  BY DEF CloseShard, plan_vars, Standing
<1>2. FilesOf(finalized, current, stream, dir, created)
  BY DEF ContentInv
<1>3. Running' => Sealed(in_flight')
  BY <1>1 DEF ContentInv, Running, AfterClose
<1>4. PICK n : n = Len(finalized)
  OBVIOUS
<1>5. finalized \in Seq(Shard) /\ current \in Shard /\ n \in Nat
  BY <1>1, <1>4, OpenStream, LenProperties DEF Base, TypeInv, TypeOK
<1>6. Len(finalized') = n + 1 /\ finalized'[n + 1] = current
      /\ \A k \in 1..n : finalized'[k] = finalized[k]
  BY <1>1, <1>4, <1>5
<1>7. /\ p \in DOMAIN dir /\ ShardFile(dir[p], n + 1, current) /\ p = current.path[1]
      /\ \A k \in 1..n : finalized[k].path[1] # p
  BY <1>1, <1>2, <1>4 DEF FilesOf, CurrentPath
<1>8. /\ DOMAIN dir' = DOMAIN dir /\ \A x \in DOMAIN dir \ {p} : dir'[x] = dir[x]
      /\ dir'[p].global = dir[p].global /\ dir'[p].frames = dir[p].frames
      /\ dir'[p].shard = <<ShardHeaderOf(current, Announcement)>>
  BY <1>1, <1>7 DEF MakeFile
<1> HIDE DEF p
<1>9. ShardFile(dir'[p], n + 1, current)
  BY <1>7, <1>8 DEF ShardFile, Holds
<1>10. ASSUME NEW k \in 1..n
       PROVE  LET q == finalized[k].path[1] IN
              /\ q \in DOMAIN dir' /\ dir'[q] = dir[q] /\ q # p
              /\ ShardFile(dir[q], k, finalized[k])
              /\ dir[q].shard = <<ShardHeaderOf(finalized[k], Announcement)>>
  BY <1>2, <1>4, <1>7, <1>8 DEF FilesOf
<1>11. \A k \in 1..(n + 1) : k \in 1..n \/ k = n + 1
  BY <1>5
<1>12. ASSUME NEW k \in 1..(n + 1)
       PROVE  LET q == finalized'[k].path[1] IN
              /\ q \in DOMAIN dir' /\ ShardFile(dir'[q], k, finalized'[k])
              /\ dir'[q].shard = <<ShardHeaderOf(finalized'[k], Announcement)>>
  <2>1. CASE k = n + 1
    BY <1>6, <1>7, <1>8, <1>9, <2>1
  <2>2. CASE k \in 1..n
    BY <1>6, <1>10, <2>2
  <2> QED
    BY <1>11, <2>1, <2>2
<1>13. ASSUME NEW j \in 1..(n + 1), NEW k \in 1..(n + 1), finalized'[j].path[1] = finalized'[k].path[1]
       PROVE  j = k
  <2>1. CASE j = n + 1 \/ k = n + 1
    BY <1>6, <1>7, <1>11, <1>13, <2>1
  <2>2. CASE j \in 1..n /\ k \in 1..n
    BY <1>2, <1>4, <1>6, <1>13, <2>2 DEF FilesOf
  <2> QED
    BY <1>11, <2>1, <2>2
<1>14. ASSUME NEW x \in created PROVE \E k \in 1..(n + 1) : x = finalized'[k].path[1]
  <2>1. CASE x = p
    <3>1. n + 1 \in 1..(n + 1)
      BY <1>5
    <3> QED
      BY <1>6, <1>7, <2>1, <3>1
  <2>2. ASSUME NEW k \in 1..n, x = finalized[k].path[1]
        PROVE  \E j \in 1..(n + 1) : x = finalized'[j].path[1]
    <3>1. k \in 1..(n + 1)
      BY <1>5
    <3> QED
      BY <1>6, <2>2, <3>1
  <2> QED
    BY <1>2, <1>4, <1>7, <2>1, <2>2 DEF FilesOf
<1>15. FilesOf(finalized', current', stream', dir', created')
  BY <1>1, <1>6, <1>12, <1>13, <1>14 DEF FilesOf
<1> QED
  BY <1>1, <1>3, <1>15, MeaningFixed DEF ContentInv

\* At the end the header is what was announced.
LEMMA FinalIsAnnounced ==
    ASSUME Base, Counted, wpc \in Ending
    PROVE  FinalGlobal = Announcement /\ Len(finalized) = Len(plans) /\ stream = "closed"
<1>1. next.chunk = params.count /\ Len(finalized) = Len(plans) /\ next.final_len = params.last
  BY DEF Counted, ChunksInv
<1>2. params.last \in Nat /\ params.last > 0
  BY FormatAssumption DEF Base, TypeInv, OptionsOK
<1>3. FinalGlobal = Announcement
  BY <1>1, <1>2 DEF FinalGlobal, Announcement, GlobalHeaderOf
<1>4. stream = "closed"
  <2> SUFFICES ASSUME stream # "closed" PROVE FALSE
    OBVIOUS
  <2>1. Len(finalized) < Len(plans) /\ Len(plans) \in Nat
    BY PlanFacts DEF Counted, ShardsInv, Base
  <2> QED
    BY <1>1, <2>1
<1> QED
  BY <1>1, <1>3, <1>4

\* So finish() rewrites headers with what is there.
LEMMA FilesFinish == ASSUME Base, Counted, ContentInv, Finish, Standing' PROVE ContentInv'
<1>1. UNCHANGED <<params, plans, in_flight, finalized, current, stream, created>>
  BY DEF Finish, CallFinish, RewriteShard, FlushShard, FlushDir, plan_vars, writer_vars, disk_vars
<1>2. ~Running'
  BY DEF Finish, CallFinish, RewriteShard, FlushShard, FlushDir, Running, Standing
<1>3. CASE RewriteShard
  <2> DEFINE q == finalized[at + 1].path[1]
  <2>1. wpc = "rewrite" /\ at + 1 \in 1..Len(finalized)
    BY <1>3 DEF RewriteShard, Base, TypeInv, TypeOK
  <2>2. FinalGlobal = Announcement
    BY <2>1, FinalIsAnnounced DEF Ending
  <2>3. /\ q \in DOMAIN dir /\ dir[q].global = <<Announcement>>
        /\ dir[q].shard = <<ShardHeaderOf(finalized[at + 1], Announcement)>>
    BY <2>1 DEF ContentInv, FilesOf, ShardFile, Holds
  <2>4. dir[q] \in File
    <3>1. q \in created
      BY <2>1 DEF Base, TypeInv, TypeOK
    <3> QED
      BY <2>3, <3>1 DEF Base, DirInv, Written
  <2>5. dir' = dir \/ dir' = [dir EXCEPT ![q].global = <<FinalGlobal>>,
                                         ![q].shard = <<ShardHeaderOf(finalized[at + 1], FinalGlobal)>>]
    BY <1>3 DEF RewriteShard, Path
  <2> DEFINE g == <<Announcement>>
             s == <<ShardHeaderOf(finalized[at + 1], Announcement)>>
  <2>6. dir' = dir \/ dir' = [dir EXCEPT ![q].global = g, ![q].shard = s]
    BY <2>2, <2>5
  <2>7. dir[q].global = g /\ dir[q].shard = s
    BY <2>3
  <2> HIDE DEF g, s, q
  <2>8. [dir[q] EXCEPT !.global = g, !.shard = s] = dir[q]
    BY <2>4, <2>7 DEF File
  <2>9. DOMAIN dir' = DOMAIN dir /\ \A x \in DOMAIN dir : dir'[x] = dir[x]
    BY <2>3, <2>6, <2>8
  <2>10. FilesOf(finalized, current, stream, dir', created)
    BY <2>9 DEF ContentInv, FilesOf
  <2> QED
    BY <1>1, <1>2, <2>10, MeaningFixed DEF ContentInv
<1>4. CASE ~RewriteShard
  BY <1>1, <1>2, <1>4, FilesSame DEF Finish, CallFinish, FlushShard, FlushDir, disk_vars
<1> QED
  BY <1>3, <1>4

\* With --durability=on a power loss after success finds nothing to damage.
LEMMA NothingToSettle ==
    ASSUME Base, Kept, Counted, ContentInv, SyncInv, wpc = "lost_after_success", params.mode = "on",
           NEW m, SettleFile(m)
    PROVE  FALSE
<1>1. m \in DOMAIN dir /\ (m \notin synced \/ m \notin linked)
  BY DEF SettleFile
<1>2. m \in created
  BY <1>1 DEF Kept
<1>3. stream = "closed"
  BY FinalIsAnnounced DEF Ending
<1>4. PICK k \in 1..Len(finalized) : m = Path(k)
  BY <1>2, <1>3 DEF ContentInv, FilesOf, Path
<1>5. at = Len(finalized) /\ DOMAIN dir \subseteq linked /\ \A j \in 1..at : Path(j) \in synced
  BY DEF SyncInv, Ending
<1> QED
  BY <1>1, <1>4, <1>5

\* The files stay the shards of the plan as long as nothing fails.
LEMMA FileStep ==
    ASSUME "close" \notin Faults
    PROVE  TypeInv /\ Placed /\ Kept /\ DirInv /\ ReadableInv /\ [Next]_vars => FileInv'
<1> SUFFICES ASSUME TypeInv, Placed, Kept, DirInv, ReadableInv, [Next]_vars,
                    (actual = Announced)', Standing'
             PROVE  ContentInv'
  BY DEF FileInv
<1>1. UNCHANGED <<params, actual>> /\ actual = Announced
  BY PlanFixed DEF Announced
<1>2. CASE StartPipeline
  <2>1. UNCHANGED <<plans, in_flight, finalized, current, stream, dir, created>> /\ wpc = "plan"
    BY <1>2 DEF StartPipeline, plan_vars, writer_vars, disk_vars
  <2>2. /\ in_flight = << >> /\ finalized = << >> /\ stream = "closed" /\ created = {}
        /\ Len(<< >>) = 0 /\ 1..0 = {}
    BY <2>1 DEF ReadableInv, FreshInv
  <2>3. FilesOf(finalized, current, stream, dir, created) /\ Sealed(in_flight)
    BY <2>2 DEF FilesOf, Sealed
  <2> QED
    BY <1>1, <2>1, <2>3, MeaningFixed DEF ContentInv
<1>3. CASE ~StartPipeline
  <2>1. Base /\ Counted /\ ContentInv /\ Standing
    BY <1>1, <1>3, StandingBefore DEF Base, ReadableInv, CountInv, FileInv, Counted
  <2>2. CASE PowerLoss \/ TakeFrame \/ UNCHANGED vars
    <3>1. UNCHANGED <<params, plans, in_flight, finalized, current, stream, dir, created>>
      BY <2>2 DEF PowerLoss, TakeFrame, vars, plan_vars, writer_vars, disk_vars
    <3>2. Running' => Running
      BY <2>2 DEF PowerLoss, TakeFrame, vars, Running
    <3> QED
      BY <2>1, <3>1, <3>2, FilesSame DEF ContentInv
  <2>3. CASE \E m \in Names : SettleFile(m)
    <3>1. wpc = "lost_after_success" /\ params.mode = "on"
      BY <2>1, <2>3 DEF SettleFile, Lost, Standing
    <3> QED
      BY <2>1, <2>3, <3>1, NothingToSettle DEF ReadableInv
  <2>4. CASE PlanShardChunk \/ Fail
    BY <2>1, <2>4 DEF PlanShardChunk, Base, Fail, PipelineFails, AbortCurrent, AbortShard, Standing
  <2> QED
    BY <1>3, <2>1, <2>2, <2>3, <2>4, FilesPlanFrame, FilesOpen, FilesWrite, FilesClose, FilesFinish
       DEF Next, Plan, Write, Power, Terminated
<1> QED
  BY <1>2, <1>3

\* What has been flushed is not written again.
LEMMA SyncStep ==
    TypeInv /\ Placed /\ Kept /\ DirInv /\ ReadableInv /\ [Next]_vars => SyncInv'
<1> SUFFICES ASSUME TypeInv, Placed, Kept, DirInv, ReadableInv, [Next]_vars PROVE SyncInv'
  OBVIOUS
<1>1. UNCHANGED <<params, actual>>
  BY PlanFixed
<1> USE DEF Ending
<1>2. CASE Plan \/ PlanFrame \/ TakeFrame \/ OpenShard \/ WriteFrame
  <2>1. (Running' /\ at' = at) \/ wpc' \in {"plan", "throw"}
    BY <1>2 DEF Plan, PlanShardChunk, StartPipeline, PlanFrame, TakeFrame, WriteLabel, OpenShard,
       WriteFrame, FrameWritten, FrameTorn, Running, writer_vars
  <2>2. Running \/ wpc = "plan"
    BY <1>2 DEF Plan, PlanShardChunk, StartPipeline, PlanFrame, TakeFrame, OpenShard, WriteFrame, Running
  <2>3. at = 0
    BY <2>2 DEF ReadableInv, SyncInv, FreshInv
  <2> QED
    BY <2>1, <2>3 DEF SyncInv, Running
<1>3. CASE CloseShard
  <2>1. /\ wpc \in {"roll", "full", "finish"} /\ at' = at /\ stream # "closed"
        /\ wpc' \in {"open", "ready", "throw"} \/ (wpc = "finish" /\ wpc' = "rewrite")
    BY <1>3 DEF CloseShard, AfterClose
  <2>2. at = 0 /\ (wpc = "finish" => actual = Announced)
    BY <2>1 DEF ReadableInv, SyncInv, Running
  <2> QED
    BY <1>1, <2>1, <2>2 DEF SyncInv, Running, Announced
<1>4. CASE CallFinish
  <2>1. wpc = "ready" /\ wpc' \in {"rewrite", "finish"} /\ at' = at /\ actual = Announced
    BY <1>4 DEF CallFinish, writer_vars
  <2>2. at = 0
    BY <2>1 DEF ReadableInv, SyncInv, Running
  <2> QED
    BY <1>1, <2>1, <2>2 DEF SyncInv, Running, Announced
<1>5. CASE RewriteShard
  <2>1. /\ wpc = "rewrite" /\ wpc' \in {"flush", "throw"} /\ UNCHANGED <<at, finalized>>
        /\ synced' = synced \ {Path(at + 1)}
    BY <1>5 DEF RewriteShard, writer_vars
  <2>2. at \in Nat /\ at + 1 \in 1..Len(finalized)
    BY <1>5 DEF RewriteShard, TypeInv, TypeOK
  <2>3. actual = Announced /\ (params.mode = "on" => \A k \in 1..at : Path(k) \in synced)
    BY <2>1 DEF ReadableInv, SyncInv
  <2>4. ContentInv
    BY <2>1, <2>3 DEF ReadableInv, FileInv, Standing
  <2>5. \A k \in 1..at : Path(k) # Path(at + 1)
    <3> SUFFICES ASSUME NEW k \in 1..at PROVE Path(k) # Path(at + 1)
      OBVIOUS
    <3>1. k \in 1..Len(finalized) /\ k # at + 1
      BY <2>2
    <3> QED
      BY <2>2, <2>4, <3>1 DEF ContentInv, FilesOf, Path
  <2> QED
    BY <1>1, <2>1, <2>3, <2>5 DEF SyncInv, Running, Announced, Path
<1>6. CASE FlushShard
  <2>1. wpc = "flush" /\ finalized' = finalized /\ at \in Nat
    BY <1>6 DEF FlushShard, TypeInv, TypeOK
  <2>2. actual = Announced /\ (params.mode = "on" => \A k \in 1..at : Path(k) \in synced)
    BY <2>1 DEF ReadableInv, SyncInv
  <2>3. CASE wpc' = "throw"
    BY <2>3 DEF SyncInv, Running
  <2>4. CASE wpc' # "throw"
    <3>1. wpc' = "rewrite" /\ at' = at + 1
          /\ (params.mode = "on" => synced' = synced \cup {Path(at + 1)})
      BY <1>6, <2>4 DEF FlushShard, Flush
    <3>2. \A k \in 1..(at + 1) : k \in 1..at \/ k = at + 1
      BY <2>1
    <3> QED
      BY <1>1, <2>1, <2>2, <3>1, <3>2 DEF SyncInv, Running, Announced, Path
  <2> QED
    BY <2>3, <2>4
<1>7. CASE FlushDir
  <2>1. wpc = "rewrite" /\ at = Len(finalized) /\ UNCHANGED <<finalized, at, dir, synced>>
    BY <1>7 DEF FlushDir, writer_vars
  <2>2. actual = Announced /\ (params.mode = "on" => \A k \in 1..at : Path(k) \in synced)
    BY <2>1 DEF ReadableInv, SyncInv
  <2>3. wpc' = "throw" \/ (wpc' = "success" /\ (params.mode = "on" => DOMAIN dir \subseteq linked'))
    BY <1>7 DEF FlushDir, Flush
  <2> QED
    BY <1>1, <2>1, <2>2, <2>3 DEF SyncInv, Running, Announced, Path
<1>8. CASE Fail
  BY <1>8 DEF Fail, PipelineFails, AbortCurrent, AbortShard, SyncInv, Running
<1>9. CASE PowerLoss \/ UNCHANGED vars
  <2>1. UNCHANGED <<at, finalized, dir, synced, linked>>
        /\ (wpc' = wpc \/ wpc' = "lost" \/ (wpc = "success" /\ wpc' = "lost_after_success"))
    BY <1>9 DEF PowerLoss, vars, writer_vars, disk_vars
  <2> QED
    BY <1>1, <2>1 DEF ReadableInv, SyncInv, Running, Announced, Path
<1>10. CASE \E m \in Names : SettleFile(m)
  <2>1. wpc \in Lost /\ wpc' = wpc
    BY <1>10 DEF SettleFile
  <2>2. CASE wpc = "lost_after_success" /\ params.mode = "on"
    <3>1. actual = Announced
      BY <2>2 DEF ReadableInv, SyncInv
    <3>2. Base /\ Counted /\ ContentInv
      BY <2>2, <3>1 DEF Base, ReadableInv, CountInv, FileInv, Counted, Standing
    <3> QED
      BY <1>10, <2>2, <3>2, NothingToSettle DEF ReadableInv
  <2>3. CASE ~(wpc = "lost_after_success" /\ params.mode = "on")
    BY <1>1, <2>1, <2>3 DEF ReadableInv, SyncInv, Running, Announced, Lost
  <2> QED
    BY <2>2, <2>3
<1> QED
  BY <1>2, <1>3, <1>4, <1>5, <1>6, <1>7, <1>8, <1>9, <1>10
     DEF Next, Write, Finish, Power, Terminated

----------------------------------------------------------------------------
(* From the invariants to the reader's tests. *)

\* A sum whose terms are all the same but the last.
LEMMA SumAlike ==
    ASSUME NEW s \in Seq(Nat), NEW n \in Nat \ {0}, Len(s) = n, NEW c \in Nat,
           \A k \in 1..(n - 1) : s[k] = c
    PROVE  Sum(s) = (n - 1) * c + s[n]
<1>1. PICK u : Sums(u, s) /\ Sum(s) = u[n]
  BY SumIsLast
<1>2. u[0] = 0 /\ \A k \in 1..n : u[k] = u[k - 1] + s[k]
  BY <1>1 DEF Sums
<1> DEFINE T == {k \in Nat : k <= n - 1 => u[k] = k * c}
<1>3. 0 \in T
  BY <1>2
<1>4. ASSUME NEW k \in Nat, k \in T PROVE k + 1 \in T
  <2> SUFFICES ASSUME k + 1 <= n - 1 PROVE u[k + 1] = (k + 1) * c
    OBVIOUS
  <2>1. k + 1 \in 1..n /\ k + 1 \in 1..(n - 1) /\ (k + 1) - 1 = k /\ u[k] = k * c
    BY <1>4
  <2>2. u[k + 1] = k * c + c
    BY <1>2, <2>1
  <2>3. (k + 1) * c = k * c + c
    OBVIOUS
  <2> QED
    BY <2>2, <2>3
<1> HIDE DEF T
<1>5. n - 1 \in Nat /\ n \in 1..n
  OBVIOUS
<1>6. n - 1 \in T
  BY <1>3, <1>4, <1>5, NatInd
<1>7. u[n - 1] = (n - 1) * c
  BY <1>5, <1>6 DEF T
<1> QED
  BY <1>1, <1>2, <1>5, <1>7

\* As many files as there are names for them.
LEMMA NamesCount ==
    ASSUME NEW n \in Nat, NEW f, NEW S, f \in [1..n -> S],
           \A j, k \in 1..n : f[j] = f[k] => j = k, \A x \in S : \E k \in 1..n : f[k] = x
    PROVE  Cardinality(S) = n
<1>1. f \in Bijection(1..n, S)
  BY DEF Bijection, Injection, Surjection, IsInjective
<1>2. ExistsBijection(1..n, S)
  BY <1>1 DEF ExistsBijection
<1>3. IsFiniteSet(1..n) /\ Cardinality(1..n) = n
  BY FS_Interval
<1> QED
  BY <1>2, <1>3, FS_Bijection

\* The state in which encrypt reports success.
Done ==
    /\ Base /\ ReadableInv /\ Counted /\ ContentInv
    /\ wpc \in {"success", "lost_after_success"} /\ DOMAIN dir \subseteq created

\* The header of shard k.
HeaderOf(k) ==
    MakeShardHeader(k - 1, plans[k].first, plans[k].count, plans[k].payload, << >>)

\* File f is shard k of the plan, complete.
CompleteShard(f, k) ==
    /\ f \in File /\ f.global = <<Announcement>> /\ f.shard # << >>
    /\ f.shard[1] = [HeaderOf(k) EXCEPT !.header_mac = <<Announcement, HeaderOf(k)>>]
    /\ Len(f.frames) = plans[k].count /\ PayloadSize(f.frames) = plans[k].payload
    /\ \A j \in 1..Len(f.frames) :
          /\ f.frames[j].shard_index = k - 1 /\ f.frames[j].intact
          /\ f.frames[j].index = plans[k].first + j - 1
          /\ f.frames[j].aad = <<Announcement, HeaderOf(k)>>
          /\ MeantFrame(f.frames[j])

\* All of them are there.
LEMMA DoneFile ==
    ASSUME Done, NEW k \in 1..Len(plans)
    PROVE  Path(k) \in DOMAIN dir /\ CompleteShard(dir[Path(k)], k)
<1>0. PICK f : f = dir[Path(k)]
  OBVIOUS
<1>1. Len(finalized) = Len(plans) /\ Len(plans) \in Nat
  BY FinalIsAnnounced, PlanFacts DEF Done, Ending, Base
<1>2. /\ finalized[k].index = k - 1 /\ finalized[k].first = plans[k].first
      /\ finalized[k].count = plans[k].count /\ finalized[k].payload = plans[k].payload
  BY <1>1 DEF Done, Counted, ShardsInv
<1>3. /\ Path(k) \in DOMAIN dir /\ Holds(f, k, plans[k].count)
      /\ PayloadSize(f.frames) = plans[k].payload
      /\ f.shard = <<ShardHeaderOf(finalized[k], Announcement)>>
  BY <1>0, <1>1, <1>2 DEF Done, ContentInv, FilesOf, ShardFile, Path
<1>4. Written(f)
  BY <1>0, <1>3 DEF Done, Base, DirInv
<1>5. Canonical(HeaderOf(k)) = HeaderOf(k)
  BY DEF Canonical, HeaderOf, MakeShardHeader
<1>6. f.shard # << >>
      /\ f.shard[1] = [HeaderOf(k) EXCEPT !.header_mac = <<Announcement, HeaderOf(k)>>]
  <2>1. ShardHeaderOf(finalized[k], Announcement) = WithMac(Announcement, HeaderOf(k))
    BY <1>2 DEF ShardHeaderOf, HeaderOf
  <2> QED
    BY <1>3, <1>5, <2>1 DEF WithMac, HeaderMac
<1>7. ShardHash(k - 1) = <<Announcement, HeaderOf(k)>>
  <2>1. k - 1 < Len(plans) /\ (k - 1) + 1 = k
    BY <1>1
  <2> QED
    BY <1>5, <2>1 DEF ShardHash, PublicHeaderHash, HeaderOf
<1> QED
  BY <1>0, <1>3, <1>4, <1>6, <1>7 DEF CompleteShard, Holds, Written

\* What the reader's tests read from that header.
LEMMA DoneHeader ==
    ASSUME NEW k, NEW h, h = [HeaderOf(k) EXCEPT !.header_mac = <<Announcement, HeaderOf(k)>>]
    PROVE  /\ h.shard_index = k - 1 /\ h.first_global_chunk_index = plans[k].first
           /\ h.shard_chunk_count = plans[k].count /\ h.shard_payload_len = plans[k].payload
           /\ Canonical(h) = HeaderOf(k) /\ h.header_mac = <<Announcement, HeaderOf(k)>>
<1> DEFINE mac == <<Announcement, HeaderOf(k)>>
           record(m) == [shard_index |-> k - 1, first_global_chunk_index |-> plans[k].first,
                         shard_chunk_count |-> plans[k].count,
                         shard_payload_len |-> plans[k].payload, header_mac |-> m]
<1>1. h = [HeaderOf(k) EXCEPT !.header_mac = mac]
  OBVIOUS
<1> HIDE DEF mac
<1>2. HeaderOf(k) = record(<< >>)
  BY DEF HeaderOf, MakeShardHeader
<1>3. h = record(mac)
  BY <1>1, <1>2
<1>4. ASSUME NEW e PROVE [h EXCEPT !.header_mac = e] = record(e)
  <2>1. \A m : [record(m) EXCEPT !.header_mac = e] = record(e)
    OBVIOUS
  <2> HIDE DEF record
  <2> QED
    BY <1>3, <2>1, Zenon
<1>5. Canonical(h) = record(<< >>)
  <2> HIDE DEF record
  <2> QED
    BY <1>4, Zenon DEF Canonical
<1> QED
  BY <1>2, <1>3, <1>5 DEF mac

\* The global header is consistent.
LEMMA DoneGlobal ==
    ASSUME Base
    PROVE  /\ ValidGlobal(Announcement) /\ Announcement.shard_count = Len(plans)
           /\ Announcement.global_chunk_count = params.count
           /\ Announcement.padded_plaintext_size = (params.count - 1) * ChunkSize + params.last
<1>1. /\ Announcement.shard_count = Len(plans) /\ Announcement.global_chunk_count = params.count
      /\ Announcement.padded_plaintext_size = (params.count - 1) * ChunkSize + params.last
      /\ Announcement.final_plaintext_chunk_len = params.last
  BY DEF Announcement, GlobalHeaderOf
<1>2. params.count \in Nat \ {0} /\ params.last \in 1..ChunkSize /\ ChunkSize \in Nat \ {0}
  BY FormatAssumption DEF Base, TypeInv, OptionsOK
<1>3. Len(plans) \in Nat \ {0} /\ Len(plans) <= params.count
  <2>1. Len(plans) \in Nat \ {0} /\ Len(plans) \in 1..Len(plans)
    BY PlanFacts DEF Base
  <2>2. PICK m : m = Len(plans)
    OBVIOUS
  <2>3. plans[m].first \in Nat /\ plans[m].count \in Nat \ {0} /\ End(plans[m]) <= params.count
        /\ m - 1 <= plans[m].first
    BY <2>1, <2>2, PlanFacts DEF Base, PlansInv, PlannedShard, PlanShape
  <2>4. End(plans[m]) = plans[m].first + plans[m].count
    BY DEF End
  <2>5. m <= params.count
    <3>1. PICK a \in Nat, b \in Nat \ {0} : a + b <= params.count /\ m - 1 <= a
      BY <2>3, <2>4
    <3> QED
      BY <1>2, <2>1, <2>2, <3>1
  <2> QED
    BY <2>1, <2>2, <2>5
<1>4. (params.count - 1) * ChunkSize + params.last > 0
  <2>1. params.count - 1 \in Nat
    BY <1>2
  <2>2. (params.count - 1) * ChunkSize \in Nat
    BY <1>2, <2>1
  <2> QED
    BY <1>2, <2>2
<1>5. ValidGlobal(Announcement)
  BY <1>1, <1>2, <1>3, <1>4 DEF ValidGlobal
<1> QED
  BY <1>1, <1>5

\* The directory holds the shards of the plan and nothing else.
LEMMA DonePaths ==
    ASSUME Done
    PROVE  /\ Len(plans) \in Nat \ {0} /\ DOMAIN dir # {}
           /\ \A k \in 1..Len(plans) : Path(k) \in DOMAIN dir
           /\ \A x \in DOMAIN dir : \E k \in 1..Len(plans) : x = Path(k)
           /\ \A j, k \in 1..Len(plans) : Path(j) = Path(k) => j = k
           /\ \A k \in 1..Len(plans) : dir[Path(k)].shard[1].shard_index = k - 1
           /\ Cardinality(DOMAIN dir) = Len(plans)
           /\ \A i \in 0..(Len(plans) - 1) : ShardAt(dir, i) = dir[Path(i + 1)]
<1>1. /\ Len(finalized) = Len(plans) /\ Len(plans) \in Nat \ {0} /\ stream = "closed"
      /\ FilesOf(finalized, current, stream, dir, created)
  BY FinalIsAnnounced, PlanFacts DEF Done, Ending, Base, ContentInv
<1>2. /\ \A k \in 1..Len(plans) : Path(k) \in DOMAIN dir
      /\ \A x \in DOMAIN dir : \E k \in 1..Len(plans) : x = Path(k)
      /\ \A j, k \in 1..Len(plans) : Path(j) = Path(k) => j = k
  BY <1>1 DEF Done, FilesOf, Path
<1>3. \A k \in 1..Len(plans) : dir[Path(k)].shard[1].shard_index = k - 1
  BY DoneFile, DoneHeader DEF CompleteShard
<1> DEFINE n == Len(plans)
           f == [k \in 1..n |-> Path(k)]
<1>4. Cardinality(DOMAIN dir) = n
  <2>1. /\ f \in [1..n -> DOMAIN dir] /\ \A j, k \in 1..n : f[j] = f[k] => j = k
        /\ \A x \in DOMAIN dir : \E k \in 1..n : f[k] = x
    BY <1>2
  <2> HIDE DEF f
  <2> QED
    BY <1>1, <2>1, NamesCount
<1>5. ASSUME NEW i \in 0..(n - 1) PROVE ShardAt(dir, i) = dir[Path(i + 1)]
  <2>1. i + 1 \in 1..n /\ (i + 1) - 1 = i
    BY <1>1
  <2>2. ASSUME NEW x \in DOMAIN dir, dir[x].shard[1].shard_index = i PROVE x = Path(i + 1)
    <3>1. PICK k \in 1..n : x = Path(k)
      BY <1>2
    <3>2. k - 1 = i
      BY <1>3, <2>2, <3>1
    <3>3. k = i + 1
      BY <3>2
    <3> QED
      BY <3>1, <3>3
  <2>3. Path(i + 1) \in DOMAIN dir /\ dir[Path(i + 1)].shard[1].shard_index = i
    BY <1>2, <1>3, <2>1
  <2>4. (CHOOSE x \in DOMAIN dir : dir[x].shard[1].shard_index = i) = Path(i + 1)
    BY <2>2, <2>3
  <2> QED
    BY <2>4 DEF ShardAt
<1>6. DOMAIN dir # {}
  <2>1. 1 \in 1..n
    BY <1>1
  <2> QED
    BY <1>2, <2>1
<1> QED
  BY <1>1, <1>2, <1>3, <1>4, <1>5, <1>6

\* Every file passes read_shard_info(), its MAC and the tests on its frames.
LEMMA DoneReads ==
    ASSUME Done, NEW k \in 1..Len(plans), NEW f, f = dir[Path(k)]
    PROVE  ReadShardInfo(f) /\ VerifyMac(f) /\ ReadShard(f)
<1>0. CompleteShard(f, k)
  BY DoneFile
<1> DEFINE h == f.shard[1]
           g == Announcement
<1>1. /\ f.global = <<g>> /\ f.shard # << >>
      /\ h = [HeaderOf(k) EXCEPT !.header_mac = <<g, HeaderOf(k)>>]
      /\ Len(f.frames) = plans[k].count /\ PayloadSize(f.frames) = plans[k].payload
      /\ \A j \in 1..Len(f.frames) :
            /\ f.frames[j].shard_index = k - 1 /\ f.frames[j].intact
            /\ f.frames[j].index = plans[k].first + j - 1
            /\ f.frames[j].aad = <<g, HeaderOf(k)>>
            /\ MeantFrame(f.frames[j])
  BY <1>0 DEF CompleteShard
<1> HIDE DEF h
<1>2. /\ h.shard_index = k - 1 /\ h.first_global_chunk_index = plans[k].first
      /\ h.shard_chunk_count = plans[k].count /\ h.shard_payload_len = plans[k].payload
      /\ Canonical(h) = HeaderOf(k) /\ h.header_mac = <<g, HeaderOf(k)>>
  BY <1>1, DoneHeader
<1>3. f.global # << >> /\ f.global[1] = g
  BY <1>1
<1>4. /\ ValidGlobal(g) /\ g.shard_count = Len(plans) /\ g.global_chunk_count = params.count
  BY DoneGlobal DEF Done
<1> HIDE DEF g
<1>5. /\ Len(plans) \in Nat /\ plans[k].first \in Nat /\ plans[k].count \in Nat \ {0}
      /\ plans[k].payload \in Nat /\ plans[k].payload = PayloadOf(plans[k].first, plans[k].count)
      /\ End(plans[k]) <= params.count /\ params.count \in Nat
  BY PlanFacts DEF Done, Base
<1>6. plans[k].payload > 0
  <2> DEFINE a == plans[k].first
             c == plans[k].count - 1
  <2>1. c \in Nat /\ a \in Nat /\ a + c < params.count /\ c + 1 = plans[k].count
    BY <1>5 DEF End
  <2> HIDE DEF a, c
  <2>2. /\ FrameSize(ChunkLen(Announced, a + c)) \in Nat \ {0} /\ PayloadOf(a, c) \in Nat
        /\ PayloadOf(a, c + 1) = PayloadOf(a, c) + FrameSize(ChunkLen(Announced, a + c))
    BY <2>1, Sizes DEF Done, Base
  <2> QED
    BY <1>5, <2>1, <2>2 DEF a
<1>7. ReadShardInfo(f)
  <2>1. ValidShardHeader(h)
    BY <1>2, <1>5, <1>6 DEF ValidShardHeader
  <2>2. h.shard_index < g.shard_count
    BY <1>2, <1>4, <1>5
  <2> QED
    BY <1>1, <1>2, <1>3, <1>4, <2>1, <2>2 DEF ReadShardInfo, h
<1>8. VerifyMac(f)
  BY <1>2, <1>3 DEF VerifyMac, HeaderMac, h
<1>9. ReadShard(f)
  <2> SUFFICES ASSUME NEW j \in 1..Len(f.frames) PROVE ReadFrame(f, j) /\ Opens(f, f.frames[j])
    BY <1>1, <1>2 DEF ReadShard, h
  <2>1. Opens(f, f.frames[j])
    BY <1>1, <1>2, <1>3 DEF Opens, PublicHeaderHash, h
  <2>2. /\ f.frames[j].len = ChunkLen(Announced, f.frames[j].index)
        /\ f.frames[j].final = (f.frames[j].index = params.count - 1)
    BY <1>1 DEF MeantFrame, IsFinal, Done, Base, Announced
  <2>3. params.last \in 1..ChunkSize /\ ChunkSize \in Nat
    BY FormatAssumption DEF Done, Base, TypeInv, OptionsOK
  <2>4. f.frames[j].len <= ChunkSize /\ (~f.frames[j].final => f.frames[j].len = ChunkSize)
    <3>1. CASE f.frames[j].index = params.count - 1
      <4>1. f.frames[j].final
        BY <2>2, <3>1, Zenon
      <4>2. f.frames[j].len = params.last
        BY <2>2, <3>1 DEF ChunkLen, Announced
      <4>3. f.frames[j].len <= ChunkSize
        BY <2>3, <4>2
      <4> QED
        BY <4>1, <4>3, Zenon
    <3>2. CASE f.frames[j].index # params.count - 1
      BY <2>2, <2>3, <3>2 DEF ChunkLen, Announced
    <3> QED
      BY <3>1, <3>2
  <2>5. f.frames[j].shard_index = h.shard_index
        /\ f.frames[j].index = h.first_global_chunk_index + j - 1
    BY <1>1, <1>2
  <2>6. f.frames[j].final <=> f.frames[j].index = g.global_chunk_count - 1
    BY <1>4, <2>2
  <2>7. ReadFrame(f, j)
    BY <1>3, <2>4, <2>5, <2>6, Zenon DEF ReadFrame, h
  <2> QED
    BY <2>1, <2>7
<1> QED
  BY <1>7, <1>8, <1>9

\* The shards fit together, and the reader returns the whole archive.
LEMMA DoneAccepted == ASSUME Done PROVE Accepts(dir)
<1> DEFINE n == Len(plans)
           g == Announcement
<1>1. /\ n \in Nat \ {0} /\ DOMAIN dir # {}
      /\ \A k \in 1..n : Path(k) \in DOMAIN dir
      /\ \A x \in DOMAIN dir : \E k \in 1..n : x = Path(k)
      /\ \A j, k \in 1..n : Path(j) = Path(k) => j = k
      /\ \A k \in 1..n : dir[Path(k)].shard[1].shard_index = k - 1
      /\ Cardinality(DOMAIN dir) = n
      /\ \A i \in 0..(n - 1) : ShardAt(dir, i) = dir[Path(i + 1)]
  BY DonePaths
<1>2. ASSUME NEW k \in 1..n
      PROVE  /\ dir[Path(k)] \in File /\ dir[Path(k)].global = <<g>>
             /\ dir[Path(k)].shard[1].first_global_chunk_index = plans[k].first
             /\ dir[Path(k)].shard[1].shard_chunk_count = plans[k].count
  <2>1. PICK f : f = dir[Path(k)]
    OBVIOUS
  <2>2. /\ f \in File /\ f.global = <<g>>
        /\ f.shard[1] = [HeaderOf(k) EXCEPT !.header_mac = <<Announcement, HeaderOf(k)>>]
    BY <2>1, DoneFile DEF CompleteShard
  <2>3. f.shard[1].first_global_chunk_index = plans[k].first
        /\ f.shard[1].shard_chunk_count = plans[k].count
    BY <2>2, DoneHeader, Zenon
  <2> QED
    BY <2>1, <2>2, <2>3
<1>3. \A x \in DOMAIN dir : dir[x] \in File /\ dir[x].global = <<g>>
  BY <1>1, <1>2
<1>4. \A x \in DOMAIN dir : ReadShardInfo(dir[x]) /\ VerifyMac(dir[x]) /\ ReadShard(dir[x])
  BY <1>1, DoneReads
<1>5. g.shard_count = n /\ g.global_chunk_count = params.count
      /\ g.padded_plaintext_size = (params.count - 1) * ChunkSize + params.last
  BY DoneGlobal DEF Done
<1>6. GlobalOf(dir) = g
  BY <1>1, <1>3 DEF GlobalOf
<1>7. ValidateShards(dir)
  <2> DEFINE first(i) == ShardAt(dir, i).shard[1].first_global_chunk_index
             end(i) == first(i) + ShardAt(dir, i).shard[1].shard_chunk_count
  <2>1. ASSUME NEW i \in 0..(n - 1)
        PROVE  first(i) = plans[i + 1].first /\ end(i) = End(plans[i + 1])
    <3>1. i + 1 \in 1..n
      BY <1>1
    <3> QED
      BY <1>1, <1>2, <3>1 DEF End
  <2>2. ASSUME NEW x \in DOMAIN dir, NEW y \in DOMAIN dir
        PROVE  dir[x].global = dir[y].global
               /\ (x # y => dir[x].shard[1].shard_index # dir[y].shard[1].shard_index)
    <3>1. PICK j \in 1..n : x = Path(j)
      BY <1>1
    <3>2. PICK k \in 1..n : y = Path(k)
      BY <1>1
    <3>3. j - 1 = k - 1 => j = k
      OBVIOUS
    <3> QED
      BY <1>1, <1>3, <3>1, <3>2, <3>3
  <2>3. \A i \in 0..(n - 1) : \E x \in DOMAIN dir : dir[x].shard[1].shard_index = i
    <3> SUFFICES ASSUME NEW i \in 0..(n - 1) PROVE \E x \in DOMAIN dir : dir[x].shard[1].shard_index = i
      OBVIOUS
    <3>1. i + 1 \in 1..n /\ (i + 1) - 1 = i
      BY <1>1
    <3> QED
      BY <1>1, <3>1
  <2> HIDE DEF first, end
  <2>4. \A i \in 0..(n - 1) : first(i) = IF i = 0 THEN 0 ELSE end(i - 1)
    <3> SUFFICES ASSUME NEW i \in 0..(n - 1) PROVE first(i) = IF i = 0 THEN 0 ELSE end(i - 1)
      OBVIOUS
    <3>1. CASE i = 0
      <4>1. plans[1].first = 0 /\ i + 1 = 1
        BY <3>1, PlanFacts DEF Done, Base
      <4> QED
        BY <2>1, <3>1, <4>1
    <3>2. CASE i # 0
      <4>1. i \in 1..n /\ i < n /\ i - 1 \in 0..(n - 1) /\ (i - 1) + 1 = i
        BY <1>1, <3>2
      <4>2. plans[i + 1].first = End(plans[i])
        BY <4>1, PlanFacts DEF Done, Base
      <4>3. end(i - 1) = End(plans[i]) /\ first(i) = plans[i + 1].first
        BY <2>1, <4>1
      <4> QED
        BY <3>2, <4>2, <4>3
    <3> QED
      BY <3>1, <3>2
  <2>5. end(n - 1) = params.count
    <3>1. n - 1 \in 0..(n - 1) /\ (n - 1) + 1 = n /\ n \in 1..n
      BY <1>1
    <3>2. End(plans[n]) = params.count
      BY <3>1, PlanFacts DEF Done, Base
    <3>3. end(n - 1) = End(plans[(n - 1) + 1])
      BY <2>1, <3>1
    <3> QED
      BY <3>1, <3>2, <3>3
  <2> QED
    BY <1>1, <1>4, <1>5, <1>6, <2>2, <2>3, <2>4, <2>5 DEF ValidateShards, GlobalOf, first, end
<1>8. Sound(dir)
  BY <1>1, <1>3, <1>4, <1>7 DEF Sound
<1> DEFINE c == Contents(dir)
<1>9. PlainSize(c) = (params.count - 1) * ChunkSize + params.last
  <2>1. /\ c \in Seq(Frame) /\ Len(c) = params.count
        /\ \A i \in 1..Len(c) : /\ c[i].index = i - 1
                                /\ \E x \in DOMAIN dir : \E k \in 1..Len(dir[x].frames) :
                                      c[i] = dir[x].frames[k]
    BY <1>5, <1>6, <1>8, ReadInOrder
  <2> HIDE DEF c
  <2>2. params.count \in Nat \ {0} /\ params.last \in 1..ChunkSize /\ ChunkSize \in Nat \ {0}
    BY FormatAssumption DEF Done, Base, TypeInv, OptionsOK
  <2>3. ASSUME NEW i \in 1..params.count
        PROVE  c[i].len = IF i = params.count THEN params.last ELSE ChunkSize
    <3>0. PICK x \in DOMAIN dir : \E k \in 1..Len(dir[x].frames) : c[i] = dir[x].frames[k]
      BY <2>1
    <3>1. PICK k \in 1..Len(dir[x].frames) : c[i] = dir[x].frames[k]
      BY <3>0
    <3>2. MeantFrame(c[i]) /\ c[i].index = i - 1
      BY <2>1, <3>1 DEF Done, Base, DirInv, Written
    <3>3. c[i].len = IF i - 1 = params.count - 1 THEN params.last ELSE ChunkSize
      BY <3>2 DEF MeantFrame, ChunkLen, Done, Base, Announced
    <3> QED
      BY <2>2, <3>3
  <2> DEFINE s == [k \in 1..Len(c) |-> c[k].len]
  <2>4. s \in Seq(Nat) /\ Len(s) = params.count
    <3>1. \A k \in 1..Len(c) : c[k].len \in Nat
      BY <2>1, <2>2, <2>3
    <3>2. Len(c) \in Nat
      BY <2>1, <2>2
    <3>3. s \in Seq(Nat)
      BY <3>1, <3>2, IsASeq
    <3>4. DOMAIN s = 1..Len(c)
      OBVIOUS
    <3> HIDE DEF s
    <3> QED
      BY <2>1, <3>2, <3>3, <3>4, LenProperties
  <2>5. s[params.count] = params.last /\ \A k \in 1..(params.count - 1) : s[k] = ChunkSize
    BY <2>1, <2>2, <2>3
  <2> HIDE DEF s
  <2>6. Sum(s) = (params.count - 1) * ChunkSize + s[params.count]
    BY <2>2, <2>4, <2>5, SumAlike
  <2> QED
    BY <2>5, <2>6 DEF PlainSize, s
<1>10. \A x \in DOMAIN dir : dir[x].global[1] = g
  BY <1>3
<1> QED
  BY <1>1, <1>4, <1>5, <1>7, <1>9, <1>10 DEF Accepts, Discover

\* If a stream that is closed has written what it had buffered, then what
\* encrypt reports as written can be decrypted, for any layout and any sizes,
\* and with --durability=on it still can after a power loss.
THEOREM SuccessAlwaysReadable ==
    ASSUME "close" \notin Faults PROVE Spec => []SuccessIsReadable
<1> DEFINE Inv == TypeInv /\ Placed /\ Kept /\ DirInv /\ ReadableInv
<1>1. Init => Inv
  <2> SUFFICES ASSUME Init PROVE Placed /\ Kept /\ DirInv /\ ReadableInv
    BY TypeInit
  <2>1. Len(in_flight) = 0 /\ Len(plans) = 0
    BY DEF Init
  <2>2. Placed
    BY <2>1 DEF Init, Placed, Chained, Joined, Compared
  <2>3. Kept /\ DirInv
    BY <2>1 DEF Init, Kept, DirInv
  <2>4. PlansInv /\ FreshInv
    BY <2>1 DEF Init, PlansInv, FreshInv
  <2>5. ~Standing /\ wpc = "plan"
    BY DEF Init, Standing
  <2>6. CountInv /\ FileInv /\ SyncInv
    BY <2>5 DEF CountInv, FileInv, SyncInv, Ending, Running
  <2> QED
    BY <2>2, <2>3, <2>4, <2>6 DEF ReadableInv
<1>2. Inv /\ [Next]_vars => Inv'
  <2>1. TypeInv /\ Placed /\ [Next]_vars => Placed'
    BY PlacedPlanFrame, PlacedTake, PlacedOpen, PlacedWrite, PlacedClose, PlacedOthers
       DEF Next, Write, Terminated
  <2>2. ReadableInv /\ Inv /\ [Next]_vars => ReadableInv'
    BY PlansStep, FreshStep, CountStep, FileStep, SyncStep DEF ReadableInv
  <2> QED
    BY <2>1, <2>2, TypeStep, KeptStep, DirStep
<1>3. Inv => SuccessIsReadable
  <2> SUFFICES ASSUME Inv, DOMAIN dir \subseteq created,
                      wpc = "success" \/ (wpc = "lost_after_success" /\ params.mode = "on")
               PROVE  Accepts(dir)
    BY DEF SuccessIsReadable
  <2>1. Standing /\ actual = Announced
    BY DEF ReadableInv, SyncInv, Ending, Standing
  <2>2. Done
    BY <2>1 DEF Done, Base, ReadableInv, CountInv, FileInv, Counted
  <2> QED
    BY <2>2, DoneAccepted
<1> HIDE DEF Inv
<1> QED
  BY <1>1, <1>2, <1>3, PTL DEF Spec
=============================================================================
