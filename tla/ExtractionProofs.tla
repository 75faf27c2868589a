-------------------------- MODULE ExtractionProofs --------------------------
(***************************************************************************)
(* Proofs about what ArchiveReader extracts and promotes, for any stream   *)
(* of records, any output and any other process: success means that the    *)
(* output is what the records say, and at any moment, failures included,   *)
(* every path of the output holds its old entry or the archive's.          *)
(***************************************************************************)
EXTENDS ArchiveRoundTripProofs

----------------------------------------------------------------------------
\* One step of the recursion of BytesBetween.
WithRecord(s, i, prev, k) ==
    IF k <= i THEN << >> ELSE IF s[k].type = "Bytes" THEN prev \o s[k].body ELSE prev
BytesUpTo(u, s, i, n) ==
    u = [k \in 0..n |-> WithRecord(s, i, u[k - 1], k)]

\* The recursion has a solution,
LEMMA BytesExist == ASSUME NEW s, NEW i \in Nat, NEW n \in Nat PROVE \E u : BytesUpTo(u, s, i, n)
<1> DEFINE T == {m \in Nat : \E u : BytesUpTo(u, s, i, m)}
<1>1. 0 \in T
  <2>1. BytesUpTo([k \in 0..0 |-> << >>], s, i, 0)
    BY DEF BytesUpTo, WithRecord
  <2> QED
    BY <2>1
<1>2. ASSUME NEW m \in Nat, m \in T PROVE m + 1 \in T
  <2>1. PICK u : BytesUpTo(u, s, i, m)
    BY <1>2
  <2> DEFINE v == [k \in 0..(m + 1) |-> IF k = m + 1 THEN WithRecord(s, i, u[m], m + 1) ELSE u[k]]
  <2>2. \A k \in 0..m : u[k] = WithRecord(s, i, u[k - 1], k)
    BY <2>1 DEF BytesUpTo
  <2>3. v[m + 1] = WithRecord(s, i, u[m], m + 1) /\ \A k \in 0..m : v[k] = u[k]
    OBVIOUS
  <2>4. v = [k \in 0..(m + 1) |-> v[k]]
    OBVIOUS
  <2> HIDE DEF v
  <2>5. ASSUME NEW k \in 0..(m + 1) PROVE v[k] = WithRecord(s, i, v[k - 1], k)
    <3>1. CASE k = m + 1
      <4>1. v[k - 1] = u[m]
        BY <2>3, <3>1
      <4> QED
        BY <2>3, <3>1, <4>1
    <3>2. CASE k \in 0..m /\ k # 0
      <4>1. v[k] = u[k] /\ v[k - 1] = u[k - 1]
        BY <2>3, <3>2
      <4> QED
        BY <2>2, <3>2, <4>1
    <3>3. CASE k = 0
      <4>1. v[k] = << >>
        BY <2>2, <2>3, <3>3 DEF WithRecord
      <4> QED
        BY <3>3, <4>1 DEF WithRecord
    <3> QED
      BY <3>1, <3>2, <3>3
  <2>6. BytesUpTo(v, s, i, m + 1)
    BY <2>4, <2>5 DEF BytesUpTo
  <2> QED
    BY <2>6
<1> HIDE DEF T
<1>3. n \in T
  BY <1>1, <1>2, NatInd
<1> QED
  BY <1>3 DEF T

\* which does not depend on where it stops,
LEMMA BytesAgree ==
    ASSUME NEW s, NEW i \in Nat, NEW n \in Nat, NEW t, NEW u, BytesUpTo(t, s, i, n),
           BytesUpTo(u, s, i, n + 1)
    PROVE  t[n] = u[n] /\ u[n + 1] = WithRecord(s, i, u[n], n + 1)
<1>0. /\ \A k \in 0..n : t[k] = WithRecord(s, i, t[k - 1], k)
      /\ \A k \in 0..(n + 1) : u[k] = WithRecord(s, i, u[k - 1], k)
  BY DEF BytesUpTo
<1> DEFINE T == {k \in Nat : k <= n => t[k] = u[k]}
<1>1. 0 \in T
  BY <1>0 DEF WithRecord
<1>2. ASSUME NEW k \in Nat, k \in T PROVE k + 1 \in T
  <2> SUFFICES ASSUME k + 1 <= n PROVE t[k + 1] = u[k + 1]
    OBVIOUS
  <2>1. k + 1 \in 0..n /\ k + 1 \in 0..(n + 1) /\ (k + 1) - 1 = k /\ k <= n
    OBVIOUS
  <2>2. t[k + 1] = WithRecord(s, i, t[k], k + 1) /\ u[k + 1] = WithRecord(s, i, u[k], k + 1)
    BY <1>0, <2>1
  <2> QED
    BY <1>2, <2>1, <2>2
<1> HIDE DEF T
<1>3. n \in T
  BY <1>1, <1>2, NatInd
<1>4. n + 1 \in 0..(n + 1) /\ (n + 1) - 1 = n /\ n <= n
  OBVIOUS
<1> QED
  BY <1>0, <1>3, <1>4 DEF T

\* and is what BytesBetween takes.
LEMMA BytesIsUpTo ==
    ASSUME NEW s, NEW i \in Nat, NEW n \in Nat
    PROVE  \E u : BytesUpTo(u, s, i, n) /\ BytesBetween(s, i, n) = u[n]
<1> DEFINE upto[k \in 0..n] ==
              IF k <= i THEN << >>
              ELSE IF s[k].type = "Bytes" THEN upto[k - 1] \o s[k].body ELSE upto[k - 1]
<1>0. \E u : u = [k \in 0..n |->
              IF k <= i THEN << >>
              ELSE IF s[k].type = "Bytes" THEN u[k - 1] \o s[k].body ELSE u[k - 1]]
  <2>1. PICK u : BytesUpTo(u, s, i, n)
    BY BytesExist
  <2> QED
    BY <2>1, Zenon DEF BytesUpTo, WithRecord
<1>1. BytesUpTo(upto, s, i, n)
  BY <1>0, Zenon DEF BytesUpTo, WithRecord
<1>2. BytesBetween(s, i, n) = upto[n]
  BY DEF BytesBetween
<1> QED
  BY <1>1, <1>2

\* One record more.
LEMMA BytesStep ==
    ASSUME NEW s, NEW i \in Nat, NEW n \in Nat, i <= n
    PROVE  /\ BytesBetween(s, i, i) = << >>
           /\ s[n + 1].type = "Bytes" =>
                 BytesBetween(s, i, n + 1) = BytesBetween(s, i, n) \o s[n + 1].body
           /\ s[n + 1].type # "Bytes" => BytesBetween(s, i, n + 1) = BytesBetween(s, i, n)
<1>1. PICK z : BytesUpTo(z, s, i, i) /\ BytesBetween(s, i, i) = z[i]
  BY BytesIsUpTo
<1>2. z[i] = << >>
  BY <1>1 DEF BytesUpTo, WithRecord
<1>3. PICK t : BytesUpTo(t, s, i, n) /\ BytesBetween(s, i, n) = t[n]
  BY BytesIsUpTo
<1>4. PICK u : BytesUpTo(u, s, i, n + 1) /\ BytesBetween(s, i, n + 1) = u[n + 1]
  BY BytesIsUpTo
<1>5. t[n] = u[n] /\ u[n + 1] = WithRecord(s, i, u[n], n + 1)
  BY <1>3, <1>4, BytesAgree
<1>6. ~(n + 1 <= i)
  OBVIOUS
<1> QED
  BY <1>1, <1>2, <1>3, <1>4, <1>5, <1>6 DEF WithRecord

\* Bytes are bytes.
LEMMA BytesTyped ==
    ASSUME NEW s, Framed(s), NEW i \in Nat, NEW n \in Nat, i <= n, n <= Len(s)
    PROVE  BytesBetween(s, i, n) \in Seq(Nat)
<1> DEFINE T == {k \in Nat : i <= k /\ k <= n => BytesBetween(s, i, k) \in Seq(Nat)}
<1>1. \A k \in Nat : k <= i => k \in T
  <2>1. i <= i
    OBVIOUS
  <2>2. BytesBetween(s, i, i) = << >>
    BY <2>1, BytesStep
  <2>3. BytesBetween(s, i, i) \in Seq(Nat)
    BY <2>2, EmptySeq
  <2>4. ASSUME NEW k \in Nat, k <= i, i <= k PROVE k = i
    BY <2>4
  <2> QED
    BY <2>3, <2>4
<1>2. ASSUME NEW k \in Nat, k \in T PROVE k + 1 \in T
  <2>1. CASE k + 1 <= i
    BY <1>1, <2>1
  <2>2. CASE i <= k /\ k + 1 <= n
    <3>1. BytesBetween(s, i, k) \in Seq(Nat)
      BY <1>2, <2>2
    <3>2. k + 1 \in DOMAIN s
      BY <2>2 DEF Framed
    <3>3. s[k + 1].type = "Bytes" => s[k + 1].body \in Seq(Nat)
      BY <3>2 DEF Framed
    <3>4. s[k + 1].type = "Bytes" => BytesBetween(s, i, k) \o s[k + 1].body \in Seq(Nat)
      BY <3>1, <3>3, ConcatProperties
    <3>5. BytesBetween(s, i, k + 1) \in Seq(Nat)
      <4>1. /\ s[k + 1].type = "Bytes" =>
                  BytesBetween(s, i, k + 1) = BytesBetween(s, i, k) \o s[k + 1].body
            /\ s[k + 1].type # "Bytes" => BytesBetween(s, i, k + 1) = BytesBetween(s, i, k)
        BY <2>2, BytesStep
      <4> QED
        BY <3>1, <3>4, <4>1
    <3> QED
      BY <3>5
  <2>3. CASE ~(k + 1 <= n)
    BY <2>3
  <2> QED
    BY <2>1, <2>2, <2>3
<1>3. 0 \in T
  BY <1>1
<1> HIDE DEF T
<1>4. n \in T
  BY <1>2, <1>3, NatInd
<1> QED
  BY <1>4 DEF T

----------------------------------------------------------------------------
IsFile(t, p) == p \in DOMAIN t /\ t[p].kind = "file"
PathOf(s, i) == NormalPath(s[i].body.path)

\* A FileEnd comes after the i-th record and not after the j-th.
EndsBy(s, i, j) == \E k \in (i + 1)..j : s[k].type = "FileEnd"

\* What the reader has made sure of when it has taken the k-th record.
Sound(s, k) ==
    LET ty == s[k].type
        files == {i \in 1..(k - 1) : s[i].type = "File"}
    IN  /\ ty \in RecordTypes \ {"Link"}
        /\ ty = "Begin" <=> k = 1
        /\ ty = "Begin" => s[k].body = Version
        /\ ty \in {"Dir", "File"} => s[k].body.path # <<".">> /\ SafePath(s[k].body.path)
        /\ ty = "Padding" <=> \E i \in 1..(k - 1) : s[i].type = "End"
        /\ ty \in {"File", "End"} => \A i \in files : EndsBy(s, i, k - 1)
        /\ ty \in {"Bytes", "FileEnd"} => \E i \in files : ~EndsBy(s, i, k - 1)
        /\ ty = "FileEnd" => \A i \in files : ~EndsBy(s, i, k - 1) =>
                                Len(BytesBetween(s, i, k - 1)) = s[i].body.size

\* What the flags and the open file of the reader say of the first n records.
Grammar(s, n, b, e, f) ==
    /\ \A k \in 1..n : Sound(s, k)
    /\ b <=> n # 0
    /\ e <=> \E k \in 1..n : s[k].type = "End"
    /\ f = << >> => \A i \in 1..n : s[i].type = "File" => EndsBy(s, i, n)
    /\ f # << >> => \E i \in 1..n : /\ s[i].type = "File" /\ ~EndsBy(s, i, n)
                                    /\ f[1].meta = s[i].body
                                    /\ f[1].written = Len(BytesBetween(s, i, n))

\* One record more.
LEMMA EndsNext ==
    ASSUME NEW s, NEW i \in Nat, NEW n \in Nat, i <= n
    PROVE  /\ EndsBy(s, i, n + 1) <=> EndsBy(s, i, n) \/ s[n + 1].type = "FileEnd"
           /\ ~EndsBy(s, i, i)
  BY DEF EndsBy

\* At most one file is open.
LEMMA OneOpen ==
    ASSUME NEW s, NEW n \in Nat, \A k \in 1..n : Sound(s, k), NEW i \in 1..n, NEW j \in 1..n,
           s[i].type = "File", s[j].type = "File", ~EndsBy(s, i, n)
    PROVE  j <= i /\ (~EndsBy(s, j, n) => i = j)
<1>1. ASSUME NEW x \in 1..n, NEW y \in 1..n, x < y, s[x].type = "File", s[y].type = "File"
      PROVE  EndsBy(s, x, n)
  <2>1. x \in 1..(y - 1) /\ Sound(s, y)
    BY <1>1
  <2>2. EndsBy(s, x, y - 1)
    BY <1>1, <2>1 DEF Sound
  <2> QED
    BY <1>1, <2>2 DEF EndsBy
<1>2. ~(i < j)
  BY <1>1
<1>3. ~EndsBy(s, j, n) => ~(j < i)
  BY <1>1
<1> QED
  BY <1>2, <1>3

\* A record that the reader accepts is sound.
LEMMA SoundNext ==
    ASSUME StreamInv, ProgressInv, Grammar(stream, records, begun, ended, file),
           Arriving = "complete", Allowed(Rec)
    PROVE  Sound(stream, records + 1)
<1> DEFINE n == records
           ty == Rec.type
           files == {i \in 1..n : stream[i].type = "File"}
<1>1. n \in Nat /\ (n + 1) - 1 = n /\ Rec = stream[n + 1]
  BY DEF StreamInv, Framed, ProgressInv, Rec
<1>2. ty \in RecordTypes
  BY DEF Arriving, Framing
<1>3. ty # "Link" /\ (ty = "Padding" <=> ended) /\ (ended <=> \E i \in 1..n : stream[i].type = "End")
  <2>1. ty # "Link"
    BY DEF Allowed, LinkAllowed
  <2>2. ended => ty = "Padding"
    BY DEF Allowed
  <2>3. ty = "Padding" => ended
    BY DEF Allowed
  <2>4. ended <=> \E i \in 1..n : stream[i].type = "End"
    BY DEF Grammar
  <2> QED
    BY <2>1, <2>2, <2>3, <2>4
<1>4. file # << >> => n # 0
  BY <1>1 DEF Grammar
<1>5. ty = "Begin" <=> n + 1 = 1
  <2>1. begun <=> n # 0
    BY DEF Grammar
  <2>2. ty = "Begin" => ~begun
    BY DEF Allowed, BeginAllowed
  <2>3. ty \in {"Dir", "File", "End"} => begun
    BY DEF Allowed, DirAllowed, FileAllowed, EndAllowed
  <2>4. ty \in {"Bytes", "FileEnd"} => n # 0
    BY <1>4 DEF Allowed, BytesAllowed, FileEndAllowed
  <2>5. ty = "Padding" => n # 0
    BY <1>1, <1>3
  <2> QED
    BY <1>1, <1>2, <1>3, <2>1, <2>2, <2>3, <2>4, <2>5 DEF RecordTypes
<1>6. ty = "Begin" => Rec.body = Version
  BY DEF Allowed, BeginAllowed
<1>7. ty \in {"Dir", "File"} => Rec.body.path # <<".">> /\ SafePath(Rec.body.path)
  BY DEF Allowed, DirAllowed, FileAllowed, ValidMetadata
<1>8. ty \in {"File", "End"} => \A i \in files : EndsBy(stream, i, n)
  <2>1. ty \in {"File", "End"} => file = << >>
    BY DEF Allowed, FileAllowed, EndAllowed
  <2> QED
    BY <2>1 DEF Grammar
<1>9. ty \in {"Bytes", "FileEnd"} => \E i \in files : ~EndsBy(stream, i, n)
  <2>1. ty \in {"Bytes", "FileEnd"} => file # << >>
    BY DEF Allowed, BytesAllowed, FileEndAllowed
  <2> QED
    BY <2>1 DEF Grammar
<1>10. ASSUME ty = "FileEnd", NEW i \in files, ~EndsBy(stream, i, n)
       PROVE  Len(BytesBetween(stream, i, n)) = stream[i].body.size
  <2>1. file # << >> /\ file[1].written = file[1].meta.size
    BY <1>10 DEF Allowed, FileEndAllowed
  <2>2. PICK j \in 1..n : /\ stream[j].type = "File" /\ ~EndsBy(stream, j, n)
                          /\ file[1].meta = stream[j].body
                          /\ file[1].written = Len(BytesBetween(stream, j, n))
    BY <2>1 DEF Grammar
  <2>3. i = j
    BY <1>1, <1>10, <2>2, OneOpen DEF Grammar
  <2> QED
    BY <2>1, <2>2, <2>3
<1> QED
  BY <1>1, <1>2, <1>3, <1>5, <1>6, <1>7, <1>8, <1>9, <1>10 DEF Sound

\* One record more, and what the reader makes of it.
LEMMA GrammarNext ==
    ASSUME NEW s, Framed(s), NEW n \in Nat, n + 1 <= Len(s), NEW b, NEW e, NEW f,
           Grammar(s, n, b, e, f), Sound(s, n + 1), NEW b2, NEW e2, NEW f2,
           b2, e2 <=> (e \/ s[n + 1].type = "End"),
           \/ s[n + 1].type \notin {"File", "Bytes", "FileEnd"} /\ f2 = f
           \/ s[n + 1].type = "File" /\ f2 = <<OpenFile(s[n + 1].body, 0)>>
           \/ /\ s[n + 1].type = "Bytes" /\ f # << >>
              /\ f2 = <<OpenFile(f[1].meta, f[1].written + Len(s[n + 1].body))>>
           \/ s[n + 1].type = "FileEnd" /\ f2 = << >>
    PROVE  Grammar(s, n + 1, b2, e2, f2)
<1> DEFINE r == s[n + 1]
<1>1. \A k \in 1..(n + 1) : k \in 1..n \/ k = n + 1
  OBVIOUS
<1>2. \A k \in 1..(n + 1) : Sound(s, k)
  BY <1>1 DEF Grammar
<1>3. b2 <=> n + 1 # 0
  OBVIOUS
<1>4. e2 <=> \E k \in 1..(n + 1) : s[k].type = "End"
  <2>1. e <=> \E k \in 1..n : s[k].type = "End"
    BY DEF Grammar
  <2>2. \A k \in 1..n : k \in 1..(n + 1)
    OBVIOUS
  <2>3. n + 1 \in 1..(n + 1)
    OBVIOUS
  <2> QED
    BY <1>1, <2>1, <2>2, <2>3
<1>5. ASSUME NEW i \in 1..n
      PROVE  /\ EndsBy(s, i, n + 1) <=> EndsBy(s, i, n) \/ r.type = "FileEnd"
             /\ r.type = "Bytes" => BytesBetween(s, i, n + 1) = BytesBetween(s, i, n) \o r.body
             /\ r.type # "Bytes" => BytesBetween(s, i, n + 1) = BytesBetween(s, i, n)
  <2>1. i \in Nat /\ i <= n
    OBVIOUS
  <2>2. EndsBy(s, i, n + 1) <=> EndsBy(s, i, n) \/ r.type = "FileEnd"
    BY <2>1, EndsNext
  <2>3. /\ r.type = "Bytes" => BytesBetween(s, i, n + 1) = BytesBetween(s, i, n) \o r.body
        /\ r.type # "Bytes" => BytesBetween(s, i, n + 1) = BytesBetween(s, i, n)
    BY <2>1, BytesStep
  <2> QED
    BY <2>2, <2>3
<1>6. f # << >> => \E i \in 1..n : /\ s[i].type = "File" /\ ~EndsBy(s, i, n)
                                   /\ f[1].meta = s[i].body
                                   /\ f[1].written = Len(BytesBetween(s, i, n))
  BY DEF Grammar
<1>7. f = << >> => \A i \in 1..n : s[i].type = "File" => EndsBy(s, i, n)
  BY DEF Grammar
<1>8. CASE r.type \notin {"File", "Bytes", "FileEnd"} /\ f2 = f
  <2>1. f2 = << >> => \A i \in 1..(n + 1) : s[i].type = "File" => EndsBy(s, i, n + 1)
    BY <1>1, <1>5, <1>7, <1>8
  <2>2. f2 # << >> => \E i \in 1..(n + 1) : /\ s[i].type = "File" /\ ~EndsBy(s, i, n + 1)
                                            /\ f2[1].meta = s[i].body
                                            /\ f2[1].written = Len(BytesBetween(s, i, n + 1))
    BY <1>5, <1>6, <1>8
  <2> QED
    BY <1>2, <1>3, <1>4, <2>1, <2>2 DEF Grammar
<1>9. CASE r.type = "File" /\ f2 = <<OpenFile(r.body, 0)>>
  <2>1. f2 # << >> /\ f2[1].meta = r.body /\ f2[1].written = 0
    BY <1>9 DEF OpenFile
  <2>2. n + 1 \in Nat /\ n + 1 <= n + 1 /\ n + 1 \in 1..(n + 1)
    OBVIOUS
  <2>3. ~EndsBy(s, n + 1, n + 1) /\ BytesBetween(s, n + 1, n + 1) = << >>
    BY <2>2, EndsNext, BytesStep
  <2>4. Len(<< >>) = 0
    OBVIOUS
  <2> QED
    BY <1>2, <1>3, <1>4, <1>9, <2>1, <2>2, <2>3, <2>4 DEF Grammar
<1>10. CASE r.type = "Bytes" /\ f # << >>
            /\ f2 = <<OpenFile(f[1].meta, f[1].written + Len(r.body))>>
  <2>1. /\ f2 # << >> /\ f2[1].meta = f[1].meta
        /\ f2[1].written = f[1].written + Len(r.body)
    BY <1>10 DEF OpenFile
  <2>2. PICK i \in 1..n : /\ s[i].type = "File" /\ ~EndsBy(s, i, n)
                          /\ f[1].meta = s[i].body
                          /\ f[1].written = Len(BytesBetween(s, i, n))
    BY <1>6, <1>10
  <2>3. BytesBetween(s, i, n) \in Seq(Nat)
    <3>1. i \in Nat /\ i <= n /\ n <= Len(s)
      BY DEF Framed
    <3> QED
      BY <3>1, BytesTyped
  <2>4. r.body \in Seq(Nat)
    BY <1>10 DEF Framed
  <2>5. Len(BytesBetween(s, i, n) \o r.body) = Len(BytesBetween(s, i, n)) + Len(r.body)
    BY <2>3, <2>4, ConcatProperties
  <2>6. ~EndsBy(s, i, n + 1) /\ BytesBetween(s, i, n + 1) = BytesBetween(s, i, n) \o r.body
    BY <1>5, <1>10, <2>2
  <2>7. /\ i \in 1..(n + 1) /\ s[i].type = "File" /\ ~EndsBy(s, i, n + 1)
        /\ f2[1].meta = s[i].body /\ f2[1].written = Len(BytesBetween(s, i, n + 1))
    BY <2>1, <2>2, <2>5, <2>6
  <2> QED
    BY <1>2, <1>3, <1>4, <2>1, <2>7 DEF Grammar
<1>11. CASE r.type = "FileEnd" /\ f2 = << >>
  <2>1. \A i \in 1..(n + 1) : s[i].type = "File" => EndsBy(s, i, n + 1)
    BY <1>1, <1>5, <1>11
  <2> QED
    BY <1>2, <1>3, <1>4, <1>11, <2>1 DEF Grammar
<1> QED
  BY <1>8, <1>9, <1>10, <1>11

----------------------------------------------------------------------------
\* What the first n records say of a path: that it is a directory, a file, and
\* which record is the last that does.
SaysDir(s, n, p) ==
    \E i \in 1..n : \/ s[i].type = "Dir" /\ p \in AndAncestors(PathOf(s, i))
                    \/ s[i].type = "File" /\ p \in AndAncestors(Parent(PathOf(s, i)))
SaysFile(s, n, p) == \E i \in 1..n : s[i].type = "File" /\ PathOf(s, i) = p
LastOf(s, n, p, i) ==
    /\ i \in 1..n /\ s[i].type = "File" /\ PathOf(s, i) = p
    /\ \A j \in (i + 1)..n : s[j].type = "File" => PathOf(s, j) # p

\* The node of a file that is complete, and of the open one.
Closed(s, n, node, i) ==
    \E e \in (i + 1)..n :
        /\ s[e].type = "FileEnd" /\ ~EndsBy(s, i, e - 1)
        /\ node = Node("file", BytesBetween(s, i, e - 1), s[i].body.mtime)
Opened(s, n, f, node, i) ==
    /\ f # << >> /\ ~EndsBy(s, i, n) /\ f[1].meta = s[i].body
    /\ node.bytes = BytesBetween(s, i, n)

\* The temporary tree holds what the first n records say.
Extracted(s, n, f, t) ==
    /\ \A p \in DOMAIN t : t[p].kind \in {"file", "dir"}
    /\ \A p : IsDir(t, p) <=> SaysDir(s, n, p)
    /\ \A p : IsFile(t, p) <=> SaysFile(s, n, p)
    /\ \A p : IsFile(t, p) => \E i \in 1..n : /\ LastOf(s, n, p, i)
                                              /\ Closed(s, n, t[p], i) \/ Opened(s, n, f, t[p], i)

\* One record more.
LEMMA SaysNext ==
    ASSUME NEW s, NEW n \in Nat, NEW p
    PROVE  /\ SaysDir(s, n + 1, p) <=>
                 \/ SaysDir(s, n, p)
                 \/ s[n + 1].type = "Dir" /\ p \in AndAncestors(PathOf(s, n + 1))
                 \/ s[n + 1].type = "File" /\ p \in AndAncestors(Parent(PathOf(s, n + 1)))
           /\ SaysFile(s, n + 1, p) <=>
                 SaysFile(s, n, p) \/ (s[n + 1].type = "File" /\ PathOf(s, n + 1) = p)
           /\ \A i : LastOf(s, n, p, i) /\ ~(s[n + 1].type = "File" /\ PathOf(s, n + 1) = p)
                        => LastOf(s, n + 1, p, i)
           /\ \A i, node : Closed(s, n, node, i) => Closed(s, n + 1, node, i)
<1>1. \A k \in 1..(n + 1) : k \in 1..n \/ k = n + 1
  OBVIOUS
<1>2. n + 1 \in 1..(n + 1) /\ \A k \in 1..n : k \in 1..(n + 1)
  OBVIOUS
<1>3. SaysDir(s, n + 1, p) <=>
                 \/ SaysDir(s, n, p)
                 \/ s[n + 1].type = "Dir" /\ p \in AndAncestors(PathOf(s, n + 1))
                 \/ s[n + 1].type = "File" /\ p \in AndAncestors(Parent(PathOf(s, n + 1)))
  BY <1>1, <1>2 DEF SaysDir
<1>4. SaysFile(s, n + 1, p) <=>
          SaysFile(s, n, p) \/ (s[n + 1].type = "File" /\ PathOf(s, n + 1) = p)
  BY <1>1, <1>2 DEF SaysFile
<1>5. ASSUME NEW i, LastOf(s, n, p, i), ~(s[n + 1].type = "File" /\ PathOf(s, n + 1) = p)
      PROVE  LastOf(s, n + 1, p, i)
  <2>1. i \in 1..n /\ i \in 1..(n + 1) /\ \A j \in (i + 1)..(n + 1) : j \in (i + 1)..n \/ j = n + 1
    BY <1>5 DEF LastOf
  <2> QED
    BY <1>5, <2>1 DEF LastOf
<1>6. ASSUME NEW i, NEW node, Closed(s, n, node, i) PROVE Closed(s, n + 1, node, i)
  <2>1. \A e \in (i + 1)..n : e \in (i + 1)..(n + 1)
    OBVIOUS
  <2> QED
    BY <1>6, <2>1 DEF Closed
<1> QED
  BY <1>3, <1>4, <1>5, <1>6

\* The open file is where its metadata says, and the only one that is.
LEMMA OpenOrClosed ==
    ASSUME NEW s, NEW n \in Nat, NEW b, NEW e, NEW f, Grammar(s, n, b, e, f), NEW t,
           Extracted(s, n, f, t)
    PROVE  /\ f = << >> => \A q : IsFile(t, q) =>
                 \E i \in 1..n : LastOf(s, n, q, i) /\ Closed(s, n, t[q], i)
           /\ f # << >> =>
                 LET x == NormalPath(f[1].meta.path) IN
                 /\ IsFile(t, x)
                 /\ \E i \in 1..n : LastOf(s, n, x, i) /\ Opened(s, n, f, t[x], i)
                 /\ \A q : q # x /\ IsFile(t, q) =>
                       \E i \in 1..n : LastOf(s, n, q, i) /\ Closed(s, n, t[q], i)
<1>0. \A q : IsFile(t, q) => \E i \in 1..n : /\ LastOf(s, n, q, i)
                                             /\ Closed(s, n, t[q], i) \/ Opened(s, n, f, t[q], i)
  BY DEF Extracted
<1>1. ASSUME f = << >>, NEW q, IsFile(t, q)
      PROVE  \E i \in 1..n : LastOf(s, n, q, i) /\ Closed(s, n, t[q], i)
  BY <1>0, <1>1 DEF Opened
<1>2. ASSUME f # << >>
      PROVE  LET x == NormalPath(f[1].meta.path) IN
             /\ IsFile(t, x)
             /\ \E i \in 1..n : LastOf(s, n, x, i) /\ Opened(s, n, f, t[x], i)
             /\ \A q : q # x /\ IsFile(t, q) =>
                   \E i \in 1..n : LastOf(s, n, q, i) /\ Closed(s, n, t[q], i)
  <2> DEFINE x == NormalPath(f[1].meta.path)
  <2>1. PICK j \in 1..n : s[j].type = "File" /\ ~EndsBy(s, j, n) /\ f[1].meta = s[j].body
    BY <1>2 DEF Grammar
  <2>2. x = PathOf(s, j)
    BY <2>1 DEF PathOf
  <2> HIDE DEF x
  <2>3. IsFile(t, x)
    BY <2>1, <2>2 DEF Extracted, SaysFile
  <2>4. PICK i \in 1..n : LastOf(s, n, x, i) /\ (Closed(s, n, t[x], i) \/ Opened(s, n, f, t[x], i))
    BY <1>0, <2>3
  <2>5. i = j
    <3>1. i <= j
      BY <2>1, <2>4, OneOpen DEF LastOf, Grammar
    <3>2. ~(i < j)
      <4>1. i < j => j \in (i + 1)..n
        OBVIOUS
      <4> QED
        BY <2>1, <2>2, <2>4, <4>1 DEF LastOf
    <3> QED
      BY <3>1, <3>2
  <2>6. ~Closed(s, n, t[x], i)
    BY <2>1, <2>5 DEF Closed, EndsBy
  <2>7. ASSUME NEW q, q # x, IsFile(t, q)
        PROVE  \E k \in 1..n : LastOf(s, n, q, k) /\ Closed(s, n, t[q], k)
    <3>1. PICK k \in 1..n : LastOf(s, n, q, k) /\ (Closed(s, n, t[q], k) \/ Opened(s, n, f, t[q], k))
      BY <1>0, <2>7
    <3>2. PathOf(s, k) = q
      BY <3>1 DEF LastOf
    <3>3. ~Opened(s, n, f, t[q], k)
      BY <2>7, <3>2 DEF Opened, PathOf, x
    <3> QED
      BY <3>1, <3>3
  <2> QED
    BY <2>3, <2>4, <2>6, <2>7 DEF x
<1> QED
  BY <1>1, <1>2

\* A file stays as it is while the records are about others.
LEMMA StillHeld ==
    ASSUME NEW s, NEW n \in Nat, NEW f, NEW node, NEW p, NEW i \in 1..n, LastOf(s, n, p, i),
           Closed(s, n, node, i) \/ Opened(s, n, f, node, i),
           s[n + 1].type \notin {"File", "Bytes", "FileEnd"}
    PROVE  /\ LastOf(s, n + 1, p, i)
           /\ Closed(s, n + 1, node, i) \/ Opened(s, n + 1, f, node, i)
<1>1. LastOf(s, n + 1, p, i) /\ (Closed(s, n, node, i) => Closed(s, n + 1, node, i))
  BY SaysNext
<1>2. i \in Nat /\ i <= n
  OBVIOUS
<1>3. EndsBy(s, i, n + 1) <=> EndsBy(s, i, n)
  BY <1>2, EndsNext
<1>4. BytesBetween(s, i, n + 1) = BytesBetween(s, i, n)
  BY <1>2, BytesStep
<1> QED
  BY <1>1, <1>3, <1>4 DEF Opened

\* A record that is about no file and no directory.
LEMMA ExtractedSame ==
    ASSUME NEW s, NEW n \in Nat, NEW f, NEW t, Extracted(s, n, f, t),
           s[n + 1].type \notin {"Dir", "File", "Bytes", "FileEnd"}
    PROVE  Extracted(s, n + 1, f, t)
<1>1. \A p : /\ SaysDir(s, n + 1, p) <=> SaysDir(s, n, p)
             /\ SaysFile(s, n + 1, p) <=> SaysFile(s, n, p)
  BY SaysNext
<1>3. ASSUME NEW p, IsFile(t, p)
      PROVE  \E i \in 1..(n + 1) : /\ LastOf(s, n + 1, p, i)
                                   /\ Closed(s, n + 1, t[p], i) \/ Opened(s, n + 1, f, t[p], i)
  <2>1. PICK i \in 1..n : LastOf(s, n, p, i) /\ (Closed(s, n, t[p], i) \/ Opened(s, n, f, t[p], i))
    BY <1>3 DEF Extracted
  <2>2. i \in 1..(n + 1)
    OBVIOUS
  <2> QED
    BY <2>1, <2>2, StillHeld
<1> QED
  BY <1>1, <1>3 DEF Extracted

\* Making directories makes directories only.
LEMMA MakeDirsIs ==
    ASSUME NEW t, Tree(t), NEW p \in Seq(STRING), DirsPossible(t, p)
    PROVE  LET u == MakeDirs(t, p) IN
           /\ DOMAIN u = DOMAIN t \cup AndAncestors(p)
           /\ \A q : /\ IsDir(u, q) <=> IsDir(t, q) \/ q \in AndAncestors(p)
                     /\ IsFile(u, q) <=> IsFile(t, q)
                     /\ IsFile(t, q) => u[q] = t[q]
           /\ (\A q \in DOMAIN t : t[q].kind \in {"file", "dir"}) =>
                 \A q \in DOMAIN u : u[q].kind \in {"file", "dir"}
<1> DEFINE u == MakeDirs(t, p)
<1>1. /\ DOMAIN u = DOMAIN t \cup AndAncestors(p)
      /\ \A q \in DOMAIN t : u[q].kind = t[q].kind
      /\ \A q \in AndAncestors(p) : IsDir(u, q)
      /\ \A q \in DOMAIN t \ {<< >>} : t[q].kind # "dir" => u[q] = t[q]
  BY MakeDirsAt
<1>2. << >> \notin DOMAIN t
  BY DEF Tree
<1> HIDE DEF u
<1>3. ASSUME NEW q
      PROVE  /\ IsDir(u, q) <=> IsDir(t, q) \/ q \in AndAncestors(p)
             /\ IsFile(u, q) <=> IsFile(t, q)
             /\ IsFile(t, q) => u[q] = t[q]
  <2>1. CASE q \in AndAncestors(p)
    <3>1. IsDir(u, q) /\ (q \in DOMAIN t => t[q].kind = "dir")
      BY <1>1, <2>1 DEF DirsPossible
    <3> QED
      BY <2>1, <3>1 DEF IsDir, IsFile
  <2>2. CASE q \notin AndAncestors(p)
    BY <1>1, <1>2, <2>2 DEF IsDir, IsFile
  <2> QED
    BY <2>1, <2>2
<1>4. ASSUME \A q \in DOMAIN t : t[q].kind \in {"file", "dir"}, NEW q \in DOMAIN u
      PROVE  u[q].kind \in {"file", "dir"}
  BY <1>1, <1>4 DEF IsDir
<1> QED
  BY <1>1, <1>3, <1>4 DEF u

\* A directory's record.
LEMMA ExtractedDir ==
    ASSUME NEW s, NEW n \in Nat, NEW f, NEW t, Extracted(s, n, f, t), Tree(t),
           s[n + 1].type = "Dir", PathOf(s, n + 1) \in Seq(STRING),
           DirsPossible(t, PathOf(s, n + 1))
    PROVE  Extracted(s, n + 1, f, MakeDirs(t, PathOf(s, n + 1)))
<1> DEFINE p == PathOf(s, n + 1)
           u == MakeDirs(t, p)
<1>1. /\ \A q : /\ IsDir(u, q) <=> IsDir(t, q) \/ q \in AndAncestors(p)
                /\ IsFile(u, q) <=> IsFile(t, q)
                /\ IsFile(t, q) => u[q] = t[q]
      /\ \A q \in DOMAIN u : u[q].kind \in {"file", "dir"}
  BY MakeDirsIs DEF Extracted
<1>2. \A q : /\ SaysDir(s, n + 1, q) <=> SaysDir(s, n, q) \/ q \in AndAncestors(p)
             /\ SaysFile(s, n + 1, q) <=> SaysFile(s, n, q)
  BY SaysNext
<1> HIDE DEF u
<1>4. ASSUME NEW q, IsFile(u, q)
      PROVE  \E i \in 1..(n + 1) : /\ LastOf(s, n + 1, q, i)
                                   /\ Closed(s, n + 1, u[q], i) \/ Opened(s, n + 1, f, u[q], i)
  <2>1. IsFile(t, q) /\ u[q] = t[q]
    BY <1>1, <1>4
  <2>2. PICK i \in 1..n : LastOf(s, n, q, i) /\ (Closed(s, n, t[q], i) \/ Opened(s, n, f, t[q], i))
    BY <2>1 DEF Extracted
  <2>3. i \in 1..(n + 1)
    OBVIOUS
  <2> QED
    BY <2>1, <2>2, <2>3, StillHeld
<1>5. \A q : IsDir(u, q) <=> SaysDir(s, n + 1, q)
  BY <1>1, <1>2 DEF Extracted
<1>6. \A q : IsFile(u, q) <=> SaysFile(s, n + 1, q)
  BY <1>1, <1>2 DEF Extracted
<1>7. Extracted(s, n + 1, f, u)
  BY <1>1, <1>4, <1>5, <1>6 DEF Extracted
<1> QED
  BY <1>7 DEF u

\* A path is not above itself.
LEMMA NotAboveItself == ASSUME NEW p \in SomePaths PROVE p \notin AndAncestors(Parent(p))
<1> SUFFICES ASSUME NEW i \in 1..Len(Parent(p)), p = SubSeq(Parent(p), 1, i) PROVE FALSE
  BY DEF AndAncestors
<1>1. Parent(p) \in Seq(STRING) /\ Len(p) \in Nat \ {0} /\ (Len(p) = 1 \/ Len(p) > 1)
  BY ParentAbove
<1>2. Len(p) = i
  BY <1>1, PathAbove
<1>3. Len(Parent(p)) \in Nat /\ (Len(p) = 1 => Len(Parent(p)) = 0)
  BY <1>1, LenProperties, ParentAbove, Len(<< >>) = 0
<1>4. Len(p) > 1 => Len(Parent(p)) = Len(p) - 1
  BY ParentAbove
<1> QED
  BY <1>1, <1>2, <1>3, <1>4

\* A file's record: the file is open, and every other one complete.
LEMMA ExtractedFile ==
    ASSUME NEW s, NEW n \in Nat, NEW b, NEW e, Grammar(s, n, b, e, << >>), NEW t,
           Extracted(s, n, << >>, t), Tree(t), s[n + 1].type = "File",
           PathOf(s, n + 1) \in SomePaths, DirsPossible(t, Parent(PathOf(s, n + 1))),
           ~IsDir(t, PathOf(s, n + 1))
    PROVE  Extracted(s, n + 1, <<OpenFile(s[n + 1].body, 0)>>,
                     PutNode(MakeDirs(t, Parent(PathOf(s, n + 1))), PathOf(s, n + 1),
                             Node("file", << >>, Now)))
<1> DEFINE p == PathOf(s, n + 1)
           u == MakeDirs(t, Parent(p))
           node == Node("file", << >>, Now)
           v == PutNode(u, p, node)
           f == <<OpenFile(s[n + 1].body, 0)>>
<1>1. p \in SomePaths /\ Parent(p) \in Seq(STRING) /\ p \notin AndAncestors(Parent(p))
  BY ParentAbove, NotAboveItself
<1>2. node.kind = "file" /\ node.bytes = << >>
  BY DEF Node
<1>3. Parent(p) = << >> \/ Parent(p) \in AndAncestors(Parent(p))
  BY <1>1, OwnAncestor DEF SomePaths
<1>4. /\ DOMAIN u = DOMAIN t \cup AndAncestors(Parent(p))
      /\ \A q : /\ IsDir(u, q) <=> IsDir(t, q) \/ q \in AndAncestors(Parent(p))
                /\ IsFile(u, q) <=> IsFile(t, q)
                /\ IsFile(t, q) => u[q] = t[q]
      /\ \A q \in DOMAIN u : u[q].kind \in {"file", "dir"}
  BY <1>1, MakeDirsIs DEF Extracted
<1>5. << >> \notin DOMAIN t
  BY DEF Tree
<1>6. \A q : /\ SaysDir(s, n + 1, q) <=> SaysDir(s, n, q) \/ q \in AndAncestors(Parent(p))
             /\ SaysFile(s, n + 1, q) <=> SaysFile(s, n, q) \/ q = p
  BY SaysNext
<1> HIDE DEF p, u, node
<1>7. /\ \A q : q \in DOMAIN v <=> q = p \/ q \in DOMAIN u
      /\ v[p] = node
      /\ \A q \in DOMAIN u : q # p => /\ v[q].kind = u[q].kind
                                      /\ q # Parent(p) => v[q] = u[q]
  BY <1>1, PutNodeAt
<1>8. \A q : IsDir(v, q) <=> IsDir(u, q)
  <2>1. ~IsDir(u, p)
    BY <1>1, <1>4 DEF p
  <2> QED
    BY <1>2, <1>7, <2>1 DEF IsDir
<1> HIDE DEF v
<1>9. \A q : IsFile(v, q) <=> IsFile(u, q) \/ q = p
  BY <1>2, <1>7 DEF IsFile
<1>10. \A q : q # p /\ IsFile(u, q) => v[q] = u[q]
  <2> SUFFICES ASSUME NEW q, q # p, IsFile(u, q) PROVE v[q] = u[q]
    OBVIOUS
  <2>1. q # Parent(p)
    <3> SUFFICES ASSUME q = Parent(p) PROVE FALSE
      OBVIOUS
    <3>1. q # << >>
      BY <1>4, <1>5 DEF IsFile
    <3>2. IsDir(u, q)
      BY <1>3, <1>4, <3>1
    <3> QED
      BY <3>2 DEF IsDir, IsFile
  <2> QED
    BY <1>7, <2>1 DEF IsFile
<1>11. \A q \in DOMAIN v : v[q].kind \in {"file", "dir"}
  BY <1>2, <1>4, <1>7
<1>12. \A q : IsDir(v, q) <=> SaysDir(s, n + 1, q)
  BY <1>4, <1>6, <1>8 DEF Extracted
<1>13. \A q : IsFile(v, q) <=> SaysFile(s, n + 1, q)
  BY <1>4, <1>6, <1>9 DEF Extracted
<1>14. ASSUME NEW q, IsFile(v, q)
       PROVE  \E i \in 1..(n + 1) : /\ LastOf(s, n + 1, q, i)
                                    /\ Closed(s, n + 1, v[q], i) \/ Opened(s, n + 1, f, v[q], i)
  <2>1. CASE q = p
    <3>1. n + 1 \in 1..(n + 1) /\ n + 1 \in Nat /\ n + 1 <= n + 1 /\ ((n + 1) + 1)..(n + 1) = {}
      OBVIOUS
    <3>2. ~EndsBy(s, n + 1, n + 1)
      BY <3>1, EndsNext
    <3>3. BytesBetween(s, n + 1, n + 1) = << >>
      BY <3>1, BytesStep
    <3>4. LastOf(s, n + 1, q, n + 1)
      BY <2>1, <3>1 DEF LastOf, p
    <3>5. f # << >> /\ f[1].meta = s[n + 1].body
      BY DEF OpenFile
    <3>6. Opened(s, n + 1, f, v[q], n + 1)
      BY <1>2, <1>7, <2>1, <3>2, <3>3, <3>5 DEF Opened
    <3> QED
      BY <3>1, <3>4, <3>6
  <2>2. CASE q # p
    <3>1. IsFile(t, q) /\ v[q] = t[q]
      BY <1>4, <1>9, <1>10, <1>14, <2>2
    <3>2. PICK i \in 1..n : LastOf(s, n, q, i) /\ Closed(s, n, t[q], i)
      BY <3>1, OpenOrClosed
    <3>3. i \in 1..(n + 1)
      OBVIOUS
    <3>4. LastOf(s, n + 1, q, i) /\ Closed(s, n + 1, v[q], i)
      BY <2>2, <3>1, <3>2, SaysNext DEF p
    <3> QED
      BY <3>3, <3>4
  <2> QED
    BY <2>1, <2>2
<1>15. Extracted(s, n + 1, f, v)
  BY <1>11, <1>12, <1>13, <1>14 DEF Extracted
<1> QED
  BY <1>15 DEF v, u, p, node

\* A record of the open file changes its node and nothing else.
LEMMA ExtractedOpen ==
    ASSUME NEW s, NEW n \in Nat, NEW b, NEW e, NEW f, Grammar(s, n, b, e, f), f # << >>, NEW t,
           Extracted(s, n, f, t), s[n + 1].type \in {"Bytes", "FileEnd"}, NEW g, NEW v,
           LET x == NormalPath(f[1].meta.path) IN
           /\ DOMAIN v = DOMAIN t /\ v[x].kind = t[x].kind
           /\ \A q \in DOMAIN t : q # x => v[q] = t[q]
           /\ \A i \in 1..n : LastOf(s, n, x, i) /\ Opened(s, n, f, t[x], i) =>
                 Closed(s, n + 1, v[x], i) \/ Opened(s, n + 1, g, v[x], i)
    PROVE  Extracted(s, n + 1, g, v)
<1> DEFINE x == NormalPath(f[1].meta.path)
<1>0. /\ DOMAIN v = DOMAIN t /\ v[x].kind = t[x].kind
      /\ \A q \in DOMAIN t : q # x => v[q] = t[q]
      /\ \A i \in 1..n : LastOf(s, n, x, i) /\ Opened(s, n, f, t[x], i) =>
            Closed(s, n + 1, v[x], i) \/ Opened(s, n + 1, g, v[x], i)
  OBVIOUS
<1>1. /\ IsFile(t, x)
      /\ \E i \in 1..n : LastOf(s, n, x, i) /\ Opened(s, n, f, t[x], i)
      /\ \A q : q # x /\ IsFile(t, q) =>
            \E i \in 1..n : LastOf(s, n, q, i) /\ Closed(s, n, t[q], i)
  BY OpenOrClosed
<1> HIDE DEF x
<1>2. \A q : (IsDir(v, q) <=> IsDir(t, q)) /\ (IsFile(v, q) <=> IsFile(t, q))
  BY <1>0 DEF IsDir, IsFile
<1>3. \A q \in DOMAIN v : v[q].kind \in {"file", "dir"}
  BY <1>0 DEF Extracted
<1>4. \A q : /\ SaysDir(s, n + 1, q) <=> SaysDir(s, n, q)
             /\ SaysFile(s, n + 1, q) <=> SaysFile(s, n, q)
  BY SaysNext
<1>5. ASSUME NEW q, IsFile(v, q)
      PROVE  \E i \in 1..(n + 1) : /\ LastOf(s, n + 1, q, i)
                                   /\ Closed(s, n + 1, v[q], i) \/ Opened(s, n + 1, g, v[q], i)
  <2>0. \A i \in 1..n : i \in 1..(n + 1)
    OBVIOUS
  <2>1. \A i : LastOf(s, n, q, i) => LastOf(s, n + 1, q, i)
    BY SaysNext
  <2>2. CASE q = x
    BY <1>0, <1>1, <2>0, <2>1, <2>2
  <2>3. CASE q # x
    <3>1. IsFile(t, q) /\ v[q] = t[q]
      BY <1>0, <1>2, <1>5, <2>3 DEF IsFile
    <3>2. PICK i \in 1..n : LastOf(s, n, q, i) /\ Closed(s, n, t[q], i)
      BY <1>1, <2>3, <3>1
    <3>3. Closed(s, n + 1, v[q], i)
      BY <3>1, <3>2, SaysNext
    <3> QED
      BY <2>0, <2>1, <3>2, <3>3
  <2> QED
    BY <2>2, <2>3
<1>6. \A q : IsDir(v, q) <=> SaysDir(s, n + 1, q)
  BY <1>2, <1>4 DEF Extracted
<1>7. \A q : IsFile(v, q) <=> SaysFile(s, n + 1, q)
  BY <1>2, <1>4 DEF Extracted
<1> QED
  BY <1>3, <1>5, <1>6, <1>7 DEF Extracted

\* Bytes are appended to it,
LEMMA ExtractedBytes ==
    ASSUME NEW s, NEW n \in Nat, NEW b, NEW e, NEW f, Grammar(s, n, b, e, f), f # << >>, NEW t,
           Extracted(s, n, f, t), s[n + 1].type = "Bytes", NEW w
    PROVE  LET x == NormalPath(f[1].meta.path) IN
           Extracted(s, n + 1, <<OpenFile(f[1].meta, w)>>,
                     [t EXCEPT ![x] = Node(t[x].kind, t[x].bytes \o s[n + 1].body, t[x].mtime)])
<1> DEFINE x == NormalPath(f[1].meta.path)
           node == Node(t[x].kind, t[x].bytes \o s[n + 1].body, t[x].mtime)
           v == [t EXCEPT ![x] = node]
           g == <<OpenFile(f[1].meta, w)>>
<1>1. g # << >> /\ g[1].meta = f[1].meta
  BY DEF OpenFile
<1>2. node.kind = t[x].kind /\ node.bytes = t[x].bytes \o s[n + 1].body
  BY DEF Node
<1>3. x \in DOMAIN t
  BY OpenOrClosed DEF IsFile
<1> HIDE DEF x, node, g
<1>4. DOMAIN v = DOMAIN t /\ v[x] = node /\ \A q \in DOMAIN t : q # x => v[q] = t[q]
  BY <1>3
<1> HIDE DEF v
<1>5. ASSUME NEW i \in 1..n, Opened(s, n, f, t[x], i) PROVE Opened(s, n + 1, g, v[x], i)
  <2>1. i \in Nat /\ i <= n
    OBVIOUS
  <2>2. ~EndsBy(s, i, n + 1)
    BY <1>5, <2>1, EndsNext DEF Opened
  <2>3. BytesBetween(s, i, n + 1) = BytesBetween(s, i, n) \o s[n + 1].body
    BY <2>1, BytesStep
  <2> QED
    BY <1>1, <1>2, <1>4, <1>5, <2>2, <2>3 DEF Opened
<1>6. Extracted(s, n + 1, g, v)
  BY <1>2, <1>4, <1>5, ExtractedOpen DEF x
<1> QED
  BY <1>6 DEF x, node, v, g

\* and its end closes it.
LEMMA ExtractedEnd ==
    ASSUME NEW s, NEW n \in Nat, NEW b, NEW e, NEW f, Grammar(s, n, b, e, f), f # << >>, NEW t,
           Extracted(s, n, f, t), s[n + 1].type = "FileEnd"
    PROVE  LET x == NormalPath(f[1].meta.path) IN
           Extracted(s, n + 1, << >>,
                     [t EXCEPT ![x] = Node(t[x].kind, t[x].bytes, f[1].meta.mtime)])
<1> DEFINE x == NormalPath(f[1].meta.path)
           node == Node(t[x].kind, t[x].bytes, f[1].meta.mtime)
           v == [t EXCEPT ![x] = node]
<1>2. node.kind = t[x].kind
  BY DEF Node
<1>3. x \in DOMAIN t /\ t[x].kind = "file"
  BY OpenOrClosed DEF IsFile
<1>5. ASSUME NEW i \in 1..n, Opened(s, n, f, t[x], i) PROVE Closed(s, n + 1, node, i)
  <2>1. n + 1 \in (i + 1)..(n + 1) /\ (n + 1) - 1 = n
    OBVIOUS
  <2>2. ~EndsBy(s, i, n) /\ t[x].bytes = BytesBetween(s, i, n) /\ f[1].meta = s[i].body
    BY <1>5 DEF Opened
  <2>3. node = Node("file", BytesBetween(s, i, n), s[i].body.mtime)
    BY <1>3, <2>2
  <2> QED
    BY <2>1, <2>2, <2>3 DEF Closed
<1> HIDE DEF x, node
<1>4. DOMAIN v = DOMAIN t /\ v[x] = node /\ \A q \in DOMAIN t : q # x => v[q] = t[q]
  BY <1>3
<1> HIDE DEF v
<1>6. Extracted(s, n + 1, << >>, v)
  BY <1>2, <1>4, <1>5, ExtractedOpen DEF x
<1> QED
  BY <1>6 DEF x, node, v

----------------------------------------------------------------------------
\* Nothing is parsed before the temporary tree is there; then flags, open file
\* and temporary tree are what the records taken so far make of them.
Sizes == [i \in DOMAIN stream |-> EncodedSize(stream[i])]
ParseInv ==
    /\ rpc \in {"idle", "discover", "construct"} =>
          records = 0 /\ taken = 0 /\ begun = FALSE /\ ended = FALSE /\ file = << >>
    /\ rpc \in {"feed", "parse"} =>
          /\ Grammar(stream, records, begun, ended, file)
          /\ Extracted(stream, records, file, Tmp)
          /\ taken = SumUpTo(Sizes, records)

\* The writer is done when the reader begins.
LEMMA WriterDone ==
    ASSUME StreamInv, [Next]_vars, rpc # "idle"
    PROVE  UNCHANGED <<stream, header, cut, input, changes>>
<1>1. stage = "written"
  BY DEF StreamInv
<1>2. ~Encrypt /\ ~Disturb
  BY <1>1 DEF Encrypt, Validate, Walk, Plan, EmitBegin, EmitEntry, EmitFileBytes, EmitFileEnd,
     EmitEnd, EmitPadding, VerifyProduced, Disturb, GrowFile, ShrinkFile, RemoveEntry,
     ReplaceEntry, Busy
<1>3. UNCHANGED wvars
  BY <1>2 DEF Next, vars
<1>4. UNCHANGED cut
  BY <1>2 DEF Next, vars, rvars, Decrypt, OpenDecrypt, Discover, Construct, Consume, NeedMore,
     ProcessRecord, BeginArchive, CreateDirectory, BeginFile, WriteFileBytes, EndFile, EndArchive,
     SkipPadding, RejectRecord, Process, Finish, PromoteDir, PromoteCheck, PromoteRename,
     PromoteEnd, ApplyMetadata, FinishCleanup, Unwind, Catch, Intrude
<1> QED
  BY <1>3, <1>4 DEF wvars

\* Nothing is taken yet.
LEMMA NothingParsed ==
    ASSUME NEW s PROVE Grammar(s, 0, FALSE, FALSE, << >>) /\ Extracted(s, 0, << >>, << >>)
<1>1. 1..0 = {} /\ DOMAIN << >> = {}
  OBVIOUS
<1>2. Grammar(s, 0, FALSE, FALSE, << >>)
  BY <1>1 DEF Grammar
<1>3. \A p : ~IsDir(<< >>, p) /\ ~IsFile(<< >>, p) /\ ~SaysDir(s, 0, p) /\ ~SaysFile(s, 0, p)
  BY <1>1 DEF IsDir, IsFile, SaysDir, SaysFile
<1> QED
  BY <1>1, <1>2, <1>3 DEF Extracted

\* A record is taken: what remains to show is its effect on the tree.
LEMMA Parsed ==
    ASSUME ReaderInv, ParseInv, NEW type, Process(type), stream' = stream,
           begun' = TRUE \/ (type # "Begin" /\ begun' = begun),
           ended' = (IF type = "End" THEN TRUE ELSE ended),
           \/ type \notin {"File", "Bytes", "FileEnd"} /\ file' = file
           \/ type = "File" /\ file' = <<OpenFile(Rec.body, 0)>>
           \/ /\ type = "Bytes" /\ file # << >>
              /\ file' = <<OpenFile(file[1].meta, file[1].written + Len(Rec.body))>>
           \/ type = "FileEnd" /\ file' = << >>,
           Extracted(stream, records + 1, file', Tmp')
    PROVE  ParseInv'
<1>1. /\ rpc = "parse" /\ rpc' = "parse" /\ Arriving = "complete" /\ Rec.type = type /\ Allowed(Rec)
      /\ records' = records + 1 /\ taken' = taken + EncodedSize(Rec)
  BY DEF Process
<1>2. StreamInv /\ ProgressInv
  BY DEF ReaderInv
<1>3. /\ Grammar(stream, records, begun, ended, file)
      /\ taken = SumUpTo(Sizes, records)
  BY <1>1 DEF ParseInv
<1>4. records \in Nat /\ records + 1 \in 1..Len(stream) /\ records + 1 <= Len(stream)
      /\ Framed(stream) /\ records + 1 \in DOMAIN stream
  <2>1. records + 1 \in 1..Len(stream)
    BY <1>1, <1>2, RecordTaken
  <2>2. Framed(stream) /\ records \in 0..Len(stream) /\ Len(stream) \in Nat
    BY <1>2 DEF StreamInv, ProgressInv, Framed
  <2> QED
    BY <2>1, <2>2 DEF Framed
<1>5. Sound(stream, records + 1)
  BY <1>1, <1>2, <1>3, SoundNext
<1>6. Rec = stream[records + 1]
  BY DEF Rec
<1>7. begun'
  <2> SUFFICES ASSUME type # "Begin", begun' = begun PROVE begun
    OBVIOUS
  <2>1. records + 1 # 1
    BY <1>1, <1>5, <1>6 DEF Sound
  <2>2. begun <=> records # 0
    BY <1>3 DEF Grammar
  <2> QED
    BY <1>4, <2>1, <2>2
<1>8. ended' <=> (ended \/ stream[records + 1].type = "End")
  BY <1>1, <1>6
<1>9. Grammar(stream, records + 1, begun', ended', file')
  <2>1. LET r == stream[records + 1] IN
        \/ r.type \notin {"File", "Bytes", "FileEnd"} /\ file' = file
        \/ r.type = "File" /\ file' = <<OpenFile(r.body, 0)>>
        \/ /\ r.type = "Bytes" /\ file # << >>
           /\ file' = <<OpenFile(file[1].meta, file[1].written + Len(r.body))>>
        \/ r.type = "FileEnd" /\ file' = << >>
    BY <1>1, <1>6
  <2> QED
    BY <1>3, <1>4, <1>5, <1>7, <1>8, <2>1, GrammarNext
<1>10. taken' = SumUpTo(Sizes, records + 1)
  <2>1. SumUpTo(Sizes, records + 1) = SumUpTo(Sizes, records) + Sizes[records + 1]
    BY <1>4, SumStep
  <2>2. Sizes[records + 1] = EncodedSize(Rec)
    BY <1>4, <1>6 DEF Sizes
  <2> QED
    BY <1>1, <1>3, <2>1, <2>2
<1>11. Sizes' = Sizes
  BY DEF Sizes
<1> QED
  BY <1>1, <1>9, <1>10, <1>11 DEF ParseInv

\* Flags, open file and tree as they were.
LEMMA ParseSame ==
    ASSUME ParseInv, UNCHANGED <<stream, records, taken, begun, ended, file, temp>>,
           rpc' \in {"feed", "parse"} => rpc \in {"feed", "parse"},
           rpc' \in {"idle", "discover", "construct"} => rpc \in {"idle", "discover", "construct"}
    PROVE  ParseInv'
<1>1. Tmp' = Tmp /\ Sizes' = Sizes
  BY DEF Tmp, Sizes
<1>2. CASE rpc' \in {"feed", "parse"}
  <2>1. /\ Grammar(stream, records, begun, ended, file)
        /\ Extracted(stream, records, file, Tmp)
        /\ taken = SumUpTo(Sizes, records)
    BY <1>2 DEF ParseInv
  <2>2. /\ Grammar(stream', records', begun', ended', file')
        /\ Extracted(stream', records', file', Tmp')
        /\ taken' = SumUpTo(Sizes', records')
    BY <1>1, <2>1
  <2> QED
    BY <1>2, <2>2 DEF ParseInv
<1>3. CASE rpc' \notin {"feed", "parse"}
  BY <1>3 DEF ParseInv
<1> QED
  BY <1>2, <1>3

\* Flags, open file and temporary tree, action by action.
LEMMA ParseStep == ReaderInv /\ ParseInv /\ [Next]_vars => ParseInv'
<1> SUFFICES ASSUME ReaderInv, ParseInv, [Next]_vars PROVE ParseInv'
  OBVIOUS
<1>1. StreamInv /\ ProgressInv /\ TempInv
  BY DEF ReaderInv
<1>2. CASE UNCHANGED rvars /\ rpc = "idle"
  BY <1>2 DEF ParseInv, rvars, parse_vars
<1>3. CASE UNCHANGED rvars /\ rpc # "idle"
  <2>1. stream' = stream
    BY <1>1, <1>3, WriterDone
  <2> QED
    BY <1>3, <2>1, ParseSame DEF rvars, parse_vars, tree_vars
<1>4. ASSUME NEW p, Intrude(p) PROVE ParseInv'
  <2>1. stream' = stream
    BY <1>1, <1>4, WriterDone DEF Intrude
  <2> QED
    BY <1>4, <2>1, ParseSame DEF Intrude, parse_vars, tree_vars
<1>5. ASSUME NEW o, NEW dp, OpenDecrypt(o, dp) PROVE ParseInv'
  BY <1>5 DEF OpenDecrypt, ParseInv, parse_vars
<1>6. ASSUME Discover \/ Consume \/ NeedMore \/ RejectRecord \/ Finish PROVE ParseInv'
  <2>1. stream' = stream
    BY <1>1, <1>6, WriterDone DEF Discover, Consume, NeedMore, RejectRecord, Finish
  <2> QED
    BY <1>6, <2>1, ParseSame DEF Discover, Consume, NeedMore, RejectRecord, Finish, Throw,
       parse_vars, tree_vars
<1>7. ASSUME \/ \E p \in todo : PromoteDir(p) \/ PromoteCheck(p)
             \/ PromoteRename \/ PromoteEnd \/ (\E m \in deferred : ApplyMetadata(m))
             \/ FinishCleanup \/ Unwind \/ Catch
      PROVE  ParseInv'
  <2>1. rpc' \notin {"feed", "parse", "idle", "discover", "construct"}
    BY <1>7 DEF PromoteDir, PromoteCheck, PromoteRename, PromoteEnd, ApplyMetadata, FinishCleanup,
       Unwind, Catch, PromoteFails, Throw
  <2> QED
    BY <2>1 DEF ParseInv
<1>8. ASSUME Construct PROVE ParseInv'
  <2>1. CASE rpc' = "catch"
    BY <2>1 DEF ParseInv
  <2>2. CASE rpc' = "feed" /\ temp' = << << >> >>
    <3>1. stream' = stream
      BY <1>1, <1>8, WriterDone DEF Construct
    <3>2. records = 0 /\ taken = 0 /\ begun = FALSE /\ ended = FALSE /\ file = << >>
      BY <1>8 DEF Construct, ParseInv
    <3>3. UNCHANGED <<records, taken, begun, ended, file>>
      BY <1>8 DEF Construct, parse_vars
    <3>4. Tmp' = << >>
      BY <2>2 DEF Tmp
    <3>5. Grammar(stream, 0, FALSE, FALSE, << >>) /\ Extracted(stream, 0, << >>, << >>)
      BY NothingParsed
    <3>6. SumUpTo(Sizes, 0) = 0
      BY SumStep
    <3>7. Sizes' = Sizes
      BY <3>1 DEF Sizes
    <3>8. /\ Grammar(stream', records', begun', ended', file')
          /\ Extracted(stream', records', file', Tmp')
          /\ taken' = SumUpTo(Sizes', records')
      BY <3>1, <3>2, <3>3, <3>4, <3>5, <3>6, <3>7
    <3> QED
      BY <2>2, <3>8 DEF ParseInv
  <2> QED
    BY <1>8, <2>1, <2>2 DEF Construct
<1>9. ASSUME NEW type, Process(type)
      PROVE  /\ stream' = stream /\ rpc = "parse" /\ Tree(Tmp) /\ Rec.type = type /\ Allowed(Rec)
             /\ Rec = stream[records + 1] /\ records \in Nat
             /\ type \in {"Dir", "File"} => PathOf(stream, records + 1) \in Seq(STRING)
             /\ PathOf(stream, records + 1) = NormalPath(Rec.body.path)
             /\ Grammar(stream, records, begun, ended, file)
             /\ Extracted(stream, records, file, Tmp)
  <2>1. rpc = "parse" /\ Rec.type = type /\ Allowed(Rec) /\ Arriving = "complete"
    BY <1>9 DEF Process
  <2>2. stream' = stream
    BY <1>1, <2>1, WriterDone
  <2>3. Tree(Tmp)
    BY <1>1, <2>1 DEF TempInv
  <2>4. type \in {"Dir", "File"} => Rec.body.path \in Seq(STRING)
    BY <1>1, <2>1, RecordTaken
  <2>5. Rec = stream[records + 1] /\ PathOf(stream, records + 1) = NormalPath(Rec.body.path)
    BY DEF Rec, PathOf
  <2>6. type \in {"Dir", "File"} => PathOf(stream, records + 1) \in Seq(STRING)
    BY <2>4, <2>5, NormalIsPath
  <2>7. records \in Nat
    BY <1>1 DEF ProgressInv, StreamInv, Framed
  <2>8. Grammar(stream, records, begun, ended, file) /\ Extracted(stream, records, file, Tmp)
    BY <2>1 DEF ParseInv
  <2> QED
    BY <2>1, <2>2, <2>3, <2>5, <2>6, <2>7, <2>8
<1>10. ASSUME NEW type \in {"Begin", "End", "Padding"}, Process(type), file' = file, temp' = temp
       PROVE  Extracted(stream, records + 1, file', Tmp')
  <2>1. Tmp' = Tmp
    BY <1>10 DEF Tmp
  <2>2. Extracted(stream, records + 1, file, Tmp)
    BY <1>9, <1>10, ExtractedSame
  <2> QED
    BY <1>10, <2>1, <2>2
<1>11. ASSUME BeginArchive PROVE ParseInv'
  BY <1>9, <1>10, <1>11, Parsed DEF BeginArchive
<1>12. ASSUME EndArchive PROVE ParseInv'
  BY <1>9, <1>10, <1>12, Parsed DEF EndArchive
<1>13. ASSUME SkipPadding PROVE ParseInv'
  BY <1>9, <1>10, <1>13, Parsed DEF SkipPadding
<1>14. ASSUME CreateDirectory PROVE ParseInv'
  <2> DEFINE p == PathOf(stream, records + 1)
  <2>1. Process("Dir") /\ file' = file /\ begun' = begun /\ ended' = ended
    BY <1>14 DEF CreateDirectory
  <2>0. Rec.type = "Dir" /\ Allowed(Rec)
    BY <1>9, <2>1
  <2>10. DirAllowed(Rec.body)
    BY <2>0 DEF Allowed
  <2>2. DirsPossible(Tmp, p) /\ p \in Seq(STRING)
    BY <1>9, <2>1, <2>10 DEF DirAllowed
  <2>3. Extracted(stream, records + 1, file, MakeDirs(Tmp, p))
    BY <1>9, <2>1, <2>2, ExtractedDir
  <2>4. Tmp' = MakeDirs(Tmp, p)
    BY <1>9, <1>14, <2>1 DEF CreateDirectory, Tmp
  <2>5. Extracted(stream, records + 1, file', Tmp')
    BY <2>1, <2>3, <2>4
  <2> QED
    BY <1>9, <2>1, <2>5, Parsed
<1>15. ASSUME BeginFile PROVE ParseInv'
  <2> DEFINE p == PathOf(stream, records + 1)
  <2>1. /\ Process("File") /\ begun' = begun /\ ended' = ended
        /\ file' = <<OpenFile(Rec.body, 0)>>
    BY <1>15 DEF BeginFile
  <2>0. Rec.type = "File" /\ Allowed(Rec)
    BY <1>9, <2>1
  <2>10. FileAllowed(Rec.body)
    BY <2>0 DEF Allowed
  <2>2. /\ file = << >> /\ p # << >> /\ DirsPossible(Tmp, Parent(p)) /\ p \in Seq(STRING)
        /\ p \in DOMAIN Tmp => Tmp[p].kind = "file"
    BY <1>9, <2>1, <2>10 DEF FileAllowed
  <2>3. p \in SomePaths /\ ~IsDir(Tmp, p)
    BY <2>2 DEF SomePaths, IsDir
  <2>4. Extracted(stream, records + 1, <<OpenFile(stream[records + 1].body, 0)>>,
                  PutNode(MakeDirs(Tmp, Parent(p)), p, Node("file", << >>, Now)))
    BY <1>9, <2>1, <2>2, <2>3, ExtractedFile
  <2>5. Tmp' = PutNode(MakeDirs(Tmp, Parent(p)), p, Node("file", << >>, Now))
    BY <1>9, <1>15, <2>1 DEF BeginFile, Tmp
  <2>6. Extracted(stream, records + 1, file', Tmp')
    BY <1>9, <2>1, <2>4, <2>5
  <2> QED
    BY <1>9, <2>1, <2>6, Parsed
<1>16. ASSUME WriteFileBytes PROVE ParseInv'
  <2> DEFINE x == NormalPath(file[1].meta.path)
             w == file[1].written + Len(Rec.body)
  <2>1. /\ Process("Bytes") /\ begun' = begun /\ ended' = ended
        /\ file' = <<OpenFile(file[1].meta, w)>>
    BY <1>16 DEF WriteFileBytes
  <2>0. Rec.type = "Bytes" /\ Allowed(Rec)
    BY <1>9, <2>1
  <2>10. BytesAllowed(Rec.body)
    BY <2>0 DEF Allowed
  <2>2. file # << >>
    BY <1>9, <2>1, <2>10 DEF BytesAllowed
  <2>3. Extracted(stream, records + 1, <<OpenFile(file[1].meta, w)>>,
                  [Tmp EXCEPT ![x] = Node(Tmp[x].kind, Tmp[x].bytes \o stream[records + 1].body,
                                          Tmp[x].mtime)])
    BY <1>9, <2>1, <2>2, ExtractedBytes
  <2>4. Tmp' = [Tmp EXCEPT ![x] = Node(Tmp[x].kind, Tmp[x].bytes \o stream[records + 1].body,
                                       Tmp[x].mtime)]
    BY <1>9, <1>16, <2>1 DEF WriteFileBytes, Tmp
  <2>5. Extracted(stream, records + 1, file', Tmp')
    BY <2>1, <2>3, <2>4
  <2> QED
    BY <1>9, <2>1, <2>2, <2>5, Parsed
<1>17. ASSUME EndFile PROVE ParseInv'
  <2> DEFINE x == NormalPath(file[1].meta.path)
  <2>1. /\ Process("FileEnd") /\ begun' = begun /\ ended' = ended /\ file' = << >>
    BY <1>17 DEF EndFile
  <2>0. Rec.type = "FileEnd" /\ Allowed(Rec)
    BY <1>9, <2>1
  <2>10. FileEndAllowed
    BY <2>0 DEF Allowed
  <2>2. file # << >>
    BY <1>9, <2>1, <2>10 DEF FileEndAllowed
  <2>3. Extracted(stream, records + 1, << >>,
                  [Tmp EXCEPT ![x] = Node(Tmp[x].kind, Tmp[x].bytes, file[1].meta.mtime)])
    BY <1>9, <2>1, <2>2, ExtractedEnd
  <2>4. Tmp' = [Tmp EXCEPT ![x] = Node(Tmp[x].kind, Tmp[x].bytes, file[1].meta.mtime)]
    BY <1>9, <1>17, <2>1 DEF EndFile, Tmp
  <2>5. Extracted(stream, records + 1, file', Tmp')
    BY <2>1, <2>3, <2>4
  <2> QED
    BY <1>9, <2>1, <2>5, Parsed
<1> QED
  BY <1>2, <1>3, <1>4, <1>5, <1>6, <1>7, <1>8, <1>11, <1>12, <1>13, <1>14, <1>15, <1>16, <1>17
     DEF Next, vars, Decrypt, ProcessRecord

----------------------------------------------------------------------------
\* Sums of numbers grow.
LEMMA SumGrows ==
    ASSUME NEW w, NEW n \in Nat, \A k \in 1..n : w[k] \in Nat, NEW m \in 0..n
    PROVE  SumUpTo(w, m) <= SumUpTo(w, n)
<1> DEFINE T == {k \in Nat : m <= k /\ k <= n => SumUpTo(w, m) <= SumUpTo(w, k)}
<1>1. \A k \in 0..n : SumUpTo(w, k) \in Nat
  BY SumNat
<1>2. 0 \in T
  BY <1>1
<1>3. ASSUME NEW k \in Nat, k \in T PROVE k + 1 \in T
  <2> SUFFICES ASSUME m <= k + 1, k + 1 <= n PROVE SumUpTo(w, m) <= SumUpTo(w, k + 1)
    OBVIOUS
  <2>1. SumUpTo(w, k + 1) = SumUpTo(w, k) + w[k + 1] /\ w[k + 1] \in Nat
    BY SumStep
  <2>2. SumUpTo(w, k) \in Nat /\ SumUpTo(w, m) \in Nat
    BY <1>1
  <2>3. CASE m = k + 1
    BY <1>1, <2>3
  <2>4. CASE m <= k
    BY <1>3, <2>1, <2>2, <2>4
  <2> QED
    BY <2>3, <2>4
<1> HIDE DEF T
<1>4. n \in T
  BY <1>2, <1>3, NatInd
<1> QED
  BY <1>4 DEF T

\* When finish() finds everything in order every record was taken, to the last
\* byte.
LEMMA AllTaken ==
    ASSUME StreamInv, ProgressInv, ParseInv, rpc = "feed", arrived = Total, Complete
    PROVE  records = Len(stream) /\ cut = 0 /\ Len(stream) # 0
<1> DEFINE N == Len(stream)
<1>1. N \in Nat /\ DOMAIN stream = 1..N /\ records \in 0..N /\ Framed(stream)
  BY DEF StreamInv, ProgressInv, Framed
<1>2. records # 0
  <2>1. begun <=> records # 0
    BY DEF ParseInv, Grammar
  <2> QED
    BY <2>1 DEF Complete
<1>3. \A k \in 1..N : Sizes[k] = EncodedSize(stream[k]) /\ Sizes[k] \in Nat \ {0}
  BY <1>1, RecordAssumption DEF Sizes, Framed, EncodedSize
<1>4. StreamSize(stream) = SumUpTo(Sizes, N) /\ taken = SumUpTo(Sizes, records)
  BY DEF StreamSize, Sizes, ParseInv
<1>5. SumUpTo(Sizes, records) = SumUpTo(Sizes, N) - cut
  BY <1>4 DEF Complete, Total
<1>6. \A k \in 0..N : SumUpTo(Sizes, k) \in Nat
  BY <1>1, <1>3, SumNat
<1>7. cut \in Nat /\ (cut = 0 \/ cut < Sizes[N])
  <2>1. cut \in Nat
    BY <1>1, <1>4, <1>6 DEF StreamInv
  <2>2. cut > 0 => cut < EncodedSize(stream[N])
    BY DEF StreamInv
  <2> QED
    BY <1>1, <1>2, <1>3, <2>1, <2>2
<1> HIDE DEF N
<1>8. records = N
  <2> SUFFICES ASSUME records # N PROVE FALSE
    OBVIOUS
  <2>1. N - 1 \in Nat /\ records \in 0..(N - 1) /\ (N - 1) + 1 = N /\ N \in 1..N
    <3>1. N \in Nat /\ records \in 0..N /\ records # 0
      BY <1>1, <1>2
    <3> QED
      BY <3>1
  <2>2. SumUpTo(Sizes, N) = SumUpTo(Sizes, N - 1) + Sizes[N]
    BY <2>1, SumStep
  <2>3. \A k \in 1..(N - 1) : Sizes[k] \in Nat
    BY <1>1, <1>3
  <2>4. SumUpTo(Sizes, records) <= SumUpTo(Sizes, N - 1)
    BY <2>1, <2>3, SumGrows
  <2>5. Sizes[N] \in Nat \ {0} /\ SumUpTo(Sizes, N - 1) \in Nat /\ SumUpTo(Sizes, records) \in Nat
    BY <1>1, <1>3, <1>6, <2>1
  <2> QED
    BY <1>5, <1>7, <2>2, <2>4, <2>5
<1>9. cut = 0
  <2>1. SumUpTo(Sizes, N) \in Nat
    BY <1>1, <1>6
  <2> QED
    BY <1>5, <1>7, <1>8, <2>1
<1> QED
  BY <1>1, <1>2, <1>8, <1>9 DEF N

----------------------------------------------------------------------------
\* The first FileEnd after a record.
LEMMA FirstEnd ==
    ASSUME NEW s, NEW i \in Nat, NEW n \in Nat, EndsBy(s, i, n)
    PROVE  \E e \in (i + 1)..n : s[e].type = "FileEnd" /\ ~EndsBy(s, i, e - 1)
<1> DEFINE Q(k) == EndsBy(s, i, k) =>
                      \E e \in (i + 1)..k : s[e].type = "FileEnd" /\ ~EndsBy(s, i, e - 1)
           T == {k \in Nat : Q(k)}
<1>1. 0 \in T
  BY DEF EndsBy
<1>2. ASSUME NEW k \in Nat, k \in T PROVE k + 1 \in T
  <2>1. CASE EndsBy(s, i, k)
    <3>1. PICK e \in (i + 1)..k : s[e].type = "FileEnd" /\ ~EndsBy(s, i, e - 1)
      BY <1>2, <2>1
    <3>2. e \in (i + 1)..(k + 1)
      OBVIOUS
    <3> QED
      BY <3>1, <3>2
  <2>2. CASE ~EndsBy(s, i, k)
    <3> SUFFICES ASSUME EndsBy(s, i, k + 1) PROVE k + 1 \in T
      OBVIOUS
    <3>1. PICK e \in (i + 1)..(k + 1) : s[e].type = "FileEnd"
      BY DEF EndsBy
    <3>2. e = k + 1
      <4>1. e \notin (i + 1)..k
        BY <2>2, <3>1 DEF EndsBy
      <4> QED
        BY <4>1
    <3>3. (k + 1) - 1 = k /\ k + 1 \in (i + 1)..(k + 1)
      BY <3>2
    <3> QED
      BY <2>2, <3>1, <3>2, <3>3
  <2> QED
    BY <2>1, <2>2
<1> HIDE DEF T
<1>3. n \in T
  BY <1>1, <1>2, NatInd
<1> QED
  BY <1>3 DEF T

\* That is the one that FileEndOf takes.
LEMMA FileEndIs ==
    ASSUME Framed(stream), NEW i \in 1..Len(stream), NEW e \in (i + 1)..Len(stream),
           stream[e].type = "FileEnd", ~EndsBy(stream, i, e - 1)
    PROVE  FileEndOf(i) = e /\ Content(i) = BytesBetween(stream, i, e - 1)
<1> DEFINE S == {j \in At("FileEnd") : j > i} \cup {Len(stream) + 1}
<1>1. Len(stream) \in Nat /\ DOMAIN stream = 1..Len(stream)
  BY DEF Framed
<1>2. e \in S
  BY <1>1 DEF At
<1>3. \A j \in S : e <= j /\ j \in Nat
  <2> SUFFICES ASSUME NEW j \in S, j # Len(stream) + 1 PROVE e <= j /\ j \in Nat
    BY <1>1
  <2>1. j \in 1..Len(stream) /\ stream[j].type = "FileEnd" /\ j > i
    BY <1>1 DEF At
  <2>2. j \notin (i + 1)..(e - 1)
    BY <2>1 DEF EndsBy
  <2> QED
    BY <1>1, <2>1, <2>2
<1>4. Min(S) = e
  <2> HIDE DEF S
  <2>1. \A x \in S : (\A y \in S : x <= y) => x = e
    BY <1>2, <1>3
  <2> QED
    BY <1>2, <1>3, <2>1 DEF Min
<1>5. FileEndOf(i) = e
  BY <1>4 DEF FileEndOf
<1> QED
  BY <1>5 DEF Content

\* The node of the last record of a path is what the stream describes.
LEMMA DescribedIs ==
    ASSUME Framed(stream), NEW p, NEW i, LastOf(stream, Len(stream), p, i), NEW node,
           Closed(stream, Len(stream), node, i)
    PROVE  node = DescribedFile(p)
<1> DEFINE S == {j \in At("File") : NormalPath(stream[j].body.path) = p}
<1>1. Len(stream) \in Nat /\ DOMAIN stream = 1..Len(stream) /\ i \in 1..Len(stream)
  BY DEF Framed, LastOf
<1>2. PICK e \in (i + 1)..Len(stream) :
          /\ stream[e].type = "FileEnd" /\ ~EndsBy(stream, i, e - 1)
          /\ node = Node("file", BytesBetween(stream, i, e - 1), stream[i].body.mtime)
  BY DEF Closed
<1>3. Content(i) = BytesBetween(stream, i, e - 1)
  BY <1>1, <1>2, FileEndIs
<1>4. i \in S
  BY <1>1 DEF LastOf, At, PathOf
<1>5. \A j \in S : i >= j /\ j \in Nat
  <2> SUFFICES ASSUME NEW j \in S PROVE i >= j /\ j \in Nat
    OBVIOUS
  <2>1. j \in 1..Len(stream) /\ stream[j].type = "File" /\ PathOf(stream, j) = p
    BY <1>1 DEF At, PathOf
  <2>2. j \notin (i + 1)..Len(stream)
    BY <2>1 DEF LastOf
  <2> QED
    BY <1>1, <2>1, <2>2
<1>6. Max(S) = i
  <2> HIDE DEF S
  <2>1. \A x \in S : (\A y \in S : x >= y) => x = i
    BY <1>4, <1>5
  <2> QED
    BY <1>4, <1>5, <2>1 DEF Max
<1> QED
  BY <1>2, <1>3, <1>6 DEF DescribedFile

\* The whole stream was taken, and no file is open.
AllRead(s) ==
    /\ Len(s) # 0 /\ \A k \in 1..Len(s) : Sound(s, k)
    /\ \E k \in 1..Len(s) : s[k].type = "End"
    /\ \A i \in 1..Len(s) : s[i].type = "File" => EndsBy(s, i, Len(s))

\* Every file of it ends, with as many bytes as its metadata says.
LEMMA FileEnds ==
    ASSUME Framed(stream), AllRead(stream), NEW i \in At("File")
    PROVE  LET e == FileEndOf(i) IN
           /\ e \in (i + 1)..Len(stream) /\ stream[e].type = "FileEnd"
           /\ ~EndsBy(stream, i, e - 1) /\ Content(i) = BytesBetween(stream, i, e - 1)
           /\ Len(Content(i)) = stream[i].body.size
           /\ \A k \in Nat : EndsBy(stream, i, k - 1) => e < k
           /\ \A k \in Nat : i < k /\ ~EndsBy(stream, i, k - 1) => k <= e
<1>1. /\ Len(stream) \in Nat /\ DOMAIN stream = 1..Len(stream) /\ i \in 1..Len(stream)
      /\ stream[i].type = "File"
  BY DEF Framed, At
<1>2. EndsBy(stream, i, Len(stream)) /\ i \in Nat
  BY <1>1 DEF AllRead
<1>3. PICK e \in (i + 1)..Len(stream) : stream[e].type = "FileEnd" /\ ~EndsBy(stream, i, e - 1)
  BY <1>1, <1>2, FirstEnd
<1>4. FileEndOf(i) = e /\ Content(i) = BytesBetween(stream, i, e - 1)
  BY <1>1, <1>3, FileEndIs
<1>5. e \in 1..Len(stream) /\ i \in 1..(e - 1)
  BY <1>1
<1>6. Len(BytesBetween(stream, i, e - 1)) = stream[i].body.size
  <2>1. Sound(stream, e)
    BY <1>5 DEF AllRead
  <2> QED
    BY <1>1, <1>3, <1>5, <2>1 DEF Sound
<1>7. ASSUME NEW k \in Nat, EndsBy(stream, i, k - 1) PROVE e < k
  <2>1. PICK x \in (i + 1)..(k - 1) : stream[x].type = "FileEnd"
    BY <1>7 DEF EndsBy
  <2>2. x \notin (i + 1)..(e - 1)
    BY <1>3, <2>1 DEF EndsBy
  <2> QED
    BY <1>2, <1>5, <2>1, <2>2
<1>8. ASSUME NEW k \in Nat, i < k, ~EndsBy(stream, i, k - 1) PROVE k <= e
  <2>1. e \notin (i + 1)..(k - 1)
    BY <1>3, <1>8 DEF EndsBy
  <2> QED
    BY <1>2, <1>5, <1>8, <2>1
<1> QED
  BY <1>3, <1>4, <1>6, <1>7, <1>8

\* An archive that is read to its end is one of the format.
LEMMA ReadIsWellFormed ==
    ASSUME Framed(stream), AllRead(stream) PROVE WellFormed
<1> DEFINE N == Len(stream)
<1>1. N \in Nat /\ N # 0 /\ DOMAIN stream = 1..N /\ 1 \in 1..N
  BY DEF Framed, AllRead
<1>2. \A type : \A i : i \in At(type) <=> i \in 1..N /\ stream[i].type = type
  BY <1>1 DEF At
<1>3. \A k \in 1..N : Sound(stream, k)
  BY DEF AllRead
<1>4. stream # << >> /\ At("Begin") = {1} /\ stream[1].body = Version
  <2>1. \A k \in 1..N : /\ stream[k].type = "Begin" <=> k = 1
                        /\ stream[k].type = "Begin" => stream[k].body = Version
    BY <1>3 DEF Sound
  <2>2. stream # << >>
    BY <1>1, Len(<< >>) = 0
  <2>3. At("Begin") = {1}
    BY <1>1, <1>2, <2>1
  <2> QED
    BY <1>1, <2>1, <2>2, <2>3
<1>5. \E e \in At("End") :
          /\ At("End") = {e} /\ At("Padding") = (e + 1)..N
          /\ \A i \in At("File") : FileEndOf(i) < e
  <2>1. PICK e \in 1..N : stream[e].type = "End"
    BY DEF AllRead
  <2>2. \A k \in 1..N : stream[k].type = "Padding" <=>
                           \E i \in 1..(k - 1) : stream[i].type = "End"
    BY <1>3 DEF Sound
  <2>3. ASSUME NEW j \in 1..N, NEW k \in 1..N, stream[j].type = "End", j < k
        PROVE  stream[k].type = "Padding"
    <3>1. j \in 1..(k - 1)
      BY <1>1, <2>3
    <3> QED
      BY <2>2, <2>3, <3>1
  <2>4. \A k \in 1..N : stream[k].type = "End" => k = e
    <3> SUFFICES ASSUME NEW k \in 1..N, stream[k].type = "End", k # e PROVE FALSE
      OBVIOUS
    <3>1. k < e \/ e < k
      BY <1>1
    <3> QED
      BY <2>1, <2>3, <3>1
  <2>5. At("End") = {e}
    BY <1>2, <2>1, <2>4
  <2>6. ASSUME NEW k \in 1..N PROVE stream[k].type = "Padding" <=> e < k
    <3>1. stream[k].type = "Padding" => e < k
      <4> SUFFICES ASSUME stream[k].type = "Padding" PROVE e < k
        OBVIOUS
      <4>1. PICK i \in 1..(k - 1) : stream[i].type = "End"
        BY <2>2
      <4>2. i \in 1..N /\ i < k
        BY <1>1
      <4> QED
        BY <2>4, <4>1, <4>2
    <3> QED
      BY <2>1, <2>3, <3>1
  <2>7. \A k : k \in (e + 1)..N <=> k \in 1..N /\ e < k
    BY <1>1
  <2>8. At("Padding") = (e + 1)..N
    BY <1>2, <2>6, <2>7
  <2>9. ASSUME NEW i \in At("File") PROVE FileEndOf(i) < e
    <3>1. i \in 1..N /\ stream[i].type = "File"
      BY <1>2
    <3>2. i < e
      <4>1. i # e /\ ~(e < i)
        BY <2>1, <2>3, <3>1
      <4> QED
        BY <1>1, <3>1, <4>1
    <3>3. i \in 1..(e - 1) /\ e \in Nat
      BY <1>1, <3>1, <3>2
    <3>4. EndsBy(stream, i, e - 1)
      BY <1>3, <2>1, <3>1, <3>3 DEF Sound
    <3> QED
      BY <3>3, <3>4, FileEnds
  <2> QED
    BY <1>2, <2>1, <2>5, <2>8, <2>9
<1>6. At("Link") = {} /\ \A i \in DOMAIN stream : stream[i].type \in RecordTypes
  <2>1. \A k \in 1..N : stream[k].type \in RecordTypes \ {"Link"}
    BY <1>3 DEF Sound
  <2> QED
    BY <1>1, <1>2, <2>1
<1>7. \A i \in At("Dir") \cup At("File") :
          LET m == stream[i].body IN m.path # <<".">> /\ SafePath(m.path)
  <2> SUFFICES ASSUME NEW i \in At("Dir") \cup At("File")
               PROVE  stream[i].body.path # <<".">> /\ SafePath(stream[i].body.path)
    OBVIOUS
  <2>1. i \in 1..N /\ stream[i].type \in {"Dir", "File"}
    BY <1>2
  <2> QED
    BY <1>3, <2>1 DEF Sound
<1>8. ASSUME NEW i \in At("File")
      PROVE  /\ Len(Content(i)) = stream[i].body.size
             /\ \A j \in At("File") : i < j => FileEndOf(i) < j
  <2>1. Len(Content(i)) = stream[i].body.size
    BY FileEnds
  <2>2. ASSUME NEW j \in At("File"), i < j PROVE FileEndOf(i) < j
    <3>1. i \in 1..N /\ j \in 1..N /\ stream[i].type = "File" /\ stream[j].type = "File"
      BY <1>2
    <3>2. i \in 1..(j - 1) /\ j \in Nat
      BY <1>1, <2>2, <3>1
    <3>3. EndsBy(stream, i, j - 1)
      BY <1>3, <3>1, <3>2 DEF Sound
    <3> QED
      BY <3>2, <3>3, FileEnds
  <2> QED
    BY <2>1, <2>2
<1>9. ASSUME NEW j \in At("Bytes") \cup At("FileEnd")
      PROVE  \E i \in At("File") : i < j /\ j <= FileEndOf(i)
  <2>1. j \in 1..N /\ stream[j].type \in {"Bytes", "FileEnd"}
    BY <1>2
  <2>2. Sound(stream, j)
    BY <1>3, <2>1
  <2>3. PICK i \in 1..(j - 1) : stream[i].type = "File" /\ ~EndsBy(stream, i, j - 1)
    BY <2>1, <2>2 DEF Sound
  <2>4. i \in 1..N /\ i < j /\ j \in Nat
    BY <1>1, <2>1
  <2>5. i \in At("File")
    BY <1>2, <2>3, <2>4
  <2>6. j <= FileEndOf(i)
    BY <2>3, <2>4, <2>5, FileEnds
  <2> QED
    BY <2>4, <2>5, <2>6
<1> QED
  BY <1>4, <1>5, <1>6, <1>7, <1>8, <1>9 DEF WellFormed

\* What is above a path, from below.
LEMMA AboveFromBelow ==
    ASSUME NEW p \in Seq(STRING)
    PROVE  /\ Parent(p) \in Seq(STRING)
           /\ AndAncestors(p) = ({p} \cup AndAncestors(Parent(p))) \ {<< >>}
           /\ << >> \notin AndAncestors(Parent(p))
<1>1. CASE p = << >>
  <2>1. Len(p) = 0 /\ Parent(p) = << >>
    BY <1>1 DEF Parent, Front
  <2>2. AndAncestors(p) = {} /\ AndAncestors(Parent(p)) = {}
    BY <1>1, <2>1 DEF AndAncestors
  <2> QED
    BY <1>1, <2>1, <2>2
<1>2. CASE p # << >>
  <2>1. p \in SomePaths
    BY <1>2 DEF SomePaths
  <2>2. /\ Len(p) \in Nat \ {0} /\ (Len(p) = 1 \/ Len(p) > 1) /\ SubSeq(p, 1, Len(p)) = p
        /\ Len(p) = 1 => Parent(p) = << >>
        /\ Len(p) > 1 => /\ Parent(p) = SubSeq(p, 1, Len(p) - 1)
                         /\ Len(Parent(p)) = Len(p) - 1
        /\ Parent(p) \in Seq(STRING)
    BY <2>1, ParentAbove
  <2>3. AndAncestors(p) = {p} \cup AndAncestors(Parent(p))
    <3>1. CASE Len(p) = 1
      <4>1. AndAncestors(Parent(p)) = {}
        BY <2>2, <3>1, Len(<< >>) = 0 DEF AndAncestors
      <4>2. AndAncestors(p) = {p}
        BY <2>2, <3>1 DEF AndAncestors
      <4> QED
        BY <4>1, <4>2
    <3>2. CASE Len(p) > 1
      <4> DEFINE n == Len(p) - 1
      <4>1. n \in 1..Len(p) /\ n \in Nat /\ Len(p) = n + 1
        BY <2>2, <3>2
      <4>2. \A j \in 1..n : SubSeq(Parent(p), 1, j) = SubSeq(p, 1, j)
        BY <2>2, <3>2, <4>1, PathAbove
      <4>3. AndAncestors(Parent(p)) = {SubSeq(p, 1, i) : i \in 1..n}
        BY <2>2, <3>2, <4>2 DEF AndAncestors
      <4>4. \A i : i \in 1..Len(p) <=> i \in 1..n \/ i = Len(p)
        BY <4>1
      <4> HIDE DEF n
      <4> QED
        BY <2>2, <4>3, <4>4 DEF AndAncestors
    <3> QED
      BY <2>2, <3>1, <3>2
  <2>4. << >> \notin AndAncestors(p)
    BY <2>1, OwnAncestor DEF SomePaths
  <2> QED
    BY <1>2, <2>2, <2>3, <2>4
<1> QED
  BY <1>1, <1>2

\* Files and directories that the stream describes.
LEMMA SaidIsDescribed ==
    ASSUME Framed(stream), NEW p
    PROVE  /\ p \in Paths("File") <=> SaysFile(stream, Len(stream), p)
           /\ p \in DescribedDirs <=> SaysDir(stream, Len(stream), p)
<1> DEFINE N == Len(stream)
<1>1. N \in Nat /\ DOMAIN stream = 1..N
  BY DEF Framed
<1>2. \A type : \A i : i \in At(type) <=> i \in 1..N /\ stream[i].type = type
  BY <1>1 DEF At
<1>3. \A type : \A q : q \in Paths(type) <=>
                          \E i \in 1..N : stream[i].type = type /\ PathOf(stream, i) = q
  BY <1>2 DEF Paths, PathOf
<1>4. \A i \in 1..N : stream[i].type \in {"Dir", "File"} => PathOf(stream, i) \in Seq(STRING)
  BY <1>1, NormalIsPath DEF Framed, PathOf
<1>5. p \in Paths("File") <=> SaysFile(stream, N, p)
  BY <1>3 DEF SaysFile
<1>6. p \in DescribedDirs => SaysDir(stream, N, p)
  <2> SUFFICES ASSUME p \in DescribedDirs PROVE SaysDir(stream, N, p)
    OBVIOUS
  <2>1. p # << >>
    BY DEF DescribedDirs
  <2>2. CASE p \in Paths("Dir")
    <3>1. PICK i \in 1..N : stream[i].type = "Dir" /\ PathOf(stream, i) = p
      BY <1>3, <2>2
    <3>2. p \in AndAncestors(PathOf(stream, i))
      BY <1>4, <2>1, <3>1, AboveFromBelow
    <3> QED
      BY <3>1, <3>2 DEF SaysDir
  <2>3. ASSUME NEW q \in Paths("Dir") \cup Paths("File"), p \in AndAncestors(Parent(q))
        PROVE  SaysDir(stream, N, p)
    <3>1. PICK i \in 1..N : stream[i].type \in {"Dir", "File"} /\ PathOf(stream, i) = q
      BY <1>3
    <3>2. p \in AndAncestors(PathOf(stream, i))
      BY <1>4, <2>1, <2>3, <3>1, AboveFromBelow
    <3> QED
      BY <2>3, <3>1, <3>2 DEF SaysDir
  <2> QED
    BY <2>2, <2>3 DEF DescribedDirs
<1>7. SaysDir(stream, N, p) => p \in DescribedDirs
  <2> SUFFICES ASSUME SaysDir(stream, N, p) PROVE p \in DescribedDirs
    OBVIOUS
  <2>1. PICK i \in 1..N : \/ stream[i].type = "Dir" /\ p \in AndAncestors(PathOf(stream, i))
                          \/ /\ stream[i].type = "File"
                             /\ p \in AndAncestors(Parent(PathOf(stream, i)))
    BY DEF SaysDir
  <2> DEFINE q == PathOf(stream, i)
  <2>2. q \in Seq(STRING) /\ q \in Paths("Dir") \cup Paths("File")
    BY <1>3, <1>4, <2>1
  <2>3. stream[i].type = "Dir" => q \in Paths("Dir")
    BY <1>3
  <2>4. p # << >> /\ ((p = q /\ q \in Paths("Dir")) \/ p \in AndAncestors(Parent(q)))
    BY <2>1, <2>2, <2>3, AboveFromBelow
  <2> HIDE DEF q
  <2> QED
    BY <2>2, <2>4 DEF DescribedDirs
<1> QED
  BY <1>5, <1>6, <1>7

\* finish() finds the temporary tree to be what the whole stream describes.
Described(t) ==
    /\ \A p \in DOMAIN t : \/ IsDir(t, p) /\ p \in DescribedDirs
                           \/ p \in Paths("File") /\ t[p] = DescribedFile(p)
    /\ \A p \in DescribedDirs : IsDir(t, p)
    /\ Paths("File") \subseteq DOMAIN t

\* ... when it has found everything in order.
LEMMA FinishedTree ==
    ASSUME StreamInv, ProgressInv, ParseInv, rpc = "feed", arrived = Total, Complete
    PROVE  /\ WellFormed /\ cut = 0 /\ Described(Tmp)
           /\ Paths("File") \cap DescribedDirs = {}
<1> DEFINE N == Len(stream)
           t == Tmp
<1>1. records = N /\ cut = 0 /\ N # 0 /\ Framed(stream) /\ N \in Nat
  BY AllTaken DEF StreamInv, Framed
<1>2. file = << >> /\ ended
  BY DEF Complete
<1>3. Grammar(stream, N, begun, ended, << >>) /\ Extracted(stream, N, << >>, t)
  BY <1>1, <1>2 DEF ParseInv
<1>4. AllRead(stream)
  BY <1>1, <1>2, <1>3 DEF Grammar, AllRead
<1>5. WellFormed
  BY <1>1, <1>4, ReadIsWellFormed
<1> HIDE DEF t, N
<1>6. \A p : (IsDir(t, p) <=> p \in DescribedDirs) /\ (IsFile(t, p) <=> p \in Paths("File"))
  <2>1. \A p : /\ p \in Paths("File") <=> SaysFile(stream, N, p)
               /\ p \in DescribedDirs <=> SaysDir(stream, N, p)
    BY <1>1, SaidIsDescribed DEF N
  <2> QED
    BY <1>3, <2>1 DEF Extracted
<1>7. ASSUME NEW p, IsFile(t, p) PROVE t[p] = DescribedFile(p)
  <2>1. PICK i \in 1..N : LastOf(stream, N, p, i) /\ Closed(stream, N, t[p], i)
    BY <1>1, <1>3, <1>7, OpenOrClosed
  <2> QED
    BY <1>1, <2>1, DescribedIs DEF N
<1>8. \A p \in DOMAIN t : IsDir(t, p) \/ IsFile(t, p)
  BY <1>3 DEF Extracted, IsDir, IsFile
<1>9. \A p : ~(IsDir(t, p) /\ IsFile(t, p))
  BY DEF IsDir, IsFile
<1>10. Described(t)
  <2>1. Paths("File") \subseteq DOMAIN t
    BY <1>6 DEF IsFile
  <2> QED
    BY <1>6, <1>7, <1>8, <2>1 DEF Described
<1>11. Paths("File") \cap DescribedDirs = {}
  BY <1>6, <1>9
<1> QED
  BY <1>1, <1>5, <1>10, <1>11 DEF t

----------------------------------------------------------------------------
\* What the stream says does not change with the rest.
LEMMA MeaningKept ==
    ASSUME stream' = stream
    PROVE  /\ Paths("File")' = Paths("File") /\ DescribedDirs' = DescribedDirs
           /\ WellFormed' = WellFormed
           /\ \A p : DescribedFile(p)' = DescribedFile(p)
<1>1. \A type : At(type)' = At(type)
  BY DEF At
<1>2. \A type : Paths(type)' = Paths(type)
  BY <1>1 DEF Paths
<1>3. \A i : FileEndOf(i)' = FileEndOf(i)
  BY <1>1 DEF FileEndOf
<1>4. \A i : Content(i)' = Content(i)
  BY <1>3 DEF Content
<1>5. DescribedDirs' = DescribedDirs
  BY <1>2 DEF DescribedDirs
<1>6. \A p : DescribedFile(p)' = DescribedFile(p)
  BY <1>1, <1>4 DEF DescribedFile
<1>7. WellFormed' = WellFormed
  BY <1>1, <1>3, <1>4 DEF WellFormed
<1> QED
  BY <1>2, <1>5, <1>6, <1>7

\* The path of a file is above no other file: those above a file are
\* directories.
LEMMA FilesApart ==
    ASSUME Paths("File") \cap DescribedDirs = {}, NEW c \in Paths("File"), c \in SomePaths
    PROVE  /\ \A p \in SomePaths : IsPrefix(p, c) /\ p # c => p \in DescribedDirs
           /\ \A p \in Paths("File") \cap SomePaths : IsPrefix(p, c) => p = c
           /\ Parent(c) = << >> \/ Parent(c) \in DescribedDirs
<1>1. c \in Seq(STRING)
  BY DEF SomePaths
<1>2. AndAncestors(Parent(c)) \subseteq DescribedDirs
  BY <1>1, AboveFromBelow DEF DescribedDirs
<1>3. ASSUME NEW p \in SomePaths, IsPrefix(p, c), p # c PROVE p \in DescribedDirs
  <2>1. Len(p) <= Len(c) /\ p = SubSeq(c, 1, Len(p)) /\ Len(p) \in Nat \ {0} /\ Len(c) \in Nat \ {0}
    BY <1>3, PrefixAbove, ParentAbove
  <2>2. p \in AndAncestors(c)
    <3>1. Len(p) \in 1..Len(c)
      BY <2>1
    <3> QED
      BY <2>1, <3>1, Zenon DEF AndAncestors
  <2>3. p \in AndAncestors(Parent(c))
    BY <1>1, <1>3, <2>2, AboveFromBelow
  <2> QED
    BY <1>2, <2>3
<1>4. Parent(c) = << >> \/ Parent(c) \in DescribedDirs
  <2>1. CASE Len(c) > 1
    <3>1. Parent(c) \in SomePaths
      BY <2>1, ParentAbove
    <3>2. Parent(c) \in AndAncestors(Parent(c))
      BY <3>1, OwnAncestor
    <3> QED
      BY <1>2, <3>2
  <2> QED
    BY <2>1, ParentAbove
<1> QED
  BY <1>3, <1>4

\* No operation on trees but the writing of a file changes bytes.
LEMMA BytesKept ==
    ASSUME NEW t, NEW p \in SomePaths, NEW n
    PROVE  /\ \A q \in DOMAIN t : q # p => PutNode(t, p, n)[q].bytes = t[q].bytes
           /\ \A q \in DOMAIN DropTree(t, p) : DropTree(t, p)[q].bytes = t[q].bytes
           /\ \A q \in DOMAIN t : MakeDirs(t, p)[q].bytes = t[q].bytes
<1>1. ASSUME NEW qs
      PROVE  /\ DOMAIN Touched(t, qs) = DOMAIN t
             /\ \A q \in DOMAIN t : Touched(t, qs)[q].bytes = t[q].bytes
  BY DEF Touched, Node
<1> DEFINE u == Touched(t, {Parent(p)})
<1>2. DOMAIN u = DOMAIN t /\ \A q \in DOMAIN t : u[q].bytes = t[q].bytes
  BY <1>1
<1> HIDE DEF u
<1>3. PutNode(t, p, n) = [q \in DOMAIN t \cup {p} |-> IF q = p THEN n ELSE u[q]]
  BY DEF PutNode, u
<1>4. DropTree(t, p) = [q \in {q \in DOMAIN u : ~IsPrefix(p, q)} |-> u[q]]
  BY DEF DropTree, u
<1> DEFINE new == AndAncestors(p) \ DOMAIN t
           w == Touched(t, {Parent(q) : q \in new})
<1>5. \A q \in DOMAIN t : w[q].bytes = t[q].bytes
  BY <1>1
<1>6. MakeDirs(t, p) =
          [q \in DOMAIN t \cup new |-> IF q \in new THEN Node("dir", << >>, Now) ELSE w[q]]
  BY DEF MakeDirs
<1> HIDE DEF w
<1>7. \A q \in DOMAIN t : MakeDirs(t, p)[q].bytes = t[q].bytes
  BY <1>5, <1>6
<1> QED
  BY <1>2, <1>3, <1>4, <1>7

----------------------------------------------------------------------------
\* Everything has arrived and finish() has found it in order.
Settled == arrived = Total /\ Complete
Late == {"promote", "rename", "metadata", "success", "unwind", "catch", "failed"}

\* Nothing is promoted before that.
SettledInv ==
    /\ rpc \notin Late => promoted = {}
    /\ rpc \in {"promote", "rename", "metadata", "success"} => Settled
    /\ promoted # {} => Settled

\* The parser does not run again.
LEMMA SettledSame ==
    ASSUME UNCHANGED <<stream, header, cut, arrived, taken, begun, ended, file>>
    PROVE  Settled' = Settled
  BY DEF Settled, Total, Complete, LengthMatches

\* When something is settled, action by action.
LEMMA SettledStep == ReaderInv /\ SettledInv /\ [Next]_vars => SettledInv'
<1> SUFFICES ASSUME ReaderInv, SettledInv, [Next]_vars PROVE SettledInv'
  OBVIOUS
<1>1. StreamInv
  BY DEF ReaderInv
<1>2. rpc # "idle" => UNCHANGED <<stream, header, cut>>
  BY <1>1, WriterDone
<1>3. CASE UNCHANGED rvars
  <2>1. CASE rpc = "idle"
    BY <1>3, <2>1 DEF SettledInv, Late, rvars, seen_vars
  <2>2. CASE rpc # "idle"
    <3>1. Settled' = Settled
      BY <1>2, <1>3, <2>2, SettledSame DEF rvars, parse_vars
    <3> QED
      BY <1>3, <3>1 DEF SettledInv, rvars, seen_vars
  <2> QED
    BY <2>1, <2>2
<1>4. ASSUME NEW p, Intrude(p) PROVE SettledInv'
  <2>1. Settled' = Settled
    BY <1>2, <1>4, SettledSame DEF Intrude, parse_vars
  <2> QED
    BY <1>4, <2>1 DEF SettledInv, Intrude
<1>5. ASSUME NEW o, NEW dp, OpenDecrypt(o, dp) PROVE SettledInv'
  BY <1>5 DEF OpenDecrypt, SettledInv, Late
<1>6. ASSUME Discover \/ Construct \/ Consume \/ NeedMore \/ ProcessRecord PROVE SettledInv'
  <2>1. rpc \in {"discover", "construct", "feed", "parse"} /\ promoted' = promoted
    BY <1>6 DEF Discover, Construct, Consume, NeedMore, ProcessRecord, BeginArchive,
       CreateDirectory, BeginFile, WriteFileBytes, EndFile, EndArchive, SkipPadding,
       RejectRecord, Process, seen_vars
  <2>2. rpc' \in {"construct", "feed", "parse", "unwind", "catch"}
    BY <1>6 DEF Discover, Construct, Consume, NeedMore, ProcessRecord, BeginArchive,
       CreateDirectory, BeginFile, WriteFileBytes, EndFile, EndArchive, SkipPadding,
       RejectRecord, Process, Throw
  <2>3. promoted = {}
    BY <2>1 DEF SettledInv, Late
  <2> QED
    BY <2>1, <2>2, <2>3 DEF SettledInv
<1>7. ASSUME Finish PROVE SettledInv'
  <2>1. Settled' = Settled
    BY <1>2, <1>7, SettledSame DEF Finish, parse_vars
  <2>2. promoted = {} /\ promoted' = {}
    BY <1>7 DEF Finish, SettledInv, Late
  <2>3. rpc' = "unwind" \/ (rpc' = "promote" /\ Settled)
    BY <1>7 DEF Finish, Throw, Settled
  <2> QED
    BY <2>1, <2>2, <2>3 DEF SettledInv
<1>8. ASSUME \/ \E p \in todo : PromoteDir(p) \/ PromoteCheck(p)
             \/ PromoteRename \/ PromoteEnd \/ (\E m \in deferred : ApplyMetadata(m))
             \/ FinishCleanup
      PROVE  SettledInv'
  <2>1. rpc \in {"promote", "rename", "metadata"} /\ UNCHANGED <<cut, parse_vars>>
    BY <1>8 DEF PromoteDir, PromoteCheck, PromoteRename, PromoteEnd, ApplyMetadata, FinishCleanup
  <2>2. rpc' \in Late
    BY <1>8 DEF PromoteDir, PromoteCheck, PromoteRename, PromoteEnd, ApplyMetadata, FinishCleanup,
       PromoteFails, Throw, Late
  <2>3. Settled' = Settled
    BY <1>2, <2>1, SettledSame DEF parse_vars
  <2> QED
    BY <2>1, <2>2, <2>3 DEF SettledInv
<1>9. ASSUME Unwind \/ Catch PROVE SettledInv'
  <2>1. Settled' = Settled
    BY <1>2, <1>9, SettledSame DEF Unwind, Catch, parse_vars
  <2>2. promoted' = promoted /\ rpc' \in {"catch", "failed"} /\ rpc \in {"unwind", "catch"}
    BY <1>9 DEF Unwind, Catch
  <2> QED
    BY <2>1, <2>2 DEF SettledInv, Late
<1> QED
  BY <1>3, <1>4, <1>5, <1>6, <1>7, <1>8, <1>9 DEF Next, vars, Decrypt

----------------------------------------------------------------------------
\* Promotion: the temporary tree holds the directories described and the files
\* that are not promoted yet.  At the end there are none.
ClosingInv ==
    /\ rpc \in {"promote", "rename", "metadata"} =>
          /\ WellFormed /\ cut = 0 /\ Paths("File") \cap DescribedDirs = {}
          /\ promoted \subseteq Paths("File") /\ Paths("File") \ promoted \subseteq todo
          /\ \A p \in DescribedDirs : IsDir(Tmp, p)
          /\ \A p \in DOMAIN Tmp :
                \/ IsDir(Tmp, p) /\ p \in DescribedDirs
                \/ p \in Paths("File") \ promoted /\ Tmp[p] = DescribedFile(p)
    /\ rpc = "success" => /\ WellFormed /\ cut = 0 /\ Paths("File") = promoted
                          /\ \A p \in DescribedDirs : IsDir(out, p)

\* What is in the temporary tree is a file to promote or a directory.
LEMMA FileToPromote ==
    ASSUME ReaderInv, ClosingInv, rpc \in {"promote", "rename", "metadata"}
    PROVE  /\ \A p \in DOMAIN Tmp : /\ p \in SomePaths
                                    /\ Tmp[p].kind = "dir" => p \in DescribedDirs
                                    /\ Tmp[p].kind # "dir" => /\ p \in Paths("File") \ promoted
                                                              /\ Tmp[p] = DescribedFile(p)
           /\ Tree(Tmp) /\ DescribedDirs \subseteq SomePaths
<1>1. Tree(Tmp)
  BY DEF ReaderInv, TempInv
<1>2. \A p : DescribedFile(p).kind = "file"
  BY DEF DescribedFile, Node
<1>3. DOMAIN Tmp \subseteq SomePaths
  BY <1>1 DEF Tree, SomePaths
<1>4. \A p \in DOMAIN Tmp : \/ IsDir(Tmp, p) /\ p \in DescribedDirs
                            \/ p \in Paths("File") \ promoted /\ Tmp[p] = DescribedFile(p)
  BY DEF ClosingInv
<1>5. DescribedDirs \subseteq SomePaths
  BY <1>3 DEF ClosingInv, IsDir
<1> QED
  BY <1>1, <1>2, <1>3, <1>4, <1>5 DEF IsDir

\* A promotion step that leaves the temporary tree alone.
LEMMA ClosingSame ==
    ASSUME ClosingInv, stream' = stream, UNCHANGED <<cut, temp, promoted>>,
           rpc \in {"promote", "rename", "metadata"}, rpc' # "success",
           Paths("File") \ promoted \subseteq todo'
    PROVE  ClosingInv'
<1>1. /\ Paths("File")' = Paths("File") /\ DescribedDirs' = DescribedDirs
      /\ WellFormed' = WellFormed
      /\ \A p : DescribedFile(p)' = DescribedFile(p)
  BY MeaningKept
<1>2. Tmp' = Tmp
  BY DEF Tmp
<1>3. /\ WellFormed /\ cut = 0 /\ Paths("File") \cap DescribedDirs = {}
      /\ promoted \subseteq Paths("File")
      /\ \A p \in DescribedDirs : IsDir(Tmp, p)
      /\ \A p \in DOMAIN Tmp :
            \/ IsDir(Tmp, p) /\ p \in DescribedDirs
            \/ p \in Paths("File") \ promoted /\ Tmp[p] = DescribedFile(p)
  BY DEF ClosingInv
<1>4. (\A p \in DescribedDirs : IsDir(Tmp, p))'
  BY <1>1, <1>2, <1>3 DEF IsDir
<1>5. (\A p \in DOMAIN Tmp :
            \/ IsDir(Tmp, p) /\ p \in DescribedDirs
            \/ p \in Paths("File") \ promoted /\ Tmp[p] = DescribedFile(p))'
  BY <1>1, <1>2, <1>3 DEF IsDir
<1> QED
  BY <1>1, <1>3, <1>4, <1>5 DEF ClosingInv

\* The temporary tree while it is promoted, action by action.
LEMMA ClosingStep ==
    ReaderInv /\ ParseInv /\ SettledInv /\ ClosingInv /\ [Next]_vars => ClosingInv'
<1> SUFFICES ASSUME ReaderInv, ParseInv, SettledInv, ClosingInv, [Next]_vars PROVE ClosingInv'
  OBVIOUS
<1> DEFINE Busily == {"promote", "rename", "metadata"}
<1>1. StreamInv /\ ProgressInv /\ PromoteInv
  BY DEF ReaderInv
<1>2. rpc # "idle" => UNCHANGED <<stream, cut>>
  BY <1>1, WriterDone
<1>3. rpc' \notin Busily \cup {"success"} => ClosingInv'
  BY DEF ClosingInv
<1>4. rpc \in Busily => Paths("File") \ promoted \subseteq todo
  BY DEF ClosingInv
<1>5. CASE UNCHANGED rvars \/ \E p \in IntruderPaths : Intrude(p)
  <2>1. rpc' = rpc /\ UNCHANGED <<cut, temp, promoted, todo>>
    BY <1>5 DEF rvars, tree_vars, seen_vars, Intrude
  <2>2. CASE rpc \in Busily
    BY <1>2, <1>4, <2>1, <2>2, ClosingSame
  <2>3. CASE rpc = "success"
    <3>1. out' = out
      BY <1>5, <2>3 DEF rvars, out_vars, Intrude
    <3>2. stream' = stream
      BY <1>2, <2>3
    <3>3. /\ Paths("File")' = Paths("File") /\ DescribedDirs' = DescribedDirs
          /\ WellFormed' = WellFormed
      BY <3>2, MeaningKept
    <3>4. /\ WellFormed /\ cut = 0 /\ Paths("File") = promoted
          /\ \A p \in DescribedDirs : IsDir(out, p)
      BY <2>3 DEF ClosingInv
    <3>5. (\A p \in DescribedDirs : IsDir(out, p))'
      BY <3>1, <3>3, <3>4 DEF IsDir
    <3> QED
      BY <2>1, <2>3, <3>3, <3>4, <3>5 DEF ClosingInv
  <2> QED
    BY <1>3, <2>1, <2>2, <2>3
<1>6. CASE \/ \E o \in Outputs, dp \in DecryptParams : OpenDecrypt(o, dp)
           \/ Discover \/ Construct \/ Consume \/ NeedMore \/ ProcessRecord \/ Unwind \/ Catch
  <2>1. rpc' \notin Busily \cup {"success"}
    BY <1>6 DEF OpenDecrypt, Discover, Construct, Consume, NeedMore, ProcessRecord, BeginArchive,
       CreateDirectory, BeginFile, WriteFileBytes, EndFile, EndArchive, SkipPadding,
       RejectRecord, Process, Throw, Unwind, Catch
  <2> QED
    BY <1>3, <2>1
<1>7. CASE Finish
  <2> SUFFICES ASSUME rpc' \in Busily \cup {"success"} PROVE ClosingInv'
    BY <1>3
  <2>1. /\ rpc = "feed" /\ arrived = Total /\ Complete /\ rpc' = "promote" /\ todo' = DOMAIN Tmp
        /\ UNCHANGED <<cut, temp, promoted>>
    BY <1>7 DEF Finish, Throw
  <2>2. /\ WellFormed /\ cut = 0 /\ Described(Tmp)
        /\ Paths("File") \cap DescribedDirs = {}
    BY <1>1, <2>1, FinishedTree
  <2>3. promoted = {} /\ stream' = stream
    BY <1>2, <2>1 DEF SettledInv, Late
  <2>4. /\ Paths("File")' = Paths("File") /\ DescribedDirs' = DescribedDirs
        /\ WellFormed' = WellFormed
        /\ \A p : DescribedFile(p)' = DescribedFile(p)
    BY <2>3, MeaningKept
  <2>5. Tmp' = Tmp
    BY <2>1 DEF Tmp
  <2>6. (\A p \in DescribedDirs : IsDir(Tmp, p))'
    BY <2>2, <2>4, <2>5 DEF IsDir, Described
  <2>7. (\A p \in DOMAIN Tmp :
            \/ IsDir(Tmp, p) /\ p \in DescribedDirs
            \/ p \in Paths("File") \ promoted /\ Tmp[p] = DescribedFile(p))'
    BY <2>1, <2>2, <2>3, <2>4, <2>5 DEF IsDir, Described
  <2>8. (Paths("File") \ promoted \subseteq todo)'
    BY <2>1, <2>2, <2>4 DEF Described
  <2> QED
    BY <2>1, <2>2, <2>3, <2>4, <2>6, <2>7, <2>8 DEF ClosingInv
<1>8. ASSUME NEW p \in todo, PromoteDir(p) PROVE ClosingInv'
  <2>1. rpc = "promote" /\ Tmp[p].kind = "dir" /\ UNCHANGED <<cut, temp, promoted>>
        /\ (todo' = todo \ {p} \/ todo' = todo) /\ rpc' # "success"
    BY <1>8 DEF PromoteDir, PromoteFails, Throw
  <2>2. p \in DOMAIN Tmp
    BY <1>1, <2>1 DEF PromoteInv
  <2>3. p \in DescribedDirs
    BY <2>1, <2>2, FileToPromote
  <2>4. p \notin Paths("File")
    BY <2>1, <2>3 DEF ClosingInv
  <2> QED
    BY <1>2, <1>4, <2>1, <2>4, ClosingSame
<1>9. CASE \/ \E p \in todo : PromoteCheck(p)
           \/ PromoteEnd \/ \E m \in deferred : ApplyMetadata(m)
  <2>1. rpc \in Busily /\ UNCHANGED <<cut, temp, promoted, todo>> /\ rpc' # "success"
    BY <1>9 DEF PromoteCheck, PromoteEnd, ApplyMetadata, PromoteFails, Throw, tree_vars
  <2> QED
    BY <1>2, <1>4, <2>1, ClosingSame
<1>10. CASE PromoteRename
  <2>1. rpc = "rename" /\ cut' = cut /\ rpc' # "success" /\ stream' = stream
    BY <1>2, <1>10 DEF PromoteRename, PromoteFails, Throw
  <2>2. CASE UNCHANGED <<temp, promoted, todo>>
    BY <1>4, <2>1, <2>2, ClosingSame
  <2>3. CASE ~UNCHANGED <<temp, promoted, todo>>
    <3>1. PICK c : c = checked[1]
      OBVIOUS
    <3>2. temp' = <<DropTree(Tmp, c)>> /\ todo' = todo \ {c} /\ promoted' = promoted \cup {c}
      BY <1>10, <2>3, <3>1 DEF PromoteRename, PromoteFails
    <3>3. Tmp' = DropTree(Tmp, c)
      BY <3>2 DEF Tmp
    <3>4. PICK t : t = Tmp
      OBVIOUS
    <3>5. c \in DOMAIN t /\ c \in SomePaths /\ ~IsDir(t, c)
      BY <2>1, <3>1, <3>4, RenameParent
    <3>6. /\ \A p \in DOMAIN t : /\ p \in SomePaths
                                 /\ t[p].kind = "dir" => p \in DescribedDirs
                                 /\ t[p].kind # "dir" => /\ p \in Paths("File") \ promoted
                                                         /\ t[p] = DescribedFile(p)
          /\ Tree(t)
      BY <2>1, <3>4, FileToPromote
    <3>7. c \in Paths("File")
      BY <3>5, <3>6 DEF IsDir
    <3>8. PICK u : u = DropTree(t, c)
      OBVIOUS
    <3>9. /\ c \notin DOMAIN u /\ DOMAIN u \subseteq DOMAIN t
          /\ \A q \in DOMAIN t : q # c => q \in DOMAIN u
          /\ \A q \in DOMAIN u : u[q].kind = t[q].kind /\ (q # Parent(c) => u[q] = t[q])
      <4>1. c \notin DOMAIN u /\ \A q \in DOMAIN t : q # c => q \in DOMAIN u
        BY <3>5, <3>6, <3>8, DirsDropped
      <4>2. /\ DOMAIN u \subseteq DOMAIN t
            /\ \A q \in DOMAIN u : u[q].kind = t[q].kind /\ (q # Parent(c) => u[q] = t[q])
        BY <3>5, <3>8, DropTreeAt
      <4> QED
        BY <4>1, <4>2
    <3>10. /\ WellFormed /\ cut = 0 /\ Paths("File") \cap DescribedDirs = {}
           /\ promoted \subseteq Paths("File") /\ Paths("File") \ promoted \subseteq todo
           /\ \A p \in DescribedDirs : IsDir(t, p)
      BY <2>1, <3>4 DEF ClosingInv
    <3>11. Parent(c) = << >> \/ Parent(c) \in DescribedDirs
      BY <3>5, <3>7, <3>10, FilesApart
    <3>12. \A p \in DescribedDirs : IsDir(u, p)
      BY <3>7, <3>9, <3>10 DEF IsDir
    <3>13. ASSUME NEW p \in DOMAIN u
           PROVE  \/ IsDir(u, p) /\ p \in DescribedDirs
                  \/ p \in Paths("File") \ (promoted \cup {c}) /\ u[p] = DescribedFile(p)
      <4>1. p \in DOMAIN t /\ p # c /\ u[p].kind = t[p].kind
        BY <3>9
      <4>2. CASE t[p].kind = "dir"
        BY <3>6, <4>1, <4>2 DEF IsDir
      <4>3. CASE t[p].kind # "dir"
        <5>1. p \in Paths("File") \ promoted /\ t[p] = DescribedFile(p) /\ p \in SomePaths
          BY <3>6, <4>1, <4>3
        <5>2. p # Parent(c)
          BY <3>10, <3>11, <5>1 DEF SomePaths
        <5> QED
          BY <3>9, <4>1, <5>1, <5>2
      <4> QED
        BY <4>2, <4>3
    <3>14. /\ Paths("File")' = Paths("File") /\ DescribedDirs' = DescribedDirs
           /\ WellFormed' = WellFormed
           /\ \A p : DescribedFile(p)' = DescribedFile(p)
      BY <2>1, MeaningKept
    <3>15. Tmp' = u
      BY <3>3, <3>4, <3>8
    <3>16. (\A p \in DescribedDirs : IsDir(Tmp, p))'
      BY <3>12, <3>14, <3>15 DEF IsDir
    <3>17. (\A p \in DOMAIN Tmp :
              \/ IsDir(Tmp, p) /\ p \in DescribedDirs
              \/ p \in Paths("File") \ promoted /\ Tmp[p] = DescribedFile(p))'
      BY <3>2, <3>13, <3>14, <3>15 DEF IsDir
    <3>18. (promoted \subseteq Paths("File") /\ Paths("File") \ promoted \subseteq todo)'
      BY <3>2, <3>7, <3>10, <3>14
    <3> QED
      BY <2>1, <3>10, <3>14, <3>16, <3>17, <3>18 DEF ClosingInv
  <2> QED
    BY <2>2, <2>3
<1>11. CASE FinishCleanup
  <2>1. rpc = "metadata" /\ rpc' = "success" /\ UNCHANGED <<cut, out, promoted>>
    BY <1>11 DEF FinishCleanup, out_vars
  <2>2. stream' = stream /\ todo = {}
    BY <1>1, <1>2, <2>1 DEF PromoteInv
  <2>3. /\ Paths("File")' = Paths("File") /\ DescribedDirs' = DescribedDirs
        /\ WellFormed' = WellFormed
    BY <2>2, MeaningKept
  <2>4. /\ WellFormed /\ cut = 0 /\ promoted \subseteq Paths("File")
        /\ Paths("File") \ promoted \subseteq todo
        /\ \A p \in DescribedDirs : IsDir(Tmp, p)
    BY <2>1 DEF ClosingInv
  <2>5. \A p \in DescribedDirs : IsDir(out, p)
    BY <1>1, <2>1, <2>2, <2>4 DEF PromoteInv, IsDir
  <2>6. (\A p \in DescribedDirs : IsDir(out, p))'
    BY <2>1, <2>3, <2>5 DEF IsDir
  <2>7. Paths("File") = promoted
    BY <2>2, <2>4
  <2> QED
    BY <2>1, <2>3, <2>4, <2>6, <2>7 DEF ClosingInv
<1> QED
  BY <1>5, <1>6, <1>7, <1>8, <1>9, <1>10, <1>11 DEF Next, vars, Decrypt

----------------------------------------------------------------------------
\* What a path of the output holds, in a form that the steps keep: nothing is
\* lost but what was to be replaced, what is promoted is there, and the rest is
\* as it was or a directory of the archive.
KeptAt(p) ==
    p \in DOMAIN before /\ out[p].kind = before[p].kind /\ out[p].bytes = before[p].bytes
OutputInv ==
    rpc \notin {"idle", "refused"} =>
        /\ \A p \in DOMAIN before \ DOMAIN out : Replaceable(p)
        /\ \A p \in promoted : p \in DOMAIN out /\ out[p] = DescribedFile(p)
        /\ \A p \in DOMAIN out \ (intruders \cup promoted) :
              \/ KeptAt(p)
              \/ /\ rpc \in Late /\ Settled
                 /\ p \in DescribedDirs \ DOMAIN before /\ out[p].kind = "dir"

\* What a step has to leave as it is.
LEMMA OutputKept ==
    ASSUME OutputInv, rpc \notin {"idle", "refused"}, stream' = stream,
           UNCHANGED <<before, dparams>>, intruders \subseteq intruders',
           promoted \subseteq promoted', Removed \subseteq Removed',
           rpc \in Late => rpc' \in Late /\ Settled' = Settled,
           \A p \in DOMAIN before : p \in DOMAIN out /\ p \notin DOMAIN out' =>
               dparams.overwrite /\ \E c \in Removed' : IsPrefix(c, p),
           \A p \in promoted' : p \in DOMAIN out' /\ out'[p] = DescribedFile(p),
           \A p \in DOMAIN out' : p \notin intruders' /\ p \notin promoted' =>
               \/ /\ p \in DOMAIN out
                  /\ out'[p].kind = out[p].kind /\ out'[p].bytes = out[p].bytes
               \/ /\ rpc' \in Late /\ Settled'
                  /\ p \in DescribedDirs \ DOMAIN before /\ out'[p].kind = "dir"
    PROVE  OutputInv'
<1>1. /\ DescribedDirs' = DescribedDirs
      /\ \A p : DescribedFile(p)' = DescribedFile(p)
  BY MeaningKept
<1>2. /\ \A p \in DOMAIN before \ DOMAIN out : Replaceable(p)
      /\ \A p \in DOMAIN out \ (intruders \cup promoted) :
            \/ KeptAt(p)
            \/ /\ rpc \in Late /\ Settled
               /\ p \in DescribedDirs \ DOMAIN before /\ out[p].kind = "dir"
  BY DEF OutputInv
<1>3. (\A p \in DOMAIN before \ DOMAIN out : Replaceable(p))'
  <2> SUFFICES ASSUME NEW p \in DOMAIN before, p \notin DOMAIN out'
               PROVE  dparams.overwrite /\ \E c \in Removed' : IsPrefix(c, p)
    BY DEF Replaceable
  <2>1. CASE p \in DOMAIN out
    BY <2>1
  <2>2. CASE p \notin DOMAIN out
    <3>1. dparams.overwrite /\ \E c \in Removed : IsPrefix(c, p)
      BY <1>2, <2>2 DEF Replaceable
    <3> QED
      BY <3>1
  <2> QED
    BY <2>1, <2>2
<1>4. (\A p \in promoted : p \in DOMAIN out /\ out[p] = DescribedFile(p))'
  BY <1>1
<1>5. ASSUME NEW p \in DOMAIN out', p \notin intruders', p \notin promoted'
      PROVE  \/ KeptAt(p)'
             \/ /\ rpc' \in Late /\ Settled'
                /\ p \in DescribedDirs' \ DOMAIN before' /\ out'[p].kind = "dir"
  <2>1. CASE /\ p \in DOMAIN out
             /\ out'[p].kind = out[p].kind /\ out'[p].bytes = out[p].bytes
    <3>1. p \in DOMAIN out \ (intruders \cup promoted)
      BY <1>5, <2>1
    <3>2. CASE KeptAt(p)
      BY <2>1, <3>2 DEF KeptAt
    <3>3. CASE /\ rpc \in Late /\ Settled
               /\ p \in DescribedDirs \ DOMAIN before /\ out[p].kind = "dir"
      BY <1>1, <2>1, <3>3
    <3> QED
      BY <1>2, <3>1, <3>2, <3>3
  <2>2. CASE /\ rpc' \in Late /\ Settled'
             /\ p \in DescribedDirs \ DOMAIN before /\ out'[p].kind = "dir"
    BY <1>1, <2>2
  <2> QED
    BY <1>5, <2>1, <2>2
<1>6. (\A p \in DOMAIN out \ (intruders \cup promoted) :
            \/ KeptAt(p)
            \/ /\ rpc \in Late /\ Settled
               /\ p \in DescribedDirs \ DOMAIN before /\ out[p].kind = "dir")'
  BY <1>5
<1> QED
  BY <1>3, <1>4, <1>6 DEF OutputInv

\* A step that leaves the output alone.
LEMMA OutputSame ==
    ASSUME ReaderInv, OutputInv, [Next]_vars, rpc \notin {"idle", "refused"},
           UNCHANGED <<before, dparams, intruders, promoted, out, checked>>,
           rpc \in Late => rpc' \in Late /\ UNCHANGED parse_vars
    PROVE  OutputInv'
<1>1. UNCHANGED <<stream, header, cut>>
  BY WriterDone DEF ReaderInv
<1>2. rpc \in Late => Settled' = Settled
  BY <1>1, SettledSame DEF parse_vars
<1>3. Removed' = Removed
  BY DEF Removed
<1>4. \A p \in promoted : p \in DOMAIN out /\ out[p] = DescribedFile(p)
  BY DEF OutputInv
<1> QED
  BY <1>1, <1>2, <1>3, <1>4, OutputKept

\* What is above a directory that is described is described.
LEMMA DirsAbove ==
    ASSUME ReaderInv, ClosingInv, rpc \in {"promote", "rename", "metadata"},
           NEW q \in DescribedDirs
    PROVE  /\ AndAncestors(q) \subseteq DescribedDirs
           /\ \A c \in SomePaths : IsPrefix(c, q) => c \in DescribedDirs
<1> DEFINE t == Tmp
<1>1. /\ \A p \in DOMAIN t : t[p].kind = "dir" => p \in DescribedDirs
      /\ Tree(t) /\ q \in SomePaths
  BY FileToPromote
<1>2. IsDir(t, q)
  BY DEF ClosingInv
<1> HIDE DEF t
<1>3. ASSUME NEW i \in 1..Len(q) PROVE SubSeq(q, 1, i) \in DescribedDirs
  <2>1. Len(q) \in Nat /\ SubSeq(q, 1, Len(q)) = q
    BY <1>1, ParentAbove
  <2>2. CASE i = Len(q)
    BY <2>1, <2>2
  <2>3. CASE i # Len(q)
    <3>1. i \in 1..(Len(q) - 1)
      <4>1. PICK n \in Nat : n = Len(q)
        BY <2>1
      <4>2. i \in 1..n /\ i # n
        BY <2>3, <4>1
      <4>3. i \in 1..(n - 1)
        BY <4>2
      <4> QED
        BY <4>1, <4>3
    <3>2. SubSeq(q, 1, i) \in DOMAIN t /\ t[SubSeq(q, 1, i)].kind = "dir"
      BY <1>1, <1>2, <3>1 DEF Tree, IsDir
    <3> QED
      BY <1>1, <3>2
  <2> QED
    BY <2>2, <2>3
<1>4. ASSUME NEW c \in SomePaths, IsPrefix(c, q) PROVE c \in DescribedDirs
  <2>1. Len(c) <= Len(q) /\ c = SubSeq(q, 1, Len(c)) /\ Len(c) \in Nat \ {0} /\ Len(q) \in Nat
    BY <1>1, <1>4, PrefixAbove, ParentAbove
  <2>2. Len(c) \in 1..Len(q)
    BY <2>1
  <2> QED
    BY <1>3, <2>1, <2>2
<1> QED
  BY <1>3, <1>4 DEF AndAncestors

\* ensure_dirs(): what it creates was not there before.
LEMMA OutputDir ==
    ASSUME ReaderInv, SettledInv, ClosingInv, OutputInv, [Next]_vars, NEW p \in todo, PromoteDir(p)
    PROVE  OutputInv'
<1>1. /\ rpc = "promote" /\ Tmp[p].kind = "dir" /\ rpc' \in Late
      /\ UNCHANGED <<before, dparams, intruders, parse_vars>>
  BY DEF PromoteDir, PromoteFails, Throw, Late
<1>2. CASE PromoteFails
  BY <1>1, <1>2, OutputSame DEF PromoteFails
<1>3. CASE /\ DirsPossible(out, p) /\ out' = MakeDirs(out, p)
           /\ UNCHANGED <<checked, promoted>>
  <2>1. UNCHANGED <<stream, header, cut>>
    BY <1>1, WriterDone DEF ReaderInv
  <2>2. Settled /\ Settled'
    BY <1>1, <2>1, SettledSame DEF SettledInv, parse_vars
  <2>3. p \in DescribedDirs /\ p \in SomePaths /\ p \in Seq(STRING)
    <3>1. p \in DOMAIN Tmp
      BY <1>1 DEF ReaderInv, PromoteInv
    <3> QED
      BY <1>1, <3>1, FileToPromote DEF SomePaths
  <2>4. /\ DOMAIN out' = DOMAIN out \cup AndAncestors(p)
        /\ \A q \in DOMAIN out : out'[q].kind = out[q].kind
        /\ \A q \in AndAncestors(p) : IsDir(out', q)
        /\ \A q \in DOMAIN out \ {<< >>} : out[q].kind # "dir" => out'[q] = out[q]
    BY <1>3, <2>3, MakeDirsAt
  <2>5. \A q \in DOMAIN out : out'[q].bytes = out[q].bytes
    BY <1>3, <2>3, BytesKept
  <2>6. AndAncestors(p) \subseteq DescribedDirs
    BY <1>1, <2>3, DirsAbove
  <2>7. Removed = promoted /\ Removed' = Removed
    <3>1. checked = << >>
      BY <1>1 DEF ReaderInv, PromoteInv
    <3> QED
      BY <1>3, <3>1 DEF Removed
  <2>8. promoted \subseteq Paths("File") /\ Paths("File") \cap DescribedDirs = {}
    BY <1>1 DEF ClosingInv
  <2>9. /\ \A q \in promoted : q \in DOMAIN out /\ out[q] = DescribedFile(q)
        /\ \A q \in DOMAIN before \ DOMAIN out : Replaceable(q)
    BY <1>1 DEF OutputInv
  <2>10. DOMAIN out \subseteq SomePaths
    BY DEF ReaderInv, OutInv, Tree, SomePaths
  <2>11. ASSUME NEW q \in DescribedDirs, q \notin DOMAIN out PROVE q \notin DOMAIN before
    <3> SUFFICES ASSUME q \in DOMAIN before PROVE FALSE
      OBVIOUS
    <3>1. PICK c \in promoted : IsPrefix(c, q)
      BY <2>7, <2>9, <2>11 DEF Replaceable
    <3>2. c \in SomePaths
      BY <2>9, <2>10
    <3>3. c \in DescribedDirs
      BY <1>1, <3>1, <3>2, DirsAbove
    <3> QED
      BY <2>8, <3>3
  <2>12. \A q \in DOMAIN out' :
              \/ q \in DOMAIN out /\ out'[q].kind = out[q].kind /\ out'[q].bytes = out[q].bytes
              \/ q \in DescribedDirs \ DOMAIN before /\ out'[q].kind = "dir"
    BY <2>4, <2>5, <2>6, <2>11 DEF IsDir
  <2>13. \A q : DescribedFile(q).kind = "file"
    BY DEF DescribedFile, Node
  <2>14. \A q \in promoted : q \in DOMAIN out' /\ out'[q] = DescribedFile(q)
    BY <2>4, <2>9, <2>10, <2>13 DEF SomePaths
  <2> QED
    BY <1>1, <1>3, <2>1, <2>2, <2>4, <2>7, <2>12, <2>14, OutputKept
<1> QED
  BY <1>2, <1>3 DEF PromoteDir

\* rename_into() removes what is in the way: nothing that was promoted.
LEMMA OutputCheck ==
    ASSUME ReaderInv, SettledInv, ClosingInv, OutputInv, [Next]_vars, NEW p \in todo,
           PromoteCheck(p)
    PROVE  OutputInv'
<1>1. /\ rpc = "promote" /\ Tmp[p].kind # "dir" /\ rpc' \in Late
      /\ UNCHANGED <<before, dparams, intruders, parse_vars>>
  BY DEF PromoteCheck, PromoteFails, Throw, Late
<1>2. CASE PromoteFails
  BY <1>1, <1>2, OutputSame DEF PromoteFails
<1>3. CASE /\ p \in DOMAIN out => MayReplace(p)
           /\ \/ out' = DropTree(out, p)
              \/ p \in DOMAIN out /\ out' = PartlyDropped(out, p)
           /\ checked' = <<p>> /\ promoted' = promoted
  <2>1. UNCHANGED <<stream, header, cut>>
    BY <1>1, WriterDone DEF ReaderInv
  <2>2. Settled' = Settled
    BY <1>1, <2>1, SettledSame DEF parse_vars
  <2>3. p \in Paths("File") \ promoted /\ p \in SomePaths
    <3>1. p \in DOMAIN Tmp
      BY <1>1 DEF ReaderInv, PromoteInv
    <3> QED
      BY <1>1, <3>1, FileToPromote
  <2>4. Tree(out) /\ DOMAIN out \subseteq SomePaths
    BY DEF ReaderInv, OutInv, Tree, SomePaths
  <2>5. /\ DOMAIN out' \subseteq DOMAIN out
        /\ \A q \in DOMAIN out \ DOMAIN out' : IsPrefix(p, q)
        /\ \A q \in DOMAIN out' : /\ out'[q].kind = out[q].kind /\ out'[q].bytes = out[q].bytes
                                  /\ q # Parent(p) => out'[q] = out[q]
    <3>1. CASE out' = DropTree(out, p)
      BY <2>3, <3>1, DropTreeAt, BytesKept
    <3>2. CASE out' = PartlyDropped(out, p)
      BY <3>2 DEF PartlyDropped, IsStrictPrefix
    <3> QED
      BY <1>3, <3>1, <3>2
  <2>6. Removed = promoted /\ Removed' = promoted \cup {p}
    <3>1. checked = << >>
      BY <1>1 DEF ReaderInv, PromoteInv
    <3>2. DOMAIN checked' = {1} /\ checked'[1] = p
      BY <1>3
    <3> QED
      BY <1>3, <3>1, <3>2 DEF Removed
  <2>7. promoted \subseteq Paths("File") /\ Paths("File") \cap DescribedDirs = {}
    BY <1>1 DEF ClosingInv
  <2>8. \A q \in promoted : q \in DOMAIN out /\ out[q] = DescribedFile(q)
    BY <1>1 DEF OutputInv
  <2>9. Parent(p) = << >> \/ Parent(p) \in DescribedDirs
    BY <2>3, <2>7, FilesApart
  <2>10. ASSUME NEW q \in promoted PROVE q \in DOMAIN out' /\ out'[q] = DescribedFile(q)
    <3>1. q \in SomePaths /\ q \in Paths("File") /\ q # p /\ q \in DOMAIN out
      BY <2>3, <2>4, <2>7, <2>8
    <3>2. ~IsPrefix(p, q)
      BY <2>3, <2>7, <3>1, FilesApart
    <3>3. q # Parent(p)
      BY <2>7, <2>9, <3>1 DEF SomePaths
    <3> QED
      BY <2>5, <2>8, <3>1, <3>2, <3>3
  <2>11. ASSUME NEW q \in DOMAIN out, q \notin DOMAIN out' PROVE dparams.overwrite
    <3>1. IsPrefix(p, q) /\ q \in SomePaths
      BY <2>4, <2>5, <2>11
    <3>2. p \in DOMAIN out
      <4>1. q # p => IsStrictPrefix(p, q)
        BY <3>1 DEF IsStrictPrefix
      <4>2. q # p => IsDir(out, p)
        BY <2>3, <2>4, <4>1, TreeAbove
      <4> QED
        BY <4>2 DEF IsDir
    <3> QED
      BY <1>3, <3>2 DEF MayReplace
  <2>12. \A q \in DOMAIN before : q \in DOMAIN out /\ q \notin DOMAIN out' =>
               dparams.overwrite /\ \E c \in Removed' : IsPrefix(c, q)
    BY <2>5, <2>6, <2>11
  <2> QED
    BY <1>1, <1>3, <2>1, <2>2, <2>5, <2>6, <2>10, <2>12, OutputKept
<1> QED
  BY <1>2, <1>3 DEF PromoteCheck, PartlyDropped

\* rename_into() puts the file there.
LEMMA OutputRename ==
    ASSUME ReaderInv, SettledInv, ClosingInv, OutputInv, [Next]_vars, PromoteRename
    PROVE  OutputInv'
<1>1. /\ rpc = "rename" /\ UNCHANGED <<before, dparams, intruders, parse_vars>> /\ rpc' \in Late
  BY DEF PromoteRename, PromoteFails, Throw, Late
<1>2. CASE PromoteFails
  BY <1>1, <1>2, OutputSame DEF PromoteFails
<1>3. CASE ~PromoteFails
  <2>1. UNCHANGED <<stream, header, cut>>
    BY <1>1, WriterDone DEF ReaderInv
  <2>2. Settled' = Settled
    BY <1>1, <2>1, SettledSame DEF parse_vars
  <2>3. PICK c : c = checked[1]
    OBVIOUS
  <2>4. out' = PutNode(out, c, Tmp[c]) /\ promoted' = promoted \cup {c} /\ checked' = << >>
    BY <1>3, <2>3 DEF PromoteRename
  <2>5. c \in SomePaths /\ c \in Paths("File") /\ Tmp[c] = DescribedFile(c)
    <3>1. c \in DOMAIN Tmp /\ c \in SomePaths /\ ~IsDir(Tmp, c)
      BY <1>1, <2>3, RenameParent
    <3> QED
      BY <1>1, <3>1, FileToPromote DEF IsDir
  <2>6. DOMAIN out \subseteq SomePaths
    BY DEF ReaderInv, OutInv, Tree, SomePaths
  <2>7. /\ \A q : q \in DOMAIN out' <=> q = c \/ q \in DOMAIN out
        /\ out'[c] = DescribedFile(c)
        /\ \A q \in DOMAIN out : q # c => /\ out'[q].kind = out[q].kind
                                          /\ q # Parent(c) => out'[q] = out[q]
    <3>1. PICK n : n = DescribedFile(c)
      OBVIOUS
    <3>2. out' = PutNode(out, c, n)
      BY <2>4, <2>5, <3>1
    <3> QED
      BY <2>5, <3>1, <3>2, PutNodeAt
  <2>8. \A q \in DOMAIN out : q # c => out'[q].bytes = out[q].bytes
    BY <2>4, <2>5, BytesKept
  <2>9. Removed' = Removed
    <3>1. checked = <<c>>
      BY <1>1, <2>3 DEF ReaderInv, PromoteInv
    <3>2. DOMAIN checked = {1} /\ checked[1] = c /\ DOMAIN checked' = {}
      BY <2>4, <3>1
    <3> QED
      BY <2>4, <3>2 DEF Removed
  <2>10. promoted \subseteq Paths("File") /\ Paths("File") \cap DescribedDirs = {}
    BY <1>1 DEF ClosingInv
  <2>11. \A q \in promoted : q \in DOMAIN out /\ out[q] = DescribedFile(q)
    BY <1>1 DEF OutputInv
  <2>12. Parent(c) = << >> \/ Parent(c) \in DescribedDirs
    BY <2>5, <2>10, FilesApart
  <2>13. ASSUME NEW q \in promoted' PROVE q \in DOMAIN out' /\ out'[q] = DescribedFile(q)
    <3>1. CASE q = c
      BY <2>7, <3>1
    <3>2. CASE q # c
      <4>1. q \in promoted /\ q \in DOMAIN out /\ q \in SomePaths /\ q \in Paths("File")
        BY <2>4, <2>6, <2>10, <2>11, <3>2
      <4>2. q # Parent(c)
        BY <2>10, <2>12, <4>1 DEF SomePaths
      <4> QED
        BY <2>7, <2>11, <3>2, <4>1, <4>2
    <3> QED
      BY <3>1, <3>2
  <2>14. c \in promoted'
    BY <2>4
  <2> QED
    BY <1>1, <2>1, <2>2, <2>4, <2>7, <2>8, <2>9, <2>13, <2>14, OutputKept
<1> QED
  BY <1>2, <1>3

\* Another process creates a file: it touches a directory.
LEMMA OutputIntruded ==
    ASSUME ReaderInv, OutputInv, [Next]_vars, NEW p \in IntruderPaths, Intrude(p)
    PROVE  OutputInv'
<1>1. /\ rpc \notin {"idle", "refused"} /\ rpc' = rpc /\ p \notin DOMAIN out
      /\ Len(p) > 1 => Parent(p) \in DOMAIN out /\ out[Parent(p)].kind = "dir"
      /\ out' = PutNode(out, p, Node("file", <<8>>, 7)) /\ intruders = {} /\ intruders' = {p}
      /\ UNCHANGED <<before, dparams, promoted, checked, parse_vars>>
  BY DEF Intrude, tree_vars
<1>2. p \in SomePaths
  BY OutputsAssumption DEF SomePaths
<1>3. UNCHANGED <<stream, header, cut>>
  BY <1>1, WriterDone DEF ReaderInv
<1>4. Settled' = Settled
  BY <1>1, <1>3, SettledSame DEF parse_vars
<1>5. Removed' = Removed
  BY <1>1 DEF Removed
<1>6. PICK n : out' = PutNode(out, p, n)
  BY <1>1
<1>7. /\ \A q : q \in DOMAIN out' <=> q = p \/ q \in DOMAIN out
      /\ \A q \in DOMAIN out : q # p => /\ out'[q].kind = out[q].kind
                                        /\ q # Parent(p) => out'[q] = out[q]
  <2>1. /\ \A q : q \in DOMAIN PutNode(out, p, n) <=> q = p \/ q \in DOMAIN out
        /\ \A q \in DOMAIN out : q # p =>
              /\ PutNode(out, p, n)[q].kind = out[q].kind
              /\ q # Parent(p) => PutNode(out, p, n)[q] = out[q]
    BY <1>2, PutNodeAt
  <2> QED
    BY <1>6, <2>1
<1>8. \A q \in DOMAIN out : q # p => out'[q].bytes = out[q].bytes
  BY <1>2, <1>6, BytesKept
<1>9. \A q \in promoted : q \in DOMAIN out /\ out[q] = DescribedFile(q)
  BY <1>1 DEF OutputInv
<1>10. DOMAIN out \subseteq SomePaths
  BY DEF ReaderInv, OutInv, Tree, SomePaths
<1>11. ASSUME NEW q \in promoted PROVE q \in DOMAIN out' /\ out'[q] = DescribedFile(q)
  <2>1. out[q].kind = "file" /\ q \in DOMAIN out /\ q \in SomePaths
    <3>1. DescribedFile(q).kind = "file"
      BY DEF DescribedFile, Node
    <3> QED
      BY <1>9, <1>10, <3>1
  <2>2. q # Parent(p)
    <3>1. Len(p) > 1 \/ Parent(p) = << >>
      BY <1>2, ParentAbove
    <3> QED
      BY <1>1, <2>1, <3>1 DEF SomePaths
  <2> QED
    BY <1>1, <1>7, <1>9, <2>1, <2>2
<1> QED
  BY <1>1, <1>3, <1>4, <1>5, <1>7, <1>8, <1>11, OutputKept

\* The metadata of a directory is no file's.
LEMMA OutputMetadata ==
    ASSUME ReaderInv, SettledInv, ClosingInv, OutputInv, [Next]_vars, NEW m \in deferred,
           ApplyMetadata(m)
    PROVE  OutputInv'
<1>1. /\ rpc = "metadata" /\ rpc' \in Late
      /\ UNCHANGED <<before, dparams, intruders, promoted, checked, parse_vars>>
  BY DEF ApplyMetadata, Throw, Late
<1>2. CASE out' = out
  BY <1>1, <1>2, OutputSame
<1>3. CASE out' = [q \in DOMAIN out |-> IF q = NormalPath(m.path)
                                        THEN Node(out[q].kind, out[q].bytes, m.mtime)
                                        ELSE out[q]]
  <2>1. UNCHANGED <<stream, header, cut>>
    BY <1>1, WriterDone DEF ReaderInv
  <2>2. Settled' = Settled
    BY <1>1, <2>1, SettledSame DEF parse_vars
  <2>3. Removed' = Removed
    BY <1>1 DEF Removed
  <2>4. /\ DOMAIN out' = DOMAIN out
        /\ \A q \in DOMAIN out : /\ out'[q].kind = out[q].kind /\ out'[q].bytes = out[q].bytes
                                 /\ q # NormalPath(m.path) => out'[q] = out[q]
    BY <1>3 DEF Node
  <2>5. NormalPath(m.path) = << >> \/ NormalPath(m.path) \in DescribedDirs
    <3>1. NormalPath(m.path) = << >> \/ IsDir(Tmp, NormalPath(m.path))
      BY <1>1 DEF ReaderInv, TempInv
    <3> QED
      BY <1>1, <3>1, FileToPromote DEF IsDir
  <2>6. promoted \subseteq Paths("File") /\ Paths("File") \cap DescribedDirs = {}
    BY <1>1 DEF ClosingInv
  <2>7. \A q \in promoted : q \in DOMAIN out /\ out[q] = DescribedFile(q)
    BY <1>1 DEF OutputInv
  <2>8. << >> \notin DOMAIN out
    BY DEF ReaderInv, OutInv, Tree
  <2>9. \A q \in promoted : q \in DOMAIN out' /\ out'[q] = DescribedFile(q)
    BY <2>4, <2>5, <2>6, <2>7, <2>8
  <2> QED
    BY <1>1, <2>1, <2>2, <2>3, <2>4, <2>9, OutputKept
<1> QED
  BY <1>2, <1>3 DEF ApplyMetadata

\* The output, action by action.
LEMMA OutputStep ==
    ReaderInv /\ SettledInv /\ ClosingInv /\ OutputInv /\ [Next]_vars => OutputInv'
<1> SUFFICES ASSUME ReaderInv, SettledInv, ClosingInv, OutputInv, [Next]_vars PROVE OutputInv'
  OBVIOUS
<1>1. CASE UNCHANGED rvars
  <2>1. CASE rpc \in {"idle", "refused"}
    BY <1>1, <2>1 DEF OutputInv, rvars
  <2>2. CASE rpc \notin {"idle", "refused"}
    BY <1>1, <2>2, OutputSame DEF rvars, tree_vars, out_vars, seen_vars
  <2> QED
    BY <2>1, <2>2
<1>2. ASSUME NEW o \in Outputs, NEW dp \in DecryptParams, OpenDecrypt(o, dp) PROVE OutputInv'
  <2>1. rpc = "idle" /\ out' = before' /\ promoted' = promoted
    BY <1>2 DEF OpenDecrypt
  <2>2. promoted' = {}
    BY <2>1 DEF SettledInv, Late
  <2>3. \A p \in DOMAIN out' : KeptAt(p)'
    BY <2>1 DEF KeptAt
  <2> QED
    BY <2>1, <2>2, <2>3 DEF OutputInv
<1>3. CASE Discover \/ Construct \/ Consume \/ NeedMore \/ ProcessRecord \/ Finish
  <2>1. rpc \in {"discover", "construct", "feed", "parse"}
    BY <1>3 DEF Discover, Construct, Consume, NeedMore, ProcessRecord, BeginArchive,
       CreateDirectory, BeginFile, WriteFileBytes, EndFile, EndArchive, SkipPadding,
       RejectRecord, Process, Finish
  <2>2. UNCHANGED <<before, dparams, intruders, promoted, out, checked>>
    BY <1>3 DEF Discover, Construct, Consume, NeedMore, ProcessRecord, BeginArchive,
       CreateDirectory, BeginFile, WriteFileBytes, EndFile, EndArchive, SkipPadding,
       RejectRecord, Process, Finish, tree_vars, out_vars, seen_vars
  <2> QED
    BY <2>1, <2>2, OutputSame DEF Late
<1>4. CASE PromoteEnd \/ FinishCleanup \/ Unwind \/ Catch
  <2>1. /\ rpc \notin {"idle", "refused"} /\ rpc' \in Late /\ UNCHANGED parse_vars
        /\ UNCHANGED <<before, dparams, intruders, promoted, out, checked>>
    BY <1>4 DEF PromoteEnd, FinishCleanup, Unwind, Catch, Throw, Late, tree_vars, out_vars
  <2> QED
    BY <2>1, OutputSame
<1> QED
  BY <1>1, <1>2, <1>3, <1>4, OutputDir, OutputCheck, OutputRename, OutputMetadata,
     OutputIntruded DEF Next, vars, Decrypt

\* What the reader makes of the stream: the inductive invariant.
ExtractInv == ParseInv /\ SettledInv /\ ClosingInv /\ OutputInv

\* It holds throughout.
LEMMA ExtractInvariant == Spec => []ExtractInv
<1>1. Init => ExtractInv
  <2> SUFFICES ASSUME Init PROVE ExtractInv
    OBVIOUS
  <2>1. ReaderInit
    BY DEF Init
  <2> QED
    BY <2>1 DEF ReaderInit, ExtractInv, ParseInv, SettledInv, ClosingInv, OutputInv, Late
<1>2. ReaderInv /\ ExtractInv /\ [Next]_vars => ExtractInv'
  BY ParseStep, SettledStep, ClosingStep, OutputStep DEF ExtractInv
<1> QED
  BY <1>1, <1>2, ReaderInvariant, PTL DEF Spec

\* At any moment, after a failure at any point, whatever the archive is and
\* whatever another process does, a path of the output holds what it held
\* before or the archive's complete entry, nothing is lost that was not to be
\* replaced, and nothing of an archive appears before all of it has been read.
THEOREM OutputAlwaysConsistent == Spec => []OutputConsistent
<1>1. SettledInv /\ OutputInv => OutputConsistent
  <2> SUFFICES ASSUME SettledInv, OutputInv, rpc \notin {"idle", "refused"} PROVE OutputConsistent
    BY DEF OutputConsistent
  <2>1. \A p \in DOMAIN before \ DOMAIN out : Replaceable(p)
    BY DEF OutputInv
  <2>2. ASSUME NEW p \in DOMAIN out \ intruders
        PROVE  \/ KeptAt(p)
               \/ /\ Settled
                  /\ IF p \in promoted THEN out[p] = DescribedFile(p)
                     ELSE p \in DescribedDirs \ DOMAIN before /\ out[p].kind = "dir"
    <3>1. CASE p \in promoted
      BY <3>1 DEF OutputInv, SettledInv
    <3>2. CASE p \notin promoted
      BY <3>2 DEF OutputInv
    <3> QED
      BY <3>1, <3>2
  <2> QED
    BY <2>1, <2>2 DEF OutputConsistent, KeptAt, Settled
<1> QED
  BY <1>1, ExtractInvariant, PTL DEF ExtractInv

\* Decryption reports success only for an archive of the format, complete to
\* its last byte, and then the output holds exactly what its records say:
\* every file with its last content and time, every directory, and nothing else
\* that was not there before.
THEOREM SuccessAlwaysExact == Spec => []SuccessIsExact
<1>1. SettledInv /\ ClosingInv /\ OutputInv => SuccessIsExact
  <2> SUFFICES ASSUME SettledInv, ClosingInv, OutputInv, rpc = "success" PROVE SuccessIsExact
    BY DEF SuccessIsExact
  <2>1. /\ WellFormed /\ cut = 0 /\ Paths("File") = promoted
        /\ \A p \in DescribedDirs : IsDir(out, p)
    BY DEF ClosingInv
  <2>2. /\ \A p \in promoted : p \in DOMAIN out /\ out[p] = DescribedFile(p)
        /\ \A p \in DOMAIN out \ (intruders \cup promoted) :
              KeptAt(p) \/ p \in DescribedDirs
    BY DEF OutputInv
  <2>3. \A p \in DOMAIN out : \/ p \in Paths("File") \cup DescribedDirs \cup intruders
                              \/ p \in DOMAIN before /\ out[p].kind = before[p].kind
    BY <2>1, <2>2 DEF KeptAt
  <2> QED
    BY <2>1, <2>2, <2>3 DEF SuccessIsExact, IsDir
<1> QED
  BY <1>1, ExtractInvariant, PTL DEF ExtractInv


----------------------------------------------------------------------------
\* What the writer has emitted comes from the input: the records of its
\* directories and files, the whole content of a file that is ended, the part
\* that was read of the open one, and the first n entries of the walk.
OfInput(r, inp) ==
    r.type \in {"Dir", "File"} =>
        /\ r.body.path \in DOMAIN inp /\ r.body.mtime = inp[r.body.path].mtime
        /\ inp[r.body.path].kind = IF r.type = "Dir" THEN "dir" ELSE "file"
FromInput(s, inp) ==
    \A i \in DOMAIN s : OfInput(s[i], inp)
WholeFiles(s, inp) ==
    \A i \in DOMAIN s : s[i].type = "File" =>
        \A e \in (i + 1)..Len(s) : s[e].type = "FileEnd" /\ ~EndsBy(s, i, e - 1) =>
            BytesBetween(s, i, e - 1) = inp[s[i].body.path].bytes
PartOf(s, inp, rd) ==
    \A i \in DOMAIN s : s[i].type = "File" /\ ~EndsBy(s, i, Len(s)) =>
        /\ rd # << >> /\ rd[1].path = s[i].body.path
        /\ BytesBetween(s, i, Len(s)) = SubSeq(inp[rd[1].path].bytes, 1, rd[1].read)
Listed(s, es, n) ==
    \A k \in 1..n : es[k].type # "special" =>
        \E i \in DOMAIN s : /\ s[i].type = IF es[k].type = "dir" THEN "Dir" ELSE "File"
                            /\ s[i].body.path = es[k].path

\* Equal records have equal bytes.
LEMMA BytesSame ==
    ASSUME NEW s, NEW t, NEW i \in Nat, NEW n \in Nat, i <= n, \A k \in 1..n : s[k] = t[k]
    PROVE  BytesBetween(s, i, n) = BytesBetween(t, i, n)
<1> DEFINE T == {k \in Nat : i + k <= n => BytesBetween(s, i, i + k) = BytesBetween(t, i, i + k)}
<1>1. 0 \in T
  <2>1. BytesBetween(s, i, i) = << >> /\ BytesBetween(t, i, i) = << >>
    BY BytesStep
  <2>2. i + 0 = i
    OBVIOUS
  <2> QED
    BY <2>1, <2>2
<1>2. ASSUME NEW k \in Nat, k \in T PROVE k + 1 \in T
  <2> SUFFICES ASSUME i + (k + 1) <= n
               PROVE  BytesBetween(s, i, i + (k + 1)) = BytesBetween(t, i, i + (k + 1))
    OBVIOUS
  <2>1. PICK m \in Nat : m = i + k
    OBVIOUS
  <2>2. i <= m /\ m <= n /\ i + (k + 1) = m + 1 /\ m + 1 \in 1..n
    BY <2>1
  <2>3. BytesBetween(s, i, m) = BytesBetween(t, i, m)
    BY <1>2, <2>1, <2>2
  <2>4. s[m + 1] = t[m + 1]
    BY <2>2
  <2>5. /\ s[m + 1].type = "Bytes" =>
             BytesBetween(s, i, m + 1) = BytesBetween(s, i, m) \o s[m + 1].body
        /\ s[m + 1].type # "Bytes" => BytesBetween(s, i, m + 1) = BytesBetween(s, i, m)
    BY <2>2, BytesStep
  <2>6. /\ t[m + 1].type = "Bytes" =>
             BytesBetween(t, i, m + 1) = BytesBetween(t, i, m) \o t[m + 1].body
        /\ t[m + 1].type # "Bytes" => BytesBetween(t, i, m + 1) = BytesBetween(t, i, m)
    BY <2>2, BytesStep
  <2>7. BytesBetween(s, i, m + 1) = BytesBetween(t, i, m + 1)
    BY <2>3, <2>4, <2>5, <2>6
  <2> QED
    BY <2>2, <2>7
<1> HIDE DEF T
<1>3. Nat \subseteq T
  BY <1>1, <1>2, NatInd
<1>4. n - i \in T /\ i + (n - i) = n
  BY <1>3
<1> QED
  BY <1>4 DEF T

\* A record more leaves what the others say.
LEMMA AppendedStream ==
    ASSUME NEW s \in Seq(Records), NEW r \in Records
    PROVE  LET t == Append(s, r)
               n == Len(s)
           IN  /\ n \in Nat /\ Len(t) = n + 1 /\ DOMAIN s = 1..n /\ DOMAIN t = 1..(n + 1)
               /\ \A i \in 1..n : t[i] = s[i]
               /\ t[n + 1] = r
               /\ \A i \in 1..n : \A j \in i..n : /\ EndsBy(t, i, j) <=> EndsBy(s, i, j)
                                                  /\ BytesBetween(t, i, j) = BytesBetween(s, i, j)
<1>1. PICK t : t = Append(s, r)
  OBVIOUS
<1>2. PICK n \in Nat : n = Len(s) /\ DOMAIN s = 1..n
  BY LenProperties
<1>3. Len(t) = n + 1 /\ (\A i \in 1..n : t[i] = s[i]) /\ t[n + 1] = r /\ DOMAIN t = 1..(n + 1)
  BY <1>1, <1>2, AppendProperties, LenProperties
<1>4. ASSUME NEW i \in 1..n, NEW j \in i..n
      PROVE  EndsBy(t, i, j) <=> EndsBy(s, i, j)
  BY <1>3 DEF EndsBy
<1>5. ASSUME NEW i \in 1..n, NEW j \in i..n
      PROVE  BytesBetween(t, i, j) = BytesBetween(s, i, j)
  BY <1>3, BytesSame
<1> QED
  BY <1>1, <1>2, <1>3, <1>4, <1>5

\* How far the open file is read after a record.
ReadsOn(r, inp, rd, rd2) ==
    \/ r.type \notin {"File", "Bytes", "FileEnd"} /\ rd2 = rd
    \/ /\ r.type = "File" /\ rd = << >>
       /\ rd2 # << >> /\ rd2[1].path = r.body.path /\ rd2[1].read = 0
    \/ /\ r.type = "Bytes" /\ rd # << >> /\ rd2 # << >> /\ rd2[1].path = rd[1].path
       /\ SubSeq(inp[rd[1].path].bytes, 1, rd2[1].read)
             = SubSeq(inp[rd[1].path].bytes, 1, rd[1].read) \o r.body
    \/ /\ r.type = "FileEnd" /\ rd # << >>
       /\ SubSeq(inp[rd[1].path].bytes, 1, rd[1].read) = inp[rd[1].path].bytes

\* One record more of the input, and how far the open file is read then.
LEMMA SourceAppend ==
    ASSUME NEW s \in Seq(Records), NEW r \in Records, NEW inp, NEW rd, NEW rd2,
           FromInput(s, inp), WholeFiles(s, inp), PartOf(s, inp, rd),
           OfInput(r, inp), ReadsOn(r, inp, rd, rd2)
    PROVE  /\ FromInput(Append(s, r), inp) /\ WholeFiles(Append(s, r), inp)
           /\ PartOf(Append(s, r), inp, rd2)
<1>1. PICK t : t = Append(s, r)
  OBVIOUS
<1>2. PICK n : n = Len(s)
  OBVIOUS
<1>3. /\ n \in Nat /\ Len(t) = n + 1 /\ DOMAIN s = 1..n /\ DOMAIN t = 1..(n + 1)
      /\ \A i \in 1..n : t[i] = s[i]
      /\ t[n + 1] = r
  BY <1>1, <1>2, AppendedStream
<1>11. \A i \in 1..n : \A j \in i..n : /\ EndsBy(t, i, j) <=> EndsBy(s, i, j)
                                       /\ BytesBetween(t, i, j) = BytesBetween(s, i, j)
  BY <1>1, <1>2, AppendedStream
<1>4. FromInput(t, inp)
  BY <1>3 DEF FromInput
<1>5. \A i \in 1..n : s[i].type = "File" /\ ~EndsBy(s, i, n) =>
         /\ rd # << >> /\ rd[1].path = s[i].body.path
         /\ BytesBetween(s, i, n) = SubSeq(inp[rd[1].path].bytes, 1, rd[1].read)
  BY <1>2, <1>3 DEF PartOf
<1>6. \A i \in 1..n : /\ EndsBy(t, i, n) <=> EndsBy(s, i, n)
                      /\ BytesBetween(t, i, n) = BytesBetween(s, i, n)
  BY <1>3, <1>11
<1>7. ASSUME NEW i \in 1..n
      PROVE  /\ EndsBy(t, i, n + 1) <=> EndsBy(t, i, n) \/ r.type = "FileEnd"
             /\ r.type = "Bytes" => BytesBetween(t, i, n + 1) = BytesBetween(t, i, n) \o r.body
             /\ r.type # "Bytes" => BytesBetween(t, i, n + 1) = BytesBetween(t, i, n)
  <2>1. i \in Nat /\ i <= n
    BY <1>3
  <2>2. EndsBy(t, i, n + 1) <=> EndsBy(t, i, n) \/ t[n + 1].type = "FileEnd"
    BY <1>3, <2>1, EndsNext
  <2>3. /\ t[n + 1].type = "Bytes" =>
             BytesBetween(t, i, n + 1) = BytesBetween(t, i, n) \o t[n + 1].body
        /\ t[n + 1].type # "Bytes" => BytesBetween(t, i, n + 1) = BytesBetween(t, i, n)
    BY <1>3, <2>1, BytesStep
  <2> QED
    BY <1>3, <2>2, <2>3
<1>8. WholeFiles(t, inp)
  <2> SUFFICES ASSUME NEW i \in 1..(n + 1), t[i].type = "File", NEW e \in (i + 1)..(n + 1),
                      t[e].type = "FileEnd", ~EndsBy(t, i, e - 1)
               PROVE  BytesBetween(t, i, e - 1) = inp[t[i].body.path].bytes
    BY <1>3 DEF WholeFiles
  <2>1. i \in 1..n /\ e - 1 \in i..n /\ t[i] = s[i]
    BY <1>3
  <2>2. ~EndsBy(s, i, e - 1) /\ BytesBetween(t, i, e - 1) = BytesBetween(s, i, e - 1)
    BY <1>11, <2>1
  <2>3. CASE e <= n
    <3>1. e \in (i + 1)..n /\ e \in 1..n
      BY <1>3, <2>1, <2>3
    <3>2. s[e].type = "FileEnd"
      BY <1>3, <3>1
    <3> QED
      BY <1>2, <1>3, <2>1, <2>2, <3>1, <3>2 DEF WholeFiles
  <2>4. CASE e = n + 1
    <3>1. e - 1 = n /\ r.type = "FileEnd"
      BY <1>3, <2>4
    <3>2. /\ rd[1].path = s[i].body.path
          /\ BytesBetween(s, i, n) = SubSeq(inp[rd[1].path].bytes, 1, rd[1].read)
      BY <1>5, <2>1, <2>2, <3>1
    <3>3. SubSeq(inp[rd[1].path].bytes, 1, rd[1].read) = inp[rd[1].path].bytes
      BY <3>1 DEF ReadsOn
    <3> QED
      BY <2>1, <2>2, <3>1, <3>2, <3>3
  <2> QED
    BY <1>3, <2>3, <2>4
<1>9. PartOf(t, inp, rd2)
  <2> SUFFICES ASSUME NEW i \in 1..(n + 1), t[i].type = "File", ~EndsBy(t, i, n + 1)
               PROVE  /\ rd2 # << >> /\ rd2[1].path = t[i].body.path
                      /\ BytesBetween(t, i, n + 1) = SubSeq(inp[rd2[1].path].bytes, 1, rd2[1].read)
    BY <1>3 DEF PartOf
  <2>1. CASE i = n + 1
    <3>1. /\ r.type = "File" /\ rd2 # << >> /\ rd2[1].path = r.body.path /\ rd2[1].read = 0
          /\ t[i] = r
      BY <1>3, <2>1 DEF ReadsOn
    <3>2. BytesBetween(t, i, n + 1) = << >>
      BY <1>3, <2>1, BytesStep
    <3>3. SubSeq(inp[rd2[1].path].bytes, 1, 0) = << >>
      BY SubSeqEmpty, 1 \in Int, 0 \in Int, 0 < 1
    <3> QED
      BY <3>1, <3>2, <3>3
  <2>2. CASE i <= n
    <3>1. /\ i \in 1..n /\ t[i] = s[i] /\ ~EndsBy(s, i, n) /\ r.type # "FileEnd"
          /\ BytesBetween(t, i, n) = BytesBetween(s, i, n)
      BY <1>3, <1>6, <1>7, <2>2
    <3>2. /\ rd # << >> /\ rd[1].path = s[i].body.path
          /\ BytesBetween(s, i, n) = SubSeq(inp[rd[1].path].bytes, 1, rd[1].read)
      BY <1>5, <3>1
    <3>3. CASE r.type # "Bytes"
      <4>1. rd2 = rd
        BY <3>2, <3>1, <3>3 DEF ReadsOn
      <4>2. BytesBetween(t, i, n + 1) = BytesBetween(t, i, n)
        BY <1>7, <3>1, <3>3
      <4> QED
        BY <3>1, <3>2, <4>1, <4>2
    <3>4. CASE r.type = "Bytes"
      <4>1. /\ rd2 # << >> /\ rd2[1].path = rd[1].path
            /\ SubSeq(inp[rd[1].path].bytes, 1, rd2[1].read)
                  = SubSeq(inp[rd[1].path].bytes, 1, rd[1].read) \o r.body
        BY <3>4 DEF ReadsOn
      <4>2. BytesBetween(t, i, n + 1) = BytesBetween(t, i, n) \o r.body
        BY <1>7, <3>1, <3>4
      <4> QED
        BY <3>1, <3>2, <4>1, <4>2
    <3> QED
      BY <3>3, <3>4
  <2> QED
    BY <1>3, <2>1, <2>2
<1> QED
  BY <1>1, <1>4, <1>8, <1>9

\* The list is what the walk has seen: its sequence is as long as there are
\* entries and none comes twice.
LEMMA WalkComplete ==
    ASSUME WriterTyped, input \in Trees, NEW S \in SUBSET Walkable, Lists(S)
    PROVE  Listing' = S
<1> DEFINE kept == {i \in DOMAIN PathOrder : PathOrder[i] \in S}
           e(i) == [path |-> PathOrder[i], type |-> input[PathOrder[i]].kind]
<1>1. PICK s \in [1..Cardinality(kept) -> kept] :
          /\ \A i, j \in DOMAIN s : i < j => s[i] < s[j]
          /\ entries' = [i \in DOMAIN s |-> e(s[i])]
  BY DEF Lists
<1>2. Len(PathOrder) \in Nat /\ DOMAIN PathOrder = 1..Len(PathOrder)
  BY TreesAssumption, LenProperties
<1>3. IsFiniteSet(kept)
  <2>1. IsFiniteSet(1..Len(PathOrder))
    BY <1>2, FS_Interval, 1 \in Int, Len(PathOrder) \in Int
  <2> QED
    BY <1>2, <2>1, FS_Subset
<1>4. Cardinality(kept) \in Nat
  BY <1>3, FS_CardinalityType
<1>5. kept \subseteq Nat
  BY <1>2
<1>6. ASSUME NEW p \in S PROVE \E i \in kept : PathOrder[i] = p
  <2>1. \E i \in DOMAIN PathOrder : PathOrder[i] = p
    BY TreesAssumption DEF Walkable
  <2> QED
    BY <1>6, <2>1
<1> HIDE DEF kept
<1>7. PICK c \in Nat : c = Cardinality(kept)
  BY <1>4
<1>8. s \in Injection(1..c, kept)
  <2>1. ASSUME NEW i \in 1..c, NEW j \in 1..c, s[i] = s[j] PROVE i = j
    <3>1. i < j => s[i] < s[j]
      BY <1>1, <1>7
    <3>2. j < i => s[j] < s[i]
      BY <1>1, <1>7
    <3>3. s[i] \in Nat /\ s[j] \in Nat
      BY <1>1, <1>5, <1>7
    <3> QED
      BY <2>1, <3>1, <3>2, <3>3
  <2> QED
    BY <1>1, <1>7, <2>1 DEF Injection, IsInjective
<1>9. Cardinality(1..c) = c
  BY FS_Interval, 1 \in Int, c \in Int
<1>10. s \in Surjection(1..c, kept)
  BY <1>3, <1>7, <1>8, <1>9, FS_Injection
<1>11. \A i \in kept : \E k \in 1..c : s[k] = i
  BY <1>10 DEF Surjection
<1>12. ASSUME NEW p \in S
       PROVE  \E k \in DOMAIN entries' : entries'[k].path = p
  <2>1. PICK i \in kept : PathOrder[i] = p
    BY <1>6, <1>12
  <2>2. PICK k \in 1..c : s[k] = i
    BY <1>11
  <2>3. k \in DOMAIN entries' /\ entries'[k] = e(s[k])
    BY <1>1, <1>7, <2>2
  <2> QED
    BY <2>1, <2>2, <2>3
<1>13. \A k \in DOMAIN entries' : entries'[k].path \in S
  BY WalkEntries
<1> QED
  BY <1>12, <1>13 DEF Listing

\* The list and what is seen do not change unless input or entries do.
LEMMA ListingKept ==
    ASSUME UNCHANGED <<input, entries>>
    PROVE  Listing' = Listing /\ (CanSee(Listing)' <=> CanSee(Listing))
<1>1. Listing' = Listing /\ Walkable' = Walkable
  BY DEF Listing, Walkable
<1>2. HalfSeen(Listing)' = HalfSeen(Listing)
  BY <1>1 DEF HalfSeen
<1> QED
  BY <1>1, <1>2 DEF CanSee

\* What is read follows what was read.
LEMMA ReadAdds ==
    ASSUME WriterTyped, NEW f \in Files, f.path \in DOMAIN input, NextBytes(f) # << >>
    PROVE  LET b == input[f.path].bytes IN
           SubSeq(b, 1, f.read + Len(NextBytes(f))) = SubSeq(b, 1, f.read) \o NextBytes(f)
<1>1. PICK b : b = input[f.path].bytes
  OBVIOUS
<1>2. b \in Seq(Nat) /\ Len(b) \in Nat
  BY <1>1, NodeFields DEF WriterTyped
<1>3. PICK n \in Nat : n = Len(b)
  BY <1>2
<1>4. PICK p \in Nat \ {0} : p = PayloadSize
  BY PayloadPositive DEF WriterTyped
<1>5. PICK r \in Nat : r = f.read
  BY DEF Files
<1>6. PICK l \in Nat : l = Len(NextBytes(f))
  BY BytesRead
<1>7. /\ l = IF r >= n THEN 0 ELSE IF r + p <= n THEN p ELSE n - r
      /\ l # 0
  BY <1>1, <1>3, <1>4, <1>5, <1>6, BytesRead
<1>8. NextBytes(f) = SubSeq(b, r + 1, r + l)
  <2>1. NextBytes(f) = SubSeq(b, r + 1, Min({r + p, n}))
    BY <1>1, <1>3, <1>4, <1>5 DEF NextBytes
  <2>2. Min({r + p, n}) = IF r + p <= n THEN r + p ELSE n
    BY MinOfTwo, r + p \in Nat
  <2>3. Min({r + p, n}) = r + l
    BY <1>7, <2>2
  <2> QED
    BY <2>1, <2>3
<1>9. r \in (1 - 1)..n /\ r + l \in r..n /\ 1 \in 1..(n + 1)
  BY <1>7
<1>10. SubSeq(b, 1, r) \o SubSeq(b, r + 1, r + l) = SubSeq(b, 1, r + l)
  BY <1>2, <1>3, <1>9, ConcatAdjacentSubSeq
<1> QED
  BY <1>1, <1>5, <1>6, <1>8, <1>10

\* The entries listed stay listed, and so does a new one.
LEMMA ListedMore ==
    ASSUME NEW s \in Seq(Records), NEW r \in Records, NEW es, NEW n \in Nat, Listed(s, es, n)
    PROVE  /\ Listed(Append(s, r), es, n)
           /\ /\ r.type = IF es[n + 1].type = "dir" THEN "Dir" ELSE "File"
              /\ r.body.path = es[n + 1].path
              => Listed(Append(s, r), es, n + 1)
<1>1. PICK t : t = Append(s, r)
  OBVIOUS
<1>2. PICK m : m = Len(s)
  OBVIOUS
<1>3. /\ m \in Nat /\ DOMAIN s = 1..m /\ DOMAIN t = 1..(m + 1)
      /\ \A i \in 1..m : t[i] = s[i]
      /\ t[m + 1] = r
  BY <1>1, <1>2, AppendedStream
<1>4. Listed(t, es, n)
  BY <1>3 DEF Listed
<1>5. ASSUME r.type = IF es[n + 1].type = "dir" THEN "Dir" ELSE "File",
             r.body.path = es[n + 1].path
      PROVE  Listed(t, es, n + 1)
  <2>1. \A k \in 1..(n + 1) : k \in 1..n \/ k = n + 1
    OBVIOUS
  <2>2. m + 1 \in DOMAIN t
    BY <1>3
  <2> QED
    BY <1>3, <1>4, <1>5, <2>1, <2>2 DEF Listed
<1> QED
  BY <1>1, <1>4, <1>5

\* As long as nothing has disturbed the run the records are those of the input,
\* and at the end of all that the walk has listed.
SourceInv ==
    changes = << >> /\ stage \notin {"failed", "refused"} =>
        /\ input \in Trees
        /\ stage \notin {"validate", "walk"} => CanSee(Listing)
        /\ FromInput(stream, input) /\ WholeFiles(stream, input) /\ PartOf(stream, input, reading)
        /\ Listed(stream, entries, index - 1)
        /\ stage \in {"padding", "drained", "written"} => index = Len(entries) + 1

\* A step that emits one record.
LEMMA SourceEmit ==
    ASSUME SourceInv, changes = << >>, stage \in {"begin", "entries", "padding"},
           stream \in Seq(Records), NEW r \in Records, Emit(r),
           UNCHANGED <<input, entries, changes>>,
           OfInput(r, input), ReadsOn(r, input, reading, reading'),
           Listed(stream', entries, index' - 1), stage' \notin {"validate", "walk"},
           stage' \in {"padding", "drained", "written"} => index' = Len(entries) + 1
    PROVE  SourceInv'
<1>1. /\ input \in Trees
      /\ CanSee(Listing)
      /\ FromInput(stream, input) /\ WholeFiles(stream, input) /\ PartOf(stream, input, reading)
  BY DEF SourceInv
<1>2. stream' = Append(stream, r)
  BY DEF Emit
<1>3. /\ FromInput(stream', input) /\ WholeFiles(stream', input)
      /\ PartOf(stream', input, reading')
  BY <1>1, <1>2, SourceAppend
<1>4. FromInput(stream', input') /\ WholeFiles(stream', input') /\ PartOf(stream', input', reading')
  BY <1>3
<1>5. Listed(stream', entries', index' - 1)
  OBVIOUS
<1>6. CanSee(Listing)'
  BY <1>1, ListingKept
<1>7. stage' \in {"padding", "drained", "written"} => index' = Len(entries') + 1
  OBVIOUS
<1> QED
  BY <1>1, <1>4, <1>5, <1>6, <1>7 DEF SourceInv

\* A step that emits none.
LEMMA SourceSame ==
    ASSUME SourceInv, stage \notin {"failed", "refused"}, UNCHANGED <<input, stream, changes>>,
           stage' \in {"failed", "refused"} \/
           /\ UNCHANGED <<entries, index, reading>>
           /\ stage' \in {"validate", "walk"} \/ stage \notin {"validate", "walk"}
           /\ stage' \in {"padding", "drained", "written"} =>
                 stage \in {"padding", "drained", "written"}
    PROVE  SourceInv'
<1>1. SUFFICES ASSUME changes = << >>, stage' \notin {"failed", "refused"} PROVE SourceInv'
  BY DEF SourceInv
<1>2. /\ input \in Trees
      /\ stage \notin {"validate", "walk"} => CanSee(Listing)
      /\ FromInput(stream, input) /\ WholeFiles(stream, input) /\ PartOf(stream, input, reading)
      /\ Listed(stream, entries, index - 1)
      /\ stage \in {"padding", "drained", "written"} => index = Len(entries) + 1
  BY <1>1 DEF SourceInv
<1>3. /\ FromInput(stream', input') /\ WholeFiles(stream', input')
      /\ PartOf(stream', input', reading') /\ Listed(stream', entries', index' - 1)
  BY <1>1, <1>2
<1>4. stage' \notin {"validate", "walk"} => CanSee(Listing)'
  BY <1>1, <1>2, ListingKept
<1> QED
  BY <1>1, <1>2, <1>3, <1>4 DEF SourceInv

\* The record of an entry.
LEMMA SourceEntry ==
    ASSUME LayoutInv, SourceInv, changes = << >>, EmitEntry
    PROVE  SourceInv'
<1>1. /\ stage = "entries" /\ reading = << >> /\ index <= Len(entries) /\ index' = index + 1
      /\ UNCHANGED <<input, params, entries, header, raw, changes>>
  BY DEF EmitEntry
<1>2. PICK e : e = entries[index]
  OBVIOUS
<1>3. /\ stream \in Seq(Records) /\ Len(entries) \in Nat
      /\ index \in Nat \ {0} /\ index \in DOMAIN entries
  BY <1>1, LenProperties DEF LayoutInv, WriterTyped, PlanInv, Writing
<1>4. e \in Entries /\ e.path \in DOMAIN input /\ input[e.path].kind = e.type
  BY <1>1, <1>2, <1>3 DEF LayoutInv, WriterTyped, BalanceInv
<1>5. PICK n \in Nat : n = index - 1
  BY <1>3
<1>6. index' - 1 = n + 1 /\ index = n + 1
  BY <1>1, <1>3, <1>5
<1>7. Listed(stream, entries, n)
  BY <1>1, <1>5 DEF SourceInv
<1>8. CASE e.type = "special"
  <2>1. UNCHANGED <<stage, stream, reading>>
    BY <1>2, <1>8 DEF EmitEntry
  <2>2. Listed(stream, entries, n + 1)
    <3>1. \A k \in 1..(n + 1) : k \in 1..n \/ k = n + 1
      OBVIOUS
    <3>2. entries[n + 1].type = "special"
      BY <1>2, <1>6, <1>8
    <3> QED
      BY <1>7, <3>1, <3>2 DEF Listed
  <2>3. Listed(stream', entries', index' - 1)
    BY <1>1, <1>6, <2>1, <2>2
  <2>4. /\ input \in Trees /\ CanSee(Listing)
        /\ FromInput(stream, input) /\ WholeFiles(stream, input)
        /\ PartOf(stream, input, reading)
    BY <1>1 DEF SourceInv
  <2>5. /\ FromInput(stream', input') /\ WholeFiles(stream', input')
        /\ PartOf(stream', input', reading')
    BY <1>1, <2>1, <2>4
  <2>6. input' \in Trees /\ stage' = "entries" /\ CanSee(Listing)'
    BY <1>1, <2>1, <2>4, ListingKept
  <2> QED
    BY <2>3, <2>5, <2>6 DEF SourceInv
<1>9. CASE stage' = "failed"
  BY <1>9 DEF SourceInv
<1>10. CASE e.type # "special" /\ stage' # "failed"
  <2> DEFINE m == MetadataFor(e)
             r == EntryRecord(IF e.type = "dir" THEN "Dir" ELSE "File", m)
  <2>1. ~MetadataThrows(e)
    BY <1>4, <1>10 DEF MetadataThrows
  <2>2. /\ Emit(r) /\ UNCHANGED stage
        /\ reading' = IF e.type = "file" THEN <<Reading(e.path, m.size, 0, FALSE)>> ELSE << >>
    BY <1>2, <1>10, <2>1, Zenon DEF EmitEntry, Become
  <2>3. r \in Records
    BY <1>4, <2>1, MetadataMade DEF LayoutInv, RecordTypes
  <2>4. r.body = m /\ r.type = IF e.type = "dir" THEN "Dir" ELSE "File"
    BY DEF EntryRecord, MakeRecord
  <2>5. m.path = e.path /\ m.mtime = input[e.path].mtime
    BY DEF MetadataFor, Metadata
  <2>6. e.type \in {"file", "dir"}
    BY <1>4, <1>10 DEF Entries
  <2> HIDE DEF m, r
  <2>7. OfInput(r, input)
    BY <1>4, <2>4, <2>5, <2>6 DEF OfInput
  <2>8. ReadsOn(r, input, reading, reading')
    <3>1. CASE e.type = "dir"
      BY <1>1, <2>2, <2>4, <3>1 DEF ReadsOn
    <3>2. CASE e.type = "file"
      <4>1. reading' = <<Reading(e.path, m.size, 0, FALSE)>> /\ r.type = "File"
        BY <2>2, <2>4, <3>2
      <4>2. reading' # << >> /\ reading'[1].path = e.path /\ reading'[1].read = 0
        BY <4>1 DEF Reading
      <4> QED
        BY <1>1, <2>4, <2>5, <4>1, <4>2 DEF ReadsOn
    <3> QED
      BY <2>6, <3>1, <3>2
  <2>9. Listed(Append(stream, r), entries, n + 1)
    BY <1>2, <1>3, <1>6, <1>7, <2>3, <2>4, <2>5, ListedMore
  <2>10. Listed(stream', entries, index' - 1)
    BY <1>6, <2>2, <2>9 DEF Emit
  <2> QED
    BY <1>1, <1>3, <2>2, <2>3, <2>7, <2>8, <2>10, SourceEmit
<1> QED
  BY <1>8, <1>9, <1>10

\* The records of a file.
LEMMA SourceFile ==
    ASSUME LayoutInv, SourceInv, changes = << >>, EmitFileBytes \/ EmitFileEnd
    PROVE  SourceInv'
<1>1. /\ stage = "entries" /\ reading # << >>
      /\ UNCHANGED <<input, params, entries, index, header, raw, changes>>
  BY DEF EmitFileBytes, EmitFileEnd
<1>2. PICK f : f = reading[1]
  OBVIOUS
<1>3. stream \in Seq(Records) /\ Len(entries) \in Nat /\ index \in Nat \ {0}
  BY <1>1, LenProperties DEF LayoutInv, WriterTyped, PlanInv, Writing
<1>4. /\ f \in Files /\ f.path \in DOMAIN input /\ input[f.path].kind = "file"
      /\ f.size = Len(input[f.path].bytes) /\ f.read <= f.size
      /\ f.eof => f.read = f.size
  <2>1. reading \in Seq(Files)
    BY DEF LayoutInv, WriterTyped
  <2>2. f \in Files
    BY <1>1, <1>2, <2>1, EmptySeq, ElementOfSeq
  <2> QED
    BY <1>1, <1>2, <2>2 DEF LayoutInv, BalanceInv
<1>5. PICK n \in Nat : n = index - 1
  BY <1>3
<1>6. Listed(stream, entries, n)
  BY <1>1, <1>5 DEF SourceInv
<1>7. WriterTyped
  BY DEF LayoutInv
<1>8. CASE EmitFileBytes
  <2> DEFINE b == NextBytes(f)
             r == BytesRecord(b)
  <2>1. /\ b # << >> /\ Emit(r)
        /\ reading' = <<Reading(f.path, f.size, f.read + Len(b), Len(b) < PayloadSize)>>
        /\ stage' = stage
    BY <1>2, <1>8 DEF EmitFileBytes
  <2>2. r \in Records /\ r.type = "Bytes" /\ r.body = b
    <3>1. b \in Seq(Nat)
      BY <1>4, <1>7, BytesRead
    <3> QED
      BY <3>1, RecordsMade DEF BytesRecord, MakeRecord
  <2>3. SubSeq(input[f.path].bytes, 1, f.read + Len(b))
           = SubSeq(input[f.path].bytes, 1, f.read) \o b
    BY <1>4, <1>7, <2>1, ReadAdds
  <2> HIDE DEF b, r
  <2>4. reading' # << >> /\ reading'[1].path = f.path /\ reading'[1].read = f.read + Len(b)
    BY <2>1 DEF Reading
  <2>5. ReadsOn(r, input, reading, reading')
    BY <1>1, <1>2, <2>2, <2>3, <2>4 DEF ReadsOn
  <2>6. OfInput(r, input)
    BY <2>2 DEF OfInput
  <2>7. Listed(stream', entries, index' - 1)
    BY <1>1, <1>3, <1>5, <1>6, <2>1, <2>2, ListedMore DEF Emit
  <2> QED
    BY <1>1, <1>3, <2>1, <2>2, <2>5, <2>6, <2>7, SourceEmit
<1>9. CASE EmitFileEnd
  <2> DEFINE r == MarkRecord("FileEnd")
  <2>1. CASE stage' = "failed"
    BY <2>1 DEF SourceInv
  <2>2. CASE stage' # "failed"
    <3>1. Emit(r) /\ stage' = stage /\ f.read = f.size
      BY <1>2, <1>9, <2>2, Zenon DEF EmitFileEnd, Become
    <3>2. r \in Records /\ r.type = "FileEnd"
      BY RecordsMade DEF RecordTypes, MarkRecord, MakeRecord
    <3> HIDE DEF r
    <3>3. SubSeq(input[f.path].bytes, 1, f.read) = input[f.path].bytes
      <4>1. input[f.path].bytes \in Seq(Nat)
        BY <1>4, <1>7, NodeFields DEF WriterTyped
      <4> QED
        BY <1>4, <3>1, <4>1, SubSeqFull
    <3>4. ReadsOn(r, input, reading, reading')
      BY <1>1, <1>2, <3>2, <3>3 DEF ReadsOn
    <3>5. OfInput(r, input)
      BY <3>2 DEF OfInput
    <3>6. Listed(stream', entries, index' - 1)
      BY <1>1, <1>3, <1>5, <1>6, <3>1, <3>2, ListedMore DEF Emit
    <3> QED
      BY <1>1, <1>3, <3>1, <3>2, <3>4, <3>5, <3>6, SourceEmit
  <2> QED
    BY <2>1, <2>2
<1> QED
  BY <1>8, <1>9

\* The records around them.
LEMMA SourceFrame ==
    ASSUME LayoutInv, SourceInv, changes = << >>, EmitBegin \/ EmitEnd \/ EmitPadding
    PROVE  SourceInv'
<1>1. /\ stage \in {"begin", "entries", "padding"}
      /\ UNCHANGED <<input, params, entries, index, reading, header, raw, changes>>
  BY DEF EmitBegin, EmitEnd, EmitPadding
<1>2. stream \in Seq(Records) /\ Len(entries) \in Nat /\ index \in 1..(Len(entries) + 1)
  BY <1>1, LenProperties DEF LayoutInv, WriterTyped, PlanInv, Writing
<1>3. PICK n \in Nat : n = index - 1
  BY <1>2
<1>4. Listed(stream, entries, n)
  BY <1>1, <1>3 DEF SourceInv
<1>5. ASSUME NEW r \in Records, r.type \in {"Begin", "End", "Padding"}, Emit(r),
             stage' \in {"entries", "padding", "drained"},
             stage' \in {"padding", "drained"} => index = Len(entries) + 1
      PROVE  SourceInv'
  <2>1. OfInput(r, input) /\ ReadsOn(r, input, reading, reading')
    BY <1>1, <1>5 DEF OfInput, ReadsOn
  <2>2. Listed(stream', entries, index' - 1)
    BY <1>1, <1>2, <1>3, <1>4, <1>5, ListedMore DEF Emit
  <2> QED
    BY <1>1, <1>2, <1>5, <2>1, <2>2, SourceEmit
<1>6. CASE EmitBegin
  <2>1. BeginRecord \in Records /\ BeginRecord.type = "Begin"
    BY RecordsMade DEF BeginRecord, MakeRecord
  <2> QED
    BY <1>5, <1>6, <2>1 DEF EmitBegin, Become
<1>7. CASE EmitEnd
  <2>1. MarkRecord("End") \in Records /\ MarkRecord("End").type = "End"
    BY RecordsMade DEF RecordTypes, MarkRecord, MakeRecord
  <2>2. index = Len(entries) + 1
    BY <1>2, <1>7 DEF EmitEnd
  <2> QED
    BY <1>5, <1>7, <2>1, <2>2 DEF EmitEnd, Become
<1>8. CASE EmitPadding
  <2> DEFINE gap == header[1].padded - raw
             r == PaddingRecord(gap - RecordPrefix)
  <2>1. stage = "padding" /\ stage' = "drained" /\ index = Len(entries) + 1
    BY <1>8 DEF EmitPadding, Become, SourceInv
  <2>2. CASE gap > 0
    <3>1. Emit(r)
      BY <1>8, <2>2 DEF EmitPadding
    <3>2. header # << >> /\ WriterTyped /\ PlanInv
      BY <2>1 DEF LayoutInv, PlanInv, Writing
    <3>3. header[1].padded \in Nat /\ raw \in Nat /\ (gap = 0 \/ gap >= RecordPrefix)
      BY <3>2, PaddingRoom DEF PlanInv
    <3>4. gap - RecordPrefix \in Nat
      BY <2>2, <3>3, RecordAssumption
    <3>5. r \in Records /\ r.type = "Padding"
      BY <3>4, RecordsMade DEF PaddingRecord, MakeRecord
    <3> HIDE DEF r
    <3> QED
      BY <1>5, <2>1, <3>1, <3>5
  <2>3. CASE ~(gap > 0)
    <3>1. stream' = stream
      BY <1>8, <2>3 DEF EmitPadding
    <3> QED
      BY <1>1, <2>1, <3>1, SourceSame
  <2> QED
    BY <2>2, <2>3
<1> QED
  BY <1>6, <1>7, <1>8

\* What is emitted and what the input holds, action by action.
LEMMA SourceStep == LayoutInv /\ SourceInv /\ [Next]_vars => SourceInv'
<1> SUFFICES ASSUME LayoutInv, SourceInv, [Next]_vars PROVE SourceInv'
  OBVIOUS
<1>1. CASE UNCHANGED wvars
  <2>1. UNCHANGED <<input, stage, entries, index, reading, stream, changes>>
    BY <1>1 DEF wvars
  <2>2. CASE stage \in {"failed", "refused"}
    BY <2>1, <2>2 DEF SourceInv
  <2>3. CASE stage \notin {"failed", "refused"}
    BY <2>1, <2>3, SourceSame
  <2> QED
    BY <2>2, <2>3
<1>2. CASE Disturb
  <2>1. \E how : changes' = Append(changes, how)
    BY <1>2 DEF Disturb, GrowFile, ShrinkFile, RemoveEntry, ReplaceEntry, Changed
  <2>2. changes \in Seq(Changes) /\ Len(changes) \in Nat
    BY LenProperties DEF LayoutInv, WriterTyped
  <2>3. changes' # << >>
    BY <2>1, <2>2
  <2> QED
    BY <2>3 DEF SourceInv
<1>3. CASE Encrypt
  <2>1. changes' = changes
    BY <1>3 DEF Encrypt, Validate, Walk, Plan, EmitBegin, EmitEntry, EmitFileBytes, EmitFileEnd,
       EmitEnd, EmitPadding, VerifyProduced
  <2>2. CASE changes # << >>
    BY <2>1, <2>2 DEF SourceInv
  <2>3. CASE changes = << >>
    <3>1. CASE Validate \/ Plan \/ VerifyProduced
      <4>1. /\ stage \in {"validate", "plan", "drained"}
            /\ UNCHANGED <<input, entries, index, reading, stream, changes>>
        BY <3>1 DEF Validate, Plan, VerifyProduced
      <4>2. /\ stage = "validate" => stage' \in {"walk", "refused"}
            /\ stage = "plan" => stage' \in {"begin", "failed"}
            /\ stage = "drained" => stage' \in {"written", "failed"}
        BY <3>1, Zenon DEF Validate, Plan, VerifyProduced, Become
      <4> QED
        BY <4>1, <4>2, SourceSame
    <3>2. CASE Walk
      <4>1. stage = "walk" /\ UNCHANGED <<input, index, reading, stream, changes>>
        BY <3>2 DEF Walk
      <4>2. CASE stage' = "failed"
        BY <4>2 DEF SourceInv
      <4>3. ASSUME stage' = "plan", NEW S \in SUBSET Walkable, CanSee(S), Lists(S) PROVE SourceInv'
        <5>1. /\ input \in Trees
              /\ FromInput(stream, input) /\ WholeFiles(stream, input)
              /\ PartOf(stream, input, reading)
          BY <2>3, <4>1 DEF SourceInv
        <5>2. /\ FromInput(stream', input') /\ WholeFiles(stream', input')
              /\ PartOf(stream', input', reading') /\ input' \in Trees
          BY <4>1, <5>1
        <5>3. Listing' = S
          BY <4>3, <5>1, WalkComplete DEF LayoutInv
        <5>4. CanSee(Listing)'
          <6>1. Walkable' = Walkable
            BY <4>1 DEF Walkable
          <6>2. HalfSeen(Listing)' = HalfSeen(S)
            BY <5>3, <6>1 DEF HalfSeen
          <6> QED
            BY <4>3, <5>3, <6>1, <6>2 DEF CanSee
        <5>5. index' = 1
          BY <4>1 DEF LayoutInv, PlanInv
        <5>6. Listed(stream', entries', index' - 1)
          BY <5>5 DEF Listed
        <5> QED
          BY <4>3, <5>2, <5>4, <5>6 DEF SourceInv
      <4> QED
        BY <3>2, <4>2, <4>3, WalkOutcome
    <3> QED
      BY <1>3, <2>3, <3>1, <3>2, SourceEntry, SourceFile, SourceFrame DEF Encrypt
  <2> QED
    BY <2>2, <2>3
<1> QED
  BY <1>1, <1>2, <1>3 DEF Next, vars

\* It holds throughout.
LEMMA SourceInvariant == Spec => []SourceInv
<1>1. Init => SourceInv
  <2>1. ASSUME WriterInit PROVE SourceInv
    <3>1. DOMAIN << >> = {} /\ Len(<< >>) = 0
      BY EmptySeq
    <3> QED
      BY <2>1, <3>1 DEF WriterInit, SourceInv, FromInput, WholeFiles, PartOf, Listed
  <2>2. ASSUME NEW f \in ForeignStreams, ForeignInit(f) PROVE SourceInv
    BY <2>2 DEF ForeignInit, SourceInv
  <2> QED
    BY <2>1, <2>2 DEF Init
<1> QED
  BY <1>1, LayoutInvariant, SourceStep, PTL DEF Spec

----------------------------------------------------------------------------
\* A path without "." is its own normal form.
LEMMA NormalAlready ==
    ASSUME NEW p \in Seq(STRING), \A i \in DOMAIN p : p[i] # "." PROVE NormalPath(p) = p
<1> DEFINE n == Len(p)
           kept[i \in 0..n] ==
              IF i = 0 THEN << >>
              ELSE IF p[i] = "." THEN kept[i - 1] ELSE Append(kept[i - 1], p[i])
<1>1. n \in Nat /\ DOMAIN p = 1..n /\ \A i \in 1..n : p[i] \in STRING
  BY LenProperties, ElementOfSeq
<1>2. KeptUpTo(kept, p, n)
  BY <1>1, KeptExists DEF KeptUpTo
<1>3. NormalPath(p) = kept[n]
  BY DEF NormalPath
<1> HIDE DEF kept, n
<1>4. \A j \in 0..n : kept[j] = IF j = 0 THEN << >>
            ELSE IF p[j] = "." THEN kept[j - 1] ELSE Append(kept[j - 1], p[j])
  BY <1>2 DEF KeptUpTo
<1> DEFINE Q(i) == /\ kept[i] \in Seq(STRING) /\ Len(kept[i]) = i
                   /\ \A j \in 1..i : kept[i][j] = p[j]
           T == {i \in Nat : i <= n => Q(i)}
<1>5. 0 \in T
  <2>1. kept[0] = << >>
    BY <1>1, <1>4
  <2>2. << >> \in Seq(STRING) /\ Len(<< >>) = 0
    BY EmptySeq
  <2>3. \A j \in 1..0 : FALSE
    OBVIOUS
  <2>4. Q(0)
    BY <2>1, <2>2, <2>3, Zenon
  <2> HIDE DEF Q
  <2> QED
    BY <2>4
<1>6. ASSUME NEW i \in Nat, i \in T PROVE i + 1 \in T
  <2> SUFFICES ASSUME i + 1 <= n PROVE Q(i + 1)
    OBVIOUS
  <2>1. i + 1 \in 0..n /\ i + 1 \in 1..n /\ i + 1 # 0 /\ (i + 1) - 1 = i /\ i <= n
    BY <1>1
  <2>2. kept[i + 1] = Append(kept[i], p[i + 1])
    BY <1>1, <1>4, <2>1
  <2>3. Q(i)
    BY <1>6, <2>1
  <2>4. p[i + 1] \in STRING
    BY <1>1, <2>1
  <2>5. PICK k \in Seq(STRING) : k = kept[i]
    BY <2>3
  <2>6. Len(k) = i /\ \A j \in 1..i : k[j] = p[j]
    BY <2>3, <2>5
  <2>7. PICK v : v = Append(k, p[i + 1])
    OBVIOUS
  <2>8. v \in Seq(STRING) /\ Len(v) = i + 1 /\ (\A j \in 1..i : v[j] = k[j]) /\ v[i + 1] = p[i + 1]
    BY <2>4, <2>6, <2>7, AppendProperties
  <2>9. \A j \in 1..(i + 1) : v[j] = p[j]
    BY <2>6, <2>8
  <2> QED
    BY <2>2, <2>5, <2>7, <2>8, <2>9
<1> HIDE DEF T
<1>7. n \in T
  BY <1>1, <1>5, <1>6, NatInd
<1>8. Q(n)
  BY <1>1, <1>7 DEF T
<1>9. PICK k \in Seq(STRING) : k = kept[n]
  BY <1>8
<1>10. Len(k) = Len(p) /\ \A j \in 1..Len(k) : k[j] = p[j]
  BY <1>8, <1>9 DEF n
<1>11. k = p
  BY <1>10, SeqEqual
<1> QED
  BY <1>3, <1>9, <1>11

\* Directories stay without content.
LEMMA EmptyTouched ==
    ASSUME NEW t, DirsEmpty(t), NEW qs PROVE DirsEmpty(Touched(t, qs))
<1>1. PICK u : u = Touched(t, qs)
  OBVIOUS
<1>2. DOMAIN u = DOMAIN t
  BY <1>1 DEF Touched
<1>3. ASSUME NEW q \in DOMAIN t, u[q].kind = "dir" PROVE u[q] = Node("dir", << >>, u[q].mtime)
  <2>1. u[q] = IF q \in qs THEN Node(t[q].kind, t[q].bytes, Now) ELSE t[q]
    BY <1>1 DEF Touched
  <2>2. t[q].kind = "dir"
    BY <1>3, <2>1 DEF Node
  <2>3. t[q] = Node("dir", << >>, t[q].mtime)
    BY <2>2 DEF DirsEmpty
  <2>4. t[q].bytes = << >>
    BY <2>3 DEF Node
  <2>5. CASE q \in qs
    <3>1. u[q] = Node("dir", << >>, Now)
      BY <2>1, <2>2, <2>4, <2>5
    <3>2. u[q].mtime = Now
      BY <3>1 DEF Node
    <3> QED
      BY <3>1, <3>2
  <2>6. CASE q \notin qs
    BY <2>1, <2>3, <2>6
  <2> QED
    BY <2>5, <2>6
<1> QED
  BY <1>1, <1>2, <1>3 DEF DirsEmpty

\* In every operation on trees.
LEMMA EmptyKept ==
    ASSUME NEW t, DirsEmpty(t), NEW p, NEW n
    PROVE  /\ n.kind # "dir" => DirsEmpty(PutNode(t, p, n))
           /\ DirsEmpty(DropTree(t, p)) /\ DirsEmpty(MakeDirs(t, p))
<1>1. ASSUME n.kind # "dir" PROVE DirsEmpty(PutNode(t, p, n))
  <2>1. PICK u : u = Touched(t, {Parent(p)}) /\ DirsEmpty(u) /\ DOMAIN u = DOMAIN t
    BY EmptyTouched, TouchedAt
  <2>2. PutNode(t, p, n) = [q \in DOMAIN t \cup {p} |-> IF q = p THEN n ELSE u[q]]
    BY <2>1 DEF PutNode
  <2> QED
    BY <1>1, <2>1, <2>2 DEF DirsEmpty
<1>2. DirsEmpty(DropTree(t, p))
  <2>1. PICK u : u = Touched(t, {Parent(p)}) /\ DirsEmpty(u)
    BY EmptyTouched
  <2>2. DropTree(t, p) = [q \in {q \in DOMAIN u : ~IsPrefix(p, q)} |-> u[q]]
    BY <2>1 DEF DropTree
  <2> QED
    BY <2>1, <2>2 DEF DirsEmpty
<1>3. DirsEmpty(MakeDirs(t, p))
  <2> DEFINE new == AndAncestors(p) \ DOMAIN t
             qs == {Parent(q) : q \in new}
  <2>1. PICK u : u = Touched(t, qs) /\ DirsEmpty(u) /\ DOMAIN u = DOMAIN t
    BY EmptyTouched, TouchedAt
  <2>2. MakeDirs(t, p) = [q \in DOMAIN t \cup new |->
                             IF q \in new THEN Node("dir", << >>, Now) ELSE u[q]]
    BY <2>1 DEF MakeDirs
  <2>3. PICK d : d = Node("dir", << >>, Now)
    OBVIOUS
  <2>4. d.mtime = Now /\ d = Node("dir", << >>, d.mtime)
    BY <2>3 DEF Node
  <2> HIDE DEF new
  <2>5. PICK v : v = MakeDirs(t, p)
    OBVIOUS
  <2>6. \A q \in DOMAIN v : v[q] = d \/ (q \in DOMAIN u /\ v[q] = u[q])
    BY <2>1, <2>2, <2>3, <2>5
  <2> QED
    BY <2>1, <2>4, <2>5, <2>6 DEF DirsEmpty
<1> QED
  BY <1>1, <1>2, <1>3

\* So it is in the output, action by action.
LEMMA EmptyStep == ReaderInv /\ DirsEmpty(out) /\ [Next]_vars => DirsEmpty(out')
<1> SUFFICES ASSUME ReaderInv, DirsEmpty(out), [Next]_vars PROVE DirsEmpty(out')
  OBVIOUS
<1>1. CASE UNCHANGED out
  BY <1>1
<1>2. ASSUME NEW o \in Outputs, NEW dp \in DecryptParams, OpenDecrypt(o, dp) PROVE DirsEmpty(out')
  <2>1. CASE o = << >>
    <3>1. out' = << >>
      BY <1>2, <2>1 DEF OpenDecrypt
    <3> QED
      BY <3>1, DOMAIN << >> = {} DEF DirsEmpty
  <2>2. CASE o # << >>
    <3>1. out' = o[1]
      BY <1>2, <2>2 DEF OpenDecrypt
    <3> QED
      BY <2>2, <3>1, OutputsAssumption
  <2> QED
    BY <2>1, <2>2
<1>3. ASSUME NEW p \in todo, PromoteDir(p) PROVE DirsEmpty(out')
  <2>1. out' = MakeDirs(out, p) \/ out' = out
    BY <1>3 DEF PromoteDir, PromoteFails
  <2> QED
    BY <2>1, EmptyKept
<1>4. ASSUME NEW p \in todo, PromoteCheck(p) PROVE DirsEmpty(out')
  <2>1. out' = DropTree(out, p) \/ out' = PartlyDropped(out, p) \/ out' = out
    BY <1>4 DEF PromoteCheck, PromoteFails, PartlyDropped
  <2>2. DirsEmpty(PartlyDropped(out, p))
    BY DEF DirsEmpty, PartlyDropped
  <2> QED
    BY <2>1, <2>2, EmptyKept
<1>5. CASE PromoteRename
  <2>1. PICK c : c = checked[1]
    OBVIOUS
  <2>2. PICK n : n = Tmp[c]
    OBVIOUS
  <2>3. rpc = "rename" /\ (out' = PutNode(out, c, n) \/ out' = out)
    BY <1>5, <2>1, <2>2 DEF PromoteRename, PromoteFails
  <2>4. n.kind # "dir"
    <3>1. checked # << >> /\ c \in todo /\ ~IsDir(Tmp, c) /\ todo \subseteq DOMAIN Tmp
      BY <2>1, <2>3 DEF ReaderInv, PromoteInv
    <3> QED
      BY <2>2, <3>1 DEF IsDir
  <2> QED
    BY <2>3, <2>4, EmptyKept
<1>6. ASSUME NEW m \in deferred, ApplyMetadata(m) PROVE DirsEmpty(out')
  <2>1. CASE out' = out
    BY <2>1
  <2>2. CASE out' = [q \in DOMAIN out |-> IF q = NormalPath(m.path)
                                          THEN Node(out[q].kind, out[q].bytes, m.mtime)
                                          ELSE out[q]]
    <3>1. DOMAIN out' = DOMAIN out
      BY <2>2
    <3>2. ASSUME NEW q \in DOMAIN out, out'[q].kind = "dir"
          PROVE  out'[q] = Node("dir", << >>, out'[q].mtime)
      <4>1. out'[q] = out[q] \/ out'[q] = Node(out[q].kind, out[q].bytes, m.mtime)
        BY <2>2
      <4>2. out[q].kind = "dir"
        BY <3>2, <4>1 DEF Node
      <4>3. out[q] = Node("dir", << >>, out[q].mtime)
        BY <4>2 DEF DirsEmpty
      <4>4. out[q].bytes = << >>
        BY <4>3 DEF Node
      <4>5. CASE out'[q] = Node(out[q].kind, out[q].bytes, m.mtime)
        <5>1. out'[q] = Node("dir", << >>, m.mtime)
          BY <4>2, <4>4, <4>5
        <5>2. out'[q].mtime = m.mtime
          BY <5>1 DEF Node
        <5> QED
          BY <5>1, <5>2
      <4> QED
        BY <4>1, <4>3, <4>5
    <3> QED
      BY <3>1, <3>2 DEF DirsEmpty
  <2> QED
    BY <1>6, <2>1, <2>2 DEF ApplyMetadata
<1>7. ASSUME NEW p \in IntruderPaths, Intrude(p) PROVE DirsEmpty(out')
  <2>1. out' = PutNode(out, p, Node("file", <<8>>, 7))
    BY <1>7 DEF Intrude
  <2>2. Node("file", <<8>>, 7).kind # "dir"
    BY DEF Node
  <2> QED
    BY <2>1, <2>2, EmptyKept
<1>8. CASE Discover \/ Construct \/ Consume \/ NeedMore \/ ProcessRecord \/ Finish
  BY <1>1, <1>8 DEF Discover, Construct, Consume, NeedMore, ProcessRecord, BeginArchive,
     CreateDirectory, BeginFile, WriteFileBytes, EndFile, EndArchive, SkipPadding, RejectRecord,
     Process, Finish, out_vars
<1>9. CASE PromoteEnd \/ FinishCleanup \/ Unwind \/ Catch
  BY <1>1, <1>9 DEF PromoteEnd, FinishCleanup, Unwind, Catch, out_vars
<1>10. CASE UNCHANGED rvars
  BY <1>1, <1>10 DEF rvars, out_vars
<1> QED
  BY <1>2, <1>3, <1>4, <1>5, <1>6, <1>7, <1>8, <1>9, <1>10 DEF Next, vars, Decrypt

\* The metadata that waits is that of the directories taken so far.
DirsDeferred(n) == \A i \in 1..n : stream[i].type = "Dir" => stream[i].body \in deferred
DeferInv ==
    /\ \A m \in deferred : \E i \in 1..records : stream[i].type = "Dir" /\ stream[i].body = m
    /\ rpc \in {"feed", "parse"} => DirsDeferred(records)
    /\ rpc \in {"promote", "rename", "metadata", "success"} => AllRead(stream)
    /\ rpc \in {"promote", "rename"} => DirsDeferred(Len(stream))

\* A step that takes no record and applies no metadata.
LEMMA DeferSame ==
    ASSUME DeferInv, UNCHANGED <<stream, records, deferred>>,
           \/ rpc' = rpc
           \/ rpc \in {"feed", "parse"} /\ rpc' \in {"feed", "parse"}
           \/ rpc \in {"promote", "rename"} /\ rpc' \in {"promote", "rename", "metadata"}
           \/ rpc = "metadata" /\ rpc' = "success"
           \/ rpc' \notin {"feed", "parse", "promote", "rename", "metadata", "success"}
    PROVE  DeferInv'
<1>1. /\ DirsDeferred(records)' = DirsDeferred(records)
      /\ DirsDeferred(Len(stream))' = DirsDeferred(Len(stream))
  BY DEF DirsDeferred
<1>2. AllRead(stream)' = AllRead(stream)
  OBVIOUS
<1> QED
  BY <1>1, <1>2 DEF DeferInv

\* What waits, action by action.
LEMMA DeferStep == ReaderInv /\ ParseInv /\ DeferInv /\ [Next]_vars => DeferInv'
<1> SUFFICES ASSUME ReaderInv, ParseInv, DeferInv, [Next]_vars PROVE DeferInv'
  OBVIOUS
<1>0. /\ Framed(stream) /\ records \in 0..Len(stream) /\ Len(stream) \in Nat
      /\ rpc = "idle" => records = 0
  BY DEF ReaderInv, StreamInv, ProgressInv, Framed
<1>1. CASE rpc = "idle"
  <2>1. deferred = {}
    BY <1>1 DEF ReaderInv, TempInv
  <2>2. deferred' = deferred /\ rpc' \in {"idle", "refused", "discover", "failed"}
    BY <1>1 DEF Next, vars, rvars, tree_vars, Decrypt, OpenDecrypt, Discover, Construct, Consume,
       NeedMore, ProcessRecord, BeginArchive, CreateDirectory, BeginFile, WriteFileBytes,
       EndFile, EndArchive, SkipPadding, RejectRecord, Process, Finish, PromoteDir, PromoteCheck,
       PromoteRename, PromoteEnd, ApplyMetadata, FinishCleanup, Unwind, Catch, Intrude
  <2> QED
    BY <2>1, <2>2 DEF DeferInv
<1>2. CASE rpc # "idle"
  <2>0. stream' = stream
    BY <1>2, WriterDone DEF ReaderInv
  <2>1. CASE UNCHANGED rvars
    BY <2>0, <2>1, DeferSame DEF rvars, parse_vars, tree_vars
  <2>2. CASE Discover \/ Consume \/ NeedMore \/ RejectRecord
    <3>1. UNCHANGED <<records, deferred>>
      BY <2>2 DEF Discover, Consume, NeedMore, RejectRecord, parse_vars, tree_vars
    <3>2. \/ rpc \in {"feed", "parse"} /\ rpc' \in {"feed", "parse"}
          \/ rpc' \notin {"feed", "parse", "promote", "rename", "metadata", "success"}
      BY <2>2 DEF Discover, Consume, NeedMore, RejectRecord, Throw
    <3> QED
      BY <2>0, <3>1, <3>2, DeferSame
  <2>3. CASE Construct
    <3>1. /\ rpc = "construct" /\ rpc' \in {"feed", "catch"}
          /\ UNCHANGED <<records, deferred>>
      BY <2>3 DEF Construct, parse_vars
    <3>2. deferred = {} /\ records = 0
      BY <3>1 DEF ReaderInv, TempInv, ParseInv
    <3> QED
      BY <3>1, <3>2 DEF DeferInv, DirsDeferred
  <2>4. ASSUME NEW type \in RecordTypes \ {"Dir"}, Process(type), deferred' = deferred
        PROVE  DeferInv'
    <3>1. PICK n \in Nat : n = records
      BY <1>0
    <3>2. rpc = "parse" /\ rpc' = rpc /\ records' = n + 1 /\ stream[n + 1].type # "Dir"
      BY <2>4, <3>1 DEF Process, Rec
    <3>3. /\ \A m \in deferred : \E i \in 1..n : stream[i].type = "Dir" /\ stream[i].body = m
          /\ \A i \in 1..n : stream[i].type = "Dir" => stream[i].body \in deferred
      BY <3>1, <3>2 DEF DeferInv, DirsDeferred
    <3>4. \A i \in 1..n : i \in 1..(n + 1)
      OBVIOUS
    <3>5. \A i \in 1..(n + 1) : i \in 1..n \/ i = n + 1
      OBVIOUS
    <3>6. \A m \in deferred' : \E i \in 1..records' : stream'[i].type = "Dir" /\ stream'[i].body = m
      BY <2>0, <2>4, <3>2, <3>3, <3>4
    <3>7. DirsDeferred(records)'
      BY <2>0, <2>4, <3>2, <3>3, <3>5 DEF DirsDeferred
    <3> QED
      BY <3>2, <3>6, <3>7 DEF DeferInv
  <2>5. CASE CreateDirectory
    <3>1. PICK n \in Nat : n = records
      BY <1>0
    <3>2. /\ rpc = "parse" /\ rpc' = rpc /\ records' = n + 1 /\ stream[n + 1].type = "Dir"
          /\ deferred' = deferred \cup {stream[n + 1].body}
      BY <2>5, <3>1 DEF CreateDirectory, Process, Rec
    <3>3. /\ \A m \in deferred : \E i \in 1..n : stream[i].type = "Dir" /\ stream[i].body = m
          /\ \A i \in 1..n : stream[i].type = "Dir" => stream[i].body \in deferred
      BY <3>1, <3>2 DEF DeferInv, DirsDeferred
    <3>4. (\A i \in 1..n : i \in 1..(n + 1)) /\ n + 1 \in 1..(n + 1)
      OBVIOUS
    <3>5. \A i \in 1..(n + 1) : i \in 1..n \/ i = n + 1
      OBVIOUS
    <3>6. \A m \in deferred' : \E i \in 1..records' : stream'[i].type = "Dir" /\ stream'[i].body = m
      BY <2>0, <3>2, <3>3, <3>4
    <3>7. DirsDeferred(records)'
      BY <2>0, <3>2, <3>3, <3>5 DEF DirsDeferred
    <3> QED
      BY <3>2, <3>6, <3>7 DEF DeferInv
  <2>6. CASE Finish
    <3>1. rpc = "feed" /\ UNCHANGED <<records, deferred>> /\ arrived = Total
      BY <2>6 DEF Finish, parse_vars
    <3>2. CASE rpc' = "unwind"
      BY <2>0, <3>1, <3>2, DeferSame
    <3>3. CASE rpc' = "promote" /\ Complete
      <4>1. records = Len(stream) /\ Len(stream) # 0
        BY <3>1, <3>3, AllTaken DEF ReaderInv
      <4>2. file = << >> /\ ended
        BY <3>3 DEF Complete
      <4>3. Grammar(stream, Len(stream), begun, ended, << >>)
        BY <3>1, <4>1, <4>2 DEF ParseInv
      <4>4. AllRead(stream)
        BY <4>1, <4>2, <4>3 DEF Grammar, AllRead
      <4>5. AllRead(stream)'
        BY <2>0, <4>4
      <4>6. DirsDeferred(Len(stream))'
        BY <2>0, <3>1, <4>1 DEF DeferInv, DirsDeferred
      <4>7. \A m \in deferred' : \E i \in 1..records' :
               stream'[i].type = "Dir" /\ stream'[i].body = m
        BY <2>0, <3>1 DEF DeferInv
      <4> QED
        BY <3>3, <4>5, <4>6, <4>7 DEF DeferInv
    <3> QED
      BY <2>6, <3>2, <3>3 DEF Finish, Throw
  <2>7. CASE (\E p \in todo : PromoteDir(p) \/ PromoteCheck(p)) \/ PromoteRename \/ PromoteEnd
    <3>1. rpc \in {"promote", "rename"} /\ UNCHANGED <<records, deferred>>
      BY <2>7 DEF PromoteDir, PromoteCheck, PromoteRename, PromoteEnd, parse_vars, tree_vars
    <3>2. rpc' \in {"promote", "rename", "metadata", "unwind"}
      BY <2>7 DEF PromoteDir, PromoteCheck, PromoteRename, PromoteEnd, PromoteFails, Throw
    <3> QED
      BY <2>0, <3>1, <3>2, DeferSame
  <2>8. ASSUME NEW m \in deferred, ApplyMetadata(m) PROVE DeferInv'
    <3>1. /\ rpc = "metadata" /\ rpc' \in {"metadata", "unwind"} /\ records' = records
          /\ deferred' \subseteq deferred
      BY <2>8 DEF ApplyMetadata, Throw, parse_vars
    <3>2. AllRead(stream)'
      BY <2>0, <3>1 DEF DeferInv
    <3> QED
      BY <2>0, <3>1, <3>2 DEF DeferInv
  <2>9. CASE FinishCleanup \/ Unwind \/ Catch
    <3>1. UNCHANGED <<records, deferred>>
      BY <2>9 DEF FinishCleanup, Unwind, Catch, parse_vars, tree_vars
    <3>2. \/ rpc = "metadata" /\ rpc' = "success"
          \/ rpc' \in {"catch", "failed"}
      BY <2>9 DEF FinishCleanup, Unwind, Catch
    <3> QED
      BY <2>0, <3>1, <3>2, DeferSame
  <2>10. ASSUME NEW p \in IntruderPaths, Intrude(p) PROVE DeferInv'
    <3>1. UNCHANGED <<rpc, records, deferred>>
      BY <2>10 DEF Intrude, parse_vars, tree_vars
    <3> QED
      BY <2>0, <3>1, DeferSame
  <2>11. CASE BeginArchive \/ BeginFile \/ WriteFileBytes \/ EndFile \/ EndArchive \/ SkipPadding
    <3>1. deferred' = deferred /\ \E type \in RecordTypes \ {"Dir"} : Process(type)
      BY <2>11 DEF BeginArchive, BeginFile, WriteFileBytes, EndFile, EndArchive, SkipPadding,
         RecordTypes
    <3> QED
      BY <2>4, <3>1
  <2>12. ASSUME NEW o, NEW dp, OpenDecrypt(o, dp) PROVE FALSE
    BY <1>2, <2>12 DEF OpenDecrypt
  <2> QED
    BY <2>1, <2>2, <2>3, <2>5, <2>6, <2>7, <2>8, <2>9, <2>10, <2>11, <2>12
       DEF Next, vars, Decrypt, ProcessRecord
<1> QED
  BY <1>1, <1>2

\* Paths of records of the input are what they say.
LEMMA SourcePath ==
    ASSUME SourceInv, changes = << >>, stage = "written", Framed(stream), NEW i \in DOMAIN stream,
           stream[i].type \in {"Dir", "File"}
    PROVE  LET m == stream[i].body IN
           /\ PathOf(stream, i) = m.path /\ NormalPath(m.path) = m.path
           /\ m.path \in DOMAIN input /\ m.mtime = input[m.path].mtime
           /\ input[m.path].kind = IF stream[i].type = "Dir" THEN "dir" ELSE "file"
<1>1. PICK m : m = stream[i].body
  OBVIOUS
<1>2. input \in Trees /\ FromInput(stream, input)
  BY DEF SourceInv
<1>3. /\ m.path \in DOMAIN input /\ m.mtime = input[m.path].mtime
      /\ input[m.path].kind = IF stream[i].type = "Dir" THEN "dir" ELSE "file"
  BY <1>1, <1>2 DEF FromInput, OfInput
<1>4. m.path \in Seq(STRING)
  BY <1>1 DEF Framed
<1>5. \A k \in DOMAIN m.path : m.path[k] # "."
  BY <1>2, <1>3, TreesAssumption
<1>6. NormalPath(m.path) = m.path
  BY <1>4, <1>5, NormalAlready
<1> QED
  BY <1>1, <1>3, <1>6 DEF PathOf

\* Every directory of the archive is one of the output when its time is set.
LEMMA DirsThere ==
    ASSUME ReaderInv, ClosingInv, DeferInv, rpc = "metadata", NEW i \in DOMAIN stream,
           stream[i].type = "Dir", PathOf(stream, i) # << >>
    PROVE  IsDir(out, PathOf(stream, i))
<1>1. PICK p : p = PathOf(stream, i)
  OBVIOUS
<1>2. p \in DescribedDirs
  BY <1>1 DEF DescribedDirs, Paths, At, PathOf
<1>3. IsDir(Tmp, p)
  BY <1>2 DEF ClosingInv
<1>4. todo = {} /\ \A q \in DOMAIN Tmp \ todo : IsDir(Tmp, q) => IsDir(out, q)
  BY DEF ReaderInv, PromoteInv
<1>5. p \in DOMAIN Tmp
  BY <1>3 DEF IsDir
<1> QED
  BY <1>1, <1>3, <1>4, <1>5

\* The time of a directory is set or waits, if nobody else is about.
TimesInv ==
    rpc \in {"metadata", "success"} /\ changes = << >> /\ intruders = {} =>
        \A i \in DOMAIN stream : stream[i].type = "Dir" =>
            \/ rpc = "metadata" /\ stream[i].body \in deferred
            \/ out[PathOf(stream, i)].mtime = stream[i].body.mtime

\* Setting the time of a directory, where two records of a directory agree.
LEMMA TimesApplied ==
    ASSUME ReaderInv, ClosingInv, SourceInv, DeferInv, TimesInv, [Next]_vars, NEW m \in deferred,
           ApplyMetadata(m)
    PROVE  TimesInv'
<1>1. /\ rpc = "metadata" /\ intruders' = intruders
      /\ \/ rpc' = "unwind"
         \/ /\ rpc' = rpc /\ deferred' = deferred \ {m}
            /\ out' = [q \in DOMAIN out |-> IF q = NormalPath(m.path)
                                            THEN Node(out[q].kind, out[q].bytes, m.mtime)
                                            ELSE out[q]]
  BY DEF ApplyMetadata, Throw
<1>2. UNCHANGED <<stream, changes>> /\ stage = "written" /\ Framed(stream)
  BY <1>1, WriterDone DEF ReaderInv, StreamInv
<1>3. SUFFICES ASSUME rpc' = rpc, changes = << >>, intruders = {}, NEW i \in DOMAIN stream,
                      stream[i].type = "Dir"
               PROVE  \/ stream[i].body \in deferred'
                      \/ out'[PathOf(stream, i)].mtime = stream[i].body.mtime
  BY <1>1, <1>2 DEF TimesInv, PathOf
<1>4. PICK b : b = stream[i].body
  OBVIOUS
<1>5. /\ PathOf(stream, i) = b.path
      /\ b.path \in DOMAIN input /\ b.mtime = input[b.path].mtime
  BY <1>2, <1>3, <1>4, SourcePath
<1>6. PICK j \in 1..records : stream[j].type = "Dir" /\ stream[j].body = m
  BY DEF DeferInv
<1>7. j \in DOMAIN stream
  BY <1>2, <1>6 DEF Framed, ReaderInv, ProgressInv
<1>8. /\ NormalPath(m.path) = m.path
      /\ m.path \in DOMAIN input /\ m.mtime = input[m.path].mtime
  BY <1>2, <1>3, <1>6, <1>7, SourcePath
<1>9. b.path \in DOMAIN out
  <2>1. AllRead(stream)
    BY <1>1 DEF DeferInv
  <2>2. i \in 1..Len(stream)
    BY <1>2 DEF Framed
  <2>3. b.path # << >>
    BY <1>3, <1>4, <2>1, <2>2 DEF AllRead, Sound, SafePath
  <2> QED
    BY <1>1, <1>3, <1>5, <2>3, DirsThere DEF IsDir
<1>10. b \in deferred \/ out[b.path].mtime = b.mtime
  BY <1>1, <1>3, <1>4, <1>5 DEF TimesInv
<1>11. out' = [q \in DOMAIN out |-> IF q = m.path THEN Node(out[q].kind, out[q].bytes, m.mtime)
                                    ELSE out[q]]
       /\ deferred' = deferred \ {m}
  BY <1>1, <1>3, <1>8
<1>12. CASE b.path = m.path
  <2>1. out'[b.path] = Node(out[b.path].kind, out[b.path].bytes, m.mtime)
    BY <1>9, <1>11, <1>12
  <2>2. out'[b.path].mtime = m.mtime
    BY <2>1 DEF Node
  <2> QED
    BY <1>4, <1>5, <1>8, <1>12, <2>2
<1>13. CASE b.path # m.path
  <2>1. out'[b.path] = out[b.path] /\ b # m
    BY <1>9, <1>11, <1>13
  <2> QED
    BY <1>4, <1>5, <1>10, <1>11, <2>1
<1> QED
  BY <1>12, <1>13

\* The times, action by action.
LEMMA TimesStep ==
    ReaderInv /\ ClosingInv /\ SourceInv /\ DeferInv /\ TimesInv /\ [Next]_vars => TimesInv'
<1> SUFFICES ASSUME ReaderInv, ClosingInv, SourceInv, DeferInv, TimesInv, [Next]_vars
             PROVE  TimesInv'
  OBVIOUS
<1>1. CASE UNCHANGED rvars
  <2>1. CASE rpc = "idle"
    BY <1>1, <2>1 DEF TimesInv, rvars
  <2>2. CASE rpc # "idle"
    <3>1. UNCHANGED <<stream, changes, rpc, deferred, out, intruders>>
      BY <1>1, <2>2, WriterDone DEF ReaderInv, rvars, tree_vars, out_vars, seen_vars
    <3> QED
      BY <3>1 DEF TimesInv, PathOf
  <2> QED
    BY <2>1, <2>2
<1>2. CASE rpc' \notin {"metadata", "success"}
  BY <1>2 DEF TimesInv
<1>3. CASE PromoteEnd /\ rpc' = "metadata"
  <2>1. rpc = "promote" /\ deferred' = deferred
    BY <1>3 DEF PromoteEnd, tree_vars
  <2>2. stream' = stream /\ DOMAIN stream = 1..Len(stream)
    BY <2>1, WriterDone DEF ReaderInv, StreamInv, Framed
  <2>3. \A i \in DOMAIN stream : stream[i].type = "Dir" => stream[i].body \in deferred
    BY <2>1, <2>2 DEF DeferInv, DirsDeferred
  <2> QED
    BY <1>3, <2>1, <2>2, <2>3 DEF TimesInv
<1>4. CASE FinishCleanup
  <2>1. /\ rpc = "metadata" /\ deferred = {} /\ UNCHANGED <<out, intruders, deferred>>
    BY <1>4 DEF FinishCleanup, out_vars
  <2>2. UNCHANGED <<stream, changes>>
    BY <2>1, WriterDone DEF ReaderInv
  <2> QED
    BY <2>1, <2>2 DEF TimesInv, PathOf
<1>5. ASSUME NEW p \in IntruderPaths, Intrude(p) PROVE TimesInv'
  BY <1>5 DEF Intrude, TimesInv
<1>6. CASE (\E o \in Outputs, dp \in DecryptParams : OpenDecrypt(o, dp)) \/ Discover \/ Construct
           \/ Consume \/ NeedMore \/ ProcessRecord \/ Finish
  <2>1. rpc' \notin {"metadata", "success"}
    BY <1>6 DEF OpenDecrypt, Discover, Construct, Consume, NeedMore, ProcessRecord, BeginArchive,
       CreateDirectory, BeginFile, WriteFileBytes, EndFile, EndArchive, SkipPadding,
       RejectRecord, Process, Finish, Throw
  <2> QED
    BY <1>2, <2>1
<1>7. CASE (\E p \in todo : PromoteDir(p) \/ PromoteCheck(p)) \/ PromoteRename \/ Unwind \/ Catch
  <2>1. rpc' \notin {"metadata", "success"}
    BY <1>7 DEF PromoteDir, PromoteCheck, PromoteRename, PromoteFails, Throw, Unwind, Catch
  <2> QED
    BY <1>2, <2>1
<1>8. CASE PromoteEnd
  BY <1>2, <1>3, <1>8 DEF PromoteEnd, Throw
<1> QED
  BY <1>1, <1>4, <1>5, <1>6, <1>7, <1>8, TimesApplied DEF Next, vars, Decrypt

\* From the input to the output: the inductive invariant.
RestoreInv == SourceInv /\ DirsEmpty(out) /\ DeferInv /\ TimesInv

\* It holds throughout.
LEMMA RestoreInvariant == Spec => []RestoreInv
<1>1. Init => DirsEmpty(out) /\ DeferInv /\ TimesInv
  <2>1. DOMAIN << >> = {}
    OBVIOUS
  <2> QED
    BY <2>1 DEF Init, ReaderInit, DirsEmpty, DeferInv, TimesInv
<1>2. ReaderInv /\ ParseInv /\ ClosingInv /\ SourceInv /\ DirsEmpty(out) /\ DeferInv /\ TimesInv
         /\ [Next]_vars => DirsEmpty(out)' /\ DeferInv' /\ TimesInv'
  BY EmptyStep, DeferStep, TimesStep
<1> QED
  BY <1>1, <1>2, SourceInvariant, ReaderInvariant, ExtractInvariant, PTL
     DEF Spec, RestoreInv, ExtractInv

\* The last record of a file describes it.
LEMMA LastDescribes ==
    ASSUME Framed(stream), NEW p \in Paths("File")
    PROVE  \E i \in At("File") : /\ PathOf(stream, i) = p
                                 /\ DescribedFile(p) = Node("file", Content(i), stream[i].body.mtime)
<1> DEFINE S == {i \in At("File") : NormalPath(stream[i].body.path) = p}
<1>1. S # {}
  BY DEF Paths
<1>2. S \subseteq 1..Len(stream) /\ Len(stream) \in Nat
  BY DEF Framed, At
<1>3. \E x \in S : \A y \in S : x >= y
  <2> DEFINE T == {Len(stream) - x : x \in S}
  <2>1. T \subseteq Nat /\ T # {}
    BY <1>1, <1>2
  <2>2. PICK t \in T : \A u \in T : t <= u
    BY <2>1, LeastNatural
  <2>3. PICK x \in S : t = Len(stream) - x
    OBVIOUS
  <2>4. ASSUME NEW y \in S PROVE x >= y
    <3>1. t <= Len(stream) - y
      BY <2>2
    <3> QED
      BY <1>2, <2>3, <3>1
  <2> QED
    BY <2>4
<1>4. Max(S) \in S
  BY <1>3 DEF Max
<1>5. DescribedFile(p) = Node("file", Content(Max(S)), stream[Max(S)].body.mtime)
  BY DEF DescribedFile
<1> HIDE DEF S
<1>6. PICK i \in S : i = Max(S)
  BY <1>4
<1>7. i \in At("File") /\ PathOf(stream, i) = p
  BY DEF S, PathOf
<1> QED
  BY <1>5, <1>6, <1>7

----------------------------------------------------------------------------
\* The archive is the writer's own and no entry was replaced by one of another kind.
Steady == \A i \in DOMAIN changes : changes[i] \notin {"foreign", "replace"}

\* Records keep their place and their meaning when one is appended.
LEMMA SoundAppended ==
    ASSUME NEW s \in Seq(Records), NEW r \in Records, NEW k \in 1..Len(s), Sound(s, k)
    PROVE  Sound(Append(s, r), k)
<1>1. PICK t : t = Append(s, r)
  OBVIOUS
<1>2. PICK n : n = Len(s)
  OBVIOUS
<1>3. n \in Nat /\ \A i \in 1..n : t[i] = s[i]
  BY <1>1, <1>2, AppendedStream
<1>4. \A i \in 1..n : \A j \in i..n : /\ EndsBy(t, i, j) <=> EndsBy(s, i, j)
                                      /\ BytesBetween(t, i, j) = BytesBetween(s, i, j)
  BY <1>1, <1>2, AppendedStream
<1>5. k \in 1..n /\ k - 1 \in 0..n /\ t[k] = s[k]
  BY <1>2, <1>3
<1>6. ASSUME NEW i \in 1..(k - 1)
      PROVE  /\ t[i] = s[i] /\ (EndsBy(t, i, k - 1) <=> EndsBy(s, i, k - 1))
             /\ BytesBetween(t, i, k - 1) = BytesBetween(s, i, k - 1)
  <2>1. i \in 1..n /\ k - 1 \in i..n
    BY <1>3, <1>5
  <2> QED
    BY <1>3, <1>4, <2>1
<1>7. {i \in 1..(k - 1) : t[i].type = "File"} = {i \in 1..(k - 1) : s[i].type = "File"}
  BY <1>6
<1>8. (\E i \in 1..(k - 1) : t[i].type = "End") <=> (\E i \in 1..(k - 1) : s[i].type = "End")
  BY <1>6
<1> DEFINE files == {i \in 1..(k - 1) : s[i].type = "File"}
<1>9. \A i \in files : /\ t[i] = s[i] /\ (EndsBy(t, i, k - 1) <=> EndsBy(s, i, k - 1))
                       /\ BytesBetween(t, i, k - 1) = BytesBetween(s, i, k - 1)
  BY <1>6
<1>10. {i \in 1..(k - 1) : t[i].type = "File"} = files
  BY <1>7
<1> HIDE DEF files
<1>11. /\ s[k].type \in RecordTypes \ {"Link"}
       /\ s[k].type = "Begin" <=> k = 1
       /\ s[k].type = "Begin" => s[k].body = Version
       /\ s[k].type \in {"Dir", "File"} => s[k].body.path # <<".">> /\ SafePath(s[k].body.path)
       /\ s[k].type = "Padding" <=> \E i \in 1..(k - 1) : s[i].type = "End"
       /\ s[k].type \in {"File", "End"} => \A i \in files : EndsBy(s, i, k - 1)
       /\ s[k].type \in {"Bytes", "FileEnd"} => \E i \in files : ~EndsBy(s, i, k - 1)
       /\ s[k].type = "FileEnd" => \A i \in files : ~EndsBy(s, i, k - 1) =>
             Len(BytesBetween(s, i, k - 1)) = s[i].body.size
  BY Zenon DEF Sound, files
<1>12. /\ t[k].type \in RecordTypes \ {"Link"}
       /\ t[k].type = "Begin" <=> k = 1
       /\ t[k].type = "Begin" => t[k].body = Version
       /\ t[k].type \in {"Dir", "File"} => t[k].body.path # <<".">> /\ SafePath(t[k].body.path)
       /\ t[k].type = "Padding" <=> \E i \in 1..(k - 1) : t[i].type = "End"
  BY <1>5, <1>8, <1>11
<1>13. /\ t[k].type \in {"File", "End"} => \A i \in files : EndsBy(t, i, k - 1)
       /\ t[k].type \in {"Bytes", "FileEnd"} => \E i \in files : ~EndsBy(t, i, k - 1)
       /\ t[k].type = "FileEnd" => \A i \in files : ~EndsBy(t, i, k - 1) =>
             Len(BytesBetween(t, i, k - 1)) = t[i].body.size
  BY <1>5, <1>9, <1>11
<1>14. Sound(t, k)
  BY <1>10, <1>12, <1>13, Zenon DEF Sound
<1> QED
  BY <1>1, <1>14

\* The records s, with rd the file being read, are such as a reader accepts.
FitsReader(s, rd) ==
    /\ \A k \in 1..Len(s) : Sound(s, k)
    /\ rd = << >> => \A i \in 1..Len(s) : s[i].type = "File" => EndsBy(s, i, Len(s))
    /\ rd # << >> => \E i \in 1..Len(s) :
          /\ s[i].type = "File" /\ ~EndsBy(s, i, Len(s))
          /\ rd[1].size = s[i].body.size /\ rd[1].read = Len(BytesBetween(s, i, Len(s)))

\* The record r may follow them.
Follows(r, s, rd) ==
    /\ r.type \in RecordTypes \ {"Link"}
    /\ r.type = "Begin" <=> Len(s) = 0
    /\ r.type = "Begin" => r.body = Version
    /\ r.type \in {"Dir", "File"} => r.body.path # <<".">> /\ SafePath(r.body.path)
    /\ r.type = "Padding" <=> \E i \in 1..Len(s) : s[i].type = "End"
    /\ r.type \in {"File", "End"} => rd = << >>
    /\ r.type \in {"Bytes", "FileEnd"} => rd # << >>
    /\ r.type = "FileEnd" => rd[1].read = rd[1].size

\* What is read after it.
ReadThen(r, rd, rd2) ==
    /\ r.type \notin {"File", "Bytes", "FileEnd"} => rd2 = rd
    /\ r.type = "File" => rd2 # << >> /\ rd2[1].size = r.body.size /\ rd2[1].read = 0
    /\ r.type = "Bytes" => /\ rd2 # << >> /\ rd2[1].size = rd[1].size
                           /\ rd2[1].read = rd[1].read + Len(r.body)
    /\ r.type = "FileEnd" => rd2 = << >>

\* One record more is sound.
LEMMA SoundLast ==
    ASSUME NEW s \in Seq(Records), NEW r \in Records, NEW rd, FitsReader(s, rd), Follows(r, s, rd)
    PROVE  Sound(Append(s, r), Len(s) + 1)
<1>1. PICK t : t = Append(s, r)
  OBVIOUS
<1>2. PICK n : n = Len(s)
  OBVIOUS
<1>3. n \in Nat /\ Len(t) = n + 1 /\ (\A i \in 1..n : t[i] = s[i]) /\ t[n + 1] = r
  BY <1>1, <1>2, AppendedStream
<1>4. \A i \in 1..n : \A j \in i..n : /\ EndsBy(t, i, j) <=> EndsBy(s, i, j)
                                      /\ BytesBetween(t, i, j) = BytesBetween(s, i, j)
  BY <1>1, <1>2, AppendedStream
<1>5. \A i \in 1..n : /\ EndsBy(t, i, n) <=> EndsBy(s, i, n)
                      /\ BytesBetween(t, i, n) = BytesBetween(s, i, n)
  BY <1>3, <1>4
<1> DEFINE files == {i \in 1..n : s[i].type = "File"}
<1>6. (n + 1) - 1 = n /\ {i \in 1..n : t[i].type = "File"} = files
  BY <1>3
<1>7. /\ r.type \in RecordTypes \ {"Link"}
      /\ r.type = "Begin" <=> n + 1 = 1
      /\ r.type = "Begin" => r.body = Version
      /\ r.type \in {"Dir", "File"} => r.body.path # <<".">> /\ SafePath(r.body.path)
      /\ r.type = "Padding" <=> \E i \in 1..n : t[i].type = "End"
  <2>1. /\ r.type \in RecordTypes \ {"Link"}
        /\ r.type = "Begin" <=> n = 0
        /\ r.type = "Begin" => r.body = Version
        /\ r.type \in {"Dir", "File"} => r.body.path # <<".">> /\ SafePath(r.body.path)
        /\ r.type = "Padding" <=> \E i \in 1..n : s[i].type = "End"
    BY <1>2 DEF Follows
  <2> QED
    BY <1>3, <2>1
<1>8. r.type \in {"File", "End"} => \A i \in files : EndsBy(t, i, n)
  <2>1. r.type \in {"File", "End"} => rd = << >>
    BY DEF Follows
  <2>2. rd = << >> => \A i \in 1..n : s[i].type = "File" => EndsBy(s, i, n)
    BY <1>2 DEF FitsReader
  <2> QED
    BY <1>5, <2>1, <2>2
<1>9. rd # << >> => \E i \in files : /\ ~EndsBy(s, i, n) /\ rd[1].size = s[i].body.size
                                     /\ rd[1].read = Len(BytesBetween(s, i, n))
  BY <1>2 DEF FitsReader
<1>10. r.type \in {"Bytes", "FileEnd"} => \E i \in files : ~EndsBy(t, i, n)
  <2>1. r.type \in {"Bytes", "FileEnd"} => rd # << >>
    BY DEF Follows
  <2> QED
    BY <1>5, <1>9, <2>1
<1>11. ASSUME r.type = "FileEnd", NEW i \in files, ~EndsBy(t, i, n)
       PROVE  Len(BytesBetween(t, i, n)) = t[i].body.size
  <2>1. rd # << >> /\ rd[1].read = rd[1].size
    BY <1>11 DEF Follows
  <2>2. PICK j \in files : /\ ~EndsBy(s, j, n) /\ rd[1].size = s[j].body.size
                           /\ rd[1].read = Len(BytesBetween(s, j, n))
    BY <1>9, <2>1
  <2>3. \A k \in 1..n : Sound(s, k)
    BY <1>2 DEF FitsReader
  <2>4. ~EndsBy(s, i, n)
    BY <1>5, <1>11
  <2>5. i = j
    BY <1>3, <2>2, <2>3, <2>4, OneOpen
  <2> QED
    BY <1>3, <1>5, <2>1, <2>2, <2>5
<1> HIDE DEF files
<1>12. Sound(t, n + 1)
  BY <1>3, <1>6, <1>7, <1>8, <1>10, <1>11, Zenon DEF Sound
<1> QED
  BY <1>1, <1>2, <1>12

\* One record more is what a reader accepts.
LEMMA FitsAppend ==
    ASSUME NEW s \in Seq(Records), NEW r \in Records, NEW rd, NEW rd2, FitsReader(s, rd),
           Follows(r, s, rd), ReadThen(r, rd, rd2), r.type = "Bytes" => r.body \in Seq(Nat),
           Framed(s)
    PROVE  FitsReader(Append(s, r), rd2)
<1>1. PICK t : t = Append(s, r)
  OBVIOUS
<1>2. PICK n : n = Len(s)
  OBVIOUS
<1>3. n \in Nat /\ Len(t) = n + 1 /\ (\A i \in 1..n : t[i] = s[i]) /\ t[n + 1] = r
  BY <1>1, <1>2, AppendedStream
<1>4. \A i \in 1..n : \A j \in i..n : /\ EndsBy(t, i, j) <=> EndsBy(s, i, j)
                                      /\ BytesBetween(t, i, j) = BytesBetween(s, i, j)
  BY <1>1, <1>2, AppendedStream
<1>5. \A i \in 1..n : /\ EndsBy(t, i, n) <=> EndsBy(s, i, n)
                      /\ BytesBetween(t, i, n) = BytesBetween(s, i, n)
  BY <1>3, <1>4
<1>6. \A k \in 1..(n + 1) : Sound(t, k)
  <2>1. \A k \in 1..n : Sound(s, k)
    BY <1>2 DEF FitsReader
  <2>2. \A k \in 1..n : Sound(t, k)
    BY <1>1, <1>2, <2>1, SoundAppended
  <2>3. Sound(t, n + 1)
    BY <1>1, <1>2, SoundLast
  <2>4. \A k \in 1..(n + 1) : k \in 1..n \/ k = n + 1
    BY <1>3
  <2> QED
    BY <2>2, <2>3, <2>4
<1>7. ASSUME NEW i \in 1..n
      PROVE  /\ EndsBy(t, i, n + 1) <=> EndsBy(s, i, n) \/ r.type = "FileEnd"
             /\ r.type = "Bytes" => BytesBetween(t, i, n + 1) = BytesBetween(s, i, n) \o r.body
             /\ r.type # "Bytes" => BytesBetween(t, i, n + 1) = BytesBetween(s, i, n)
  <2>1. i \in Nat /\ i <= n
    BY <1>3
  <2>2. EndsBy(t, i, n + 1) <=> EndsBy(t, i, n) \/ t[n + 1].type = "FileEnd"
    BY <1>3, <2>1, EndsNext
  <2>3. /\ t[n + 1].type = "Bytes" =>
             BytesBetween(t, i, n + 1) = BytesBetween(t, i, n) \o t[n + 1].body
        /\ t[n + 1].type # "Bytes" => BytesBetween(t, i, n + 1) = BytesBetween(t, i, n)
    BY <1>3, <2>1, BytesStep
  <2> QED
    BY <1>3, <1>5, <2>2, <2>3
<1>8. \A i \in 1..(n + 1) : i \in 1..n \/ i = n + 1
  BY <1>3
<1>9. /\ rd = << >> => \A i \in 1..n : s[i].type = "File" => EndsBy(s, i, n)
      /\ rd # << >> => \E i \in 1..n : /\ s[i].type = "File" /\ ~EndsBy(s, i, n)
                                       /\ rd[1].size = s[i].body.size
                                       /\ rd[1].read = Len(BytesBetween(s, i, n))
  BY <1>2 DEF FitsReader
<1>10. rd2 = << >> => \A i \in 1..(n + 1) : t[i].type = "File" => EndsBy(t, i, n + 1)
  <2> SUFFICES ASSUME rd2 = << >>, NEW i \in 1..(n + 1), t[i].type = "File"
               PROVE  EndsBy(t, i, n + 1)
    OBVIOUS
  <2>1. r.type # "File" /\ r.type # "Bytes"
    BY DEF ReadThen
  <2>2. i \in 1..n /\ s[i].type = "File"
    BY <1>3, <1>8, <2>1
  <2>3. r.type = "FileEnd" \/ rd = << >>
    BY <2>1 DEF ReadThen
  <2> QED
    BY <1>7, <1>9, <2>2, <2>3
<1>11. ASSUME rd2 # << >>
       PROVE  \E i \in 1..(n + 1) : /\ t[i].type = "File" /\ ~EndsBy(t, i, n + 1)
                                    /\ rd2[1].size = t[i].body.size
                                    /\ rd2[1].read = Len(BytesBetween(t, i, n + 1))
  <2>1. r.type # "FileEnd"
    BY <1>11 DEF ReadThen
  <2>2. CASE r.type = "File"
    <3>1. BytesBetween(t, n + 1, n + 1) = << >> /\ ~EndsBy(t, n + 1, n + 1)
      BY <1>3, BytesStep, EndsNext
    <3>2. Len(<< >>) = 0 /\ n + 1 \in 1..(n + 1)
      BY <1>3, EmptySeq
    <3>3. rd2[1].size = r.body.size /\ rd2[1].read = 0
      BY <2>2 DEF ReadThen
    <3> QED
      BY <1>3, <2>2, <3>1, <3>2, <3>3
  <2>3. CASE r.type # "File"
    <3>1. rd # << >>
      BY <1>11, <2>1, <2>3 DEF ReadThen, Follows
    <3>2. PICK i \in 1..n : /\ s[i].type = "File" /\ ~EndsBy(s, i, n)
                            /\ rd[1].size = s[i].body.size
                            /\ rd[1].read = Len(BytesBetween(s, i, n))
      BY <1>9, <3>1
    <3>3. i \in 1..(n + 1) /\ t[i] = s[i] /\ ~EndsBy(t, i, n + 1)
      BY <1>3, <1>7, <2>1, <3>2
    <3>4. rd2[1].size = rd[1].size /\ rd2[1].read = Len(BytesBetween(t, i, n + 1))
      <4>1. CASE r.type = "Bytes"
        <5>0. i \in Nat /\ i <= n /\ n <= Len(s)
          BY <1>2, <1>3
        <5>1. BytesBetween(s, i, n) \in Seq(Nat) /\ r.body \in Seq(Nat)
          BY <1>3, <4>1, <5>0, BytesTyped
        <5>2. Len(BytesBetween(s, i, n) \o r.body) = Len(BytesBetween(s, i, n)) + Len(r.body)
          BY <5>1, ConcatProperties
        <5>3. rd2[1].size = rd[1].size /\ rd2[1].read = rd[1].read + Len(r.body)
          BY <4>1 DEF ReadThen
        <5> QED
          BY <1>7, <3>2, <4>1, <5>2, <5>3
      <4>2. CASE r.type # "Bytes"
        BY <1>7, <2>1, <2>3, <3>2, <4>2 DEF ReadThen
      <4> QED
        BY <4>1, <4>2
    <3> QED
      BY <3>2, <3>3, <3>4
  <2> QED
    BY <2>2, <2>3
<1>12. FitsReader(t, rd2)
  BY <1>3, <1>6, <1>10, <1>11 DEF FitsReader
<1> QED
  BY <1>1, <1>12

----------------------------------------------------------------------------
\* What the walk has found stays true unless an entry is replaced: the paths are
\* safe, the kinds are still those of the input, and nothing is below a file.
WalkedPath(p) == p \in SomePaths /\ SafePath(p) /\ \A i \in DOMAIN p : p[i] # "."
WalkApart(es) ==
    \A k, l \in DOMAIN es : es[k].type = "file" /\ es[k].path \in AndAncestors(es[l].path) =>
        es[l].type = "file" /\ es[l].path = es[k].path
WalkedInv ==
    Steady /\ stage \notin {"failed", "refused"} =>
        /\ stage \in {"validate", "walk"} => changes = << >>
        /\ \A k \in DOMAIN entries :
              /\ WalkedPath(entries[k].path)
              /\ entries[k].path \in DOMAIN input => input[entries[k].path].kind = entries[k].type
        /\ WalkApart(entries)

\* Nothing is below a file of the input.
LEMMA WalkApartAtFirst ==
    ASSUME NEW t \in Trees, NEW es, \A k \in DOMAIN es : /\ es[k].path \in DOMAIN t
                                                         /\ t[es[k].path].kind = es[k].type
    PROVE  WalkApart(es) /\ \A k \in DOMAIN es : WalkedPath(es[k].path)
<1>1. /\ Tree(t) /\ \A p \in DOMAIN t : SafePath(p)
      /\ \A p \in DOMAIN t : \A i \in DOMAIN p : p[i] # "."
  BY InputsAssumption, TreesAssumption
<1>2. \A p \in DOMAIN t : p \in SomePaths
  BY <1>1 DEF Tree, SomePaths
<1>3. ASSUME NEW k \in DOMAIN es, NEW l \in DOMAIN es, es[k].type = "file",
             es[k].path \in AndAncestors(es[l].path)
      PROVE  es[l].type = "file" /\ es[l].path = es[k].path
  <2>1. PICK q : q = es[l].path
    OBVIOUS
  <2>2. q \in DOMAIN t /\ q \in Seq(STRING) /\ Len(q) \in Nat
    BY <1>2, <2>1, LenProperties DEF SomePaths
  <2>3. PICK i \in 1..Len(q) : es[k].path = SubSeq(q, 1, i)
    BY <1>3, <2>1 DEF AndAncestors
  <2>4. t[SubSeq(q, 1, i)].kind = "file"
    BY <1>3, <2>3
  <2>5. ~(i \in 1..(Len(q) - 1))
    BY <1>1, <2>2, <2>4 DEF Tree
  <2>6. i = Len(q)
    BY <2>2, <2>5
  <2>7. SubSeq(q, 1, i) = q
    BY <2>2, <2>6, SubSeqFull
  <2> QED
    BY <1>3, <2>1, <2>3, <2>7
<1> QED
  BY <1>1, <1>2, <1>3 DEF WalkApart, WalkedPath

\* The entries and the input, action by action.
LEMMA WalkedStep == LayoutInv /\ SourceInv /\ WalkedInv /\ [Next]_vars => WalkedInv'
<1> SUFFICES ASSUME LayoutInv, SourceInv, WalkedInv, [Next]_vars,
                    Steady', stage' \notin {"failed", "refused"}
             PROVE  WalkedInv'
  BY DEF WalkedInv
<1>0. ASSUME Steady, stage \notin {"failed", "refused"}, UNCHANGED <<entries, changes>>,
             stage' \in {"validate", "walk"} => stage \in {"validate", "walk"}, input' = input
      PROVE  WalkedInv'
  <2>1. /\ stage \in {"validate", "walk"} => changes = << >>
        /\ \A k \in DOMAIN entries :
              /\ WalkedPath(entries[k].path)
              /\ entries[k].path \in DOMAIN input => input[entries[k].path].kind = entries[k].type
        /\ WalkApart(entries)
    BY <1>0 DEF WalkedInv
  <2>2. WalkApart(entries')
    BY <1>0, <2>1
  <2> QED
    BY <1>0, <2>1, <2>2 DEF WalkedInv
<1>1. CASE UNCHANGED wvars
  <2>1. Steady /\ stage' = stage /\ UNCHANGED <<entries, changes, input>>
    BY <1>1 DEF wvars, Steady
  <2> QED
    BY <1>0, <2>1
<1>2. CASE Disturb
  <2>1. PICK p \in DOMAIN input : GrowFile(p) \/ ShrinkFile(p) \/ RemoveEntry(p) \/ ReplaceEntry(p)
    BY <1>2 DEF Disturb
  <2>2. stage \in {"plan", "begin", "entries"} /\ UNCHANGED <<stage, entries>>
    BY <2>1 DEF GrowFile, ShrinkFile, RemoveEntry, ReplaceEntry, Busy, Changed
  <2>3. PICK how : /\ changes' = Append(changes, how)
                   /\ ReplaceEntry(p) => how = "replace"
    BY <2>1 DEF GrowFile, ShrinkFile, RemoveEntry, ReplaceEntry, Changed
  <2>4. /\ Len(changes) \in Nat /\ DOMAIN changes = 1..Len(changes)
        /\ how = changes'[Len(changes) + 1]
        /\ DOMAIN changes' = 1..(Len(changes) + 1)
        /\ \A i \in DOMAIN changes : changes'[i] = changes[i]
    BY <2>3, LenProperties, AppendProperties DEF LayoutInv, WriterTyped
  <2>5. Steady /\ how # "replace"
    BY <2>4 DEF Steady
  <2>6. \A q \in DOMAIN input' : q \in DOMAIN input /\ input'[q].kind = input[q].kind
    <3>1. CASE GrowFile(p)
      BY <3>1 DEF GrowFile, Node
    <3>2. CASE ShrinkFile(p)
      BY <3>2 DEF ShrinkFile, Node
    <3>3. CASE RemoveEntry(p)
      BY <3>3 DEF RemoveEntry
    <3> QED
      BY <2>1, <2>3, <2>5, <3>1, <3>2, <3>3
  <2>7. /\ \A k \in DOMAIN entries :
              /\ WalkedPath(entries[k].path)
              /\ entries[k].path \in DOMAIN input => input[entries[k].path].kind = entries[k].type
        /\ WalkApart(entries)
    BY <2>2, <2>5 DEF WalkedInv
  <2>8. WalkApart(entries')
    BY <2>2, <2>7
  <2> QED
    BY <2>2, <2>6, <2>7, <2>8 DEF WalkedInv
<1>3. CASE Encrypt
  <2>1. changes' = changes /\ input' = input
    BY <1>3 DEF Encrypt, Validate, Walk, Plan, EmitBegin, EmitEntry, EmitFileBytes, EmitFileEnd,
       EmitEnd, EmitPadding, VerifyProduced
  <2>2. Steady
    BY <2>1 DEF Steady
  <2>3. CASE Walk
    <3>1. stage = "walk" /\ stage' = "plan" /\ \E S \in SUBSET Walkable : Lists(S)
      BY <2>3, WalkOutcome DEF Walk
    <3>2. input \in Trees
      <4>1. changes = << >>
        BY <2>2, <3>1 DEF WalkedInv
      <4> QED
        BY <3>1, <4>1 DEF SourceInv
    <3>3. \A i \in DOMAIN entries' : /\ entries'[i].path \in DOMAIN input
                                     /\ input[entries'[i].path].kind = entries'[i].type
      BY <3>1, WalkEntries DEF LayoutInv
    <3>4. WalkApart(entries') /\ \A k \in DOMAIN entries' : WalkedPath(entries'[k].path)
      BY <3>2, <3>3, WalkApartAtFirst
    <3> QED
      BY <2>1, <3>1, <3>3, <3>4 DEF WalkedInv
  <2>4. CASE ~Walk
    <3>1. /\ stage \notin {"failed", "refused"} /\ entries' = entries
          /\ stage' \in {"validate", "walk"} => stage \in {"validate", "walk"}
      BY <1>3, <2>4, Zenon DEF Encrypt, Validate, Plan, EmitBegin, EmitEntry, EmitFileBytes,
         EmitFileEnd, EmitEnd, EmitPadding, VerifyProduced, Become
    <3> QED
      BY <1>0, <2>1, <2>2, <3>1
  <2> QED
    BY <2>3, <2>4
<1> QED
  BY <1>1, <1>2, <1>3 DEF Next, vars

----------------------------------------------------------------------------
\* The record of an entry says what the walk has found.
OfEntry(r, es) ==
    /\ r.type = "Begin" => r.size = VersionSize
    /\ r.type \in {"Dir", "File"} =>
          \E k \in DOMAIN es :
              /\ es[k].path = r.body.path /\ es[k].type = r.body.kind
              /\ r.body.kind = IF r.type = "Dir" THEN "dir" ELSE "file"
              /\ r.body.target = << >> /\ (r.type = "Dir" => r.body.size = 0)
OfEntries(s, es) == \A i \in 1..Len(s) : OfEntry(s[i], es)
HasEnd(s) == \E i \in 1..Len(s) : s[i].type = "End"

\* What is emitted is what the reader demands.
FormInv ==
    Steady /\ stage \notin {"failed", "refused"} =>
        /\ cut = 0 /\ FitsReader(stream, reading) /\ OfEntries(stream, entries)
        /\ stage = "entries" => Len(stream) # 0
        /\ HasEnd(stream) <=> stage \in {"padding", "drained", "written"}
        /\ stage = "written" => header # << >> /\ StreamSize(stream) = header[1].padded

\* A step that emits a record.
LEMMA FormEmit ==
    ASSUME FormInv, Steady, stage \in {"begin", "entries", "padding"}, stage' \in Writing,
           stream \in Seq(Records), Framed(stream), NEW r \in Records, Emit(r),
           UNCHANGED <<entries, cut>>, r.type = "Bytes" => r.body \in Seq(Nat),
           Follows(r, stream, reading), ReadThen(r, reading, reading'), OfEntry(r, entries),
           r.type = "End" => stage' = "padding",
           r.type # "End" => (stage' \in {"padding", "drained"} <=> stage = "padding")
    PROVE  FormInv'
<1>1. /\ cut = 0 /\ FitsReader(stream, reading) /\ OfEntries(stream, entries)
      /\ HasEnd(stream) <=> stage = "padding"
  BY DEF FormInv
<1>2. stream' = Append(stream, r)
  BY DEF Emit
<1>3. FitsReader(stream', reading')
  BY <1>1, <1>2, FitsAppend
<1>4. PICK n : n = Len(stream)
  OBVIOUS
<1>5. /\ n \in Nat /\ Len(stream') = n + 1 /\ (\A i \in 1..n : stream'[i] = stream[i])
      /\ stream'[n + 1] = r
  BY <1>2, <1>4, AppendedStream
<1>6. \A i \in 1..(n + 1) : i \in 1..n \/ i = n + 1
  BY <1>5
<1>7. OfEntries(stream', entries')
  <2>1. \A i \in 1..n : OfEntry(stream'[i], entries)
    BY <1>1, <1>4, <1>5 DEF OfEntries
  <2>2. OfEntry(stream'[n + 1], entries)
    BY <1>5
  <2>3. \A i \in 1..(n + 1) : OfEntry(stream'[i], entries)
    BY <1>6, <2>1, <2>2
  <2>4. OfEntries(stream', entries)
    BY <1>5, <2>3 DEF OfEntries
  <2> QED
    BY <2>4
<1>8. HasEnd(stream') <=> HasEnd(stream) \/ r.type = "End"
  <2>1. HasEnd(stream) <=> \E i \in 1..n : stream[i].type = "End"
    BY <1>4 DEF HasEnd
  <2>2. HasEnd(stream') <=> \E i \in 1..(n + 1) : stream'[i].type = "End"
    BY <1>5 DEF HasEnd
  <2>3. n + 1 \in 1..(n + 1) /\ \A i \in 1..n : i \in 1..(n + 1)
    BY <1>5
  <2> QED
    BY <1>5, <1>6, <2>1, <2>2, <2>3
<1>9. stage' # "written" /\ Len(stream') # 0
  BY <1>5 DEF Writing
<1>10. stage' \in {"padding", "drained", "written"} <=> stage' \in {"padding", "drained"}
  BY <1>9
<1>11. cut' = 0
  BY <1>1
<1> QED
  BY <1>1, <1>3, <1>7, <1>8, <1>9, <1>10, <1>11 DEF FormInv

\* A step that emits none.
LEMMA FormSame ==
    ASSUME FormInv, Steady, stage \notin {"failed", "refused"}, UNCHANGED <<stream, cut>>,
           entries' = entries \/ stream = << >>, reading' = reading,
           stage' = "entries" => stage = "entries",
           stage' \in {"padding", "drained", "written"} <=>
              stage \in {"padding", "drained", "written"},
           stage' = "written" => header' # << >> /\ StreamSize(stream') = header'[1].padded
    PROVE  FormInv'
<1>1. /\ cut = 0 /\ FitsReader(stream, reading) /\ OfEntries(stream, entries)
      /\ stage = "entries" => Len(stream) # 0
      /\ HasEnd(stream) <=> stage \in {"padding", "drained", "written"}
  BY DEF FormInv
<1>2. FitsReader(stream', reading') /\ HasEnd(stream') = HasEnd(stream)
  BY <1>1 DEF HasEnd
<1>3. OfEntries(stream, entries')
  <2>1. CASE entries' = entries
    BY <1>1, <2>1
  <2>2. CASE stream = << >>
    <3>1. 1..Len(stream) = {}
      BY <2>2
    <3> QED
      BY <3>1 DEF OfEntries
  <2> QED
    BY <2>1, <2>2
<1>4. OfEntries(stream', entries')
  BY <1>3
<1> QED
  BY <1>1, <1>2, <1>4 DEF FormInv

\* The record of an entry.
LEMMA FormEntry ==
    ASSUME LayoutInv, StreamInv, WalkedInv, FormInv, Steady, EmitEntry, cut' = cut
    PROVE  FormInv'
<1>1. /\ stage = "entries" /\ reading = << >> /\ index <= Len(entries)
      /\ UNCHANGED <<input, params, entries, header, raw, changes>>
  BY DEF EmitEntry
<1>2. PICK e : e = entries[index]
  OBVIOUS
<1>3. /\ stream \in Seq(Records) /\ Len(entries) \in Nat /\ WriterTyped
      /\ index \in Nat \ {0} /\ index \in DOMAIN entries /\ Framed(stream)
  BY <1>1, LenProperties DEF LayoutInv, WriterTyped, PlanInv, Writing, StreamInv
<1>4. /\ e \in Entries /\ WalkedPath(e.path)
      /\ e.path \in DOMAIN input => input[e.path].kind = e.type
  <2>1. e \in Entries
    BY <1>2, <1>3 DEF WriterTyped
  <2> QED
    BY <1>1, <1>2, <1>3, <2>1 DEF WalkedInv
<1>5. CASE e.type = "special"
  <2>1. UNCHANGED <<stage, stream, reading>>
    BY <1>2, <1>5 DEF EmitEntry
  <2> QED
    BY <1>1, <2>1, FormSame
<1>6. CASE stage' = "failed"
  BY <1>6 DEF FormInv
<1>7. CASE e.type # "special" /\ stage' # "failed"
  <2> DEFINE m == MetadataFor(e)
             r == EntryRecord(IF e.type = "dir" THEN "Dir" ELSE "File", m)
  <2>1. ~MetadataThrows(e)
    BY <1>2, <1>7, Zenon DEF EmitEntry, Become
  <2>2. /\ Emit(r) /\ UNCHANGED stage
        /\ reading' = IF e.type = "file" THEN <<Reading(e.path, m.size, 0, FALSE)>> ELSE << >>
    BY <1>2, <1>7, <2>1, Zenon DEF EmitEntry, Become
  <2>3. r \in Records
    BY <1>3, <1>4, <2>1, MetadataMade DEF RecordTypes
  <2>4. r.body = m /\ r.type = IF e.type = "dir" THEN "Dir" ELSE "File"
    BY DEF EntryRecord, MakeRecord
  <2>5. input[e.path].kind = e.type /\ e.type \in {"file", "dir"}
    BY <1>4, <1>7, <2>1 DEF MetadataThrows, Entries
  <2>6. /\ m.path = e.path /\ m.kind = e.type /\ m.target = << >>
        /\ e.type = "dir" => m.size = 0
    BY <2>5 DEF MetadataFor, Metadata
  <2> HIDE DEF m, r
  <2>7. OfEntry(r, entries)
    BY <1>2, <1>3, <2>4, <2>5, <2>6 DEF OfEntry
  <2>8. Follows(r, stream, reading)
    <3>1. m.path # <<".">> /\ SafePath(m.path)
      BY <1>4, <2>6 DEF WalkedPath
    <3>2. Len(stream) # 0 /\ ~HasEnd(stream)
      BY <1>1 DEF FormInv
    <3>3. r.type \in {"Dir", "File"}
      BY <2>4
    <3> QED
      BY <1>1, <2>4, <3>1, <3>2, <3>3 DEF Follows, HasEnd, RecordTypes
  <2>9. ReadThen(r, reading, reading')
    <3>1. CASE e.type = "dir"
      BY <1>1, <2>2, <2>4, <3>1 DEF ReadThen
    <3>2. CASE e.type = "file"
      <4>1. reading' = <<Reading(e.path, m.size, 0, FALSE)>> /\ r.type = "File"
        BY <2>2, <2>4, <3>2
      <4>2. reading' # << >> /\ reading'[1].size = m.size /\ reading'[1].read = 0
        BY <4>1 DEF Reading
      <4> QED
        BY <2>4, <4>1, <4>2 DEF ReadThen
    <3> QED
      BY <2>5, <3>1, <3>2
  <2>10. r.type \in {"Dir", "File"} /\ stage' \in Writing
    BY <1>1, <2>2, <2>4 DEF Writing
  <2> QED
    BY <1>1, <1>3, <2>2, <2>3, <2>7, <2>8, <2>9, <2>10, FormEmit
<1> QED
  BY <1>5, <1>6, <1>7

\* The records of a file.
LEMMA FormFile ==
    ASSUME LayoutInv, StreamInv, FormInv, Steady, EmitFileBytes \/ EmitFileEnd, cut' = cut
    PROVE  FormInv'
<1>1. /\ stage = "entries" /\ reading # << >>
      /\ UNCHANGED <<input, params, entries, index, header, raw, changes>>
  BY DEF EmitFileBytes, EmitFileEnd
<1>2. PICK f : f = reading[1]
  OBVIOUS
<1>3. stream \in Seq(Records) /\ WriterTyped /\ Framed(stream)
  BY <1>1 DEF LayoutInv, PlanInv, Writing, StreamInv
<1>4. f \in Files /\ f.path \in DOMAIN input
  <2>1. reading \in Seq(Files) /\ reading[1].path \in DOMAIN input
    BY <1>1, <1>3 DEF WriterTyped
  <2> QED
    BY <1>1, <1>2, <2>1, EmptySeq, ElementOfSeq
<1>5. Len(stream) # 0 /\ ~HasEnd(stream)
  BY <1>1 DEF FormInv
<1>6. CASE EmitFileBytes
  <2> DEFINE b == NextBytes(f)
             r == BytesRecord(b)
  <2>1. /\ Emit(r) /\ stage' = stage
        /\ reading' = <<Reading(f.path, f.size, f.read + Len(b), Len(b) < PayloadSize)>>
    BY <1>2, <1>6 DEF EmitFileBytes
  <2>2. r \in Records /\ r.type = "Bytes" /\ r.body = b /\ b \in Seq(Nat)
    <3>1. b \in Seq(Nat)
      BY <1>3, <1>4, BytesRead
    <3> QED
      BY <3>1, RecordsMade DEF BytesRecord, MakeRecord
  <2> HIDE DEF b, r
  <2>3. reading' # << >> /\ reading'[1].size = f.size /\ reading'[1].read = f.read + Len(b)
    BY <2>1 DEF Reading
  <2>4. Follows(r, stream, reading)
    BY <1>1, <1>5, <2>2 DEF Follows, HasEnd, RecordTypes
  <2>5. ReadThen(r, reading, reading')
    BY <1>2, <2>2, <2>3 DEF ReadThen
  <2>6. OfEntry(r, entries) /\ stage' \in Writing
    BY <1>1, <2>1, <2>2 DEF OfEntry, Writing
  <2> QED
    BY <1>1, <1>3, <2>1, <2>2, <2>4, <2>5, <2>6, FormEmit
<1>7. CASE EmitFileEnd
  <2> DEFINE r == MarkRecord("FileEnd")
  <2>1. CASE stage' = "failed"
    BY <2>1 DEF FormInv
  <2>2. CASE stage' # "failed"
    <3>1. Emit(r) /\ stage' = stage /\ f.read = f.size /\ reading' = << >>
      BY <1>2, <1>7, <2>2, Zenon DEF EmitFileEnd, Become
    <3>2. r \in Records /\ r.type = "FileEnd"
      BY RecordsMade DEF RecordTypes, MarkRecord, MakeRecord
    <3> HIDE DEF r
    <3>3. Follows(r, stream, reading)
      BY <1>1, <1>2, <1>5, <3>1, <3>2 DEF Follows, HasEnd, RecordTypes
    <3>4. ReadThen(r, reading, reading')
      BY <3>1, <3>2 DEF ReadThen
    <3>5. OfEntry(r, entries) /\ stage' \in Writing
      BY <1>1, <3>1, <3>2 DEF OfEntry, Writing
    <3> QED
      BY <1>1, <1>3, <3>1, <3>2, <3>3, <3>4, <3>5, FormEmit
  <2> QED
    BY <2>1, <2>2
<1> QED
  BY <1>6, <1>7

\* The records around them.
LEMMA FormFrame ==
    ASSUME LayoutInv, StreamInv, FormInv, Steady, EmitBegin \/ EmitEnd \/ EmitPadding, cut' = cut
    PROVE  FormInv'
<1>1. /\ stage \in {"begin", "entries", "padding"}
      /\ UNCHANGED <<input, params, entries, index, reading, header, raw, changes>>
  BY DEF EmitBegin, EmitEnd, EmitPadding
<1>2. stream \in Seq(Records) /\ Framed(stream) /\ Len(stream) \in Nat
  BY <1>1, LenProperties DEF LayoutInv, PlanInv, Writing, StreamInv
<1>3. /\ stage = "begin" => stream = << >>
      /\ stage # "entries" => reading = << >>
  BY <1>1 DEF LayoutInv, PlanInv
<1>4. /\ stage = "entries" => Len(stream) # 0
      /\ HasEnd(stream) <=> stage = "padding"
  BY <1>1 DEF FormInv
<1>5. HasEnd(stream) => Len(stream) # 0
  BY <1>2 DEF HasEnd
<1>6. ASSUME NEW r \in Records, r.type \in {"Begin", "End", "Padding"}, Emit(r),
             r.type = "Begin" => /\ stage = "begin" /\ stage' = "entries"
                                 /\ r.body = Version /\ r.size = VersionSize,
             r.type = "End" => stage = "entries" /\ stage' = "padding" /\ reading = << >>,
             r.type = "Padding" => stage = "padding" /\ stage' = "drained"
      PROVE  FormInv'
  <2>1. Follows(r, stream, reading)
    <3>1. r.type = "Begin" <=> Len(stream) = 0
      BY <1>3, <1>4, <1>5, <1>6, EmptySeq
    <3>2. r.type = "Padding" <=> HasEnd(stream)
      BY <1>4, <1>6
    <3> QED
      BY <1>6, <3>1, <3>2 DEF Follows, HasEnd, RecordTypes
  <2>2. ReadThen(r, reading, reading')
    BY <1>1, <1>6 DEF ReadThen
  <2>3. OfEntry(r, entries) /\ stage' \in Writing
    BY <1>6 DEF OfEntry, Writing
  <2> QED
    BY <1>1, <1>2, <1>6, <2>1, <2>2, <2>3, FormEmit
<1>7. CASE EmitBegin
  <2>1. /\ BeginRecord \in Records /\ BeginRecord.type = "Begin" /\ BeginRecord.body = Version
        /\ BeginRecord.size = VersionSize
    BY RecordsMade DEF BeginRecord, MakeRecord
  <2> QED
    BY <1>6, <1>7, <2>1 DEF EmitBegin, Become
<1>8. CASE EmitEnd
  <2>1. MarkRecord("End") \in Records /\ MarkRecord("End").type = "End"
    BY RecordsMade DEF RecordTypes, MarkRecord, MakeRecord
  <2> QED
    BY <1>6, <1>8, <2>1 DEF EmitEnd, Become
<1>9. CASE EmitPadding
  <2> DEFINE gap == header[1].padded - raw
             r == PaddingRecord(gap - RecordPrefix)
  <2>1. stage = "padding" /\ stage' = "drained"
    BY <1>9 DEF EmitPadding, Become
  <2>2. CASE gap > 0
    <3>1. Emit(r)
      BY <1>9, <2>2 DEF EmitPadding
    <3>2. header # << >> /\ WriterTyped /\ PlanInv
      BY <2>1 DEF LayoutInv, PlanInv, Writing
    <3>3. header[1].padded \in Nat /\ raw \in Nat /\ (gap = 0 \/ gap >= RecordPrefix)
      BY <3>2, PaddingRoom DEF PlanInv
    <3>4. gap - RecordPrefix \in Nat
      BY <2>2, <3>3, RecordAssumption
    <3>5. r \in Records /\ r.type = "Padding"
      BY <3>4, RecordsMade DEF PaddingRecord, MakeRecord
    <3> HIDE DEF r
    <3> QED
      BY <1>6, <2>1, <3>1, <3>5
  <2>3. CASE ~(gap > 0)
    <3>1. stream' = stream
      BY <1>9, <2>3 DEF EmitPadding
    <3> QED
      BY <1>1, <2>1, <3>1, FormSame
  <2> QED
    BY <2>2, <2>3
<1> QED
  BY <1>7, <1>8, <1>9

\* What is emitted, action by action.
LEMMA FormStep == LayoutInv /\ StreamInv /\ WalkedInv /\ FormInv /\ [Next]_vars => FormInv'
<1> SUFFICES ASSUME LayoutInv, StreamInv, WalkedInv, FormInv, [Next]_vars,
                    Steady', stage' \notin {"failed", "refused"}
             PROVE  FormInv'
  BY DEF FormInv
<1>1. cut' = cut
  BY DEF Next, vars, rvars, Decrypt, OpenDecrypt, Discover, Construct, Consume, NeedMore,
     ProcessRecord, BeginArchive, CreateDirectory, BeginFile, WriteFileBytes, EndFile, EndArchive,
     SkipPadding, RejectRecord, Process, Finish, PromoteDir, PromoteCheck, PromoteRename,
     PromoteEnd, ApplyMetadata, FinishCleanup, Unwind, Catch, Intrude
<1>2. CASE UNCHANGED wvars
  <2>1. Steady /\ UNCHANGED <<stage, stream, entries, reading, header>>
    BY <1>2 DEF wvars, Steady
  <2>2. stage = "written" => header # << >> /\ StreamSize(stream) = header[1].padded
    BY <2>1 DEF FormInv
  <2>3. stage' = "written" => header' # << >> /\ StreamSize(stream') = header'[1].padded
    BY <2>1, <2>2
  <2> QED
    BY <1>1, <2>1, <2>3, FormSame
<1>3. CASE Disturb
  <2>1. /\ stage \in {"plan", "begin", "entries"} /\ UNCHANGED <<stage, entries, reading, stream>>
        /\ \E how : changes' = Append(changes, how)
    BY <1>3 DEF Disturb, GrowFile, ShrinkFile, RemoveEntry, ReplaceEntry, Busy, Changed
  <2>2. Steady
    <3>1. PICK how : changes' = Append(changes, how)
      BY <2>1
    <3>2. /\ Len(changes) \in Nat /\ DOMAIN changes = 1..Len(changes)
          /\ DOMAIN changes' = 1..(Len(changes) + 1)
          /\ \A i \in DOMAIN changes : changes'[i] = changes[i]
      BY <3>1, LenProperties, AppendProperties DEF LayoutInv, WriterTyped
    <3> QED
      BY <3>2 DEF Steady
  <2> QED
    BY <1>1, <2>1, <2>2, FormSame
<1>4. CASE Encrypt
  <2>1. Steady
    <3>1. changes' = changes
      BY <1>4 DEF Encrypt, Validate, Walk, Plan, EmitBegin, EmitEntry, EmitFileBytes, EmitFileEnd,
         EmitEnd, EmitPadding, VerifyProduced
    <3> QED
      BY <3>1 DEF Steady
  <2>2. CASE Validate \/ Walk \/ Plan
    <3>1. /\ stage \in {"validate", "walk", "plan"} /\ UNCHANGED <<reading, stream>>
          /\ stage' \in {"walk", "plan", "begin"}
      BY <2>2, Zenon DEF Validate, Walk, Plan, Become
    <3>2. stream = << >>
      BY <3>1 DEF LayoutInv, PlanInv
    <3> QED
      BY <1>1, <2>1, <3>1, <3>2, FormSame
  <2>3. CASE VerifyProduced
    <3>1. /\ stage = "drained" /\ UNCHANGED <<entries, reading, stream, header>>
          /\ stage' = "written" /\ StreamSize(stream) = header[1].padded
      BY <2>3, Zenon DEF VerifyProduced, Become
    <3>2. header # << >>
      BY <3>1 DEF LayoutInv, PlanInv, Writing
    <3>3. stage' = "written" => header' # << >> /\ StreamSize(stream') = header'[1].padded
      BY <3>1, <3>2
    <3> QED
      BY <1>1, <2>1, <3>1, <3>3, FormSame
  <2> QED
    BY <1>1, <1>4, <2>1, <2>2, <2>3, FormEntry, FormFile, FormFrame DEF Encrypt
<1> QED
  BY <1>2, <1>3, <1>4 DEF Next, vars

\* Both hold throughout.
LEMMA FormInvariant == Spec => [](WalkedInv /\ FormInv)
<1>1. Init => WalkedInv /\ FormInv
  <2> SUFFICES ASSUME Init PROVE WalkedInv /\ FormInv
    OBVIOUS
  <2>1. CASE WriterInit /\ cut = 0
    <3>1. DOMAIN << >> = {} /\ 1..Len(<< >>) = {}
      BY EmptySeq
    <3>2. /\ stage = "validate" /\ entries = << >> /\ stream = << >>
          /\ reading = << >> /\ changes = << >>
      BY <2>1 DEF WriterInit
    <3>3. WalkedInv
      BY <3>1, <3>2 DEF WalkedInv, WalkApart
    <3>4. FitsReader(stream, reading) /\ OfEntries(stream, entries) /\ ~HasEnd(stream)
      BY <3>1, <3>2 DEF FitsReader, OfEntries, HasEnd
    <3> QED
      BY <2>1, <3>2, <3>3, <3>4 DEF FormInv
  <2>2. ASSUME NEW f \in ForeignStreams, ForeignInit(f) PROVE WalkedInv /\ FormInv
    <3>1. ~Steady
      <4>1. changes = <<"foreign">>
        BY <2>2 DEF ForeignInit
      <4>2. 1 \in DOMAIN changes /\ changes[1] = "foreign"
        BY <4>1
      <4> QED
        BY <4>2 DEF Steady
    <3> QED
      BY <3>1 DEF WalkedInv, FormInv
  <2> QED
    BY <2>1, <2>2 DEF Init
<1>2. LayoutInv /\ ReaderInv /\ SourceInv /\ WalkedInv /\ FormInv /\ [Next]_vars
         => WalkedInv' /\ FormInv'
  BY WalkedStep, FormStep DEF ReaderInv
<1> QED
  BY <1>1, <1>2, LayoutInvariant, ReaderInvariant, SourceInvariant, PTL DEF Spec

----------------------------------------------------------------------------
\* The content of a file grows with the records.
LEMMA BytesGrow ==
    ASSUME NEW s, Framed(s), NEW i \in Nat, NEW m \in Nat, NEW n \in Nat, i <= m, m <= n, n <= Len(s)
    PROVE  Len(BytesBetween(s, i, m)) <= Len(BytesBetween(s, i, n))
<1> DEFINE T == {k \in Nat : m + k <= n =>
                    Len(BytesBetween(s, i, m)) <= Len(BytesBetween(s, i, m + k))}
<1>0. Len(s) \in Nat /\ DOMAIN s = 1..Len(s)
  BY DEF Framed
<1>1. \A k \in Nat : m + k <= n => Len(BytesBetween(s, i, m + k)) \in Nat
  <2> SUFFICES ASSUME NEW k \in Nat, m + k <= n PROVE Len(BytesBetween(s, i, m + k)) \in Nat
    OBVIOUS
  <2>1. PICK j \in Nat : j = m + k
    OBVIOUS
  <2>2. i <= j /\ j <= Len(s)
    BY <1>0, <2>1
  <2>3. BytesBetween(s, i, j) \in Seq(Nat)
    BY <2>2, BytesTyped
  <2> QED
    BY <2>1, <2>3, LenProperties
<1>2. 0 \in T
  <2>1. m + 0 = m /\ m + 0 <= n
    OBVIOUS
  <2>2. Len(BytesBetween(s, i, m)) \in Nat
    BY <1>1, <2>1
  <2> QED
    BY <2>1, <2>2
<1>3. ASSUME NEW k \in T PROVE k + 1 \in T
  <2> SUFFICES ASSUME m + (k + 1) <= n
               PROVE  Len(BytesBetween(s, i, m)) <= Len(BytesBetween(s, i, m + (k + 1)))
    OBVIOUS
  <2>1. PICK j \in Nat : j = m + k
    OBVIOUS
  <2>2. m + (k + 1) = j + 1 /\ i <= j /\ j <= n /\ j + 1 \in 1..Len(s) /\ j <= Len(s)
    BY <1>0, <2>1
  <2>3. Len(BytesBetween(s, i, m)) <= Len(BytesBetween(s, i, j))
    BY <2>1, <2>2
  <2>4. BytesBetween(s, i, j) \in Seq(Nat)
    BY <2>2, BytesTyped
  <2>5. /\ s[j + 1].type = "Bytes" =>
              BytesBetween(s, i, j + 1) = BytesBetween(s, i, j) \o s[j + 1].body
        /\ s[j + 1].type # "Bytes" => BytesBetween(s, i, j + 1) = BytesBetween(s, i, j)
    BY <2>2, BytesStep
  <2>6. Len(BytesBetween(s, i, j)) <= Len(BytesBetween(s, i, j + 1))
    <3>1. CASE s[j + 1].type = "Bytes"
      <4>1. s[j + 1].body \in Seq(Nat)
        BY <1>0, <2>2, <3>1 DEF Framed
      <4>2. Len(BytesBetween(s, i, j) \o s[j + 1].body)
               = Len(BytesBetween(s, i, j)) + Len(s[j + 1].body)
        BY <2>4, <4>1, ConcatProperties
      <4>3. Len(BytesBetween(s, i, j)) \in Nat /\ Len(s[j + 1].body) \in Nat
        BY <2>4, <4>1, LenProperties
      <4> QED
        BY <2>5, <3>1, <4>2, <4>3
    <3>2. CASE s[j + 1].type # "Bytes"
      <4>1. Len(BytesBetween(s, i, j)) \in Nat
        BY <2>4, LenProperties
      <4> QED
        BY <2>5, <3>2, <4>1
    <3> QED
      BY <3>1, <3>2
  <2>7. /\ Len(BytesBetween(s, i, m)) \in Nat /\ Len(BytesBetween(s, i, j)) \in Nat
        /\ Len(BytesBetween(s, i, j + 1)) \in Nat
    <3>1. m + 0 = m /\ m + 0 <= n /\ k + 1 \in Nat
      OBVIOUS
    <3>2. Len(BytesBetween(s, i, m)) \in Nat
      BY <1>1, <3>1
    <3>3. Len(BytesBetween(s, i, m + (k + 1))) \in Nat
      BY <1>1, <3>1
    <3> QED
      BY <2>2, <2>4, <3>2, <3>3, LenProperties
  <2> QED
    BY <2>2, <2>3, <2>6, <2>7
<1> HIDE DEF T
<1>4. Nat \subseteq T
  BY <1>2, <1>3, NatInd
<1>5. n - m \in T /\ m + (n - m) = n /\ n - m \in Nat
  BY <1>4
<1> QED
  BY <1>5 DEF T

\* The files described by the records of the walk are not above anything else.
LEMMA RecordsApart ==
    ASSUME NEW s, NEW es, OfEntries(s, es), WalkApart(es),
           \A k \in DOMAIN es : WalkedPath(es[k].path),
           NEW i \in 1..Len(s), NEW j \in 1..Len(s),
           s[i].type = "File", s[j].type \in {"Dir", "File"}
    PROVE  /\ PathOf(s, i) \in SomePaths /\ PathOf(s, j) \in SomePaths
           /\ PathOf(s, i) \in AndAncestors(PathOf(s, j)) =>
                 s[j].type = "File" /\ PathOf(s, j) = PathOf(s, i)
<1>1. PICK k \in DOMAIN es : es[k].path = s[i].body.path /\ es[k].type = "file"
  BY DEF OfEntries, OfEntry
<1>2. PICK l \in DOMAIN es : /\ es[l].path = s[j].body.path
                             /\ es[l].type = IF s[j].type = "Dir" THEN "dir" ELSE "file"
  BY DEF OfEntries, OfEntry
<1>3. WalkedPath(s[i].body.path) /\ WalkedPath(s[j].body.path)
  BY <1>1, <1>2
<1>4. \A p : WalkedPath(p) => NormalPath(p) = p
  BY NormalAlready DEF WalkedPath, SomePaths
<1>5. PathOf(s, i) = es[k].path /\ PathOf(s, j) = es[l].path
  BY <1>1, <1>2, <1>3, <1>4 DEF PathOf
<1>6. es[k].path \in SomePaths /\ es[l].path \in SomePaths
  BY <1>1, <1>2, <1>3 DEF WalkedPath
<1>7. es[k].path \in AndAncestors(es[l].path) => es[l].type = "file" /\ es[l].path = es[k].path
  BY <1>1 DEF WalkApart
<1> QED
  BY <1>2, <1>5, <1>6, <1>7

\* So the next entry finds no file in its way, and a file no directory in its place.
LEMMA NothingInTheWay ==
    ASSUME NEW s, NEW es, OfEntries(s, es), WalkApart(es),
           \A k \in DOMAIN es : WalkedPath(es[k].path),
           NEW n \in Nat, n + 1 <= Len(s), Len(s) \in Nat, s[n + 1].type \in {"Dir", "File"},
           NEW f, NEW t, Extracted(s, n, f, t)
    PROVE  /\ PathOf(s, n + 1) \in SomePaths
           /\ s[n + 1].type = "Dir" => DirsPossible(t, PathOf(s, n + 1))
           /\ s[n + 1].type = "File" =>
                 /\ DirsPossible(t, Parent(PathOf(s, n + 1)))
                 /\ PathOf(s, n + 1) \in DOMAIN t => t[PathOf(s, n + 1)].kind = "file"
<1>1. n + 1 \in 1..Len(s) /\ \A i \in 1..n : i \in 1..Len(s)
  OBVIOUS
<1>2. PICK p : p = PathOf(s, n + 1)
  OBVIOUS
<1>3. p \in SomePaths
  <2>1. PICK l \in DOMAIN es : es[l].path = s[n + 1].body.path
    BY <1>1 DEF OfEntries, OfEntry
  <2>2. WalkedPath(s[n + 1].body.path)
    BY <2>1
  <2>3. PathOf(s, n + 1) = s[n + 1].body.path
    BY <2>2, NormalAlready DEF WalkedPath, SomePaths, PathOf
  <2> QED
    BY <1>2, <2>2, <2>3 DEF WalkedPath
<1>4. p \in Seq(STRING) /\ AndAncestors(Parent(p)) \subseteq AndAncestors(p)
  BY <1>3, AboveFromBelow DEF SomePaths
<1>5. p \notin AndAncestors(Parent(p))
  BY <1>3, NotAboveItself
<1>6. \A q \in DOMAIN t : t[q].kind # "dir" => IsFile(t, q)
  BY DEF Extracted, IsFile
<1>7. ASSUME NEW q \in DOMAIN t, t[q].kind # "dir", q \in AndAncestors(p)
      PROVE  s[n + 1].type = "File" /\ p = q
  <2>1. PICK i \in 1..n : s[i].type = "File" /\ PathOf(s, i) = q
    BY <1>6, <1>7 DEF Extracted, SaysFile
  <2> QED
    BY <1>1, <1>2, <1>7, <2>1, RecordsApart
<1>8. s[n + 1].type = "Dir" => DirsPossible(t, p)
  BY <1>7 DEF DirsPossible
<1>9. s[n + 1].type = "File" => DirsPossible(t, Parent(p))
  BY <1>4, <1>5, <1>7 DEF DirsPossible
<1>10. ASSUME s[n + 1].type = "File", p \in DOMAIN t PROVE t[p].kind = "file"
  <2>1. SUFFICES ASSUME IsDir(t, p) PROVE FALSE
    BY <1>10 DEF Extracted, IsDir
  <2>2. PICK i \in 1..n : \/ s[i].type = "Dir" /\ p \in AndAncestors(PathOf(s, i))
                          \/ s[i].type = "File" /\ p \in AndAncestors(Parent(PathOf(s, i)))
    BY <2>1 DEF Extracted, SaysDir
  <2>3. PICK q : q = PathOf(s, i)
    OBVIOUS
  <2>4. /\ q \in SomePaths
        /\ p \in AndAncestors(q) => s[i].type = "File" /\ q = p
    BY <1>1, <1>2, <1>10, <2>2, <2>3, RecordsApart
  <2>5. AndAncestors(Parent(q)) \subseteq AndAncestors(q) /\ q \notin AndAncestors(Parent(q))
    BY <2>4, AboveFromBelow, NotAboveItself DEF SomePaths
  <2> QED
    BY <2>2, <2>3, <2>4, <2>5
<1> QED
  BY <1>2, <1>3, <1>8, <1>9, <1>10

\* No record is longer than the reader takes.
WithinLimit == \A i \in DOMAIN stream : stream[i].size <= MaxRecordPayload

\* What is known of the archive when it is read.
LEMMA WrittenForm ==
    ASSUME LayoutInv, StreamInv, WalkedInv, FormInv, Steady, rpc # "idle"
    PROVE  /\ Framed(stream) /\ cut = 0 /\ stage = "written" /\ OfEntries(stream, entries)
           /\ \A k \in 1..Len(stream) : Sound(stream, k)
           /\ \A i \in 1..Len(stream) : stream[i].type = "File" => EndsBy(stream, i, Len(stream))
           /\ HasEnd(stream) /\ header # << >> /\ StreamSize(stream) = header[1].padded
           /\ WalkApart(entries) /\ \A k \in DOMAIN entries : WalkedPath(entries[k].path)
<1>1. stage = "written" /\ Framed(stream)
  BY DEF StreamInv
<1>2. reading = << >>
  BY <1>1 DEF LayoutInv, PlanInv
<1>3. /\ cut = 0 /\ FitsReader(stream, reading) /\ OfEntries(stream, entries) /\ HasEnd(stream)
      /\ header # << >> /\ StreamSize(stream) = header[1].padded
  BY <1>1 DEF FormInv
<1>4. /\ \A k \in 1..Len(stream) : Sound(stream, k)
      /\ \A i \in 1..Len(stream) : stream[i].type = "File" => EndsBy(stream, i, Len(stream))
  BY <1>2, <1>3 DEF FitsReader
<1>5. WalkApart(entries) /\ \A k \in DOMAIN entries : WalkedPath(entries[k].path)
  BY <1>1 DEF WalkedInv
<1> QED
  BY <1>1, <1>3, <1>4, <1>5

\* The bytes of a record fit into what the open file was announced to have.
LEMMA BytesFit ==
    ASSUME NEW s, Framed(s), \A k \in 1..Len(s) : Sound(s, k),
           \A i \in 1..Len(s) : s[i].type = "File" => EndsBy(s, i, Len(s)),
           NEW n \in Nat, n + 1 <= Len(s), s[n + 1].type = "Bytes",
           NEW i \in 1..n, s[i].type = "File", ~EndsBy(s, i, n)
    PROVE  /\ Len(BytesBetween(s, i, n)) + Len(s[n + 1].body) <= s[i].body.size
           /\ s[i].body.size \in Nat
<1>1. PICK N \in Nat : N = Len(s) /\ DOMAIN s = 1..N
  BY DEF Framed
<1>2. i \in Nat /\ i \in 1..N /\ i <= n /\ n + 1 <= N /\ n + 1 \in 1..N
  BY <1>1
<1>3. EndsBy(s, i, N)
  BY <1>1, <1>2
<1>4. PICK e \in (i + 1)..N : s[e].type = "FileEnd" /\ ~EndsBy(s, i, e - 1)
  BY <1>2, <1>3, FirstEnd
<1>5. n + 1 <= e - 1 /\ e - 1 \in Nat /\ e - 1 <= N /\ e \in 1..N /\ i \in 1..(e - 1)
  <2>1. ~(e \in (i + 1)..n)
    BY <1>4 DEF EndsBy
  <2>2. e # n + 1
    BY <1>4
  <2> QED
    BY <1>2, <2>1, <2>2
<1>6. Len(BytesBetween(s, i, e - 1)) = s[i].body.size
  <2>1. Sound(s, e)
    BY <1>1, <1>5
  <2> QED
    BY <1>4, <1>5, <2>1 DEF Sound
<1>7. Len(BytesBetween(s, i, n + 1)) <= Len(BytesBetween(s, i, e - 1))
  <2>1. n + 1 \in Nat /\ i <= n + 1 /\ e - 1 <= Len(s)
    BY <1>1, <1>2, <1>5
  <2> QED
    BY <1>2, <1>5, <2>1, BytesGrow
<1>8. Len(BytesBetween(s, i, n + 1)) = Len(BytesBetween(s, i, n)) + Len(s[n + 1].body)
  <2>1. BytesBetween(s, i, n + 1) = BytesBetween(s, i, n) \o s[n + 1].body
    BY <1>2, BytesStep
  <2>2. BytesBetween(s, i, n) \in Seq(Nat)
    <3>1. n <= Len(s)
      BY <1>1, <1>2
    <3> QED
      BY <1>2, <3>1, BytesTyped
  <2>3. s[n + 1].body \in Seq(Nat)
    BY <1>1, <1>2 DEF Framed
  <2> QED
    BY <2>1, <2>2, <2>3, ConcatProperties
<1>9. Len(BytesBetween(s, i, e - 1)) \in Nat
  <2>1. i <= e - 1 /\ e - 1 <= Len(s)
    BY <1>1, <1>2, <1>5
  <2> QED
    BY <1>2, <1>5, <2>1, BytesTyped, LenProperties
<1> QED
  BY <1>6, <1>7, <1>8, <1>9

\* No record of such an archive is refused by its handler.
LEMMA RecordAllowed ==
    ASSUME LayoutInv, ReaderInv, ParseInv, WalkedInv, FormInv, Steady, rpc \in {"feed", "parse"},
           records # Len(stream)
    PROVE  Allowed(Rec)
<1>1. StreamInv /\ ProgressInv /\ rpc # "idle"
  BY DEF ReaderInv
<1>2. /\ Framed(stream) /\ OfEntries(stream, entries)
      /\ \A k \in 1..Len(stream) : Sound(stream, k)
      /\ \A i \in 1..Len(stream) : stream[i].type = "File" => EndsBy(stream, i, Len(stream))
      /\ WalkApart(entries) /\ \A k \in DOMAIN entries : WalkedPath(entries[k].path)
  BY <1>1, WrittenForm
<1>3. PICK n \in Nat : n = records /\ n + 1 <= Len(stream) /\ Len(stream) \in Nat
  <2>1. PICK N \in Nat : N = Len(stream)
    BY <1>2 DEF Framed
  <2>2. records \in 0..N /\ records # N
    BY <1>1, <2>1 DEF ProgressInv
  <2> QED
    BY <2>1, <2>2
<1>4. n + 1 \in 1..Len(stream) /\ (n + 1) - 1 = n
  BY <1>3
<1>5. Grammar(stream, n, begun, ended, file) /\ Extracted(stream, n, file, Tmp)
  BY <1>3 DEF ParseInv
<1>6. PICK r : r = stream[n + 1] /\ r = Rec
  BY <1>3 DEF Rec
<1>7. /\ r.type \in RecordTypes \ {"Link"}
      /\ r.type = "Begin" <=> n = 0
      /\ r.type = "Begin" => r.body = Version
      /\ r.type \in {"Dir", "File"} => r.body.path # <<".">> /\ SafePath(r.body.path)
      /\ r.type = "Padding" <=> \E i \in 1..n : stream[i].type = "End"
      /\ r.type \in {"File", "End"} => \A i \in 1..n : stream[i].type = "File" => EndsBy(stream, i, n)
      /\ r.type \in {"Bytes", "FileEnd"} =>
            \E i \in 1..n : stream[i].type = "File" /\ ~EndsBy(stream, i, n)
      /\ r.type = "FileEnd" => \A i \in 1..n : stream[i].type = "File" /\ ~EndsBy(stream, i, n) =>
            Len(BytesBetween(stream, i, n)) = stream[i].body.size
  <2>1. Sound(stream, n + 1)
    BY <1>2, <1>4
  <2> QED
    BY <1>3, <1>4, <1>6, <2>1 DEF Sound
<1>8. OfEntry(r, entries)
  BY <1>2, <1>4, <1>6 DEF OfEntries
<1>9. begun <=> n # 0
  BY <1>5 DEF Grammar
<1>10. ended <=> r.type = "Padding"
  BY <1>5, <1>7 DEF Grammar
<1>11. r.type \in {"File", "End"} => file = << >>
  BY <1>5, <1>7 DEF Grammar
<1>12. r.type \in {"Bytes", "FileEnd"} => file # << >>
  BY <1>5, <1>7 DEF Grammar
<1>13. file # << >> => \E i \in 1..n : /\ stream[i].type = "File" /\ ~EndsBy(stream, i, n)
                                       /\ file[1].meta = stream[i].body
                                       /\ file[1].written = Len(BytesBetween(stream, i, n))
  BY <1>5 DEF Grammar
<1>14. r.type = "Begin" => BeginAllowed(r)
  BY <1>7, <1>8, <1>9 DEF BeginAllowed, OfEntry
<1>15. r.type \in {"Dir", "File"} =>
          /\ PathOf(stream, n + 1) \in SomePaths
          /\ r.type = "Dir" => DirsPossible(Tmp, PathOf(stream, n + 1))
          /\ r.type = "File" =>
                /\ DirsPossible(Tmp, Parent(PathOf(stream, n + 1)))
                /\ PathOf(stream, n + 1) \in DOMAIN Tmp => Tmp[PathOf(stream, n + 1)].kind = "file"
  BY <1>2, <1>3, <1>5, <1>6, NothingInTheWay
<1>16. PathOf(stream, n + 1) = NormalPath(r.body.path)
  BY <1>6 DEF PathOf
<1>17. r.type \in {"Dir", "File"} =>
          /\ r.body.kind = (IF r.type = "Dir" THEN "dir" ELSE "file") /\ r.body.target = << >>
          /\ r.type = "Dir" => r.body.size = 0
  BY <1>8 DEF OfEntry
<1>18. r.type \in {"Dir", "File"} => ValidMetadata(r.body) /\ begun
  BY <1>7, <1>9, <1>17 DEF ValidMetadata
<1>19. r.type = "Dir" => DirAllowed(r.body)
  BY <1>15, <1>16, <1>17, <1>18 DEF DirAllowed
<1>20. r.type = "File" => FileAllowed(r.body)
  <2> SUFFICES ASSUME r.type = "File" PROVE FileAllowed(r.body)
    OBVIOUS
  <2>1. PICK p : p = NormalPath(r.body.path)
    OBVIOUS
  <2>2. /\ p # << >> /\ DirsPossible(Tmp, Parent(p))
        /\ p \in DOMAIN Tmp => Tmp[p].kind = "file"
    BY <1>15, <1>16, <2>1 DEF SomePaths
  <2> QED
    BY <1>11, <1>17, <1>18, <2>1, <2>2 DEF FileAllowed
<1>21. r.type = "Bytes" => BytesAllowed(r.body)
  <2> SUFFICES ASSUME r.type = "Bytes" PROVE BytesAllowed(r.body)
    OBVIOUS
  <2>1. PICK i \in 1..n : /\ stream[i].type = "File" /\ ~EndsBy(stream, i, n)
                          /\ file[1].meta = stream[i].body
                          /\ file[1].written = Len(BytesBetween(stream, i, n))
    BY <1>12, <1>13
  <2>2. /\ Len(BytesBetween(stream, i, n)) + Len(r.body) <= stream[i].body.size
        /\ stream[i].body.size \in Nat
    BY <1>2, <1>3, <1>6, <2>1, BytesFit
  <2>3. Len(BytesBetween(stream, i, n)) \in Nat /\ Len(r.body) \in Nat
    <3>1. i \in Nat /\ i <= n /\ n <= Len(stream)
      BY <1>3
    <3>2. BytesBetween(stream, i, n) \in Seq(Nat) /\ r.body \in Seq(Nat)
      BY <1>2, <1>4, <1>6, <3>1, BytesTyped DEF Framed
    <3> QED
      BY <3>2, LenProperties
  <2> QED
    BY <1>12, <2>1, <2>2, <2>3 DEF BytesAllowed
<1>22. r.type = "FileEnd" => FileEndAllowed
  BY <1>7, <1>12, <1>13 DEF FileEndAllowed
<1>23. r.type = "End" => EndAllowed
  BY <1>7, <1>9, <1>11 DEF EndAllowed
<1> QED
  BY <1>6, <1>7, <1>10, <1>14, <1>19, <1>20, <1>21, <1>22, <1>23 DEF Allowed, RecordTypes

----------------------------------------------------------------------------
\* While the reader waits for the next chunk, no complete record is left.
FeedInv ==
    /\ rpc \in {"idle", "discover", "construct"} => arrived = 0
    /\ rpc = "feed" => Arriving = "incomplete"

\* Chunks and records, action by action.
LEMMA FeedStep == ReaderInv /\ ParseInv /\ FeedInv /\ [Next]_vars => FeedInv'
<1> SUFFICES ASSUME ReaderInv, ParseInv, FeedInv, [Next]_vars PROVE FeedInv'
  OBVIOUS
<1>1. StreamInv
  BY DEF ReaderInv
<1>2. rpc # "idle" => stream' = stream
  BY <1>1, WriterDone
<1>3. CASE UNCHANGED <<rpc, arrived, taken, records>>
  <2>1. CASE rpc = "idle"
    BY <1>3, <2>1 DEF FeedInv
  <2>2. CASE rpc # "idle"
    <3>1. Arriving' = Arriving
      BY <1>2, <1>3, <2>2 DEF Arriving, Rec
    <3> QED
      BY <1>3, <3>1 DEF FeedInv
  <2> QED
    BY <2>1, <2>2
<1>4. CASE rpc' \notin {"idle", "discover", "construct", "feed"}
  BY <1>4 DEF FeedInv
<1>5. ASSUME NEW o, NEW dp, OpenDecrypt(o, dp) PROVE FeedInv'
  BY <1>5 DEF OpenDecrypt, FeedInv, parse_vars
<1>6. ASSUME Discover PROVE FeedInv'
  BY <1>6 DEF Discover, FeedInv, parse_vars
<1>7. ASSUME Construct PROVE FeedInv'
  <2>1. arrived' = 0 /\ taken' = 0 /\ rpc' \in {"feed", "catch"}
    BY <1>7 DEF Construct, FeedInv, ParseInv, parse_vars
  <2>2. Framing(0, Rec') = "incomplete"
    BY RecordAssumption DEF Framing
  <2>3. Arriving' = "incomplete"
    BY <2>1, <2>2 DEF Arriving
  <2> QED
    BY <2>1, <2>3 DEF FeedInv
<1>8. ASSUME NeedMore PROVE FeedInv'
  <2>1. /\ rpc = "parse" /\ rpc' = "feed" /\ Arriving = "incomplete"
        /\ UNCHANGED <<arrived, taken, records>>
    BY <1>8 DEF NeedMore, parse_vars
  <2>2. Arriving' = Arriving
    BY <1>2, <2>1 DEF Arriving, Rec
  <2> QED
    BY <2>1, <2>2 DEF FeedInv
<1>9. ASSUME Consume \/ ProcessRecord \/ Finish
      PROVE  rpc' \notin {"idle", "discover", "construct", "feed"}
  BY <1>9 DEF Consume, ProcessRecord, BeginArchive, CreateDirectory, BeginFile, WriteFileBytes,
     EndFile, EndArchive, SkipPadding, RejectRecord, Process, Throw, Finish
<1>10. ASSUME \/ \E p \in todo : PromoteDir(p) \/ PromoteCheck(p)
              \/ PromoteRename \/ PromoteEnd \/ (\E m \in deferred : ApplyMetadata(m))
              \/ FinishCleanup \/ Unwind \/ Catch
       PROVE  rpc' \notin {"idle", "discover", "construct", "feed"}
  BY <1>10 DEF PromoteDir, PromoteCheck, PromoteRename, PromoteEnd, ApplyMetadata, FinishCleanup,
     PromoteFails, Throw, Unwind, Catch
<1>11. ASSUME NEW p, Intrude(p) PROVE FeedInv'
  BY <1>3, <1>11 DEF Intrude, parse_vars
<1>12. CASE UNCHANGED rvars
  BY <1>3, <1>12 DEF rvars, parse_vars
<1> QED
  BY <1>4, <1>5, <1>6, <1>7, <1>8, <1>9, <1>10, <1>11, <1>12 DEF Next, vars, Decrypt

\* At the end of such an archive finish() finds everything in order.
LEMMA EndComplete ==
    ASSUME LayoutInv, ReaderInv, ParseInv, WalkedInv, FormInv, FeedInv, Steady, rpc = "feed",
           arrived = Total
    PROVE  Complete
<1>1. StreamInv /\ ProgressInv /\ rpc # "idle"
  BY DEF ReaderInv
<1>2. /\ Framed(stream) /\ cut = 0
      /\ \A i \in 1..Len(stream) : stream[i].type = "File" => EndsBy(stream, i, Len(stream))
      /\ HasEnd(stream) /\ header # << >> /\ StreamSize(stream) = header[1].padded
  BY <1>1, WrittenForm
<1>3. PICK N \in Nat : N = Len(stream) /\ DOMAIN stream = 1..N /\ records \in 0..N
  BY <1>1, <1>2 DEF Framed, ProgressInv
<1>4. \A k \in 1..N : Sizes[k] = EncodedSize(stream[k]) /\ Sizes[k] \in Nat
  BY <1>2, <1>3, RecordAssumption DEF Sizes, Framed, EncodedSize
<1>5. StreamSize(stream) = SumUpTo(Sizes, N) /\ taken = SumUpTo(Sizes, records)
  BY <1>3 DEF StreamSize, Sizes, ParseInv
<1>6. \A k \in 0..N : SumUpTo(Sizes, k) \in Nat
  BY <1>3, <1>4, SumNat
<1>7. arrived = SumUpTo(Sizes, N)
  <2>1. SumUpTo(Sizes, N) \in Nat
    BY <1>3, <1>6
  <2> QED
    BY <1>2, <1>5, <2>1 DEF Total
<1>8. records = N
  <2> SUFFICES ASSUME records # N PROVE FALSE
    OBVIOUS
  <2>1. PICK n \in Nat : n = records /\ n + 1 \in 0..N /\ n + 1 \in 1..N /\ n \in 0..N
    BY <1>3
  <2>2. SumUpTo(Sizes, n + 1) = SumUpTo(Sizes, n) + Sizes[n + 1]
    BY <2>1, SumStep
  <2>3. SumUpTo(Sizes, n + 1) <= SumUpTo(Sizes, N)
    BY <1>3, <1>4, <2>1, SumGrows
  <2>4. Sizes[n + 1] = EncodedSize(Rec)
    BY <1>4, <2>1 DEF Rec
  <2>5. /\ SumUpTo(Sizes, n) \in Nat /\ SumUpTo(Sizes, N) \in Nat /\ SumUpTo(Sizes, n + 1) \in Nat
        /\ Sizes[n + 1] \in Nat
    BY <1>3, <1>4, <1>6, <2>1
  <2>6. arrived - taken >= EncodedSize(Rec) /\ arrived - taken \in Int /\ EncodedSize(Rec) \in Nat
    BY <1>5, <1>7, <2>1, <2>2, <2>3, <2>4, <2>5
  <2>7. RecordPrefix \in Nat /\ EncodedSize(Rec) >= RecordPrefix
    <3>1. stream[n + 1].size \in Nat
      BY <1>2, <1>3, <2>1 DEF Framed
    <3>2. Rec = stream[n + 1]
      BY <2>1 DEF Rec
    <3> QED
      BY <3>1, <3>2, RecordAssumption DEF EncodedSize
  <2>8. Framing(arrived - taken, Rec) # "incomplete"
    BY <2>6, <2>7 DEF Framing
  <2>9. Arriving # "incomplete"
    BY <1>3, <2>8 DEF Arriving
  <2> QED
    BY <2>9 DEF FeedInv
<1>9. Grammar(stream, N, begun, ended, file)
  BY <1>8 DEF ParseInv
<1>10. (\E i \in 1..N : stream[i].type = "End") /\ N # 0
  BY <1>2, <1>3 DEF HasEnd
<1>11. begun /\ ended
  BY <1>9, <1>10 DEF Grammar
<1>12. file = << >>
  <2>1. \A i \in 1..N : stream[i].type = "File" => EndsBy(stream, i, N)
    BY <1>2, <1>3
  <2> QED
    BY <1>9, <2>1 DEF Grammar
<1>13. arrived = taken /\ arrived = header[1].padded
  BY <1>2, <1>3, <1>5, <1>7, <1>8
<1> QED
  BY <1>11, <1>12, <1>13 DEF Complete, LengthMatches

\* Nothing is refused of an archive whose records are not too long.
RefusalInv == rpc = "idle" \/ (Steady /\ WithinLimit) => cause # "reject"

\* Refusals, action by action.
LEMMA RefusalStep ==
    LayoutInv /\ ReaderInv /\ ParseInv /\ WalkedInv /\ FormInv /\ FeedInv /\ RefusalInv
        /\ [Next]_vars => RefusalInv'
<1> SUFFICES ASSUME LayoutInv, ReaderInv, ParseInv, WalkedInv, FormInv, FeedInv, RefusalInv,
                    [Next]_vars
             PROVE  RefusalInv'
  OBVIOUS
<1>1. StreamInv /\ ProgressInv
  BY DEF ReaderInv
<1>2. rpc # "idle" => (Steady' => Steady) /\ (WithinLimit' => WithinLimit)
  BY <1>1, WriterDone DEF Steady, WithinLimit
<1>3. ASSUME UNCHANGED cause, rpc' = "idle" => rpc = "idle" PROVE RefusalInv'
  BY <1>2, <1>3 DEF RefusalInv
<1>4. ASSUME cause' # "reject" PROVE RefusalInv'
  BY <1>4 DEF RefusalInv
<1>5. CASE UNCHANGED rvars
  BY <1>3, <1>5 DEF rvars, seen_vars
<1>6. ASSUME NEW p, Intrude(p) PROVE RefusalInv'
  BY <1>3, <1>6 DEF Intrude
<1>7. ASSUME NEW o, NEW dp, OpenDecrypt(o, dp) PROVE RefusalInv'
  BY <1>3, <1>7 DEF OpenDecrypt
<1>8. ASSUME Discover \/ Construct \/ Consume PROVE RefusalInv'
  <2>1. (cause' = cause \/ cause' = "fault") /\ rpc' # "idle"
    BY <1>8 DEF Discover, Construct, Consume, Throw
  <2> QED
    BY <1>3, <1>4, <2>1
<1>9. ASSUME NeedMore PROVE RefusalInv'
  BY <1>3, <1>9 DEF NeedMore, seen_vars
<1>10. ASSUME NEW type, Process(type) PROVE RefusalInv'
  BY <1>3, <1>10 DEF Process, seen_vars
<1>11. ASSUME RejectRecord PROVE RefusalInv'
  <2> SUFFICES ASSUME cause' = "reject", Steady', WithinLimit' PROVE FALSE
    <3>1. rpc' # "idle"
      BY <1>11 DEF RejectRecord, Throw
    <3> QED
      BY <3>1 DEF RefusalInv
  <2>1. /\ rpc = "parse"
        /\ Arriving = "invalid" \/ (Arriving = "complete" /\ ~Allowed(Rec))
    BY <1>11 DEF RejectRecord, Throw
  <2>2. Steady /\ WithinLimit
    BY <1>2, <2>1
  <2>3. records # Len(stream) /\ Arriving = Framing(arrived - taken, Rec)
    BY <2>1 DEF Arriving
  <2>4. Allowed(Rec)
    BY <2>1, <2>2, <2>3, RecordAllowed
  <2>5. Arriving # "invalid"
    <3>1. /\ Framed(stream) /\ \A k \in 1..Len(stream) : Sound(stream, k)
      BY <1>1, <2>1, <2>2, WrittenForm
    <3>2. PICK N \in Nat : N = Len(stream) /\ DOMAIN stream = 1..N
      BY <3>1 DEF Framed
    <3>3. records + 1 \in 1..N
      BY <1>1, <2>3, <3>2 DEF ProgressInv
    <3>4. Rec.type \in RecordTypes
      BY <3>1, <3>2, <3>3 DEF Sound, Rec
    <3>5. Rec.size <= MaxRecordPayload /\ Rec.size \in Nat /\ MaxRecordPayload \in Nat
      BY <2>2, <3>1, <3>2, <3>3, RecordAssumption DEF WithinLimit, Rec, Framed
    <3> QED
      BY <2>3, <3>4, <3>5 DEF Framing
  <2> QED
    BY <2>1, <2>4, <2>5
<1>12. ASSUME Finish PROVE RefusalInv'
  <2> SUFFICES ASSUME cause' = "reject", Steady', WithinLimit' PROVE FALSE
    <3>1. rpc' # "idle"
      BY <1>12 DEF Finish, Throw
    <3> QED
      BY <3>1 DEF RefusalInv
  <2>1. rpc = "feed" /\ arrived = Total
    BY <1>12 DEF Finish
  <2>2. Steady /\ WithinLimit
    BY <1>2, <2>1
  <2>3. Complete
    BY <2>1, <2>2, EndComplete
  <2>4. cause' # "reject"
    <3>1. cause # "reject"
      BY <2>2 DEF RefusalInv
    <3> QED
      BY <1>12, <2>3, <3>1 DEF Finish, Throw
  <2> QED
    BY <2>4
<1>13. ASSUME \/ \E p \in todo : PromoteDir(p) \/ PromoteCheck(p)
              \/ PromoteRename \/ PromoteEnd \/ (\E m \in deferred : ApplyMetadata(m))
              \/ FinishCleanup \/ Unwind \/ Catch
       PROVE  RefusalInv'
  <2>1. (cause' = cause \/ cause' = "fault") /\ rpc' # "idle"
    BY <1>13 DEF PromoteDir, PromoteCheck, PromoteRename, PromoteEnd, ApplyMetadata,
       FinishCleanup, PromoteFails, Throw, Unwind, Catch
  <2> QED
    BY <1>3, <1>4, <2>1
<1> QED
  BY <1>5, <1>6, <1>7, <1>8, <1>9, <1>10, <1>11, <1>12, <1>13 DEF Next, vars, Decrypt,
     ProcessRecord, BeginArchive, CreateDirectory, BeginFile, WriteFileBytes, EndFile, EndArchive,
     SkipPadding

\* Whatever the input, the parameters and what happens to the files meanwhile,
\* an archive that encryption reports as written is read back: only a record
\* longer than the reader's limit, or an entry replaced by one of another kind,
\* can be refused.
THEOREM WrittenAlwaysReadable == Spec => [](WithinLimit => WrittenIsReadable)
<1>1. Init => FeedInv /\ RefusalInv
  BY DEF Init, ReaderInit, FeedInv, RefusalInv
<1>2. ReaderInv /\ ParseInv /\ LayoutInv /\ WalkedInv /\ FormInv /\ FeedInv /\ RefusalInv
         /\ [Next]_vars => FeedInv' /\ RefusalInv'
  BY FeedStep, RefusalStep
<1>3. RefusalInv => (WithinLimit => WrittenIsReadable)
  BY DEF RefusalInv, WrittenIsReadable, Steady
<1> QED
  BY <1>1, <1>2, <1>3, LayoutInvariant, ReaderInvariant, ExtractInvariant, FormInvariant, PTL
     DEF Spec, ExtractInv

\* Whatever the input and the parameters are, a decryption that succeeds without
\* another process at work on either side has restored every file and directory
\* that the walk has listed, with its content and its time, and nothing else; and
\* of the input the list lacks only what a walk can miss.
THEOREM RoundTripHolds == Spec => []RoundTrip
<1>1. ASSUME LayoutInv, ReaderInv, ExtractInv, SuccessIsExact, RestoreInv,
             rpc = "success", changes = << >>
      PROVE  /\ stage = "written" /\ Framed(stream) /\ SourceInv /\ DeferInv /\ AllRead(stream)
             /\ input \in Trees /\ CanSee(Listing)
  <2>1. stage = "written" /\ Framed(stream) /\ SourceInv /\ DeferInv /\ AllRead(stream)
    BY <1>1 DEF ReaderInv, StreamInv, RestoreInv, DeferInv
  <2> QED
    BY <1>1, <2>1 DEF SourceInv
<1>2. ASSUME LayoutInv, ReaderInv, ExtractInv, SuccessIsExact, RestoreInv,
             rpc = "success", changes = << >>, intruders = {},
             NEW p \in Listing, input[p].kind \in {"file", "dir"}
      PROVE  p \in DOMAIN out /\ out[p] = input[p]
  <2>1. /\ stage = "written" /\ Framed(stream) /\ SourceInv /\ DeferInv /\ AllRead(stream)
        /\ p \in DOMAIN input /\ input[p].kind \in {"file", "dir"}
        /\ rpc = "success" /\ changes = << >>
    BY <1>1, <1>2 DEF CanSee, Walkable
  <2>2. PICK k \in DOMAIN entries : entries[k].path = p
    BY DEF Listing
  <2>3. entries[k].type = input[p].kind
    BY <1>2, <2>2 DEF LayoutInv, BalanceInv
  <2>4. k \in 1..(index - 1) /\ Listed(stream, entries, index - 1)
    <3>1. index = Len(entries) + 1 /\ Listed(stream, entries, index - 1)
      BY <2>1 DEF SourceInv
    <3>2. Len(entries) \in Nat /\ DOMAIN entries = 1..Len(entries)
      BY <1>2, LenProperties DEF LayoutInv, WriterTyped
    <3> QED
      BY <3>1, <3>2
  <2>5. PICK i \in DOMAIN stream : /\ stream[i].type = IF input[p].kind = "dir" THEN "Dir" ELSE "File"
                                   /\ stream[i].body.path = p
    BY <2>1, <2>2, <2>3, <2>4 DEF Listed
  <2>6. PathOf(stream, i) = p
    BY <2>1, <2>5, SourcePath
  <2>7. input[p] \in Nodes /\ (input[p].kind = "dir" => input[p].bytes = << >>)
    BY <2>1, TreesAssumption DEF SourceInv
  <2>8. input[p] = Node(input[p].kind, input[p].bytes, input[p].mtime)
    BY <2>7 DEF Nodes, Node
  <2>9. CASE input[p].kind = "file"
    <3>1. p \in Paths("File")
      BY <2>5, <2>6, <2>9 DEF Paths, At, PathOf
    <3>2. p \in DOMAIN out /\ out[p] = DescribedFile(p)
      BY <1>2, <3>1 DEF SuccessIsExact
    <3>3. PICK j \in At("File") :
             /\ PathOf(stream, j) = p
             /\ DescribedFile(p) = Node("file", Content(j), stream[j].body.mtime)
      BY <2>1, <3>1, LastDescribes
    <3>4. j \in DOMAIN stream /\ stream[j].type = "File"
      BY DEF At
    <3>5. stream[j].body.path = p /\ stream[j].body.mtime = input[p].mtime
      BY <2>1, <3>3, <3>4, SourcePath
    <3>6. PICK e : e = FileEndOf(j)
      OBVIOUS
    <3>7. /\ e \in (j + 1)..Len(stream) /\ stream[e].type = "FileEnd"
          /\ ~EndsBy(stream, j, e - 1) /\ Content(j) = BytesBetween(stream, j, e - 1)
      BY <2>1, <3>6, FileEnds
    <3>8. WholeFiles(stream, input)
      BY <2>1 DEF SourceInv
    <3>9. BytesBetween(stream, j, e - 1) = input[p].bytes
      BY <3>4, <3>5, <3>7, <3>8 DEF WholeFiles
    <3> QED
      BY <2>8, <2>9, <3>2, <3>3, <3>5, <3>7, <3>9
  <2>10. CASE input[p].kind = "dir"
    <3>1. stream[i].type = "Dir" /\ i \in 1..Len(stream)
      BY <2>1, <2>5, <2>10 DEF Framed
    <3>2. p # << >>
      BY <2>1, <2>5, <3>1 DEF AllRead, Sound, SafePath
    <3>3. p \in DescribedDirs
      BY <2>6, <3>1, <3>2, <2>5 DEF DescribedDirs, Paths, At, PathOf
    <3>4. IsDir(out, p)
      BY <1>2, <3>3 DEF ExtractInv, ClosingInv
    <3>5. out[p].mtime = input[p].mtime
      <4>1. out[p].mtime = stream[i].body.mtime
        BY <1>2, <2>1, <2>5, <2>6, <3>1 DEF RestoreInv, TimesInv
      <4>2. stream[i].body.mtime = input[p].mtime
        BY <2>1, <2>5, SourcePath
      <4> QED
        BY <4>1, <4>2
    <3>6. out[p] = Node("dir", << >>, out[p].mtime)
      BY <1>2, <3>4 DEF RestoreInv, DirsEmpty, IsDir
    <3> QED
      BY <2>7, <2>8, <2>10, <3>4, <3>5, <3>6 DEF IsDir
  <2> QED
    BY <2>1, <2>9, <2>10
<1>3. ASSUME LayoutInv, ReaderInv, ExtractInv, SuccessIsExact, RestoreInv, FormInv,
             rpc = "success", changes = << >>, intruders = {}, NEW q \in DOMAIN out
      PROVE  q \in Listing \cup DOMAIN before
  <2>1. /\ stage = "written" /\ Framed(stream) /\ SourceInv
        /\ \A p \in Listing : \A i \in 1..(Len(p) - 1) : SubSeq(p, 1, i) \in Listing
    BY <1>1, <1>3 DEF CanSee
  <2>2. OfEntries(stream, entries)
    <3>1. DOMAIN changes = {}
      BY <1>3, EmptySeq
    <3> QED
      BY <1>3, <2>1, <3>1 DEF FormInv, Steady
  <2>3. ASSUME NEW p \in Paths("File") \cup Paths("Dir")
        PROVE  p \in Listing /\ p \in Seq(STRING)
    <3>1. PICK i \in DOMAIN stream : stream[i].type \in {"Dir", "File"} /\ PathOf(stream, i) = p
      BY DEF Paths, At, PathOf
    <3>2. p = stream[i].body.path /\ i \in 1..Len(stream)
      BY <1>3, <2>1, <3>1, SourcePath DEF Framed
    <3>3. \E k \in DOMAIN entries : entries[k].path = p
      BY <2>2, <3>1, <3>2 DEF OfEntries, OfEntry
    <3>4. p \in Seq(STRING)
      BY <2>1, <3>1, <3>2 DEF Framed
    <3> QED
      BY <3>3, <3>4 DEF Listing
  <2>4. ASSUME NEW p \in Paths("File") \cup Paths("Dir"), NEW a \in AndAncestors(Parent(p))
        PROVE  a \in Listing
    <3>1. p \in Listing /\ p \in Seq(STRING)
      BY <2>3
    <3>2. a \in AndAncestors(p)
      BY <3>1, AboveFromBelow
    <3>3. PICK i \in 1..Len(p) : a = SubSeq(p, 1, i)
      BY <3>2 DEF AndAncestors
    <3>4. CASE i = Len(p)
      <4>1. SubSeq(p, 1, Len(p)) = p
        BY <3>1
      <4> QED
        BY <3>1, <3>3, <3>4, <4>1
    <3>5. CASE i # Len(p)
      <4>1. i \in 1..(Len(p) - 1)
        BY <3>1, <3>5
      <4> QED
        BY <2>1, <3>1, <3>3, <4>1
    <3> QED
      BY <3>4, <3>5
  <2>5. q \in Paths("File") \cup DescribedDirs \/ q \in DOMAIN before
    BY <1>3 DEF SuccessIsExact
  <2> QED
    BY <2>3, <2>4, <2>5 DEF DescribedDirs
<1>4. LayoutInv /\ ReaderInv /\ ExtractInv /\ SuccessIsExact /\ RestoreInv /\ FormInv => RoundTrip
  BY <1>1, <1>2, <1>3 DEF RoundTrip
<1> QED
  BY <1>4, LayoutInvariant, ReaderInvariant, ExtractInvariant, SuccessAlwaysExact,
     RestoreInvariant, FormInvariant, PTL
=============================================================================
