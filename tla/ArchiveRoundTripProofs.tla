----------------------- MODULE ArchiveRoundTripProofs -----------------------
(***************************************************************************)
(* Proofs about ArchiveRoundTrip, for any input trees, parameters, foreign *)
(* streams and intruders: every header that core_encrypt can announce is   *)
(* accepted, the one it announces is met, and decryption leaves no debris  *)
(* and keeps the files of others.                                          *)
(***************************************************************************)
EXTENDS ArchiveRoundTrip, TLAPS, FiniteSetTheorems, SequenceTheorems, WellFoundedInduction

----------------------------------------------------------------------------
\* Every set of naturals has a least element, and induction as a fact about sets.
LEMMA LeastNatural ==
    ASSUME NEW S, S \subseteq Nat, S # {}
    PROVE  \E x \in S : \A y \in S : x <= y
<1>1. PICK x \in S : \A y \in S : ~(<<y, x>> \in OpToRel(<, Nat))
    BY NatLessThanWellFounded, WFMin
<1>2. \A y \in S : ~(y < x)
    BY <1>1 DEF OpToRel
<1> QED
    BY <1>2

\* Induction, as a fact about sets.
LEMMA NatInd ==
    ASSUME NEW T, 0 \in T, \A k \in Nat : k \in T => k + 1 \in T
    PROVE  Nat \subseteq T
<1> SUFFICES ASSUME NEW n \in Nat, n \notin T PROVE FALSE
    OBVIOUS
<1>1. PICK x \in Nat \ T : \A y \in Nat \ T : x <= y
    BY LeastNatural
<1>2. x - 1 \in Nat
    BY <1>1
<1> QED
    BY <1>1, <1>2


\* Powers of two count subsets.
LEMMA PowerCount == \A n \in Nat : IsFiniteSet(SUBSET (1..n)) /\ Cardinality(SUBSET (1..n)) = 2^n
<1> TAKE n \in Nat
<1>1. IsFiniteSet(1..n) /\ Cardinality(1..n) = n
    BY FS_Interval
<1> QED
    BY <1>1, FS_SUBSET

\* They are numbers ...
LEMMA PowerNat == \A n \in Nat : 2^n \in Nat
    BY PowerCount, FS_CardinalityType

\* ... that double.
LEMMA PowerStep == \A n \in Nat : 2^(n + 1) = 2 * 2^n
<1> TAKE n \in Nat
<1> DEFINE A == SUBSET (1..n)
           B == {X \cup {n + 1} : X \in A}
           b == [X \in A |-> X \cup {n + 1}]
<1>1. b \in Bijection(A, B)
  <2>1. b \in Injection(A, B)
    <3>1. \A X, Y \in A : b[X] = b[Y] => X = Y
      <4> SUFFICES ASSUME NEW X \in A, NEW Y \in A, b[X] = b[Y] PROVE X = Y
        OBVIOUS
      <4>1. n + 1 \notin X /\ n + 1 \notin Y
        OBVIOUS
      <4> QED
        BY <4>1
    <3>2. b \in [A -> B] /\ DOMAIN b = A
      OBVIOUS
    <3> HIDE DEF A, B, b
    <3> QED
      BY <3>1, <3>2 DEF Injection, IsInjective
  <2>2. b \in Surjection(A, B)
    <3>1. b \in [A -> B]
      OBVIOUS
    <3>2. ASSUME NEW y \in B PROVE \E X \in A : b[X] = y
      <4>1. PICK X \in A : y = X \cup {n + 1}
        OBVIOUS
      <4>2. b[X] = y
        BY <4>1
      <4> QED
        BY <4>1, <4>2
    <3> HIDE DEF A, B, b
    <3> QED
      BY <3>1, <3>2 DEF Surjection
  <2> QED
    BY <2>1, <2>2 DEF Bijection
<1>2. SUBSET (1..(n + 1)) = A \cup B
  <2>1. ASSUME NEW Z \in SUBSET (1..(n + 1)) PROVE Z \in A \cup B
    <3>1. CASE n + 1 \in Z
      <4>1. Z \ {n + 1} \in A /\ Z = (Z \ {n + 1}) \cup {n + 1}
        BY <3>1
      <4> QED
        BY <4>1
    <3>2. CASE n + 1 \notin Z
      BY <3>2
    <3> QED
      BY <3>1, <3>2
  <2>2. ASSUME NEW Z \in A \cup B PROVE Z \in SUBSET (1..(n + 1))
    OBVIOUS
  <2> QED
    BY <2>1, <2>2
<1>3. A \cap B = {}
  OBVIOUS
<1> HIDE DEF A, B, b
<1>4. IsFiniteSet(A) /\ Cardinality(A) = 2^n
  BY PowerCount DEF A
<1>5. IsFiniteSet(B) /\ Cardinality(B) = 2^n
  BY <1>1, <1>4, FS_Bijection DEF ExistsBijection
<1>6. Cardinality(A \cup B) = Cardinality(A) + Cardinality(B)
  <2>1. Cardinality(A \cap B) = 0
    BY <1>3, FS_EmptySet
  <2>2. Cardinality(A \cup B) = Cardinality(A) + Cardinality(B) - Cardinality(A \cap B)
    BY <1>4, <1>5, FS_Union
  <2> QED
    BY <2>1, <2>2, <1>4, <1>5, PowerNat
<1>7. Cardinality(SUBSET (1..(n + 1))) = 2^(n + 1)
  BY PowerCount
<1>8. 2^(n + 1) = 2^n + 2^n
  BY <1>2, <1>4, <1>5, <1>6, <1>7
<1> QED
  BY <1>8, PowerNat

----
Sums(u, w, n) == u = [k \in 0..n |-> IF k = 0 THEN 0 ELSE u[k - 1] + w[k]]

\* What the partial sums are, one by one.
LEMMA SumsAt ==
    ASSUME NEW w, NEW n \in Nat, NEW u, Sums(u, w, n)
    PROVE  u[0] = 0 /\ \A k \in 1..n : u[k] = u[k - 1] + w[k]
    BY DEF Sums

\* They exist for every number of terms,
LEMMA SumsExist == ASSUME NEW w, NEW n \in Nat PROVE \E u : Sums(u, w, n)
<1> DEFINE T == {m \in Nat : \E u : Sums(u, w, m)}
<1>1. 0 \in T
  <2>1. Sums([k \in 0..0 |-> 0], w, 0)
    BY DEF Sums
  <2> QED
    BY <2>1
<1>2. ASSUME NEW m \in Nat, m \in T PROVE m + 1 \in T
  <2>1. PICK u : Sums(u, w, m)
    BY <1>2
  <2> DEFINE v == [k \in 0..(m + 1) |-> IF k = m + 1 THEN u[m] + w[m + 1] ELSE u[k]]
  <2>2. \A k \in 0..(m + 1) : v[k] = IF k = 0 THEN 0 ELSE v[k - 1] + w[k]
    BY <2>1, SumsAt
  <2>3. v = [k \in 0..(m + 1) |-> v[k]]
    OBVIOUS
  <2> HIDE DEF v
  <2>4. Sums(v, w, m + 1)
    BY <2>2, <2>3 DEF Sums
  <2> QED
    BY <2>4
<1> HIDE DEF T
<1>3. n \in T
  BY <1>1, <1>2, NatInd
<1> QED
  BY <1>3 DEF T

\* Agree where the terms agree,
LEMMA SumsAgree ==
    ASSUME NEW v, NEW w, NEW m \in Nat, NEW n \in Nat, NEW t, NEW u, Sums(t, v, m), Sums(u, w, n),
           m <= n, \A k \in 1..m : v[k] = w[k]
    PROVE  \A k \in 0..m : t[k] = u[k]
<1> DEFINE T == {k \in Nat : k <= m => t[k] = u[k]}
<1>1. 0 \in T
  BY SumsAt
<1>2. ASSUME NEW k \in Nat, k \in T PROVE k + 1 \in T
  <2> SUFFICES ASSUME k + 1 <= m PROVE t[k + 1] = u[k + 1]
    OBVIOUS
  <2>1. t[k + 1] = t[k] + v[k + 1] /\ u[k + 1] = u[k] + w[k + 1]
    BY SumsAt
  <2> QED
    BY <2>1, <1>2
<1> HIDE DEF T
<1>3. Nat \subseteq T
  BY <1>1, <1>2, NatInd
<1> QED
  BY <1>3 DEF T

\* And the last of them is the sum.
LEMMA SumIsSums ==
    ASSUME NEW w, NEW n \in Nat PROVE \E u : Sums(u, w, n) /\ SumUpTo(w, n) = u[n]
<1> DEFINE upto[k \in 0..n] == IF k = 0 THEN 0 ELSE upto[k - 1] + w[k]
<1>1. Sums(upto, w, n)
  BY SumsExist DEF Sums
<1>2. SumUpTo(w, n) = upto[n]
  BY DEF SumUpTo
<1> QED
  BY <1>1, <1>2

\* The sum of one term more.
LEMMA SumStep ==
    ASSUME NEW w, NEW n \in Nat
    PROVE  SumUpTo(w, 0) = 0 /\ SumUpTo(w, n + 1) = SumUpTo(w, n) + w[n + 1]
<1>1. PICK z : Sums(z, w, 0) /\ SumUpTo(w, 0) = z[0]
  BY SumIsSums
<1>2. PICK t : Sums(t, w, n) /\ SumUpTo(w, n) = t[n]
  BY SumIsSums
<1>3. PICK u : Sums(u, w, n + 1) /\ SumUpTo(w, n + 1) = u[n + 1]
  BY SumIsSums
<1>4. t[n] = u[n]
  BY <1>2, <1>3, SumsAgree
<1> QED
  BY <1>1, <1>2, <1>3, <1>4, SumsAt

\* Sums of the same terms.
LEMMA SumSame ==
    ASSUME NEW v, NEW w, NEW n \in Nat, \A k \in 1..n : v[k] = w[k]
    PROVE  SumUpTo(v, n) = SumUpTo(w, n)
<1>1. PICK t : Sums(t, v, n) /\ SumUpTo(v, n) = t[n]
  BY SumIsSums
<1>2. PICK u : Sums(u, w, n) /\ SumUpTo(w, n) = u[n]
  BY SumIsSums
<1>3. n <= n /\ n \in 0..n
  OBVIOUS
<1>4. \A k \in 0..n : t[k] = u[k]
  BY <1>1, <1>2, <1>3, SumsAgree
<1> QED
  BY <1>1, <1>2, <1>3, <1>4

\* A sum of numbers is a number.
LEMMA SumNat ==
    ASSUME NEW w, NEW n \in Nat, \A k \in 1..n : w[k] \in Nat
    PROVE  SumUpTo(w, n) \in Nat
<1> DEFINE T == {k \in Nat : k <= n => SumUpTo(w, k) \in Nat}
<1>1. 0 \in T
  BY SumStep
<1>2. ASSUME NEW k \in Nat, k \in T PROVE k + 1 \in T
  BY <1>2, SumStep
<1> HIDE DEF T
<1>3. Nat \subseteq T
  BY <1>1, <1>2, NatInd
<1> QED
  BY <1>3 DEF T

----------------------------------------------------------------------------
\* Powers of two divide each other.
LEMMA PowerMultiple ==
    \A i, k \in Nat : \E m \in Nat \ {0} : 2^(i + k) = m * 2^i
<1> TAKE i \in Nat
<1> DEFINE T == {k \in Nat : \E m \in Nat \ {0} : 2^(i + k) = m * 2^i}
<1>1. 0 \in T
  <2>1. i + 0 = i /\ 2^i = 1 * 2^i
    BY PowerNat
  <2> QED
    BY <2>1
<1>2. ASSUME NEW k \in Nat, k \in T PROVE k + 1 \in T
  <2>1. PICK m \in Nat \ {0} : 2^(i + k) = m * 2^i
    BY <1>2
  <2>2. 2^(i + (k + 1)) = 2 * 2^(i + k)
    BY PowerStep
  <2>3. 2 * (m * 2^i) = (2 * m) * 2^i /\ 2 * m \in Nat \ {0}
    BY PowerNat
  <2>4. 2^(i + (k + 1)) = (2 * m) * 2^i /\ k + 1 \in Nat
    BY <2>1, <2>2, <2>3
  <2> QED
    BY <2>3, <2>4
<1> HIDE DEF T
<1>3. Nat \subseteq T
  BY <1>1, <1>2, NatInd
<1> QED
  BY <1>3 DEF T

\* No power of two is zero.
LEMMA PowerPositive == \A n \in Nat : 2^n \in Nat \ {0}
<1> TAKE n \in Nat
<1>1. PICK m \in Nat \ {0} : 2^(n + 0) = m * 2^n
  BY PowerMultiple
<1>2. PICK k \in Nat \ {0} : 2^(0 + n) = k * 2^0
  BY PowerMultiple
<1>3. 2^0 = 1 /\ 0 + n = n
  OBVIOUS
<1> QED
  BY <1>2, <1>3

\* A multiple leaves no rest.
LEMMA ModMultiple == ASSUME NEW c \in Nat \ {0}, NEW m \in Nat PROVE (m * c) % c = 0
  OBVIOUS

\* The smaller power of two divides the larger one.
LEMMA PowersDivide ==
    ASSUME NEW p \in PowersOfTwo, NEW q \in PowersOfTwo, p <= q
    PROVE  q % p = 0
<1>1. PICK i \in 0..(Width - 1) : p = 2^i
  BY DEF PowersOfTwo
<1>2. PICK j \in 0..(Width - 1) : q = 2^j
  BY DEF PowersOfTwo
<1> USE LayoutAssumption
<1>3. p \in Nat \ {0} /\ q \in Nat \ {0}
  BY <1>1, <1>2, PowerPositive
<1>4. CASE i <= j
  <2>1. j - i \in Nat /\ i \in Nat /\ i + (j - i) = j
    BY <1>4
  <2>2. PICK m \in Nat \ {0} : 2^(i + (j - i)) = m * 2^i
    BY ONLY <2>1, PowerMultiple
  <2>3. q = m * p
    BY <2>1, <2>2, <1>1, <1>2
  <2> QED
    BY <2>3, <1>3, ModMultiple
<1>5. CASE j < i
  <2>0. i - j \in Nat /\ j \in Nat /\ j + (i - j) = i
    BY <1>5
  <2>1. PICK m \in Nat \ {0} : 2^(j + (i - j)) = m * 2^j
    BY ONLY <2>0, PowerMultiple
  <2>2. p = m * q
    BY <2>0, <2>1, <1>1, <1>2
  <2>3. m * q >= q
    BY <1>3
  <2>4. p = q
    BY <2>2, <2>3, <1>3
  <2> QED
    BY <2>4, <1>3
<1> QED
  BY <1>4, <1>5

\* What the integers can hold.
LEMMA Words ==
    /\ 2^Width \in Nat \ {0} /\ MaxU64 \in Nat /\ MaxU64 = 2^Width - 1
    /\ \A p \in PowersOfTwo : p \in Nat \ {0} /\ p <= MaxU64
    /\ \A p \in PowersOfTwo : 2 * p <= MaxU64 => 2 * p \in PowersOfTwo
    /\ 2^(Width - 1) \in PowersOfTwo
<1> USE LayoutAssumption
<1>1. 2^Width \in Nat \ {0} /\ MaxU64 \in Nat /\ MaxU64 = 2^Width - 1
  BY PowerPositive DEF MaxU64
<1>2. 2^(Width - 1) \in PowersOfTwo
  BY DEF PowersOfTwo
<1>3. ASSUME NEW i \in 0..(Width - 1)
      PROVE  /\ 2^i \in Nat \ {0} /\ 2^(i + 1) = 2 * 2^i
             /\ 2^i <= MaxU64
             /\ 2 * 2^i <= MaxU64 => 2 * 2^i \in PowersOfTwo
  <2>1. 2^i \in Nat \ {0} /\ 2^(i + 1) = 2 * 2^i
    BY PowerPositive, PowerStep
  <2>0. Width - (i + 1) \in Nat /\ i + 1 \in Nat /\ (i + 1) + (Width - (i + 1)) = Width
    OBVIOUS
  <2>2. PICK m \in Nat \ {0} : 2^((i + 1) + (Width - (i + 1))) = m * 2^(i + 1)
    BY ONLY <2>0, PowerMultiple
  <2>3. 2^Width = m * 2^(i + 1)
    BY <2>0, <2>2
  <2>4. m * 2^(i + 1) >= 2^(i + 1)
    BY <2>1
  <2>5. 2^i <= MaxU64
    BY <1>1, <2>1, <2>3, <2>4
  <2>6. ASSUME 2 * 2^i <= MaxU64 PROVE 2 * 2^i \in PowersOfTwo
    <3>1. CASE i = Width - 1
      <4>1. 2^(i + 1) = 2^Width
        BY <3>1
      <4> QED
        BY <4>1, <2>1, <2>6, <1>1
    <3>2. CASE i + 1 \in 0..(Width - 1)
      BY <3>2, <2>1 DEF PowersOfTwo
    <3> QED
      BY <3>1, <3>2
  <2> QED
    BY <2>1, <2>5, <2>6
<1> QED
  BY <1>1, <1>2, <1>3 DEF PowersOfTwo

----------------------------------------------------------------------------
\* Chunk count and final length describe the size.
LEMMA ChunksOfSize ==
    ASSUME NEW p \in Nat \ {0}, NEW c \in Nat \ {0},
           NEW l, l = IF p % c = 0 THEN c ELSE p % c
    PROVE  /\ CeilDiv(p, c) \in Nat \ {0} /\ l \in 1..c
           /\ (CeilDiv(p, c) - 1) * c + l = p
<1> DEFINE q == (p - 1) \div c
           r == (p - 1) % c
<1>1. q \in Nat /\ r \in 0..(c - 1) /\ p = q * c + (r + 1)
  OBVIOUS
<1>2. CeilDiv(p, c) = q + 1
  BY DEF CeilDiv
<1> HIDE DEF q, r
<1>3. CASE r + 1 = c
  <2>1. p = (q + 1) * c
    BY <1>1, <1>3
  <2>2. q + 1 \in Nat
    BY <1>1
  <2>3. p % c = 0
    BY ONLY <2>1, <2>2, ModMultiple, c \in Nat \ {0}
  <2> QED
    BY <1>1, <1>2, <1>3, <2>3
<1>4. CASE r + 1 < c
  <2>1. p % c = r + 1
    BY <1>1, <1>4
  <2>2. l = r + 1
    BY <2>1, <1>1
  <2>3. CeilDiv(p, c) - 1 = q /\ CeilDiv(p, c) \in Nat \ {0}
    BY <1>1, <1>2
  <2>4. l \in 1..c
    BY <1>1, <1>4, <2>2
  <2> QED
    BY <1>1, <2>2, <2>3, <2>4
<1> QED
  BY <1>1, <1>3, <1>4

\* compute_padding() returns a size that holds the archive, leaves no gap too
\* small for a padding record, and has the shape the policy announces.
Padded(size, target) ==
    /\ target \in Nat \ {0} /\ target >= size /\ target <= MaxU64
    /\ target - size = 0 \/ target - size >= RecordPrefix

\* The padded size of the chunk policy.
LEMMA ChunkPolicy ==
    ASSUME NEW size \in 1..MaxU64, NEW c \in Nat \ {0}, RecordPrefix <= c,
           PadToChunk(size, c) # Throws
    PROVE  Padded(size, PadToChunk(size, c)) /\ PadToChunk(size, c) % c = 0
<1> USE Words, RecordAssumption
<1> DEFINE up == IF size % c = 0 THEN size ELSE CheckedAdd(size, c - (size % c))
           q == size \div c
           r == size % c
<1>1. q \in Nat /\ r \in 0..(c - 1) /\ size = q * c + r
  OBVIOUS
<1>2. up # Throws
  BY DEF PadToChunk
<1>3. \E m \in Nat : up = m * c
  <2>1. CASE r = 0
    <3>1. up = q * c
      BY <1>1, <2>1
    <3> QED
      BY <1>1, <3>1
  <2>2. CASE r # 0
    <3>1. up = size + (c - r)
      BY <1>2, <2>2 DEF CheckedAdd
    <3>2. up = (q + 1) * c
      BY <1>1, <3>1
    <3>3. q + 1 \in Nat
      BY <1>1
    <3> HIDE DEF up, q
    <3> QED
      BY <3>2, <3>3
  <2> QED
    BY <2>1, <2>2
<1>4. up >= size /\ up <= MaxU64 /\ up \in Nat
  BY <1>1, <1>2 DEF CheckedAdd
<1>5. PICK m \in Nat : up = m * c
  BY <1>3
<1>6. PadToChunk(size, c) = IF TooSmall(up - size) THEN CheckedAdd(up, c) ELSE up
  BY <1>2 DEF PadToChunk
<1> HIDE DEF up, q, r
<1>7. CASE ~TooSmall(up - size)
  <2>1. up % c = 0
    BY <1>5, ModMultiple
  <2> QED
    BY <1>4, <1>6, <1>7, <2>1 DEF TooSmall, Padded
<1>8. CASE TooSmall(up - size)
  <2>1. PadToChunk(size, c) = up + c /\ up + c <= MaxU64
    BY <1>4, <1>6, <1>8 DEF CheckedAdd
  <2>2. up + c = (m + 1) * c
    BY <1>5
  <2>3. (up + c) % c = 0
    BY <2>2, ModMultiple
  <2> QED
    BY <1>4, <2>1, <2>3 DEF Padded
<1> QED
  BY <1>7, <1>8

\* The padded size of the power-of-two policy.
LEMMA PowerPolicy ==
    ASSUME NEW size \in 1..MaxU64, NEW c \in PowersOfTwo, RecordPrefix <= c,
           PadToPowerOfTwo(size, c) # Throws
    PROVE  LET target == PadToPowerOfTwo(size, c)
           IN  Padded(size, target) /\ target \in PowersOfTwo /\ target % c = 0
<1> USE Words, RecordAssumption
<1> DEFINE next == NextPowerOfTwo(size)
           up == IF next # Throws /\ next < c THEN c ELSE next
           target == PadToPowerOfTwo(size, c)
           S == {p \in PowersOfTwo : p >= size}
<1>1. target = IF up # Throws /\ TooSmall(up - size) THEN CheckedMul(up, 2) ELSE up
  BY DEF PadToPowerOfTwo
<1>2. next # Throws
  BY DEF PadToPowerOfTwo, Throws
<1>3. next \in PowersOfTwo /\ next >= size
  <2>1. next = Min(S) /\ ~(size > 2^(Width - 1))
    BY <1>2 DEF NextPowerOfTwo
  <2>2. 2^(Width - 1) \in S
    BY <2>1
  <2>3. S \subseteq Nat
    OBVIOUS
  <2>4. \E x \in S : \A y \in S : x <= y
    BY <2>2, <2>3, LeastNatural
  <2> HIDE DEF S
  <2>5. Min(S) \in S
    BY <2>4 DEF Min
  <2> QED
    BY <2>1, <2>5 DEF S
<1> HIDE DEF next
<1>4. up \in PowersOfTwo /\ up >= size /\ up >= c /\ up # Throws
  BY <1>2, <1>3 DEF Throws
<1> HIDE DEF up
<1>5. CASE ~TooSmall(up - size)
  <2>1. target = up
    BY <1>1, <1>5
  <2>2. up % c = 0
    BY <1>4, PowersDivide
  <2>3. Padded(size, up)
    BY <1>4, <1>5 DEF TooSmall, Padded
  <2> QED
    BY <2>1, <2>2, <2>3, <1>4
<1>6. CASE TooSmall(up - size)
  <2>1. target = CheckedMul(up, 2)
    BY <1>1, <1>4, <1>6
  <2>2. target = up * 2 /\ ~(2 > MaxU64 \div up)
    BY <2>1, <1>4 DEF CheckedMul
  <2>3. 2 * up <= MaxU64
    BY <2>2, <1>4
  <2>4. target \in PowersOfTwo
    BY <2>2, <2>3, <1>4
  <2>5. target % c = 0
    BY <2>2, <2>4, <1>4, PowersDivide
  <2>6. Padded(size, target)
    BY <2>2, <2>3, <1>4 DEF Padded
  <2> QED
    BY <2>4, <2>5, <2>6
<1> QED
  BY <1>5, <1>6

\* The padded size of the fixed policy.
LEMMA FixedPolicy ==
    ASSUME NEW size \in 1..MaxU64, NEW c \in Nat \ {0}, NEW fixed \in 0..MaxU64,
           PadToFixed(size, c, fixed) # Throws
    PROVE  Padded(size, fixed) /\ fixed % c = 0 /\ PadToFixed(size, c, fixed) = fixed
  BY Words, RecordAssumption DEF PadToFixed, TooSmall, Padded

\* Arithmetic of the integers is exact where nothing overflows.
LEMMA SmallModulo == ASSUME NEW a \in Nat, a <= MaxU64 PROVE a % 2^Width = a
<1>1. 2^Width \in Nat \ {0} /\ a < 2^Width
  BY Words
<1> QED
  BY <1>1

\* core_encrypt and parse_global_public_header: the header announced for a
\* planned size that fits into the integers is accepted, the announced size
\* holds the archive, and what is missing to it is nothing or has room for a
\* padding record.
THEOREM HeaderAccepted ==
    ASSUME NEW size \in 1..MaxU64, NEW p, p.chunk \in Nat, p.fixed \in 0..MaxU64,
           p.policy \in {"none", "chunk", "power2", "fixed"}, ValidSizes(p),
           ComputePadding(size, p) # Throws
    PROVE  /\ ParseGlobal(Header(ComputePadding(size, p), p))
           /\ Padded(size, ComputePadding(size, p))
<1> DEFINE c == p.chunk
           target == ComputePadding(size, p)
           h == Header(target, p)
<1>1. c \in PowersOfTwo /\ c \in Nat \ {0} /\ RecordPrefix <= c /\ c \in ChunkMin..ChunkMax
  BY LayoutAssumption, RecordAssumption DEF ValidSizes
<1>2. /\ Padded(size, target)
      /\ p.policy \in {"chunk", "power2", "fixed"} => target % c = 0
      /\ p.policy = "power2" => target \in PowersOfTwo
      /\ p.policy = "fixed" => target = p.fixed
  <2>1. CASE p.policy = "none"
    BY <2>1, Words, RecordAssumption DEF ComputePadding, Padded
  <2>2. CASE p.policy = "chunk"
    BY <2>2, <1>1, ChunkPolicy DEF ComputePadding
  <2>3. CASE p.policy = "power2"
    BY <2>3, <1>1, PowerPolicy DEF ComputePadding
  <2>4. CASE p.policy = "fixed"
    BY <2>4, <1>1, FixedPolicy DEF ComputePadding
  <2> QED
    BY <2>1, <2>2, <2>3, <2>4
<1> HIDE DEF target
<1>3. target \in Nat \ {0} /\ target <= MaxU64
  BY <1>2 DEF Padded
<1>4. /\ h.chunk = c /\ h.padded = target /\ h.chunk_count = CeilDiv(target, c)
      /\ h.final_len = IF target % c = 0 THEN c ELSE target % c
      /\ h.policy_id = PolicyId(p.policy)
      /\ h.policy_value = IF p.policy = "fixed" THEN p.fixed ELSE 0
      /\ h.max_shard_payload = p.shard_size
  BY DEF Header
<1> HIDE DEF h
<1>5. /\ h.chunk_count \in Nat \ {0} /\ h.final_len \in 1..c
      /\ (h.chunk_count - 1) * c + h.final_len = target
  <2>1. c \in Nat \ {0} /\ h.final_len = IF target % c = 0 THEN c ELSE target % c
    BY <1>1, <1>4
  <2> HIDE DEF c
  <2>2. /\ CeilDiv(target, c) \in Nat \ {0} /\ h.final_len \in 1..c
        /\ (CeilDiv(target, c) - 1) * c + h.final_len = target
    BY <2>1, <1>3, ChunksOfSize
  <2> QED
    BY <2>2, <1>4
<1>6. h.padded = ((h.chunk_count - 1) * h.chunk + h.final_len) % 2^Width
  BY <1>3, <1>4, <1>5, SmallModulo
<1>7. /\ PolicyId("none") = 0 /\ PolicyId("chunk") = 1
      /\ PolicyId("power2") = 2 /\ PolicyId("fixed") = 3
  BY DEF PolicyId
<1>8. ValidPadding(h)
  BY <1>2, <1>4, <1>7 DEF ValidPadding, WholeChunks
<1>9. ParseGlobal(h)
  BY <1>1, <1>3, <1>4, <1>5, <1>6, <1>8 DEF ParseGlobal, ValidSizes
<1> QED
  BY <1>2, <1>9 DEF h, target

\* Beyond the integers compute_padding() throws or adds nothing.
LEMMA NoPaddingBeyond ==
    ASSUME NEW size \in Nat, size > MaxU64, NEW p, p.chunk \in Nat, p.fixed \in 0..MaxU64,
           p.policy \in {"none", "chunk", "power2", "fixed"}, ValidSizes(p),
           ComputePadding(size, p) # Throws
    PROVE  ComputePadding(size, p) = size
<1> USE Words, RecordAssumption
<1> DEFINE c == p.chunk
<1>1. c \in Nat \ {0}
  BY LayoutAssumption DEF ValidSizes
<1>2. CASE p.policy = "none"
  BY <1>2 DEF ComputePadding
<1>3. CASE p.policy = "chunk"
  <2>1. size % c \in 0..(c - 1)
    BY <1>1
  <2>2. size % c # 0 => CheckedAdd(size, c - (size % c)) = Throws
    BY <1>1, <2>1 DEF CheckedAdd
  <2>3. size - size = 0 /\ ~TooSmall(0)
    BY DEF TooSmall
  <2>4. ComputePadding(size, p) = PadToChunk(size, c)
    BY <1>3 DEF ComputePadding
  <2> QED
    BY <2>2, <2>3, <2>4 DEF PadToChunk
<1>4. CASE p.policy = "power2"
  <2>1. NextPowerOfTwo(size) = Throws
    BY DEF NextPowerOfTwo
  <2> QED
    BY <1>4, <2>1 DEF ComputePadding, PadToPowerOfTwo
<1>5. CASE p.policy = "fixed"
  BY <1>5 DEF ComputePadding, PadToFixed
<1> QED
  BY <1>2, <1>3, <1>4, <1>5

----------------------------------------------------------------------------
\* Types of what the writer keeps.
Entries == [path : Seq(STRING), type : {"file", "dir", "special"}]
Changes == {"grow", "shrink", "remove", "replace", "foreign"}
Files == [path : Seq(STRING), size : Nat, read : Nat, eof : BOOLEAN]
Bodies == {Version} \cup Seq(Nat)
              \cup [kind : {"file", "dir", "link", "special"}, path : Seq(STRING), size : Nat,
                    mtime : Nat, target : {<< >>}]
Records == [type : RecordTypes, size : Nat, body : Bodies]

WriterTyped ==
    /\ DOMAIN input \subseteq Seq(STRING) /\ \A p \in DOMAIN input : input[p] \in Nodes
    /\ params \in EncryptParams
    /\ entries \in Seq(Entries) /\ index \in 1..(Len(entries) + 1)
    /\ reading \in Seq(Files) /\ Len(reading) <= 1
    /\ reading # << >> => reading[1].path \in DOMAIN input
    /\ changes \in Seq(Changes)

\* Where the sizes have been looked at, and where the plan is made.
Writing == {"begin", "entries", "padding", "drained"}
PlanInv ==
    /\ stage \notin {"validate", "refused"} => ValidSizes(params)
    /\ stage \in Writing => header # << >> /\ stream \in Seq(Records)
    /\ header # << >> =>
          /\ ValidSizes(params) /\ raw \in Nat \ {0} /\ ComputePadding(raw, params) # Throws
          /\ header = <<Header(ComputePadding(raw, params), params)>>
    /\ stage \in {"validate", "walk", "plan", "begin"} =>
          stream = << >> /\ reading = << >> /\ index = 1
    /\ stage # "entries" /\ stage # "failed" => reading = << >>

\* What the plan counts for the first n entries, and what the open file still
\* has to give.
PlannedUpTo(n) == SumUpTo([i \in DOMAIN entries |-> PlannedEntry(entries[i])], n)
Unread(f) ==
    CeilDiv(f.size - f.read, PayloadSize) * RecordPrefix + (f.size - f.read) + RecordPrefix

\* As long as nothing has disturbed the run the records emitted and those the
\* plan still expects add up.
BalanceInv ==
    changes = << >> =>
        /\ \A i \in DOMAIN entries :
              entries[i].path \in DOMAIN input /\ input[entries[i].path].kind = entries[i].type
        /\ stage \in Writing => raw = PlanPlaintextSize
        /\ stage = "entries" /\ reading = << >> =>
              StreamSize(stream) = RecordPrefix + VersionSize + PlannedUpTo(index - 1)
        /\ stage = "entries" /\ reading # << >> =>
              LET f == reading[1] IN
              /\ f.path \in DOMAIN input /\ input[f.path].kind = "file"
              /\ f.size = Len(input[f.path].bytes) /\ f.read <= f.size
              /\ f.eof => f.read = f.size
              /\ StreamSize(stream) + Unread(f)
                    = RecordPrefix + VersionSize + PlannedUpTo(index - 1)
        /\ stage = "padding" => StreamSize(stream) = raw
        /\ stage = "drained" => StreamSize(stream) = header[1].padded

LayoutInv == WriterTyped /\ PlanInv /\ BalanceInv

----------------------------------------------------------------------------
\* Sizes of payloads and streams.
LEMMA PayloadPositive == ASSUME params \in EncryptParams PROVE PayloadSize \in Nat \ {0}
<1> DEFINE c == params.chunk \div 4
           m == Min({PayloadMax, c})
<1>1. params.chunk \in Nat
  BY WriterAssumption, Words
<1>2. c \in Nat /\ PayloadMin \in Nat \ {0} /\ PayloadMax \in Nat
  BY <1>1, WriterAssumption
<1> HIDE DEF c
<1>3. m \in Nat
  <2>1. \E x \in {PayloadMax, c} : \A y \in {PayloadMax, c} : x <= y
    BY <1>2
  <2> QED
    BY <2>1, <1>2 DEF Min
<1> HIDE DEF m
<1>4. Max({PayloadMin, m}) \in {PayloadMin, m} /\ Max({PayloadMin, m}) >= PayloadMin
  <2>1. \E x \in {PayloadMin, m} : \A y \in {PayloadMin, m} : x >= y
    BY <1>2, <1>3
  <2> QED
    BY <2>1, <1>2, <1>3 DEF Max
<1>5. Max({PayloadMin, m}) \in Nat \ {0}
  BY <1>2, <1>3, <1>4
<1> QED
  BY <1>5 DEF PayloadSize, m, c

\* The smaller of two numbers.
LEMMA MinOfTwo ==
    ASSUME NEW a \in Nat, NEW b \in Nat PROVE Min({a, b}) = IF a <= b THEN a ELSE b
<1>1. \E x \in {a, b} : \A y \in {a, b} : x <= y
  OBVIOUS
<1>2. Min({a, b}) \in {a, b} /\ \A y \in {a, b} : Min({a, b}) <= y
  BY <1>1 DEF Min
<1> QED
  BY <1>2

\* Rounding up: nothing, a part of a payload, one payload more.
LEMMA CeilSteps ==
    ASSUME NEW b \in Nat \ {0}
    PROVE  /\ CeilDiv(0, b) = 0 /\ \A a \in 1..b : CeilDiv(a, b) = 1
           /\ \A a \in Nat : CeilDiv(a, b) \in Nat
           /\ \A a \in Nat : CeilDiv(a + b, b) = CeilDiv(a, b) + 1
<1>1. CeilDiv(0, b) = 0
  BY DEF CeilDiv
<1>2. ASSUME NEW a \in 1..b PROVE CeilDiv(a, b) = 1
  <2>1. (a - 1) \div b = 0
    OBVIOUS
  <2> QED
    BY <2>1 DEF CeilDiv
<1>3. ASSUME NEW a \in Nat PROVE CeilDiv(a, b) \in Nat
  BY DEF CeilDiv
<1>4. ASSUME NEW a \in Nat PROVE CeilDiv(a + b, b) = CeilDiv(a, b) + 1
  <2>1. CASE a = 0
    <3>1. a + b = b /\ b \in 1..b
      BY <2>1
    <3> QED
      BY <2>1, <3>1, <1>1, <1>2
  <2>2. CASE a # 0
    <3> DEFINE q == (a - 1) \div b
               r == (a - 1) % b
    <3>1. q \in Nat /\ r \in 0..(b - 1) /\ a - 1 = q * b + r
      BY <2>2
    <3>2. (a + b) - 1 = (q + 1) * b + r
      BY <3>1
    <3> HIDE DEF q, r
    <3>3. ((a + b) - 1) \div b = q + 1
      BY <3>1, <3>2
    <3> QED
      BY <2>2, <3>3 DEF CeilDiv, q
  <2> QED
    BY <2>1, <2>2
<1> QED
  BY <1>1, <1>2, <1>3, <1>4

\* A record more makes the stream longer by its encoded size.
LEMMA StreamGrows ==
    ASSUME NEW s \in Seq(Records), NEW r \in Records
    PROVE  /\ StreamSize(<< >>) = 0 /\ StreamSize(s) \in Nat
           /\ Append(s, r) \in Seq(Records)
           /\ StreamSize(Append(s, r)) = StreamSize(s) + EncodedSize(r)
<1> DEFINE v == [i \in DOMAIN s |-> EncodedSize(s[i])]
           w == [i \in DOMAIN Append(s, r) |-> EncodedSize(Append(s, r)[i])]
           n == Len(s)
<1>1. n \in Nat /\ DOMAIN s = 1..n /\ \A i \in 1..n : s[i] \in Records
  BY LenProperties, ElementOfSeq
<1>2. /\ Append(s, r) \in Seq(Records) /\ Len(Append(s, r)) = n + 1
      /\ DOMAIN Append(s, r) = 1..(n + 1)
      /\ \A i \in 1..n : Append(s, r)[i] = s[i] /\ Append(s, r)[n + 1] = r
  BY <1>1, AppendProperties, LenProperties
<1>3. \A i \in 1..n : v[i] = w[i] /\ v[i] \in Nat
  BY <1>1, <1>2, RecordAssumption DEF EncodedSize, Records
<1>4. w[n + 1] = EncodedSize(r)
  BY <1>1, <1>2, AppendProperties
<1> HIDE DEF v, w
<1>5. SumUpTo(w, n + 1) = SumUpTo(v, n) + EncodedSize(r)
  <2>1. SumUpTo(w, n + 1) = SumUpTo(w, n) + w[n + 1]
    BY <1>1, SumStep
  <2>2. SumUpTo(v, n) = SumUpTo(w, n)
    BY <1>1, <1>3, SumSame
  <2> QED
    BY <2>1, <2>2, <1>4
<1>6. SumUpTo(v, n) \in Nat
  BY <1>1, <1>3, SumNat
<1>7. StreamSize(<< >>) = 0
  BY SumStep, Len(<< >>) = 0 DEF StreamSize
<1> QED
  BY <1>2, <1>5, <1>6, <1>7 DEF StreamSize, v, w

----------------------------------------------------------------------------
\* What a record or a node is.
LEMMA NodeFields ==
    ASSUME NEW n \in Nodes
    PROVE  /\ n.kind \in {"file", "dir", "link", "special"} /\ n.mtime \in Nat
           /\ n.bytes \in Seq(Nat) /\ Len(n.bytes) \in Nat
  BY LenProperties DEF Nodes

\* Node() makes one of the Nodes.
LEMMA NodeMade ==
    ASSUME NEW k \in {"file", "dir", "link", "special"}, NEW b \in Seq(Nat), NEW t \in Nat
    PROVE  Node(k, b, t) \in Nodes
  BY DEF Node, Nodes

\* The records the writer makes, and their encoded sizes.
LEMMA RecordsMade ==
    /\ BeginRecord \in Records /\ EncodedSize(BeginRecord) = RecordPrefix + VersionSize
    /\ \A t \in RecordTypes : MarkRecord(t) \in Records /\ EncodedSize(MarkRecord(t)) = RecordPrefix
    /\ \A n \in Nat : /\ PaddingRecord(n) \in Records
                      /\ EncodedSize(PaddingRecord(n)) = RecordPrefix + n
    /\ \A b \in Seq(Nat) : /\ BytesRecord(b) \in Records
                           /\ EncodedSize(BytesRecord(b)) = RecordPrefix + Len(b)
<1> USE RecordAssumption, LenProperties
<1> USE DEF MakeRecord, Records, EncodedSize, Bodies
<1>1. BeginRecord \in Records /\ EncodedSize(BeginRecord) = RecordPrefix + VersionSize
  BY DEF BeginRecord, VersionSize, RecordTypes
<1>2. << >> \in Seq(Nat)
  BY EmptySeq
<1>3. ASSUME NEW t \in RecordTypes
      PROVE  MarkRecord(t) \in Records /\ EncodedSize(MarkRecord(t)) = RecordPrefix
  BY <1>2 DEF MarkRecord
<1>4. ASSUME NEW n \in Nat
      PROVE  PaddingRecord(n) \in Records /\ EncodedSize(PaddingRecord(n)) = RecordPrefix + n
  BY <1>2 DEF PaddingRecord, RecordTypes
<1>5. ASSUME NEW b \in Seq(Nat)
      PROVE  BytesRecord(b) \in Records /\ EncodedSize(BytesRecord(b)) = RecordPrefix + Len(b)
  BY DEF BytesRecord, RecordTypes
<1> QED
  BY <1>1, <1>3, <1>4, <1>5

\* metadata_for() of an entry that is there.
LEMMA MetadataMade ==
    ASSUME WriterTyped, NEW e \in Entries, ~MetadataThrows(e)
    PROVE  /\ MetadataSize(MetadataFor(e)) \in Nat /\ MetadataFor(e).size \in Nat
           /\ MetadataFor(e).size
                 = IF input[e.path].kind = "file" THEN Len(input[e.path].bytes) ELSE 0
           /\ \A t \in RecordTypes :
                 /\ EntryRecord(t, MetadataFor(e)) \in Records
                 /\ EncodedSize(EntryRecord(t, MetadataFor(e)))
                       = RecordPrefix + MetadataSize(MetadataFor(e))
<1> DEFINE n == input[e.path]
           m == MetadataFor(e)
<1>1. e.path \in DOMAIN input /\ n \in Nodes /\ e.path \in Seq(STRING)
  BY DEF WriterTyped, MetadataThrows, Entries
<1>2. n.kind \in {"file", "dir", "link", "special"} /\ n.bytes \in Seq(Nat) /\ n.mtime \in Nat
      /\ Len(n.bytes) \in Nat /\ Len(e.path) \in Nat
  BY <1>1, NodeFields, LenProperties
<1>3. m = Metadata(n.kind, e.path, IF n.kind = "file" THEN Len(n.bytes) ELSE 0, n.mtime, << >>)
  BY DEF MetadataFor
<1> HIDE DEF n, m
<1>4. /\ m \in [kind : {"file", "dir", "link", "special"}, path : Seq(STRING), size : Nat,
                mtime : Nat, target : {<< >>}]
      /\ m.size = IF n.kind = "file" THEN Len(n.bytes) ELSE 0
      /\ m.path = e.path /\ m.target = << >>
  BY <1>1, <1>2, <1>3 DEF Metadata
<1>5. MetadataSize(m) \in Nat
  BY <1>2, <1>4, RecordAssumption, Len(<< >>) = 0 DEF MetadataSize
<1>6. m \in Bodies
  BY <1>4 DEF Bodies
<1>7. ASSUME NEW t \in RecordTypes
      PROVE  EntryRecord(t, m) \in Records
             /\ EncodedSize(EntryRecord(t, m)) = RecordPrefix + MetadataSize(m)
  BY <1>5, <1>6 DEF EntryRecord, MakeRecord, Records, EncodedSize
<1> QED
  BY <1>4, <1>5, <1>7 DEF n, m

\* What plan_plaintext_size() adds for an entry.
LEMMA PlannedNat ==
    ASSUME WriterTyped, NEW e \in Entries, e.type # "special" => ~MetadataThrows(e)
    PROVE  PlannedEntry(e) \in Nat
<1>1. CASE e.type = "special"
  BY <1>1 DEF PlannedEntry
<1>2. CASE e.type # "special"
  <2> DEFINE m == MetadataFor(e)
             k == CeilDiv(m.size, PayloadSize)
  <2>1. MetadataSize(m) \in Nat /\ m.size \in Nat
    BY <1>2, MetadataMade
  <2>2. k \in Nat
    BY <2>1, PayloadPositive, CeilSteps DEF WriterTyped
  <2>3. e.type \in {"file", "dir"}
    BY <1>2 DEF Entries
  <2>4. PlannedEntry(e) = IF e.type = "dir" THEN RecordPrefix + MetadataSize(m)
            ELSE RecordPrefix + MetadataSize(m) + k * RecordPrefix + m.size + RecordPrefix
    BY <2>3 DEF PlannedEntry
  <2> HIDE DEF m, k
  <2> QED
    BY <2>1, <2>2, <2>4, RecordAssumption
<1> QED
  BY <1>1, <1>2

----------------------------------------------------------------------------
\* The constructor throws, or lists what the walk has seen.
LEMMA WalkOutcome ==
    ASSUME Walk
    PROVE  \/ stage' = "failed" /\ entries' = entries
           \/ stage' = "plan" /\ \E S \in SUBSET Walkable : CanSee(S) /\ Lists(S)
<1> QED
  BY DEF Walk, Become

\* Types, action by action.
LEMMA WalkEntries ==
    ASSUME WriterTyped, NEW S \in SUBSET Walkable, Lists(S)
    PROVE  /\ entries' \in Seq(Entries)
           /\ \A i \in DOMAIN entries' : /\ entries'[i].path \in DOMAIN input
                                         /\ input[entries'[i].path].kind = entries'[i].type
                                         /\ entries'[i].path \in S
<1> DEFINE kept == {i \in DOMAIN PathOrder : PathOrder[i] \in S}
           e(i) == [path |-> PathOrder[i], type |-> input[PathOrder[i]].kind]
<1>1. PICK s \in [1..Cardinality(kept) -> kept] : entries' = [i \in DOMAIN s |-> e(s[i])]
  BY DEF Lists
<1>2. ASSUME NEW i \in kept
      PROVE  /\ e(i) \in Entries /\ e(i).path \in DOMAIN input
             /\ input[e(i).path].kind = e(i).type /\ e(i).path \in S
  <2>1. PathOrder[i] \in DOMAIN input /\ input[PathOrder[i]] \in Nodes
        /\ input[PathOrder[i]].kind # "link" /\ PathOrder[i] \in Seq(STRING)
    BY DEF WriterTyped, Walkable
  <2> QED
    BY <2>1, NodeFields DEF Entries
<1>3. IsFiniteSet(kept)
  <2>1. Len(PathOrder) \in Nat /\ DOMAIN PathOrder = 1..Len(PathOrder)
    BY TreesAssumption, LenProperties
  <2>2. IsFiniteSet(1..Len(PathOrder))
    BY <2>1, FS_Interval, 1 \in Int, Len(PathOrder) \in Int
  <2> QED
    BY <2>1, <2>2, FS_Subset
<1>4. Cardinality(kept) \in Nat
  BY <1>3, FS_CardinalityType
<1> HIDE DEF kept, e
<1>5. DOMAIN entries' = 1..Cardinality(kept) /\ \A i \in DOMAIN entries' :
         entries'[i] \in Entries /\ entries'[i].path \in DOMAIN input
         /\ input[entries'[i].path].kind = entries'[i].type /\ entries'[i].path \in S
  BY <1>1, <1>2
<1>6. entries' \in [1..Cardinality(kept) -> Entries]
  BY <1>1, <1>5
<1> QED
  BY <1>4, <1>5, <1>6, SeqDef

\* What one read() of an open file gives, and how much.
LEMMA BytesRead ==
    ASSUME WriterTyped, NEW f \in Files, f.path \in DOMAIN input
    PROVE  LET b == input[f.path].bytes IN
           /\ NextBytes(f) \in Seq(Nat) /\ Len(NextBytes(f)) \in Nat
           /\ Len(NextBytes(f)) = IF f.read >= Len(b) THEN 0
                                  ELSE IF f.read + PayloadSize <= Len(b) THEN PayloadSize
                                  ELSE Len(b) - f.read
           /\ NextBytes(f) = << >> <=> Len(NextBytes(f)) = 0
<1> DEFINE b == input[f.path].bytes
           to == Min({f.read + PayloadSize, Len(b)})
<1>1. b \in Seq(Nat) /\ Len(b) \in Nat
  BY NodeFields DEF WriterTyped
<1>2. f.read \in Nat /\ PayloadSize \in Nat \ {0}
  BY PayloadPositive DEF WriterTyped, Files
<1> HIDE DEF b
<1>3. to = IF f.read + PayloadSize <= Len(b) THEN f.read + PayloadSize ELSE Len(b)
  <2>1. f.read + PayloadSize \in Nat
    BY <1>2
  <2> QED
    BY <1>1, <2>1, MinOfTwo
<1>4. NextBytes(f) = SubSeq(b, f.read + 1, to)
  BY DEF NextBytes, b
<1> HIDE DEF to
<1>5. NextBytes(f) \in Seq(Nat) /\ Len(NextBytes(f)) = IF f.read + 1 <= to THEN to - f.read ELSE 0
  <2>1. to \in Nat /\ to <= Len(b)
    BY <1>1, <1>2, <1>3
  <2> QED
    BY <1>1, <1>2, <1>4, <2>1
<1>6. NextBytes(f) = << >> <=> Len(NextBytes(f)) = 0
  BY <1>5, EmptySeq
<1> QED
  BY <1>1, <1>2, <1>3, <1>5, <1>6 DEF b

\* The writer keeps its types.
LEMMA TypedStep == WriterTyped /\ PlanInv /\ [Next]_vars => WriterTyped'
<1> SUFFICES ASSUME WriterTyped, PlanInv, [Next]_vars PROVE WriterTyped'
  OBVIOUS
<1>0. Len(entries) \in Nat /\ << >> \in Seq(Files)
  BY LenProperties, EmptySeq DEF WriterTyped
<1>1. CASE Validate
  BY <1>1 DEF WriterTyped, Validate
<1>2. CASE Walk
  <2>1. index = 1
    BY <1>2 DEF Walk, PlanInv
  <2>2. entries' \in Seq(Entries) /\ Len(entries') \in Nat
    <3>1. CASE entries' = entries
      BY <1>0, <3>1 DEF WriterTyped
    <3>2. CASE \E S \in SUBSET Walkable : Lists(S)
      BY <3>2, WalkEntries, LenProperties
    <3> QED
      BY <1>2, <3>1, <3>2, WalkOutcome
  <2>3. UNCHANGED <<input, params, index, reading, changes>>
    BY <1>2 DEF Walk
  <2> QED
    BY <2>1, <2>2, <2>3 DEF WriterTyped
<1>3. CASE Plan
  BY <1>3 DEF WriterTyped, Plan
<1>4. CASE EmitBegin
  BY <1>4 DEF WriterTyped, EmitBegin
<1>5. CASE EmitEntry
  <2> DEFINE e == entries[index]
  <2>1. e \in Entries /\ index' = index + 1 /\ index <= Len(entries)
    BY <1>5, <1>0 DEF EmitEntry, WriterTyped
  <2>2. index' \in 1..(Len(entries) + 1)
    BY <1>0, <2>1 DEF WriterTyped
  <2>3. /\ reading' \in Seq(Files) /\ Len(reading') <= 1
        /\ reading' # << >> => reading'[1].path \in DOMAIN input
    <3>1. CASE reading' = reading
      BY <3>1 DEF WriterTyped
    <3>2. CASE reading' = << >>
      BY <3>2, <1>0, Len(<< >>) = 0
    <3>3. CASE ~MetadataThrows(e) /\ reading' = <<Reading(e.path, MetadataFor(e).size, 0, FALSE)>>
      <4> DEFINE g == Reading(e.path, MetadataFor(e).size, 0, FALSE)
      <4>1. MetadataFor(e).size \in Nat
        BY <2>1, <3>3, MetadataMade
      <4>2. g \in Files /\ g.path \in DOMAIN input
        BY <2>1, <3>3, <4>1 DEF Reading, Files, Entries, MetadataThrows
      <4> HIDE DEF g
      <4>3. reading' = <<g>>
        BY <3>3 DEF g
      <4> QED
        BY <4>2, <4>3
    <3> QED
      BY <1>5, <3>1, <3>2, <3>3, Zenon DEF EmitEntry
  <2> QED
    BY <1>5, <2>2, <2>3 DEF EmitEntry, WriterTyped
<1>6. CASE EmitFileBytes
  <2> DEFINE f == reading[1]
             n == Len(NextBytes(f))
             g == Reading(f.path, f.size, f.read + n, n < PayloadSize)
  <2>1. reading # << >> /\ reading' = <<g>>
    BY <1>6, Zenon DEF EmitFileBytes
  <2>2. f \in Files /\ f.path \in DOMAIN input
    BY <2>1 DEF WriterTyped
  <2>3. n \in Nat
    BY <2>2, BytesRead
  <2>4. g \in Files /\ g.path \in DOMAIN input
    BY <2>2, <2>3 DEF Reading, Files
  <2> HIDE DEF g
  <2>5. reading' \in Seq(Files) /\ Len(reading') <= 1 /\ reading'[1].path \in DOMAIN input
    BY <2>1, <2>4
  <2> QED
    BY <1>6, <2>5 DEF EmitFileBytes, WriterTyped
<1>7. CASE EmitFileEnd
  BY <1>7, <1>0, Len(<< >>) = 0 DEF WriterTyped, EmitFileEnd
<1>8. CASE EmitEnd
  BY <1>8 DEF WriterTyped, EmitEnd
<1>9. CASE EmitPadding
  BY <1>9 DEF WriterTyped, EmitPadding
<1>10. CASE VerifyProduced
  BY <1>10 DEF WriterTyped, VerifyProduced
<1>11. CASE Disturb
  <2> SUFFICES ASSUME NEW p \in DOMAIN input,
                      GrowFile(p) \/ ShrinkFile(p) \/ RemoveEntry(p) \/ ReplaceEntry(p)
               PROVE  WriterTyped'
    BY <1>11 DEF Disturb
  <2>1. changes' \in Seq(Changes) /\ UNCHANGED <<params, entries, index, reading>>
    <3>1. Changed("grow") \/ Changed("shrink") \/ Changed("remove") \/ Changed("replace")
      BY DEF GrowFile, ShrinkFile, RemoveEntry, ReplaceEntry
    <3>2. \/ changes' = Append(changes, "grow") \/ changes' = Append(changes, "shrink")
          \/ changes' = Append(changes, "remove") \/ changes' = Append(changes, "replace")
      BY <3>1, Zenon DEF Changed
    <3>4. PICK how \in {"grow", "shrink", "remove", "replace"} : changes' = Append(changes, how)
      BY <3>2, Zenon
    <3>5. how \in Changes /\ changes \in Seq(Changes)
      BY DEF WriterTyped, Changes
    <3>3. UNCHANGED <<params, entries, index, reading>>
      BY <3>1 DEF Changed
    <3>6. changes' \in Seq(Changes)
      BY <3>4, <3>5, AppendProperties
    <3> QED
      BY <3>3, <3>6
  <2>2. p \in Seq(STRING) /\ input[p] \in Nodes /\ input[p].bytes \in Seq(Nat)
        /\ input[p].mtime \in Nat
    BY NodeFields DEF WriterTyped
  <2>3. CASE \E n \in Nodes : input' = [input EXCEPT ![p] = n]
    <3>1. DOMAIN input' = DOMAIN input /\ \A q \in DOMAIN input : input'[q] \in Nodes
      BY <2>3 DEF WriterTyped
    <3> QED
      BY <2>1, <3>1 DEF WriterTyped
  <2>4. CASE GrowFile(p)
    <3>1. Append(input[p].bytes, 9) \in Seq(Nat)
      BY <2>2
    <3>2. Node("file", Append(input[p].bytes, 9), input[p].mtime) \in Nodes
      BY <2>2, <3>1, NodeMade
    <3> QED
      BY <2>3, <2>4, <3>2 DEF GrowFile
  <2>5. CASE ShrinkFile(p)
    <3>1. Front(input[p].bytes) \in Seq(Nat)
      BY <2>2 DEF Front
    <3>2. Node("file", Front(input[p].bytes), input[p].mtime) \in Nodes
      BY <2>2, <3>1, NodeMade
    <3> QED
      BY <2>3, <2>5, <3>2 DEF ShrinkFile
  <2>6. CASE RemoveEntry(p)
    <3>1. reading # << >> => reading[1].path # p
      BY <2>6 DEF RemoveEntry, Open
    <3> QED
      BY <2>1, <2>6, <3>1 DEF RemoveEntry, WriterTyped
  <2>7. CASE ReplaceEntry(p)
    <3>1. PICK k \in {"file", "dir"} : input' = [input EXCEPT ![p] = Node(k, << >>, 5)]
      BY <2>7 DEF ReplaceEntry
    <3>2. Node(k, << >>, 5) \in Nodes
      BY NodeMade, EmptySeq
    <3> QED
      BY <2>3, <3>1, <3>2
  <2> QED
    BY <2>4, <2>5, <2>6, <2>7
<1>12. CASE UNCHANGED wvars
  BY <1>12 DEF WriterTyped, wvars
<1> QED
  BY <1>1, <1>2, <1>3, <1>4, <1>5, <1>6, <1>7, <1>8, <1>9, <1>10, <1>11, <1>12, Zenon
     DEF Next, Encrypt, vars

----------------------------------------------------------------------------
\* The plan, action by action.
LEMMA PlannedSize ==
    ASSUME WriterTyped, \A i \in DOMAIN entries :
              entries[i].type # "special" => ~MetadataThrows(entries[i])
    PROVE  /\ Len(entries) \in Nat /\ DOMAIN entries = 1..Len(entries)
           /\ \A n \in 0..Len(entries) : PlannedUpTo(n) \in Nat
           /\ \A n \in 1..Len(entries) :
                 PlannedUpTo(n) = PlannedUpTo(n - 1) + PlannedEntry(entries[n])
           /\ PlannedUpTo(0) = 0
           /\ PlanPlaintextSize
                 = RecordPrefix + VersionSize + PlannedUpTo(Len(entries)) + RecordPrefix
           /\ PlanPlaintextSize \in Nat \ {0}
<1> DEFINE w == [i \in DOMAIN entries |-> PlannedEntry(entries[i])]
<1>1. Len(entries) \in Nat /\ DOMAIN entries = 1..Len(entries)
  BY LenProperties DEF WriterTyped
<1>2. \A i \in 1..Len(entries) : w[i] = PlannedEntry(entries[i]) /\ w[i] \in Nat
  <2> SUFFICES ASSUME NEW i \in 1..Len(entries) PROVE PlannedEntry(entries[i]) \in Nat
    BY <1>1
  <2>1. entries[i] \in Entries /\ i \in DOMAIN entries
    BY <1>1 DEF WriterTyped
  <2> QED
    BY <2>1, PlannedNat
<1> HIDE DEF w
<1>3. ASSUME NEW n \in 0..Len(entries) PROVE SumUpTo(w, n) \in Nat
  <2>1. n \in Nat /\ \A k \in 1..n : w[k] \in Nat
    BY <1>1, <1>2
  <2> QED
    BY <2>1, SumNat
<1>4. ASSUME NEW n \in 1..Len(entries)
      PROVE  SumUpTo(w, n) = SumUpTo(w, n - 1) + PlannedEntry(entries[n])
  <2>1. n - 1 \in Nat /\ (n - 1) + 1 = n
    BY <1>1
  <2>2. SumUpTo(w, (n - 1) + 1) = SumUpTo(w, n - 1) + w[(n - 1) + 1]
    BY <2>1, SumStep
  <2> QED
    BY <2>1, <2>2, <1>2
<1>5. SumUpTo(w, 0) = 0
  BY SumStep
<1>6. \A n : PlannedUpTo(n) = SumUpTo(w, n)
  BY DEF PlannedUpTo, w
<1>7. PlanPlaintextSize = RecordPrefix + VersionSize + SumUpTo(w, Len(entries)) + RecordPrefix
  BY DEF PlanPlaintextSize, w
<1>8. PlanPlaintextSize \in Nat \ {0}
  <2>1. SumUpTo(w, Len(entries)) \in Nat
    BY <1>1, <1>3
  <2> QED
    BY <1>7, <2>1, RecordAssumption DEF VersionSize
<1> QED
  BY <1>1, <1>3, <1>4, <1>5, <1>6, <1>7, <1>8

\* The gap up to the announced size is nothing or takes a padding record.
LEMMA PaddingRoom ==
    ASSUME WriterTyped, PlanInv, header # << >>
    PROVE  /\ header[1].padded \in Nat /\ header[1].padded >= raw
           /\ header[1].padded - raw = 0 \/ header[1].padded - raw >= RecordPrefix
           /\ raw <= MaxU64 => ParseGlobal(header[1])
<1> DEFINE padded == ComputePadding(raw, params)
<1>1. /\ ValidSizes(params) /\ raw \in Nat \ {0} /\ padded # Throws
      /\ header[1] = Header(padded, params)
  BY DEF PlanInv
<1>2. /\ params.chunk \in Nat /\ params.fixed \in 0..MaxU64
      /\ params.policy \in {"none", "chunk", "power2", "fixed"}
  BY WriterAssumption, Words DEF WriterTyped, Policies
<1>3. header[1].padded = padded
  BY <1>1 DEF Header
<1>4. CASE raw <= MaxU64
  <2>1. raw \in 1..MaxU64
    BY <1>1, <1>4, Words
  <2>2. ParseGlobal(Header(padded, params)) /\ Padded(raw, padded)
    BY <2>1, <1>1, <1>2, HeaderAccepted
  <2> QED
    BY <2>2, <1>1, <1>3 DEF Padded
<1>5. CASE raw > MaxU64
  <2>1. padded = raw
    BY <1>1, <1>2, <1>5, NoPaddingBeyond
  <2> QED
    BY <2>1, <1>1, <1>3, <1>5, Words, RecordAssumption
<1> QED
  BY <1>1, <1>4, <1>5, Words

\* ... and its plan: the sizes are valid and the header is the planned one.
LEMMA PlanStep == WriterTyped /\ PlanInv /\ [Next]_vars => PlanInv'
<1> SUFFICES ASSUME WriterTyped, PlanInv, [Next]_vars PROVE PlanInv'
  OBVIOUS
<1> USE DEF PlanInv, Writing, Become
<1>1. CASE Validate
  BY <1>1, Zenon DEF Validate
<1>2. CASE Walk
  <2>1. stage = "walk" /\ stage' \in {"plan", "failed"}
        /\ UNCHANGED <<params, index, reading, header, raw, stream>>
    BY <1>2, WalkOutcome DEF Walk
  <2> QED
    BY <2>1
<1>3. CASE Plan
  <2> DEFINE padded == ComputePadding(PlanPlaintextSize, params)
  <2>1. stage = "plan" /\ UNCHANGED <<params, index, reading, stream>>
    BY <1>3 DEF Plan
  <2>2. CASE stage' = "failed" /\ UNCHANGED <<header, raw>>
    BY <2>1, <2>2
  <2>3. CASE /\ ~\E i \in DOMAIN entries : entries[i].type # "special" /\ MetadataThrows(entries[i])
             /\ padded # Throws /\ stage' = "begin" /\ raw' = PlanPlaintextSize
             /\ header' = <<Header(padded, params)>>
    <3>1. raw' \in Nat \ {0}
      BY <2>3, PlannedSize
    <3>2. << >> \in Seq(Records) /\ header' # << >>
      BY <2>3, EmptySeq
    <3>3. ComputePadding(raw', params') = padded /\ Header(padded, params') = Header(padded, params)
      BY <2>1, <2>3
    <3> HIDE DEF padded
    <3> QED
      BY <2>1, <2>3, <3>1, <3>2, <3>3
  <2> QED
    BY <1>3, <2>2, <2>3, Zenon DEF Plan
<1>4. CASE EmitBegin
  <2>1. stream \in Seq(Records) /\ Append(stream, BeginRecord) \in Seq(Records)
    BY <1>4, RecordsMade, StreamGrows DEF EmitBegin
  <2> QED
    BY <1>4, <2>1 DEF EmitBegin, Emit
<1>5. CASE EmitEntry
  <2> DEFINE e == entries[index]
             r == EntryRecord(IF e.type = "dir" THEN "Dir" ELSE "File", MetadataFor(e))
  <2>1. stage = "entries" /\ stage' \in {"entries", "failed"} /\ UNCHANGED <<params, header, raw>>
    BY <1>5 DEF EmitEntry
  <2>2. stream \in Seq(Records) /\ e \in Entries
    BY <1>5 DEF EmitEntry, WriterTyped
  <2>3. CASE stream' = stream
    BY <2>1, <2>2, <2>3
  <2>4. CASE ~MetadataThrows(e) /\ stream' = Append(stream, r)
    <3>1. r \in Records
      BY <2>2, <2>4, MetadataMade DEF RecordTypes
    <3>2. stream' \in Seq(Records)
      BY <2>2, <2>4, <3>1, StreamGrows
    <3> QED
      BY <2>1, <3>2
  <2> QED
    BY <1>5, <2>3, <2>4, Zenon DEF EmitEntry, Emit
<1>6. CASE EmitFileBytes
  <2> DEFINE b == NextBytes(reading[1])
  <2>1. stage = "entries" /\ reading # << >> /\ stream' = Append(stream, BytesRecord(b))
        /\ UNCHANGED <<stage, params, header, raw>>
    BY <1>6 DEF EmitFileBytes, Emit
  <2>2. reading[1] \in Files /\ reading[1].path \in DOMAIN input
    BY <2>1 DEF WriterTyped
  <2>3. b \in Seq(Nat)
    BY <2>2, BytesRead
  <2>4. stream' \in Seq(Records)
    BY <2>1, <2>3, RecordsMade, StreamGrows
  <2> QED
    BY <2>1, <2>4
<1>7. CASE EmitFileEnd
  <2>1. stream \in Seq(Records) /\ Append(stream, MarkRecord("FileEnd")) \in Seq(Records)
    BY <1>7, RecordsMade, StreamGrows DEF EmitFileEnd, RecordTypes
  <2> QED
    BY <1>7, <2>1 DEF EmitFileEnd, Emit
<1>8. CASE EmitEnd
  <2>1. stream \in Seq(Records) /\ Append(stream, MarkRecord("End")) \in Seq(Records)
    BY <1>8, RecordsMade, StreamGrows DEF EmitEnd, RecordTypes
  <2> QED
    BY <1>8, <2>1 DEF EmitEnd, Emit
<1>9. CASE EmitPadding
  <2> DEFINE gap == header[1].padded - raw
  <2>0. stream \in Seq(Records) /\ raw \in Nat /\ header # << >>
    BY <1>9 DEF EmitPadding
  <2>1. stream' \in Seq(Records)
    <3>1. CASE gap > 0
      <4>1. gap - RecordPrefix \in Nat
        BY <2>0, <3>1, PaddingRoom, RecordAssumption
      <4>2. PaddingRecord(gap - RecordPrefix) \in Records
        BY <4>1, RecordsMade
      <4> QED
        BY <1>9, <2>0, <3>1, <4>2, StreamGrows DEF EmitPadding, Emit
    <3>2. CASE ~(gap > 0)
      BY <1>9, <2>0, <3>2 DEF EmitPadding
    <3> QED
      BY <3>1, <3>2
  <2> QED
    BY <1>9, <2>1 DEF EmitPadding
<1>10. CASE VerifyProduced
  BY <1>10 DEF VerifyProduced
<1>11. CASE Disturb
  <2>1. UNCHANGED <<params, stage, index, reading, header, raw, stream>>
    BY <1>11 DEF Disturb, GrowFile, ShrinkFile, RemoveEntry, ReplaceEntry, Changed
  <2> QED
    BY <2>1
<1>12. CASE UNCHANGED wvars
  BY <1>12 DEF wvars
<1> QED
  BY <1>1, <1>2, <1>3, <1>4, <1>5, <1>6, <1>7, <1>8, <1>9, <1>10, <1>11, <1>12, Zenon
     DEF Next, Encrypt, vars

----------------------------------------------------------------------------
\* The balance of records emitted and planned, action by action.
LEMMA PlanKept ==
    ASSUME UNCHANGED <<input, params, entries>>
    PROVE  /\ \A n : PlannedUpTo(n)' = PlannedUpTo(n)
           /\ PlanPlaintextSize' = PlanPlaintextSize /\ PayloadSize' = PayloadSize
  BY DEF PlannedUpTo, PlanPlaintextSize, PayloadSize, PlannedEntry, MetadataFor

\* A read takes from what the open file still has to give what it emits.
LEMMA FileBalance ==
    ASSUME NEW p \in Nat \ {0}, NEW size \in Nat, NEW read \in Nat, read <= size,
           NEW n \in Nat, n > 0,
           (read + p <= size /\ n = p) \/ (read + p > size /\ n = size - read)
    PROVE  CeilDiv(size - read, p) * RecordPrefix + (size - read) + RecordPrefix
              = (RecordPrefix + n) + (CeilDiv(size - (read + n), p) * RecordPrefix
                                         + (size - (read + n)) + RecordPrefix)
<1> DEFINE a == CeilDiv(size - read, p)
           b == CeilDiv(size - (read + n), p)
<1>1. a \in Nat /\ b \in Nat /\ a = b + 1
  <2>1. size - read \in Nat /\ size - (read + n) \in Nat
    OBVIOUS
  <2>2. CASE read + p <= size
    <3>1. (size - (read + n)) + p = size - read
      BY <2>2
    <3>2. CeilDiv((size - (read + n)) + p, p) = b + 1 /\ b \in Nat
      BY <2>1, CeilSteps
    <3> QED
      BY <3>1, <3>2
  <2>3. CASE read + p > size
    <3>1. size - read \in 1..p /\ size - (read + n) = 0
      BY <2>3
    <3>2. CeilDiv(size - read, p) = 1 /\ CeilDiv(0, p) = 0
      BY <3>1, CeilSteps
    <3> QED
      BY <3>1, <3>2
  <2> QED
    BY <2>2, <2>3
<1> HIDE DEF a, b
<1>2. a * RecordPrefix = b * RecordPrefix + RecordPrefix
  BY <1>1, RecordAssumption
<1>3. b * RecordPrefix \in Nat
  BY <1>1, RecordAssumption
<1>4. a * RecordPrefix + (size - read) + RecordPrefix
         = (RecordPrefix + n) + (b * RecordPrefix + (size - (read + n)) + RecordPrefix)
  BY <1>2, <1>3, RecordAssumption
<1> QED
  BY <1>4 DEF a, b

\* The balance of emitted and planned bytes, action by action.
LEMMA BalanceStep == LayoutInv /\ [Next]_vars => BalanceInv'
<1> SUFFICES ASSUME WriterTyped, PlanInv, BalanceInv, [Next]_vars PROVE BalanceInv'
  BY DEF LayoutInv
<1>1. CASE Disturb
  <2>1. \E how : changes' = Append(changes, how)
    BY <1>1 DEF Disturb, GrowFile, ShrinkFile, RemoveEntry, ReplaceEntry, Changed
  <2>2. changes' # << >>
    BY <2>1, AppendProperties DEF WriterTyped
  <2> QED
    BY <2>2 DEF BalanceInv
<1>2. CASE UNCHANGED wvars
  <2>1. UNCHANGED <<input, params, stage, entries, index, reading, header, raw, stream, changes>>
    BY <1>2 DEF wvars
  <2>2. Unread(reading[1])' = Unread(reading[1]) /\ StreamSize(stream)' = StreamSize(stream)
    BY <2>1, PlanKept DEF Unread
  <2> QED
    BY <2>1, <2>2, PlanKept DEF BalanceInv
<1>3. SUFFICES ASSUME Encrypt, changes = << >>, UNCHANGED <<input, params, changes>>
               PROVE  BalanceInv'
  <2>1. Encrypt => UNCHANGED <<input, params, changes>>
    BY DEF Encrypt, Validate, Walk, Plan, EmitBegin, EmitEntry, EmitFileBytes, EmitFileEnd,
       EmitEnd, EmitPadding, VerifyProduced
  <2>2. changes' # << >> => BalanceInv'
    BY DEF BalanceInv
  <2> QED
    BY <1>1, <1>2, <1>3, <2>1, <2>2, Zenon DEF Next, vars
<1>4. CASE Walk
  <2>1. stage' \in {"plan", "failed"}
    BY <1>4, WalkOutcome
  <2>2. \A i \in DOMAIN entries' : /\ entries'[i].path \in DOMAIN input'
                                   /\ input'[entries'[i].path].kind = entries'[i].type
    <3>1. CASE entries' = entries
      BY <1>3, <3>1 DEF BalanceInv
    <3>2. CASE \E S \in SUBSET Walkable : Lists(S)
      BY <1>3, <3>2, WalkEntries
    <3> QED
      BY <1>4, <3>1, <3>2, WalkOutcome
  <2> QED
    BY <2>1, <2>2 DEF BalanceInv, Writing
<1>5. SUFFICES ASSUME UNCHANGED entries, ~Walk PROVE BalanceInv'
  BY <1>3, <1>4 DEF Encrypt, Validate, Plan, EmitBegin, EmitEntry, EmitFileBytes, EmitFileEnd,
     EmitEnd, EmitPadding, VerifyProduced
<1>6. /\ \A n : PlannedUpTo(n)' = PlannedUpTo(n)
      /\ PlanPlaintextSize' = PlanPlaintextSize /\ PayloadSize' = PayloadSize
  BY <1>3, <1>5, PlanKept
<1>7. \A i \in DOMAIN entries : /\ entries[i].path \in DOMAIN input
                                /\ input[entries[i].path].kind = entries[i].type
                                /\ entries[i].type # "special" => ~MetadataThrows(entries[i])
  BY <1>3 DEF BalanceInv, MetadataThrows
<1>8. /\ Len(entries) \in Nat /\ DOMAIN entries = 1..Len(entries)
      /\ \A n \in 0..Len(entries) : PlannedUpTo(n) \in Nat
      /\ \A n \in 1..Len(entries) : PlannedUpTo(n) = PlannedUpTo(n - 1) + PlannedEntry(entries[n])
      /\ PlannedUpTo(0) = 0 /\ PlanPlaintextSize \in Nat \ {0}
      /\ PlanPlaintextSize = RecordPrefix + VersionSize + PlannedUpTo(Len(entries)) + RecordPrefix
  BY <1>7, PlannedSize
<1>9. \A i \in DOMAIN entries' : /\ entries'[i].path \in DOMAIN input'
                                 /\ input'[entries'[i].path].kind = entries'[i].type
  BY <1>3, <1>5, <1>7
<1>10. CASE stage' \notin Writing
  BY <1>9, <1>10 DEF BalanceInv, Writing
<1>11. CASE Plan
  <2>1. stage' \in Writing => stage' = "begin" /\ raw' = PlanPlaintextSize
    BY <1>11, Zenon DEF Plan, Become, Writing
  <2> QED
    BY <1>6, <1>9, <1>10, <2>1 DEF BalanceInv
<1>12. CASE EmitBegin
  <2>1. stage' = "entries" /\ stage = "begin" /\ stream' = Append(stream, BeginRecord)
        /\ UNCHANGED <<index, reading, header, raw>>
    BY <1>12 DEF EmitBegin, Emit, Become
  <2>2. stream = << >> /\ reading = << >> /\ index = 1 /\ stream \in Seq(Records)
    BY <2>1 DEF PlanInv, Writing
  <2>3. StreamSize(stream') = RecordPrefix + VersionSize
    <3>1. BeginRecord \in Records /\ EncodedSize(BeginRecord) = RecordPrefix + VersionSize
      BY RecordsMade
    <3>2. StreamSize(Append(stream, BeginRecord)) = StreamSize(stream) + EncodedSize(BeginRecord)
          /\ StreamSize(<< >>) = 0
      BY <2>2, <3>1, StreamGrows
    <3> QED
      BY <2>1, <2>2, <3>1, <3>2, RecordAssumption DEF VersionSize
  <2>4. StreamSize(stream)' = RecordPrefix + VersionSize + PlannedUpTo(index - 1)'
    <3>1. PlannedUpTo(index - 1)' = 0
      BY <2>1, <2>2, <1>6, <1>8
    <3> QED
      BY <2>3, <3>1, RecordAssumption DEF VersionSize
  <2>5. raw' = PlanPlaintextSize'
    BY <1>3, <1>6, <2>1 DEF BalanceInv, Writing
  <2> QED
    BY <1>9, <2>1, <2>2, <2>4, <2>5 DEF BalanceInv
<1>13. CASE EmitEntry
  <2> DEFINE e == entries[index]
             m == MetadataFor(e)
             j == CeilDiv(m.size, PayloadSize) * RecordPrefix
             k == j + m.size + RecordPrefix
             r == EntryRecord(IF e.type = "dir" THEN "Dir" ELSE "File", m)
  <2>1. stage = "entries" /\ reading = << >> /\ index <= Len(entries) /\ index' = index + 1
        /\ UNCHANGED <<header, raw>>
    BY <1>13 DEF EmitEntry
  <2>2. /\ index \in 1..Len(entries) /\ e \in Entries /\ index \in DOMAIN entries
        /\ stream \in Seq(Records)
    BY <2>1, <1>8 DEF WriterTyped, PlanInv, Writing
  <2>3. e.path \in DOMAIN input /\ input[e.path].kind = e.type
        /\ (e.type # "special" => ~MetadataThrows(e))
    BY <1>7, <2>2
  <2>4. raw' = PlanPlaintextSize'
    BY <1>3, <1>6, <2>1 DEF BalanceInv, Writing
  <2>5. StreamSize(stream) = RecordPrefix + VersionSize + PlannedUpTo(index - 1)
        /\ StreamSize(stream) \in Nat /\ PlannedUpTo(index - 1) \in Nat
    <3>1. StreamSize(stream) \in Nat
      BY <2>2, StreamGrows, RecordsMade
    <3> QED
      BY <1>3, <1>8, <2>1, <2>2, <3>1 DEF BalanceInv
  <2>6. /\ PlannedUpTo(index - 1)' = PlannedUpTo(index)
        /\ PlannedUpTo(index) = PlannedUpTo(index - 1) + PlannedEntry(e)
    <3>1. index' - 1 = index
      BY <2>1, <2>2, <1>8
    <3> QED
      BY <1>6, <1>8, <2>2, <3>1
  <2>7. CASE e.type = "special"
    <3>1. UNCHANGED <<stage, stream, reading>>
      BY <1>13, <2>7 DEF EmitEntry
    <3>2. PlannedEntry(e) = 0
      BY <2>7 DEF PlannedEntry
    <3>3. StreamSize(stream)' = RecordPrefix + VersionSize + PlannedUpTo(index - 1)'
      BY <2>5, <2>6, <3>1, <3>2
    <3> QED
      BY <1>9, <2>1, <2>4, <3>1, <3>3 DEF BalanceInv
  <2>8. CASE e.type # "special" /\ stage' = "failed"
    BY <1>10, <2>8 DEF Writing
  <2>9. CASE /\ e.type # "special" /\ stage' = stage /\ stream' = Append(stream, r)
             /\ reading' = IF e.type = "file" THEN <<Reading(e.path, m.size, 0, FALSE)>> ELSE << >>
    <3>1. /\ MetadataSize(m) \in Nat /\ m.size \in Nat
          /\ r \in Records /\ EncodedSize(r) = RecordPrefix + MetadataSize(m)
          /\ m.size = IF input[e.path].kind = "file" THEN Len(input[e.path].bytes) ELSE 0
      BY <2>2, <2>3, <2>9, MetadataMade DEF RecordTypes
    <3>2. StreamSize(stream)' = StreamSize(stream) + RecordPrefix + MetadataSize(m)
      <4>1. StreamSize(Append(stream, r)) = StreamSize(stream) + EncodedSize(r)
        BY <2>2, <3>1, StreamGrows
      <4> QED
        BY <2>5, <2>9, <3>1, <4>1, RecordAssumption
    <3>3. CASE e.type = "dir"
      <4>1. PlannedEntry(e) = RecordPrefix + MetadataSize(m) /\ reading' = << >>
        BY <2>9, <3>3 DEF PlannedEntry
      <4>2. StreamSize(stream)' = RecordPrefix + VersionSize + PlannedUpTo(index - 1)'
        BY <2>5, <2>6, <3>1, <3>2, <4>1, RecordAssumption DEF VersionSize
      <4> QED
        BY <1>9, <2>1, <2>4, <2>9, <4>1, <4>2 DEF BalanceInv
    <3>4. CASE e.type = "file"
      <4> DEFINE g == Reading(e.path, m.size, 0, FALSE)
      <4>0. j \in Nat
        <5> HIDE DEF m
        <5>1. PayloadSize \in Nat \ {0}
          BY PayloadPositive DEF WriterTyped
        <5>2. CeilDiv(m.size, PayloadSize) \in Nat
          BY <3>1, <5>1, CeilSteps
        <5> QED
          BY <5>2, RecordAssumption
      <4>1. PlannedEntry(e) = RecordPrefix + MetadataSize(m) + k
        <5>1. PlannedEntry(e) = RecordPrefix + MetadataSize(m)
                 + j + m.size + RecordPrefix
          BY <3>4 DEF PlannedEntry
        <5>2. m.size \in Nat /\ MetadataSize(m) \in Nat
          BY <3>1
        <5> HIDE DEF m, j
        <5> QED
          BY <4>0, <5>1, <5>2, RecordAssumption
      <4>2. k \in Nat
        <5>1. m.size \in Nat
          BY <3>1
        <5> HIDE DEF m, j, r, e
        <5> QED
          BY <4>0, <5>1, RecordAssumption
      <4>3. reading' = <<g>> /\ reading'[1] = g
        BY <2>9, <3>4
      <4>4. g.path = e.path /\ g.size = m.size /\ g.read = 0 /\ g.eof = FALSE
        BY DEF Reading
      <4>5. Unread(reading[1])' = k
        <5>1. m.size - 0 = m.size
          BY <3>1
        <5> QED
          BY <4>3, <4>4, <5>1, <1>6 DEF Unread
      <4> HIDE DEF k, g, m
      <4>6. StreamSize(stream)' + Unread(reading[1])'
               = RecordPrefix + VersionSize + PlannedUpTo(index - 1)'
        <5>1. MetadataSize(m) \in Nat
          BY <3>1
        <5> HIDE DEF e, r
        <5> QED
          BY <2>5, <2>6, <3>2, <4>1, <4>2, <4>5, <5>1, RecordAssumption DEF VersionSize
      <4>7. /\ reading'[1].path \in DOMAIN input' /\ input'[reading'[1].path].kind = "file"
            /\ reading'[1].size = Len(input'[reading'[1].path].bytes)
            /\ reading'[1].read <= reading'[1].size /\ ~reading'[1].eof
        BY <1>3, <2>3, <3>1, <3>4, <4>3, <4>4
      <4>8. reading' # << >> /\ stage' = "entries"
        BY <4>3, <2>1, <2>9
      <4> QED
        BY <1>9, <2>4, <4>6, <4>7, <4>8 DEF BalanceInv
    <3> QED
      BY <2>2, <2>9, <3>3, <3>4 DEF Entries
  <2> QED
    BY <1>13, <2>3, <2>7, <2>8, <2>9, Zenon DEF EmitEntry, Emit, Become
<1>14. CASE EmitFileBytes
  <2> DEFINE f == reading[1]
             x == NextBytes(f)
             n == Len(x)
             g == Reading(f.path, f.size, f.read + n, n < PayloadSize)
  <2>1. /\ stage = "entries" /\ reading # << >> /\ UNCHANGED <<stage, index, header, raw>>
        /\ ~f.eof /\ x # << >> /\ stream' = Append(stream, BytesRecord(x)) /\ reading' = <<g>>
    BY <1>14, Zenon DEF EmitFileBytes, Emit
  <2>2. f \in Files /\ stream \in Seq(Records)
    BY <2>1 DEF WriterTyped, PlanInv, Writing
  <2>3. /\ f.path \in DOMAIN input /\ input[f.path].kind = "file"
        /\ f.size = Len(input[f.path].bytes) /\ f.read <= f.size
        /\ StreamSize(stream) + Unread(f) = RecordPrefix + VersionSize + PlannedUpTo(index - 1)
    BY <1>3, <2>1 DEF BalanceInv
  <2>4. f.size \in Nat /\ f.read \in Nat /\ PayloadSize \in Nat \ {0}
    BY <2>2, PayloadPositive DEF Files, WriterTyped
  <2>5. /\ x \in Seq(Nat) /\ n \in Nat /\ n > 0
        /\ n = IF f.read + PayloadSize <= f.size THEN PayloadSize ELSE f.size - f.read
    <3>1. /\ x \in Seq(Nat) /\ n \in Nat /\ (x = << >> <=> n = 0)
          /\ n = IF f.read >= f.size THEN 0
                 ELSE IF f.read + PayloadSize <= f.size THEN PayloadSize ELSE f.size - f.read
      BY <2>2, <2>3, BytesRead
    <3> HIDE DEF x, n, f
    <3> QED
      BY <2>1, <2>4, <3>1
  <2>6. StreamSize(stream)' = StreamSize(stream) + (RecordPrefix + n) /\ StreamSize(stream) \in Nat
    <3>1. BytesRecord(x) \in Records /\ EncodedSize(BytesRecord(x)) = RecordPrefix + n
      BY <2>5, RecordsMade
    <3>2. StreamSize(Append(stream, BytesRecord(x)))
             = StreamSize(stream) + EncodedSize(BytesRecord(x))
          /\ StreamSize(stream) \in Nat
      BY <2>2, <3>1, StreamGrows
    <3> QED
      BY <2>1, <3>1, <3>2
  <2>7. reading'[1] = g /\ reading' # << >>
    BY <2>1
  <2>8. g.path = f.path /\ g.size = f.size /\ g.read = f.read + n /\ g.eof = (n < PayloadSize)
    BY DEF Reading
  <2> HIDE DEF x, n, g, f
  <2>9. Unread(reading[1])' = CeilDiv(f.size - (f.read + n), PayloadSize) * RecordPrefix
                                 + (f.size - (f.read + n)) + RecordPrefix
    BY <2>7, <2>8, <1>6 DEF Unread
  <2>10. Unread(f) = (RecordPrefix + n) + Unread(reading[1])'
    <3>1. Unread(f) = CeilDiv(f.size - f.read, PayloadSize) * RecordPrefix
                         + (f.size - f.read) + RecordPrefix
      BY DEF Unread
    <3>2. CeilDiv(f.size - f.read, PayloadSize) * RecordPrefix + (f.size - f.read) + RecordPrefix
             = (RecordPrefix + n) + (CeilDiv(f.size - (f.read + n), PayloadSize) * RecordPrefix
                                        + (f.size - (f.read + n)) + RecordPrefix)
      <4>1. \/ f.read + PayloadSize <= f.size /\ n = PayloadSize
            \/ f.read + PayloadSize > f.size /\ n = f.size - f.read
        BY <2>4, <2>5
      <4> QED
        <5>1. f.read <= f.size /\ n \in Nat /\ n > 0
          BY <2>3, <2>5
        <5> QED
          BY <2>4, <4>1, <5>1, FileBalance
    <3> QED
      BY <2>9, <3>1, <3>2
  <2>11. Unread(reading[1])' \in Nat
    <3>1. f.size - (f.read + n) \in Nat
      BY <2>3, <2>4, <2>5
    <3>2. CeilDiv(f.size - (f.read + n), PayloadSize) \in Nat
      BY <2>4, <3>1, CeilSteps
    <3> QED
      BY <2>9, <3>1, <3>2, RecordAssumption
  <2>12. PlannedUpTo(index - 1)' = PlannedUpTo(index - 1)
    BY <1>6, <2>1
  <2>13. StreamSize(stream)' + Unread(reading[1])'
            = RecordPrefix + VersionSize + PlannedUpTo(index - 1)'
    BY <2>3, <2>5, <2>6, <2>10, <2>11, <2>12, RecordAssumption
  <2>14. /\ reading'[1].path \in DOMAIN input' /\ input'[reading'[1].path].kind = "file"
         /\ reading'[1].size = Len(input'[reading'[1].path].bytes)
         /\ reading'[1].read <= reading'[1].size
         /\ reading'[1].eof => reading'[1].read = reading'[1].size
    <3>1. n < PayloadSize => f.read + n = f.size
      BY <2>4, <2>5
    <3>2. f.read + n <= f.size
      BY <2>3, <2>4, <2>5
    <3> QED
      BY <1>3, <2>3, <2>7, <2>8, <3>1, <3>2
  <2>15. raw' = PlanPlaintextSize' /\ stage' = "entries"
    BY <1>3, <1>6, <2>1 DEF BalanceInv, Writing
  <2> QED
    BY <1>9, <2>7, <2>13, <2>14, <2>15 DEF BalanceInv
<1>15. CASE EmitFileEnd
  <2> DEFINE f == reading[1]
             x == NextBytes(f)
  <2>1. /\ stage = "entries" /\ reading # << >> /\ reading' = << >>
        /\ UNCHANGED <<index, header, raw>>
        /\ f.eof \/ input[f.path].kind # "file" \/ x = << >>
    BY <1>15 DEF EmitFileEnd
  <2>2. CASE stage' = "failed"
    BY <1>10, <2>2 DEF Writing
  <2>3. CASE stage' = stage /\ stream' = Append(stream, MarkRecord("FileEnd"))
    <3>1. f \in Files /\ stream \in Seq(Records)
      BY <2>1 DEF WriterTyped, PlanInv, Writing
    <3>2. /\ f.path \in DOMAIN input /\ input[f.path].kind = "file"
          /\ f.size = Len(input[f.path].bytes) /\ f.read <= f.size /\ (f.eof => f.read = f.size)
          /\ StreamSize(stream) + Unread(f) = RecordPrefix + VersionSize + PlannedUpTo(index - 1)
      BY <1>3, <2>1 DEF BalanceInv
    <3>3. f.size \in Nat /\ f.read \in Nat /\ PayloadSize \in Nat \ {0}
      BY <3>1, PayloadPositive DEF Files, WriterTyped
    <3>4. f.read = f.size
      <4>1. CASE x = << >>
        <5>1. f.read >= f.size
          BY <3>1, <3>2, <3>3, <4>1, BytesRead
        <5> QED
          BY <5>1, <3>2, <3>3
      <4> QED
        BY <2>1, <3>2, <4>1
    <3>5. Unread(f) = RecordPrefix
      <4>1. f.size - f.read = 0 /\ CeilDiv(0, PayloadSize) = 0
        BY <3>3, <3>4, CeilSteps
      <4> QED
        BY <4>1, RecordAssumption DEF Unread
    <3>6. StreamSize(stream)' = StreamSize(stream) + RecordPrefix
      <4>1. MarkRecord("FileEnd") \in Records /\ EncodedSize(MarkRecord("FileEnd")) = RecordPrefix
        BY RecordsMade DEF RecordTypes
      <4> QED
        BY <2>3, <3>1, <4>1, StreamGrows
    <3>7. PlannedUpTo(index - 1)' = PlannedUpTo(index - 1)
      BY <1>6, <2>1
    <3>8. raw' = PlanPlaintextSize' /\ stage' = "entries"
      BY <1>3, <1>6, <2>1, <2>3 DEF BalanceInv, Writing
    <3> QED
      BY <1>9, <2>1, <3>2, <3>5, <3>6, <3>7, <3>8 DEF BalanceInv
  <2> QED
    BY <1>15, <2>2, <2>3, Zenon DEF EmitFileEnd, Emit, Become
<1>16. CASE EmitEnd
  <2>1. /\ stage = "entries" /\ reading = << >> /\ index > Len(entries) /\ stage' = "padding"
        /\ stream' = Append(stream, MarkRecord("End")) /\ UNCHANGED <<index, reading, header, raw>>
    BY <1>16 DEF EmitEnd, Emit, Become
  <2>2. index - 1 = Len(entries) /\ stream \in Seq(Records)
    BY <2>1, <1>8 DEF WriterTyped, PlanInv, Writing
  <2>3. StreamSize(stream) = RecordPrefix + VersionSize + PlannedUpTo(Len(entries))
        /\ raw = PlanPlaintextSize
    BY <1>3, <2>1, <2>2 DEF BalanceInv, Writing
  <2>4. StreamSize(stream)' = StreamSize(stream) + RecordPrefix
    <3>1. MarkRecord("End") \in Records /\ EncodedSize(MarkRecord("End")) = RecordPrefix
      BY RecordsMade DEF RecordTypes
    <3> QED
      BY <2>1, <2>2, <3>1, StreamGrows
  <2>5. StreamSize(stream)' = raw' /\ raw' = PlanPlaintextSize'
    BY <1>6, <1>8, <2>1, <2>3, <2>4
  <2> QED
    BY <1>9, <2>1, <2>5 DEF BalanceInv
<1>17. CASE EmitPadding
  <2> DEFINE gap == header[1].padded - raw
  <2>1. /\ stage = "padding" /\ stage' = "drained" /\ UNCHANGED <<index, reading, header, raw>>
        /\ stream' = IF gap > 0 THEN Append(stream, PaddingRecord(gap - RecordPrefix)) ELSE stream
    BY <1>17 DEF EmitPadding, Emit, Become
  <2>2. StreamSize(stream) = raw /\ raw' = PlanPlaintextSize'
    BY <1>3, <1>6, <2>1 DEF BalanceInv, Writing
  <2>3. stream \in Seq(Records) /\ raw \in Nat /\ header # << >>
    BY <2>1 DEF PlanInv, Writing
  <2>4. header[1].padded \in Nat /\ header[1].padded >= raw /\ (gap = 0 \/ gap >= RecordPrefix)
    BY <2>3, PaddingRoom
  <2>5. StreamSize(stream)' = header[1].padded
    <3>1. CASE gap = 0
      BY <2>1, <2>2, <2>3, <2>4, <3>1
    <3>2. CASE gap > 0
      <4>1. gap - RecordPrefix \in Nat
        BY <2>3, <2>4, <3>2, RecordAssumption
      <4>2. /\ PaddingRecord(gap - RecordPrefix) \in Records
            /\ EncodedSize(PaddingRecord(gap - RecordPrefix)) = RecordPrefix + (gap - RecordPrefix)
        BY <4>1, RecordsMade
      <4>3. StreamSize(Append(stream, PaddingRecord(gap - RecordPrefix)))
               = StreamSize(stream) + (RecordPrefix + (gap - RecordPrefix))
        BY <2>3, <4>2, StreamGrows
      <4> QED
        BY <2>1, <2>2, <2>3, <2>4, <3>2, <4>3, RecordAssumption
    <3> QED
      BY <2>3, <2>4, <3>1, <3>2
  <2> QED
    BY <1>9, <2>1, <2>2, <2>5 DEF BalanceInv
<1>18. CASE Validate \/ VerifyProduced
  <2>1. stage' \notin Writing
    BY <1>18 DEF Validate, VerifyProduced, Become, Writing
  <2> QED
    BY <2>1, <1>10
<1> QED
  BY <1>3, <1>5, <1>11, <1>12, <1>13, <1>14, <1>15, <1>16, <1>17, <1>18, Zenon DEF Encrypt

\* The writer's inductive invariant.
LEMMA LayoutInvariant == Spec => []LayoutInv
<1>1. Init => LayoutInv
  <2> SUFFICES ASSUME Init PROVE LayoutInv
    OBVIOUS
  <2> USE DEF LayoutInv, WriterTyped, PlanInv, BalanceInv, Writing, Changes
  <2>0. /\ << >> \in Seq(Entries) /\ << >> \in Seq(Files) /\ << >> \in Seq(Changes)
        /\ Len(<< >>) = 0 /\ DOMAIN << >> = {}
    BY EmptySeq
  <2>1. CASE WriterInit
    BY <2>0, <2>1, TreesAssumption DEF WriterInit
  <2>2. ASSUME NEW f \in ForeignStreams, ForeignInit(f) PROVE LayoutInv
    BY <2>0, <2>2 DEF ForeignInit
  <2> QED
    BY <2>1, <2>2 DEF Init
<1>2. LayoutInv /\ [Next]_vars => LayoutInv'
  BY TypedStep, PlanStep, BalanceStep DEF LayoutInv
<1> QED
  BY <1>1, <1>2, PTL DEF Spec

\* core_encrypt announces a header that decryption accepts and, undisturbed,
\* writes exactly what it announces: for every directory whose planned size
\* fits into the integers, every chunk size and every padding policy.
THEOREM LayoutAnnounced == Spec => []AnnouncedLayout
<1>1. LayoutInv => AnnouncedLayout
  <2> SUFFICES ASSUME LayoutInv, header # << >>, raw <= MaxU64
               PROVE  /\ ParseGlobal(header[1])
                      /\ header[1].padded >= raw
                      /\ header[1].padded - raw = 0 \/ header[1].padded - raw >= RecordPrefix
                      /\ stage = "drained" /\ changes = << >> =>
                            StreamSize(stream) = header[1].padded
    BY DEF AnnouncedLayout
  <2> QED
    BY PaddingRoom DEF LayoutInv, BalanceInv
<1> QED
  BY <1>1, LayoutInvariant, PTL

----------------------------------------------------------------------------
\* The temporary tree exists from the construction of the reader to its
\* destruction, and the output directory is not forgotten.
DebrisInv ==
    /\ rpc \in {"idle", "refused", "discover", "construct"} => temp = << >>
    /\ rpc \in {"success", "catch", "failed"} /\ ~leftover => temp = << >>
    /\ rpc = "failed" /\ ~leftover /\ ~existed /\ DOMAIN out = {} => ~exists

\* No step loses sight of the temporary tree or of the output directory.
LEMMA DebrisStep == DebrisInv /\ [Next]_vars => DebrisInv'
<1> SUFFICES ASSUME DebrisInv, [Next]_vars PROVE DebrisInv'
  OBVIOUS
<1> USE DEF DebrisInv
<1>1. ASSUME NEW o \in Outputs, NEW dp \in DecryptParams, OpenDecrypt(o, dp) PROVE DebrisInv'
  BY <1>1 DEF OpenDecrypt, tree_vars
<1>2. CASE Discover
  BY <1>2 DEF Discover, tree_vars
<1>3. CASE Construct
  BY <1>3 DEF Construct
<1>4. CASE Consume
  BY <1>4 DEF Consume, Throw
<1>5. CASE NeedMore
  BY <1>5 DEF NeedMore
<1>6. CASE ProcessRecord
  <2>1. rpc' \in {"parse", "unwind"}
    BY <1>6 DEF ProcessRecord, BeginArchive, CreateDirectory, BeginFile, WriteFileBytes, EndFile,
       EndArchive, SkipPadding, RejectRecord, Process, Throw
  <2> QED
    BY <2>1
<1>7. CASE Finish
  BY <1>7 DEF Finish, Throw
<1>8. ASSUME NEW p \in todo, PromoteDir(p) \/ PromoteCheck(p) PROVE DebrisInv'
  <2>1. rpc' \in {"promote", "rename", "unwind"}
    BY <1>8 DEF PromoteDir, PromoteCheck, PromoteFails, Throw
  <2> QED
    BY <2>1
<1>9. CASE PromoteRename
  <2>1. rpc' \in {"promote", "unwind"}
    BY <1>9 DEF PromoteRename, PromoteFails, Throw
  <2> QED
    BY <2>1
<1>10. CASE PromoteEnd
  BY <1>10 DEF PromoteEnd, Throw
<1>11. ASSUME NEW m \in deferred, ApplyMetadata(m) PROVE DebrisInv'
  <2>1. rpc' \in {"metadata", "unwind"}
    BY <1>11 DEF ApplyMetadata, Throw
  <2> QED
    BY <2>1
<1>12. CASE FinishCleanup
  BY <1>12 DEF FinishCleanup, RemoveTemp
<1>13. CASE Unwind
  BY <1>13 DEF Unwind, RemoveTemp
<1>14. CASE Catch
  BY <1>14 DEF Catch, tree_vars
<1>15. ASSUME NEW p \in IntruderPaths, Intrude(p) PROVE DebrisInv'
  BY <1>15 DEF Intrude, tree_vars
<1>16. CASE UNCHANGED rvars
  BY <1>16 DEF rvars, tree_vars, out_vars, seen_vars
<1> QED
  BY <1>1, <1>2, <1>3, <1>4, <1>5, <1>6, <1>7, <1>8, <1>9, <1>10, <1>11, <1>12, <1>13, <1>14,
     <1>15, <1>16, Zenon DEF Next, Decrypt, vars

\* A failed or finished decryption has removed what it created, whatever was
\* read, failed or appeared, unless the removal itself failed.
THEOREM NothingLeftBehind == Spec => []NoDebris
<1>1. Init => DebrisInv
  BY DEF Init, ReaderInit, DebrisInv
<1>2. DebrisInv => NoDebris
  BY DEF DebrisInv, NoDebris
<1> QED
  BY <1>1, <1>2, DebrisStep, PTL DEF Spec

----------------------------------------------------------------------------
\* A path, one above it and the next one above.
SomePaths == Seq(STRING) \ {<< >>}
IsDir(t, p) == p \in DOMAIN t /\ t[p].kind = "dir"

\* What is above a path is a path, and what is above that is above the first.
LEMMA PathAbove ==
    ASSUME NEW p \in Seq(STRING), NEW i \in 1..Len(p)
    PROVE  /\ SubSeq(p, 1, i) \in SomePaths /\ Len(SubSeq(p, 1, i)) = i
           /\ \A j \in 1..i : SubSeq(SubSeq(p, 1, i), 1, j) = SubSeq(p, 1, j)
<1>1. Len(p) \in Nat /\ \A j \in 1..Len(p) : p[j] \in STRING
  BY LenProperties, ElementOfSeq
<1>2. SubSeq(p, 1, i) \in Seq(STRING) /\ Len(SubSeq(p, 1, i)) = i
  BY <1>1, SubSeqProperties
<1>3. ASSUME NEW j \in 1..i PROVE SubSeq(SubSeq(p, 1, i), 1, j) = SubSeq(p, 1, j)
  <2>1. 1 \in 1..Len(p) /\ 1 \in 1..(i - 1 + 1) /\ j \in 1..(i - 1 + 1) /\ 1 + j - 1 = j
    BY <1>1
  <2>2. SubSeq(SubSeq(p, 1, i), 1, j) = SubSeq(p, 1 + 1 - 1, 1 + j - 1)
    BY <2>1, SubSeqOfSubSeq
  <2> QED
    BY <2>1, <2>2
<1>4. SubSeq(p, 1, i) # << >>
  BY <1>2, Len(<< >>) = 0
<1> QED
  BY <1>2, <1>3, <1>4 DEF SomePaths

\* The parent is the path just above; above the first level there is none.
LEMMA ParentAbove ==
    ASSUME NEW p \in SomePaths
    PROVE  /\ Len(p) \in Nat \ {0} /\ (Len(p) = 1 \/ Len(p) > 1) /\ SubSeq(p, 1, Len(p)) = p
           /\ Len(p) = 1 => Parent(p) = << >>
           /\ Len(p) > 1 => /\ Parent(p) = SubSeq(p, 1, Len(p) - 1) /\ Parent(p) \in SomePaths
                            /\ Len(Parent(p)) = Len(p) - 1
           /\ Parent(p) \in Seq(STRING) /\ Parent(p) # p
<1>1. p \in Seq(STRING) /\ p # << >>
  BY DEF SomePaths
<1>2. Len(p) \in Nat /\ Len(p) # 0
  BY <1>1, LenProperties, EmptySeq
<1>3. SubSeq(p, 1, Len(p)) = p
  BY <1>1, SubSeqFull
<1>4. Parent(p) = SubSeq(p, 1, Len(p) - 1)
  BY DEF Parent, Front
<1>5. Len(p) = 1 => Parent(p) = << >>
  BY <1>4, SubSeqEmpty
<1>6. Len(p) > 1 => Parent(p) \in SomePaths /\ Len(Parent(p)) = Len(p) - 1
  BY <1>1, <1>2, <1>4, PathAbove
<1>7. Parent(p) \in Seq(STRING) /\ Parent(p) # p
  <2>1. CASE Len(p) = 1
    BY <1>1, <1>5, <2>1, EmptySeq
  <2>2. CASE Len(p) > 1
    BY <1>2, <1>6, <2>2 DEF SomePaths
  <2>3. Len(p) = 1 \/ Len(p) > 1
    BY <1>2
  <2> QED
    BY <2>1, <2>2, <2>3, Zenon
<1>8. Len(p) = 1 \/ Len(p) > 1
  BY <1>2
<1> QED
  BY <1>2, <1>3, <1>4, <1>5, <1>6, <1>7, <1>8

\* A prefix of a path is the path itself or above it.
LEMMA PrefixAbove ==
    ASSUME NEW p \in SomePaths, NEW q \in SomePaths
    PROVE  /\ IsPrefix(p, q) <=> (Len(p) <= Len(q) /\ p = SubSeq(q, 1, Len(p)))
           /\ IsStrictPrefix(p, q) => Len(p) < Len(q)
<1>1. SubSeq(p, 1, Len(p)) = p /\ SubSeq(q, 1, Len(q)) = q /\ Len(p) \in Nat /\ Len(q) \in Nat
  BY ParentAbove
<1>2. IsPrefix(p, q) <=> (Len(p) <= Len(q) /\ p = SubSeq(q, 1, Len(p)))
  BY <1>1 DEF IsPrefix
<1>3. ASSUME IsStrictPrefix(p, q) PROVE Len(p) < Len(q)
  BY <1>1, <1>2, <1>3 DEF IsStrictPrefix
<1> QED
  BY <1>2, <1>3

\* What is above a path of a tree, and what is not below one.
LEMMA TreeAbove ==
    ASSUME NEW t, Tree(t), NEW q \in DOMAIN t
    PROVE  /\ q \in SomePaths /\ (Len(q) > 1 => IsDir(t, Parent(q)))
           /\ \A p \in SomePaths : IsStrictPrefix(p, q) => IsDir(t, p)
<1>1. q \in SomePaths
  BY DEF Tree, SomePaths
<1>2. Len(q) \in Nat
  BY <1>1, ParentAbove
<1>3. \A i \in 1..(Len(q) - 1) : IsDir(t, SubSeq(q, 1, i))
  BY DEF Tree, IsDir
<1>4. ASSUME Len(q) > 1 PROVE IsDir(t, Parent(q))
  <2>1. Parent(q) = SubSeq(q, 1, Len(q) - 1)
    BY <1>1, <1>4, ParentAbove
  <2>2. Len(q) - 1 \in 1..(Len(q) - 1)
    BY <1>2, <1>4
  <2> QED
    BY <1>3, <2>1, <2>2
<1>5. ASSUME NEW p \in SomePaths, IsStrictPrefix(p, q) PROVE IsDir(t, p)
  <2>1. Len(p) \in 1..(Len(q) - 1) /\ p = SubSeq(q, 1, Len(p))
    BY <1>1, <1>2, <1>5, PrefixAbove, ParentAbove DEF IsStrictPrefix
  <2> QED
    BY <1>3, <2>1
<1> QED
  BY <1>1, <1>4, <1>5

\* A tree of which only something is taken away or changed, kinds excepted.
LEMMA TreeSame ==
    ASSUME NEW t, Tree(t), NEW u, DOMAIN u \subseteq DOMAIN t,
           \A q \in DOMAIN u : u[q].kind = t[q].kind,
           \A q \in DOMAIN u : \A i \in 1..(Len(q) - 1) : SubSeq(q, 1, i) \in DOMAIN u
    PROVE  Tree(u)
  BY DEF Tree

\* What the operations on trees do to a path.
LEMMA TouchedAt ==
    ASSUME NEW t, NEW qs
    PROVE  /\ DOMAIN Touched(t, qs) = DOMAIN t
           /\ \A q \in DOMAIN t : /\ Touched(t, qs)[q].kind = t[q].kind
                                  /\ q \notin qs => Touched(t, qs)[q] = t[q]
  BY DEF Touched, Node

\* Put one node: only it and the time of its parent change.
LEMMA PutNodeAt ==
    ASSUME NEW t, NEW p \in SomePaths, NEW n
    PROVE  /\ \A q : q \in DOMAIN PutNode(t, p, n) <=> q = p \/ q \in DOMAIN t
           /\ PutNode(t, p, n)[p] = n
           /\ \A q \in DOMAIN t : q # p =>
                 /\ PutNode(t, p, n)[q].kind = t[q].kind
                 /\ q # Parent(p) => PutNode(t, p, n)[q] = t[q]
<1> DEFINE u == Touched(t, {Parent(p)})
<1>1. \A q \in DOMAIN t : u[q].kind = t[q].kind /\ (q # Parent(p) => u[q] = t[q])
  BY TouchedAt
<1> HIDE DEF u
<1>2. PutNode(t, p, n) = [q \in DOMAIN t \cup {p} |-> IF q = p THEN n ELSE u[q]]
  BY DEF PutNode, u
<1> QED
  BY <1>1, <1>2

\* Drop what is at and below a path.
LEMMA DropTreeAt ==
    ASSUME NEW t, NEW p \in SomePaths
    PROVE  /\ DOMAIN DropTree(t, p) = {q \in DOMAIN t : ~IsPrefix(p, q)}
           /\ \A q \in DOMAIN DropTree(t, p) :
                 /\ DropTree(t, p)[q].kind = t[q].kind
                 /\ q # Parent(p) => DropTree(t, p)[q] = t[q]
<1> DEFINE u == Touched(t, {Parent(p)})
<1>1. DOMAIN u = DOMAIN t
      /\ \A q \in DOMAIN t : u[q].kind = t[q].kind /\ (q # Parent(p) => u[q] = t[q])
  BY TouchedAt
<1> HIDE DEF u
<1>2. DropTree(t, p) = [q \in {q \in DOMAIN u : ~IsPrefix(p, q)} |-> u[q]]
  BY DEF DropTree, u
<1> QED
  BY <1>1, <1>2

\* Make a path and what is above it: no file changes.
LEMMA MakeDirsAt ==
    ASSUME NEW t, NEW p \in Seq(STRING), DirsPossible(t, p)
    PROVE  /\ DOMAIN MakeDirs(t, p) = DOMAIN t \cup AndAncestors(p)
           /\ \A q \in DOMAIN t : MakeDirs(t, p)[q].kind = t[q].kind
           /\ \A q \in AndAncestors(p) : IsDir(MakeDirs(t, p), q)
           /\ \A q \in DOMAIN t \ {<< >>} :
                 t[q].kind # "dir" => MakeDirs(t, p)[q] = t[q]
<1> DEFINE new == AndAncestors(p) \ DOMAIN t
           u == Touched(t, {Parent(q) : q \in new})
           v == MakeDirs(t, p)
<1>1. v = [q \in DOMAIN t \cup new |-> IF q \in new THEN Node("dir", << >>, Now) ELSE u[q]]
  BY DEF MakeDirs
<1>2. \A q \in DOMAIN t : u[q].kind = t[q].kind /\ (q \notin {Parent(r) : r \in new} => u[q] = t[q])
  BY TouchedAt
<1> HIDE DEF u, v
<1>3. DOMAIN v = DOMAIN t \cup AndAncestors(p) /\ \A q \in DOMAIN t : v[q].kind = t[q].kind
  BY <1>1, <1>2
<1>4. ASSUME NEW q \in AndAncestors(p) PROVE IsDir(v, q)
  <2>1. CASE q \in DOMAIN t
    BY <1>3, <2>1 DEF DirsPossible, IsDir
  <2>2. CASE q \notin DOMAIN t
    BY <1>1, <1>3, <2>2 DEF IsDir, Node
  <2> QED
    BY <2>1, <2>2
<1>5. ASSUME NEW q \in DOMAIN t \ {<< >>}, t[q].kind # "dir" PROVE v[q] = t[q]
  <2>1. ASSUME NEW r \in new, q = Parent(r) PROVE FALSE
    <3>1. PICK i \in 1..Len(p) : r = SubSeq(p, 1, i)
      BY <2>1 DEF AndAncestors
    <3>2. r \in SomePaths /\ Len(r) = i
      BY <3>1, PathAbove
    <3>3. i # 1 /\ i \in Nat /\ Parent(r) = SubSeq(r, 1, i - 1)
      <4>1. i \in Nat \ {0} /\ (i = 1 => Parent(r) = << >>)
            /\ (i > 1 => Parent(r) = SubSeq(r, 1, i - 1))
        BY <3>2, ParentAbove
      <4>2. i # 1
        BY <1>5, <2>1, <4>1
      <4> QED
        BY <4>1, <4>2
    <3>4. i - 1 \in 1..i /\ i - 1 \in 1..Len(p)
      BY <3>1, <3>3
    <3>5. Parent(r) = SubSeq(p, 1, i - 1)
      BY <3>1, <3>3, <3>4, PathAbove
    <3>6. q \in AndAncestors(p)
      BY <2>1, <3>4, <3>5 DEF AndAncestors
    <3> QED
      BY <1>5, <3>6 DEF DirsPossible
  <2> QED
    BY <1>1, <1>2, <2>1
<1> QED
  BY <1>3, <1>4, <1>5 DEF v

\* ... and that a tree remains.
LEMMA TreePut ==
    ASSUME NEW t, Tree(t), NEW p \in SomePaths, NEW n, Len(p) = 1 \/ IsDir(t, Parent(p)),
           ~IsDir(t, p)
    PROVE  Tree(PutNode(t, p, n))
<1> DEFINE u == PutNode(t, p, n)
<1>1. DOMAIN u = DOMAIN t \cup {p} /\ \A q \in DOMAIN t \ {p} : u[q].kind = t[q].kind
  BY PutNodeAt
<1> HIDE DEF u
<1>2. ASSUME NEW a \in SomePaths, IsDir(t, a) PROVE IsDir(u, a)
  BY <1>1, <1>2 DEF IsDir
<1>3. DOMAIN u \subseteq SomePaths
  BY <1>1 DEF Tree, SomePaths
<1>4. ASSUME NEW q \in DOMAIN u, NEW i \in 1..(Len(q) - 1) PROVE IsDir(t, SubSeq(q, 1, i))
  <2>1. CASE q \in DOMAIN t
    BY <2>1 DEF Tree, IsDir
  <2>2. CASE q = p
    <3>1. Len(p) \in Nat /\ Len(p) > 1
      BY <2>2, ParentAbove
    <3>2. /\ IsDir(t, Parent(p)) /\ Parent(p) = SubSeq(p, 1, Len(p) - 1)
          /\ Parent(p) \in SomePaths /\ Len(Parent(p)) = Len(p) - 1
      BY <3>1, ParentAbove
    <3>3. CASE i = Len(p) - 1
      BY <2>2, <3>2, <3>3
    <3>4. CASE i < Len(p) - 1
      <4>1. i \in 1..(Len(Parent(p)) - 1) /\ i \in 1..(Len(p) - 1) /\ Len(p) - 1 \in 1..Len(p)
        BY <2>2, <3>1, <3>2, <3>4
      <4>2. IsDir(t, SubSeq(Parent(p), 1, i))
        BY <3>2, <4>1 DEF Tree, IsDir
      <4>3. SubSeq(Parent(p), 1, i) = SubSeq(p, 1, i)
        BY <3>2, <4>1, PathAbove DEF SomePaths
      <4> QED
        BY <2>2, <4>2, <4>3
    <3> QED
      BY <2>2, <3>1, <3>3, <3>4
  <2> QED
    BY <1>1, <2>1, <2>2
<1>5. ASSUME NEW q \in DOMAIN u, NEW i \in 1..(Len(q) - 1) PROVE SubSeq(q, 1, i) \in SomePaths
  BY <1>4 DEF IsDir, Tree, SomePaths
<1>6. ASSUME NEW q \in DOMAIN u, NEW i \in 1..(Len(q) - 1) PROVE IsDir(u, SubSeq(q, 1, i))
  BY <1>2, <1>4, <1>5
<1> QED
  BY <1>3, <1>6 DEF Tree, IsDir, SomePaths, u

\* A path goes with all that is below it.
LEMMA TreeDrop ==
    ASSUME NEW t, Tree(t), NEW p \in SomePaths, NEW u, DOMAIN u \subseteq DOMAIN t,
           \A q \in DOMAIN u : u[q].kind = t[q].kind,
           \/ DOMAIN u = {q \in DOMAIN t : ~IsPrefix(p, q)}
           \/ DOMAIN u = {q \in DOMAIN t : ~IsStrictPrefix(p, q)}
    PROVE  Tree(u)
<1>1. ASSUME NEW q \in DOMAIN u, NEW i \in 1..(Len(q) - 1) PROVE SubSeq(q, 1, i) \in DOMAIN u
  <2> DEFINE a == SubSeq(q, 1, i)
  <2>1. q \in SomePaths /\ Len(q) \in Nat /\ a \in DOMAIN t /\ i \in 1..Len(q)
    <3>1. q \in SomePaths
      <4>1. q \in DOMAIN t
        OBVIOUS
      <4> QED
        BY <4>1 DEF Tree, SomePaths
    <3>2. Len(q) \in Nat
      BY <3>1, ParentAbove
    <3> QED
      BY <3>1, <3>2 DEF Tree
  <2>2. a \in SomePaths /\ Len(a) = i /\ \A j \in 1..i : SubSeq(a, 1, j) = SubSeq(q, 1, j)
    BY <2>1, PathAbove DEF SomePaths
  <2> HIDE DEF a
  <2>3. ASSUME IsPrefix(p, a) PROVE IsPrefix(p, q) /\ p # q
    <3>1. Len(p) \in 1..i /\ p = SubSeq(a, 1, Len(p))
      BY <2>2, <2>3, PrefixAbove, ParentAbove
    <3>2. p = SubSeq(q, 1, Len(p)) /\ Len(p) <= Len(q) /\ Len(p) # Len(q)
      BY <2>1, <2>2, <3>1
    <3> QED
      BY <2>1, <3>2, PrefixAbove
  <2>4. a \in DOMAIN u
    BY <2>1, <2>3 DEF IsStrictPrefix
  <2> QED
    BY <2>4 DEF a
<1> QED
  BY <1>1, TreeSame

\* Directories are made from the root on.
LEMMA TreeMake ==
    ASSUME NEW t, Tree(t), NEW p \in Seq(STRING), DirsPossible(t, p) PROVE Tree(MakeDirs(t, p))
<1> DEFINE u == MakeDirs(t, p)
<1>1. /\ DOMAIN u = DOMAIN t \cup AndAncestors(p) /\ \A q \in DOMAIN t : u[q].kind = t[q].kind
      /\ \A q \in AndAncestors(p) : IsDir(u, q)
  BY MakeDirsAt
<1> HIDE DEF u
<1>2. AndAncestors(p) \subseteq SomePaths
  BY PathAbove DEF AndAncestors
<1>3. DOMAIN u \subseteq SomePaths
  BY <1>1, <1>2 DEF Tree, SomePaths
<1>4. ASSUME NEW q \in DOMAIN u, NEW i \in 1..(Len(q) - 1) PROVE IsDir(u, SubSeq(q, 1, i))
  <2>1. CASE q \in DOMAIN t
    BY <1>1, <2>1 DEF Tree, IsDir
  <2>2. CASE q \in AndAncestors(p)
    <3>1. PICK j \in 1..Len(p) : q = SubSeq(p, 1, j)
      BY <2>2 DEF AndAncestors
    <3>2. Len(q) = j /\ Len(p) \in Nat
      BY <3>1, PathAbove, LenProperties
    <3>3. i \in 1..j /\ i \in 1..Len(p)
      BY <3>1, <3>2
    <3>4. SubSeq(q, 1, i) = SubSeq(p, 1, i)
      BY <3>1, <3>3, PathAbove
    <3>5. SubSeq(q, 1, i) \in AndAncestors(p)
      BY <3>3, <3>4 DEF AndAncestors
    <3> QED
      BY <1>1, <3>5
  <2> QED
    BY <1>1, <2>1, <2>2
<1> QED
  BY <1>3, <1>4 DEF Tree, IsDir, SomePaths, u

\* A path is one of its own ancestors here.
LEMMA OwnAncestor ==
    ASSUME NEW p \in SomePaths PROVE p \in AndAncestors(p) /\ AndAncestors(p) \subseteq SomePaths
<1>1. p \in Seq(STRING) /\ Len(p) \in 1..Len(p) /\ p = SubSeq(p, 1, Len(p))
  BY ParentAbove DEF SomePaths
<1> QED
  BY <1>1, PathAbove DEF AndAncestors

\* lexically_normal() of a relative path is a path.
KeptUpTo(u, p, n) ==
    u = [i \in 0..n |-> IF i = 0 THEN << >>
                        ELSE IF p[i] = "." THEN u[i - 1] ELSE Append(u[i - 1], p[i])]

\* The recursion of NormalPath has a solution.
LEMMA KeptExists == ASSUME NEW p, NEW n \in Nat PROVE \E u : KeptUpTo(u, p, n)
<1> DEFINE T == {m \in Nat : \E u : KeptUpTo(u, p, m)}
<1>1. 0 \in T
  <2>1. KeptUpTo([i \in 0..0 |-> << >>], p, 0)
    BY DEF KeptUpTo
  <2> QED
    BY <2>1
<1>2. ASSUME NEW m \in Nat, m \in T PROVE m + 1 \in T
  <2>1. PICK u : KeptUpTo(u, p, m)
    BY <1>2
  <2> DEFINE last == IF p[m + 1] = "." THEN u[m] ELSE Append(u[m], p[m + 1])
             v == [i \in 0..(m + 1) |-> IF i = m + 1 THEN last ELSE u[i]]
  <2>2. \A i \in 0..m : u[i] = IF i = 0 THEN << >>
                               ELSE IF p[i] = "." THEN u[i - 1] ELSE Append(u[i - 1], p[i])
    BY <2>1 DEF KeptUpTo
  <2>3. v[m + 1] = last /\ \A i \in 0..m : v[i] = u[i]
    OBVIOUS
  <2>4. v = [i \in 0..(m + 1) |-> v[i]]
    OBVIOUS
  <2> HIDE DEF v
  <2>5. ASSUME NEW i \in 0..(m + 1)
        PROVE  v[i] = IF i = 0 THEN << >>
                      ELSE IF p[i] = "." THEN v[i - 1] ELSE Append(v[i - 1], p[i])
    <3>1. CASE i = m + 1
      <4>1. i # 0 /\ v[i - 1] = u[m]
        BY <2>3, <3>1
      <4> QED
        BY <2>3, <3>1, <4>1
    <3>2. CASE i \in 0..m /\ i # 0
      <4>1. v[i] = u[i] /\ v[i - 1] = u[i - 1]
        BY <2>3, <3>2
      <4> QED
        BY <2>2, <3>2, <4>1
    <3>3. CASE i = 0
      BY <2>2, <2>3, <3>3
    <3> QED
      BY <3>1, <3>2, <3>3
  <2>6. KeptUpTo(v, p, m + 1)
    BY <2>4, <2>5 DEF KeptUpTo
  <2> QED
    BY <2>6
<1> HIDE DEF T
<1>3. n \in T
  BY <1>1, <1>2, NatInd
<1> QED
  BY <1>3 DEF T

\* What it yields is a path.
LEMMA NormalIsPath == ASSUME NEW p \in Seq(STRING) PROVE NormalPath(p) \in Seq(STRING)
<1> DEFINE n == Len(p)
           kept[i \in 0..Len(p)] ==
              IF i = 0 THEN << >>
              ELSE IF p[i] = "." THEN kept[i - 1] ELSE Append(kept[i - 1], p[i])
<1>1. n \in Nat /\ \A i \in 1..n : p[i] \in STRING
  BY LenProperties, ElementOfSeq
<1>2. KeptUpTo(kept, p, n)
  BY <1>1, KeptExists DEF KeptUpTo
<1>3. NormalPath(p) = kept[n]
  BY DEF NormalPath
<1> HIDE DEF kept, n
<1> DEFINE T == {i \in Nat : i <= n => kept[i] \in Seq(STRING)}
<1>4. 0 \in T
  BY <1>1, <1>2, EmptySeq DEF KeptUpTo
<1>5. ASSUME NEW i \in Nat, i \in T PROVE i + 1 \in T
  <2> SUFFICES ASSUME i + 1 <= n PROVE kept[i + 1] \in Seq(STRING)
    OBVIOUS
  <2>1. kept[i] \in Seq(STRING) /\ p[i + 1] \in STRING
    BY <1>1, <1>5
  <2>2. kept[i + 1] = IF p[i + 1] = "." THEN kept[i] ELSE Append(kept[i], p[i + 1])
    <3>1. \A j \in 0..n : kept[j] = IF j = 0 THEN << >>
                  ELSE IF p[j] = "." THEN kept[j - 1] ELSE Append(kept[j - 1], p[j])
      BY <1>2 DEF KeptUpTo
    <3>2. i + 1 \in 0..n /\ i + 1 # 0 /\ (i + 1) - 1 = i
      BY <1>1
    <3> QED
      BY <3>1, <3>2
  <2>3. Append(kept[i], p[i + 1]) \in Seq(STRING)
    BY <2>1, AppendProperties
  <2> QED
    BY <2>1, <2>2, <2>3
<1> HIDE DEF T
<1>6. Nat \subseteq T
  BY <1>4, <1>5, NatInd
<1> QED
  BY <1>1, <1>3, <1>6 DEF T

----------------------------------------------------------------------------
Framed(s) ==
    /\ Len(s) \in Nat /\ DOMAIN s = 1..Len(s)
    /\ \A i \in DOMAIN s : /\ s[i].size \in Nat
                           /\ s[i].type \in {"Dir", "File"} => s[i].body.path \in Seq(STRING)
                           /\ s[i].type = "Bytes" => s[i].body \in Seq(Nat)

\* What the reader is given: the whole stream, or a foreign one without its end.
StreamInv ==
    /\ stage \in {"validate", "refused", "walk", "plan", "begin", "entries", "padding",
                  "drained", "written", "failed"}
    /\ Framed(stream) /\ cut \in 0..StreamSize(stream) /\ (cut = 0 \/ stage = "written")
    /\ cut > 0 => cut < EncodedSize(stream[Len(stream)])
    /\ rpc # "idle" => stage = "written"

\* How far it has come.
ProgressInv ==
    /\ rpc \in {"idle", "refused", "discover", "construct", "feed", "parse", "promote", "rename",
                "metadata", "success", "unwind", "catch", "failed"}
    /\ taken \in Nat /\ arrived \in taken..Total /\ records \in 0..Len(stream)
    /\ rpc = "idle" => arrived = 0 /\ records = 0

\* The temporary tree holds the open file and the directories whose metadata
\* has to wait.
TempInv ==
    /\ Len(temp) <= 1 /\ Len(file) <= 1
    /\ rpc \in {"feed", "parse", "promote", "rename", "metadata"} => temp # << >>
    /\ rpc \in {"idle", "discover", "construct"} => file = << >> /\ deferred = {}
    /\ rpc \in {"promote", "rename", "metadata"} => file = << >>
    /\ temp # << >> =>
          /\ Tree(Tmp)
          /\ file # << >> => NormalPath(file[1].meta.path) \in DOMAIN Tmp
          /\ \A m \in deferred : NormalPath(m.path) = << >> \/ IsDir(Tmp, NormalPath(m.path))

\* The output is a tree below a directory that exists.
OutInv ==
    /\ Tree(out) /\ (DOMAIN out # {} => exists)
    /\ rpc \notin {"idle", "refused", "failed"} => exists

\* Promotion: a directory of the temporary tree that is done is a directory of
\* the output, and the entry found free has no directory in its way.
PromoteInv ==
    /\ rpc \in {"promote", "rename", "metadata"} =>
          /\ todo \subseteq DOMAIN Tmp
          /\ \A q \in DOMAIN Tmp \ todo : IsDir(Tmp, q) => IsDir(out, q)
    /\ rpc = "metadata" => todo = {}
    /\ checked = << >> \/ checked = <<checked[1]>>
    /\ checked # << >> => rpc \in {"rename", "unwind", "catch", "failed"} /\ checked[1] \in todo
    /\ rpc = "rename" =>
          /\ checked # << >> /\ NextToPromote(checked[1])
          /\ ~IsDir(Tmp, checked[1]) /\ ~IsDir(out, checked[1])

ReaderInv == StreamInv /\ ProgressInv /\ TempInv /\ OutInv /\ PromoteInv

\* The size of a stream is a number.
LEMMA FramedSize == ASSUME NEW s, Framed(s) PROVE StreamSize(s) \in Nat
<1> DEFINE w == [i \in DOMAIN s |-> EncodedSize(s[i])]
<1>1. Len(s) \in Nat /\ \A i \in 1..Len(s) : w[i] \in Nat
  BY RecordAssumption DEF Framed, EncodedSize
<1> HIDE DEF w
<1>2. SumUpTo(w, Len(s)) \in Nat
  BY <1>1, SumNat
<1> QED
  BY <1>2 DEF StreamSize, w

\* A stream stays framed when the writer adds to it.
LEMMA FramedAppend ==
    ASSUME NEW s \in Seq(Records), NEW r \in Records, Framed(s),
           r.type \in {"Dir", "File"} => r.body.path \in Seq(STRING),
           r.type = "Bytes" => r.body \in Seq(Nat)
    PROVE  Framed(Append(s, r))
<1> DEFINE t == Append(s, r)
           n == Len(s)
<1>1. n \in Nat /\ DOMAIN s = 1..n
  BY LenProperties
<1>2. t \in Seq(Records) /\ Len(t) = n + 1 /\ \A i \in 1..n : t[i] = s[i]
  BY <1>1, AppendProperties
<1>3. t[n + 1] = r
  BY <1>1, AppendProperties
<1>4. DOMAIN t = 1..(n + 1)
  BY <1>2, LenProperties
<1>5. r.size \in Nat
  BY DEF Records
<1> HIDE DEF t, n
<1>6. \A i \in 1..(n + 1) : i \in 1..n \/ i = n + 1
  BY <1>1
<1>7. ASSUME NEW i \in 1..(n + 1)
      PROVE  /\ t[i].size \in Nat
             /\ t[i].type \in {"Dir", "File"} => t[i].body.path \in Seq(STRING)
             /\ t[i].type = "Bytes" => t[i].body \in Seq(Nat)
  BY <1>1, <1>2, <1>3, <1>5, <1>6 DEF Framed
<1>8. Framed(t)
  BY <1>1, <1>2, <1>4, <1>7 DEF Framed
<1> QED
  BY <1>8 DEF t

\* The stream is complete before the reader begins, and never changes after.
LEMMA StreamStep == LayoutInv /\ StreamInv /\ [Next]_vars => StreamInv'
<1> SUFFICES ASSUME LayoutInv, StreamInv, [Next]_vars PROVE StreamInv'
  OBVIOUS
<1>1. ASSUME NEW r \in Records, stage \in Writing, stream' = Append(stream, r),
             r.type \in {"Dir", "File"} => r.body.path \in Seq(STRING),
             r.type = "Bytes" => r.body \in Seq(Nat),
             UNCHANGED <<cut, rpc>>, stage' \in Writing
      PROVE  StreamInv'
  <2>1. stream \in Seq(Records) /\ Framed(stream) /\ cut = 0 /\ rpc = "idle"
    BY <1>1 DEF LayoutInv, PlanInv, StreamInv, Writing
  <2>2. Framed(stream')
    BY <1>1, <2>1, FramedAppend
  <2>3. StreamSize(stream') \in Nat
    BY <2>2, FramedSize
  <2> QED
    BY <1>1, <2>1, <2>2, <2>3 DEF StreamInv, Writing
<1>2. ASSUME UNCHANGED <<stream, cut, rpc>>, stage # "written" \/ stage' = stage,
             stage' \in {"validate", "refused", "walk", "plan", "begin", "entries", "padding",
                         "drained", "written", "failed"}
      PROVE  StreamInv'
  BY <1>2 DEF StreamInv
<1>3. CASE (Encrypt \/ Disturb) /\ UNCHANGED rvars
  <2>1. UNCHANGED <<cut, rpc>>
    BY <1>3 DEF rvars
  <2>2. CASE EmitBegin
    BY <1>1, <2>1, <2>2, RecordsMade DEF EmitBegin, Emit, Become, Writing, BeginRecord, MakeRecord
  <2>3. CASE EmitEntry
    <3> DEFINE e == entries[index]
               ty == IF e.type = "dir" THEN "Dir" ELSE "File"
               r == EntryRecord(ty, MetadataFor(e))
    <3>1. stage = "entries" /\ index <= Len(entries)
      BY <2>3 DEF EmitEntry
    <3>2. e \in Entries
      BY <3>1, LenProperties DEF LayoutInv, WriterTyped
    <3>3. CASE stream' = stream /\ stage' \in {stage, "failed"}
      BY <1>2, <2>1, <3>1, <3>3
    <3>4. CASE ~MetadataThrows(e) /\ stream' = Append(stream, r) /\ stage' = stage
      <4>1. r \in Records
        BY <3>2, <3>4, MetadataMade DEF LayoutInv, RecordTypes
      <4>2. r.body.path = e.path /\ e.path \in Seq(STRING) /\ r.type # "Bytes"
        BY <3>2 DEF EntryRecord, MakeRecord, MetadataFor, Metadata, Entries
      <4> HIDE DEF r
      <4> QED
        BY <1>1, <2>1, <3>1, <3>4, <4>1, <4>2 DEF Writing
    <3> QED
      BY <2>3, <3>3, <3>4, Zenon DEF EmitEntry, Emit, Become
  <2>4. CASE EmitFileBytes
    <3> DEFINE x == NextBytes(reading[1])
    <3>1. stage = "entries" /\ reading # << >> /\ stage' = stage
          /\ stream' = Append(stream, BytesRecord(x))
      BY <2>4, Zenon DEF EmitFileBytes, Emit
    <3>2. reading[1] \in Files /\ reading[1].path \in DOMAIN input
      BY <3>1 DEF LayoutInv, WriterTyped
    <3>3. x \in Seq(Nat)
      BY <3>2, BytesRead DEF LayoutInv
    <3>4. /\ BytesRecord(x) \in Records /\ BytesRecord(x).type = "Bytes"
          /\ BytesRecord(x).body \in Seq(Nat)
      BY <3>3, RecordsMade DEF BytesRecord, MakeRecord
    <3> QED
      BY <1>1, <2>1, <3>1, <3>4 DEF Writing
  <2>5. CASE EmitFileEnd
    <3>1. stage = "entries"
      BY <2>5 DEF EmitFileEnd
    <3>2. CASE stage' = "failed" /\ stream' = stream
      BY <1>2, <2>1, <3>1, <3>2
    <3>3. CASE stage' = stage /\ stream' = Append(stream, MarkRecord("FileEnd"))
      <4>1. MarkRecord("FileEnd") \in Records /\ MarkRecord("FileEnd").type = "FileEnd"
        BY RecordsMade DEF MarkRecord, MakeRecord, RecordTypes
      <4> QED
        BY <1>1, <2>1, <3>1, <3>3, <4>1 DEF Writing
    <3> QED
      BY <2>5, <3>2, <3>3, Zenon DEF EmitFileEnd, Emit, Become
  <2>6. CASE EmitEnd
    <3>1. MarkRecord("End") \in Records /\ MarkRecord("End").type = "End"
      BY RecordsMade DEF MarkRecord, MakeRecord, RecordTypes
    <3>2. stage = "entries" /\ stage' = "padding" /\ stream' = Append(stream, MarkRecord("End"))
      BY <2>6 DEF EmitEnd, Emit, Become
    <3> QED
      BY <1>1, <2>1, <3>1, <3>2 DEF Writing
  <2>7. CASE EmitPadding
    <3> DEFINE gap == header[1].padded - raw
    <3>1. /\ stage = "padding" /\ stage' = "drained"
          /\ stream' = IF gap > 0 THEN Append(stream, PaddingRecord(gap - RecordPrefix)) ELSE stream
      BY <2>7 DEF EmitPadding, Emit, Become
    <3>2. raw \in Nat /\ header # << >>
      BY <3>1 DEF LayoutInv, PlanInv, Writing
    <3>3. header[1].padded \in Nat /\ header[1].padded >= raw /\ (gap = 0 \/ gap >= RecordPrefix)
      BY <3>2, PaddingRoom DEF LayoutInv
    <3>4. CASE gap = 0
      BY <1>2, <2>1, <3>1, <3>4
    <3>5. CASE gap > 0
      <4>1. gap - RecordPrefix \in Nat
        BY <3>2, <3>3, <3>5, RecordAssumption
      <4> DEFINE r == PaddingRecord(gap - RecordPrefix)
      <4>2. r \in Records /\ r.type = "Padding"
        BY <4>1, RecordsMade DEF PaddingRecord, MakeRecord
      <4>3. stream' = Append(stream, r)
        BY <3>1, <3>5
      <4> HIDE DEF r
      <4> QED
        BY <1>1, <2>1, <3>1, <4>2, <4>3 DEF Writing
    <3> QED
      BY <3>2, <3>3, <3>4, <3>5
  <2>8. CASE Validate \/ Walk \/ Plan \/ VerifyProduced
    BY <1>2, <2>1, <2>8 DEF Validate, Walk, Plan, VerifyProduced, Become
  <2>9. CASE Disturb
    <3>1. UNCHANGED <<stage, stream>>
      BY <2>9 DEF Disturb, GrowFile, ShrinkFile, RemoveEntry, ReplaceEntry, Changed
    <3> QED
      BY <1>2, <2>1, <3>1 DEF StreamInv
  <2> QED
    BY <1>3, <2>2, <2>3, <2>4, <2>5, <2>6, <2>7, <2>8, <2>9 DEF Encrypt
<1>4. CASE (Decrypt \/ \E p \in IntruderPaths : Intrude(p)) /\ UNCHANGED wvars
  <2>1. UNCHANGED <<stage, stream>>
    BY <1>4 DEF wvars
  <2>2. cut' = cut /\ (rpc = "idle" => stage = "written")
    BY <1>4 DEF Decrypt, OpenDecrypt, Discover, Construct, Consume, NeedMore, ProcessRecord,
       BeginArchive, CreateDirectory, BeginFile, WriteFileBytes, EndFile, EndArchive, SkipPadding,
       RejectRecord, Process, Finish, PromoteDir, PromoteCheck, PromoteRename, PromoteEnd,
       ApplyMetadata, FinishCleanup, Unwind, Catch, Intrude
  <2> QED
    BY <2>1, <2>2 DEF StreamInv
<1>5. CASE UNCHANGED vars
  BY <1>5 DEF vars, wvars, rvars, StreamInv
<1> QED
  BY <1>3, <1>4, <1>5, Zenon DEF Next

\* The record at the front, once all of it has arrived.
LEMMA RecordTaken ==
    ASSUME StreamInv, ProgressInv, Arriving = "complete"
    PROVE  /\ records + 1 \in 1..Len(stream) /\ EncodedSize(Rec) \in Nat
           /\ taken + EncodedSize(Rec) <= arrived
           /\ Rec.type \in {"Dir", "File"} => Rec.body.path \in Seq(STRING)
<1>0. records # Len(stream)
  BY DEF Arriving
<1>1. Framing(arrived - taken, Rec) = "complete"
  BY DEF Arriving
<1>2. /\ Len(stream) \in Nat /\ DOMAIN stream = 1..Len(stream) /\ records \in 0..Len(stream)
      /\ taken \in Nat /\ Total \in Int /\ arrived \in taken..Total
  <2>1. StreamSize(stream) \in Nat
    BY FramedSize DEF StreamInv
  <2> QED
    BY <2>1 DEF StreamInv, Framed, ProgressInv, Total
<1>3. records + 1 \in 1..Len(stream)
  <2> DEFINE n == Len(stream)
  <2>1. n \in Nat /\ records \in 0..n /\ records # n
    BY <1>0, <1>2
  <2> HIDE DEF n
  <2>2. records + 1 \in 1..n
    BY <2>1
  <2> QED
    BY <2>2 DEF n
<1>4. Rec.size \in Nat /\ (Rec.type \in {"Dir", "File"} => Rec.body.path \in Seq(STRING))
  BY <1>2, <1>3 DEF StreamInv, Framed, Rec
<1>5. EncodedSize(Rec) \in Nat
  BY <1>4, RecordAssumption DEF EncodedSize
<1>6. ~(arrived - taken < EncodedSize(Rec))
  BY <1>1, Zenon DEF Framing
<1> QED
  BY <1>2, <1>3, <1>4, <1>5, <1>6

\* No more is taken than has arrived, and no more arrives than there is.
LEMMA ProgressStep ==
    LayoutInv /\ StreamInv /\ StreamInv' /\ ProgressInv /\ [Next]_vars => ProgressInv'
<1> SUFFICES ASSUME LayoutInv, StreamInv, StreamInv', ProgressInv, [Next]_vars PROVE ProgressInv'
  OBVIOUS
<1> DEFINE phases == {"idle", "refused", "discover", "construct", "feed", "parse", "promote",
                      "rename", "metadata", "success", "unwind", "catch", "failed"}
<1>0. /\ Len(stream) \in Nat /\ records \in 0..Len(stream) /\ taken \in Nat /\ Total \in Nat
      /\ arrived \in taken..Total
  <2>1. StreamSize(stream) \in Nat
    BY FramedSize DEF StreamInv
  <2> QED
    BY <2>1 DEF StreamInv, Framed, ProgressInv, Total
<1>1. CASE (Encrypt \/ Disturb) /\ UNCHANGED rvars
  <2>1. UNCHANGED <<rpc, arrived, taken, records, cut>>
    BY <1>1 DEF rvars, parse_vars
  <2>2. stage # "written"
    BY <1>1 DEF Encrypt, Validate, Walk, Plan, EmitBegin, EmitEntry, EmitFileBytes, EmitFileEnd,
       EmitEnd, EmitPadding, VerifyProduced, Disturb, GrowFile, ShrinkFile, RemoveEntry,
       ReplaceEntry, Busy
  <2>3. rpc = "idle" /\ arrived = 0 /\ records = 0
    BY <2>2 DEF StreamInv, ProgressInv
  <2>4. StreamSize(stream') \in Nat
    BY FramedSize DEF StreamInv
  <2>5. Len(stream') \in Nat /\ Total' \in Nat
    BY <2>4 DEF StreamInv, Framed, Total
  <2>6. taken = 0
    BY <1>0, <2>3
  <2> QED
    BY <2>1, <2>3, <2>5, <2>6 DEF ProgressInv
<1>2. ASSUME UNCHANGED wvars, cut' = cut PROVE UNCHANGED <<stream, Total>>
  BY <1>2 DEF wvars, Total
<1>3. ASSUME UNCHANGED wvars, UNCHANGED <<cut, arrived, taken, records>>, rpc' \in phases,
             rpc' = "idle" => rpc = "idle"
      PROVE  ProgressInv'
  <2>1. UNCHANGED <<stream, Total>>
    BY <1>2, <1>3
  <2> QED
    BY <1>3, <2>1 DEF ProgressInv
<1>4. ASSUME Consume, UNCHANGED wvars PROVE ProgressInv'
  <2>1. UNCHANGED <<cut, taken, records>> /\ arrived < Total /\ rpc' \in {"parse", "unwind"}
    BY <1>4 DEF Consume, Throw
  <2>2. UNCHANGED <<stream, Total>>
    BY <1>2, <1>4, <2>1
  <2>3. params.chunk \in Nat
    BY WriterAssumption, Words DEF LayoutInv, WriterTyped
  <2>4. arrived' = Min({arrived + params.chunk, Total}) \/ arrived' = arrived
    BY <1>4 DEF Consume
  <2>5. Min({arrived + params.chunk, Total})
           = IF arrived + params.chunk <= Total THEN arrived + params.chunk ELSE Total
    BY <1>0, <2>3, MinOfTwo
  <2>6. arrived' \in taken..Total
    BY <1>0, <2>1, <2>3, <2>4, <2>5
  <2> QED
    BY <1>0, <2>1, <2>2, <2>6 DEF ProgressInv
<1>5. ASSUME NEW type, Process(type), UNCHANGED wvars PROVE ProgressInv'
  <2>1. /\ UNCHANGED <<rpc, cut, arrived>> /\ rpc = "parse" /\ Arriving = "complete"
        /\ records' = records + 1 /\ taken' = taken + EncodedSize(Rec)
    BY <1>5, Zenon DEF Process
  <2>2. UNCHANGED <<stream, Total>>
    BY <1>2, <1>5, <2>1
  <2>3. records + 1 \in 1..Len(stream) /\ EncodedSize(Rec) \in Nat
        /\ taken + EncodedSize(Rec) <= arrived
    BY <2>1, RecordTaken
  <2>4. taken' \in Nat /\ arrived \in taken'..Total /\ records' \in 0..Len(stream)
    BY <1>0, <2>1, <2>3
  <2> QED
    BY <2>1, <2>2, <2>4 DEF ProgressInv
<1>6. CASE (Decrypt \/ \E p \in IntruderPaths : Intrude(p)) /\ UNCHANGED wvars
  <2>1. CASE Consume
    BY <1>4, <1>6, <2>1
  <2>2. CASE ProcessRecord /\ ~RejectRecord
    <3>1. \E type \in RecordTypes : Process(type)
      BY <2>2 DEF ProcessRecord, BeginArchive, CreateDirectory, BeginFile, WriteFileBytes, EndFile,
         EndArchive, SkipPadding, RecordTypes
    <3> QED
      BY <1>5, <1>6, <3>1
  <2>3. CASE ~Consume /\ ~(ProcessRecord /\ ~RejectRecord)
    <3>1. UNCHANGED <<cut, arrived, taken, records>>
      BY <1>6, <2>3 DEF Decrypt, OpenDecrypt, Discover, Construct, NeedMore, ProcessRecord,
         RejectRecord, Finish, PromoteDir, PromoteCheck, PromoteRename, PromoteEnd,
         ApplyMetadata, FinishCleanup, Unwind, Catch, Intrude, parse_vars
    <3>2. rpc' = rpc \/ rpc' \in phases \ {"idle"}
      BY <1>6, <2>3 DEF Decrypt, OpenDecrypt, Discover, Construct, NeedMore, ProcessRecord,
         RejectRecord, Finish, PromoteDir, PromoteCheck, PromoteRename, PromoteEnd, PromoteFails,
         ApplyMetadata, FinishCleanup, Unwind, Catch, Intrude, Throw
    <3> QED
      BY <1>3, <1>6, <3>1, <3>2 DEF ProgressInv
  <2> QED
    BY <2>1, <2>2, <2>3
<1>7. CASE UNCHANGED vars
  <2>1. UNCHANGED wvars /\ UNCHANGED <<rpc, cut, arrived, taken, records>>
    BY <1>7 DEF vars, rvars, parse_vars
  <2> QED
    BY <1>3, <2>1 DEF ProgressInv
<1> QED
  BY <1>1, <1>6, <1>7, Zenon DEF Next

----------------------------------------------------------------------------
\* A tree whose nodes keep their kinds.
LEMMA SameKinds ==
    ASSUME NEW t, NEW u, DOMAIN u = DOMAIN t, \A q \in DOMAIN t : u[q].kind = t[q].kind
    PROVE  (Tree(t) => Tree(u)) /\ \A q : IsDir(u, q) <=> IsDir(t, q)
  BY DEF Tree, IsDir

\* A directory stays one when directories are made, and when a node that is
\* none is put or dropped.
LEMMA DirsMade ==
    ASSUME NEW t, NEW p \in Seq(STRING), DirsPossible(t, p), NEW q, IsDir(t, q)
    PROVE  IsDir(MakeDirs(t, p), q)
<1>1. /\ DOMAIN MakeDirs(t, p) = DOMAIN t \cup AndAncestors(p)
      /\ \A r \in DOMAIN t : MakeDirs(t, p)[r].kind = t[r].kind
  BY MakeDirsAt
<1> QED
  BY <1>1 DEF IsDir

\* A node that is put is a directory only if it is one.
LEMMA DirsPut ==
    ASSUME NEW t, NEW p \in SomePaths, NEW n
    PROVE  /\ \A q : q # p => (IsDir(PutNode(t, p, n), q) <=> IsDir(t, q))
           /\ IsDir(PutNode(t, p, n), p) <=> n.kind = "dir"
  BY PutNodeAt DEF IsDir

\* Dropping a path that is no directory drops nothing else.
LEMMA DirsDropped ==
    ASSUME NEW t, Tree(t), NEW p \in SomePaths
    PROVE  /\ Tree(DropTree(t, p)) /\ p \notin DOMAIN DropTree(t, p)
           /\ \A q : IsDir(DropTree(t, p), q) => IsDir(t, q)
           /\ \A q \in DOMAIN t : ~IsPrefix(p, q) /\ IsDir(t, q) => IsDir(DropTree(t, p), q)
           /\ ~IsDir(t, p) => \A q \in DOMAIN t : q # p => q \in DOMAIN DropTree(t, p)
<1> DEFINE u == DropTree(t, p)
<1>1. DOMAIN u = {q \in DOMAIN t : ~IsPrefix(p, q)} /\ \A q \in DOMAIN u : u[q].kind = t[q].kind
  BY DropTreeAt
<1> HIDE DEF u
<1>2. Tree(u)
  BY <1>1, TreeDrop
<1>3. IsPrefix(p, p)
  BY PrefixAbove, ParentAbove
<1>4. ASSUME ~IsDir(t, p), NEW q \in DOMAIN t, q # p PROVE q \in DOMAIN u
  <2>1. ~IsStrictPrefix(p, q)
    BY <1>4, TreeAbove
  <2> QED
    BY <1>1, <1>4, <2>1 DEF IsStrictPrefix
<1>5. \A q : IsDir(u, q) => IsDir(t, q)
  BY <1>1 DEF IsDir
<1>6. \A q \in DOMAIN t : ~IsPrefix(p, q) /\ IsDir(t, q) => IsDir(u, q)
  BY <1>1 DEF IsDir
<1> QED
  BY <1>1, <1>2, <1>3, <1>4, <1>5, <1>6 DEF u

\* begin_file() in the temporary tree.
LEMMA FilePut ==
    ASSUME NEW t, Tree(t), NEW p \in SomePaths, DirsPossible(t, Parent(p)), NEW n, ~IsDir(t, p)
    PROVE  LET v == PutNode(MakeDirs(t, Parent(p)), p, n) IN
           Tree(v) /\ p \in DOMAIN v /\ \A q : IsDir(t, q) => IsDir(v, q)
<1> DEFINE u == MakeDirs(t, Parent(p))
           v == PutNode(u, p, n)
<1>1. Parent(p) \in Seq(STRING) /\ Len(p) \in Nat \ {0} /\ (Len(p) = 1 \/ Parent(p) \in SomePaths)
  <2>1. /\ Parent(p) \in Seq(STRING) /\ Len(p) \in Nat \ {0}
        /\ Len(p) > 1 => Parent(p) \in SomePaths
    BY ParentAbove
  <2>3. Len(p) = 1 \/ Len(p) > 1
    BY ParentAbove
  <2> QED
    BY <2>1, <2>3
<1>2. Tree(u) /\ \A q : IsDir(t, q) => IsDir(u, q)
  BY <1>1, TreeMake, DirsMade
<1>3. Len(p) = 1 \/ IsDir(u, Parent(p))
  BY <1>1, OwnAncestor, MakeDirsAt
<1>4. p \notin AndAncestors(Parent(p))
  <2> SUFFICES ASSUME NEW i \in 1..Len(Parent(p)), p = SubSeq(Parent(p), 1, i) PROVE FALSE
    BY DEF AndAncestors
  <2>1. Len(p) = i
    BY <1>1, PathAbove
  <2>2. Len(Parent(p)) \in Nat /\ (Len(p) = 1 => Len(Parent(p)) = 0)
    BY <1>1, LenProperties, ParentAbove, Len(<< >>) = 0
  <2>3. Len(p) > 1 => Len(Parent(p)) = Len(p) - 1
    BY ParentAbove
  <2> QED
    BY <1>1, <2>1, <2>2, <2>3
<1>5. ~IsDir(u, p)
  BY <1>1, <1>4, MakeDirsAt DEF IsDir
<1> HIDE DEF u
<1>6. Tree(v)
  BY <1>2, <1>3, <1>5, TreePut
<1>7. p \in DOMAIN v
  BY PutNodeAt
<1>8. ASSUME NEW q, IsDir(t, q) PROVE IsDir(v, q)
  <2>1. IsDir(u, q) /\ q # p
    BY <1>2, <1>8
  <2> QED
    BY <2>1, DirsPut
<1> QED
  BY <1>6, <1>7, <1>8 DEF u

\* The temporary tree, action by action.
LEMMA TempStep == ReaderInv /\ [Next]_vars => TempInv'
<1> SUFFICES ASSUME ReaderInv, [Next]_vars PROVE TempInv'
  OBVIOUS
<1>0. StreamInv /\ ProgressInv /\ TempInv /\ PromoteInv
  BY DEF ReaderInv
<1>1. ASSUME UNCHANGED <<temp, file, deferred>>,
             \/ rpc' = rpc
             \/ rpc' \in {"refused", "success", "unwind", "catch", "failed"}
             \/ rpc = "idle" /\ rpc' = "discover"
             \/ rpc = "discover" /\ rpc' = "construct"
             \/ rpc \in {"feed", "parse"} /\ rpc' \in {"feed", "parse"}
             \/ /\ rpc \in {"promote", "rename", "metadata"}
                /\ rpc' \in {"promote", "rename", "metadata"}
      PROVE  TempInv'
  BY <1>0, <1>1, Zenon DEF TempInv, Tmp
<1>2. ASSUME NEW t, temp' = <<t>>, rpc' \in {"parse", "promote", "unwind"},
             Tree(t), Len(file') <= 1,
             rpc' = "promote" => file' = << >>,
             file' # << >> => NormalPath(file'[1].meta.path) \in DOMAIN t,
             \A m \in deferred' : NormalPath(m.path) = << >> \/ IsDir(t, NormalPath(m.path))
      PROVE  TempInv'
  <2>1. Len(temp') = 1 /\ temp' # << >> /\ Tmp' = t
    BY <1>2 DEF Tmp
  <2> QED
    BY <1>2, <2>1 DEF TempInv
<1>3. CASE UNCHANGED rvars
  BY <1>1, <1>3 DEF rvars, parse_vars, tree_vars
<1>4. ASSUME NEW o \in Outputs, NEW dp \in DecryptParams, OpenDecrypt(o, dp) PROVE TempInv'
  <2>1. /\ UNCHANGED <<temp, file, deferred>> /\ rpc = "idle"
        /\ rpc' \in {"refused", "discover", "failed"}
    BY <1>4 DEF OpenDecrypt, tree_vars, parse_vars
  <2> QED
    BY <1>1, <2>1
<1>5. CASE Discover
  BY <1>1, <1>5 DEF Discover, tree_vars, parse_vars
<1>6. CASE Construct
  <2>1. UNCHANGED <<file, deferred>> /\ rpc = "construct" /\ file = << >> /\ deferred = {}
    BY <1>0, <1>6 DEF Construct, parse_vars, TempInv
  <2>2. CASE temp' = temp /\ rpc' = "catch"
    BY <1>1, <2>1, <2>2
  <2>3. CASE temp' = << << >> >> /\ rpc' = "feed"
    <3>1. Tree(<< >>) /\ Len(<< >>) = 0
      BY DOMAIN << >> = {} DEF Tree
    <3>2. Len(temp') = 1 /\ temp' # << >> /\ Tmp' = << >>
      BY <2>3 DEF Tmp
    <3> QED
      BY <2>1, <2>3, <3>1, <3>2 DEF TempInv
  <2> QED
    BY <1>6, <2>2, <2>3 DEF Construct
<1>7. CASE Consume \/ NeedMore
  BY <1>1, <1>7 DEF Consume, NeedMore, Throw, tree_vars, parse_vars
<1>8. CASE BeginArchive \/ EndArchive \/ SkipPadding
  BY <1>1, <1>8 DEF BeginArchive, EndArchive, SkipPadding, Process
<1>9. CASE RejectRecord
  BY <1>1, <1>9 DEF RejectRecord, Throw, tree_vars, parse_vars
<1>10. CASE CreateDirectory
  <2> DEFINE p == NormalPath(Rec.body.path)
             t == MakeDirs(Tmp, p)
  <2>1. /\ rpc = "parse" /\ rpc' = rpc /\ Arriving = "complete" /\ Rec.type = "Dir" /\ Allowed(Rec)
        /\ temp' = <<t>> /\ deferred' = deferred \cup {Rec.body} /\ file' = file
    BY <1>10, Zenon DEF CreateDirectory, Process
  <2>2. p \in Seq(STRING)
    BY <1>0, <2>1, RecordTaken, NormalIsPath
  <2>3. DirsPossible(Tmp, p)
    BY <2>1 DEF Allowed, DirAllowed
  <2>4. /\ Tree(Tmp) /\ Len(file) <= 1
        /\ file # << >> => NormalPath(file[1].meta.path) \in DOMAIN Tmp
        /\ \A m \in deferred : NormalPath(m.path) = << >> \/ IsDir(Tmp, NormalPath(m.path))
    BY <1>0, <2>1 DEF TempInv
  <2>5. Tree(t) /\ DOMAIN Tmp \subseteq DOMAIN t /\ \A q : IsDir(Tmp, q) => IsDir(t, q)
    BY <2>2, <2>3, <2>4, TreeMake, MakeDirsAt, DirsMade
  <2>6. p = << >> \/ IsDir(t, p)
    BY <2>2, <2>3, OwnAncestor, MakeDirsAt DEF SomePaths
  <2> HIDE DEF t
  <2>7. \A m \in deferred' : NormalPath(m.path) = << >> \/ IsDir(t, NormalPath(m.path))
    BY <2>1, <2>4, <2>5, <2>6
  <2> QED
    BY <1>2, <2>1, <2>4, <2>5, <2>7
<1>11. CASE BeginFile
  <2> DEFINE p == NormalPath(Rec.body.path)
             n == Node("file", << >>, Now)
             t == PutNode(MakeDirs(Tmp, Parent(p)), p, n)
             f == OpenFile(Rec.body, 0)
  <2>1. /\ rpc = "parse" /\ rpc' = rpc /\ Arriving = "complete" /\ Rec.type = "File" /\ Allowed(Rec)
        /\ temp' = <<t>> /\ deferred' = deferred /\ file' = <<f>>
    BY <1>11, Zenon DEF BeginFile, Process
  <2>2. FileAllowed(Rec.body)
    BY <2>1 DEF Allowed
  <2>3. p \in SomePaths
    BY <1>0, <2>1, <2>2, RecordTaken, NormalIsPath DEF SomePaths, FileAllowed
  <2>4. DirsPossible(Tmp, Parent(p)) /\ ~IsDir(Tmp, p)
    BY <2>2 DEF FileAllowed, IsDir
  <2>5. /\ Tree(Tmp)
        /\ \A m \in deferred : NormalPath(m.path) = << >> \/ IsDir(Tmp, NormalPath(m.path))
    BY <1>0, <2>1 DEF TempInv
  <2> HIDE DEF n
  <2>6. Tree(t) /\ p \in DOMAIN t /\ \A q : IsDir(Tmp, q) => IsDir(t, q)
    BY <2>3, <2>4, <2>5, FilePut
  <2>7. Len(file') = 1 /\ file'[1].meta.path = Rec.body.path
    BY <2>1 DEF OpenFile
  <2> HIDE DEF t, f
  <2> QED
    BY <1>2, <2>1, <2>5, <2>6, <2>7
<1>12. CASE WriteFileBytes \/ EndFile
  <2> DEFINE x == NormalPath(file[1].meta.path)
  <2>1. /\ rpc = "parse" /\ rpc' = rpc /\ deferred' = deferred /\ file # << >>
        /\ file' = << >> \/ \E w : file' = <<OpenFile(file[1].meta, w)>>
    <3>1. CASE WriteFileBytes
      <4>1. /\ Rec.type = "Bytes" /\ Allowed(Rec) /\ rpc = "parse"
            /\ rpc' = rpc /\ deferred' = deferred
            /\ file' = <<OpenFile(file[1].meta, file[1].written + Len(Rec.body))>>
        BY <3>1, Zenon DEF WriteFileBytes, Process
      <4>2. file # << >>
        BY <4>1 DEF Allowed, BytesAllowed
      <4> QED
        BY <4>1, <4>2
    <3>2. CASE EndFile
      <4>1. Rec.type = "FileEnd" /\ Allowed(Rec) /\ rpc = "parse" /\ rpc' = rpc /\ file' = << >>
            /\ deferred' = deferred
        BY <3>2, Zenon DEF EndFile, Process
      <4>2. file # << >>
        BY <4>1 DEF Allowed, FileEndAllowed
      <4> QED
        BY <4>1, <4>2
    <3> QED
      BY <1>12, <3>1, <3>2
  <2>2. PICK b, s : temp' = <<[Tmp EXCEPT ![x] = Node(Tmp[x].kind, b, s)]>>
    BY <1>12, Zenon DEF WriteFileBytes, EndFile
  <2> DEFINE t == [Tmp EXCEPT ![x] = Node(Tmp[x].kind, b, s)]
  <2>3. DOMAIN t = DOMAIN Tmp /\ \A q \in DOMAIN Tmp : t[q].kind = Tmp[q].kind
    BY DEF Node
  <2>4. /\ Tree(Tmp) /\ x \in DOMAIN Tmp
        /\ \A m \in deferred : NormalPath(m.path) = << >> \/ IsDir(Tmp, NormalPath(m.path))
    BY <1>0, <2>1 DEF TempInv
  <2> HIDE DEF t
  <2>5. Tree(t) /\ \A q : IsDir(t, q) <=> IsDir(Tmp, q)
    BY <2>3, <2>4, SameKinds
  <2>6. Len(file') <= 1 /\ (file' # << >> => file'[1].meta = file[1].meta)
    <3>1. CASE file' = << >>
      BY <3>1, Len(<< >>) = 0
    <3>2. ASSUME NEW w, file' = <<OpenFile(file[1].meta, w)>>
          PROVE  Len(file') <= 1 /\ file'[1].meta = file[1].meta
      BY <3>2 DEF OpenFile
    <3> QED
      BY <2>1, <3>1, <3>2
  <2>7. temp' = <<t>>
    BY <2>2 DEF t
  <2>8. file' # << >> => NormalPath(file'[1].meta.path) \in DOMAIN t
    BY <2>3, <2>4, <2>6
  <2> QED
    BY <1>2, <2>1, <2>4, <2>5, <2>6, <2>7, <2>8
<1>13. CASE Finish
  <2>1. UNCHANGED <<temp, file, deferred>> /\ rpc = "feed"
    BY <1>13 DEF Finish, parse_vars
  <2>2. CASE rpc' = "unwind"
    BY <1>1, <2>1, <2>2
  <2>3. CASE rpc' = "promote" /\ Complete
    <3>1. file = << >> /\ temp # << >> /\ Len(file) <= 1 /\ Len(temp) <= 1
      BY <1>0, <2>1, <2>3 DEF Complete, TempInv
    <3> QED
      BY <1>0, <2>1, <2>3, <3>1, Zenon DEF TempInv, Tmp
  <2> QED
    BY <1>13, <2>2, <2>3 DEF Finish, Throw
<1>14. ASSUME NEW p \in todo, PromoteDir(p) \/ PromoteCheck(p) PROVE TempInv'
  <2>1. /\ UNCHANGED <<temp, file, deferred>> /\ rpc = "promote"
        /\ rpc' \in {"promote", "rename", "unwind"}
    BY <1>14 DEF PromoteDir, PromoteCheck, PromoteFails, Throw, parse_vars
  <2> QED
    BY <1>1, <2>1
<1>15. CASE PromoteRename
  <2> DEFINE c == checked[1]
             t == DropTree(Tmp, c)
  <2>1. rpc = "rename" /\ UNCHANGED <<file, deferred>> /\ rpc' \in {"promote", "unwind"}
        /\ (temp' = <<t>> \/ (temp' = temp /\ rpc' = "unwind"))
    BY <1>15, Zenon DEF PromoteRename, PromoteFails, Throw, parse_vars
  <2>2. CASE temp' = temp /\ rpc' = "unwind"
    BY <1>1, <2>1, <2>2
  <2>3. CASE temp' = <<t>>
    <3>1. /\ Tree(Tmp) /\ file = << >>
          /\ \A m \in deferred : NormalPath(m.path) = << >> \/ IsDir(Tmp, NormalPath(m.path))
      BY <1>0, <2>1 DEF TempInv
    <3>2. c \in DOMAIN Tmp /\ ~IsDir(Tmp, c)
      BY <1>0, <2>1 DEF PromoteInv, NextToPromote
    <3>3. c \in SomePaths
      BY <3>1, <3>2, TreeAbove
    <3>4. Tree(t) /\ \A q \in DOMAIN Tmp : q # c => q \in DOMAIN t
      BY <3>1, <3>2, <3>3, DirsDropped
    <3>5. \A q \in DOMAIN t : t[q].kind = Tmp[q].kind
      BY <3>3, DropTreeAt
    <3> HIDE DEF t, c
    <3>6. ASSUME NEW q, IsDir(Tmp, q) PROVE IsDir(t, q)
      BY <3>2, <3>4, <3>5, <3>6 DEF IsDir
    <3>7. Len(file') <= 1 /\ file' = << >>
      BY <2>1, <3>1, Len(<< >>) = 0
    <3> QED
      BY <1>2, <2>1, <2>3, <3>1, <3>4, <3>6, <3>7
  <2> QED
    BY <2>1, <2>2, <2>3
<1>16. CASE PromoteEnd
  BY <1>1, <1>16 DEF PromoteEnd, Throw, tree_vars, parse_vars
<1>17. ASSUME NEW m \in deferred, ApplyMetadata(m) PROVE TempInv'
  <2>1. /\ UNCHANGED <<temp, file>> /\ deferred' \subseteq deferred /\ rpc = "metadata"
        /\ rpc' \in {"metadata", "unwind"}
    BY <1>17 DEF ApplyMetadata, Throw, parse_vars
  <2> QED
    BY <1>0, <2>1, Zenon DEF TempInv, Tmp
<1>18. CASE FinishCleanup \/ Unwind
  <2>1. /\ UNCHANGED <<file, deferred>> /\ rpc' \in {"success", "catch"}
        /\ temp' = temp \/ temp' = << >>
    BY <1>18 DEF FinishCleanup, Unwind, RemoveTemp, parse_vars
  <2>2. CASE temp' = temp
    BY <1>1, <2>1, <2>2
  <2>3. CASE temp' = << >>
    BY <1>0, <2>1, <2>3, Len(<< >>) = 0 DEF TempInv
  <2> QED
    BY <2>1, <2>2, <2>3
<1>19. CASE Catch
  BY <1>1, <1>19 DEF Catch, tree_vars, parse_vars
<1>20. ASSUME NEW p \in IntruderPaths, Intrude(p) PROVE TempInv'
  BY <1>1, <1>20 DEF Intrude, tree_vars, parse_vars
<1> QED
  BY <1>3, <1>4, <1>5, <1>6, <1>7, <1>8, <1>9, <1>10, <1>11, <1>12, <1>13, <1>14, <1>15, <1>16,
     <1>17, <1>18, <1>19, <1>20, Zenon DEF Next, Decrypt, ProcessRecord, vars

\* An entry to promote and the tree it comes from.
LEMMA ToPromote ==
    ASSUME ReaderInv, rpc \in {"promote", "rename"}, NEW p \in todo
    PROVE  p \in DOMAIN Tmp /\ p \in SomePaths /\ Tree(Tmp)
<1>1. p \in DOMAIN Tmp /\ Tree(Tmp)
  BY DEF ReaderInv, PromoteInv, TempInv
<1> QED
  BY <1>1, TreeAbove

\* The path that rename_into() has found free: its parent is in the output.
LEMMA RenameParent ==
    ASSUME ReaderInv, rpc = "rename"
    PROVE  LET c == checked[1] IN
           /\ c \in todo /\ c \in SomePaths /\ c \in DOMAIN Tmp /\ ~IsDir(Tmp, c) /\ ~IsDir(out, c)
           /\ Len(c) = 1 \/ IsDir(out, Parent(c))
<1> DEFINE c == checked[1]
<1>1. NextToPromote(c) /\ ~IsDir(Tmp, c) /\ ~IsDir(out, c)
  BY DEF ReaderInv, PromoteInv
<1>2. c \in todo /\ \A q \in todo : Len(c) <= Len(q)
  BY <1>1 DEF NextToPromote
<1> HIDE DEF c
<1>3. c \in DOMAIN Tmp /\ c \in SomePaths /\ Tree(Tmp)
  BY <1>2, ToPromote
<1>4. ASSUME Len(c) > 1 PROVE IsDir(out, Parent(c))
  <2> DEFINE q == Parent(c)
  <2>1. IsDir(Tmp, q)
    BY <1>3, <1>4, TreeAbove
  <2>2. Len(q) = Len(c) - 1 /\ Len(c) \in Nat
    BY <1>3, <1>4, ParentAbove
  <2> HIDE DEF q
  <2>3. q \notin todo
    BY <1>2, <2>2
  <2>4. IsDir(out, q)
    BY <2>1, <2>3 DEF ReaderInv, PromoteInv, IsDir
  <2> QED
    BY <2>4 DEF q
<1>5. Len(c) = 1 \/ Len(c) > 1
  BY <1>3, ParentAbove
<1> QED
  BY <1>1, <1>2, <1>3, <1>4, <1>5 DEF c

\* What a step does to the output.
PartlyDropped(t, p) == [q \in {q \in DOMAIN t : ~IsStrictPrefix(p, q)} |-> t[q]]

\* The output remains a tree, action by action.
LEMMA OutStep == ReaderInv /\ [Next]_vars => OutInv'
<1> SUFFICES ASSUME ReaderInv, [Next]_vars PROVE OutInv'
  OBVIOUS
<1>0. OutInv /\ TempInv /\ PromoteInv
  BY DEF ReaderInv
<1>1. ASSUME UNCHANGED <<out, exists>>,
             rpc' \in {"idle", "refused", "failed"} \/ rpc \notin {"idle", "refused", "failed"}
      PROVE  OutInv'
  BY <1>0, <1>1 DEF OutInv
<1>2. ASSUME Tree(out'), exists' = exists, rpc \notin {"idle", "refused", "failed"} PROVE OutInv'
  BY <1>0, <1>2 DEF OutInv
<1>3. CASE UNCHANGED rvars
  BY <1>1, <1>3 DEF rvars, out_vars
<1>4. ASSUME NEW o \in Outputs, NEW dp \in DecryptParams, OpenDecrypt(o, dp) PROVE OutInv'
  <2>0. DOMAIN << >> = {} /\ Tree(<< >>)
    BY DOMAIN << >> = {} DEF Tree
  <2>1. CASE o = << >>
    <3>1. out' = << >>
      BY <1>4, <2>1 DEF OpenDecrypt
    <3>2. rpc' \notin {"idle", "refused", "failed"} => exists'
      BY <1>4, <2>1 DEF OpenDecrypt
    <3> QED
      BY <2>0, <3>1, <3>2 DEF OutInv
  <2>2. CASE o # << >>
    <3>1. out' = o[1] /\ exists'
      BY <1>4, <2>2, Zenon DEF OpenDecrypt
    <3>2. Tree(o[1])
      BY <2>2, OutputsAssumption, Zenon
    <3> QED
      BY <3>1, <3>2 DEF OutInv
  <2> QED
    BY <2>1, <2>2
<1>5. CASE Discover \/ Construct \/ Consume \/ NeedMore \/ Finish \/ PromoteEnd
  BY <1>1, <1>5 DEF Discover, Construct, Consume, NeedMore, Finish, PromoteEnd, out_vars
<1>6. CASE ProcessRecord
  BY <1>1, <1>6 DEF ProcessRecord, BeginArchive, CreateDirectory, BeginFile, WriteFileBytes,
     EndFile, EndArchive, SkipPadding, RejectRecord, Process, out_vars
<1>7. CASE FinishCleanup \/ Unwind
  BY <1>1, <1>7 DEF FinishCleanup, Unwind, out_vars
<1>8. ASSUME NEW p \in todo, PromoteDir(p) PROVE OutInv'
  <2>1. rpc = "promote" /\ exists' = exists
    BY <1>8 DEF PromoteDir
  <2>2. p \in SomePaths /\ p \in Seq(STRING) /\ Tree(out)
    BY <1>0, <2>1, ToPromote DEF OutInv, SomePaths
  <2>3. CASE out' = out
    BY <1>1, <2>1, <2>3
  <2>4. CASE DirsPossible(out, p) /\ out' = MakeDirs(out, p)
    BY <1>2, <2>1, <2>2, <2>4, TreeMake
  <2> QED
    BY <1>8, <2>3, <2>4 DEF PromoteDir, PromoteFails
<1>9. ASSUME NEW p \in todo, PromoteCheck(p) PROVE OutInv'
  <2>1. rpc = "promote" /\ exists' = exists
    BY <1>9 DEF PromoteCheck
  <2>2. p \in SomePaths /\ Tree(out)
    BY <1>0, <2>1, ToPromote DEF OutInv
  <2>3. CASE out' = out
    BY <1>1, <2>1, <2>3
  <2>4. CASE out' = DropTree(out, p)
    BY <1>2, <2>1, <2>2, <2>4, DirsDropped
  <2>5. CASE out' = PartlyDropped(out, p)
    <3>1. /\ DOMAIN out' = {q \in DOMAIN out : ~IsStrictPrefix(p, q)}
          /\ \A q \in DOMAIN out' : out'[q].kind = out[q].kind
      BY <2>5 DEF PartlyDropped
    <3>2. Tree(out')
      BY <2>2, <3>1, TreeDrop
    <3> QED
      BY <1>2, <2>1, <3>2
  <2> QED
    BY <1>9, <2>3, <2>4, <2>5, Zenon DEF PromoteCheck, PromoteFails, PartlyDropped
<1>10. CASE PromoteRename
  <2> DEFINE c == checked[1]
  <2>1. rpc = "rename" /\ exists' = exists
    BY <1>10 DEF PromoteRename
  <2>2. CASE out' = out
    BY <1>1, <2>1, <2>2
  <2>3. CASE out' = PutNode(out, c, Tmp[c])
    <3>1. c \in SomePaths /\ ~IsDir(out, c) /\ (Len(c) = 1 \/ IsDir(out, Parent(c))) /\ Tree(out)
      BY <1>0, <2>1, RenameParent DEF OutInv
    <3> HIDE DEF c
    <3>2. Tree(out')
      BY <2>3, <3>1, TreePut
    <3> QED
      BY <1>2, <2>1, <3>2
  <2> QED
    BY <1>10, <2>2, <2>3 DEF PromoteRename, PromoteFails
<1>11. ASSUME NEW m \in deferred, ApplyMetadata(m) PROVE OutInv'
  <2>1. rpc = "metadata" /\ exists' = exists
    BY <1>11 DEF ApplyMetadata
  <2>2. CASE out' = out
    BY <1>1, <2>1, <2>2
  <2>3. CASE out' # out
    <3>1. out' = [q \in DOMAIN out |-> IF q = NormalPath(m.path)
                                       THEN Node(out[q].kind, out[q].bytes, m.mtime) ELSE out[q]]
      BY <1>11, <2>3 DEF ApplyMetadata
    <3>2. DOMAIN out' = DOMAIN out /\ \A q \in DOMAIN out : out'[q].kind = out[q].kind
      BY <3>1 DEF Node
    <3>3. Tree(out')
      BY <1>0, <3>2, SameKinds DEF OutInv
    <3> QED
      BY <1>2, <2>1, <3>3
  <2> QED
    BY <2>2, <2>3
<1>12. CASE Catch
  BY <1>0, <1>12 DEF Catch, OutInv
<1>13. ASSUME NEW p \in IntruderPaths, Intrude(p) PROVE OutInv'
  <2>1. /\ rpc \notin {"idle", "success", "failed", "refused"} /\ exists' = exists
        /\ p \notin DOMAIN out /\ (Len(p) > 1 => IsDir(out, Parent(p)))
        /\ out' = PutNode(out, p, Node("file", <<8>>, 7))
    BY <1>13 DEF Intrude, IsDir
  <2>2. p \in SomePaths
    BY OutputsAssumption DEF SomePaths
  <2>3. Len(p) = 1 \/ IsDir(out, Parent(p))
    BY <2>1, <2>2, ParentAbove
  <2>4. Tree(out) /\ ~IsDir(out, p)
    BY <1>0, <2>1 DEF OutInv, IsDir
  <2>5. Tree(out')
    BY <2>1, <2>2, <2>3, <2>4, TreePut
  <2> QED
    BY <1>2, <2>1, <2>5
<1> QED
  BY <1>3, <1>4, <1>5, <1>6, <1>7, <1>8, <1>9, <1>10, <1>11, <1>12, <1>13, Zenon
     DEF Next, Decrypt, vars

\* Promotion, action by action.
LEMMA PromoteStep == ReaderInv /\ [Next]_vars => PromoteInv'
<1> SUFFICES ASSUME ReaderInv, [Next]_vars PROVE PromoteInv'
  OBVIOUS
<1>0. OutInv /\ TempInv /\ PromoteInv
  BY DEF ReaderInv
<1>1. ASSUME rpc' \notin {"promote", "rename", "metadata"}, UNCHANGED <<checked, todo>>,
             rpc' \in {"unwind", "catch", "failed"}
                \/ rpc \notin {"rename", "unwind", "catch", "failed"}
      PROVE  PromoteInv'
  BY <1>0, <1>1 DEF PromoteInv
<1>2. ASSUME rpc' \in {"promote", "rename", "metadata"},
             rpc' = rpc \/ (rpc = "promote" /\ todo = {}),
             rpc' # "promote" => rpc' \in {rpc, "metadata"},
             UNCHANGED <<temp, todo, checked>>,
             \A q : IsDir(out, q) => IsDir(out', q),
             rpc = "rename" => ~IsDir(out', checked[1])
      PROVE  PromoteInv'
  <2>1. Tmp' = Tmp /\ (NextToPromote(checked[1]) => NextToPromote(checked[1])')
    BY <1>2 DEF Tmp, NextToPromote
  <2> QED
    BY <1>0, <1>2, <2>1 DEF PromoteInv
<1>3. CASE UNCHANGED rvars
  <2>1. UNCHANGED <<rpc, temp, todo, checked, out>>
    BY <1>3 DEF rvars, tree_vars, out_vars
  <2>2. Tmp' = Tmp /\ (NextToPromote(checked[1]) => NextToPromote(checked[1])')
    BY <2>1 DEF Tmp, NextToPromote
  <2>3. \A q : IsDir(out, q) <=> IsDir(out', q)
    BY <2>1
  <2> QED
    BY <1>0, <2>1, <2>2, <2>3 DEF PromoteInv
<1>4. ASSUME NEW o \in Outputs, NEW dp \in DecryptParams, OpenDecrypt(o, dp) PROVE PromoteInv'
  <2>1. UNCHANGED <<checked, todo>> /\ rpc = "idle" /\ rpc' \in {"refused", "discover", "failed"}
    BY <1>4 DEF OpenDecrypt, tree_vars
  <2> QED
    BY <1>1, <2>1
<1>5. CASE Discover \/ Construct \/ Consume \/ NeedMore
  BY <1>1, <1>5 DEF Discover, Construct, Consume, NeedMore, Throw, tree_vars
<1>6. CASE ProcessRecord
  <2>1. UNCHANGED <<checked, todo>> /\ rpc = "parse" /\ rpc' \in {"parse", "unwind"}
    BY <1>6 DEF ProcessRecord, BeginArchive, CreateDirectory, BeginFile, WriteFileBytes, EndFile,
       EndArchive, SkipPadding, RejectRecord, Process, Throw, tree_vars
  <2> QED
    BY <1>1, <2>1
<1>7. CASE Finish
  <2>1. rpc = "feed" /\ UNCHANGED <<temp, checked>>
    BY <1>7 DEF Finish
  <2>2. CASE rpc' = "unwind" /\ todo' = todo
    BY <1>1, <2>1, <2>2
  <2>3. CASE rpc' = "promote" /\ todo' = DOMAIN Tmp
    <3>1. Tmp' = Tmp /\ checked = << >>
      BY <1>0, <2>1 DEF PromoteInv, Tmp
    <3> QED
      BY <2>1, <2>3, <3>1 DEF PromoteInv
  <2> QED
    BY <1>7, <2>2, <2>3 DEF Finish, Throw
<1>8. CASE PromoteEnd
  <2>1. rpc = "promote" /\ todo = {} /\ UNCHANGED <<temp, todo, checked, out>>
        /\ rpc' \in {"metadata", "unwind"}
    BY <1>8 DEF PromoteEnd, Throw, tree_vars, out_vars
  <2>2. \A q : IsDir(out, q) => IsDir(out', q)
    BY <2>1
  <2> QED
    BY <1>1, <1>2, <2>1, <2>2
<1>9. CASE FinishCleanup \/ Unwind \/ Catch
  BY <1>1, <1>9 DEF FinishCleanup, Unwind, Catch, tree_vars
<1>10. ASSUME NEW p \in todo, PromoteDir(p) PROVE PromoteInv'
  <2>1. rpc = "promote" /\ UNCHANGED <<temp, checked>>
    BY <1>10 DEF PromoteDir, PromoteFails
  <2>2. CASE rpc' = "unwind" /\ todo' = todo
    BY <1>1, <2>1, <2>2
  <2>3. CASE rpc' = rpc /\ DirsPossible(out, p) /\ out' = MakeDirs(out, p) /\ todo' = todo \ {p}
    <3>1. p \in SomePaths /\ p \in Seq(STRING)
      BY <2>1, ToPromote DEF SomePaths
    <3>2. IsDir(out', p)
      BY <2>3, <3>1, OwnAncestor, MakeDirsAt
    <3>3. \A q : IsDir(out, q) => IsDir(out', q)
      BY <2>3, <3>1, DirsMade
    <3>4. Tmp' = Tmp /\ checked = << >>
      BY <1>0, <2>1 DEF Tmp, PromoteInv
    <3> QED
      BY <1>0, <2>1, <2>3, <3>2, <3>3, <3>4 DEF PromoteInv
  <2> QED
    BY <1>10, <2>2, <2>3, Zenon DEF PromoteDir, PromoteFails, Throw
<1>11. ASSUME NEW p \in todo, PromoteCheck(p) PROVE PromoteInv'
  <2>1. rpc = "promote" /\ NextToPromote(p) /\ Tmp[p].kind # "dir" /\ UNCHANGED <<temp, todo>>
    BY <1>11 DEF PromoteCheck, PromoteFails
  <2>2. CASE rpc' = "unwind" /\ checked' = checked
    BY <1>1, <2>1, <2>2
  <2>3. CASE rpc' = "unwind" /\ checked' = <<p>>
    <3>1. checked' = <<checked'[1]>> /\ checked'[1] = p
      BY <2>3
    <3> QED
      BY <2>1, <2>3, <3>1 DEF PromoteInv
  <2>4. CASE rpc' = "rename" /\ checked' = <<p>> /\ out' = DropTree(out, p)
    <3>1. p \in DOMAIN Tmp /\ p \in SomePaths /\ Tree(Tmp) /\ Tree(out) /\ ~IsDir(Tmp, p)
      BY <1>0, <2>1, ToPromote DEF OutInv, IsDir
    <3>2. checked' = <<checked'[1]>> /\ checked'[1] = p /\ checked' # << >> /\ Tmp' = Tmp
      BY <2>1, <2>4 DEF Tmp
    <3>3. ~IsDir(out', p)
      BY <2>4, <3>1, DirsDropped DEF IsDir
    <3>4. ASSUME NEW q \in DOMAIN Tmp \ todo, IsDir(Tmp, q) PROVE IsDir(out', q)
      <4>1. IsDir(out, q)
        BY <1>0, <2>1, <3>4 DEF PromoteInv
      <4>2. ~IsStrictPrefix(p, q) /\ p # q
        BY <3>1, <3>4, TreeAbove
      <4>3. ~IsPrefix(p, q) /\ q \in DOMAIN out
        BY <4>1, <4>2 DEF IsStrictPrefix, IsDir
      <4> QED
        BY <2>4, <3>1, <4>1, <4>3, DirsDropped
    <3>5. NextToPromote(checked[1])'
      BY <2>1, <3>2 DEF NextToPromote
    <3>6. todo \subseteq DOMAIN Tmp
      BY <1>0, <2>1 DEF PromoteInv
    <3> QED
      BY <2>1, <2>4, <3>1, <3>2, <3>3, <3>4, <3>5, <3>6 DEF PromoteInv
  <2> QED
    BY <1>11, <2>2, <2>3, <2>4, Zenon DEF PromoteCheck, PromoteFails, Throw
<1>12. CASE PromoteRename
  <2> DEFINE c == checked[1]
  <2>1. rpc = "rename"
    BY <1>12 DEF PromoteRename
  <2>2. CASE rpc' = "unwind" /\ UNCHANGED <<todo, checked>>
    BY <1>1, <2>1, <2>2
  <2>3. CASE /\ out' = PutNode(out, c, Tmp[c]) /\ temp' = <<DropTree(Tmp, c)>>
             /\ todo' = todo \ {c} /\ checked' = << >> /\ rpc' \in {"promote", "unwind"}
    <3>1. c \in todo /\ c \in SomePaths /\ c \in DOMAIN Tmp /\ ~IsDir(Tmp, c)
      BY <2>1, RenameParent
    <3> DEFINE t == DropTree(Tmp, c)
    <3>2. Tree(Tmp) /\ todo \subseteq DOMAIN Tmp
      BY <1>0, <2>1 DEF TempInv, PromoteInv
    <3>3. /\ \A q : IsDir(t, q) => IsDir(Tmp, q)
          /\ \A q \in DOMAIN Tmp : q # c => q \in DOMAIN t
          /\ c \notin DOMAIN t
      BY <3>1, <3>2, DirsDropped
    <3>4. \A q : IsDir(out, q) /\ q # c => IsDir(out', q)
      BY <2>3, <3>1, DirsPut
    <3>5. DOMAIN t \subseteq DOMAIN Tmp
      BY <3>1, DropTreeAt
    <3>6. Tmp' = t
      BY <2>3 DEF Tmp
    <3> HIDE DEF t, c
    <3>7. ASSUME NEW q \in DOMAIN t \ todo', IsDir(t, q) PROVE IsDir(out', q)
      <4>1. q # c /\ q \in DOMAIN Tmp \ todo /\ IsDir(Tmp, q)
        BY <2>3, <3>3, <3>5, <3>7
      <4>2. IsDir(out, q)
        BY <1>0, <2>1, <4>1 DEF PromoteInv
      <4> QED
        BY <3>4, <4>1, <4>2
    <3>8. todo' \subseteq DOMAIN t
      BY <2>3, <3>2, <3>3
    <3> QED
      BY <2>3, <3>6, <3>7, <3>8 DEF PromoteInv
  <2> QED
    BY <1>12, <2>2, <2>3, Zenon DEF PromoteRename, PromoteFails, Throw
<1>13. ASSUME NEW m \in deferred, ApplyMetadata(m) PROVE PromoteInv'
  <2>1. rpc = "metadata" /\ UNCHANGED <<temp, todo, checked>> /\ rpc' \in {"metadata", "unwind"}
    BY <1>13 DEF ApplyMetadata, Throw
  <2>2. \A q : IsDir(out, q) => IsDir(out', q)
    BY <1>13 DEF ApplyMetadata, IsDir, Node
  <2> QED
    BY <1>1, <1>2, <2>1, <2>2
<1>14. ASSUME NEW p \in IntruderPaths, Intrude(p) PROVE PromoteInv'
  <2>1. /\ p \notin DOMAIN out /\ out' = PutNode(out, p, Node("file", <<8>>, 7))
        /\ UNCHANGED <<rpc, temp, todo, checked>>
    BY <1>14 DEF Intrude, tree_vars
  <2>2. p \in SomePaths /\ Node("file", <<8>>, 7).kind # "dir"
    BY OutputsAssumption DEF SomePaths, Node
  <2>3. \A q : IsDir(out, q) <=> IsDir(out', q)
    BY <2>1, <2>2, DirsPut DEF IsDir
  <2>4. Tmp' = Tmp /\ (NextToPromote(checked[1]) => NextToPromote(checked[1])')
    BY <2>1 DEF Tmp, NextToPromote
  <2> QED
    BY <1>0, <2>1, <2>3, <2>4 DEF PromoteInv
<1> QED
  BY <1>3, <1>4, <1>5, <1>6, <1>7, <1>8, <1>9, <1>10, <1>11, <1>12, <1>13, <1>14, Zenon
     DEF Next, Decrypt, vars

\* The reader's inductive invariant, which rests on the writer's.
LEMMA ReaderInvariant == Spec => []ReaderInv
<1>1. Init => ReaderInv
  <2> SUFFICES ASSUME Init PROVE ReaderInv
    OBVIOUS
  <2>0. /\ DOMAIN << >> = {} /\ Len(<< >>) = 0 /\ Tree(<< >>) /\ Framed(<< >>)
        /\ StreamSize(<< >>) = 0
    <3>1. SumUpTo([i \in DOMAIN << >> |-> EncodedSize(<< >>[i])], 0) = 0
      BY SumStep
    <3>2. DOMAIN << >> = {} /\ Len(<< >>) = 0
      OBVIOUS
    <3> QED
      BY <3>1, <3>2 DEF Tree, Framed, StreamSize
  <2>1. StreamInv
    <3>1. CASE WriterInit /\ cut = 0
      BY <2>0, <3>1 DEF WriterInit, Init, ReaderInit, StreamInv
    <3>2. ASSUME NEW f \in ForeignStreams, ForeignInit(f) PROVE StreamInv
      <4>1. stream = f.records /\ cut = f.cut /\ stage = "written"
        BY <3>2 DEF ForeignInit
      <4>2. /\ Framed(f.records) /\ f.cut \in 0..StreamSize(f.records)
            /\ f.cut > 0 => f.cut < EncodedSize(f.records[Len(f.records)])
        BY ForeignAssumption DEF Framed
      <4> QED
        BY <4>1, <4>2 DEF StreamInv
    <3> QED
      BY <3>1, <3>2 DEF Init
  <2>2. ReaderInit
    BY DEF Init
  <2>3. ProgressInv
    <3>1. Len(stream) \in Nat /\ StreamSize(stream) \in Nat
      BY <2>1, FramedSize DEF StreamInv, Framed
    <3>2. Total \in Nat
      BY <2>1, <3>1 DEF StreamInv, Total
    <3> QED
      BY <2>2, <3>1, <3>2 DEF ReaderInit, ProgressInv
  <2>4. TempInv /\ OutInv /\ PromoteInv
    BY <2>0, <2>2 DEF ReaderInit, TempInv, OutInv, PromoteInv
  <2> QED
    BY <2>1, <2>3, <2>4 DEF ReaderInv
<1>2. LayoutInv /\ ReaderInv /\ [Next]_vars => ReaderInv'
  <2> SUFFICES ASSUME LayoutInv, ReaderInv, [Next]_vars PROVE ReaderInv'
    OBVIOUS
  <2>1. StreamInv'
    BY StreamStep DEF ReaderInv
  <2>2. ProgressInv'
    BY <2>1, ProgressStep DEF ReaderInv
  <2> QED
    BY <2>1, <2>2, TempStep, OutStep, PromoteStep DEF ReaderInv
<1> QED
  BY <1>1, <1>2, LayoutInvariant, PTL DEF Spec

\* Types of the variables of writer and reader: among them, no more is taken
\* from the plaintext than has arrived, the open file is in the temporary tree,
\* only what is in it is promoted, and there is no output without its directory.
THEOREM TypeCorrect == Spec => []TypeOK
<1>1. LayoutInv /\ ReaderInv => TypeOK
  <2> SUFFICES ASSUME LayoutInv, ReaderInv PROVE TypeOK
    OBVIOUS
  <2>1. Len(reading) <= 1
    BY DEF LayoutInv, WriterTyped
  <2>2. StreamSize(stream) \in Nat /\ Len(stream) \in Nat
    BY FramedSize DEF ReaderInv, StreamInv, Framed
  <2>3. Len(checked) <= 1
    BY Len(<< >>) = 0 DEF ReaderInv, PromoteInv
  <2>4. taken <= arrived /\ arrived <= Total /\ records <= Len(stream)
    <3>1. Total \in Int
      BY <2>2 DEF ReaderInv, StreamInv, Total
    <3> QED
      BY <2>2, <3>1 DEF ReaderInv, ProgressInv
  <2> QED
    BY <2>1, <2>3, <2>4 DEF TypeOK, ReaderInv, StreamInv, ProgressInv, TempInv, OutInv, PromoteInv
<1> QED
  BY <1>1, LayoutInvariant, ReaderInvariant, PTL

\* Without --overwrite decryption keeps every file that it did not put into the
\* output itself: for any output, any archive and any other process.
THEOREM FilesKept == Spec => OthersKept
<1> DEFINE Kept == rpc # "idle" /\ ~dparams.overwrite =>
              \A p \in DOMAIN out \ promoted :
                 out[p].kind = "file" /\ checked # <<p>> => p \in DOMAIN out' /\ out'[p] = out[p]
<1>1. ReaderInv /\ [Next]_vars => [Kept]_vars
  <2> SUFFICES ASSUME ReaderInv, [Next]_vars, rpc # "idle", ~dparams.overwrite,
                      NEW q \in DOMAIN out, out[q].kind = "file", checked # <<q>>
               PROVE  q \in DOMAIN out' /\ out'[q] = out[q]
    BY Zenon
  <2>0. OutInv /\ TempInv /\ PromoteInv /\ Tree(out) /\ q # << >> /\ ~IsDir(out, q)
    BY DEF ReaderInv, OutInv, Tree, IsDir
  <2>1. CASE out' = out
    BY <2>1
  <2>2. ASSUME NEW p \in todo, PromoteDir(p), out' # out PROVE q \in DOMAIN out' /\ out'[q] = out[q]
    <3>1. rpc = "promote" /\ DirsPossible(out, p) /\ out' = MakeDirs(out, p)
      BY <2>2 DEF PromoteDir, PromoteFails
    <3>2. p \in Seq(STRING)
      BY <3>1, ToPromote DEF SomePaths
    <3>3. DOMAIN out \subseteq DOMAIN MakeDirs(out, p)
      <4>1. DOMAIN MakeDirs(out, p) = DOMAIN out \cup AndAncestors(p)
        BY <3>1, <3>2, MakeDirsAt
      <4> QED
        BY <4>1
    <3>4. \A r \in DOMAIN out \ {<< >>} : out[r].kind # "dir" => MakeDirs(out, p)[r] = out[r]
      BY <3>1, <3>2, MakeDirsAt
    <3> QED
      BY <2>0, <3>1, <3>3, <3>4 DEF IsDir
  <2>3. ASSUME NEW p \in todo, PromoteCheck(p), out' # out
        PROVE  q \in DOMAIN out' /\ out'[q] = out[q]
    <3>1. rpc = "promote" /\ Tmp[p].kind # "dir"
      BY <2>3 DEF PromoteCheck
    <3>2. DirsPossible(out, Parent(p)) /\ p \notin DOMAIN out /\ out' = DropTree(out, p)
      BY <2>3, Zenon DEF PromoteCheck, PromoteFails, MayReplace
    <3>3. p \in SomePaths
      BY <3>1, ToPromote
    <3>4. q # p /\ ~IsStrictPrefix(p, q)
      BY <2>0, <3>2, <3>3, TreeAbove DEF IsDir
    <3>5. ~IsPrefix(p, q)
      BY <3>4 DEF IsStrictPrefix
    <3>6. q # Parent(p)
      <4> SUFFICES ASSUME q = Parent(p) PROVE FALSE
        OBVIOUS
      <4>1. q \in SomePaths
        BY <2>0, TreeAbove
      <4>2. q \in AndAncestors(Parent(p))
        BY <4>1, OwnAncestor
      <4> QED
        BY <3>2, <4>2 DEF DirsPossible
    <3> QED
      BY <3>2, <3>3, <3>5, <3>6, DropTreeAt
  <2>4. ASSUME PromoteRename, out' # out PROVE q \in DOMAIN out' /\ out'[q] = out[q]
    <3> DEFINE c == checked[1]
    <3>1. rpc = "rename" /\ out' = PutNode(out, c, Tmp[c])
      BY <2>4, Zenon DEF PromoteRename, PromoteFails
    <3>2. c \in SomePaths /\ (Len(c) = 1 \/ IsDir(out, Parent(c)))
      BY <3>1, RenameParent
    <3>3. checked = <<c>>
      BY <2>0, <3>1 DEF PromoteInv
    <3>4. q # c
      BY <3>3
    <3>5. q # Parent(c)
      BY <2>0, <3>2, ParentAbove
    <3> HIDE DEF c
    <3> QED
      BY <3>1, <3>2, <3>4, <3>5, PutNodeAt
  <2>5. ASSUME NEW m \in deferred, ApplyMetadata(m), out' # out
        PROVE  q \in DOMAIN out' /\ out'[q] = out[q]
    <3>1. rpc = "metadata"
          /\ out' = [r \in DOMAIN out |-> IF r = NormalPath(m.path)
                                          THEN Node(out[r].kind, out[r].bytes, m.mtime) ELSE out[r]]
      BY <2>5, Zenon DEF ApplyMetadata
    <3>2. NormalPath(m.path) = << >> \/ IsDir(out, NormalPath(m.path))
      <4>1. NormalPath(m.path) = << >> \/ IsDir(Tmp, NormalPath(m.path))
        BY <2>0, <3>1 DEF TempInv
      <4> QED
        BY <2>0, <3>1, <4>1 DEF PromoteInv, IsDir
    <3>3. q # NormalPath(m.path)
      BY <2>0, <3>2
    <3> QED
      BY <3>1, <3>3
  <2>6. ASSUME NEW p \in IntruderPaths, Intrude(p) PROVE q \in DOMAIN out' /\ out'[q] = out[q]
    <3>1. /\ p \notin DOMAIN out /\ (Len(p) > 1 => IsDir(out, Parent(p)))
          /\ out' = PutNode(out, p, Node("file", <<8>>, 7))
      BY <2>6 DEF Intrude, IsDir
    <3>2. p \in SomePaths
      BY OutputsAssumption DEF SomePaths
    <3>3. q # p /\ q # Parent(p)
      BY <2>0, <3>1, <3>2, ParentAbove
    <3> QED
      BY <3>1, <3>2, <3>3, PutNodeAt
  <2>7. ASSUME out' # out
        PROVE  \/ \E p \in todo : PromoteDir(p) \/ PromoteCheck(p)
               \/ PromoteRename \/ (\E m \in deferred : ApplyMetadata(m))
               \/ \E p \in IntruderPaths : Intrude(p)
    BY <2>7 DEF Next, vars, rvars, Decrypt, OpenDecrypt, Discover, Construct, Consume, NeedMore,
       ProcessRecord, BeginArchive, CreateDirectory, BeginFile, WriteFileBytes, EndFile, EndArchive,
       SkipPadding, RejectRecord, Process, Finish, PromoteEnd, FinishCleanup, Unwind, Catch,
       out_vars
  <2> QED
    BY <2>1, <2>2, <2>3, <2>4, <2>5, <2>6, <2>7, Zenon
<1> QED
  BY <1>1, ReaderInvariant, PTL DEF Spec, OthersKept
=============================================================================
