--------------------------- MODULE DownloadProofs ---------------------------
(***************************************************************************)
(* What the runs of Download check on two small instances, for every value *)
(* of the constants: the piece store never takes wrong data from a         *)
(* recovery, the row of the read quota never says that more was read than  *)
(* the bucket was ever granted, and a client receives the bytes it asked   *)
(* for.                                                                    *)
(***************************************************************************)
EXTENDS Download, FiniteSetTheorems, TLAPS

----------------------------------------------------------------------------
(* The piece store *)

StoreInv == store \in [Pieces -> {"good", "lost"}]

\* The recovery writes good data or nothing, and the other steps leave the store alone.
LEMMA StoreStep ==
  ASSUME StoreInv, RecoveryNext
  PROVE  StoreInv'
<1>1. CASE UNCHANGED store
  BY <1>1, Zenon DEF StoreInv
<1>2. ASSUME NEW e \in Executors, StoreRecovered(e)
      PROVE  StoreInv'
  BY <1>2, Zenon DEF StoreInv, StoreRecovered
<1>3. ASSUME NEW p \in Pieces, LosePiece(p)
      PROVE  StoreInv'
  BY <1>3, Zenon DEF StoreInv, LosePiece
<1>4. ASSUME NEW e \in Executors, DispatchRecovery(e) \/ ExecutorStep(e) \/ LoseRecovery(e)
      PROVE  StoreRecovered(e) \/ UNCHANGED store
  <2>1. CASE DispatchRecovery(e)
    BY <2>1, Zenon DEF DispatchRecovery
  <2>2. CASE LoseRecovery(e)
    BY <2>2, Zenon DEF LoseRecovery
  <2>3. CASE ExecutorStep(e)
    BY <2>3, Zenon
    DEF ExecutorStep, AskRecovery, RecoverSegment, RecoverECPiece, doRecoveryPiece, CountDown,
        RecvDone, RecvQuit, Decode, ReportRecovered, ReportFailed, PushRecoveryAgain, ReportSilent
  <2> QED
    BY <1>4, <2>1, <2>2, <2>3, Zenon
<1>5. ASSUME NEW k \in DOMAIN rqueue, RecoveryLate(k)
      PROVE  UNCHANGED store
  BY <1>5, Zenon DEF RecoveryLate
<1> QED
  BY <1>1, <1>2, <1>3, <1>4, <1>5, Zenon DEF RecoveryNext

----------------------------------------------------------------------------
(* Pieces and ranges *)

\* Multiplication by the size of a segment keeps the order.
LEMMA SegmentsInOrder ==
  ASSUME NEW i \in Int, NEW j \in Int, i <= j
  PROVE  i * MaxSegmentSize <= j * MaxSegmentSize
  BY SizeAssumption

\* A byte is in the segment its position divided by the size names.
LEMMA SegmentOfByte ==
  ASSUME NEW n \in Nat
  PROVE  /\ n \div MaxSegmentSize \in Nat
         /\ (n \div MaxSegmentSize) * MaxSegmentSize <= n
         /\ n < (n \div MaxSegmentSize + 1) * MaxSegmentSize
  BY SizeAssumption

\* ... and in no other.
LEMMA OneSegment ==
  ASSUME NEW n \in Nat, NEW s \in Nat,
         s * MaxSegmentSize <= n, n < (s + 1) * MaxSegmentSize
  PROVE  s = n \div MaxSegmentSize
<1> DEFINE d == n \div MaxSegmentSize
<1>1. d \in Nat /\ d * MaxSegmentSize <= n /\ n < (d + 1) * MaxSegmentSize
  BY SegmentOfByte, Zenon
<1> HIDE DEF d
<1>2. MaxSegmentSize \in Nat
  BY SizeAssumption, Zenon
<1>3. ~ s + 1 <= d
  BY <1>1, <1>2, SegmentsInOrder
<1>4. ~ d + 1 <= s
  BY <1>1, <1>2, SegmentsInOrder
<1>5. s = d
  BY <1>1, <1>3, <1>4
<1> QED
  BY <1>5, Zenon DEF d

\* SegmentPieceCount rounds up: the segments are those that start before the end.
LEMMA SegmentsOfObject ==
  ASSUME NEW s \in Nat
  PROVE  s \in Segments <=> s * MaxSegmentSize < PayloadSize
<1> DEFINE q == PayloadSize \div MaxSegmentSize
<1>1. q \in Nat /\ q * MaxSegmentSize <= PayloadSize /\ PayloadSize < (q + 1) * MaxSegmentSize
  BY SegmentOfByte, SizeAssumption, Zenon
<1>2. PayloadSize % MaxSegmentSize = PayloadSize - q * MaxSegmentSize
  BY SizeAssumption
<1>3. MaxSegmentSize \in Nat /\ PayloadSize \in Nat
  BY SizeAssumption, Zenon
<1>4. SegmentPieceCount = IF q * MaxSegmentSize < PayloadSize THEN q + 1 ELSE q
  BY <1>1, <1>2, <1>3 DEF SegmentPieceCount
<1> HIDE DEF q
<1>5. CASE s <= q
  BY <1>1, <1>3, <1>4, <1>5, SegmentsInOrder, SizeAssumption
<1>6. CASE q + 1 <= s
  BY <1>1, <1>3, <1>4, <1>6, SegmentsInOrder, SizeAssumption
<1> QED
  BY <1>1, <1>5, <1>6

\* A range that getObjectHandler accepts.
GoodRange(low, high) == low \in Nat /\ high \in Nat /\ low <= high /\ high < PayloadSize

First(low) == low \div MaxSegmentSize
Last(high) == high \div MaxSegmentSize

\* The loop of SplitToSegmentPieceInfos takes the segments from the one with the first
\* byte to the one with the last.
LEMMA TakenIsInterval ==
  ASSUME NEW low, NEW high, GoodRange(low, high)
  PROVE  Taken(low, high) = First(low) .. Last(high)
<1> DEFINE f == First(low)
           l == Last(high)
           M == MaxSegmentSize
<1>0. /\ low \in Nat /\ high \in Nat /\ low <= high /\ high < PayloadSize
      /\ M \in Nat /\ M > 0 /\ PayloadSize \in Nat
  BY SizeAssumption DEF GoodRange
<1>1. f \in Nat /\ f * M <= low /\ low < (f + 1) * M
  BY <1>0, SegmentOfByte, Zenon DEF First
<1>2. l \in Nat /\ l * M <= high /\ high < (l + 1) * M
  BY <1>0, SegmentOfByte, Zenon DEF Last
<1>3. \A s \in Segments : s \in Nat
  BY SizeAssumption
<1>4. \A s \in Nat : End(s) = (s + 1) * M - 1 /\ End(s) \in Int
  BY <1>0 DEF End
<1>5. /\ \A i, j \in Int : i <= j => i * M <= j * M
      /\ \A i \in Int : i * M \in Int
  BY <1>0, SegmentsInOrder
<1>6. \A s \in Nat : s \in Segments <=> s * M < PayloadSize
  BY SegmentsOfObject, Zenon
<1> HIDE DEF f, l, M
<1>7. \A s \in Nat : low <= End(s) <=> f <= s
  <2> SUFFICES ASSUME NEW s \in Nat
               PROVE  low <= End(s) <=> f <= s
    BY Zenon
  <2>0. /\ End(s) = (s + 1) * M - 1 /\ (s + 1) * M \in Int
        /\ f * M \in Int /\ (f + 1) * M \in Int
    BY <1>1, <1>4, <1>5
  <2>1. CASE f <= s
    <3>1. (f + 1) * M <= (s + 1) * M
      BY <1>1, <1>5, <2>1
    <3> QED
      BY <1>0, <1>1, <2>0, <2>1, <3>1
  <2>2. CASE s + 1 <= f
    <3>1. (s + 1) * M <= f * M
      BY <1>1, <1>5, <2>2
    <3> QED
      BY <1>0, <1>1, <2>0, <2>2, <3>1
  <2> QED
    BY <1>1, <2>1, <2>2
<1>8. \A s \in Nat : high > End(s) <=> s < l
  <2> SUFFICES ASSUME NEW s \in Nat
               PROVE  high > End(s) <=> s < l
    BY Zenon
  <2>0. /\ End(s) = (s + 1) * M - 1 /\ (s + 1) * M \in Int
        /\ l * M \in Int /\ (l + 1) * M \in Int
    BY <1>2, <1>4, <1>5
  <2>1. CASE l <= s
    <3>1. (l + 1) * M <= (s + 1) * M
      BY <1>2, <1>5, <2>1
    <3> QED
      BY <1>0, <1>2, <2>0, <2>1, <3>1
  <2>2. CASE s + 1 <= l
    <3>1. (s + 1) * M <= l * M
      BY <1>2, <1>5, <2>2
    <3> QED
      BY <1>0, <1>2, <2>0, <2>2, <3>1
  <2> QED
    BY <1>2, <2>1, <2>2
<1>9. f <= l
  <2>1. CASE l + 1 <= f
    <3>1. (l + 1) * M <= f * M
      BY <1>1, <1>2, <1>5, <2>1
    <3> QED
      BY <1>0, <1>1, <1>2, <3>1
  <2> QED
    BY <1>1, <1>2, <2>1
<1>10. ASSUME NEW s \in Taken(low, high)
       PROVE  s \in f .. l
  <2>1. s \in Segments /\ s \in Nat /\ f <= s
    BY <1>3, <1>7, <1>10, Zenon DEF Taken
  <2>2. CASE s <= f
    BY <1>1, <1>2, <1>9, <2>1, <2>2
  <2>3. CASE f < s
    <3>1. s - 1 \in Nat /\ f <= s - 1
      BY <1>1, <2>1, <2>3
    <3>2. s - 1 \in Segments
      <4>1. (s - 1) * M <= s * M /\ s * M < PayloadSize
        BY <1>5, <1>6, <2>1
      <4>2. (s - 1) * M < PayloadSize
        BY <1>0, <1>5, <2>1, <4>1
      <4> QED
        BY <1>6, <3>1, <4>2, Zenon
    <3>3. low > End(s - 1) \/ high > End(s - 1)
      BY <2>1, <3>1, <3>2, <1>10 DEF Taken
    <3>4. s - 1 < l
      BY <1>0, <1>4, <1>7, <1>8, <3>1, <3>3
    <3> QED
      BY <1>1, <1>2, <2>1, <3>4
  <2> QED
    BY <1>1, <2>1, <2>2, <2>3
<1>11. ASSUME NEW s \in f .. l
       PROVE  s \in Taken(low, high)
  <2>1. s \in Nat /\ f <= s /\ s <= l
    BY <1>1, <1>2
  <2>2. s * M <= l * M
    BY <1>2, <1>5, <2>1
  <2>3. s \in Segments
    BY <1>0, <1>2, <1>6, <2>1, <2>2
  <2>4. \A t \in Segments : t < s => high > End(t)
    BY <1>2, <1>3, <1>8, <2>1
  <2> QED
    BY <1>7, <2>1, <2>3, <2>4, Zenon DEF Taken
<1>12. Taken(low, high) = f .. l
  BY <1>10, <1>11, Zenon
<1> QED
  BY <1>12, Zenon DEF f, l

\* The position of the first byte of the i-th piece, and of the byte after its last.
From(low, i) == IF i = 1 THEN low ELSE (First(low) + i - 1) * MaxSegmentSize
Count(low, high) == Last(high) - First(low) + 1
To(low, high, i) == IF i = Count(low, high) THEN high ELSE From(low, i + 1) - 1

LEMMA MinOfInterval ==
  ASSUME NEW a \in Int, NEW b \in Int, a <= b
  PROVE  Min(a .. b) = a
<1>1. a \in a .. b /\ \A y \in a .. b : a <= y
  OBVIOUS
<1>2. \A x \in a .. b : (\A y \in a .. b : x <= y) => x = a
  OBVIOUS
<1> QED
  BY <1>1, <1>2, Zenon DEF Min

\* The pieces of a range lie one behind the other, from its first byte to its last.
LEMMA PiecesOfRange ==
  ASSUME NEW low, NEW high, GoodRange(low, high)
  PROVE  LET infos == SplitToSegmentPieceInfos(low, high)
         IN  /\ Count(low, high) \in Nat \ {0}
             /\ Len(infos) = Count(low, high)
             /\ \A i \in 1 .. Count(low, high) :
                  /\ From(low, i) \in Nat /\ To(low, high, i) \in Nat
                  /\ low <= From(low, i) /\ From(low, i) <= To(low, high, i)
                  /\ To(low, high, i) <= high
                  /\ infos[i].piece \in Nat /\ infos[i].offset \in Nat
                  /\ infos[i].length = To(low, high, i) - From(low, i) + 1
                  /\ infos[i].piece * MaxSegmentSize + infos[i].offset = From(low, i)
<1> DEFINE f == First(low)
           l == Last(high)
           M == MaxSegmentSize
           infos == SplitToSegmentPieceInfos(low, high)
<1>0. /\ low \in Nat /\ high \in Nat /\ low <= high /\ high < PayloadSize
      /\ M \in Nat /\ M > 0
  BY SizeAssumption DEF GoodRange
<1>1. f \in Nat /\ f * M <= low /\ low < (f + 1) * M
  BY <1>0, SegmentOfByte, Zenon DEF First
<1>2. l \in Nat /\ l * M <= high /\ high < (l + 1) * M
  BY <1>0, SegmentOfByte, Zenon DEF Last
<1>3. Taken(low, high) = f .. l
  BY TakenIsInterval, Zenon
<1>4. \A i, j \in Int : i <= j => i * M <= j * M
  BY SegmentsInOrder, Zenon
<1>e. \A t \in Nat : End(t) = (t + 1) * M - 1
  BY Zenon DEF End
<1>5. f <= l
  <2>1. CASE l + 1 <= f
    <3>1. (l + 1) * M <= f * M
      BY <1>1, <1>2, <1>4, <2>1
    <3> QED
      BY <1>0, <1>1, <1>2, <3>1
  <2> QED
    BY <1>1, <1>2, <2>1
<1>6. Count(low, high) = l - f + 1 /\ Count(low, high) \in Nat \ {0}
  BY <1>1, <1>2, <1>5 DEF Count
<1>7. Min(f .. l) = f /\ Cardinality(f .. l) = l - f + 1
  BY <1>1, <1>2, <1>5, MinOfInterval, FS_Interval
<1>8. infos = [i \in 1 .. Count(low, high) |-> SegmentPieceInfo(f + i - 1, low, high)]
  BY <1>3, <1>6, <1>7, Zenon DEF SplitToSegmentPieceInfos
<1> HIDE DEF infos
<1>9. Len(infos) = Count(low, high)
  BY <1>6, <1>8
<1>10. ASSUME NEW i \in 1 .. Count(low, high)
       PROVE  /\ From(low, i) \in Nat /\ To(low, high, i) \in Nat
              /\ low <= From(low, i) /\ From(low, i) <= To(low, high, i)
              /\ To(low, high, i) <= high
              /\ infos[i].piece \in Nat /\ infos[i].offset \in Nat
              /\ infos[i].length = To(low, high, i) - From(low, i) + 1
              /\ infos[i].piece * MaxSegmentSize + infos[i].offset = From(low, i)
  <2> DEFINE s == f + i - 1
  <2>1. s \in Nat /\ f <= s /\ s <= l /\ (s = f <=> i = 1) /\ (s = l <=> i = Count(low, high))
    BY <1>1, <1>2, <1>6
  <2>2. /\ From(low, i) = IF s = f THEN low ELSE s * M
        /\ To(low, high, i) = IF s = l THEN high ELSE (s + 1) * M - 1
    BY <1>0, <1>1, <1>2, <1>6, <2>1 DEF From, To
  <2>3. infos[i] = SegmentPieceInfo(s, low, high)
    BY <1>8, Zenon
  <2> HIDE DEF s, f, l, M
  <2>4. f * M <= s * M /\ s * M \in Nat /\ (s + 1) * M = s * M + M
    BY <1>0, <1>1, <1>4, <2>1
  <2>5. s # f => (f + 1) * M <= s * M
    BY <1>1, <1>4, <2>1
  <2>6. s # l => (s + 1) * M <= l * M
    BY <1>2, <1>4, <2>1
  <2>7. /\ f * M \in Nat /\ l * M \in Nat
        /\ (f + 1) * M = f * M + M /\ (l + 1) * M = l * M + M
    BY <1>0, <1>1, <1>2
  <2>8. s * M <= l * M
    BY <1>2, <1>4, <2>1
  <2> DEFINE from == IF low > s * M THEN low ELSE s * M
             to == IF high <= End(s) THEN high ELSE End(s)
  <2>9. infos[i] = [piece |-> s, offset |-> from - s * M, length |-> to - from + 1]
    BY <2>3, Zenon DEF SegmentPieceInfo, M
  <2>10. End(s) = s * M + M - 1
    BY <1>0, <1>e, <2>1, <2>4
  <2>11. from = From(low, i) /\ from \in Nat /\ low <= from /\ s * M <= from
    BY <1>0, <1>1, <2>2, <2>4, <2>5, <2>7
  <2>12. to = To(low, high, i) /\ to \in Nat /\ to <= high
    BY <1>0, <1>2, <2>2, <2>4, <2>6, <2>7, <2>8, <2>10
  <2>13. from <= to
    <3>1. from <= high
      BY <1>0, <1>2, <2>4, <2>7, <2>8
    <3>2. from <= End(s)
      BY <1>0, <1>1, <2>2, <2>4, <2>7, <2>10, <2>11
    <3> QED
      BY <3>1, <3>2, Zenon
  <2> HIDE DEF from, to
  <2>14. /\ infos[i].piece = s /\ infos[i].offset = from - s * M
         /\ infos[i].length = to - from + 1
    BY <2>9
  <2>15. from - s * M \in Nat /\ s * M + (from - s * M) = from
    BY <2>4, <2>11
  <2> QED
    BY <2>1, <2>11, <2>12, <2>13, <2>14, <2>15, Zenon DEF M
<1> QED
  BY <1>6, <1>9, <1>10, Zenon DEF infos

----------------------------------------------------------------------------
(* The bytes of a range *)

\* What the provers know of sequences, as facts to cite.
LEMMA ConcatFacts ==
  ASSUME NEW s \in Seq(Int), NEW t \in Seq(Int)
  PROVE  /\ s \o t \in Seq(Int)
         /\ Len(s \o t) = Len(s) + Len(t)
         /\ \A i \in 1 .. Len(s) + Len(t) :
              (s \o t)[i] = IF i <= Len(s) THEN s[i] ELSE t[i - Len(s)]
  OBVIOUS

LEMMA SameElements ==
  ASSUME NEW s \in Seq(Int), NEW t \in Seq(Int), Len(s) = Len(t),
         \A i \in 1 .. Len(s) : s[i] = t[i]
  PROVE  s = t
  OBVIOUS

LEMMA PrefixFacts ==
  ASSUME NEW s \in Seq(Int), NEW n \in 0 .. Len(s)
  PROVE  /\ SubSeq(s, 1, n) \in Seq(Int)
         /\ Len(SubSeq(s, 1, n)) = n
         /\ \A i \in 1 .. n : SubSeq(s, 1, n)[i] = s[i]
  OBVIOUS

LEMMA WholeSeq ==
  ASSUME NEW s \in Seq(Int)
  PROVE  SubSeq(s, 1, Len(s)) = s
  OBVIOUS

LEMMA SuffixSeq ==
  ASSUME NEW s \in Seq(Int), NEW n \in Nat
  PROVE  SubSeq(s, n + 1, Len(s)) \in Seq(Int)
  OBVIOUS

LEMMA BytesSeq ==
  ASSUME NEW a \in Int, NEW b \in Int, a <= b + 1
  PROVE  /\ Bytes(a, b) \in Seq(Int)
         /\ Len(Bytes(a, b)) = b - a + 1
         /\ \A i \in 1 .. b - a + 1 : Bytes(a, b)[i] = a + i - 1
<1>1. b - a + 1 \in Nat
  OBVIOUS
<1> QED
  BY <1>1 DEF Bytes

LEMMA BytesEmpty ==
  ASSUME NEW a \in Int
  PROVE  Bytes(a, a - 1) = <<>>
<1>1. Bytes(a, a - 1) \in Seq(Int) /\ Len(Bytes(a, a - 1)) = 0
  BY BytesSeq
<1> QED
  BY <1>1

\* Bytes that follow one another.
LEMMA BytesConcat ==
  ASSUME NEW a \in Int, NEW b \in Int, NEW c \in Int, a <= b + 1, b <= c
  PROVE  Bytes(a, b) \o Bytes(b + 1, c) = Bytes(a, c)
<1> DEFINE x == Bytes(a, b)
           y == Bytes(b + 1, c)
           z == Bytes(a, c)
<1>1. /\ x \in Seq(Int) /\ Len(x) = b - a + 1
      /\ \A i \in 1 .. b - a + 1 : x[i] = a + i - 1
  BY BytesSeq, Zenon
<1>2. /\ y \in Seq(Int) /\ Len(y) = c - b
      /\ \A i \in 1 .. c - b : y[i] = b + i
  <2>1. b + 1 \in Int /\ b + 1 <= c + 1 /\ c - (b + 1) + 1 = c - b
    OBVIOUS
  <2>2. /\ y \in Seq(Int) /\ Len(y) = c - (b + 1) + 1
        /\ \A i \in 1 .. c - (b + 1) + 1 : y[i] = b + 1 + i - 1
    BY <2>1, BytesSeq, Zenon
  <2> HIDE DEF y
  <2> QED
    BY <2>1, <2>2
<1>3. /\ z \in Seq(Int) /\ Len(z) = c - a + 1
      /\ \A i \in 1 .. c - a + 1 : z[i] = a + i - 1
  <2>1. a <= c + 1
    OBVIOUS
  <2> QED
    BY <2>1, BytesSeq, Zenon
<1> HIDE DEF x, y, z
<1>4. /\ x \o y \in Seq(Int) /\ Len(x \o y) = c - a + 1
      /\ \A i \in 1 .. c - a + 1 :
           (x \o y)[i] = IF i <= b - a + 1 THEN x[i] ELSE y[i - (b - a + 1)]
  <2>1. Len(x) + Len(y) = c - a + 1
    BY <1>1, <1>2
  <2>2. /\ x \o y \in Seq(Int) /\ Len(x \o y) = Len(x) + Len(y)
        /\ \A i \in 1 .. Len(x) + Len(y) :
             (x \o y)[i] = IF i <= Len(x) THEN x[i] ELSE y[i - Len(x)]
    BY <1>1, <1>2, ConcatFacts, Zenon
  <2> QED
    BY <1>1, <2>1, <2>2, Zenon
<1>5. ASSUME NEW i \in 1 .. c - a + 1
      PROVE  (x \o y)[i] = z[i]
  <2>1. CASE i <= b - a + 1
    BY <1>1, <1>3, <1>4, <2>1
  <2>2. CASE i > b - a + 1
    <3>1. i - (b - a + 1) \in 1 .. c - b
      BY <2>2
    <3>2. (x \o y)[i] = y[i - (b - a + 1)]
      BY <1>4, <2>2
    <3>3. y[i - (b - a + 1)] = b + (i - (b - a + 1))
      BY <1>2, <3>1, Zenon
    <3> QED
      BY <1>3, <3>2, <3>3
  <2>3. i <= b - a + 1 \/ i > b - a + 1
    OBVIOUS
  <2> QED
    BY <2>1, <2>2, <2>3, Zenon
<1>6. x \o y = z
  BY <1>3, <1>4, <1>5, SameElements, Zenon
<1> QED
  BY <1>6, Zenon DEF x, y, z

LEMMA BytesPrefix ==
  ASSUME NEW a \in Int, NEW b \in Int, NEW c \in Int, a <= b + 1, b <= c
  PROVE  SubSeq(Bytes(a, c), 1, b - a + 1) = Bytes(a, b)
<1> DEFINE x == Bytes(a, b)
           z == Bytes(a, c)
           n == b - a + 1
<1>1. /\ x \in Seq(Int) /\ Len(x) = n
      /\ \A i \in 1 .. n : x[i] = a + i - 1
  BY BytesSeq, Zenon
<1>2. /\ z \in Seq(Int) /\ Len(z) = c - a + 1
      /\ \A i \in 1 .. c - a + 1 : z[i] = a + i - 1
  <2>1. a <= c + 1
    OBVIOUS
  <2> QED
    BY <2>1, BytesSeq, Zenon
<1>3. n \in Nat /\ \A i \in 1 .. n : i \in 1 .. c - a + 1
  OBVIOUS
<1> HIDE DEF x, z, n
<1>4. n \in 0 .. Len(z)
  BY <1>2 DEF n
<1>5. /\ SubSeq(z, 1, n) \in Seq(Int) /\ Len(SubSeq(z, 1, n)) = n
      /\ \A i \in 1 .. n : SubSeq(z, 1, n)[i] = z[i]
  BY <1>2, <1>4, PrefixFacts, Zenon
<1>6. \A i \in 1 .. n : SubSeq(z, 1, n)[i] = x[i]
  BY <1>1, <1>2, <1>3, <1>5, Zenon
<1>7. SubSeq(z, 1, n) = x
  BY <1>1, <1>5, <1>6, SameElements, Zenon
<1> QED
  BY <1>7, Zenon DEF x, z, n

----------------------------------------------------------------------------
(* The inductive invariant *)

Row == [consumed : Int, quota : Int]

\* A request for a range before its end, and a challenge before its end.
RangePcs ==
  {"call", "row", "insert", "update", "check", "record", "gate", "refused", "fetch", "report",
   "wait", "short", "aborted"}
ChallengePcs == {"challenge", "answer", "unanswered"}
Pcs == RangePcs \cup ChallengePcs \cup {"new", "done", "error"}

RequestType ==
  [pc : Pcs, ask : Asks \cup {[kind |-> "none"]}, idx : Nat, again : BOOLEAN, ticks : Nat,
   quota : Nat, seen : Row, body : Seq(Int), cut : BOOLEAN]

RangeKinds == {"object", "universal"}
RangeAsk(a) == a \in Asks /\ a.kind \in RangeKinds /\ GoodRange(a.low, High(a))

\* Before its end a request has received the bytes before the piece that it reads ...
Reading(q) ==
  /\ RangeAsk(q.ask)
  /\ q.idx \in 1 .. Count(q.ask.low, High(q.ask))
  /\ ~q.cut => q.body = Bytes(q.ask.low, From(q.ask.low, q.idx) - 1)

\* ... and at its end all.
Complete(q) ==
  RangeAsk(q.ask) /\ (~q.cut => q.body = Bytes(q.ask.low, High(q.ask)))

RequestInv(q) ==
  /\ q.pc = "new" => q.ask.kind = "none"
  /\ q.pc \in ChallengePcs => q.ask.kind = "challenge"
  /\ q.pc \in RangePcs => Reading(q)
  /\ q.pc = "done" => Complete(q) \/ q.ask.kind = "challenge"

QuotaInv ==
  /\ charged \in Nat /\ granted \in Nat /\ charged + FreeQuota <= granted
  /\ traffic \in Row /\ ConsumedWithinGrant

RequestsInv ==
  /\ req \in [Requests -> RequestType]
  /\ \A r \in Requests : req[r].quota <= granted /\ RequestInv(req[r])

ReadInv == QuotaInv /\ RequestsInv

\* What a step of the request r leaves alone.
Kept(r) ==
  /\ req' \in [Requests -> RequestType]
  /\ \A x \in Requests \ {r} : req'[x] = req[x]

Same(q, p) ==
  /\ p.ask = q.ask /\ p.idx = q.idx /\ p.quota = q.quota /\ p.body = q.body /\ p.cut = q.cut

LEMMA OneRequest ==
  ASSUME RequestsInv, NEW r \in Requests, Kept(r), granted' = granted,
         req'[r].quota <= granted, RequestInv(req'[r])
  PROVE  RequestsInv'
<1>1. ASSUME NEW x \in Requests
      PROVE  req'[x].quota <= granted /\ RequestInv(req'[x])
  <2>1. CASE x = r
    BY <2>1, Zenon
  <2>2. CASE x # r
    <3>1. req'[x] = req[x]
      BY <2>2, Zenon DEF Kept
    <3> QED
      BY <3>1, Zenon DEF RequestsInv
  <2> QED
    BY <2>1, <2>2, Zenon
<1>2. req' \in [Requests -> RequestType]
  BY Zenon DEF Kept
<1> QED
  BY <1>1, <1>2, Zenon DEF RequestsInv, RequestInv, Reading, Complete

\* A request for a range that goes on, without anything written, or fails.
LEMMA RangeMove ==
  ASSUME RequestsInv, NEW r \in Requests, Kept(r), granted' = granted,
         req[r].pc \in RangePcs, req'[r].pc \in RangePcs \cup {"error"},
         Same(req[r], req'[r])
  PROVE  RequestsInv'
<1>1. Reading(req[r]) /\ req[r].quota <= granted
  BY Zenon DEF RequestsInv, RequestInv
<1>2. Reading(req'[r]) /\ req'[r].quota <= granted
  BY <1>1, Zenon DEF Reading, Same
<1>3. req'[r].pc # "new" /\ req'[r].pc \notin ChallengePcs /\ req'[r].pc # "done"
  BY Zenon DEF RangePcs, ChallengePcs
<1>4. RequestInv(req'[r])
  BY <1>2, <1>3, Zenon DEF RequestInv
<1> QED
  BY <1>2, <1>4, OneRequest, Zenon

LEMMA GotoKeeps ==
  ASSUME RequestsInv, NEW r \in Requests, NEW pc \in Pcs, Goto(r, pc)
  PROVE  Kept(r) /\ Same(req[r], req'[r]) /\ req'[r].pc = pc
<1> DEFINE q == req[r]
           v == [q EXCEPT !.pc = pc]
<1>1. req \in [Requests -> RequestType] /\ q \in RequestType
  BY Zenon DEF RequestsInv
<1>2. req' = [req EXCEPT ![r] = v]
  BY DEF Goto
<1> HIDE DEF q
<1>3. v \in RequestType
  BY <1>1 DEF RequestType
<1>4. Same(q, v) /\ v.pc = pc
  BY <1>1 DEF RequestType, Same
<1> HIDE DEF v
<1>5. Kept(r) /\ req'[r] = v
  BY <1>1, <1>2, <1>3, Zenon DEF Kept
<1> QED
  BY <1>4, <1>5, Zenon DEF q

\* The steps that only move a request for a range.
LEMMA GotoStep ==
  ASSUME RequestsInv, NEW r \in Requests, NEW pc, Goto(r, pc), granted' = granted,
         req[r].pc \in RangePcs, pc \in RangePcs \cup {"error"}
  PROVE  RequestsInv'
<1>1. pc \in Pcs
  BY Zenon DEF Pcs
<1>2. Kept(r) /\ Same(req[r], req'[r]) /\ req'[r].pc = pc
  BY <1>1, GotoKeeps, Zenon
<1> QED
  BY <1>2, RangeMove, Zenon

LEMMA FailurePc ==
  ASSUME NEW r \in Requests
  PROVE  AfterFailure(r) \in RangePcs \cup {"error"}
  BY Zenon DEF AfterFailure, RangePcs

\* The heads of the handlers.
LEMMA BeginStep ==
  ASSUME ReadInv, NEW r \in Requests, NEW a \in Asks, granted' = granted,
         getObject(r, a) \/ getObjectByUniversalEndpoint(r, a) \/ getChallengeInfo(r, a)
  PROVE  RequestsInv'
<1> DEFINE q(pc) == [NoRequest EXCEPT !.pc = pc, !.ask = a, !.idx = 1,
                                      !.quota = charged + FreeQuota]
<1>1. req \in [Requests -> RequestType]
  BY Zenon DEF ReadInv, RequestsInv
<1>2. /\ charged + FreeQuota \in Nat /\ charged + FreeQuota <= granted
  BY QuotaAssumption DEF ReadInv, QuotaInv
<1>3. PICK pc \in {"error", "call", "challenge"} :
        /\ req' = [req EXCEPT ![r] = q(pc)]
        /\ pc = "call" => a.kind \in RangeKinds /\ (a.kind = "universal" \/ ValidRange(a))
        /\ pc = "challenge" => a.kind = "challenge"
  BY Zenon
  DEF getObject, getObjectByUniversalEndpoint, getChallengeInfo, Begin, RangeKinds
<1>4. /\ q(pc).pc = pc /\ q(pc).ask = a /\ q(pc).idx = 1 /\ q(pc).body = <<>>
      /\ q(pc).quota = charged + FreeQuota /\ q(pc) \in RequestType
  <2>1. NoRow \in Row
    BY DEF NoRow, Row
  <2>2. pc \in Pcs
    BY Zenon DEF Pcs, RangePcs, ChallengePcs
  <2>3. <<>> \in Seq(Int)
    OBVIOUS
  <2> QED
    BY <1>2, <2>1, <2>2, <2>3, Zenon DEF NoRequest, RequestType
<1> HIDE DEF q
<1>5. Kept(r) /\ req'[r] = q(pc)
  BY <1>1, <1>3, <1>4, Zenon DEF Kept
<1>6. pc = "call" => Reading(q(pc))
  <2> SUFFICES ASSUME pc = "call"
               PROVE  Reading(q(pc))
    BY Zenon
  <2>1. a.low \in Nat /\ a.high \in Int /\ (a.kind = "universal" => a.low = 0 /\ a.high = -1)
    BY <1>3, AsksAssumption DEF RangeKinds
  <2>2. GoodRange(a.low, High(a))
    BY <1>3, <2>1, SizeAssumption DEF GoodRange, High, ValidRange
  <2>3. 1 \in 1 .. Count(a.low, High(a))
    BY <2>2, PiecesOfRange
  <2>4. From(a.low, 1) - 1 = a.low - 1 /\ Bytes(a.low, a.low - 1) = <<>>
    BY <2>1, BytesEmpty DEF From
  <2>5. RangeAsk(a)
    BY <1>3, <2>2, Zenon DEF RangeAsk
  <2> QED
    BY <1>4, <2>3, <2>4, <2>5, Zenon DEF Reading
<1>7. pc \notin {"new", "done"} /\ (pc \in ChallengePcs => pc = "challenge")
      /\ (pc \in RangePcs => pc = "call")
  BY Zenon DEF ChallengePcs, RangePcs
<1>8. RequestInv(q(pc))
  BY <1>3, <1>4, <1>6, <1>7, Zenon DEF RequestInv
<1>9. req'[r].quota <= granted /\ RequestInv(req'[r])
  BY <1>2, <1>4, <1>5, <1>8, Zenon
<1> QED
  BY <1>5, <1>9, OneRequest, Zenon DEF ReadInv

----------------------------------------------------------------------------
(* CheckQuotaAndAddReadRecord *)

\* What a request knows of the row is a row, and its quota was granted.
LEMMA KnownQuota ==
  ASSUME ReadInv, NEW r \in Requests
  PROVE  /\ req[r] \in RequestType
         /\ req[r].seen \in Row /\ req[r].quota \in Nat /\ req[r].quota <= granted
<1>1. req[r] \in RequestType /\ req[r].quota <= granted
  BY Zenon DEF ReadInv, RequestsInv
<1>2. req[r].seen \in Row /\ req[r].quota \in Nat
  BY <1>1, Zenon DEF RequestType
<1> QED
  BY <1>1, <1>2, Zenon

\* The size of a range is a number.
LEMMA SizeOfRange ==
  ASSUME NEW a, RangeAsk(a)
  PROVE  Size(a) \in Int
  BY DEF RangeAsk, GoodRange, Size, DownloadObjectTask

\* A statement that reads or makes the row.
LEMMA SeenStep ==
  ASSUME ReadInv, NEW r \in Requests, NEW row \in Row, NEW pc \in {"insert", "update"},
         req' = [req EXCEPT ![r].seen = row, ![r].pc = pc],
         req[r].pc \in RangePcs, granted' = granted
  PROVE  RequestsInv'
<1> DEFINE q == req[r]
           v == [q EXCEPT !.seen = row, !.pc = pc]
<1>1. req \in [Requests -> RequestType] /\ q \in RequestType
  BY Zenon DEF ReadInv, RequestsInv
<1>2. pc \in Pcs /\ pc \in RangePcs
  BY Zenon DEF Pcs, RangePcs
<1>3. req' = [req EXCEPT ![r] = v]
  OBVIOUS
<1> HIDE DEF q
<1>4. v \in RequestType
  BY <1>1, <1>2 DEF RequestType
<1>5. Same(q, v) /\ v.pc = pc
  BY <1>1 DEF RequestType, Same
<1> HIDE DEF v
<1>6. Kept(r) /\ req'[r] = v
  BY <1>1, <1>3, <1>4, Zenon DEF Kept
<1> QED
  BY <1>2, <1>5, <1>6, RangeMove, Zenon DEF ReadInv, q

\* Every statement leaves a row that says no more was read than was granted: a new row
\* says nothing was read, and the sum that CheckQuota writes is within the quota that
\* the request has read from the chain.
LEMMA QuotaStepKeeps ==
  ASSUME ReadInv, NEW r \in Requests, QuotaStep(r), UNCHANGED <<charged, granted>>
  PROVE  ReadInv'
<1> USE DEF LetGo
<1>1. /\ charged \in Nat /\ granted \in Nat /\ charged + FreeQuota <= granted
      /\ traffic \in Row /\ traffic.consumed <= granted
  BY Zenon DEF ReadInv, QuotaInv, ConsumedWithinGrant
<1>2. ASSUME traffic' \in Row, traffic'.consumed <= granted, RequestsInv'
      PROVE  ReadInv'
  BY <1>1, <1>2, Zenon DEF ReadInv, QuotaInv, ConsumedWithinGrant
<1>3. {"row", "insert", "update", "check", "record", "gate"} \subseteq RangePcs
  BY Zenon DEF RangePcs
<1>4. ASSUME NEW pc, Goto(r, pc), req[r].pc \in RangePcs, pc \in RangePcs \cup {"error"}
      PROVE  RequestsInv'
  BY <1>4, GotoStep, Zenon DEF ReadInv
<1>5. CASE LetGo(r) /\ req[r].pc \in RangePcs
  BY <1>1, <1>2, <1>3, <1>4, <1>5, Zenon
<1>6. CASE GetBucketTraffic(r)
  <2>1. CASE LetGo(r)
    BY <1>3, <1>5, <1>6, <2>1, Zenon DEF GetBucketTraffic
  <2>2. CASE /\ req' = [req EXCEPT ![r].seen = traffic,
                                   ![r].pc = IF traffic = NoRow THEN "insert" ELSE "update"]
             /\ UNCHANGED traffic
    <3>1. RequestsInv'
      BY <1>1, <1>3, <1>6, <2>2, SeenStep, Zenon DEF GetBucketTraffic
    <3> QED
      BY <1>1, <1>2, <2>2, <3>1, Zenon
  <2> QED
    BY <1>6, <2>1, <2>2, Zenon DEF GetBucketTraffic
<1>7. CASE InsertBucketTraffic(r)
  <2> DEFINE row == [consumed |-> 0, quota |-> req[r].quota]
  <2>1. CASE LetGo(r)
    BY <1>3, <1>5, <1>7, <2>1, Zenon DEF InsertBucketTraffic
  <2>2. CASE traffic' = row /\ req' = [req EXCEPT ![r].seen = row, ![r].pc = "update"]
    <3>1. row \in Row /\ row.consumed <= granted
      BY <1>1, KnownQuota DEF Row
    <3> HIDE DEF row
    <3>2. RequestsInv'
      BY <1>3, <1>7, <2>2, <3>1, SeenStep, Zenon DEF InsertBucketTraffic
    <3> QED
      BY <1>2, <2>2, <3>1, <3>2, Zenon
  <2> QED
    BY <1>7, <2>1, <2>2, Zenon DEF InsertBucketTraffic
<1>8. CASE UpdateQuota(r)
  <2>1. CASE LetGo(r)
    BY <1>3, <1>5, <1>8, <2>1, Zenon DEF UpdateQuota
  <2>2. CASE /\ Goto(r, "check")
             /\ traffic' \in {traffic, [traffic EXCEPT !.quota = req[r].quota]}
    <3>1. traffic' \in Row /\ traffic'.consumed <= granted
      BY <1>1, <2>2, KnownQuota DEF Row
    <3>2. RequestsInv'
      BY <1>3, <1>4, <1>8, <2>2, Zenon DEF UpdateQuota
    <3> QED
      BY <1>2, <3>1, <3>2, Zenon
  <2> QED
    BY <1>8, <2>1, <2>2, Zenon DEF UpdateQuota
<1>9. CASE CheckQuota(r)
  <2>1. CASE LetGo(r)
    BY <1>3, <1>5, <1>9, <2>1, Zenon DEF CheckQuota
  <2>2. CASE Goto(r, AfterFailure(r)) /\ UNCHANGED traffic
    <3>1. RequestsInv'
      BY <1>3, <1>4, <1>9, <2>2, FailurePc, Zenon DEF CheckQuota
    <3> QED
      BY <1>1, <1>2, <2>2, <3>1, Zenon
  <2>3. CASE /\ EnoughQuota(r)
             /\ traffic' = [traffic EXCEPT !.consumed = req[r].seen.consumed + Size(req[r].ask)]
             /\ Goto(r, "record")
    <3>1. RequestsInv'
      BY <1>3, <1>4, <1>9, <2>3, Zenon DEF CheckQuota
    <3>2. Reading(req[r])
      BY <1>3, <1>9, Zenon DEF CheckQuota, ReadInv, RequestsInv, RequestInv
    <3>3. Size(req[r].ask) \in Int
      BY <3>2, SizeOfRange, Zenon DEF Reading
    <3> DEFINE sum == req[r].seen.consumed + Size(req[r].ask)
    <3>4. sum \in Int /\ sum <= req[r].quota
      BY <2>3, <3>3, KnownQuota DEF EnoughQuota, Row
    <3> HIDE DEF sum
    <3>5. traffic' = [traffic EXCEPT !.consumed = sum]
      BY <2>3, Zenon DEF sum
    <3>6. sum <= granted
      BY <1>1, <3>4, KnownQuota
    <3>7. traffic' \in Row /\ traffic'.consumed <= granted
      BY <1>1, <3>4, <3>5, <3>6, Zenon DEF Row
    <3> QED
      BY <1>2, <3>1, <3>7, Zenon
  <2> QED
    BY <1>9, <2>1, <2>2, <2>3, Zenon DEF CheckQuota
<1>10. CASE InsertReadRecord(r)
  <2>1. RequestsInv'
    BY <1>3, <1>4, <1>10, Zenon DEF InsertReadRecord
  <2> QED
    BY <1>1, <1>2, <1>10, <2>1, Zenon DEF InsertReadRecord
<1> QED
  BY <1>6, <1>7, <1>8, <1>9, <1>10, Zenon DEF QuotaStep

----------------------------------------------------------------------------
(* The pieces of a request *)

\* The task of a request that reads a range: the piece store answers it with the bytes
\* that follow what the client has received.
LEMMA PieceOfRequest ==
  ASSUME NEW r \in Requests, Reading(req[r])
  PROVE  LET q == req[r]
             low == q.ask.low
             high == High(q.ask)
             task == DownloadPieceTask(r)
         IN  /\ Len(Infos(r)) = Count(low, high)
             /\ From(low, q.idx) \in Nat /\ To(low, high, q.idx) \in Nat
             /\ low \in Nat /\ low <= From(low, q.idx)
             /\ From(low, q.idx) <= To(low, high, q.idx)
             /\ Data(task) = Bytes(From(low, q.idx), To(low, high, q.idx))
             /\ Data(task) \in Seq(Int)
             /\ task.offset \in Nat /\ task.length \in Nat
             /\ Len(Data(task)) = task.length
<1> DEFINE q == req[r]
           low == q.ask.low
           high == High(q.ask)
           task == DownloadPieceTask(r)
           infos == SplitToSegmentPieceInfos(low, high)
           from == From(low, q.idx)
           to == To(low, high, q.idx)
<1>1. GoodRange(low, high) /\ q.idx \in 1 .. Count(low, high)
  BY Zenon DEF Reading, RangeAsk
<1>2. Infos(r) = infos /\ task = infos[q.idx]
  BY Zenon DEF Infos, DownloadPieceTask, DownloadObjectTask
<1>3. low \in Nat
  BY <1>1, Zenon DEF GoodRange
<1> HIDE DEF q, low, high, infos, task
<1>4. /\ Len(infos) = Count(low, high)
      /\ from \in Nat /\ to \in Nat /\ low <= from /\ from <= to
      /\ infos[q.idx].offset \in Nat
      /\ infos[q.idx].length = to - from + 1
      /\ infos[q.idx].piece * MaxSegmentSize + infos[q.idx].offset = from
  BY <1>1, PiecesOfRange, Zenon DEF infos
<1> HIDE DEF from, to
<1>5. /\ task.offset \in Nat /\ task.length = to - from + 1
      /\ task.piece * MaxSegmentSize + task.offset = from
  BY <1>2, <1>4, Zenon
<1>6. Data(task) = Bytes(from, from + task.length - 1)
  BY <1>5, Zenon DEF Data
<1>7. from + task.length - 1 = to /\ task.length \in Nat /\ from <= to + 1
  BY <1>4, <1>5
<1>8. Data(task) = Bytes(from, to)
  BY <1>6, <1>7, Zenon
<1>9. Bytes(from, to) \in Seq(Int) /\ Len(Bytes(from, to)) = to - from + 1
  <2>1. from \in Int /\ to \in Int
    BY <1>4
  <2> QED
    BY <1>7, <2>1, BytesSeq, Zenon
<1>10. Data(task) \in Seq(Int) /\ Len(Data(task)) = task.length
  BY <1>5, <1>8, <1>9, Zenon
<1> QED
  BY <1>2, <1>3, <1>4, <1>5, <1>7, <1>8, <1>10, Zenon DEF q, low, high, task, from, to

\* Data that is cut a second time is what was asked for when the cut starts at its first
\* byte.
LEMMA CutTwice ==
  ASSUME NEW info, info.offset \in Nat, info.length \in Nat,
         Data(info) \in Seq(Int), Len(Data(info)) = info.length
  PROVE  /\ CutAgain(info) \in Seq(Int)
         /\ info.offset = 0 => CutAgain(info) = Data(info)
<1> DEFINE d == Data(info)
           rest == SubSeq(d, info.offset + 1, Len(d))
<1>1. d \in Seq(Int) /\ Len(d) = info.length
  BY Zenon
<1> HIDE DEF d
<1>3. rest \in Seq(Int)
  BY <1>1, SuffixSeq, Zenon
<1>4. info.offset = 0 => rest = d
  BY <1>1, WholeSeq
<1> HIDE DEF rest
<1>5. info.length <= Len(rest) => SubSeq(rest, 1, info.length) \in Seq(Int)
  <2> SUFFICES ASSUME info.length <= Len(rest)
               PROVE  SubSeq(rest, 1, info.length) \in Seq(Int)
    BY Zenon
  <2>1. info.length \in 0 .. Len(rest)
    BY <1>3
  <2> QED
    BY <1>3, <2>1, PrefixFacts, Zenon
<1>6. info.offset = 0 => SubSeq(rest, 1, info.length) = d
  BY <1>1, <1>4, WholeSeq, Zenon
<1>7. CutAgain(info) =
        IF info.offset > Len(d) THEN <<-1>>
        ELSE IF info.offset + info.length < SegmentPieceSize(info.piece)
             THEN IF info.length > Len(rest) THEN <<-1>> ELSE SubSeq(rest, 1, info.length)
             ELSE rest
  BY Zenon DEF CutAgain, d, rest
<1>8. <<-1>> \in Seq(Int) /\ Len(rest) \in Nat
  BY <1>3
<1>9. CutAgain(info) \in Seq(Int)
  BY <1>3, <1>5, <1>7, <1>8
<1>10. info.offset = 0 => CutAgain(info) = d
  BY <1>1, <1>4, <1>6, <1>7, <1>8
<1> QED
  BY <1>9, <1>10, Zenon DEF d

\* A request that has received one piece more.
LEMMA OnePieceMore ==
  ASSUME NEW r \in Requests, Reading(req[r]), NEW p, NEW data, NEW next \in RangePcs,
         p.ask = req[r].ask, p.idx = req[r].idx + 1, p.body = req[r].body \o data,
         p.pc = IF req[r].idx = Len(Infos(r)) THEN "done" ELSE next,
         ~p.cut => ~req[r].cut /\ data = Data(DownloadPieceTask(r))
  PROVE  RequestInv(p)
<1> DEFINE q == req[r]
           low == q.ask.low
           high == High(q.ask)
           from == From(low, q.idx)
           to == To(low, high, q.idx)
           last == q.idx = Count(low, high)
<1>1. /\ RangeAsk(q.ask) /\ q.idx \in 1 .. Count(low, high)
      /\ ~q.cut => q.body = Bytes(low, from - 1)
  BY Zenon DEF Reading
<1>2. /\ Len(Infos(r)) = Count(low, high)
      /\ from \in Nat /\ to \in Nat /\ low \in Nat /\ low <= from /\ from <= to
      /\ Data(DownloadPieceTask(r)) = Bytes(from, to)
  BY PieceOfRequest, Zenon
<1>3. Count(low, high) \in Nat
  BY <1>1, PiecesOfRange, Zenon DEF RangeAsk
<1>4. to = IF last THEN high ELSE From(low, q.idx + 1) - 1
  BY Zenon DEF To
<1> HIDE DEF q, low, high, from, to
<1>5. Bytes(low, from - 1) \o Bytes(from, to) = Bytes(low, to)
  <2>1. from - 1 \in Int /\ from - 1 + 1 = from /\ low <= from - 1 + 1 /\ from - 1 <= to
    BY <1>2
  <2>2. low \in Int /\ to \in Int
    BY <1>2
  <2>3. Bytes(low, from - 1) \o Bytes(from - 1 + 1, to) = Bytes(low, to)
    BY <2>1, <2>2, BytesConcat, Zenon
  <2> QED
    BY <2>1, <2>3, Zenon
<1>6. ~p.cut => p.body = Bytes(low, to)
  BY <1>1, <1>2, <1>5, Zenon DEF q
<1>7. CASE last
  <2>1. Complete(p)
    BY <1>1, <1>4, <1>6, <1>7, Zenon DEF Complete, q, low, high
  <2>2. p.pc = "done"
    BY <1>2, <1>7, Zenon DEF q
  <2>3. "done" \notin RangePcs /\ "done" \notin ChallengePcs
    BY Zenon DEF RangePcs, ChallengePcs
  <2> QED
    BY <2>1, <2>2, <2>3, Zenon DEF RequestInv
<1>8. CASE ~last
  <2>1. q.idx + 1 \in 1 .. Count(low, high)
    BY <1>1, <1>3, <1>8
  <2>2. Reading(p)
    BY <1>1, <1>4, <1>6, <1>8, <2>1, Zenon DEF Reading, q, low, high
  <2>3. p.pc = next
    BY <1>2, <1>8, Zenon DEF q
  <2>4. next # "new" /\ next \notin ChallengePcs /\ next # "done"
    BY Zenon DEF RangePcs, ChallengePcs
  <2> QED
    BY <2>2, <2>3, <2>4, Zenon DEF RequestInv
<1> QED
  BY <1>7, <1>8, Zenon

\* FetchPiece writes a piece to the client of getObjectHandler.
LEMMA WriteStep ==
  ASSUME RequestsInv, NEW r \in Requests, req[r].pc \in RangePcs, NEW data \in Seq(Int),
         Write(r, data), granted' = granted,
         ~(req[r].again /\ DownloadPieceTask(r).offset > 0) => data = Data(DownloadPieceTask(r))
  PROVE  RequestsInv'
<1> DEFINE q == req[r]
           last == q.idx = Len(Infos(r))
           again == q.again /\ DownloadPieceTask(r).offset > 0
           pc == IF last THEN "done" ELSE "call"
<1>1. req \in [Requests -> RequestType] /\ Reading(q) /\ q.quota <= granted
  BY Zenon DEF RequestsInv, RequestInv
<1>2. req' = [req EXCEPT ![r].body = @ \o data, ![r].idx = @ + 1, ![r].again = FALSE,
                         ![r].ticks = 0, ![r].cut = @ \/ again, ![r].pc = pc]
  BY Zenon DEF Write
<1>3. /\ q.body \in Seq(Int) /\ q.idx \in Nat /\ q.cut \in BOOLEAN
  BY <1>1, Zenon DEF RequestType
<1>4. pc \in Pcs /\ again \in BOOLEAN
  BY Zenon DEF Pcs, RangePcs
<1> HIDE DEF again, pc
<1>5. /\ q.body \o data \in Seq(Int) /\ q.idx + 1 \in Nat /\ (q.cut \/ again) \in BOOLEAN
  BY <1>3, <1>4, ConcatFacts
<1> DEFINE body == q.body \o data
           cut == q.cut \/ again
<1>6. req' = [req EXCEPT ![r].body = body, ![r].idx = q.idx + 1, ![r].again = FALSE,
                         ![r].ticks = 0, ![r].cut = cut, ![r].pc = pc]
  BY <1>1, <1>2, Zenon
<1>7. body \in Seq(Int) /\ cut \in BOOLEAN
  BY <1>5, Zenon
<1> HIDE DEF body, cut
<1>8. req' \in [Requests -> RequestType]
  <2> DEFINE v == [q EXCEPT !.body = body, !.idx = q.idx + 1, !.again = FALSE, !.ticks = 0,
                            !.cut = cut, !.pc = pc]
  <2>1. req' = [req EXCEPT ![r] = v]
    BY <1>6, Zenon
  <2>2. v \in RequestType
    <3>1. q \in RequestType
      BY <1>1, Zenon
    <3>2. q.idx + 1 \in Nat
      BY <1>5, Zenon
    <3> HIDE DEF q
    <3> QED
      BY <1>4, <1>7, <3>1, <3>2, Zenon DEF RequestType
  <2> HIDE DEF v
  <2> QED
    BY <1>1, <2>1, <2>2, Zenon
<1>9. \A x \in Requests \ {r} : req'[x] = req[x]
  BY <1>1, <1>6, Zenon
<1>10. /\ req'[r].ask = q.ask /\ req'[r].quota = q.quota /\ req'[r].idx = q.idx + 1
       /\ req'[r].body = body /\ req'[r].pc = pc
  BY <1>1, <1>6 DEF RequestType
<1>11. req'[r].cut = cut
  BY <1>1, <1>6 DEF RequestType
<1>12. ~req'[r].cut => ~q.cut /\ data = Data(DownloadPieceTask(r))
  BY <1>11, Zenon DEF cut, again
<1>13. RequestInv(req'[r])
  <2>1. "call" \in RangePcs
    BY Zenon DEF RangePcs
  <2>2. req'[r].body = q.body \o data /\ req'[r].pc = IF last THEN "done" ELSE "call"
    BY <1>10, Zenon DEF body, pc
  <2> QED
    BY <1>1, <1>10, <1>12, <2>1, <2>2, OnePieceMore, Zenon
<1>14. req'[r].quota <= granted /\ Kept(r)
  BY <1>1, <1>8, <1>9, <1>10, Zenon DEF Kept
<1> QED
  BY <1>13, <1>14, OneRequest, Zenon

\* The universal endpoint collects the pieces, and throws them away when one is missing.
LEMMA CollectStep ==
  ASSUME RequestsInv, NEW r \in Requests, FetchObjectPiece(r), granted' = granted
  PROVE  RequestsInv'
<1> DEFINE q == req[r]
           data == Data(DownloadPieceTask(r))
           pc == IF q.idx = Len(Infos(r)) THEN "done" ELSE "fetch"
<1>1. req \in [Requests -> RequestType] /\ q \in RequestType /\ Reading(q) /\ q.quota <= granted
  <2>1. q.pc \in RangePcs
    BY Zenon DEF FetchObjectPiece, RangePcs
  <2> QED
    BY <2>1, Zenon DEF RequestsInv, RequestInv
<1>2. CASE req' = [req EXCEPT ![r].body = @ \o data, ![r].idx = @ + 1, ![r].pc = pc]
  <2> DEFINE body == q.body \o data
             v == [q EXCEPT !.body = body, !.idx = q.idx + 1, !.pc = pc]
  <2>1. q.body \in Seq(Int) /\ data \in Seq(Int) /\ q.idx + 1 \in Nat
    BY <1>1, PieceOfRequest DEF RequestType
  <2>2. body \in Seq(Int)
    BY <2>1, ConcatFacts, Zenon
  <2>3. pc \in Pcs
    BY Zenon DEF Pcs, RangePcs
  <2>4. req' = [req EXCEPT ![r] = v]
    BY <1>2, Zenon
  <2> HIDE DEF body, data, pc
  <2>5. v \in RequestType
    <3> HIDE DEF q
    <3> QED
      BY <1>1, <2>1, <2>2, <2>3, Zenon DEF RequestType
  <2>6. /\ v.ask = q.ask /\ v.quota = q.quota /\ v.idx = q.idx + 1 /\ v.body = body
        /\ v.pc = pc
    <3> HIDE DEF q
    <3> QED
      BY <1>1, Zenon DEF RequestType
  <2>7. v.cut = q.cut
    <3> HIDE DEF q
    <3> QED
      BY <1>1, Zenon DEF RequestType
  <2> HIDE DEF v
  <2>8. Kept(r) /\ req'[r] = v
    BY <1>1, <2>4, <2>5, Zenon DEF Kept
  <2>9. RequestInv(v)
    <3>1. "fetch" \in RangePcs
      BY Zenon DEF RangePcs
    <3>2. v.body = q.body \o Data(DownloadPieceTask(r))
      BY <2>6, Zenon DEF body, data
    <3>3. v.pc = IF q.idx = Len(Infos(r)) THEN "done" ELSE "fetch"
      BY <2>6, Zenon DEF pc
    <3> QED
      BY <1>1, <2>6, <2>7, <3>1, <3>2, <3>3, OnePieceMore, Zenon
  <2> QED
    BY <1>1, <2>6, <2>8, <2>9, OneRequest, Zenon
<1>3. CASE req' = [req EXCEPT ![r].body = <<>>, ![r].pc = "error"]
  <2> DEFINE v == [q EXCEPT !.body = <<>>, !.pc = "error"]
  <2>1. req' = [req EXCEPT ![r] = v]
    BY <1>3, Zenon
  <2>2. <<>> \in Seq(Int) /\ "error" \in Pcs
    BY DEF Pcs
  <2>3. v \in RequestType /\ v.pc = "error" /\ v.quota = q.quota
    <3> HIDE DEF q
    <3> QED
      BY <1>1, <2>2, Zenon DEF RequestType
  <2> HIDE DEF v
  <2>4. Kept(r) /\ req'[r] = v
    BY <1>1, <2>1, <2>3, Zenon DEF Kept
  <2>5. RequestInv(v)
    BY <2>3, Zenon DEF RequestInv, RangePcs, ChallengePcs
  <2> QED
    BY <1>1, <2>3, <2>4, <2>5, OneRequest, Zenon
<1> QED
  BY <1>2, <1>3, Zenon DEF FetchObjectPiece

\* The steps of HandleDownloadPieceTask and HandleDownloadObjectTask.
LEMMA DownloadStepKeeps ==
  ASSUME RequestsInv, NEW r \in Requests, DownloadStep(r), granted' = granted
  PROVE  RequestsInv'
<1>1. {"gate", "refused", "fetch", "aborted"} \subseteq RangePcs
  BY Zenon DEF RangePcs
<1>2. CASE Enter(r)
  BY <1>1, <1>2, GotoStep, Zenon DEF Enter
<1>3. CASE Refuse(r)
  BY <1>1, <1>3, GotoStep, FailurePc, Zenon DEF Refuse
<1>4. CASE FetchPiece(r)
  <2> DEFINE task == DownloadPieceTask(r)
             data == IF req[r].again THEN CutAgain(task) ELSE Data(task)
  <2>1. req[r].pc \in RangePcs
    BY <1>1, <1>4, Zenon DEF FetchPiece
  <2>2. CASE Goto(r, "aborted") \/ Goto(r, AfterFailure(r))
    BY <1>1, <2>1, <2>2, GotoStep, FailurePc, Zenon
  <2>3. CASE Write(r, data)
    <3>1. Reading(req[r])
      BY <2>1, Zenon DEF RequestsInv, RequestInv
    <3>2. /\ Data(task) \in Seq(Int) /\ Len(Data(task)) = task.length
          /\ task.offset \in Nat /\ task.length \in Nat
      BY <3>1, PieceOfRequest, Zenon
    <3> HIDE DEF task
    <3>3. CutAgain(task) \in Seq(Int) /\ (task.offset = 0 => CutAgain(task) = Data(task))
      BY <3>2, CutTwice, Zenon
    <3>4. data \in Seq(Int)
      BY <3>2, <3>3, Zenon
    <3>5. task.offset = 0 \/ task.offset > 0
      BY <3>2
    <3>6. ~(req[r].again /\ task.offset > 0) => data = Data(task)
      BY <3>3, <3>5, Zenon
    <3> HIDE DEF data
    <3> QED
      BY <2>1, <2>3, <3>4, <3>6, WriteStep, Zenon DEF task
  <2> QED
    BY <1>4, <2>2, <2>3, Zenon DEF FetchPiece
<1>5. CASE FetchObjectPiece(r)
  BY <1>5, CollectStep, Zenon
<1> QED
  BY <1>2, <1>3, <1>4, <1>5, Zenon DEF DownloadStep

\* A challenge ends done or with an error, and never reads a range.
LEMMA ChallengeStepKeeps ==
  ASSUME RequestsInv, NEW r \in Requests, ChallengeStep(r), granted' = granted
  PROVE  RequestsInv'
<1>1. PICK pc \in {"answer", "unanswered", "done", "error"} :
        req[r].pc \in ChallengePcs /\ Goto(r, pc)
  BY Zenon
  DEF ChallengeStep, EnterChallenge, AnswerChallenge, RecoverChallengePiece, LeaveChallenge,
      ChallengePcs
<1>2. pc \in Pcs
  BY Zenon DEF Pcs, ChallengePcs
<1>3. Kept(r) /\ Same(req[r], req'[r]) /\ req'[r].pc = pc
  BY <1>1, <1>2, GotoKeeps, Zenon
<1>4. req[r].ask.kind = "challenge" /\ req[r].quota <= granted
  BY <1>1, Zenon DEF RequestsInv, RequestInv
<1>5. req'[r].ask.kind = "challenge" /\ req'[r].quota <= granted
  BY <1>3, <1>4, Zenon DEF Same
<1>6. pc \notin RangePcs /\ pc # "new"
  BY Zenon DEF RangePcs
<1>7. RequestInv(req'[r])
  BY <1>3, <1>5, <1>6, Zenon DEF RequestInv
<1> QED
  BY <1>3, <1>5, <1>7, OneRequest, Zenon

\* tryDownloadAfterRecovery.
LEMMA TickStep ==
  ASSUME RequestsInv, NEW r \in Requests, Tick(r), granted' = granted
  PROVE  RequestsInv'
<1> DEFINE q == req[r]
           v == [q EXCEPT !.pc = "call", !.again = TRUE, !.ticks = q.ticks + 1]
<1>1. req \in [Requests -> RequestType] /\ q \in RequestType
  BY Zenon DEF RequestsInv
<1>2. req' = [req EXCEPT ![r] = v]
  BY Zenon DEF Tick
<1>3. "call" \in RangePcs /\ "wait" \in RangePcs /\ "call" \in Pcs
  BY Zenon DEF RangePcs, Pcs
<1>4. v \in RequestType /\ v.pc = "call"
  <2> HIDE DEF q
  <2>1. q.ticks + 1 \in Nat
    BY <1>1 DEF RequestType
  <2>2. v.pc = "call"
    BY <1>1, Zenon DEF RequestType
  <2>3. v \in RequestType
    BY <1>1, <1>3, <2>1, Zenon DEF RequestType
  <2> QED
    BY <2>2, <2>3, Zenon
<1>5. Same(q, v)
  <2> HIDE DEF q
  <2> QED
    BY <1>1, Zenon DEF RequestType, Same
<1> HIDE DEF v
<1>6. Kept(r) /\ req'[r] = v
  BY <1>1, <1>2, <1>4, Zenon DEF Kept
<1>7. q.pc \in RangePcs
  BY <1>3, Zenon DEF Tick
<1> QED
  BY <1>3, <1>4, <1>5, <1>6, <1>7, RangeMove, Zenon

----------------------------------------------------------------------------
(* The theorems *)

LEMMA DownloadInitial ==
  Init => StoreInv /\ ReadInv
<1> SUFFICES ASSUME Init
             PROVE  StoreInv /\ ReadInv
  BY Zenon
<1>1. StoreInv
  BY Zenon DEF Init, RecoveryInit, StoreInv
<1>2. QuotaInv
  BY QuotaAssumption DEF Init, QuotaInv, NoRow, Row, ConsumedWithinGrant
<1>3. NoRequest \in RequestType
  <2>1. NoRow \in Row /\ <<>> \in Seq(Int)
    BY DEF NoRow, Row
  <2>2. "new" \in Pcs
    BY Zenon DEF Pcs
  <2> QED
    BY <2>1, <2>2, Zenon DEF NoRequest, RequestType
<1>4. NoRequest.pc = "new" /\ NoRequest.ask.kind = "none" /\ NoRequest.quota = 0
  BY Zenon DEF NoRequest
<1>5. 0 <= granted
  BY <1>2 DEF QuotaInv
<1>6. RequestInv(NoRequest)
  BY <1>4, Zenon DEF RequestInv, RangePcs, ChallengePcs
<1>7. RequestsInv
  BY <1>3, <1>4, <1>5, <1>6, Zenon DEF Init, RequestsInv
<1> QED
  BY <1>1, <1>2, <1>7, Zenon DEF ReadInv

LEMMA DownloadNext ==
  StoreInv /\ ReadInv /\ [Next]_vars => StoreInv' /\ ReadInv'
<1> SUFFICES ASSUME StoreInv, ReadInv, [Next]_vars
             PROVE  StoreInv' /\ ReadInv'
  BY Zenon
<1>1. ASSUME UNCHANGED store
      PROVE  StoreInv'
  BY <1>1, Zenon DEF StoreInv
<1>2. ASSUME UNCHANGED <<charged, granted, traffic>>
      PROVE  QuotaInv'
  BY <1>2, Zenon DEF ReadInv, QuotaInv, ConsumedWithinGrant
<1>3. ASSUME UNCHANGED <<req, granted>>
      PROVE  RequestsInv'
  BY <1>3, Zenon DEF ReadInv, RequestsInv, RequestInv, Reading, Complete
<1>4. CASE UNCHANGED vars
  BY <1>1, <1>2, <1>3, <1>4, Zenon DEF vars, ReadInv
<1>5. CASE RecoveryNext /\ UNCHANGED reading
  <2>1. StoreInv'
    BY <1>5, StoreStep, Zenon
  <2> QED
    BY <1>2, <1>3, <1>5, <2>1, Zenon DEF reading, ReadInv
<1>6. CASE ChangeQuota
  <2>1. StoreInv'
    BY <1>1, <1>6, Zenon DEF ChangeQuota, recovery
  <2>2. /\ charged' \in Nat /\ granted' \in Nat /\ charged' + FreeQuota <= granted'
        /\ granted <= granted' /\ granted \in Nat
    <3>1. granted \in Nat /\ charged' \in Nat /\ FreeQuota \in Nat
      BY <1>6, QuotaAssumption, Zenon DEF ChangeQuota, ReadInv, QuotaInv
    <3>2. granted' = IF charged' + FreeQuota > granted THEN charged' + FreeQuota ELSE granted
      BY <1>6, Zenon DEF ChangeQuota
    <3>3. ASSUME NEW g \in Nat, NEW c \in Nat, NEW f \in Nat
          PROVE  LET n == IF c + f > g THEN c + f ELSE g
                 IN  n \in Nat /\ c + f <= n /\ g <= n
      BY <3>3
    <3> QED
      BY <3>1, <3>2, <3>3, Zenon
  <2>3. QuotaInv'
    <3>1. traffic.consumed \in Int /\ traffic.consumed <= granted /\ traffic \in Row
      BY Zenon DEF ReadInv, QuotaInv, Row, ConsumedWithinGrant
    <3>2. traffic.consumed <= granted'
      BY <2>2, <3>1
    <3> QED
      BY <1>6, <2>2, <3>1, <3>2, Zenon DEF ChangeQuota, QuotaInv, ConsumedWithinGrant
  <2>4. ASSUME NEW r \in Requests
        PROVE  req[r].quota <= granted' /\ RequestInv(req[r])
    <3>1. req[r].quota \in Nat /\ req[r].quota <= granted
      BY KnownQuota, Zenon
    <3>2. req[r].quota <= granted'
      BY <2>2, <3>1
    <3> QED
      BY <3>2, Zenon DEF ReadInv, RequestsInv
  <2>5. RequestsInv'
    BY <1>6, <2>4, Zenon
    DEF ChangeQuota, ReadInv, RequestsInv, RequestInv, Reading, Complete
  <2> QED
    BY <2>1, <2>3, <2>5, Zenon DEF ReadInv
<1>7. ASSUME NEW r \in Requests, RequestStep(r)
      PROVE  StoreInv' /\ ReadInv'
  <2>1. {"call", "wait", "short", "report", "row", "gate"} \subseteq RangePcs
    BY Zenon DEF RangePcs
  <2>2. CASE /\ \/ \E a \in Asks : \/ getObject(r, a) \/ getObjectByUniversalEndpoint(r, a)
                                   \/ getChallengeInfo(r, a)
                \/ Call(r) \/ Tick(r) \/ GiveUp(r)
             /\ UNCHANGED <<charged, traffic, cache, downloading, challenging, granted>>
             /\ UNCHANGED recovery
    <3>1. StoreInv' /\ QuotaInv'
      BY <1>1, <1>2, <2>2, Zenon DEF recovery
    <3>2. CASE \E a \in Asks : \/ getObject(r, a) \/ getObjectByUniversalEndpoint(r, a)
                               \/ getChallengeInfo(r, a)
      BY <2>2, <3>1, <3>2, BeginStep, Zenon DEF ReadInv
    <3>3. CASE Call(r)
      <4>1. RequestsInv'
        BY <2>1, <2>2, <3>3, GotoStep, FailurePc, Zenon DEF Call, ReadInv
      <4> QED
        BY <3>1, <4>1, Zenon DEF ReadInv
    <3>4. CASE Tick(r)
      BY <2>2, <3>1, <3>4, TickStep, Zenon DEF ReadInv
    <3>5. CASE GiveUp(r)
      <4>1. RequestsInv'
        BY <2>1, <2>2, <3>5, GotoStep, Zenon DEF GiveUp, ReadInv
      <4> QED
        BY <3>1, <4>1, Zenon DEF ReadInv
    <3> QED
      BY <2>2, <3>2, <3>3, <3>4, <3>5, Zenon
  <2>3. CASE /\ QuotaStep(r)
             /\ UNCHANGED <<charged, cache, downloading, challenging, granted>>
             /\ UNCHANGED recovery
    <3>1. StoreInv'
      BY <1>1, <2>3, Zenon DEF recovery
    <3> QED
      BY <2>3, <3>1, QuotaStepKeeps, Zenon
  <2>4. CASE /\ DownloadStep(r)
             /\ UNCHANGED <<charged, traffic, challenging, granted>>
             /\ UNCHANGED recovery
    <3>1. StoreInv' /\ QuotaInv'
      BY <1>1, <1>2, <2>4, Zenon DEF recovery
    <3> QED
      BY <2>4, <3>1, DownloadStepKeeps, Zenon DEF ReadInv
  <2>5. CASE /\ ChallengeStep(r)
             /\ UNCHANGED <<charged, traffic, cache, downloading, granted>>
    <3>1. UNCHANGED store
      BY <2>5, Zenon
      DEF ChallengeStep, EnterChallenge, AnswerChallenge, RecoverChallengePiece,
          ReportLostPiece, recovery
    <3> QED
      BY <1>1, <1>2, <2>5, <3>1, ChallengeStepKeeps, Zenon DEF ReadInv
  <2>6. CASE /\ ReportLost(r)
             /\ UNCHANGED <<charged, traffic, cache, downloading, challenging, granted>>
    <3>1. UNCHANGED store
      BY <2>6, Zenon DEF ReportLost, ReportLostPiece, recovery
    <3>2. RequestsInv'
      BY <2>1, <2>6, GotoStep, Zenon DEF ReportLost, ReadInv
    <3> QED
      BY <1>1, <1>2, <2>6, <3>1, <3>2, Zenon DEF ReadInv
  <2> QED
    BY <1>7, <2>2, <2>3, <2>4, <2>5, <2>6, Zenon DEF RequestStep
<1> QED
  BY <1>4, <1>5, <1>6, <1>7, Zenon DEF Next

LEMMA DownloadInvariant ==
  Spec => [](StoreInv /\ ReadInv)
  BY DownloadInitial, DownloadNext, PTL DEF Spec

\* checkRecoveryCheckSum, for any secondaries that hold and answer anything: the
\* executor stores what it has recovered only after the comparison with the integrity
\* row, so no wrong data gets into the piece store.
THEOREM RecoveredPiecesAreGood == Spec => []NeverStoresBadPiece
<1>1. StoreInv => NeverStoresBadPiece
  BY Zenon DEF StoreInv, NeverStoresBadPiece
<1> QED
  BY <1>1, DownloadInvariant, PTL

\* CheckQuotaAndAddReadRecord, for any requests, quotas and object: however the
\* statements of concurrent reads interleave, fail or use a row that is stale, the row
\* never says that more was read than the largest quota the bucket has had.
THEOREM ReadsAreWithinGrant == Spec => []ConsumedWithinGrant
<1>1. ReadInv => ConsumedWithinGrant
  BY Zenon DEF ReadInv, QuotaInv
<1> QED
  BY <1>1, DownloadInvariant, PTL

\* SplitToSegmentPieceInfos and the loops of getObjectHandler and
\* HandleDownloadObjectTask, for any object, segment size and range: what the client has
\* received is a prefix of its range, and all of it when the request is done, unless a
\* piece was cut a second time after its recovery.
THEOREM ClientsReceiveTheirRange == Spec => []BodyIsRange
<1>1. ASSUME ReadInv, NEW r \in Requests,
             req[r].ask.kind \in {"object", "universal"}, req[r].pc # "error", ~req[r].cut
      PROVE  LET range == Bytes(req[r].ask.low, High(req[r].ask))
             IN  /\ Len(req[r].body) <= Len(range)
                 /\ req[r].body = SubSeq(range, 1, Len(req[r].body))
                 /\ req[r].pc = "done" => req[r].body = range
  <2> DEFINE q == req[r]
             low == q.ask.low
             high == High(q.ask)
  <2>1. q.pc \in Pcs /\ RequestInv(q)
    <3>1. q \in RequestType /\ RequestInv(q)
      BY <1>1, Zenon DEF ReadInv, RequestsInv
    <3> QED
      BY <3>1, Zenon DEF RequestType
  <2>2. q.pc \in RangePcs \/ q.pc = "done"
    BY <1>1, <2>1, Zenon DEF Pcs, RequestInv
  <2>3. RangeAsk(q.ask)
    BY <1>1, <2>1, <2>2, Zenon DEF RequestInv, Reading, Complete
  <2>4. GoodRange(low, high) /\ low \in Int /\ high \in Int /\ low <= high + 1
    BY <2>3 DEF RangeAsk, GoodRange
  <2>5. Bytes(low, high) \in Seq(Int) /\ Len(Bytes(low, high)) = high - low + 1
    BY <2>4, BytesSeq, Zenon
  <2>6. CASE q.pc = "done"
    <3>1. q.body = Bytes(low, high)
      BY <1>1, <2>1, <2>6, Zenon DEF RequestInv, Complete
    <3>2. Bytes(low, high) = SubSeq(Bytes(low, high), 1, Len(Bytes(low, high)))
      BY <2>5, WholeSeq, Zenon
    <3>3. Len(Bytes(low, high)) <= Len(Bytes(low, high))
      BY <2>4, <2>5
    <3> QED
      BY <3>1, <3>2, <3>3, Zenon
  <2>7. CASE q.pc \in RangePcs
    <3> DEFINE to == From(low, q.idx) - 1
    <3>1. Reading(q) /\ q.pc # "done"
      BY <2>1, <2>7, Zenon DEF RequestInv, RangePcs
    <3>2. q.body = Bytes(low, to) /\ q.idx \in 1 .. Count(low, high)
      BY <1>1, <3>1, Zenon DEF Reading
    <3>3. /\ From(low, q.idx) \in Nat /\ low <= From(low, q.idx)
          /\ From(low, q.idx) <= To(low, high, q.idx) /\ To(low, high, q.idx) <= high
          /\ To(low, high, q.idx) \in Nat
      BY <2>4, <3>2, PiecesOfRange, Zenon
    <3>4. to \in Int /\ low <= to + 1 /\ to <= high
      BY <2>4, <3>3
    <3> HIDE DEF to, low, high, q
    <3>5. Len(Bytes(low, to)) = to - low + 1
      BY <2>4, <3>4, BytesSeq, Zenon
    <3>6. SubSeq(Bytes(low, high), 1, to - low + 1) = Bytes(low, to)
      BY <2>4, <3>4, BytesPrefix, Zenon
    <3>7. Len(Bytes(low, to)) <= Len(Bytes(low, high))
      BY <2>4, <2>5, <3>4, <3>5
    <3> QED
      BY <3>1, <3>2, <3>5, <3>6, <3>7, Zenon DEF low, high, q
  <2> QED
    BY <2>2, <2>6, <2>7, Zenon
<1>2. ReadInv => BodyIsRange
  BY <1>1, Zenon DEF BodyIsRange
<1> QED
  BY <1>2, DownloadInvariant, PTL
=============================================================================
