-------------------------- MODULE LtpSignalsProofs --------------------------
(***************************************************************************)
(* What LtpSession promises of single signals and of its progress.         *)
(*                                                                         *)
(* I. SignalsInv, inductive on top of LtpInv: the numbered signals         *)
(* (checkpoints and reports), the colors of the data and the end of the    *)
(* block.  First what each operation on a queue does to the segments of a  *)
(* set X, then what a step does to one signal, then the way of the end of  *)
(* the block to its announcement.                                          *)
(*                                                                         *)
(* II. ProgressInv, inductive beside the two, for every span whose reports *)
(* are never split (WholeReports): a report is followed back to the        *)
(* checkpoint it answers and a checkpoint to the data it closes.  The      *)
(* three invariants together leave something in flight for every block     *)
(* whose session is open, so that none is ever stranded.                   *)
(***************************************************************************)
EXTENDS LtpSessionProofs, DataLemmas

(***************************************************************************)
(* PART I.  The numbered signals.                                          *)
(*                                                                         *)
(* What the operations on a queue do to the segments in a set X.           *)
(***************************************************************************)
\* The queue r holds what q holds of X, and nothing of it more often.
Same(r, q, X) ==
    /\ \A i \in 1 .. Len(r) : r[i] \in X => InQueue(q, r[i])
    /\ \A i \in 1 .. Len(q) : q[i] \in X => InQueue(r, q[i])
    /\ Once(q, X) => Once(r, X)

\* Same is reflexive, ...
LEMMA SameItself ==
    ASSUME NEW q, NEW X
    PROVE  Same(q, q, X)
<1> QED
  BY DEF Same, InQueue

\* ... and transitive.
LEMMA SameTwice ==
    ASSUME NEW p, NEW q, NEW r, NEW X, Same(q, p, X), Same(r, q, X)
    PROVE  Same(r, p, X)
<1>1. ASSUME NEW i \in 1 .. Len(r), r[i] \in X
      PROVE  InQueue(p, r[i])
  <2>1. PICK j \in 1 .. Len(q) : q[j] = r[i]
    BY <1>1 DEF Same, InQueue
  <2> QED
    BY <1>1, <2>1 DEF Same
<1>2. ASSUME NEW i \in 1 .. Len(p), p[i] \in X
      PROVE  InQueue(r, p[i])
  <2>1. PICK j \in 1 .. Len(q) : q[j] = p[i]
    BY <1>2 DEF Same, InQueue
  <2> QED
    BY <1>2, <2>1 DEF Same
<1> QED
  BY <1>1, <1>2 DEF Same

\* It tells of the presence of a segment, too.
LEMMA SameSome ==
    ASSUME NEW q, NEW r, NEW X, Same(r, q, X)
    PROVE  Some(r, X) <=> Some(q, X)
<1> QED
  BY DEF Same, Some, InQueue

\* The queue r is q, with the row a after its first n segments.
IsSpliced(r, q, n, a) ==
    /\ Len(q) \in Nat /\ n \in 0 .. Len(q) /\ Len(a) \in Nat
    /\ Len(r) = Len(q) + Len(a)
    /\ \A i \in 1 .. n : r[i] = q[i]
    /\ \A i \in 1 .. Len(a) : r[n + i] = a[i]
    /\ \A i \in n + 1 .. Len(q) : r[Len(a) + i] = q[i]

\* A segment at the end of a queue is a splice, ...
LEMMA AppendSpliced ==
    ASSUME NEW T, NEW q \in Seq(T), NEW e
    PROVE  IsSpliced(Append(q, e), q, Len(q), <<e>>)
<1>1. /\ Len(q) \in Nat /\ Len(<<e>>) = 1
      /\ Len(Append(q, e)) = Len(q) + 1
      /\ \A i \in 1 .. Len(q) : Append(q, e)[i] = q[i]
      /\ Append(q, e)[Len(q) + 1] = e /\ <<e>>[1] = e
  OBVIOUS
<1> QED
  BY <1>1 DEF IsSpliced

\* ... and so is a row of segments, ...
LEMMA AllSpliced ==
    ASSUME NEW T, NEW q \in Seq(T), NEW set, InOrder(set) \in Seq(T)
    PROVE  IsSpliced(EnqueueAll(q, set), q, Len(q), InOrder(set))
<1> DEFINE a == InOrder(set)
<1>1. ASSUME NEW b \in Seq(T)
      PROVE  IsSpliced(q \o b, q, Len(q), b)
  <2>1. /\ Len(q) \in Nat /\ Len(b) \in Nat
        /\ Len(q \o b) = Len(q) + Len(b)
        /\ \A i \in 1 .. Len(q) : (q \o b)[i] = q[i]
        /\ \A i \in 1 .. Len(b) : (q \o b)[Len(q) + i] = b[i]
    OBVIOUS
  <2> QED
    BY <2>1 DEF IsSpliced
<1> QED
  BY <1>1 DEF EnqueueAll

\* ... and a row in the middle: ...
LEMMA ConcatSpliced ==
    ASSUME NEW T, NEW a \in Seq(T), NEW b \in Seq(T), NEW c \in Seq(T)
    PROVE  IsSpliced((a \o c) \o b, a \o b, Len(a), c)
<1> DEFINE d == a \o c
           r == d \o b
           q == a \o b
<1>1. /\ d \in Seq(T) /\ Len(d) = Len(a) + Len(c)
      /\ \A i \in 1 .. Len(a) + Len(c) : d[i] = IF i <= Len(a) THEN a[i] ELSE c[i - Len(a)]
  BY ConcatProperties
<1>2. /\ Len(q) = Len(a) + Len(b)
      /\ \A i \in 1 .. Len(a) + Len(b) : q[i] = IF i <= Len(a) THEN a[i] ELSE b[i - Len(a)]
  BY ConcatProperties
<1> HIDE DEF d, q
<1>3. /\ Len(r) = Len(d) + Len(b)
      /\ \A i \in 1 .. Len(d) + Len(b) : r[i] = IF i <= Len(d) THEN d[i] ELSE b[i - Len(d)]
  <2>1. d \in Seq(T) /\ b \in Seq(T)
    BY <1>1
  <2> QED
    BY <2>1, ConcatProperties
<1>4. Len(a) \in Nat /\ Len(b) \in Nat /\ Len(c) \in Nat
  OBVIOUS
<1> HIDE DEF r
<1>5. /\ Len(q) \in Nat /\ Len(a) \in 0 .. Len(q) /\ Len(r) = Len(q) + Len(c)
      /\ \A i \in 1 .. Len(a) : r[i] = q[i]
  <2>1. /\ Len(q) \in Nat /\ Len(a) \in 0 .. Len(q) /\ Len(d) = Len(a) + Len(c)
        /\ Len(r) = Len(q) + Len(c)
    BY <1>1, <1>2, <1>3, <1>4
  <2>2. ASSUME NEW i \in 1 .. Len(a)
        PROVE  r[i] = q[i]
    <3>1. i \in 1 .. Len(a) + Len(c) /\ i \in 1 .. Len(a) + Len(b) /\ i \in 1 .. Len(d) + Len(b)
          /\ i <= Len(d) /\ i <= Len(a)
      BY <1>4, <2>1
    <3> QED
      BY <1>1, <1>2, <1>3, <3>1
  <2> QED
    BY <2>1, <2>2
<1>6. \A i \in 1 .. Len(c) : r[Len(a) + i] = c[i]
  BY <1>1, <1>3, <1>4
<1>7. ASSUME NEW i \in Len(a) + 1 .. Len(q)
      PROVE  r[Len(c) + i] = q[i]
  <2>1. /\ q[i] = b[i - Len(a)]
        /\ Len(c) + i \in 1 .. Len(d) + Len(b) /\ ~(Len(c) + i <= Len(d))
        /\ (Len(c) + i) - Len(d) = i - Len(a)
    BY <1>1, <1>2, <1>4
  <2> QED
    BY <1>3, <2>1
<1>8. IsSpliced(r, q, Len(a), c)
  BY <1>4, <1>5, <1>6, <1>7 DEF IsSpliced
<1> QED
  BY <1>8 DEF r, d, q

\* ... that is where EnqueueAcks puts acknowledgments, ...
LEMMA AcksSpliced ==
    ASSUME NEW T, NEW q \in Seq(T), NEW acks \in Seq(T)
    PROVE  IsSpliced(EnqueueAcks(q, acks), q, AckPrefix(q), acks)
<1>1. ASSUME NEW n \in 0 .. Len(q)
      PROVE  IsSpliced(SubSeq(q, 1, n) \o acks \o SubSeq(q, n + 1, Len(q)), q, n, acks)
  <2> DEFINE a == SubSeq(q, 1, n)
             b == SubSeq(q, n + 1, Len(q))
  <2>1. a \in Seq(T) /\ Len(a) = n /\ b \in Seq(T)
    OBVIOUS
  <2>2. a \o b = q
    <3>1. /\ Len(q) \in Nat /\ n \in 1 - 1 .. Len(q) /\ Len(q) \in n .. Len(q)
          /\ 1 \in 1 .. Len(q) + 1
      OBVIOUS
    <3>2. a \o b = SubSeq(q, 1, Len(q))
      BY <3>1, ConcatAdjacentSubSeq
    <3> QED
      BY <3>2, SubSeqFull
  <2> HIDE DEF a, b
  <2>3. IsSpliced((a \o acks) \o b, a \o b, Len(a), acks)
    BY <2>1, ConcatSpliced
  <2>4. IsSpliced(a \o acks \o b, q, n, acks)
    BY <2>1, <2>2, <2>3
  <2> QED
    BY <2>4 DEF a, b
<1>2. AckPrefix(q) \in 0 .. Len(q)
  BY AckPrefixType
<1> QED
  BY <1>1, <1>2 DEF EnqueueAcks

\* ... and EnqueueAck one of them.
LEMMA AckSpliced ==
    ASSUME NEW T, NEW q \in Seq(T), NEW e \in T
    PROVE  IsSpliced(EnqueueAck(q, e), q, AckPrefix(q), <<e>>)
<1>1. <<e>> \in Seq(T)
  OBVIOUS
<1> QED
  BY <1>1, AcksSpliced DEF EnqueueAck

\* Where a segment of r comes from.
LEMMA SplicedPlace ==
    ASSUME NEW r, NEW q, NEW n, NEW a, IsSpliced(r, q, n, a), NEW i \in 1 .. Len(r)
    PROVE  \/ i \in 1 .. n /\ i \in 1 .. Len(q) /\ r[i] = q[i]
           \/ i - n \in 1 .. Len(a) /\ r[i] = a[i - n]
           \/ /\ i - Len(a) \in n + 1 .. Len(q) /\ i - Len(a) \in 1 .. Len(q)
              /\ r[i] = q[i - Len(a)]
<1>1. CASE i <= n
  BY <1>1 DEF IsSpliced
<1>2. CASE n < i /\ i <= n + Len(a)
  <2>1. i - n \in 1 .. Len(a) /\ i = n + (i - n)
    BY <1>2 DEF IsSpliced
  <2> QED
    BY <2>1 DEF IsSpliced
<1>3. CASE n + Len(a) < i
  <2>1. i - Len(a) \in n + 1 .. Len(q) /\ i - Len(a) \in 1 .. Len(q)
        /\ i = Len(a) + (i - Len(a))
    BY <1>3 DEF IsSpliced
  <2> QED
    BY <2>1 DEF IsSpliced
<1> QED
  BY <1>1, <1>2, <1>3 DEF IsSpliced

\* Everything of q and of a is in r.
LEMMA SplicedHolds ==
    ASSUME NEW r, NEW q, NEW n, NEW a, IsSpliced(r, q, n, a)
    PROVE  /\ \A i \in 1 .. Len(q) : InQueue(r, q[i])
           /\ \A i \in 1 .. Len(a) : InQueue(r, a[i])
<1>1. ASSUME NEW i \in 1 .. Len(q)
      PROVE  InQueue(r, q[i])
  <2>1. CASE i <= n
    BY <2>1 DEF IsSpliced, InQueue
  <2>2. CASE n < i
    <3>1. Len(a) + i \in 1 .. Len(r) /\ r[Len(a) + i] = q[i]
      BY <2>2 DEF IsSpliced
    <3> QED
      BY <3>1 DEF InQueue
  <2> QED
    BY <2>1, <2>2 DEF IsSpliced
<1>2. ASSUME NEW i \in 1 .. Len(a)
      PROVE  InQueue(r, a[i])
  <2>1. n + i \in 1 .. Len(r) /\ r[n + i] = a[i]
    BY DEF IsSpliced
  <2> QED
    BY <2>1 DEF InQueue
<1> QED
  BY <1>1, <1>2

\* A row with nothing of X changes nothing as far as X goes.
LEMMA SplicedOther ==
    ASSUME NEW r, NEW q, NEW n, NEW a, IsSpliced(r, q, n, a), NEW X,
           \A i \in 1 .. Len(a) : a[i] \notin X
    PROVE  Same(r, q, X)
<1> DEFINE from(i) == IF i <= n THEN i ELSE i - Len(a)
<1>1. ASSUME NEW i \in 1 .. Len(r), r[i] \in X
      PROVE  /\ from(i) \in 1 .. Len(q) /\ r[i] = q[from(i)]
             /\ i \in 1 .. n \/ (i - Len(a)) \in n + 1 .. Len(q)
  <2>1. \/ i \in 1 .. n /\ i \in 1 .. Len(q) /\ r[i] = q[i]
        \/ /\ i - Len(a) \in n + 1 .. Len(q) /\ i - Len(a) \in 1 .. Len(q)
           /\ r[i] = q[i - Len(a)]
    BY <1>1, SplicedPlace
  <2>2. n \in Nat /\ Len(a) \in Nat /\ i \in Nat
    BY DEF IsSpliced
  <2> QED
    BY <2>1, <2>2
<1>2. ASSUME Once(q, X) PROVE Once(r, X)
  <2> SUFFICES ASSUME NEW i \in 1 .. Len(r), NEW j \in 1 .. Len(r),
                      r[i] \in X, r[j] \in X
               PROVE  i = j
    BY DEF Once
  <2>1. from(i) = from(j)
    BY <1>1, <1>2 DEF Once
  <2>2. n \in Nat /\ Len(a) \in Nat /\ Len(q) \in Nat /\ i \in Nat /\ j \in Nat
    BY DEF IsSpliced
  <2> QED
    BY <1>1, <2>1, <2>2
<1>3. \A i \in 1 .. Len(r) : r[i] \in X => InQueue(q, r[i])
  BY <1>1 DEF InQueue
<1> HIDE DEF from
<1> QED
  BY <1>2, <1>3, SplicedHolds DEF Same

\* When the queue has nothing of X, it is the row that counts.
LEMMA SplicedNew ==
    ASSUME NEW r, NEW q, NEW n, NEW a, IsSpliced(r, q, n, a), NEW X, ~Some(q, X)
    PROVE  Same(r, a, X)
<1>1. ASSUME NEW i \in 1 .. Len(r), r[i] \in X
      PROVE  i - n \in 1 .. Len(a) /\ r[i] = a[i - n]
  BY <1>1, SplicedPlace DEF Some
<1>2. ASSUME Once(a, X) PROVE Once(r, X)
  <2> SUFFICES ASSUME NEW i \in 1 .. Len(r), NEW j \in 1 .. Len(r),
                      r[i] \in X, r[j] \in X
               PROVE  i = j
    BY DEF Once
  <2>1. i - n = j - n
    BY <1>1, <1>2 DEF Once
  <2> QED
    BY <2>1 DEF IsSpliced
<1> QED
  BY <1>1, <1>2, SplicedHolds DEF Same, InQueue

\* The segments of a finite set with distinct bounds are put in a row, each of
\* them once.
InARow(row, set) ==
    /\ \A i \in 1 .. Len(row) : row[i] \in set
    /\ \A x \in set : InQueue(row, x)
    /\ \A i, j \in 1 .. Len(row) : row[i] = row[j] => i = j

\* InOrder is a row of its set when the starts of the segments differ.
LEMMA InOrderOnce ==
    ASSUME NEW set, IsFiniteSet(set), \A x \in set : x.lo \in Int,
           \A x, y \in set : x.lo = y.lo => x = y
    PROVE  InARow(InOrder(set), set)
<1> DEFINE f == [x \in set |-> x.lo]
           rank(x) == Cardinality({y \in set : y.lo <= x.lo})
           n == Cardinality(set)
           row == InOrder(set)
<1>1. \A x \in set : RankIn(set, f, x) = rank(x)
  <2> SUFFICES ASSUME NEW x \in set PROVE RankIn(set, f, x) = rank(x)
    OBVIOUS
  <2>1. {y \in set : f[y] <= f[x]} = {y \in set : y.lo <= x.lo}
    OBVIOUS
  <2> QED
    BY <2>1 DEF RankIn
<1>2. /\ \A x \in set : rank(x) \in 1 .. n
      /\ \A i \in 1 .. n : \E x \in set : rank(x) = i
  <2>1. (\A x \in set : f[x] \in Int) /\ (\A x, y \in set : f[x] = f[y] => x = y)
    OBVIOUS
  <2> HIDE DEF f, rank
  <2> QED
    BY <1>1, <2>1, RanksFound
<1>3. n \in Nat
  BY FS_CardinalityType
<1>4. ASSUME NEW i \in 1 .. n
      PROVE  Nth(set, i) \in set /\ rank(Nth(set, i)) = i
  <2>1. PICK x \in set : rank(x) = i
    BY <1>2
  <2>2. Nth(set, i) = CHOOSE y \in set : (\A z \in set : rank(z) # i) \/ rank(y) = i
    BY DEF Nth
  <2> HIDE DEF rank
  <2> QED
    BY <2>1, <2>2
<1>5. row = [i \in 1 .. n |-> Nth(set, i)] /\ Len(row) = n
  BY <1>3 DEF InOrder
<1>6. \A i \in 1 .. n : row[i] = Nth(set, i)
  BY <1>5
<1> HIDE DEF row, rank
<1>7. ASSUME NEW x \in set
      PROVE  \E i \in 1 .. n : row[i] = x
  <2>1. rank(x) \in 1 .. n
    BY <1>2
  <2>2. row[rank(x)] \in set /\ rank(row[rank(x)]) = rank(x)
    BY <1>4, <1>6, <2>1
  <2>3. \A y \in set : rank(y) = rank(x) => y = x
    <3>1. (\A y \in set : f[y] \in Int) /\ (\A y, z \in set : f[y] = f[z] => y = z)
      OBVIOUS
    <3> HIDE DEF f
    <3>2. \A y, z \in set : RankIn(set, f, y) = RankIn(set, f, z) => y = z
      BY <3>1, RanksFound
    <3> QED
      BY <1>1, <3>2
  <2> QED
    BY <2>1, <2>2, <2>3
<1>8. \A i, j \in 1 .. n : row[i] = row[j] => i = j
  BY <1>4, <1>6
<1>9. InARow(row, set)
  BY <1>4, <1>5, <1>6, <1>7, <1>8 DEF InARow, InQueue
<1> QED
  BY <1>9 DEF row

\* Of a row in which each element is there once, as many are in X as of the set.
LEMMA RowSome ==
    ASSUME NEW row, NEW set, InARow(row, set), NEW X
    PROVE  /\ (\A x, y \in set : x \in X /\ y \in X => x = y) => Once(row, X)
           /\ (\A x \in set : x \notin X) => ~Some(row, X)
<1> QED
  BY DEF InARow, Once, Some

\* The removal of the segments of a session.
IsPurged(r, q, s, types) ==
    /\ \A i \in 1 .. Len(r) : InQueue(q, r[i]) /\ ~(r[i].session = s /\ r[i].type \in types)
    /\ \A i \in 1 .. Len(q) :
          ~(q[i].session = s /\ q[i].type \in types) => InQueue(r, q[i])
    /\ \A X : Once(q, X) => Once(r, X)

\* Purge keeps the other segments, once each.
LEMMA PurgeFound ==
    ASSUME NEW T, NEW q \in Seq(T), NEW s, NEW types
    PROVE  IsPurged(Purge(q, s, types), q, s, types)
<1> DEFINE kept == {i \in 1 .. Len(q) : ~(q[i].session = s /\ q[i].type \in types)}
           f == [i \in kept |-> i]
           rank(i) == Cardinality({j \in kept : j <= i})
           n == Cardinality(kept)
           pick(m) == CHOOSE i \in kept : (\A j \in kept : rank(j) # m) \/ rank(i) = m
           r == Purge(q, s, types)
<1>1. IsFiniteSet(kept) /\ n \in Nat /\ kept \subseteq Int
  <2>1. Len(q) \in Nat
    OBVIOUS
  <2>2. IsFiniteSet(1 .. Len(q)) /\ kept \in SUBSET (1 .. Len(q))
    BY <2>1, FS_Interval
  <2> QED
    BY <2>2, FS_Subset, FS_CardinalityType
<1>2. r = [m \in 1 .. n |-> q[pick(m)]]
  BY DEF Purge
<1>3. \A i \in kept : RankIn(kept, f, i) = rank(i)
  <2> SUFFICES ASSUME NEW i \in kept PROVE RankIn(kept, f, i) = rank(i)
    OBVIOUS
  <2>1. {j \in kept : f[j] <= f[i]} = {j \in kept : j <= i}
    OBVIOUS
  <2> HIDE DEF kept
  <2> QED
    BY <2>1 DEF RankIn
<1> HIDE DEF rank
<1>4. /\ \A i \in kept : rank(i) \in 1 .. n
      /\ \A i, j \in kept : rank(i) = rank(j) => i = j
      /\ \A m \in 1 .. n : \E i \in kept : rank(i) = m
  <2>1. (\A i \in kept : f[i] \in Int) /\ (\A i, j \in kept : f[i] = f[j] => i = j)
    OBVIOUS
  <2> HIDE DEF f, kept
  <2>2. /\ \A i \in kept : RankIn(kept, f, i) \in 1 .. Cardinality(kept)
        /\ \A i, j \in kept : RankIn(kept, f, i) = RankIn(kept, f, j) => i = j
        /\ \A m \in 1 .. Cardinality(kept) : \E i \in kept : RankIn(kept, f, i) = m
    <3>1. IsFiniteSet(kept)
      BY <1>1
    <3> QED
      BY <2>1, <3>1, RanksFound
  <2>3. \A i \in kept : rank(i) \in 1 .. n
    BY <1>3, <2>2
  <2>4. \A i, j \in kept : rank(i) = rank(j) => i = j
    BY <1>3, <2>2
  <2>5. ASSUME NEW m \in 1 .. n
        PROVE  \E i \in kept : rank(i) = m
    <3>1. PICK i \in kept : RankIn(kept, f, i) = m
      BY <2>2
    <3> QED
      BY <1>3, <3>1
  <2> QED
    BY <2>3, <2>4, <2>5
<1>5. ASSUME NEW m \in 1 .. n
      PROVE  pick(m) \in kept /\ rank(pick(m)) = m
  <2>1. PICK i \in kept : rank(i) = m
    BY <1>4
  <2> HIDE DEF kept
  <2> QED
    BY <2>1
<1> HIDE DEF pick
<1>6. Len(r) = n /\ \A m \in 1 .. n : r[m] = q[pick(m)]
  BY <1>1, <1>2
<1> HIDE DEF r
<1>7. ASSUME NEW i \in kept
      PROVE  \E m \in 1 .. n : r[m] = q[i]
  <2> DEFINE m == rank(i)
  <2> HIDE DEF kept
  <2>1. m \in 1 .. n
    BY <1>4
  <2>2. pick(m) \in kept /\ rank(pick(m)) = rank(i)
    BY <1>5, <2>1
  <2>3. pick(m) = i
    BY <1>4, <2>2
  <2> HIDE DEF m
  <2> QED
    BY <1>6, <2>1, <2>3
<1>8. ASSUME NEW X, Once(q, X)
      PROVE  Once(r, X)
  <2> SUFFICES ASSUME NEW i \in 1 .. n, NEW j \in 1 .. n, r[i] \in X, r[j] \in X
               PROVE  i = j
    BY <1>6 DEF Once
  <2>1. pick(i) \in 1 .. Len(q) /\ pick(j) \in 1 .. Len(q)
        /\ rank(pick(i)) = i /\ rank(pick(j)) = j
        /\ r[i] = q[pick(i)] /\ r[j] = q[pick(j)]
    BY <1>5, <1>6
  <2>2. pick(i) = pick(j)
    BY <1>8, <2>1 DEF Once
  <2> QED
    BY <2>1, <2>2
<1>9. ASSUME NEW m \in 1 .. n
      PROVE  InQueue(q, r[m]) /\ ~(r[m].session = s /\ r[m].type \in types)
  BY <1>5, <1>6 DEF InQueue
<1>10. ASSUME NEW i \in 1 .. Len(q), ~(q[i].session = s /\ q[i].type \in types)
       PROVE  InQueue(r, q[i])
  BY <1>6, <1>7, <1>10 DEF InQueue
<1> HIDE DEF kept, n
<1>11. IsPurged(r, q, s, types)
  BY <1>6, <1>8, <1>9, <1>10 DEF IsPurged
<1> QED
  BY <1>11 DEF r

\* It leaves what is not of the session, or of other types, as it is ...
LEMMA PurgeOther ==
    ASSUME NEW T, NEW q \in Seq(T), NEW s, NEW types, NEW X,
           \A x \in X : ~(x.session = s /\ x.type \in types)
    PROVE  Same(Purge(q, s, types), q, X)
<1> DEFINE r == Purge(q, s, types)
<1>1. IsPurged(r, q, s, types)
  BY PurgeFound
<1> HIDE DEF r
<1>2. Same(r, q, X)
  BY <1>1 DEF IsPurged, Same
<1> QED
  BY <1>2 DEF r

\* ... and nothing of the rest.
LEMMA PurgeRest ==
    ASSUME NEW T, NEW q \in Seq(T), NEW s, NEW types, NEW X,
           \A x \in X : x.session = s /\ x.type \in types
    PROVE  ~Some(Purge(q, s, types), X)
<1> DEFINE r == Purge(q, s, types)
<1>1. IsPurged(r, q, s, types)
  BY PurgeFound
<1> HIDE DEF r
<1>2. ~Some(r, X)
  BY <1>1 DEF IsPurged, Some
<1> QED
  BY <1>2 DEF r

\* The head of a queue is sent.
LEMMA TailPlaces ==
    ASSUME NEW T, NEW q \in Seq(T), q # <<>>
    PROVE  /\ Len(q) \in Nat /\ Len(q) > 0 /\ Len(Tail(q)) = Len(q) - 1
           /\ Head(q) = q[1]
           /\ \A i \in 1 .. Len(q) - 1 : Tail(q)[i] = q[i + 1]
<1> QED
  BY HeadTailProperties

\* The tail of a queue holds the same of X when the head is not in X, ...
LEMMA TailOther ==
    ASSUME NEW T, NEW q \in Seq(T), q # <<>>, NEW X, Head(q) \notin X
    PROVE  Same(Tail(q), q, X)
<1> DEFINE r == Tail(q)
<1>1. /\ Len(q) \in Nat /\ Len(q) > 0 /\ Len(r) = Len(q) - 1
      /\ q[1] \notin X
      /\ \A i \in 1 .. Len(q) - 1 : r[i] = q[i + 1]
  BY TailPlaces
<1> HIDE DEF r
<1>2. ASSUME NEW i \in 1 .. Len(q), q[i] \in X
      PROVE  i - 1 \in 1 .. Len(r) /\ r[i - 1] = q[i]
  BY <1>1, <1>2
<1>3. ASSUME NEW i \in 1 .. Len(r)
      PROVE  i + 1 \in 1 .. Len(q) /\ r[i] = q[i + 1]
  BY <1>1
<1>4. ASSUME Once(q, X), NEW i \in 1 .. Len(r), NEW j \in 1 .. Len(r), r[i] \in X, r[j] \in X
      PROVE  i = j
  <2>1. i + 1 = j + 1
    BY <1>3, <1>4 DEF Once
  <2> QED
    BY <2>1
<1>5. Same(r, q, X)
  BY <1>2, <1>3, <1>4 DEF Same, InQueue, Once
<1> QED
  BY <1>5 DEF r

\* ... and nothing of it when the only one was the head.
LEMMA TailRest ==
    ASSUME NEW T, NEW q \in Seq(T), q # <<>>, NEW X, Once(q, X), Head(q) \in X
    PROVE  Some(q, X) /\ ~Some(Tail(q), X)
<1>1. /\ Len(q) \in Nat /\ Len(q) > 0 /\ Len(Tail(q)) = Len(q) - 1
      /\ q[1] \in X
      /\ \A i \in 1 .. Len(q) - 1 : Tail(q)[i] = q[i + 1]
  BY TailPlaces
<1>2. \A i \in 1 .. Len(q) - 1 : q[i + 1] \notin X
  <2> SUFFICES ASSUME NEW i \in 1 .. Len(q) - 1, q[i + 1] \in X PROVE FALSE
    OBVIOUS
  <2>1. 1 = i + 1
    BY <1>1 DEF Once
  <2> QED
    BY <2>1
<1> QED
  BY <1>1, <1>2 DEF Some

\* What is not in X changes nothing ...
LEMMA AppendOther ==
    ASSUME NEW T, NEW q \in Seq(T), NEW e, NEW X, e \notin X
    PROVE  Same(Append(q, e), q, X)
<1>1. \A i \in 1 .. Len(<<e>>) : <<e>>[i] \notin X
  OBVIOUS
<1> QED
  BY <1>1, AppendSpliced, SplicedOther

\* The same for an acknowledgment, ...
LEMMA AckOther ==
    ASSUME NEW T, NEW q \in Seq(T), NEW e \in T, NEW X, e \notin X
    PROVE  Same(EnqueueAck(q, e), q, X)
<1>1. \A i \in 1 .. Len(<<e>>) : <<e>>[i] \notin X
  OBVIOUS
<1> QED
  BY <1>1, AckSpliced, SplicedOther

\* ... for a row of segments, ...
LEMMA AllOther ==
    ASSUME NEW T, NEW q \in Seq(T), NEW set, set \subseteq T, IsFiniteSet(set), NEW X,
           \A x \in set : x \notin X
    PROVE  Same(EnqueueAll(q, set), q, X)
<1>1. InOrder(set) \in Seq(T) /\ InOrder(set) \in Seq(set)
  BY InOrderType
<1>2. \A i \in 1 .. Len(InOrder(set)) : InOrder(set)[i] \notin X
  BY <1>1
<1> QED
  BY <1>1, <1>2, AllSpliced, SplicedOther

\* ... and for a row of reports.
LEMMA AcksOther ==
    ASSUME NEW T, NEW q \in Seq(T), NEW set, set \subseteq T, IsFiniteSet(set), NEW X,
           \A x \in set : x \notin X
    PROVE  Same(EnqueueAcks(q, InOrder(set)), q, X)
<1>1. InOrder(set) \in Seq(T) /\ InOrder(set) \in Seq(set)
  BY InOrderType
<1>2. \A i \in 1 .. Len(InOrder(set)) : InOrder(set)[i] \notin X
  BY <1>1
<1> QED
  BY <1>1, <1>2, AcksSpliced, SplicedOther

\* ... and when the queue has nothing of X, only what is added counts.
LEMMA AppendCounts ==
    ASSUME NEW T, NEW q \in Seq(T), NEW e, NEW X, ~Some(q, X)
    PROVE  Same(Append(q, e), <<e>>, X)
<1> QED
  BY AppendSpliced, SplicedNew

\* The same for an acknowledgment, ...
LEMMA AckCounts ==
    ASSUME NEW T, NEW q \in Seq(T), NEW e \in T, NEW X, ~Some(q, X)
    PROVE  Same(EnqueueAck(q, e), <<e>>, X)
<1> QED
  BY AckSpliced, SplicedNew

\* ... for a row of segments, ...
LEMMA AllCounts ==
    ASSUME NEW T, NEW q \in Seq(T), NEW set, set \subseteq T, IsFiniteSet(set), NEW X,
           ~Some(q, X)
    PROVE  Same(EnqueueAll(q, set), InOrder(set), X)
<1>1. InOrder(set) \in Seq(T)
  BY InOrderType
<1> QED
  BY <1>1, AllSpliced, SplicedNew

\* ... and for a row of reports.
LEMMA AcksCount ==
    ASSUME NEW T, NEW q \in Seq(T), NEW set, set \subseteq T, IsFiniteSet(set), NEW X,
           ~Some(q, X)
    PROVE  Same(EnqueueAcks(q, InOrder(set)), InOrder(set), X)
<1>1. InOrder(set) \in Seq(T)
  BY InOrderType
<1> QED
  BY <1>1, AcksSpliced, SplicedNew

(***************************************************************************)
(* One signal.                                                             *)
(***************************************************************************)
\* The lists E and F have an entry for the same segments of X, and F one each.
Matching(E, F, X) ==
    /\ \A d \in F : d.seg \in X => \E c \in E : c.seg = d.seg
    /\ \A c \in E : c.seg \in X => \E d \in F : d.seg = c.seg
    /\ \A c, d \in F : c.seg \in X /\ d.seg \in X => c = d

\* What is armed in F was armed in E.
NotRearmed(E, F, X) ==
    \A d \in F : d.seg \in X /\ d.armed => \E c \in E : c.seg = d.seg /\ c.armed

\* F is E with the entries of D changed, but not their segments.
IsRevised(E, F, D, g) ==
    /\ D \subseteq E
    /\ F = (E \ D) \cup {g[c] : c \in D}
    /\ \A c \in D : g[c].seg = c.seg

\* A revision of a list matches it, where signals are unique.
LEMMA RevisedMatches ==
    ASSUME NEW E, NEW F, NEW D, NEW g, IsRevised(E, F, D, g), NEW X,
           \A c, d \in E : c.seg \in X /\ d.seg \in X => c = d
    PROVE  Matching(E, F, X)
<1>1. ASSUME NEW d \in F
      PROVE  d \in E \ D \/ \E c \in D : d = g[c]
  BY DEF IsRevised
<1>2. ASSUME NEW c \in E
      PROVE  \E d \in F : d.seg = c.seg
  BY DEF IsRevised
<1>3. D \subseteq E /\ \A c \in D : g[c].seg = c.seg
  BY DEF IsRevised
<1>4. ASSUME NEW d \in F
      PROVE  \E c \in E : c.seg = d.seg
  BY <1>1, <1>3
<1>5. ASSUME NEW d \in F, NEW e \in F, d.seg \in X, e.seg \in X
      PROVE  d = e
  BY <1>1, <1>3, <1>5
<1> QED
  BY <1>2, <1>4, <1>5 DEF Matching

\* A list matches itself.
LEMMA SignalMatches ==
    ASSUME NEW E, NEW X, NEW q, NEW tl, NEW ev, Signal(E, X, q, tl, ev)
    PROVE  Matching(E, E, X) /\ NotRearmed(E, E, X)
<1> QED
  BY DEF Signal, Matching, NotRearmed

\* A step that does not touch the signal.
LEMMA SignalKept ==
    ASSUME NEW E, NEW F, NEW X, NEW q, NEW r, NEW tl, NEW tm, NEW ev,
           Signal(E, X, q, tl, ev), Matching(E, F, X), NotRearmed(E, F, X),
           Same(r, q, X), ev \in tm <=> ev \in tl
    PROVE  Signal(F, X, r, tm, ev)
<1>1. Some(r, X) <=> Some(q, X)
  BY SameSome
<1>2. ASSUME NEW i \in 1 .. Len(r), r[i] \in X
      PROVE  \E d \in F : d.seg = r[i]
  <2>1. PICK j \in 1 .. Len(q) : q[j] = r[i]
    BY <1>2 DEF Same, InQueue
  <2>2. PICK c \in E : c.seg = q[j]
    BY <1>2, <2>1 DEF Signal
  <2> QED
    BY <1>2, <2>1, <2>2 DEF Matching
<1>3. Once(r, X)
  BY DEF Same, Signal
<1>4. ev \in tm => ~Some(r, X) /\ \E d \in F : d.seg \in X
  BY <1>1 DEF Signal, Matching
<1>5. \A d \in F : d.armed /\ d.seg \in X => ev \in tm \/ Some(r, X)
  BY <1>1 DEF Signal, NotRearmed
<1> QED
  BY <1>2, <1>3, <1>4, <1>5 DEF Signal, Matching

\* The signal is sent, and its event set.
LEMMA SignalSent ==
    ASSUME NEW E, NEW F, NEW X, NEW T, NEW q \in Seq(T), NEW tl, NEW tm, NEW ev,
           Signal(E, X, q, tl, ev), Matching(E, F, X),
           q # <<>>, Head(q) \in X, ev \in tm
    PROVE  Signal(F, X, Tail(q), tm, ev)
<1>1. ~Some(Tail(q), X)
  BY TailRest DEF Signal
<1>2. \E c \in E : c.seg = Head(q)
  <2>1. Len(q) \in Nat /\ Len(q) > 0 /\ Head(q) = q[1]
    BY TailPlaces
  <2> QED
    BY <2>1 DEF Signal
<1>3. \E d \in F : d.seg \in X
  BY <1>2 DEF Matching
<1> DEFINE r == Tail(q)
<1>4. ~Some(r, X)
  BY <1>1
<1> HIDE DEF r
<1>5. Once(r, X) /\ \A i \in 1 .. Len(r) : r[i] \notin X
  BY <1>4 DEF Some, Once
<1>6. Signal(F, X, r, tm, ev)
  BY <1>3, <1>4, <1>5 DEF Signal, Matching
<1> QED
  BY <1>6 DEF r

\* Its event comes, and the signal is queued again.
LEMMA SignalResent ==
    ASSUME NEW E, NEW F, NEW X, NEW r, NEW q, NEW tl, NEW tm, NEW ev,
           Signal(E, X, q, tl, ev), Matching(E, F, X), ev \notin tm,
           NEW c \in E, c.seg \in X, Same(r, <<c.seg>>, X)
    PROVE  Signal(F, X, r, tm, ev)
<1> DEFINE a == <<c.seg>>
<1>1. Len(a) = 1 /\ a[1] = c.seg
  OBVIOUS
<1>2. Same(r, a, X)
  OBVIOUS
<1> HIDE DEF a
<1>3. PICK d \in F : d.seg = c.seg
  BY DEF Matching
<1>4. Once(a, X)
  BY <1>1 DEF Once
<1>5. Once(r, X) /\ \A i \in 1 .. Len(r) : r[i] \in X => r[i] = c.seg
  BY <1>1, <1>2, <1>4 DEF Same, InQueue
<1>6. Some(r, X)
  BY <1>1, <1>2, SameSome DEF Some
<1> QED
  BY <1>3, <1>5, <1>6 DEF Signal, Matching

\* Its event comes when it is not armed.
LEMMA SignalEnded ==
    ASSUME NEW E, NEW X, NEW q, NEW tl, NEW tm, NEW ev, Signal(E, X, q, tl, ev),
           ev \notin tm, \A c \in E : c.seg \in X => ~c.armed
    PROVE  Signal(E, X, q, tm, ev)
<1> QED
  BY DEF Signal

\* A signal for which there is no entry is not queued and not due.
LEMMA SignalAbsent ==
    ASSUME NEW E, NEW X, NEW q, NEW tl, NEW ev, Signal(E, X, q, tl, ev),
           \A c \in E : c.seg \notin X
    PROVE  ~Some(q, X) /\ ev \notin tl
<1> QED
  BY DEF Signal, Some

\* The signal is new: an entry that is not armed, and queued at most once.
LEMMA SignalNew ==
    ASSUME NEW F, NEW X, NEW r, NEW a, NEW tm, NEW ev,
           \A c, d \in F : c.seg \in X /\ d.seg \in X => c = d,
           \A c \in F : c.seg \in X => ~c.armed,
           \A i \in 1 .. Len(a) : a[i] \in X => \E c \in F : c.seg = a[i],
           Once(a, X), Same(r, a, X), ev \notin tm
    PROVE  Signal(F, X, r, tm, ev)
<1>1. Once(r, X)
  BY DEF Same
<1>2. ASSUME NEW i \in 1 .. Len(r), r[i] \in X
      PROVE  \E c \in F : c.seg = r[i]
  <2>1. PICK j \in 1 .. Len(a) : a[j] = r[i]
    BY <1>2 DEF Same, InQueue
  <2> QED
    BY <1>2, <2>1
<1> QED
  BY <1>1, <1>2 DEF Signal

\* The session is over.
LEMMA SignalNone ==
    ASSUME NEW X, NEW r, NEW tm, NEW ev, ~Some(r, X), ev \notin tm
    PROVE  Signal({}, X, r, tm, ev)
<1> QED
  BY DEF Signal, Some, Once

(***************************************************************************)
(* How a block and its missing parts are cut.                              *)
(***************************************************************************)
\* Two runs of a set, or two pieces of a row, with a unit in common are one.
LEMMA RunsApart ==
    ASSUME NEW set, NEW n \in Nat, NEW p \in Runs(set, n), NEW q \in Runs(set, n),
           NEW u \in Nat, p[1] <= u, u < p[2], q[1] <= u, u < q[2]
    PROVE  p = q
<1>1. /\ p = <<p[1], p[2]>> /\ p[1] \in Nat /\ p[2] \in Nat
      /\ q = <<q[1], q[2]>> /\ q[1] \in Nat /\ q[2] \in Nat
      /\ (p[1] .. p[2] - 1) \subseteq set /\ p[1] - 1 \notin set /\ p[2] \notin set
      /\ (q[1] .. q[2] - 1) \subseteq set /\ q[1] - 1 \notin set /\ q[2] \notin set
  BY DEF Runs
<1>2. ~(p[1] < q[1]) /\ ~(q[1] < p[1])
  <2>1. p[1] < q[1] => q[1] - 1 \in p[1] .. p[2] - 1
    BY <1>1
  <2>2. q[1] < p[1] => p[1] - 1 \in q[1] .. q[2] - 1
    BY <1>1
  <2> QED
    BY <1>1, <2>1, <2>2
<1>3. ~(p[2] < q[2]) /\ ~(q[2] < p[2])
  <2>1. p[2] < q[2] => p[2] \in q[1] .. q[2] - 1
    BY <1>1
  <2>2. q[2] < p[2] => q[2] \in p[1] .. p[2] - 1
    BY <1>1
  <2> QED
    BY <1>1, <2>1, <2>2
<1> QED
  BY <1>1, <1>2, <1>3

\* Two pieces of an extent with an end in common are one.
LEMMA PiecesApart ==
    ASSUME NEW cuts, cuts \subseteq Int, NEW p \in Pieces(cuts), NEW q \in Pieces(cuts),
           p[1] = q[1] \/ p[2] = q[2]
    PROVE  p = q
<1>1. /\ p = <<p[1], p[2]>> /\ p[1] \in cuts /\ p[2] \in cuts /\ p[1] < p[2]
      /\ q = <<q[1], q[2]>> /\ q[1] \in cuts /\ q[2] \in cuts /\ q[1] < q[2]
      /\ \A c \in cuts : ~(p[1] < c /\ c < p[2]) /\ ~(q[1] < c /\ c < q[2])
  BY DEF Pieces
<1>2. p[1] = q[1] /\ p[2] = q[2]
  BY <1>1
<1> QED
  BY <1>1, <1>2

\* The segment x is the piece p of the run.
LastRun(set, n, run) == \A r \in Runs(set, n) : r[2] <= run[2]

IsCut(x, s, missing, rpt, ckpt, run, p) ==
    /\ run \in Runs(missing, RedLen(s))
    /\ p \in Pieces(RedCuts(run[1], run[2], LastRun(missing, RedLen(s), run)))
    /\ x = LET isCkpt == LastRun(missing, RedLen(s), run) /\ p[2] = run[2] IN
           [type |-> RedType(s, p[2], isCkpt), session |-> s,
            lo |-> p[1], hi |-> p[2],
            ckpt |-> IF isCkpt THEN ckpt ELSE 0,
            rpt |-> IF isCkpt THEN rpt ELSE 0]

\* Every red segment is such a cut.
LEMMA RedSegmentIsCut ==
    ASSUME NEW s, NEW missing, NEW rpt, NEW ckpt,
           NEW x \in RedSegmentsFor(s, missing, rpt, ckpt)
    PROVE  \E run, p : IsCut(x, s, missing, rpt, ckpt, run, p)
<1>1. PICK run \in Runs(missing, RedLen(s)) :
          x \in RedSegments(s, run, LastRun(missing, RedLen(s), run), rpt, ckpt)
  BY DEF RedSegmentsFor, LastRun
<1>2. PICK p \in Pieces(RedCuts(run[1], run[2], LastRun(missing, RedLen(s), run))) :
          x = LET isCkpt == LastRun(missing, RedLen(s), run) /\ p[2] = run[2] IN
              [type |-> RedType(s, p[2], isCkpt), session |-> s,
               lo |-> p[1], hi |-> p[2],
               ckpt |-> IF isCkpt THEN ckpt ELSE 0,
               rpt |-> IF isCkpt THEN rpt ELSE 0]
  BY <1>1, Zenon DEF RedSegments
<1> QED
  BY <1>2 DEF IsCut

\* What a piece says of its segment.
LEMMA CutShape ==
    ASSUME NEW s \in Sessions, NEW missing, NEW rpt, NEW ckpt, NEW x, NEW run, NEW p,
           IsCut(x, s, missing, rpt, ckpt, run, p)
    PROVE  /\ x.session = s /\ x.lo = p[1] /\ x.hi = p[2]
           /\ run[1] \in Nat /\ run[2] \in Nat /\ x.lo \in Nat /\ x.hi \in Nat
           /\ run[1] <= x.lo /\ x.lo < x.hi /\ x.hi <= run[2] /\ run[2] <= RedLen(s)
           /\ (run[1] .. run[2] - 1) \subseteq missing
           /\ IsRed(x)
           /\ IsCkpt(x) => /\ LastRun(missing, RedLen(s), run) /\ x.hi = run[2]
                           /\ x.ckpt = ckpt /\ x.rpt = rpt
           /\ x.hi = RedLen(s) =>
                 x.type = IF AllRed(s) THEN "DsRedEOB" ELSE "DsRedEORP"
           /\ x.type = "DsRedEOB" => AllRed(s) /\ x.hi = RedLen(s)
<1> DEFINE isLast == LastRun(missing, RedLen(s), run)
           isCkpt == isLast /\ p[2] = run[2]
           cuts == RedCuts(run[1], run[2], isLast)
<1>1. RedLen(s) \in Nat /\ Block[s].total \in Nat /\ RedLen(s) <= Block[s].total
  BY ConstantsAssumption DEF RedLen
<1>2. /\ run[1] \in 0 .. RedLen(s) /\ run[2] \in 0 .. RedLen(s)
      /\ (run[1] .. run[2] - 1) \subseteq missing
  BY DEF IsCut, Runs
<1>3. p[1] \in cuts /\ p[2] \in cuts /\ p[1] < p[2] /\ cuts \subseteq run[1] .. run[2]
  BY DEF IsCut, Pieces, RedCuts
<1>4. /\ x.session = s /\ x.lo = p[1] /\ x.hi = p[2]
      /\ x.type = RedType(s, p[2], isCkpt)
      /\ isCkpt => x.ckpt = ckpt /\ x.rpt = rpt
  BY DEF IsCut
<1>5. IsRed(x) /\ (IsCkpt(x) => isCkpt)
  <2>1. /\ x.type \in DataTypes \ GreenTypes
        /\ ~isCkpt => x.type = "DsRed"
    <3> HIDE DEF isCkpt
    <3> QED
      BY <1>4, RedTypeType
  <2> HIDE DEF isCkpt
  <2> QED
    BY <2>1 DEF IsRed, IsCkpt, CkptTypes
<1>6. p[2] \in Nat /\ p[1] \in Nat /\ p[2] <= run[2] /\ run[1] <= p[1]
  BY <1>1, <1>2, <1>3
<1>7. x.hi = RedLen(s) => isCkpt
  <2>1. x.hi = RedLen(s) => run[2] = RedLen(s)
    BY <1>1, <1>2, <1>4, <1>6
  <2>2. \A r \in Runs(missing, RedLen(s)) : r[2] <= RedLen(s)
    BY <1>1 DEF Runs
  <2> QED
    BY <1>4, <2>1, <2>2 DEF LastRun
<1> HIDE DEF isCkpt
<1>8. x.hi = RedLen(s) => x.type = IF AllRed(s) THEN "DsRedEOB" ELSE "DsRedEORP"
  BY <1>1, <1>4, <1>7 DEF RedType, AllRed
<1>9. x.type = "DsRedEOB" => AllRed(s) /\ x.hi = RedLen(s)
  BY <1>1, <1>2, <1>4, <1>6 DEF RedType, AllRed
<1> QED
  BY <1>1, <1>2, <1>3, <1>4, <1>5, <1>6, <1>8, <1>9 DEF isCkpt

\* The segments of a set of units do not overlap, and one of them at most is
\* a checkpoint.
LEMMA RedSegmentsApart ==
    ASSUME NEW s \in Sessions, NEW missing, NEW rpt, NEW ckpt,
           NEW x \in RedSegmentsFor(s, missing, rpt, ckpt),
           NEW y \in RedSegmentsFor(s, missing, rpt, ckpt)
    PROVE  (x.lo = y.lo => x = y) /\ (IsCkpt(x) /\ IsCkpt(y) => x = y)
<1>1. PICK run, p : IsCut(x, s, missing, rpt, ckpt, run, p)
  BY RedSegmentIsCut
<1>2. PICK ron, q : IsCut(y, s, missing, rpt, ckpt, ron, q)
  BY RedSegmentIsCut
<1>3. /\ x.lo = p[1] /\ x.hi = p[2] /\ run[1] \in Nat /\ run[2] \in Nat
      /\ x.lo \in Nat /\ x.hi \in Nat
      /\ run[1] <= x.lo /\ x.lo < x.hi /\ x.hi <= run[2]
      /\ IsCkpt(x) => LastRun(missing, RedLen(s), run) /\ x.hi = run[2]
  BY <1>1, CutShape
<1>4. /\ y.lo = q[1] /\ y.hi = q[2] /\ ron[1] \in Nat /\ ron[2] \in Nat
      /\ y.lo \in Nat /\ y.hi \in Nat
      /\ ron[1] <= y.lo /\ y.lo < y.hi /\ y.hi <= ron[2]
      /\ IsCkpt(y) => LastRun(missing, RedLen(s), ron) /\ y.hi = ron[2]
  BY <1>2, CutShape
<1>5. run \in Runs(missing, RedLen(s)) /\ ron \in Runs(missing, RedLen(s)) /\ RedLen(s) \in Nat
  BY <1>1, <1>2, ConstantsAssumption DEF IsCut, RedLen
<1>6. CASE x.lo = y.lo
  <2>1. run = ron
    BY <1>3, <1>4, <1>5, <1>6, RunsApart
  <2>2. RedCuts(run[1], run[2], LastRun(missing, RedLen(s), run)) \subseteq Int
    BY <1>3 DEF RedCuts
  <2>3. p = q
    BY <1>1, <1>2, <1>3, <1>4, <1>6, <2>1, <2>2, PiecesApart DEF IsCut
  <2> QED
    BY <1>1, <1>2, <2>1, <2>3 DEF IsCut
<1>7. CASE IsCkpt(x) /\ IsCkpt(y)
  <2>1. run[2] = ron[2]
    BY <1>3, <1>4, <1>5, <1>7 DEF LastRun
  <2>2. run = ron
    <3>1. /\ run[2] - 1 \in Nat /\ run[1] <= run[2] - 1 /\ run[2] - 1 < run[2]
          /\ ron[1] <= run[2] - 1 /\ run[2] - 1 < ron[2]
      BY <1>3, <1>4, <2>1
    <3> QED
      BY <1>5, <3>1, RunsApart
  <2>3. RedCuts(run[1], run[2], LastRun(missing, RedLen(s), run)) \subseteq Int
    BY <1>3 DEF RedCuts
  <2>4. p = q
    BY <1>1, <1>2, <1>3, <1>4, <1>7, <2>2, <2>3, PiecesApart DEF IsCut
  <2> QED
    BY <1>1, <1>2, <2>2, <2>4 DEF IsCut
<1> QED
  BY <1>6, <1>7

\* The green segments of a block come after its red part, and one of them
\* ends the block.
LEMMA GreenSegmentsApart ==
    ASSUME NEW s \in Sessions, NEW x \in GreenSegments(s)
    PROVE  /\ x.session = s /\ x.lo \in Nat /\ x.hi \in Nat /\ x.lo < x.hi
           /\ RedLen(s) <= x.lo /\ ~AllRed(s)
           /\ x.type = IF x.hi = Block[s].total THEN "DsGreenEOB" ELSE "DsGreen"
           /\ \A y \in GreenSegments(s) : x.lo = y.lo \/ x.hi = y.hi => x = y
<1> DEFINE cuts == RedCuts(RedLen(s), Block[s].total, FALSE)
           seg(p) == [type |-> IF p[2] = Block[s].total THEN "DsGreenEOB" ELSE "DsGreen",
                      session |-> s, lo |-> p[1], hi |-> p[2], ckpt |-> 0, rpt |-> 0]
<1>1. RedLen(s) \in Nat /\ Block[s].total \in Nat
  BY ConstantsAssumption DEF RedLen
<1>2. \A c \in cuts : c \in Nat /\ RedLen(s) <= c /\ c <= Block[s].total
  <2>1. \A a, b \in Nat : \A c \in RedCuts(a, b, FALSE) : c \in Nat /\ a <= c /\ c <= b
    BY DEF RedCuts
  <2> QED
    BY <1>1, <2>1
<1>3. \A y \in GreenSegments(s) : \E p \in Pieces(cuts) : y = seg(p)
  BY DEF GreenSegments
<1> HIDE DEF cuts
<1>4. cuts \subseteq Int
  BY <1>2
<1>5. PICK p \in Pieces(cuts) : x = seg(p)
  BY <1>3
<1>6. p[1] \in cuts /\ p[2] \in cuts /\ p[1] < p[2]
      /\ p[1] \in Nat /\ p[2] \in Nat /\ RedLen(s) <= p[1] /\ p[2] <= Block[s].total
  <2>1. p[1] \in cuts /\ p[2] \in cuts /\ p[1] < p[2]
    BY DEF Pieces
  <2> QED
    BY <1>1, <1>2, <2>1
<1>7. ASSUME NEW y \in GreenSegments(s), x.lo = y.lo \/ x.hi = y.hi
      PROVE  x = y
  <2>1. PICK q \in Pieces(cuts) : y = seg(q)
    BY <1>3
  <2>2. p = q
    BY <1>4, <1>5, <1>7, <2>1, PiecesApart
  <2> QED
    BY <1>5, <2>1, <2>2
<1>8. /\ x.session = s /\ x.lo = p[1] /\ x.hi = p[2]
      /\ x.type = IF x.hi = Block[s].total THEN "DsGreenEOB" ELSE "DsGreen"
  BY <1>5
<1> HIDE DEF seg
<1>9. ~AllRed(s)
  BY <1>1, <1>6 DEF AllRed
<1> QED
  BY <1>6, <1>7, <1>8, <1>9

(***************************************************************************)
(* Checkpoints.                                                            *)
(***************************************************************************)
\* A step that leaves the checkpoints of session s alone.
QueueKeeps(s) == \A k \in Nat : Same(expQueue', expQueue, CkptNumbered(s, k))
EventsKeep(s) ==
    \A k \in Nat : ResendCheckpointEvent(s, k) \in expTimeline'
                       <=> ResendCheckpointEvent(s, k) \in expTimeline

\* A signal is kept when nothing of it changes, ...
LEMMA CkptKept ==
    ASSUME NEW s \in Sessions, NEW k \in Nat, CkptSignal(s, k),
           Matching(ckpts[s], ckpts'[s], CkptNumbered(s, k)),
           NotRearmed(ckpts[s], ckpts'[s], CkptNumbered(s, k)),
           Same(expQueue', expQueue, CkptNumbered(s, k)),
           ResendCheckpointEvent(s, k) \in expTimeline'
               <=> ResendCheckpointEvent(s, k) \in expTimeline
    PROVE  CkptSignal(s, k)'
<1>1. Signal(ckpts'[s], CkptNumbered(s, k), expQueue',
             expTimeline', ResendCheckpointEvent(s, k))
  BY SignalKept DEF CkptSignal
<1> QED
  BY <1>1 DEF CkptSignal, CkptNumbered

\* ... and so are all those of a session.
LEMMA CkptsStay ==
    ASSUME NEW s \in Sessions, CkptSignals(s), QueueKeeps(s), EventsKeep(s),
           ckpts'[s] = ckpts[s], lastCkpt'[s] = lastCkpt[s]
    PROVE  CkptSignals(s)'
<1>1. ASSUME NEW k \in Nat
      PROVE  CkptSignal(s, k)'
  <2>1. CkptSignal(s, k)
    BY DEF CkptSignals
  <2>2. Matching(ckpts[s], ckpts'[s], CkptNumbered(s, k))
        /\ NotRearmed(ckpts[s], ckpts'[s], CkptNumbered(s, k))
    BY <2>1, SignalMatches DEF CkptSignal
  <2> QED
    BY <2>1, <2>2, CkptKept DEF QueueKeeps, EventsKeep
<1>2. \A c \in ckpts'[s] : IsCkpt(c.seg) /\ c.seg.ckpt <= lastCkpt'[s]
  BY DEF CkptSignals
<1> QED
  BY <1>1, <1>2 DEF CkptSignals

\* No acknowledgment is a checkpoint.
LEMMA NumberedCkpts ==
    ASSUME NEW s \in Sessions, NEW k \in Nat
    PROVE  /\ \A x \in CkptNumbered(s, k) :
                 /\ IsCkpt(x) /\ x.type \in DataTypes
                 /\ x \in Segments /\ x.session = s /\ x.ckpt = k
           /\ \A t, r : RA(t, r) \notin CkptNumbered(s, k)
           /\ \A t, type : type \notin CkptTypes => Cancel(type, t) \notin CkptNumbered(s, k)
<1>1. \A x \in CkptNumbered(s, k) : x.type \in CkptTypes
  BY DEF CkptNumbered, IsCkpt
<1>2. \A t, r : RA(t, r).type \notin CkptTypes
  BY DEF RA, CkptTypes
<1>3. \A t, type : Cancel(type, t).type = type
  BY DEF Cancel
<1>4. \A x \in CkptNumbered(s, k) : x \in Segments /\ x.session = s /\ x.ckpt = k
  BY DEF CkptNumbered
<1> QED
  BY <1>1, <1>2, <1>3, <1>4 DEF IsCkpt, DataTypes

\* The queue keeps the checkpoints of s when it does not change, ...
LEMMA QueueUnchanged ==
    ASSUME expQueue' = expQueue, NEW s \in Sessions
    PROVE  QueueKeeps(s)
<1> QED
  BY SameItself DEF QueueKeeps

\* ... when something else is put into it, ...
LEMMA AckedKeeps ==
    ASSUME NEW q \in Seq(Segments), NEW e \in Segments, e.type \notin CkptTypes,
           NEW s \in Sessions, NEW k \in Nat
    PROVE  Same(EnqueueAck(q, e), q, CkptNumbered(s, k))
<1>1. e \notin CkptNumbered(s, k)
  BY DEF CkptNumbered, IsCkpt
<1> QED
  BY <1>1, AckOther

\* ... and when another session is stopped.
LEMMA StoppedKeeps ==
    ASSUME NEW q \in Seq(Segments), NEW t, NEW s \in Sessions, s # t, NEW k \in Nat
    PROVE  Same(StoppedQueue(q, t), q, CkptNumbered(s, k))
<1>1. \A x \in CkptNumbered(s, k) : ~(x.session = t /\ x.type \in DataTypes)
  BY DEF CkptNumbered
<1> QED
  BY <1>1, PurgeOther DEF StoppedQueue

\* The event of a checkpoint is no other event.
LEMMA EventsApart ==
    ASSUME NEW s \in Sessions, NEW k \in Nat
    PROVE  /\ \A t, j : ResendCheckpointEvent(t, j) = ResendCheckpointEvent(s, k)
                            <=> t = s /\ j = k
           /\ \A t : /\ ResendXmitCancelEvent(t) # ResendCheckpointEvent(s, k)
                     /\ ForgetExportEvent(t) # ResendCheckpointEvent(s, k)
           /\ \A t \in Sessions : t # s => ResendCheckpointEvent(s, k) \notin CkptEvents(t)
<1>1. \A t, j : ResendCheckpointEvent(t, j) = ResendCheckpointEvent(s, k)
                            <=> t = s /\ j = k
  BY DEF ResendCheckpointEvent
<1>2. \A t : /\ ResendXmitCancelEvent(t) # ResendCheckpointEvent(s, k)
             /\ ForgetExportEvent(t) # ResendCheckpointEvent(s, k)
  BY DEF ResendCheckpointEvent, ResendXmitCancelEvent, ForgetExportEvent
<1> QED
  BY <1>1, <1>2 DEF CkptEvents

\* A session that another one's cancellation leaves alone.
LEMMA CanceledOther ==
    ASSUME TypeOK, NEW s \in Sessions, NEW t \in Sessions, NEW q \in Seq(Segments),
           NEW timeline, CkptSignals(s), CancelSessionBySender(t, q, timeline),
           \A k \in Nat : Same(q, expQueue, CkptNumbered(s, k)),
           \A k \in Nat : ResendCheckpointEvent(s, k) \in timeline
                              <=> ResendCheckpointEvent(s, k) \in expTimeline,
           s # t
    PROVE  CkptSignals(s)'
<1>1. QueueKeeps(s)
  <2> SUFFICES ASSUME NEW k \in Nat
               PROVE  Same(expQueue', expQueue, CkptNumbered(s, k))
    BY DEF QueueKeeps
  <2>1. Same(StoppedQueue(q, t), q, CkptNumbered(s, k))
    BY StoppedKeeps
  <2>2. Cancel("CS", t) \notin CkptNumbered(s, k)
    BY NumberedCkpts DEF CkptTypes
  <2>3. StoppedQueue(q, t) \in Seq(Segments)
    BY PurgeType DEF StoppedQueue
  <2>4. Same(expQueue', StoppedQueue(q, t), CkptNumbered(s, k))
    BY <2>2, <2>3, AppendOther DEF CancelSessionBySender
  <2> QED
    BY <2>1, <2>4, SameTwice
<1>2. EventsKeep(s)
  BY EventsApart DEF EventsKeep, CancelSessionBySender
<1>3. ckpts'[s] = ckpts[s] /\ lastCkpt'[s] = lastCkpt[s]
  BY DEF CancelSessionBySender, LeaveExportSessions, TypeOK, ExpTypeOK
<1> QED
  BY <1>1, <1>2, <1>3, CkptsStay

\* An entry that is of no signal in X changes nothing for X.
LEMMA MatchingMore ==
    ASSUME NEW E, NEW F, NEW N, NEW X, \A d \in N : d.seg \notin X
    PROVE  /\ Matching(E, F, X) => Matching(E, F \cup N, X)
           /\ NotRearmed(E, F, X) => NotRearmed(E, F \cup N, X)
<1>1. ASSUME NEW d \in F \cup N, d.seg \in X
      PROVE  d \in F
  BY <1>1
<1>2. F \subseteq F \cup N
  OBVIOUS
<1> DEFINE G == F \cup N
<1> HIDE DEF G
<1>3. (\A d \in G : d.seg \in X => d \in F) /\ F \subseteq G
  BY <1>1, <1>2 DEF G
<1>4. Matching(E, F, X) => Matching(E, G, X)
  BY <1>3 DEF Matching
<1>5. NotRearmed(E, F, X) => NotRearmed(E, G, X)
  BY <1>3 DEF NotRearmed
<1> QED
  BY <1>4, <1>5 DEF G

\* The segments of an issue do not overlap.
LEMMA IssuedApart ==
    ASSUME NEW s \in Sessions, NEW x \in IssuedSegs(s), NEW y \in IssuedSegs(s), x.lo = y.lo
    PROVE  x = y
<1> DEFINE R == RedSegmentsFor(s, RedUnits(s), 0, 1)
           G == GreenSegments(s)
<1>1. \A z \in R : z.lo \in Nat /\ z.lo < RedLen(s)
  <2> SUFFICES ASSUME NEW z \in R PROVE z.lo \in Nat /\ z.lo < RedLen(s)
    OBVIOUS
  <2>1. PICK run, p : IsCut(z, s, RedUnits(s), 0, 1, run, p)
    BY RedSegmentIsCut
  <2>2. /\ z.lo \in Nat /\ z.hi \in Nat /\ run[2] \in Nat
        /\ z.lo < z.hi /\ z.hi <= run[2] /\ run[2] <= RedLen(s)
    BY <2>1, CutShape
  <2>3. RedLen(s) \in Nat
    BY ConstantsAssumption DEF RedLen
  <2> QED
    BY <2>2, <2>3
<1>2. \A z \in G : z.lo \in Nat /\ RedLen(s) <= z.lo
  BY GreenSegmentsApart
<1>3. RedLen(s) \in Nat
  BY ConstantsAssumption DEF RedLen
<1>4. x \in R \cup G /\ y \in R \cup G
  BY DEF IssuedSegs
<1>5. CASE x \in R /\ y \in R
  BY <1>5, RedSegmentsApart
<1>6. CASE x \in G /\ y \in G
  BY <1>6, GreenSegmentsApart
<1>7. x \in R /\ y \in G => x.lo # y.lo
  BY <1>1, <1>2, <1>3
<1>8. y \in R /\ x \in G => x.lo # y.lo
  BY <1>1, <1>2, <1>3
<1> QED
  BY <1>4, <1>5, <1>6, <1>7, <1>8

\* A new checkpoint of an issue or a retransmission, with the next number.
LEMMA NewCkptSignal ==
    ASSUME NEW s \in Sessions, NEW k \in Nat, NEW missing, NEW rpt \in Nat,
           NEW q \in Seq(Segments), ~Some(q, CkptNumbered(s, k)),
           NEW all, all \subseteq Segments, IsFiniteSet(all),
           RedSegmentsFor(s, missing, rpt, k) \subseteq all,
           \A x \in all : IsCkpt(x) => x \in RedSegmentsFor(s, missing, rpt, k),
           \A x \in all : x.lo \in Int,
           \A x, y \in all : x.lo = y.lo => x = y,
           NEW old, \A c \in old : c.seg \notin CkptNumbered(s, k),
           NEW new, new = {x \in RedSegmentsFor(s, missing, rpt, k) : IsCkpt(x)},
           NEW tm, NEW ev, ev \notin tm
    PROVE  Signal(old \cup {NewCkpt(x) : x \in new}, CkptNumbered(s, k),
                  EnqueueAll(q, all), tm, ev)
<1> DEFINE X == CkptNumbered(s, k)
           R == RedSegmentsFor(s, missing, rpt, k)
           F == old \cup {NewCkpt(x) : x \in new}
           a == InOrder(all)
           r == EnqueueAll(q, all)
<1>1. \A x, y \in new : x = y
  BY RedSegmentsApart
<1>2. \A x \in X : IsCkpt(x)
  BY NumberedCkpts
<1>3. \A x \in all : x \in X => x \in new
  BY <1>2
<1>4. Same(r, a, X)
  BY AllCounts
<1>5. InARow(a, all)
  BY InOrderOnce
<1>6. \A d \in F : d.seg \in X => \E x \in new : d = NewCkpt(x)
  OBVIOUS
<1>7. \A x \in new : NewCkpt(x).seg = x /\ ~NewCkpt(x).armed /\ NewCkpt(x) \in F
  BY DEF NewCkpt
<1> HIDE DEF X, R, F, a, r
<1>8. \A c, d \in F : c.seg \in X /\ d.seg \in X => c = d
  BY <1>1, <1>6
<1>9. \A c \in F : c.seg \in X => ~c.armed
  BY <1>6, <1>7
<1>10. \A x \in all : x \in X => \E c \in F : c.seg = x
  BY <1>3, <1>7
<1>11. \A i \in 1 .. Len(a) : a[i] \in X => \E c \in F : c.seg = a[i]
  BY <1>5, <1>10 DEF InARow
<1>12. \A x, y \in all : x \in X /\ y \in X => x = y
  BY <1>1, <1>3
<1>13. Once(a, X)
  BY <1>5, <1>12, RowSome
<1>14. Signal(F, X, r, tm, ev)
  BY <1>4, <1>8, <1>9, <1>11, <1>13, SignalNew
<1> QED
  BY <1>14 DEF X, F, r

\* The issue of a block: its checkpoint is the first.
LEMMA IssueCkpts ==
    ASSUME TypeOK, CkptsOwned, NEW s \in Sessions, CkptSignals(s),
           NEW t \in Sessions, IssueBlock(t)
    PROVE  CkptSignals(s)'
<1> DEFINE R == RedSegmentsFor(t, RedUnits(t), 0, 1)
           new == {x \in R : IsCkpt(x)}
           all == IssuedSegs(t)
<1>1. /\ ckpts' = [ckpts EXCEPT ![t] = {NewCkpt(x) : x \in new}]
      /\ lastCkpt' = [lastCkpt EXCEPT ![t] = IF new = {} THEN 0 ELSE 1]
      /\ expQueue' = EnqueueAll(expQueue, all)
      /\ expTimeline' = expTimeline
      /\ expState[t] = "idle"
  BY DEF IssueBlock, IssuedSegs
<1>2. /\ ckpts \in [Sessions -> SUBSET CkptEntries] /\ lastCkpt \in [Sessions -> Nat]
      /\ expQueue \in Seq(Segments)
  BY DEF TypeOK, ExpTypeOK
<1>3. all \subseteq Segments /\ IsFiniteSet(all) /\ all \subseteq DataSegments
  BY IssuedSegsType DEF Segments
<1>4. CASE s # t
  <2>1. QueueKeeps(s)
    <3>1. \A k \in Nat : \A x \in all : x \notin CkptNumbered(s, k)
      BY <1>4, AddedSegments DEF CkptNumbered
    <3> HIDE DEF all
    <3> QED
      BY <1>1, <1>2, <1>3, <3>1, AllOther DEF QueueKeeps
  <2>2. EventsKeep(s) /\ ckpts'[s] = ckpts[s] /\ lastCkpt'[s] = lastCkpt[s]
    BY <1>1, <1>2, <1>4 DEF EventsKeep
  <2> QED
    BY <2>1, <2>2, CkptsStay
<1>5. CASE s = t
  <2>1. ckpts[s] = {}
    BY <1>1, <1>5 DEF CkptsOwned
  <2>2. ASSUME NEW k \in Nat
        PROVE  ~Some(expQueue, CkptNumbered(s, k)) /\ ResendCheckpointEvent(s, k) \notin expTimeline
    BY <2>1, SignalAbsent DEF CkptSignals, CkptSignal
  <2>3. \A x \in all : x.lo \in Int
    BY <1>3 DEF DataSegments
  <2>4. \A x, y \in all : x.lo = y.lo => x = y
    BY IssuedApart
  <2>5. R \subseteq all /\ \A x \in all : IsCkpt(x) => x \in R
    <3>1. all = R \cup GreenSegments(t)
      BY DEF IssuedSegs
    <3>2. \A x \in GreenSegments(t) : ~IsCkpt(x)
      BY GreenSegmentsApart DEF IsCkpt, CkptTypes
    <3> HIDE DEF R, all
    <3> QED
      BY <3>1, <3>2
  <2>6. ckpts'[s] = {NewCkpt(x) : x \in new}
    BY <1>1, <1>2, <1>5
  <2>7. ASSUME NEW x \in new PROVE x.ckpt = 1
    <3>1. PICK run, p : IsCut(x, t, RedUnits(t), 0, 1, run, p)
      BY RedSegmentIsCut
    <3> QED
      BY <3>1, CutShape
  <2>8. ASSUME NEW k \in Nat
        PROVE  CkptSignal(s, k)'
    <3>1. CASE k = 1
      <4>1. Signal({} \cup {NewCkpt(x) : x \in new}, CkptNumbered(s, 1), EnqueueAll(expQueue, all),
                   expTimeline, ResendCheckpointEvent(s, 1))
        <5>1. \A c \in {} : c.seg \notin CkptNumbered(s, 1)
          OBVIOUS
        <5>2. ~Some(expQueue, CkptNumbered(s, 1)) /\ ResendCheckpointEvent(s, 1) \notin expTimeline
          BY <2>2
        <5>3. R \subseteq all /\ \A x \in all : IsCkpt(x) => x \in RedSegmentsFor(s, RedUnits(s), 0, 1)
          BY <1>5, <2>5
        <5> HIDE DEF all
        <5> QED
          BY <1>2, <1>3, <1>5, <2>3, <2>4, <5>1, <5>2, <5>3, NewCkptSignal
      <4>2. {} \cup {NewCkpt(x) : x \in new} = ckpts'[s]
        BY <2>6
      <4> QED
        BY <1>1, <3>1, <4>1, <4>2 DEF CkptSignal, CkptNumbered
    <3>2. CASE k # 1
      <4>1. \A x \in all : x \notin CkptNumbered(s, k)
        <5>1. \A x \in all : IsCkpt(x) => x.ckpt = 1
          BY <2>5, <2>7
        <5> QED
          BY <3>2, <5>1 DEF CkptNumbered
      <4>2. Same(expQueue', expQueue, CkptNumbered(s, k))
        <5> HIDE DEF all
        <5> QED
          BY <1>1, <1>2, <1>3, <4>1, AllOther
      <4>3. ~Some(expQueue', CkptNumbered(s, k))
        BY <2>2, <4>2, SameSome
      <4>4. \A c \in ckpts'[s] : c.seg \notin CkptNumbered(s, k)
        <5>1. \A x \in new : NewCkpt(x).seg \in all
          BY <2>5 DEF NewCkpt
        <5> QED
          BY <2>6, <4>1, <5>1
      <4>5. Signal(ckpts'[s], CkptNumbered(s, k), expQueue', expTimeline', ResendCheckpointEvent(s, k))
        BY <1>1, <2>2, <4>3, <4>4 DEF Signal, Some, Once
      <4> QED
        BY <4>5 DEF CkptSignal, CkptNumbered
    <3> QED
      BY <3>1, <3>2
  <2>9. \A c \in ckpts'[s] : IsCkpt(c.seg) /\ c.seg.ckpt <= lastCkpt'[s]
    <3> SUFFICES ASSUME NEW c \in ckpts'[s]
                 PROVE  IsCkpt(c.seg) /\ c.seg.ckpt <= lastCkpt'[s]
      OBVIOUS
    <3>1. PICK x \in new : c = NewCkpt(x)
      BY <2>6
    <3>2. c.seg = x /\ x.ckpt = 1 /\ lastCkpt'[s] = 1
      BY <1>1, <1>2, <1>5, <2>7, <3>1 DEF NewCkpt
    <3> QED
      BY <3>2
  <2> QED
    BY <2>8, <2>9 DEF CkptSignals
<1> QED
  BY <1>4, <1>5

\* Entries with new values of a field are those of the same segments.
LEMMA Deactivation ==
    ASSUME TypeOK, NEW rs \in ReportSegments, NEW X, NEW s, s = rs.session,
           \A c, d \in ckpts[s] : c.seg \in X /\ d.seg \in X => c = d
    PROVE  /\ Matching(ckpts[s], Deactivated(rs), X)
           /\ NotRearmed(ckpts[s], Deactivated(rs), X)
           /\ \A d \in Deactivated(rs) : \E c \in ckpts[s] : c.seg = d.seg
<1> DEFINE E == ckpts[s]
           D == CitedCkpt(rs)
           g == [c \in D |-> [c EXCEPT !.armed = FALSE]]
           F == (E \ D) \cup {g[c] : c \in D}
<1>1. E \subseteq CkptEntries
  BY DEF TypeOK, ExpTypeOK, ReportSegments
<1>2. D \in SUBSET E
  BY DEF CitedCkpt
<1>3. \A c \in D : g[c].seg = c.seg /\ ~g[c].armed
  BY <1>1, <1>2 DEF CkptEntries
<1>4. Deactivated(rs) = F
  BY DEF Deactivated
<1>5. \A d \in F : d \in E \/ \E c \in D : d = g[c]
  OBVIOUS
<1> HIDE DEF D, g
<1>6. IsRevised(E, F, D, g)
  BY <1>2, <1>3 DEF IsRevised
<1> HIDE DEF F
<1>8. Matching(E, F, X)
  BY <1>6, RevisedMatches
<1> HIDE DEF E
<1>7. NotRearmed(E, F, X) /\ \A d \in F : \E c \in E : c.seg = d.seg
  BY <1>2, <1>3, <1>5 DEF NotRearmed
<1> QED
  BY <1>4, <1>7, <1>8 DEF E

\* A report that asks for a retransmission: its checkpoint is the next.
LEMMA NegativeCkpts ==
    ASSUME TypeOK, NEW s \in Sessions, CkptSignals(s),
           NEW rs \in ReportSegments, NegativeReport(rs)
    PROVE  CkptSignals(s)'
<1> DEFINE t == rs.session
           missing == Units(rs) \ MergedClaims(rs)
           n == lastCkpt[t] + 1
           R == Resent(rs)
           new == {x \in R : IsCkpt(x)}
           q == AckedQueue(rs)
<1>1. /\ ckpts' = [ckpts EXCEPT ![t] = Deactivated(rs) \cup {NewCkpt(x) : x \in new}]
      /\ lastCkpt' = [lastCkpt EXCEPT ![t] = IF new = {} THEN @ ELSE @ + 1]
      /\ expQueue' = EnqueueAll(q, R)
      /\ expTimeline' = expTimeline
  BY DEF NegativeReport, Resent
<1>2. /\ ckpts \in [Sessions -> SUBSET CkptEntries] /\ lastCkpt \in [Sessions -> Nat]
      /\ expQueue \in Seq(Segments)
  BY DEF TypeOK, ExpTypeOK
<1>3. R \subseteq Segments /\ IsFiniteSet(R) /\ R \subseteq DataSegments
  BY ResentType DEF Segments
<1>4. t \in Sessions /\ rs.rpt \in Nat /\ RA(t, rs.rpt) \in Segments /\ n \in Nat
  BY <1>2, MadeSegments DEF ReportSegments
<1>5. q \in Seq(Segments)
  BY AckedQueueType DEF TypeOK
<1>6. ASSUME NEW k \in Nat
      PROVE  Same(q, expQueue, CkptNumbered(s, k))
  <2>1. RA(t, rs.rpt).type \notin CkptTypes
    BY DEF RA, CkptTypes
  <2> QED
    BY <1>2, <1>4, <2>1, AckedKeeps DEF AckedQueue
<1>7. R = RedSegmentsFor(t, missing, rs.rpt, n)
  BY DEF Resent
<1>8. \A x \in R : x.session = t
  BY AddedSegments
<1>9. \A x \in new : x.ckpt = n
  <2> SUFFICES ASSUME NEW x \in new PROVE x.ckpt = n
    OBVIOUS
  <2>1. PICK run, p : IsCut(x, t, missing, rs.rpt, n, run, p)
    BY <1>7, RedSegmentIsCut
  <2> QED
    BY <1>4, <2>1, CutShape
<1> HIDE DEF R, q, n, missing
<1>10. CASE s # t
  <2>1. QueueKeeps(s)
    <3> SUFFICES ASSUME NEW k \in Nat
                 PROVE  Same(expQueue', expQueue, CkptNumbered(s, k))
      BY DEF QueueKeeps
    <3>1. \A x \in R : x \notin CkptNumbered(s, k)
      BY <1>8, <1>10 DEF CkptNumbered
    <3>2. Same(expQueue', q, CkptNumbered(s, k))
      BY <1>1, <1>3, <1>5, <3>1, AllOther
    <3> QED
      BY <1>6, <3>2, SameTwice
  <2>2. EventsKeep(s) /\ ckpts'[s] = ckpts[s] /\ lastCkpt'[s] = lastCkpt[s]
    BY <1>1, <1>2, <1>10 DEF EventsKeep
  <2> QED
    BY <2>1, <2>2, CkptsStay
<1>11. CASE s = t
  <2> DEFINE F == Deactivated(rs)
             N == {NewCkpt(x) : x \in new}
  <2>1. ckpts'[s] = F \cup N
    BY <1>1, <1>2, <1>11
  <2>2. ASSUME NEW d \in N PROVE d.seg \in R /\ IsCkpt(d.seg) /\ d.seg.ckpt = n
    BY <1>9 DEF NewCkpt
  <2>3. ASSUME NEW k \in Nat
        PROVE  /\ Matching(ckpts[s], F, CkptNumbered(s, k))
               /\ NotRearmed(ckpts[s], F, CkptNumbered(s, k))
               /\ \A d \in F : \E c \in ckpts[s] : c.seg = d.seg
    <3>1. \A c, d \in ckpts[s] :
              c.seg \in CkptNumbered(s, k) /\ d.seg \in CkptNumbered(s, k) => c = d
      BY DEF CkptSignals, CkptSignal, Signal
    <3> QED
      BY <1>11, <3>1, Deactivation
  <2>4. ASSUME NEW k \in Nat
        PROVE  CkptSignal(s, k)'
    <3> DEFINE X == CkptNumbered(s, k)
    <3>1. CASE k # n
      <4>1. \A d \in N : d.seg \notin X
        BY <2>2, <3>1, NumberedCkpts
      <4>2. \A x \in R : x \notin X
        BY <1>9, <3>1, NumberedCkpts
      <4> HIDE DEF F, N, new
      <4>6. Matching(ckpts[s], F \cup N, X) /\ NotRearmed(ckpts[s], F \cup N, X)
        <5>1. Matching(ckpts[s], F, X) /\ NotRearmed(ckpts[s], F, X)
          BY <2>3
        <5> HIDE DEF X
        <5> QED
          BY <4>1, <5>1, MatchingMore
      <4>3. Matching(ckpts[s], ckpts'[s], X) /\ NotRearmed(ckpts[s], ckpts'[s], X)
        BY <2>1, <4>6
      <4>4. Same(expQueue', q, X)
        BY <1>1, <1>3, <1>5, <4>2, AllOther
      <4>5. Same(expQueue', expQueue, X)
        BY <1>6, <4>4, SameTwice
      <4> QED
        BY <1>1, <4>3, <4>5, CkptKept DEF CkptSignals
    <3>2. CASE k = n
      <4>1. \A c \in ckpts[s] : c.seg \notin X
        <5>1. \A c \in ckpts[s] : c.seg.ckpt <= lastCkpt[s]
          BY DEF CkptSignals
        <5>2. lastCkpt[s] \in Nat /\ ~(n <= lastCkpt[s])
          BY <1>2, <1>11 DEF n
        <5> QED
          BY <3>2, <5>1, <5>2, NumberedCkpts
      <4>2. ~Some(expQueue, X) /\ ResendCheckpointEvent(s, k) \notin expTimeline
        BY <4>1, SignalAbsent DEF CkptSignals, CkptSignal
      <4>3. ~Some(q, X)
        BY <1>6, <4>2, SameSome
      <4>4. \A d \in F : d.seg \notin X
        BY <2>3, <4>1
      <4>5. (\A x \in R : x.lo \in Int) /\ \A x, y \in R : x.lo = y.lo => x = y
        <5>1. \A x \in R : x.lo \in Int
          BY <1>3 DEF DataSegments
        <5>2. ASSUME NEW x \in R, NEW y \in R, x.lo = y.lo
              PROVE  x = y
          BY <1>4, <1>7, <5>2, RedSegmentsApart
        <5> QED
          BY <5>1, <5>2
      <4>6. new = {x \in RedSegmentsFor(s, missing, rs.rpt, k) : IsCkpt(x)}
            /\ R = RedSegmentsFor(s, missing, rs.rpt, k)
        BY <1>7, <1>11, <3>2
      <4> HIDE DEF F, new, X
      <4>7. Signal(F \cup {NewCkpt(x) : x \in new}, X, EnqueueAll(q, R),
                   expTimeline, ResendCheckpointEvent(s, k))
        BY <1>3, <1>4, <1>5, <4>2, <4>3, <4>4, <4>5, <4>6, NewCkptSignal DEF X
      <4> QED
        BY <1>1, <2>1, <4>7 DEF CkptSignal, CkptNumbered, X
    <3> QED
      BY <3>1, <3>2
  <2>5. \A c \in ckpts'[s] : IsCkpt(c.seg) /\ c.seg.ckpt <= lastCkpt'[s]
    <3> SUFFICES ASSUME NEW c \in ckpts'[s]
                 PROVE  IsCkpt(c.seg) /\ c.seg.ckpt <= lastCkpt'[s]
      OBVIOUS
    <3>1. lastCkpt[s] \in Nat /\ lastCkpt'[s] = IF new = {} THEN lastCkpt[s] ELSE n
      BY <1>1, <1>2, <1>11 DEF n
    <3>2. CASE c \in F
      <4>1. PICK d \in ckpts[s] : d.seg = c.seg
        BY <2>3, <3>2
      <4>2. IsCkpt(d.seg) /\ d.seg.ckpt <= lastCkpt[s] /\ d.seg.ckpt \in Nat
        BY <1>2 DEF CkptSignals, CkptEntries, DataSegments
      <4> QED
        BY <1>11, <3>1, <4>1, <4>2 DEF n
    <3>3. CASE c \in N
      <4>1. new # {} /\ n \in Nat
        BY <1>4, <3>3
      <4> QED
        BY <2>2, <3>1, <3>3, <4>1
    <3> QED
      BY <2>1, <3>2, <3>3
  <2> QED
    BY <2>4, <2>5 DEF CkptSignals
<1> QED
  BY <1>10, <1>11

\* The head of the queue is sent: a checkpoint's timer is started.
LEMMA DequeueCkpts ==
    ASSUME TypeOK, NEW s \in Sessions, CkptSignals(s),
           expQueue # <<>>, DequeueExport(Head(expQueue)), expState'[s] # "closed"
    PROVE  CkptSignals(s)'
<1> DEFINE seg == Head(expQueue)
           t == seg.session
<1>1. /\ ckpts \in [Sessions -> SUBSET CkptEntries] /\ lastCkpt \in [Sessions -> Nat]
      /\ expQueue \in Seq(Segments) /\ expQueue' = Tail(expQueue)
      /\ expState \in [Sessions -> {"idle", "open", "dead", "closed"}]
  BY DEF TypeOK, ExpTypeOK, DequeueExport
<1>2. seg \in Segments /\ t \in Sessions
  BY <1>1, HeadTailType, SegmentKinds
<1>3. ASSUME NEW k \in Nat, seg \notin CkptNumbered(s, k)
      PROVE  Same(expQueue', expQueue, CkptNumbered(s, k))
  BY <1>1, <1>3, TailOther
<1> HIDE DEF seg
<1>4. CASE ~IsCkpt(seg)
  <2>1. QueueKeeps(s)
    BY <1>3, <1>4, NumberedCkpts DEF QueueKeeps
  <2>2. EventsKeep(s) /\ ckpts'[s] = ckpts[s] /\ lastCkpt'[s] = lastCkpt[s]
    <3>1. CASE DequeuePlain(seg)
      BY <3>1 DEF DequeuePlain, expSessionVars, EventsKeep
    <3>2. CASE DequeueGreenEOB(seg)
      BY <1>1, <1>2, <3>2 DEF DequeueGreenEOB, LeaveExportSessions, EventsKeep
    <3>3. CASE DequeueCS(seg)
      BY <3>3, EventsApart DEF DequeueCS, expSessionVars, EventsKeep
    <3> QED
      BY <1>4, <3>1, <3>2, <3>3 DEF DequeueExport, DequeueCheckpoint, seg
  <2> QED
    BY <2>1, <2>2, CkptsStay
<1>5. CASE IsCkpt(seg)
  <2> DEFINE D == {c \in ckpts[t] : c.seg = seg}
             g == [c \in D |-> [c EXCEPT !.armed = TRUE]]
             E == ckpts[t]
             F == (E \ D) \cup {g[c] : c \in D}
  <2>1. /\ ckpts' = [ckpts EXCEPT ![t] = F]
        /\ expTimeline' = expTimeline \cup {ResendCheckpointEvent(t, seg.ckpt)}
        /\ lastCkpt' = lastCkpt
    <3>1. DequeueCheckpoint(seg)
      BY <1>5 DEF DequeueExport, DequeuePlain, DequeueGreenEOB, DequeueCS, IsCkpt,
                  CkptTypes, seg
    <3> QED
      BY <3>1 DEF DequeueCheckpoint
  <2>2. CASE s # t
    <3>1. QueueKeeps(s)
      BY <1>3, <2>2 DEF QueueKeeps, CkptNumbered
    <3>2. EventsKeep(s)
      BY <2>1, <2>2, EventsApart DEF EventsKeep
    <3> HIDE DEF F
    <3> QED
      BY <1>1, <2>1, <2>2, <3>1, <3>2, CkptsStay
  <2>3. CASE s = t
    <3>1. E \subseteq CkptEntries /\ D \in SUBSET E /\ ckpts'[s] = F
      BY <1>1, <1>2, <2>1, <2>3
    <3>2. \A c \in D : g[c].seg = c.seg /\ c.seg = seg
      BY <3>1 DEF CkptEntries
    <3>3. \A d \in F : d \in E \/ \E c \in D : d = g[c]
      OBVIOUS
    <3> HIDE DEF D, g
    <3>6. IsRevised(E, F, D, g)
      BY <3>1, <3>2 DEF IsRevised
    <3>4. ASSUME NEW k \in Nat
          PROVE  CkptSignal(s, k)'
      <4> DEFINE X == CkptNumbered(s, k)
                 ev == ResendCheckpointEvent(s, k)
      <4>1. Signal(E, X, expQueue, expTimeline, ev)
        BY <2>3 DEF CkptSignals, CkptSignal
      <4>2. \A c, d \in E : c.seg \in X /\ d.seg \in X => c = d
        BY <4>1 DEF Signal
      <4> HIDE DEF F
      <4>3. Matching(E, F, X)
        BY <3>6, <4>2, RevisedMatches
      <4> HIDE DEF E
      <4>4. CASE seg \in X
        <5>1. ev \in expTimeline'
          BY <2>1, <2>3, <4>4, NumberedCkpts
        <5> HIDE DEF X, ev
        <5>2. Signal(F, X, Tail(expQueue), expTimeline', ev)
          BY <1>1, <4>1, <4>3, <4>4, <5>1, SignalSent DEF seg
        <5>3. Signal(ckpts'[s], X, expQueue', expTimeline', ev)
          BY <1>1, <3>1, <5>2
        <5> QED
          BY <5>3 DEF CkptSignal, CkptNumbered, X, ev
      <4>5. CASE seg \notin X
        <5>1. NotRearmed(E, F, X)
          BY <3>2, <3>3, <4>5 DEF NotRearmed
        <5>2. seg.ckpt # k
          BY <1>2, <1>5, <2>3, <4>5 DEF CkptNumbered
        <5>3. ev \in expTimeline' <=> ev \in expTimeline
          BY <2>1, <2>3, <5>2, EventsApart
        <5>4. Same(expQueue', expQueue, X)
          BY <1>3, <4>5
        <5>5. Matching(ckpts[s], ckpts'[s], X) /\ NotRearmed(ckpts[s], ckpts'[s], X)
          BY <2>3, <3>1, <4>3, <5>1 DEF E
        <5>6. CkptSignal(s, k)
          BY DEF CkptSignals
        <5> QED
          BY <5>3, <5>4, <5>5, <5>6, CkptKept
      <4> QED
        BY <4>4, <4>5
    <3>5. \A c \in ckpts'[s] : IsCkpt(c.seg) /\ c.seg.ckpt <= lastCkpt'[s]
      <4>1. \A d \in F : \E c \in E : c.seg = d.seg
        BY <3>1, <3>2, <3>3
      <4> HIDE DEF F
      <4> QED
        BY <2>1, <2>3, <3>1, <4>1 DEF CkptSignals
    <3> QED
      BY <3>4, <3>5 DEF CkptSignals
  <2> QED
    BY <2>2, <2>3
<1> QED
  BY <1>4, <1>5

\* A checkpoint's event: it is resent, if it is still armed.
LEMMA ResendCkpts ==
    ASSUME TypeOK, CkptsOwned, NEW s \in Sessions, CkptSignals(s),
           NEW t \in Sessions, NEW j \in Nat, ResendCheckpoint(t, j), expState'[s] # "dead"
    PROVE  CkptSignals(s)'
<1> DEFINE event == ResendCheckpointEvent(t, j)
           D == {c \in ckpts[t] : c.seg.ckpt = j}
           isLive == expState[t] = "open" /\ \E c \in D : c.armed
<1>1. /\ ckpts \in [Sessions -> SUBSET CkptEntries] /\ lastCkpt \in [Sessions -> Nat]
      /\ expQueue \in Seq(Segments)
      /\ expState \in [Sessions -> {"idle", "open", "dead", "closed"}]
  BY DEF TypeOK, ExpTypeOK
<1>2. event \in expTimeline
  BY DEF ResendCheckpoint
<1>3. ASSUME NEW k \in Nat, ~(s = t /\ k = j)
      PROVE  ResendCheckpointEvent(s, k) \in expTimeline \ {event}
                 <=> ResendCheckpointEvent(s, k) \in expTimeline
  BY <1>3, EventsApart
<1>4. \A c \in ckpts[s] : IsCkpt(c.seg) /\ c.seg.ckpt <= lastCkpt[s]
  BY DEF CkptSignals
<1>5. CASE /\ ~isLive
           /\ expTimeline' = expTimeline \ {event}
           /\ UNCHANGED <<expSessionVars, cancelTimeouts, closedExports, expQueue, expNotices>>
  <2>1. ckpts' = ckpts /\ lastCkpt' = lastCkpt /\ expQueue' = expQueue
    BY <1>5 DEF expSessionVars
  <2>2. ASSUME NEW k \in Nat
        PROVE  CkptSignal(s, k)'
    <3>1. CASE s = t /\ k = j
      <4>1. \A c \in ckpts[s] : c.seg \in CkptNumbered(s, k) => ~c.armed
        <5>1. ckpts[s] # {} => expState[s] = "open"
          BY DEF CkptsOwned
        <5>2. \A c \in D : ~c.armed \/ ckpts[s] = {}
          BY <1>5, <3>1, <5>1
        <5> QED
          BY <3>1, <5>2 DEF CkptNumbered
      <4>2. Signal(ckpts[s], CkptNumbered(s, k), expQueue, expTimeline', ResendCheckpointEvent(s, k))
        BY <1>5, <3>1, <4>1, SignalEnded DEF CkptSignals, CkptSignal
      <4>3. Signal(ckpts'[s], CkptNumbered(s, k), expQueue', expTimeline', ResendCheckpointEvent(s, k))
        BY <2>1, <4>2
      <4> QED
        BY <4>3 DEF CkptSignal, CkptNumbered
    <3>2. CASE ~(s = t /\ k = j)
      <4>1. CkptSignal(s, k)
        BY DEF CkptSignals
      <4>2. Matching(ckpts[s], ckpts'[s], CkptNumbered(s, k))
            /\ NotRearmed(ckpts[s], ckpts'[s], CkptNumbered(s, k))
        BY <2>1, <4>1, SignalMatches DEF CkptSignal
      <4>3. Same(expQueue', expQueue, CkptNumbered(s, k))
        BY <2>1, SameItself
      <4>4. ResendCheckpointEvent(s, k) \in expTimeline' <=> ResendCheckpointEvent(s, k) \in expTimeline
        BY <1>3, <1>5, <3>2
      <4> QED
        BY <4>1, <4>2, <4>3, <4>4, CkptKept
    <3> QED
      BY <3>1, <3>2
  <2> QED
    BY <1>4, <2>1, <2>2 DEF CkptSignals
<1>6. CASE isLive /\ CancelSessionBySender(t, expQueue, expTimeline \ {event})
  <2>1. s # t
    BY <1>1, <1>6 DEF CancelSessionBySender, LeaveExportSessions
  <2>2. \A k \in Nat : Same(expQueue, expQueue, CkptNumbered(s, k))
    BY SameItself
  <2>3. \A k \in Nat : ResendCheckpointEvent(s, k) \in expTimeline \ {event}
                           <=> ResendCheckpointEvent(s, k) \in expTimeline
    BY <1>3, <2>1
  <2> QED
    BY <1>1, <1>6, <2>1, <2>2, <2>3, CanceledOther
<1>7. ASSUME isLive, NEW c \in D,
             ckpts' = [ckpts EXCEPT ![t] = (@ \ D) \cup {[c EXCEPT !.count = @ + 1]}],
             expQueue' = Append(expQueue, c.seg),
             expTimeline' = expTimeline \ {event}, lastCkpt' = lastCkpt
      PROVE  CkptSignals(s)'
  <2>1. c \in ckpts[t] /\ c.seg.session = t /\ c.seg.ckpt = j
    BY DEF CkptsOwned
  <2>2. CASE s # t
    <3>1. QueueKeeps(s)
      <4>1. \A k \in Nat : c.seg \notin CkptNumbered(s, k)
        BY <2>1, <2>2 DEF CkptNumbered
      <4> QED
        BY <1>1, <1>7, <4>1, AppendOther DEF QueueKeeps
    <3>2. EventsKeep(s)
      BY <1>3, <1>7, <2>2 DEF EventsKeep
    <3> QED
      BY <1>1, <1>7, <2>2, <3>1, <3>2, CkptsStay
  <2>3. CASE s = t
    <3> DEFINE E == ckpts[s]
               C == {c}
               g == [x \in C |-> [x EXCEPT !.count = @ + 1]]
               F == (E \ C) \cup {g[x] : x \in C}
    <3>1. c.seg \in CkptNumbered(s, j)
      BY <1>1, <1>4, <2>1, <2>3 DEF CkptNumbered, CkptEntries, Segments
    <3>2. D = C
      <4>1. \A d \in D : d.seg \in CkptNumbered(s, j)
        BY <1>1, <1>4, <2>3 DEF CkptNumbered, CkptEntries, Segments, CkptsOwned
      <4>2. \A d, e \in ckpts[s] : d.seg \in CkptNumbered(s, j) /\ e.seg \in CkptNumbered(s, j) => d = e
        BY DEF CkptSignals, CkptSignal, Signal
      <4> QED
        BY <2>1, <2>3, <4>1, <4>2
    <3>3. ckpts'[s] = F
      BY <1>1, <1>7, <2>3, <3>2
    <3>4. C \in SUBSET E /\ E \subseteq CkptEntries
      BY <1>1, <2>1, <2>3
    <3>5. \A x \in C : g[x].seg = x.seg /\ g[x].armed = x.armed
      BY <3>4 DEF CkptEntries
    <3>6. \A d \in F : d \in E \/ \E x \in C : d = g[x]
      OBVIOUS
    <3> HIDE DEF g, C, D
    <3>9. IsRevised(E, F, C, g)
      BY <3>4, <3>5 DEF IsRevised
    <3>7. ASSUME NEW k \in Nat
          PROVE  CkptSignal(s, k)'
      <4> DEFINE X == CkptNumbered(s, k)
                 ev == ResendCheckpointEvent(s, k)
      <4>1. Signal(E, X, expQueue, expTimeline, ev)
        BY DEF CkptSignals, CkptSignal
      <4>2. \A x, y \in E : x.seg \in X /\ y.seg \in X => x = y
        BY <4>1 DEF Signal
      <4> HIDE DEF F
      <4>3. Matching(E, F, X)
        BY <3>9, <4>2, RevisedMatches
      <4> HIDE DEF E
      <4>4. CASE k = j
        <5>1. c \in E /\ c.seg \in X /\ ev \notin expTimeline'
          BY <1>7, <2>1, <2>3, <3>1, <4>4 DEF E
        <5>2. ~Some(expQueue, X)
          BY <1>2, <2>3, <4>1, <4>4 DEF Signal
        <5> HIDE DEF X, ev
        <5>3. Same(expQueue', <<c.seg>>, X)
          BY <1>1, <1>7, <5>2, AppendCounts
        <5>4. Signal(F, X, expQueue', expTimeline', ev)
          BY <4>1, <4>3, <5>1, <5>3, SignalResent
        <5>5. Signal(ckpts'[s], X, expQueue', expTimeline', ev)
          BY <3>3, <5>4
        <5> QED
          BY <5>5 DEF CkptSignal, CkptNumbered, X, ev
      <4>5. CASE k # j
        <5>1. NotRearmed(E, F, X)
          BY <3>4, <3>5, <3>6 DEF NotRearmed
        <5>2. c.seg \notin X
          BY <2>1, <4>5 DEF CkptNumbered
        <5>3. Same(expQueue', expQueue, X)
          BY <1>1, <1>7, <5>2, AppendOther
        <5>4. ev \in expTimeline' <=> ev \in expTimeline
          BY <1>3, <1>7, <4>5
        <5>5. Matching(ckpts[s], ckpts'[s], X) /\ NotRearmed(ckpts[s], ckpts'[s], X)
          BY <3>3, <4>3, <5>1 DEF E
        <5>6. CkptSignal(s, k)
          BY DEF CkptSignals
        <5> QED
          BY <5>3, <5>4, <5>5, <5>6, CkptKept
      <4> QED
        BY <4>4, <4>5
    <3>8. \A d \in ckpts'[s] : IsCkpt(d.seg) /\ d.seg.ckpt <= lastCkpt'[s]
      <4>1. \A d \in F : \E x \in E : x.seg = d.seg
        BY <3>4, <3>5, <3>6
      <4> HIDE DEF F
      <4> QED
        BY <1>4, <1>7, <3>3, <4>1
    <3> QED
      BY <3>7, <3>8 DEF CkptSignals
  <2> QED
    BY <2>2, <2>3
<1> QED
  BY <1>5, <1>6, <1>7 DEF ResendCheckpoint

\* A report that takes away nothing but the acknowledged checkpoint's timer.
LEMMA ReportCkpts ==
    ASSUME TypeOK, NEW s \in Sessions, CkptSignals(s),
           NEW rs \in ReportSegments, HandleRS(rs), expState'[s] \notin {"closed", "dead"}
    PROVE  CkptSignals(s)'
<1> DEFINE t == rs.session
           q == AckedQueue(rs)
<1>1. /\ ckpts \in [Sessions -> SUBSET CkptEntries] /\ lastCkpt \in [Sessions -> Nat]
      /\ expQueue \in Seq(Segments)
      /\ expState \in [Sessions -> {"idle", "open", "dead", "closed"}]
  BY DEF TypeOK, ExpTypeOK
<1>2. t \in Sessions /\ RA(t, rs.rpt) \in Segments
  BY MadeSegments DEF ReportSegments
<1>3. q \in Seq(Segments)
  BY AckedQueueType DEF TypeOK
<1>4. ASSUME NEW k \in Nat
      PROVE  Same(q, expQueue, CkptNumbered(s, k))
  <2>1. RA(t, rs.rpt).type \notin CkptTypes
    BY DEF RA, CkptTypes
  <2> QED
    BY <1>1, <1>2, <2>1, AckedKeeps DEF AckedQueue
<1>5. expQueue' = q => QueueKeeps(s)
  BY <1>4 DEF QueueKeeps
<1>6. expTimeline' = expTimeline => EventsKeep(s)
  BY DEF EventsKeep
<1>7. CASE LateReport(rs)
  BY <1>5, <1>6, <1>7, CkptsStay DEF LateReport, AckedQueue, expSessionVars
<1>8. CASE StrayReport(rs)
  <2>1. QueueKeeps(s)
    BY <1>8, QueueUnchanged DEF StrayReport, expVars
  <2> QED
    BY <1>6, <1>8, <2>1, CkptsStay DEF StrayReport, expVars, expSessionVars
<1>9. CASE IgnoredReport(rs)
  BY <1>5, <1>6, <1>9, CkptsStay DEF IgnoredReport
<1>10. CASE FinalReport(rs)
  <2>1. s # t
    BY <1>1, <1>2, <1>10 DEF FinalReport, LeaveExportSessions
  <2>2. QueueKeeps(s)
    <3> SUFFICES ASSUME NEW k \in Nat
                 PROVE  Same(expQueue', expQueue, CkptNumbered(s, k))
      BY DEF QueueKeeps
    <3>1. expQueue' = StoppedQueue(q, t)
      BY <1>10 DEF FinalReport
    <3> HIDE DEF q, t
    <3>2. Same(StoppedQueue(q, t), q, CkptNumbered(s, k))
      BY <1>3, <2>1, StoppedKeeps
    <3> QED
      BY <1>4, <3>1, <3>2, SameTwice
  <2>3. EventsKeep(s)
    <3>1. expTimeline' = (expTimeline \ CkptEvents(t)) \cup {ForgetExportEvent(t)}
      BY <1>10 DEF FinalReport, StoppedTimeline
    <3> QED
      BY <1>2, <2>1, <3>1, EventsApart DEF EventsKeep
  <2>4. ckpts'[s] = ckpts[s] /\ lastCkpt'[s] = lastCkpt[s]
    BY <1>1, <2>1, <1>10 DEF FinalReport, LeaveExportSessions
  <2> QED
    BY <2>2, <2>3, <2>4, CkptsStay
<1>11. CASE FinalReportBeforeEOB(rs)
  <2>1. /\ ckpts' = [ckpts EXCEPT ![t] = Deactivated(rs)]
        /\ expQueue' = q /\ expTimeline' = expTimeline /\ lastCkpt' = lastCkpt
    BY <1>11 DEF FinalReportBeforeEOB
  <2>2. CASE s # t
    BY <1>1, <1>5, <1>6, <2>1, <2>2, CkptsStay
  <2>3. CASE s = t
    <3>1. ckpts'[s] = Deactivated(rs)
      BY <1>1, <2>1, <2>3
    <3>2. ASSUME NEW k \in Nat
          PROVE  /\ CkptSignal(s, k)'
                 /\ \A d \in Deactivated(rs) : \E c \in ckpts[s] : c.seg = d.seg
      <4>1. CkptSignal(s, k)
        BY DEF CkptSignals
      <4>2. \A c, d \in ckpts[s] :
                c.seg \in CkptNumbered(s, k) /\ d.seg \in CkptNumbered(s, k) => c = d
        BY <4>1 DEF CkptSignal, Signal
      <4>3. /\ Matching(ckpts[s], Deactivated(rs), CkptNumbered(s, k))
            /\ NotRearmed(ckpts[s], Deactivated(rs), CkptNumbered(s, k))
            /\ \A d \in Deactivated(rs) : \E c \in ckpts[s] : c.seg = d.seg
        <5> DEFINE X == CkptNumbered(s, k)
        <5> HIDE DEF X
        <5>1. \A c, d \in ckpts[s] : c.seg \in X /\ d.seg \in X => c = d
          BY <4>2 DEF X
        <5>2. s = rs.session
          BY <2>3
        <5> HIDE DEF t
        <5>3. /\ Matching(ckpts[s], Deactivated(rs), X)
              /\ NotRearmed(ckpts[s], Deactivated(rs), X)
              /\ \A d \in Deactivated(rs) : \E c \in ckpts[s] : c.seg = d.seg
          BY <5>1, <5>2, Deactivation
        <5> QED
          BY <5>3 DEF X
      <4> QED
        BY <1>4, <2>1, <3>1, <4>1, <4>3, CkptKept
    <3>3. \A c \in ckpts'[s] : IsCkpt(c.seg) /\ c.seg.ckpt <= lastCkpt'[s]
      <4>1. \A d \in Deactivated(rs) : \E c \in ckpts[s] : c.seg = d.seg
        BY <3>2
      <4> QED
        BY <2>1, <3>1, <4>1 DEF CkptSignals
    <3> QED
      BY <3>2, <3>3 DEF CkptSignals
  <2> QED
    BY <2>2, <2>3
<1>12. CASE NegativeReportAtLimit(rs)
  <2>1. CancelSessionBySender(t, q, expTimeline)
    BY <1>12 DEF NegativeReportAtLimit
  <2>2. s # t
    BY <1>1, <1>2, <2>1 DEF CancelSessionBySender, LeaveExportSessions
  <2> HIDE DEF q, t
  <2> QED
    BY <1>2, <1>3, <1>4, <2>1, <2>2, CanceledOther
<1>13. CASE NegativeReport(rs)
  BY <1>13, NegativeCkpts
<1> QED
  BY <1>7, <1>8, <1>9, <1>10, <1>11, <1>12, <1>13 DEF HandleRS

\* Every step keeps the checkpoints signaled.
LEMMA CkptsSignaledStep ==
    ASSUME TypeOK, CkptsOwned, CkptsSignaled, ExpStep
    PROVE  CkptsSignaled'
<1> SUFFICES ASSUME NEW s \in Sessions, expState'[s] \in {"idle", "open"}
             PROVE  CkptSignals(s)'
  BY DEF CkptsSignaled
<1>1. /\ ckpts \in [Sessions -> SUBSET CkptEntries] /\ lastCkpt \in [Sessions -> Nat]
      /\ expQueue \in Seq(Segments)
      /\ expState \in [Sessions -> {"idle", "open", "dead", "closed"}]
  BY DEF TypeOK, ExpTypeOK
<1>2. CkptSignals(s)
  <2>1. expState[s] \in {"idle", "open"}
    BY <1>1, ExportLife DEF LifeStep, Stays, Moves
  <2> QED
    BY <2>1 DEF CkptsSignaled
<1>3. ASSUME NEW t \in Sessions, IssueBlock(t)
      PROVE  CkptSignals(s)'
  BY <1>2, <1>3, IssueCkpts
<1>4. CASE expQueue # <<>> /\ DequeueExport(Head(expQueue))
  BY <1>2, <1>4, DequeueCkpts
<1>5. ASSUME NEW rs \in net \cap ReportSegments, HandleRS(rs)
      PROVE  CkptSignals(s)'
  BY <1>2, <1>5, ReportCkpts
<1>6. ASSUME NEW t \in Sessions, HandleCAS(t)
      PROVE  CkptSignals(s)'
  <2>1. QueueKeeps(s)
    BY <1>6, QueueUnchanged DEF HandleCAS
  <2>2. EventsKeep(s)
    BY <1>6, EventsApart DEF HandleCAS, EventsKeep
  <2> QED
    BY <1>2, <1>6, <2>1, <2>2, CkptsStay DEF HandleCAS, expSessionVars
<1>7. ASSUME NEW t \in Sessions, HandleCR(t)
      PROVE  CkptSignals(s)'
  <2>1. CASE UNCHANGED expVars
    <3>1. QueueKeeps(s)
      BY <2>1, QueueUnchanged DEF expVars
    <3> QED
      BY <1>2, <2>1, <3>1, CkptsStay DEF EventsKeep, expVars, expSessionVars
  <2>2. CASE ~UNCHANGED expVars
    <3> DEFINE q == EnqueueAck(expQueue, Cancel("CAR", t))
    <3>1. /\ LeaveExportSessions(t, "closed")
          /\ expQueue' = StoppedQueue(q, t)
          /\ expTimeline' = StoppedTimeline(t)
      BY <1>7, <2>2 DEF HandleCR
    <3>2. s # t
      BY <1>1, <3>1 DEF LeaveExportSessions
    <3>3. Cancel("CAR", t) \in Segments /\ Cancel("CAR", t).type \notin CkptTypes
      BY MadeSegments DEF Cancel, CkptTypes
    <3>4. q \in Seq(Segments)
      BY <1>1, <3>3, EnqueueAckType
    <3>5. \A k \in Nat : Same(q, expQueue, CkptNumbered(s, k))
      BY <1>1, <3>3, AckedKeeps
    <3> HIDE DEF q
    <3>6. QueueKeeps(s)
      BY <3>1, <3>2, <3>4, <3>5, StoppedKeeps, SameTwice DEF QueueKeeps
    <3>7. EventsKeep(s)
      BY <3>1, <3>2, EventsApart DEF EventsKeep, StoppedTimeline
    <3> QED
      BY <1>1, <1>2, <3>1, <3>2, <3>6, <3>7, CkptsStay DEF LeaveExportSessions
  <2> QED
    BY <2>1, <2>2
<1>8. ASSUME NEW t \in Sessions, NEW k \in Nat, ResendCheckpoint(t, k)
      PROVE  CkptSignals(s)'
  BY <1>2, <1>8, ResendCkpts
<1>9. ASSUME NEW t \in Sessions, ResendXmitCancel(t)
      PROVE  CkptSignals(s)'
  <2>1. QueueKeeps(s)
    <3>1. \A k \in Nat : Cancel("CS", t) \notin CkptNumbered(s, k)
      BY NumberedCkpts DEF CkptTypes
    <3>2. expQueue' = expQueue \/ expQueue' = Append(expQueue, Cancel("CS", t))
      BY <1>9 DEF ResendXmitCancel
    <3>3. CASE expQueue' = expQueue
      BY <3>3, QueueUnchanged
    <3>4. CASE expQueue' = Append(expQueue, Cancel("CS", t))
      BY <1>1, <3>1, <3>4, AppendOther DEF QueueKeeps
    <3> QED
      BY <3>2, <3>3, <3>4
  <2>2. EventsKeep(s)
    BY <1>9, EventsApart DEF ResendXmitCancel, EventsKeep
  <2> QED
    BY <1>2, <1>9, <2>1, <2>2, CkptsStay DEF ResendXmitCancel
<1>10. ASSUME NEW t \in Sessions, ForgetExportSession(t)
       PROVE  CkptSignals(s)'
  <2>1. QueueKeeps(s)
    BY <1>10, QueueUnchanged DEF ForgetExportSession
  <2>2. EventsKeep(s)
    BY <1>10, EventsApart DEF ForgetExportSession, EventsKeep
  <2> QED
    BY <1>2, <1>10, <2>1, <2>2, CkptsStay DEF ForgetExportSession, expSessionVars
<1>11. CASE UNCHANGED expVars
  <2>1. QueueKeeps(s)
    BY <1>11, QueueUnchanged DEF expVars
  <2> QED
    BY <1>2, <1>11, <2>1, CkptsStay DEF EventsKeep, expVars, expSessionVars
<1> QED
  BY <1>3, <1>4, <1>5, <1>6, <1>7, <1>8, <1>9, <1>10, <1>11 DEF ExpStep

(***************************************************************************)
(* Reports.                                                                *)
(***************************************************************************)
\* A step that leaves the reports of session s alone.
ReportQueueKeeps(s) == \A k \in Nat : Same(impQueue', impQueue, ReportNumbered(s, k))
ReportEventsKeep(s) ==
    \A k \in Nat : ResendReportEvent(s, k) \in impTimeline'
                       <=> ResendReportEvent(s, k) \in impTimeline

\* A signal is kept when nothing of it changes, ...
LEMMA ReportKept ==
    ASSUME NEW s \in Sessions, NEW k \in Nat, ReportSignal(s, k),
           Matching(imports[s].reports, imports'[s].reports, ReportNumbered(s, k)),
           NotRearmed(imports[s].reports, imports'[s].reports, ReportNumbered(s, k)),
           Same(impQueue', impQueue, ReportNumbered(s, k)),
           ResendReportEvent(s, k) \in impTimeline'
               <=> ResendReportEvent(s, k) \in impTimeline
    PROVE  ReportSignal(s, k)'
<1>1. Signal(imports'[s].reports, ReportNumbered(s, k), impQueue',
             impTimeline', ResendReportEvent(s, k))
  BY SignalKept DEF ReportSignal
<1> QED
  BY <1>1 DEF ReportSignal, ReportNumbered

\* ... and so are all those of a session.
LEMMA ReportsStay ==
    ASSUME NEW s \in Sessions, ReportSignals(s), ReportQueueKeeps(s), ReportEventsKeep(s),
           imports'[s].reports = imports[s].reports, imports'[s].nextRpt = imports[s].nextRpt,
           impState'[s] # "open" => impState[s] # "open"
    PROVE  ReportSignals(s)'
<1>1. ASSUME NEW k \in Nat
      PROVE  ReportSignal(s, k)'
  <2>1. ReportSignal(s, k)
    BY DEF ReportSignals
  <2>2. Matching(imports[s].reports, imports'[s].reports, ReportNumbered(s, k))
        /\ NotRearmed(imports[s].reports, imports'[s].reports, ReportNumbered(s, k))
    BY <2>1, SignalMatches DEF ReportSignal
  <2> QED
    BY <2>1, <2>2, ReportKept DEF ReportQueueKeeps, ReportEventsKeep
<1>2. /\ \A r \in imports'[s].reports : r.seg.session = s /\ r.seg.rpt <= imports'[s].nextRpt
      /\ impState'[s] # "open" => imports'[s].reports = {}
  BY DEF ReportSignals
<1> QED
  BY <1>1, <1>2 DEF ReportSignals

\* No cancellation is a report.
LEMMA NumberedReports ==
    ASSUME NEW s \in Sessions, NEW k \in Nat
    PROVE  /\ \A x \in ReportNumbered(s, k) :
                 x \in Segments /\ x.type = "RS" /\ x.session = s /\ x.rpt = k
           /\ \A x \in CancelSegments : x \notin ReportNumbered(s, k)
<1> QED
  BY DEF ReportNumbered, CancelSegments

\* The queue keeps the reports when it does not change.
LEMMA ReportQueueUnchanged ==
    ASSUME impQueue' = impQueue, NEW s \in Sessions
    PROVE  ReportQueueKeeps(s)
<1> QED
  BY SameItself DEF ReportQueueKeeps

\* The event of a report is no other event.
LEMMA ReportEventsApart ==
    ASSUME NEW s \in Sessions, NEW k \in Nat
    PROVE  /\ \A t, j : ResendReportEvent(t, j) = ResendReportEvent(s, k) <=> t = s /\ j = k
           /\ \A t : /\ ResendRecvCancelEvent(t) # ResendReportEvent(s, k)
                     /\ ForgetImportEvent(t) # ResendReportEvent(s, k)
<1> QED
  BY DEF ResendReportEvent, ResendRecvCancelEvent, ForgetImportEvent

\* A session is closed or canceled: there is nothing left of its reports.
LEMMA LeftReports ==
    ASSUME TypeOK, NEW s \in Sessions, NEW t \in Sessions, ReportSignals(s),
           NEW state, state # "open", LeaveImportSessions(t, state),
           NEW q \in Seq(Segments),
           \A k \in Nat : Same(q, impQueue, ReportNumbered(s, k)),
           \A k \in Nat : Same(impQueue', StoppedImpQueue(q, t), ReportNumbered(s, k)),
           \A k \in Nat : ResendReportEvent(s, k) \in impTimeline'
                              <=> ResendReportEvent(s, k) \in StoppedImpTimeline(t)
    PROVE  ReportSignals(s)'
<1>1. imports \in [Sessions -> ImportSessionType] /\ impState \in [Sessions -> {"none", "open", "dead"}]
  BY DEF TypeOK, ImpTypeOK
<1>2. CASE s = t
  <2>1. imports'[s].reports = {} /\ impState'[s] # "open"
    BY <1>1, <1>2 DEF LeaveImportSessions, EmptySession
  <2>2. ASSUME NEW k \in Nat
        PROVE  ReportSignal(s, k)'
    <3>1. ~Some(StoppedImpQueue(q, t), ReportNumbered(s, k))
      <4>1. \A x \in ReportNumbered(s, k) : x.session = t /\ x.type \in {"RS"}
        BY <1>2, NumberedReports
      <4> QED
        BY <4>1, PurgeRest DEF StoppedImpQueue
    <3>2. ~Some(impQueue', ReportNumbered(s, k))
      BY <3>1, SameSome
    <3>3. ResendReportEvent(s, k) \notin impTimeline'
      <4>1. ResendReportEvent(s, k) \in impTimeline =>
                \E c \in imports[s].reports : c.seg \in ReportNumbered(s, k)
        BY DEF ReportSignals, ReportSignal, Signal
      <4>2. ResendReportEvent(s, k) \in impTimeline => ResendReportEvent(s, k) \in ReportEvents(t)
        BY <1>2, <4>1, NumberedReports DEF ReportEvents
      <4> QED
        BY <4>2 DEF StoppedImpTimeline
    <3>4. Signal({}, ReportNumbered(s, k), impQueue', impTimeline', ResendReportEvent(s, k))
      BY <3>2, <3>3, SignalNone
    <3>5. Signal(imports'[s].reports, ReportNumbered(s, k), impQueue', impTimeline',
                 ResendReportEvent(s, k))
      BY <2>1, <3>4
    <3> QED
      BY <3>5 DEF ReportSignal, ReportNumbered
  <2> QED
    BY <2>1, <2>2 DEF ReportSignals
<1>3. CASE s # t
  <2>1. imports'[s] = imports[s] /\ impState'[s] = impState[s]
    BY <1>1, <1>3 DEF LeaveImportSessions
  <2>2. ReportQueueKeeps(s)
    <3> SUFFICES ASSUME NEW k \in Nat
                 PROVE  Same(impQueue', impQueue, ReportNumbered(s, k))
      BY DEF ReportQueueKeeps
    <3>1. \A x \in ReportNumbered(s, k) : ~(x.session = t /\ x.type \in {"RS"})
      BY <1>3, NumberedReports
    <3>2. Same(StoppedImpQueue(q, t), q, ReportNumbered(s, k))
      BY <3>1, PurgeOther DEF StoppedImpQueue
    <3>3. Same(StoppedImpQueue(q, t), impQueue, ReportNumbered(s, k))
      BY <3>2, SameTwice
    <3> QED
      BY <3>3, SameTwice
  <2>3. ReportEventsKeep(s)
    <3>1. \A k \in Nat : ResendReportEvent(s, k) \notin ReportEvents(t)
      BY <1>3, ReportEventsApart DEF ReportEvents
    <3> QED
      BY <3>1 DEF ReportEventsKeep, StoppedImpTimeline
  <2> QED
    BY <2>1, <2>2, <2>3, ReportsStay
<1> QED
  BY <1>2, <1>3

\* A canceled session has no reports, and the others keep theirs.
LEMMA CanceledReports ==
    ASSUME TypeOK, NEW s \in Sessions, NEW t \in Sessions, ReportSignals(s),
           CancelSessionByReceiver(t)
    PROVE  ReportSignals(s)'
<1>1. impQueue \in Seq(Segments) /\ StoppedImpQueue(impQueue, t) \in Seq(Segments)
  BY PurgeType DEF TypeOK, ImpTypeOK, StoppedImpQueue
<1>2. \A k \in Nat : Same(impQueue, impQueue, ReportNumbered(s, k))
  BY SameItself
<1>3. \A k \in Nat : Cancel("CR", t) \notin ReportNumbered(s, k)
  BY NumberedReports DEF Cancel, CancelSegments
<1>4. \A k \in Nat : Same(impQueue', StoppedImpQueue(impQueue, t), ReportNumbered(s, k))
  BY <1>1, <1>3, AppendOther DEF CancelSessionByReceiver
<1>5. \A k \in Nat : ResendReportEvent(s, k) \in impTimeline'
                         <=> ResendReportEvent(s, k) \in StoppedImpTimeline(t)
  BY DEF CancelSessionByReceiver
<1>6. LeaveImportSessions(t, "dead")
  BY DEF CancelSessionByReceiver
<1> QED
  BY <1>1, <1>2, <1>4, <1>5, <1>6, LeftReports

\* The same for a session that is closed.
LEMMA ClosedReports ==
    ASSUME TypeOK, NEW s \in Sessions, NEW t \in Sessions, ReportSignals(s),
           NEW q \in Seq(Segments), CloseImportSession(t, q),
           \A k \in Nat : Same(q, impQueue, ReportNumbered(s, k))
    PROVE  ReportSignals(s)'
<1>1. \A k \in Nat : Same(impQueue', StoppedImpQueue(q, t), ReportNumbered(s, k))
  BY SameItself DEF CloseImportSession
<1>2. \A k \in Nat : ResendReportEvent(s, k) \in impTimeline'
                         <=> ResendReportEvent(s, k) \in StoppedImpTimeline(t)
  BY ReportEventsApart DEF CloseImportSession
<1>3. LeaveImportSessions(t, "none")
  BY DEF CloseImportSession
<1> QED
  BY <1>1, <1>2, <1>3, LeftReports

\* A row of reports with the next numbers.
LEMMA NewReports ==
    ASSUME TypeOK, NEW s \in Sessions, ReportSignals(s),
           NEW rss \in SUBSET ReportSegments, NEW n \in Nat, NEW m \in Nat,
           n = imports[s].nextRpt,
           \A x \in rss : x.session = s /\ n < x.rpt /\ x.rpt <= n + m,
           \A x, y \in rss : x.rpt = y.rpt => x = y,
           imports'[s].reports = imports[s].reports \cup {NewReport(x) : x \in rss},
           imports'[s].nextRpt = n + m, impState'[s] = "open", impTimeline' = impTimeline,
           NEW a, InARow(a, rss),
           \A k \in Nat : (\A x \in rss : x \notin ReportNumbered(s, k)) =>
               Same(impQueue', impQueue, ReportNumbered(s, k)),
           \A k \in Nat : ~Some(impQueue, ReportNumbered(s, k)) =>
               Same(impQueue', a, ReportNumbered(s, k))
    PROVE  ReportSignals(s)'
<1> DEFINE E == imports[s].reports
           N == {NewReport(x) : x \in rss}
<1>1. \A d \in N : \E x \in rss : d = NewReport(x)
  OBVIOUS
<1>2. \A x \in rss : NewReport(x) \in N /\ NewReport(x).seg = x /\ ~NewReport(x).armed
  BY DEF NewReport
<1>3. imports'[s].reports = E \cup N
  OBVIOUS
<1>4. \A r \in E : r.seg.session = s /\ r.seg.rpt <= n /\ r.seg.rpt \in Nat
  <2>1. \A r \in E : r.seg.session = s /\ r.seg.rpt <= n
    BY DEF ReportSignals
  <2>2. E \subseteq ReportEntries
    BY DEF TypeOK, ImpTypeOK, ImportSessionType
  <2> QED
    BY <2>1, <2>2 DEF ReportEntries, ReportSegments
<1> HIDE DEF E, N
<1>5. ASSUME NEW k \in Nat
      PROVE  ReportSignal(s, k)'
  <2> DEFINE X == ReportNumbered(s, k)
  <2>1. ReportSignal(s, k)
    BY DEF ReportSignals
  <2>2. CASE \A x \in rss : x \notin X
    <3>1. \A d \in N : d.seg \notin X
      BY <1>1, <1>2, <2>2
    <3>2. Matching(E, E, X) /\ NotRearmed(E, E, X)
      BY <2>1, SignalMatches DEF ReportSignal, E
    <3>3. Same(impQueue', impQueue, X)
      BY <2>2
    <3> HIDE DEF X
    <3>4. Matching(E, E \cup N, X) /\ NotRearmed(E, E \cup N, X)
      BY <3>1, <3>2, MatchingMore
    <3>5. Matching(imports[s].reports, imports'[s].reports, X)
          /\ NotRearmed(imports[s].reports, imports'[s].reports, X)
      BY <1>3, <3>4 DEF E
    <3> QED
      BY <2>1, <3>3, <3>5, ReportKept DEF X
  <2>3. CASE \E x \in rss : x \in X
    <3>1. n < k
      BY <2>3, NumberedReports
    <3>2. \A r \in E : r.seg \notin X
      BY <1>4, <3>1, NumberedReports
    <3>3. ~Some(impQueue, X) /\ ResendReportEvent(s, k) \notin impTimeline
      BY <2>1, <3>2, SignalAbsent DEF ReportSignal, E
    <3>4. Same(impQueue', a, X)
      BY <3>3
    <3>5. \A x, y \in rss : x \in X /\ y \in X => x = y
      BY NumberedReports
    <3> HIDE DEF X
    <3>6. \A c, d \in E \cup N : c.seg \in X /\ d.seg \in X => c = d
      BY <1>1, <1>2, <3>2, <3>5
    <3>7. \A c \in E \cup N : c.seg \in X => ~c.armed
      BY <1>1, <1>2, <3>2
    <3>8. \A i \in 1 .. Len(a) : a[i] \in X => \E c \in E \cup N : c.seg = a[i]
      BY <1>2 DEF InARow
    <3>9. Once(a, X)
      BY <3>5, RowSome
    <3>10. Signal(E \cup N, X, impQueue', impTimeline, ResendReportEvent(s, k))
      BY <3>3, <3>4, <3>6, <3>7, <3>8, <3>9, SignalNew
    <3>11. Signal(imports'[s].reports, X, impQueue', impTimeline', ResendReportEvent(s, k))
      BY <1>3, <3>10
    <3> QED
      BY <3>11 DEF ReportSignal, ReportNumbered, X
  <2> QED
    BY <2>2, <2>3
<1>6. \A r \in imports'[s].reports : r.seg.session = s /\ r.seg.rpt <= imports'[s].nextRpt
  <2>1. \A r \in E : r.seg.session = s /\ r.seg.rpt <= n + m
    BY <1>4
  <2>2. \A r \in N : r.seg.session = s /\ r.seg.rpt <= n + m
    BY <1>1, <1>2
  <2> QED
    BY <1>3, <2>1, <2>2
<1> QED
  BY <1>5, <1>6 DEF ReportSignals

\* The numbers of a row of reports are the places of their lower bounds.
LEMMA PiecesNumbered ==
    ASSUME NEW cuts \in SUBSET Nat, IsFiniteSet(cuts)
    PROVE  /\ \A p \in Pieces(cuts) :
                 Cardinality({c \in cuts : c <= p[1]}) \in 1 .. Cardinality(Pieces(cuts))
           /\ \A p, q \in Pieces(cuts) :
                 Cardinality({c \in cuts : c <= p[1]}) = Cardinality({c \in cuts : c <= q[1]})
                     => p = q
<1> DEFINE below(p) == {c \in cuts : c <= p[1]}
           P == Pieces(cuts)
           lows == {p[1] : p \in P}
           f == [p \in P |-> p[1]]
<1>1. \A p \in P : p[1] \in cuts /\ p[2] \in cuts /\ p[1] < p[2] /\ p[1] \in Nat /\ p[2] \in Nat
  BY DEF Pieces
<1>2. IsFiniteSet(P)
  BY FinitePieces
<1>3. IsFiniteSet(lows) /\ Cardinality(lows) <= Cardinality(P)
  <2>1. f \in Surjection(P, lows)
    BY DEF Surjection
  <2> HIDE DEF f, lows, P
  <2> QED
    BY <1>2, <2>1, FS_Surjection
<1>4. ASSUME NEW c \in cuts, NEW d \in cuts, c < d
      PROVE  c \in lows
  <2> DEFINE above == {x \in cuts : c < x}
  <2>1. above \in SUBSET Nat /\ above # {}
    BY <1>4
  <2>2. PICK x \in above : \A y \in above : x <= y
    <3> HIDE DEF above
    <3> QED
      BY <2>1, SmallestElement
  <2>3. <<c, x>> \in P
    BY <2>2 DEF Pieces
  <2>4. <<c, x>>[1] = c
    OBVIOUS
  <2> HIDE DEF P
  <2> QED
    BY <2>3, <2>4
<1>5. ASSUME NEW p \in P
      PROVE  /\ below(p) \in SUBSET lows /\ IsFiniteSet(below(p)) /\ p[1] \in below(p)
             /\ Cardinality(below(p)) \in 1 .. Cardinality(P)
  <2> HIDE DEF lows, P
  <2>1. below(p) \in SUBSET lows
    <3> SUFFICES ASSUME NEW c \in cuts, c <= p[1] PROVE c \in lows
      OBVIOUS
    <3>1. p[2] \in cuts /\ p[1] < p[2] /\ p[1] \in Nat /\ p[2] \in Nat /\ c \in Nat
      BY <1>1
    <3>2. c < p[2]
      BY <3>1
    <3> QED
      BY <1>4, <3>1, <3>2
  <2>2. p[1] \in below(p)
    BY <1>1
  <2> HIDE DEF below
  <2>3. IsFiniteSet(below(p)) /\ Cardinality(below(p)) <= Cardinality(lows)
    BY <1>3, <2>1, FS_Subset
  <2>4. /\ Cardinality(below(p)) \in Nat /\ Cardinality(lows) \in Nat
        /\ Cardinality(P) \in Nat /\ Cardinality(below(p)) # 0
    BY <1>2, <1>3, <2>2, <2>3, FS_CardinalityType, FS_EmptySet
  <2>5. Cardinality(below(p)) \in 1 .. Cardinality(P)
    BY <1>3, <2>3, <2>4
  <2> QED
    BY <2>1, <2>2, <2>3, <2>5
<1>6. ASSUME NEW p \in P, NEW q \in P, p[1] < q[1]
      PROVE  Cardinality(below(p)) # Cardinality(below(q))
  <2> HIDE DEF P
  <2>1. p[1] \in Nat /\ q[1] \in Nat /\ p[1] < q[1]
    BY <1>1, <1>6
  <2>2. below(p) \in SUBSET below(q)
    <3> SUFFICES ASSUME NEW c \in cuts, c <= p[1] PROVE c <= q[1]
      OBVIOUS
    <3>1. c \in Nat
      OBVIOUS
    <3> QED
      BY <2>1, <3>1
  <2>3. q[1] \notin below(p)
    BY <2>1
  <2> HIDE DEF below
  <2> QED
    BY <1>5, <2>2, <2>3, FS_Subset
<1>7. ASSUME NEW p \in P, NEW q \in P, Cardinality(below(p)) = Cardinality(below(q))
      PROVE  p = q
  <2> HIDE DEF below
  <2>1. ~(p[1] < q[1]) /\ ~(q[1] < p[1])
    BY <1>6, <1>7
  <2>2. p[1] \in Nat /\ q[1] \in Nat /\ cuts \subseteq Int
    BY <1>1
  <2>3. p[1] = q[1]
    BY <2>1, <2>2
  <2> QED
    BY <2>2, <2>3, PiecesApart
<1> QED
  BY <1>5, <1>7

(***************************************************************************)
(* The reports that sendReport makes.                                      *)
(***************************************************************************)
\* The scope's units, the cuts between the reports, and the report of a piece.
Within(session, seg) ==
    session.units \cap (CitedLowerBound(session, seg.rpt) .. seg.hi - 1)
ReportCuts(session, seg) ==
    LET starts == {r[1] : r \in Runs(Within(session, seg), seg.hi)}
        rank(x) == Cardinality({y \in starts : y <= x})
    IN  {CitedLowerBound(session, seg.rpt), seg.hi} \cup
            {x \in starts : rank(x) > 1 /\ (rank(x) - 1) % MaxClaims = 0}
PieceReport(s, session, seg, cuts, p) ==
    [type |-> "RS", session |-> s, lo |-> p[1], hi |-> p[2], ckpt |-> seg.ckpt,
     rpt |-> session.nextRpt + Cardinality({c \in cuts : c <= p[1]}),
     claims |-> Within(session, seg) \cap (p[1] .. p[2] - 1)]

\* The partial reports are one for each piece between two cuts, ...
LEMMA ReportsOfPieces ==
    ASSUME NEW s, NEW session, NEW seg
    PROVE  PartialReports(s, session, seg) =
               {PieceReport(s, session, seg, ReportCuts(session, seg), p) :
                    p \in Pieces(ReportCuts(session, seg))}
<1> QED
  BY DEF PartialReports, PieceReport, ReportCuts, Within

\* The lower bound of a report's scope.
LEMMA CitedBound ==
    ASSUME NEW session \in ImportSessionType, NEW rpt
    PROVE  /\ CitedLowerBound(session, rpt) \in Nat
           /\ \/ CitedLowerBound(session, rpt) = 0
              \/ \E r \in session.reports : CitedLowerBound(session, rpt) = r.seg.lo
<1>1. \A r \in session.reports : r.seg.lo \in Nat
  BY DEF ImportSessionType, ReportEntries, ReportSegments
<1>2. CASE \E r \in session.reports : r.seg.rpt = rpt
  <2>1. PICK r \in session.reports : CitedLowerBound(session, rpt) = r.seg.lo
    BY <1>2 DEF CitedLowerBound
  <2> QED
    BY <1>1, <2>1
<1>3. CASE ~\E r \in session.reports : r.seg.rpt = rpt
  BY <1>3 DEF CitedLowerBound
<1> QED
  BY <1>2, <1>3

\* ... which are finitely many, and do not exceed the end of the checkpoint.
LEMMA ReportCutsType ==
    ASSUME NEW session \in ImportSessionType, NEW seg \in DataSegments
    PROVE  /\ ReportCuts(session, seg) \in SUBSET Nat
           /\ IsFiniteSet(ReportCuts(session, seg))
           /\ \A c \in ReportCuts(session, seg) :
                 c = CitedLowerBound(session, seg.rpt) \/ c <= seg.hi
<1> DEFINE lower == CitedLowerBound(session, seg.rpt)
           starts == {r[1] : r \in Runs(Within(session, seg), seg.hi)}
           rank(x) == Cardinality({y \in starts : y <= x})
           heads == {x \in starts : rank(x) > 1 /\ (rank(x) - 1) % MaxClaims = 0}
<1>1. seg.hi \in Nat /\ lower \in Nat
  BY CitedBound DEF DataSegments
<1>2. heads \in SUBSET (0 .. seg.hi)
  BY DEF Runs
<1>8. ReportCuts(session, seg) = {lower, seg.hi} \cup heads
  BY Zenon DEF ReportCuts
<1> HIDE DEF heads, lower
<1>3. ReportCuts(session, seg) = (heads \cup {lower}) \cup {seg.hi}
  BY <1>8
<1>4. IsFiniteSet(heads)
  <2>1. IsFiniteSet(0 .. seg.hi)
    BY <1>1, FS_Interval
  <2> QED
    BY <1>2, <2>1, FS_Subset
<1>5. IsFiniteSet((heads \cup {lower}) \cup {seg.hi})
  BY <1>4, FS_AddElement
<1>6. \A c \in heads : c \in Nat /\ c <= seg.hi
  BY <1>1, <1>2
<1>7. \A c \in ReportCuts(session, seg) : c \in Nat /\ (c = lower \/ c <= seg.hi)
  BY <1>1, <1>3, <1>6
<1> QED
  BY <1>1, <1>3, <1>5, <1>7 DEF lower

\* They are numbered in a row, and start at different units.
LEMMA ReportsNumbered ==
    ASSUME NEW s \in Sessions, NEW session \in ImportSessionType, NEW seg \in DataSegments,
           NEW rss, rss = PartialReports(s, session, seg)
    PROVE  /\ rss \in SUBSET ReportSegments /\ IsFiniteSet(rss)
           /\ Cardinality(rss) \in Nat /\ session.nextRpt \in Nat
           /\ \A x \in rss : /\ x.session = s /\ session.nextRpt < x.rpt
                             /\ x.rpt <= session.nextRpt + Cardinality(rss)
           /\ \A x, y \in rss : x.rpt = y.rpt => x = y
           /\ \A x, y \in rss : x.lo = y.lo => x = y
<1> DEFINE cuts == ReportCuts(session, seg)
           P == Pieces(cuts)
           rank(p) == Cardinality({c \in cuts : c <= p[1]})
           f == [p \in P |-> PieceReport(s, session, seg, cuts, p)]
<1>1. rss \in SUBSET ReportSegments /\ IsFiniteSet(rss) /\ Cardinality(rss) \in Nat
  BY PartialReportsType, FS_CardinalityType
<1>2. session.nextRpt \in Nat
  BY DEF ImportSessionType
<1>3. cuts \in SUBSET Nat /\ IsFiniteSet(cuts)
  BY ReportCutsType
<1>4. IsFiniteSet(P) /\ Cardinality(P) \in Nat
  BY <1>3, FinitePieces, FS_CardinalityType
<1>5. rss = {f[p] : p \in P}
  BY ReportsOfPieces
<1>6. \A p \in P : /\ f[p].session = s /\ f[p].lo = p[1]
                   /\ f[p].rpt = session.nextRpt + rank(p)
  BY DEF PieceReport
<1>7. (\A p \in P : rank(p) \in 1 .. Cardinality(P))
      /\ \A p, q \in P : rank(p) = rank(q) => p = q
  BY <1>3, PiecesNumbered
<1>8. DOMAIN f = P
  OBVIOUS
<1> HIDE DEF f, P, cuts, rank
<1>9. \A p, q \in P : f[p].rpt = f[q].rpt => p = q
  <2> SUFFICES ASSUME NEW p \in P, NEW q \in P, f[p].rpt = f[q].rpt PROVE p = q
    OBVIOUS
  <2>1. rank(p) \in Nat /\ rank(q) \in Nat
    BY <1>4, <1>7
  <2>2. rank(p) = rank(q)
    BY <1>2, <1>6, <2>1
  <2> QED
    BY <1>7, <2>2
<1>10. Cardinality(rss) = Cardinality(P)
  <2>1. f \in [P -> rss]
    BY <1>5, <1>8 DEF f
  <2>2. f \in Surjection(P, rss) /\ f \in Injection(P, rss)
    BY <1>5, <1>9, <2>1 DEF Surjection, Injection, IsInjective
  <2> QED
    BY <1>4, <2>2, FS_Surjection
<1>11. ASSUME NEW x \in rss
       PROVE  x.session = s /\ session.nextRpt < x.rpt /\ x.rpt <= session.nextRpt + Cardinality(rss)
  <2>1. PICK p \in P : x = f[p]
    BY <1>5
  <2>2. rank(p) \in 1 .. Cardinality(P)
    BY <1>7
  <2> QED
    BY <1>2, <1>4, <1>6, <1>10, <2>1, <2>2
<1>12. \A x, y \in rss : x.rpt = y.rpt => x = y
  BY <1>5, <1>9
<1>13. \A x, y \in rss : x.lo = y.lo => x = y
  <2> SUFFICES ASSUME NEW p \in P, NEW q \in P, f[p].lo = f[q].lo PROVE f[p] = f[q]
    BY <1>5
  <2>1. p[1] = q[1]
    BY <1>6
  <2> QED
    <3>1. rank(p) = rank(q)
      BY <2>1 DEF rank
    <3>2. f[p].rpt = f[q].rpt
      BY <1>6, <3>1
    <3> QED
      BY <1>9, <3>2
<1> QED
  BY <1>1, <1>2, <1>11, <1>12, <1>13

(***************************************************************************)
(* The steps of the receiving half.                                        *)
(***************************************************************************)
LEMMA DataReports ==
    ASSUME TypeOK, NEW s \in Sessions, ReportSignals(s),
           NEW seg \in net \cap DataSegments, HandleDataSegment(seg)
    PROVE  ReportSignals(s)'
<1> DEFINE t == seg.session
           session == StoredIn(seg)
           last == FinalReportOf(seg)
           rss == Reports(seg)
           reported == [WithReports(session, {last})
                           EXCEPT !.lastRpt = last.rpt, !.delivered = TRUE]
<1>1. t \in Sessions /\ seg \in DataSegments /\ seg.ckpt \in Nat
  BY DEF DataSegments
<1>2. /\ imports \in [Sessions -> ImportSessionType] /\ impQueue \in Seq(Segments)
      /\ impState \in [Sessions -> {"none", "open", "dead"}]
  BY DEF TypeOK, ImpTypeOK
<1>3. PICK fault : \/ LateSegment(seg)
                   \/ RejectedSegment(seg, fault)
                   \/ GreenSegment(seg, fault)
                   \/ UselessRedSegment(seg, fault)
                   \/ DiscardedRedSegment(seg, fault)
                   \/ AcceptedRedSegment(seg, fault)
  BY DEF HandleDataSegment
<1>4. ASSUME imports'[s].reports = imports[s].reports,
             imports'[s].nextRpt = imports[s].nextRpt,
             impQueue' = impQueue, impTimeline' = impTimeline,
             impState'[s] # "open" => impState[s] # "open"
      PROVE  ReportSignals(s)'
  <2>1. ReportQueueKeeps(s)
    BY <1>4, ReportQueueUnchanged
  <2>2. ReportEventsKeep(s)
    BY <1>4 DEF ReportEventsKeep
  <2> QED
    BY <1>4, <2>1, <2>2, ReportsStay
<1>5. CASE \/ LateSegment(seg) \/ GreenSegment(seg, fault)
           \/ UselessRedSegment(seg, fault) \/ DiscardedRedSegment(seg, fault)
  <2>1. imports' = imports /\ impQueue' = impQueue /\ impTimeline' = impTimeline
    BY <1>5 DEF LateSegment, GreenSegment, UselessRedSegment, DiscardedRedSegment,
                impVars, impSessionVars
  <2>2. impState' = impState \/ impState' = [impState EXCEPT ![t] = "open"]
    BY <1>5 DEF LateSegment, GreenSegment, UselessRedSegment, DiscardedRedSegment,
                impVars, impSessionVars
  <2>3. impState'[s] # "open" => impState[s] # "open"
    BY <1>1, <1>2, <2>2
  <2> QED
    BY <1>4, <2>1, <2>3
<1>6. CASE RejectedSegment(seg, fault)
  <2>1. CASE CancelSessionByReceiver(t)
    BY <1>1, <2>1, CanceledReports
  <2>2. CASE impQueue' = Append(impQueue, BareCR(t)) /\ UNCHANGED <<impSessionVars, impTimeline>>
    <3>1. \A k \in Nat : BareCR(t) \notin ReportNumbered(s, k)
      BY NumberedReports DEF BareCR, CancelSegments
    <3>2. ReportQueueKeeps(s)
      BY <1>2, <2>2, <3>1, AppendOther DEF ReportQueueKeeps
    <3>3. ReportEventsKeep(s)
      BY <2>2 DEF ReportEventsKeep
    <3> QED
      BY <2>2, <3>2, <3>3, ReportsStay DEF impSessionVars
  <2> QED
    BY <1>6, <2>1, <2>2 DEF RejectedSegment, impSessionVars
<1>7. CASE AcceptedRedSegment(seg, fault)
  <2>1. session \in ImportSessionType /\ session.redPartLength \in Nat
    BY <1>1, <1>2, StoredType DEF StoredIn, ImportSessionType
  <2>2. session.reports = imports[t].reports /\ session.nextRpt = imports[t].nextRpt
    BY <1>1, <1>2 DEF StoredIn, Stored, ImportSessionType
  <2> HIDE DEF session
  <2>3. CASE /\ impState' = [impState EXCEPT ![t] = "open"]
             /\ imports' = [imports EXCEPT ![t] = session]
             /\ impQueue' = impQueue /\ impTimeline' = impTimeline
    <3>1. imports'[s].reports = imports[s].reports /\ imports'[s].nextRpt = imports[s].nextRpt
      BY <1>1, <1>2, <2>2, <2>3
    <3>2. impState'[s] # "open" => impState[s] # "open"
      BY <1>1, <1>2, <2>3
    <3> QED
      BY <1>4, <2>3, <3>1, <3>2
  \* New reports, whose session is open then.
  <2>4. ASSUME NEW new, NEW set \in SUBSET ReportSegments, IsFiniteSet(set),
               new.reports = imports[t].reports \cup {NewReport(x) : x \in set},
               new.nextRpt = imports[t].nextRpt + Cardinality(set),
               \A x \in set : /\ x.session = t /\ imports[t].nextRpt < x.rpt
                              /\ x.rpt <= imports[t].nextRpt + Cardinality(set),
               \A x, y \in set : x.rpt = y.rpt => x = y,
               NEW a, InARow(a, set),
               \A X : (\A x \in set : x \notin X) => Same(impQueue', impQueue, X),
               \A X : ~Some(impQueue, X) => Same(impQueue', a, X),
               impState' = [impState EXCEPT ![t] = "open"],
               imports' = [imports EXCEPT ![t] = new],
               impTimeline' = impTimeline
        PROVE  ReportSignals(s)'
    <3>1. CASE s # t
      <4>1. ReportQueueKeeps(s)
        <5>1. \A k \in Nat : \A x \in set : x \notin ReportNumbered(s, k)
          BY <2>4, <3>1, NumberedReports
        <5> QED
          BY <2>4, <5>1 DEF ReportQueueKeeps
      <4>2. ReportEventsKeep(s)
        BY <2>4 DEF ReportEventsKeep
      <4>3. imports'[s] = imports[s] /\ impState'[s] = impState[s]
        BY <1>2, <2>4, <3>1
      <4> QED
        BY <4>1, <4>2, <4>3, ReportsStay
    <3>2. CASE s = t
      <4> DEFINE n == imports[s].nextRpt
                 m == Cardinality(set)
      <4>1. n \in Nat /\ m \in Nat
        BY <1>2, <2>4, FS_CardinalityType DEF ImportSessionType
      <4>2. /\ imports'[s].reports = imports[s].reports \cup {NewReport(x) : x \in set}
            /\ imports'[s].nextRpt = n + m /\ impState'[s] = "open"
        BY <1>2, <2>4, <3>2
      <4>3. \A x \in set : x.session = s /\ n < x.rpt /\ x.rpt <= n + m
        BY <2>4, <3>2
      <4>4. \A k \in Nat : (\A x \in set : x \notin ReportNumbered(s, k)) =>
                Same(impQueue', impQueue, ReportNumbered(s, k))
        BY <2>4
      <4>5. \A k \in Nat : ~Some(impQueue, ReportNumbered(s, k)) =>
                Same(impQueue', a, ReportNumbered(s, k))
        BY <2>4
      <4>6. n = imports[s].nextRpt
        OBVIOUS
      <4> HIDE DEF n, m
      <4> QED
        BY <2>4, <4>1, <4>2, <4>3, <4>4, <4>5, <4>6, NewReports
    <3> QED
      BY <3>1, <3>2
  <2>5. CASE /\ impState' = [impState EXCEPT ![t] = "open"]
             /\ imports' = [imports EXCEPT ![t] = reported]
             /\ impQueue' = EnqueueAck(impQueue, last)
             /\ impTimeline' = impTimeline
    <3> DEFINE set == {last}
               a == <<last>>
    <3>1. /\ last \in ReportSegments /\ last.session = t
          /\ last.rpt = imports[t].nextRpt + 1 /\ imports[t].nextRpt \in Nat
      <4>1. last \in ReportSegments
        BY <1>1, <2>1, LastReportType DEF FinalReportOf, session
      <4>2. last.session = t /\ last.rpt = session.nextRpt + 1
        BY DEF FinalReportOf, LastReport, session
      <4>3. imports[t].nextRpt \in Nat
        BY <1>1, <1>2 DEF ImportSessionType
      <4> QED
        BY <2>2, <4>1, <4>2, <4>3
    <3> HIDE DEF last
    <3>2. IsFiniteSet(set) /\ Cardinality(set) = 1
      BY FS_Singleton
    <3>3. reported.reports = imports[t].reports \cup {NewReport(x) : x \in set}
      BY <2>1, <2>2 DEF WithReports, ImportSessionType
    <3>4. reported.nextRpt = imports[t].nextRpt + Cardinality(set)
      <4> DEFINE new == WithReports(session, set)
      <4>1. new.nextRpt = session.nextRpt + Cardinality(set)
        BY <2>1 DEF WithReports, ImportSessionType
      <4>2. new \in ImportSessionType
        BY <2>1, <3>1, <3>2, WithReportsType
      <4>3. reported = [new EXCEPT !.lastRpt = last.rpt, !.delivered = TRUE]
        OBVIOUS
      <4> HIDE DEF new
      <4>4. reported.nextRpt = new.nextRpt
        BY <4>2, <4>3 DEF ImportSessionType
      <4> HIDE DEF set, reported
      <4> QED
        BY <2>2, <4>1, <4>4
    <3>5. InARow(a, set)
      <4>1. Len(a) = 1 /\ a[1] = last /\ 1 .. 1 = {1}
        OBVIOUS
      <4>2. InQueue(a, last)
        BY <4>1 DEF InQueue
      <4>3. \A i \in 1 .. Len(a) : i = 1
        BY <4>1
      <4> HIDE DEF a
      <4> QED
        BY <4>1, <4>2, <4>3 DEF InARow
    <3>6. last \in Segments
      BY <3>1 DEF Segments
    <3>7. ASSUME NEW X, \A x \in set : x \notin X
          PROVE  Same(impQueue', impQueue, X)
      BY <1>2, <2>5, <3>6, <3>7, AckOther
    <3>8. ASSUME NEW X, ~Some(impQueue, X)
          PROVE  Same(impQueue', a, X)
      BY <1>2, <2>5, <3>6, <3>8, AckCounts
    <3>9. \A x \in set : /\ x.session = t /\ imports[t].nextRpt < x.rpt
                         /\ x.rpt <= imports[t].nextRpt + Cardinality(set)
      BY <3>1, <3>2
    <3>10. set \in SUBSET ReportSegments /\ \A x, y \in set : x.rpt = y.rpt => x = y
      BY <3>1
    <3> HIDE DEF set, a, reported
    <3> QED
      BY <2>4, <2>5, <3>2, <3>3, <3>4, <3>5, <3>7, <3>8, <3>9, <3>10
  <2>6. CASE CancelSessionByReceiver(t)
    BY <1>1, <2>6, CanceledReports
  <2>7. CASE /\ impState' = [impState EXCEPT ![t] = "open"]
             /\ imports' = [imports EXCEPT ![t] = WithReports(session, rss)]
             /\ impQueue' = EnqueueAcks(impQueue, InOrder(rss))
             /\ impTimeline' = impTimeline
    <3> DEFINE new == WithReports(session, rss)
               a == InOrder(rss)
    <3>1. rss = PartialReports(t, session, seg)
      BY DEF Reports, session
    <3> HIDE DEF rss
    <3>2. /\ rss \in SUBSET ReportSegments /\ IsFiniteSet(rss)
          /\ \A x \in rss : /\ x.session = t /\ imports[t].nextRpt < x.rpt
                            /\ x.rpt <= imports[t].nextRpt + Cardinality(rss)
          /\ \A x, y \in rss : x.rpt = y.rpt => x = y
          /\ \A x, y \in rss : x.lo = y.lo => x = y
      BY <1>1, <2>1, <2>2, <3>1, ReportsNumbered
    <3>3. new.reports = imports[t].reports \cup {NewReport(x) : x \in rss}
      BY <2>1, <2>2 DEF WithReports, ImportSessionType
    <3>4. new.nextRpt = imports[t].nextRpt + Cardinality(rss)
      BY <2>1, <2>2 DEF WithReports, ImportSessionType
    <3>5. InARow(a, rss)
      <4>1. \A x \in rss : x.lo \in Int
        BY <3>2 DEF ReportSegments
      <4> QED
        BY <3>2, <4>1, InOrderOnce
    <3>6. rss \subseteq Segments
      BY <3>2 DEF Segments
    <3>7. ASSUME NEW X, \A x \in rss : x \notin X
          PROVE  Same(impQueue', impQueue, X)
      BY <1>2, <2>7, <3>2, <3>6, <3>7, AcksOther
    <3>8. ASSUME NEW X, ~Some(impQueue, X)
          PROVE  Same(impQueue', a, X)
      BY <1>2, <2>7, <3>2, <3>6, <3>8, AcksCount
    <3> HIDE DEF new, a
    <3>9. imports' = [imports EXCEPT ![t] = new]
      BY <2>7 DEF new
    <3> QED
      BY <2>4, <2>7, <3>2, <3>3, <3>4, <3>5, <3>7, <3>8, <3>9
  <2> QED
    BY <1>7, <2>3, <2>5, <2>6, <2>7
       DEF AcceptedRedSegment, StoredIn, Reports, FinalReportOf, session
<1> QED
  BY <1>3, <1>5, <1>6, <1>7

\* The head of the queue is sent: a report's timer is started.
LEMMA DequeueReports ==
    ASSUME TypeOK, NEW s \in Sessions, ReportSignals(s),
           impQueue # <<>>, DequeueImport(Head(impQueue))
    PROVE  ReportSignals(s)'
<1> DEFINE seg == Head(impQueue)
           t == seg.session
<1>1. /\ imports \in [Sessions -> ImportSessionType]
      /\ impQueue \in Seq(Segments) /\ impQueue' = Tail(impQueue) /\ impState' = impState
  BY DEF TypeOK, ImpTypeOK, DequeueImport
<1>2. seg \in Segments /\ t \in Sessions
  BY <1>1, HeadTailType, SegmentKinds
<1>3. ASSUME NEW k \in Nat, seg \notin ReportNumbered(s, k)
      PROVE  Same(impQueue', impQueue, ReportNumbered(s, k))
  BY <1>1, <1>3, TailOther
<1> HIDE DEF seg
<1>4. CASE seg.type # "RS"
  <2>1. ReportQueueKeeps(s)
    BY <1>3, <1>4, NumberedReports DEF ReportQueueKeeps
  <2>2. ReportEventsKeep(s) /\ imports' = imports
    BY <1>4, ReportEventsApart
       DEF DequeueImport, DequeueReport, DequeueCR, DequeueCAS, ReportEventsKeep, seg
  <2> QED
    BY <1>1, <2>1, <2>2, ReportsStay
<1>5. CASE seg.type = "RS"
  <2> DEFINE E == imports[t].reports
             D == {r \in E : r.seg = seg}
             g == [r \in D |-> [r EXCEPT !.armed = TRUE]]
             F == (E \ D) \cup {g[r] : r \in D}
  <2>1. /\ imports' = [imports EXCEPT ![t].reports = F]
        /\ impTimeline' = impTimeline \cup {ResendReportEvent(t, seg.rpt)}
    <3>1. DequeueReport(seg)
      BY <1>5 DEF DequeueImport, DequeueCR, DequeueCAS, seg
    <3> QED
      BY <3>1 DEF DequeueReport
  <2>2. CASE s # t
    <3>1. ReportQueueKeeps(s)
      BY <1>3, <2>2, NumberedReports DEF ReportQueueKeeps
    <3>2. ReportEventsKeep(s)
      BY <2>1, <2>2, ReportEventsApart DEF ReportEventsKeep
    <3> HIDE DEF F
    <3> QED
      BY <1>1, <2>1, <2>2, <3>1, <3>2, ReportsStay
  <2>3. CASE s = t
    <3>1. E \subseteq ReportEntries /\ D \subseteq E
      BY <1>1, <1>2 DEF ImportSessionType
    <3>2. \A c \in D : g[c].seg = c.seg /\ c.seg = seg
      BY <3>1 DEF ReportEntries
    <3>3. \A d \in F : d \in E \/ \E c \in D : d = g[c]
      OBVIOUS
    <3> HIDE DEF D, g
    <3>4. IsRevised(E, F, D, g)
      BY <3>1, <3>2 DEF IsRevised
    <3> HIDE DEF F
    <3>5. imports'[s].reports = F /\ imports'[s].nextRpt = imports[s].nextRpt
      BY <1>1, <2>1, <2>3 DEF ImportSessionType
    <3>6. ASSUME NEW k \in Nat
          PROVE  ReportSignal(s, k)'
      <4> DEFINE X == ReportNumbered(s, k)
                 ev == ResendReportEvent(s, k)
      <4>1. Signal(E, X, impQueue, impTimeline, ev)
        BY <2>3 DEF ReportSignals, ReportSignal
      <4>2. \A c, d \in E : c.seg \in X /\ d.seg \in X => c = d
        BY <4>1 DEF Signal
      <4>3. Matching(E, F, X)
        BY <3>4, <4>2, RevisedMatches
      <4> HIDE DEF E
      <4>4. CASE seg \in X
        <5>1. ev \in impTimeline'
          BY <2>1, <2>3, <4>4, NumberedReports
        <5> HIDE DEF X, ev
        <5>2. Signal(F, X, Tail(impQueue), impTimeline', ev)
          BY <1>1, <4>1, <4>3, <4>4, <5>1, SignalSent DEF seg
        <5>3. Signal(imports'[s].reports, X, impQueue', impTimeline', ev)
          BY <1>1, <3>5, <5>2
        <5> QED
          BY <5>3 DEF ReportSignal, ReportNumbered, X, ev
      <4>5. CASE seg \notin X
        <5>1. NotRearmed(E, F, X)
          BY <3>2, <3>3, <4>5 DEF NotRearmed
        <5>2. seg.rpt # k
          BY <1>2, <1>5, <2>3, <4>5 DEF ReportNumbered
        <5>3. ev \in impTimeline' <=> ev \in impTimeline
          BY <2>1, <2>3, <5>2, ReportEventsApart
        <5>4. Same(impQueue', impQueue, X)
          BY <1>3, <4>5
        <5>5. /\ Matching(imports[s].reports, imports'[s].reports, X)
              /\ NotRearmed(imports[s].reports, imports'[s].reports, X)
          BY <2>3, <3>5, <4>3, <5>1 DEF E
        <5>6. ReportSignal(s, k)
          BY DEF ReportSignals
        <5> QED
          BY <5>3, <5>4, <5>5, <5>6, ReportKept
      <4> QED
        BY <4>4, <4>5
    <3>7. \A d \in F : \E c \in E : c.seg = d.seg
      BY <3>1, <3>2, <3>3
    <3>8. \A r \in imports'[s].reports : r.seg.session = s /\ r.seg.rpt <= imports'[s].nextRpt
      BY <2>3, <3>5, <3>7 DEF ReportSignals
    <3>9. impState'[s] # "open" => imports'[s].reports = {}
      BY <1>1, <2>3, <3>5, <3>7 DEF ReportSignals
    <3> QED
      BY <3>6, <3>8, <3>9 DEF ReportSignals
  <2> QED
    BY <2>2, <2>3
<1> QED
  BY <1>4, <1>5

\* A report's event: it is resent, if it is still armed.
LEMMA ResendReports ==
    ASSUME TypeOK, NEW s \in Sessions, ReportSignals(s),
           NEW t \in Sessions, ReportSignals(t), NEW j \in Nat, ResendReport(t, j)
    PROVE  ReportSignals(s)'
<1> DEFINE event == ResendReportEvent(t, j)
           D == {r \in imports[t].reports : r.seg.rpt = j}
           isLive == impState[t] = "open" /\ \E r \in D : r.armed
<1>1. /\ imports \in [Sessions -> ImportSessionType] /\ impQueue \in Seq(Segments)
      /\ impState \in [Sessions -> {"none", "open", "dead"}]
      /\ \A i \in Sessions : imports[i].reports \subseteq ReportEntries
  BY DEF TypeOK, ImpTypeOK, ImportSessionType
<1>2. event \in impTimeline
  BY DEF ResendReport
<1>3. ASSUME NEW k \in Nat, ~(s = t /\ k = j)
      PROVE  ResendReportEvent(s, k) \in impTimeline \ {event}
                 <=> ResendReportEvent(s, k) \in impTimeline
  BY <1>3, ReportEventsApart
<1>4. \A i \in {s, t} : \A r \in imports[i].reports :
          r.seg.session = i /\ r.seg.rpt <= imports[i].nextRpt
  BY DEF ReportSignals
<1>5. CASE ~isLive /\ impTimeline' = impTimeline \ {event} /\ UNCHANGED <<impSessionVars, impQueue>>
  <2>1. impState' = impState /\ imports' = imports /\ impQueue' = impQueue
    BY <1>5 DEF impSessionVars
  <2>2. ASSUME NEW k \in Nat
        PROVE  ReportSignal(s, k)'
    <3>1. CASE s = t /\ k = j
      <4>1. \A r \in imports[s].reports : r.seg \in ReportNumbered(s, k) => ~r.armed
        <5>1. imports[s].reports # {} => impState[s] = "open"
          BY DEF ReportSignals
        <5>2. \A r \in D : ~r.armed \/ imports[s].reports = {}
          BY <1>5, <3>1, <5>1
        <5> QED
          BY <3>1, <5>2 DEF ReportNumbered
      <4>2. Signal(imports[s].reports, ReportNumbered(s, k), impQueue, impTimeline',
                   ResendReportEvent(s, k))
        BY <1>5, <3>1, <4>1, SignalEnded DEF ReportSignals, ReportSignal
      <4>3. Signal(imports'[s].reports, ReportNumbered(s, k), impQueue', impTimeline',
                   ResendReportEvent(s, k))
        BY <2>1, <4>2
      <4> QED
        BY <4>3 DEF ReportSignal, ReportNumbered
    <3>2. CASE ~(s = t /\ k = j)
      <4>1. ReportSignal(s, k)
        BY DEF ReportSignals
      <4>2. Matching(imports[s].reports, imports'[s].reports, ReportNumbered(s, k))
            /\ NotRearmed(imports[s].reports, imports'[s].reports, ReportNumbered(s, k))
        BY <2>1, <4>1, SignalMatches DEF ReportSignal
      <4>3. Same(impQueue', impQueue, ReportNumbered(s, k))
        BY <2>1, SameItself
      <4>4. ResendReportEvent(s, k) \in impTimeline' <=> ResendReportEvent(s, k) \in impTimeline
        BY <1>3, <1>5, <3>2
      <4> QED
        BY <4>1, <4>2, <4>3, <4>4, ReportKept
    <3> QED
      BY <3>1, <3>2
  <2> QED
    BY <2>1, <2>2 DEF ReportSignals
<1>6. CASE CancelSessionByReceiver(t)
  BY <1>6, CanceledReports
<1>7. ASSUME isLive, NEW c \in D,
             imports' = [imports EXCEPT ![t].reports = (@ \ D) \cup {[c EXCEPT !.count = @ + 1]}],
             impQueue' = Append(impQueue, c.seg),
             impTimeline' = impTimeline \ {event}, impState' = impState
      PROVE  ReportSignals(s)'
  <2>1. c \in imports[t].reports /\ c.seg.session = t /\ c.seg.rpt = j
    BY <1>4
  <2>2. CASE s # t
    <3>1. ReportQueueKeeps(s)
      <4>1. \A k \in Nat : c.seg \notin ReportNumbered(s, k)
        BY <2>1, <2>2 DEF ReportNumbered
      <4> QED
        BY <1>1, <1>7, <4>1, AppendOther DEF ReportQueueKeeps
    <3>2. ReportEventsKeep(s)
      BY <1>3, <1>7, <2>2 DEF ReportEventsKeep
    <3> QED
      BY <1>1, <1>7, <2>2, <3>1, <3>2, ReportsStay
  <2>3. CASE s = t
    <3> DEFINE E == imports[s].reports
               C == {c}
               g == [x \in C |-> [x EXCEPT !.count = @ + 1]]
               F == (E \ C) \cup {g[x] : x \in C}
    <3>1. E \subseteq ReportEntries /\ C \subseteq E
      BY <1>1, <2>1, <2>3
    <3>2. \A d \in E : d.seg.rpt = j => d.seg \in ReportNumbered(s, j)
      <4>1. \A d \in E : d.seg \in Segments /\ d.seg.type = "RS" /\ d.seg.session = s
        BY <1>4, <3>1 DEF ReportEntries, ReportSegments, Segments
      <4> QED
        BY <4>1 DEF ReportNumbered
    <3>3. D = C
      <4>1. \A d, e \in E : d.seg \in ReportNumbered(s, j) /\ e.seg \in ReportNumbered(s, j) => d = e
        BY DEF ReportSignals, ReportSignal, Signal
      <4> QED
        BY <2>1, <2>3, <3>2, <4>1
    <3>4. imports'[s].reports = F /\ imports'[s].nextRpt = imports[s].nextRpt
      BY <1>1, <1>7, <2>3, <3>3 DEF ImportSessionType
    <3>5. \A x \in C : g[x].seg = x.seg /\ g[x].armed = x.armed
      BY <3>1 DEF ReportEntries
    <3>6. \A d \in F : d \in E \/ \E x \in C : d = g[x]
      OBVIOUS
    <3> HIDE DEF g, C, D
    <3>7. IsRevised(E, F, C, g)
      BY <3>1, <3>5 DEF IsRevised
    <3> HIDE DEF F
    <3>8. ASSUME NEW k \in Nat
          PROVE  ReportSignal(s, k)'
      <4> DEFINE X == ReportNumbered(s, k)
                 ev == ResendReportEvent(s, k)
      <4>1. Signal(E, X, impQueue, impTimeline, ev)
        BY DEF ReportSignals, ReportSignal
      <4>2. \A x, y \in E : x.seg \in X /\ y.seg \in X => x = y
        BY <4>1 DEF Signal
      <4>3. Matching(E, F, X)
        BY <3>7, <4>2, RevisedMatches
      <4> HIDE DEF E
      <4>4. CASE k = j
        <5>1. c \in E /\ c.seg \in X /\ ev \notin impTimeline'
          BY <1>7, <2>1, <2>3, <3>2, <4>4 DEF E
        <5>2. ~Some(impQueue, X)
          BY <1>2, <2>3, <4>1, <4>4 DEF Signal
        <5> HIDE DEF X, ev
        <5>3. Same(impQueue', <<c.seg>>, X)
          BY <1>1, <1>7, <5>2, AppendCounts
        <5>4. Signal(F, X, impQueue', impTimeline', ev)
          BY <4>1, <4>3, <5>1, <5>3, SignalResent
        <5>5. Signal(imports'[s].reports, X, impQueue', impTimeline', ev)
          BY <3>4, <5>4
        <5> QED
          BY <5>5 DEF ReportSignal, ReportNumbered, X, ev
      <4>5. CASE k # j
        <5>1. NotRearmed(E, F, X)
          BY <3>1, <3>5, <3>6 DEF NotRearmed
        <5>2. c.seg \notin X
          BY <2>1, <4>5 DEF ReportNumbered
        <5>3. Same(impQueue', impQueue, X)
          BY <1>1, <1>7, <5>2, AppendOther
        <5>4. ev \in impTimeline' <=> ev \in impTimeline
          BY <1>3, <1>7, <4>5
        <5>5. /\ Matching(imports[s].reports, imports'[s].reports, X)
              /\ NotRearmed(imports[s].reports, imports'[s].reports, X)
          BY <3>4, <4>3, <5>1 DEF E
        <5>6. ReportSignal(s, k)
          BY DEF ReportSignals
        <5> QED
          BY <5>3, <5>4, <5>5, <5>6, ReportKept
      <4> QED
        BY <4>4, <4>5
    <3>9. \A d \in F : \E x \in E : x.seg = d.seg
      BY <3>1, <3>5, <3>6
    <3>10. \A d \in imports'[s].reports : d.seg.session = s /\ d.seg.rpt <= imports'[s].nextRpt
      BY <1>4, <3>4, <3>9
    <3>11. impState'[s] = "open"
      BY <1>7, <2>3
    <3> QED
      BY <3>8, <3>10, <3>11 DEF ReportSignals
  <2> QED
    BY <2>2, <2>3
<1> QED
  BY <1>5, <1>6, <1>7 DEF ResendReport

\* A report is acknowledged: its timer stops, or the session is closed.
LEMMA AckReports ==
    ASSUME TypeOK, NEW s \in Sessions, ReportSignals(s),
           NEW ra \in ReportAcks, HandleRA(ra)
    PROVE  ReportSignals(s)'
<1> DEFINE t == ra.session
           E == imports[t].reports
           D == {r \in E : r.seg.rpt = ra.rpt}
           g == [r \in D |-> [r EXCEPT !.armed = FALSE]]
           F == (E \ D) \cup {g[r] : r \in D}
<1>1. /\ imports \in [Sessions -> ImportSessionType] /\ impQueue \in Seq(Segments)
      /\ t \in Sessions
  BY DEF TypeOK, ImpTypeOK, ReportAcks
<1>2. impQueue' = impQueue => ReportQueueKeeps(s)
  BY ReportQueueUnchanged
<1>3. impTimeline' = impTimeline => ReportEventsKeep(s)
  BY DEF ReportEventsKeep
<1>4. CASE UNCHANGED impVars
  BY <1>2, <1>3, <1>4, ReportsStay DEF impVars, impSessionVars
<1>5. CASE CloseImportSession(t, impQueue)
  <2>1. \A k \in Nat : Same(impQueue, impQueue, ReportNumbered(s, k))
    BY SameItself
  <2> QED
    BY <1>1, <1>5, <2>1, ClosedReports
<1>6. CASE /\ imports' = [imports EXCEPT ![t].reports = F]
           /\ UNCHANGED <<impState, impQueue, impTimeline>>
  <2>1. CASE s # t
    <3>1. imports'[s] = imports[s]
      BY <1>1, <1>6, <2>1
    <3> QED
      BY <1>2, <1>3, <1>6, <3>1, ReportsStay
  <2>2. CASE s = t
    <3>1. E \subseteq ReportEntries /\ D \subseteq E
      BY <1>1 DEF ImportSessionType
    <3>2. \A c \in D : g[c].seg = c.seg /\ ~g[c].armed
      BY <3>1 DEF ReportEntries
    <3>3. \A d \in F : d \in E \/ \E c \in D : d = g[c]
      OBVIOUS
    <3> HIDE DEF D, g
    <3>4. IsRevised(E, F, D, g)
      BY <3>1, <3>2 DEF IsRevised
    <3> HIDE DEF F
    <3>5. imports'[s].reports = F /\ imports'[s].nextRpt = imports[s].nextRpt
      BY <1>1, <1>6, <2>2 DEF ImportSessionType
    <3>6. ASSUME NEW k \in Nat
          PROVE  ReportSignal(s, k)'
      <4> DEFINE X == ReportNumbered(s, k)
      <4>1. ReportSignal(s, k)
        BY DEF ReportSignals
      <4>2. \A c, d \in E : c.seg \in X /\ d.seg \in X => c = d
        BY <2>2, <4>1 DEF ReportSignal, Signal
      <4> HIDE DEF E, X
      <4>3. Matching(E, F, X)
        BY <3>4, <4>2, RevisedMatches
      <4>4. NotRearmed(E, F, X)
        BY <3>1, <3>2, <3>3 DEF NotRearmed
      <4>5. /\ Matching(imports[s].reports, imports'[s].reports, X)
            /\ NotRearmed(imports[s].reports, imports'[s].reports, X)
        BY <2>2, <3>5, <4>3, <4>4 DEF E
      <4>6. Same(impQueue', impQueue, X)
        BY <1>6, SameItself
      <4> QED
        BY <1>6, <4>1, <4>5, <4>6, ReportKept DEF X
    <3>7. \A d \in F : \E c \in E : c.seg = d.seg
      BY <3>1, <3>2, <3>3
    <3>8. \A r \in imports'[s].reports : r.seg.session = s /\ r.seg.rpt <= imports'[s].nextRpt
      BY <2>2, <3>5, <3>7 DEF ReportSignals
    <3>9. impState'[s] # "open" => imports'[s].reports = {}
      BY <1>6, <2>2, <3>5, <3>7 DEF ReportSignals
    <3> QED
      BY <3>6, <3>8, <3>9 DEF ReportSignals
  <2> QED
    BY <2>1, <2>2
<1>7. ra.session = t /\ F = (imports[t].reports \ {r \in imports[t].reports : r.seg.rpt = ra.rpt})
          \cup {[r EXCEPT !.armed = FALSE] : r \in {r \in imports[t].reports : r.seg.rpt = ra.rpt}}
  OBVIOUS
<1> HIDE DEF F, t, E, D, g
<1> QED
  BY <1>4, <1>5, <1>6, <1>7 DEF HandleRA

\* Every step keeps the reports signaled.
LEMMA ReportsSignaledStep ==
    ASSUME TypeOK, ReportsSignaled, ImpStep
    PROVE  ReportsSignaled'
<1> SUFFICES ASSUME NEW s \in Sessions
             PROVE  ReportSignals(s)'
  BY DEF ReportsSignaled
<1>1. /\ imports \in [Sessions -> ImportSessionType] /\ impQueue \in Seq(Segments)
      /\ impState \in [Sessions -> {"none", "open", "dead"}]
  BY DEF TypeOK, ImpTypeOK
<1>2. \A i \in Sessions : ReportSignals(i)
  BY DEF ReportsSignaled
<1>3. ASSUME NEW seg \in net \cap DataSegments, HandleDataSegment(seg)
      PROVE  ReportSignals(s)'
  BY <1>2, <1>3, DataReports
<1>4. ASSUME NEW ra \in net \cap ReportAcks, HandleRA(ra)
      PROVE  ReportSignals(s)'
  BY <1>2, <1>4, AckReports
<1>5. ASSUME NEW t \in Sessions, HandleCS(t)
      PROVE  ReportSignals(s)'
  <2> DEFINE q == EnqueueAck(impQueue, Cancel("CAS", t))
  <2>1. Cancel("CAS", t) \in Segments /\ Cancel("CAS", t) \in CancelSegments
    BY MadeSegments DEF Cancel, CancelSegments
  <2>2. q \in Seq(Segments)
    BY <1>1, <2>1, EnqueueAckType
  <2>3. \A k \in Nat : Same(q, impQueue, ReportNumbered(s, k))
    <3>1. \A k \in Nat : Cancel("CAS", t) \notin ReportNumbered(s, k)
      BY <2>1, NumberedReports
    <3> QED
      BY <1>1, <2>1, <3>1, AckOther
  <2>4. CASE CloseImportSession(t, q)
    <3> HIDE DEF q
    <3> QED
      BY <1>2, <2>2, <2>3, <2>4, ClosedReports
  <2>5. CASE impQueue' = q /\ UNCHANGED <<impSessionVars, impTimeline>>
    <3>1. ReportQueueKeeps(s)
      BY <2>3, <2>5 DEF ReportQueueKeeps
    <3> QED
      BY <1>2, <2>5, <3>1, ReportsStay DEF ReportEventsKeep, impSessionVars
  <2> QED
    BY <1>5, <2>4, <2>5 DEF HandleCS, impSessionVars
<1>6. ASSUME NEW t \in Sessions, HandleCAR(t)
      PROVE  ReportSignals(s)'
  <2>1. ReportQueueKeeps(s)
    BY <1>6, ReportQueueUnchanged DEF HandleCAR
  <2>2. ReportEventsKeep(s)
    BY <1>6, ReportEventsApart DEF HandleCAR, ReportEventsKeep
  <2>3. imports' = imports /\ (impState'[s] # "open" => impState[s] # "open")
    BY <1>1, <1>6 DEF HandleCAR
  <2> QED
    BY <1>2, <2>1, <2>2, <2>3, ReportsStay
<1>7. CASE impQueue # <<>> /\ DequeueImport(Head(impQueue))
  BY <1>2, <1>7, DequeueReports
<1>8. ASSUME NEW t \in Sessions, NEW k \in Nat, ResendReport(t, k)
      PROVE  ReportSignals(s)'
  BY <1>2, <1>8, ResendReports
<1>9. ASSUME NEW t \in Sessions, ResendRecvCancel(t)
      PROVE  ReportSignals(s)'
  <2>1. ReportQueueKeeps(s)
    <3>1. \A k \in Nat : Cancel("CR", t) \notin ReportNumbered(s, k)
      BY NumberedReports DEF Cancel, CancelSegments
    <3>2. impQueue' = impQueue \/ impQueue' = Append(impQueue, Cancel("CR", t))
      BY <1>9 DEF ResendRecvCancel
    <3>3. CASE impQueue' = impQueue
      BY <3>3, ReportQueueUnchanged
    <3>4. CASE impQueue' = Append(impQueue, Cancel("CR", t))
      BY <1>1, <3>1, <3>4, AppendOther DEF ReportQueueKeeps
    <3> QED
      BY <3>2, <3>3, <3>4
  <2>2. ReportEventsKeep(s)
    BY <1>9, ReportEventsApart DEF ResendRecvCancel, ReportEventsKeep
  <2>3. imports' = imports /\ (impState'[s] # "open" => impState[s] # "open")
    BY <1>1, <1>9 DEF ResendRecvCancel
  <2> QED
    BY <1>2, <2>1, <2>2, <2>3, ReportsStay
<1>10. ASSUME NEW t \in Sessions, ForgetImportSession(t)
       PROVE  ReportSignals(s)'
  <2>1. ReportQueueKeeps(s)
    BY <1>10, ReportQueueUnchanged DEF ForgetImportSession
  <2>2. ReportEventsKeep(s)
    BY <1>10, ReportEventsApart DEF ForgetImportSession, ReportEventsKeep
  <2>3. imports' = imports /\ impState' = impState
    BY <1>10 DEF ForgetImportSession, impSessionVars
  <2> QED
    BY <1>2, <2>1, <2>2, <2>3, ReportsStay
<1>11. CASE UNCHANGED impVars
  <2>1. ReportQueueKeeps(s)
    BY <1>11, ReportQueueUnchanged DEF impVars
  <2> QED
    BY <1>2, <1>11, <2>1, ReportsStay DEF ReportEventsKeep, impVars, impSessionVars
<1> QED
  BY <1>3, <1>4, <1>5, <1>6, <1>7, <1>8, <1>9, <1>10, <1>11 DEF ImpStep

(***************************************************************************)
(* OneRetransmission.                                                      *)
(***************************************************************************)
\* An entry's segment is queued or its event due, not both; and one of them is
\* the case when it is armed.
LEMMA SignalHolds ==
    ASSUME NEW T, NEW q \in Seq(T), NEW E, NEW X, NEW tl, NEW ev, Signal(E, X, q, tl, ev),
           NEW c \in E, c.seg \in X
    PROVE  Holds(q, tl, c.seg, ev) \in (IF c.armed THEN {1} ELSE {0, 1})
<1> DEFINE places == {i \in 1 .. Len(q) : q[i] = c.seg}
<1>1. Count(q, c.seg) = Cardinality(places)
  BY DEF Count
<1>2. ASSUME ~Some(q, X)
      PROVE  Cardinality(places) = 0
  <2>1. places = {}
    BY <1>2 DEF Some
  <2> HIDE DEF places
  <2> QED
    BY <2>1, FS_EmptySet
<1>3. ASSUME Some(q, X)
      PROVE  Cardinality(places) = 1 /\ ev \notin tl
  <2>1. PICK i \in 1 .. Len(q) : q[i] \in X
    BY <1>3 DEF Some
  <2>2. q[i] = c.seg
    BY <2>1 DEF Signal
  <2>3. places = {i}
    BY <2>1, <2>2 DEF Signal, Once
  <2> HIDE DEF places
  <2>4. Cardinality(places) = 1
    BY <2>3, FS_Singleton
  <2>5. ev \notin tl
    BY <1>3 DEF Signal
  <2> QED
    BY <2>4, <2>5
<1>4. c.armed => ev \in tl \/ Some(q, X)
  BY DEF Signal
<1> HIDE DEF places
<1>5. Holds(q, tl, c.seg, ev) = Cardinality(places) + (IF ev \in tl THEN 1 ELSE 0)
  BY <1>1 DEF Holds
<1> QED
  BY <1>2, <1>3, <1>4, <1>5

\* Signaled checkpoints and reports wait for one retransmission at a time.
LEMMA OneRetransmissionHolds ==
    ASSUME TypeOK, CkptsOwned, CkptsSignaled, ReportsSignaled
    PROVE  OneRetransmission
<1>1. /\ ckpts \in [Sessions -> SUBSET CkptEntries] /\ expQueue \in Seq(Segments)
      /\ impQueue \in Seq(Segments)
      /\ \A s \in Sessions : imports[s].reports \subseteq ReportEntries
  BY DEF TypeOK, ExpTypeOK, ImpTypeOK, ImportSessionType
<1>2. ASSUME NEW s \in Sessions, NEW c \in ckpts[s]
      PROVE  Holds(expQueue, expTimeline, c.seg, ResendCheckpointEvent(s, c.seg.ckpt))
                 \in (IF c.armed THEN {1} ELSE {0, 1})
  <2>1. expState[s] = "open" /\ c.seg.session = s
    BY DEF CkptsOwned
  <2>2. CkptSignals(s) /\ IsCkpt(c.seg)
    BY <2>1 DEF CkptsSignaled, CkptSignals
  <2>3. c.seg \in DataSegments /\ c.seg \in Segments /\ c.seg.ckpt \in Nat
    BY <1>1 DEF CkptEntries, Segments, DataSegments
  <2>4. c.seg \in CkptNumbered(s, c.seg.ckpt)
    BY <2>1, <2>2, <2>3 DEF CkptNumbered
  <2>5. Signal(ckpts[s], CkptNumbered(s, c.seg.ckpt), expQueue, expTimeline,
               ResendCheckpointEvent(s, c.seg.ckpt))
    BY <2>2, <2>3 DEF CkptSignals, CkptSignal
  <2> QED
    BY <1>1, <2>4, <2>5, SignalHolds
<1>3. ASSUME NEW s \in Sessions, NEW r \in imports[s].reports
      PROVE  Holds(impQueue, impTimeline, r.seg, ResendReportEvent(s, r.seg.rpt))
                 \in (IF r.armed THEN {1} ELSE {0, 1})
  <2>1. ReportSignals(s) /\ r.seg.session = s
    BY DEF ReportsSignaled, ReportSignals
  <2>2. r.seg \in ReportSegments /\ r.seg \in Segments /\ r.seg.rpt \in Nat /\ r.seg.type = "RS"
    BY <1>1 DEF ReportEntries, Segments, ReportSegments
  <2>3. r.seg \in ReportNumbered(s, r.seg.rpt)
    BY <2>1, <2>2 DEF ReportNumbered
  <2>4. Signal(imports[s].reports, ReportNumbered(s, r.seg.rpt), impQueue, impTimeline,
               ResendReportEvent(s, r.seg.rpt))
    BY <2>1, <2>2 DEF ReportSignals, ReportSignal
  <2> QED
    BY <1>1, <2>3, <2>4, SignalHolds
<1> QED
  BY <1>2, <1>3 DEF OneRetransmission

(***************************************************************************)
(* Colors.                                                                 *)
(***************************************************************************)
\* Every segment that is cut from a block has the type that its place calls for.
LEMMA AddedMarked ==
    ASSUME TypeOK
    PROVE  /\ \A s \in Sessions : IssuedSegs(s) \subseteq Marked
           /\ \A rs \in ReportSegments : Resent(rs) \subseteq Marked
<1>1. ASSUME NEW s \in Sessions, NEW missing, NEW rpt \in Nat, NEW ckpt \in Nat
      PROVE  RedSegmentsFor(s, missing, rpt, ckpt) \subseteq Marked
  <2> SUFFICES ASSUME NEW x \in RedSegmentsFor(s, missing, rpt, ckpt)
               PROVE  x \in Marked
    OBVIOUS
  <2>1. x \in Segments
    BY RedSegmentsForType DEF Segments
  <2>2. PICK run, p : IsCut(x, s, missing, rpt, ckpt, run, p)
    BY RedSegmentIsCut
  <2>3. /\ x.session = s /\ x.lo < x.hi /\ IsRed(x)
        /\ x.hi = RedLen(s) => x.type = IF AllRed(s) THEN "DsRedEOB" ELSE "DsRedEORP"
        /\ x.type = "DsRedEOB" => AllRed(s) /\ x.hi = RedLen(s)
    BY <2>2, CutShape
  <2> QED
    BY <2>1, <2>3 DEF Marked
<1>2. ASSUME NEW s \in Sessions, NEW x \in GreenSegments(s)
      PROVE  x \in Marked
  <2>1. x \in Segments
    BY GreenSegmentsType DEF Segments
  <2>2. /\ x.session = s /\ x.lo \in Nat /\ x.lo < x.hi /\ RedLen(s) <= x.lo /\ ~AllRed(s)
        /\ x.type = IF x.hi = Block[s].total THEN "DsGreenEOB" ELSE "DsGreen"
    BY GreenSegmentsApart
  <2>3. RedLen(s) \in Nat
    BY ConstantsAssumption DEF RedLen
  <2>4. x.lo >= RedLen(s)
    BY <2>2, <2>3
  <2>5. ~IsRed(x) /\ x.type # "DsRedEOB"
    BY <2>2 DEF IsRed, DataTypes, GreenTypes, CkptTypes
  <2> QED
    BY <2>1, <2>2, <2>4, <2>5 DEF Marked
<1>3. ASSUME NEW s \in Sessions
      PROVE  IssuedSegs(s) \subseteq Marked
  BY <1>1, <1>2 DEF IssuedSegs
<1>4. ASSUME NEW rs \in ReportSegments
      PROVE  Resent(rs) \subseteq Marked
  <2>1. rs.session \in Sessions /\ rs.rpt \in Nat
    BY DEF ReportSegments
  <2>2. lastCkpt[rs.session] + 1 \in Nat
    BY <2>1 DEF TypeOK, ExpTypeOK
  <2> QED
    BY <1>1, <2>1, <2>2 DEF Resent
<1> QED
  BY <1>3, <1>4

\* Every step keeps the types of the data segments true.
LEMMA SegmentsMarkedStep ==
    ASSUME TypeOK, CkptsOwned, SegmentsMarked, [Next]_vars
    PROVE  SegmentsMarked'
<1>1. ExpStep
  BY StepOfHalves
<1>2. \A x \in Segments : ~IsData(x) => x \in Marked
  BY DEF Marked
<1>3. ReportAcks \cup CancelSegments \subseteq Marked
  BY <1>2 DEF ReportAcks, CancelSegments, Segments, IsData, DataTypes, CkptTypes, GreenTypes
<1>4. expQueue' \in Seq(Marked)
  BY <1>1, <1>3, AddedMarked, ExpQueueFlow DEF SegmentsMarked
<1>5. ASSUME NEW s \in Sessions, NEW c \in ckpts'[s]
      PROVE  c.seg \in Marked
  <2>1. CkptOrigin(s, c)
    BY <1>1, <1>5, CkptsFlow
  <2> QED
    BY <2>1, AddedMarked DEF CkptOrigin, SegmentsMarked
<1>6. net' \subseteq Marked
  <2>1. expQueue # <<>> => Head(expQueue) \in Marked
    BY HeadTailType DEF SegmentsMarked
  <2>2. ASSUME impQueue # <<>>, DequeueImport(Head(impQueue))
        PROVE  Head(impQueue) \in Marked
    <3>1. Head(impQueue) \in Segments
      BY <2>2, HeadTailType DEF TypeOK, ImpTypeOK
    <3>2. Head(impQueue).type \in {"RS", "CR", "CAS"}
      BY <2>2 DEF DequeueImport, DequeueReport, DequeueCR, DequeueCAS
    <3> QED
      BY <1>2, <3>1, <3>2 DEF IsData, DataTypes, CkptTypes, GreenTypes
  <2> QED
    BY <1>3, <2>1, <2>2, NetFlow DEF SegmentsMarked
<1> QED
  BY <1>4, <1>5, <1>6 DEF SegmentsMarked

NotesGreen(seg) == \E fault : GreenSegment(seg, fault)

\* Only red segments move the end of the red part that is remembered, and only
\* green ones the start of the green part.
LEMMA ColorsFlow ==
    ASSUME TypeOK, ImpStep
    PROVE  /\ \/ lastRed' = lastRed
              \/ \E seg \in net \cap DataSegments : IsRed(seg) /\ NoteRed(seg)
           /\ \/ lastGreen' = lastGreen
              \/ \E seg \in net \cap DataSegments : NotesGreen(seg)
<1>1. ASSUME NEW seg \in net \cap DataSegments, HandleDataSegment(seg)
      PROVE  /\ lastRed' = lastRed \/ (IsRed(seg) /\ NoteRed(seg))
             /\ lastGreen' = lastGreen \/ NotesGreen(seg)
  <2>1. PICK fault : \/ LateSegment(seg)
                     \/ RejectedSegment(seg, fault)
                     \/ GreenSegment(seg, fault)
                     \/ UselessRedSegment(seg, fault)
                     \/ DiscardedRedSegment(seg, fault)
                     \/ AcceptedRedSegment(seg, fault)
    BY <1>1 DEF HandleDataSegment
  <2>2. CASE LateSegment(seg)
    BY <2>2 DEF LateSegment, impVars
  <2>3. CASE RejectedSegment(seg, fault)
    BY <2>3 DEF RejectedSegment
  <2>4. CASE GreenSegment(seg, fault)
    <3>1. lastRed' = lastRed
      BY <2>4 DEF GreenSegment
    <3>2. NotesGreen(seg)
      BY <2>4 DEF NotesGreen
    <3> QED
      BY <3>1, <3>2
  <2>5. CASE UselessRedSegment(seg, fault)
    BY <2>5 DEF UselessRedSegment, RedUsable
  <2>6. CASE DiscardedRedSegment(seg, fault)
    BY <2>6 DEF DiscardedRedSegment, RedUsable
  <2>7. CASE AcceptedRedSegment(seg, fault)
    <3>1. RedUsable(seg, fault) /\ NoteRed(seg) /\ UNCHANGED lastGreen
      BY <2>7, Zenon DEF AcceptedRedSegment
    <3> QED
      BY <3>1 DEF RedUsable
  <2> QED
    BY <2>1, <2>2, <2>3, <2>4, <2>5, <2>6, <2>7
<1>2. CASE \E ra \in net \cap ReportAcks : HandleRA(ra)
  BY <1>2 DEF HandleRA, impVars
<1>3. CASE \E s \in Sessions : HandleCS(s) \/ HandleCAR(s)
  BY <1>3 DEF HandleCS, HandleCAR
<1>4. CASE impQueue # <<>> /\ DequeueImport(Head(impQueue))
  BY <1>4 DEF DequeueImport
<1>5. CASE \E s \in Sessions, k \in Nat : ResendReport(s, k)
  BY <1>5 DEF ResendReport
<1>6. CASE \E s \in Sessions : \/ ResendRecvCancel(s)
                               \/ ForgetImportSession(s) /\ Quarantined(s)
  BY <1>6 DEF ResendRecvCancel, ForgetImportSession
<1>7. CASE UNCHANGED impVars
  BY <1>7 DEF impVars
<1> QED
  BY <1>1, <1>2, <1>3, <1>4, <1>5, <1>6, <1>7 DEF ImpStep

\* Every step keeps what is remembered of the colors within each part.
LEMMA ColorsKeptStep ==
    ASSUME TypeOK, SegmentsSound, SegmentsMarked, ColorsKept, ImpStep
    PROVE  ColorsKept'
<1> SUFFICES ASSUME NEW s \in Sessions
             PROVE  /\ lastRed'.session = s => lastRed'.end <= RedLen(s)
                    /\ lastGreen'.session = s => lastGreen'.start >= RedLen(s)
  BY DEF ColorsKept
<1>1. /\ lastRed.session = s => lastRed.end <= RedLen(s)
      /\ lastGreen.session = s => lastGreen.start >= RedLen(s)
  BY DEF ColorsKept
<1>2. lastRed'.session = s => lastRed'.end <= RedLen(s)
  <2>1. ASSUME NEW seg \in net \cap DataSegments, IsRed(seg), NoteRed(seg)
        PROVE  lastRed'.session = s => lastRed'.end <= RedLen(s)
    <3>1. seg.session = s => seg.hi <= RedLen(s)
      BY <2>1 DEF SegmentsSound, Sound
    <3> QED
      BY <1>1, <2>1, <3>1 DEF NoteRed
  <2> QED
    BY <1>1, <2>1, ColorsFlow
<1>3. lastGreen'.session = s => lastGreen'.start >= RedLen(s)
  <2>1. ASSUME NEW seg \in net \cap DataSegments, NotesGreen(seg)
        PROVE  lastGreen'.session = s => lastGreen'.start >= RedLen(s)
    <3> PICK fault : GreenSegment(seg, fault)
      BY <2>1 DEF NotesGreen
    <3>1. IsData(seg) /\ ~IsRed(seg)
      BY DEF GreenSegment, DataSegments, IsData
    <3>2. seg.session = s => seg.lo >= RedLen(s)
      BY <3>1 DEF SegmentsMarked, Marked
    <3> QED
      BY <1>1, <3>2 DEF GreenSegment
  <2> QED
    BY <1>1, <2>1, ColorsFlow
<1> QED
  BY <1>2, <1>3

\* So no data segment is taken for a miscolored one.
LEMMA NeverMiscoloredHolds ==
    ASSUME TypeOK, SegmentsSound, SegmentsMarked, ColorsKept
    PROVE  NeverMiscolored
<1> SUFFICES ASSUME NEW seg \in net, IsData(seg), IsMiscolored(seg)
             PROVE  FALSE
  BY DEF NeverMiscolored
<1>1. /\ seg.session \in Sessions /\ seg.lo \in Nat /\ seg.hi \in Nat
      /\ RedLen(seg.session) \in Nat
      /\ lastRed.end \in Nat /\ lastGreen.start \in Nat
  <2>1. seg.session \in Sessions /\ seg \in DataSegments
    BY SegmentKinds DEF TypeOK
  <2> QED
    BY <2>1, ConstantsAssumption DEF TypeOK, ImpTypeOK, DataSegments, RedLen
<1>2. CASE IsRed(seg)
  <2>1. seg.hi <= RedLen(seg.session)
    BY <1>2 DEF SegmentsSound, Sound
  <2>2. seg.session = lastGreen.session /\ seg.hi > lastGreen.start
    BY <1>2 DEF IsMiscolored
  <2>3. lastGreen.start >= RedLen(seg.session)
    BY <1>1, <2>2 DEF ColorsKept
  <2> QED
    BY <1>1, <2>1, <2>2, <2>3
<1>3. CASE ~IsRed(seg)
  <2>1. seg.lo >= RedLen(seg.session)
    BY <1>3 DEF SegmentsMarked, Marked
  <2>2. seg.session = lastRed.session /\ seg.lo < lastRed.end
    BY <1>3 DEF IsMiscolored
  <2>3. lastRed.end <= RedLen(seg.session)
    BY <1>1, <2>2 DEF ColorsKept
  <2> QED
    BY <1>1, <2>1, <2>2, <2>3
<1> QED
  BY <1>2, <1>3

(***************************************************************************)
(* Claims.                                                                 *)
(***************************************************************************)
\* Every step keeps the open sessions whose client has heard of them delivered.
LEMMA HeardIsDeliveredStep ==
    ASSUME TypeOK, Settled, HeardIsDelivered, ImpStep
    PROVE  HeardIsDelivered'
<1> SUFFICES ASSUME NEW s \in Sessions, impState'[s] = "open", impNotices'[s] # <<>>
             PROVE  imports'[s].delivered
  BY DEF HeardIsDelivered
<1>1. ImportLife(s)
  BY ImportLifeSteps
<1>2. CASE ImpStays(s) /\ ImpSilent(s)
  BY <1>2 DEF HeardIsDelivered, ImpStays, ImpSilent, Contents
<1>3. ASSUME NEW seg \in net \cap DataSegments, Admitted(s, seg),
             ImpSilent(s) \/ imports'[s].delivered
      PROVE  imports'[s].delivered
  BY <1>3, AdmittedUnheard DEF ImpSilent
<1> QED
  BY <1>1, <1>2, <1>3 DEF ImportLife, StoreStep

\* Where a segment is stored, the length of the red part becomes known, if it
\* does, as what it is.
LEMMA StoredLength ==
    ASSUME TypeOK, SegmentsSound, BytesAccounted, NEW seg \in net \cap DataSegments
    PROVE  StoredIn(seg).redPartLength \in {0, RedLen(seg.session)}
<1>1. seg.session \in Sessions
  BY DEF DataSegments
<1>2. imports[seg.session] \in ImportSessionType
  BY <1>1 DEF TypeOK, ImpTypeOK
<1>3. imports[seg.session].redPartLength \in {0, RedLen(seg.session)}
  BY <1>1 DEF BytesAccounted
<1>4. seg.type \in {"DsRedEORP", "DsRedEOB"} => seg.hi = RedLen(seg.session)
  BY DEF SegmentsSound, Sound, IsRed, DataTypes, CkptTypes, GreenTypes
<1> QED
  BY <1>2, <1>3, <1>4 DEF StoredIn, Stored, ImportSessionType

\* Every step keeps the claims within the red parts.
LEMMA ClaimsWithinStep ==
    ASSUME TypeOK, SegmentsSound, BytesAccounted, BytesAccounted', ClaimsWithin, [Next]_vars
    PROVE  ClaimsWithin'
<1> SUFFICES ASSUME NEW s \in Sessions, NEW u \in Nat \ RedUnits(s)
             PROVE  Unclaimed(s, u)'
  BY DEF ClaimsWithin, RedUnits, RedLen
<1>1. Unclaimed(s, u)
  BY DEF ClaimsWithin
<1>2. u \notin imports'[s].units
  BY DEF BytesAccounted, RedUnits, RedLen
<1>3. ASSUME NEW seg \in net \cap DataSegments
      PROVE  FinalReportOf(seg) \in Silent(s, u)
  <2>1. /\ FinalReportOf(seg) \in Segments
        /\ FinalReportOf(seg).session = seg.session
        /\ FinalReportOf(seg).claims = 0 .. StoredIn(seg).redPartLength - 1
    BY FinalReportClaims
  <2>2. StoredIn(seg).redPartLength \in {0, RedLen(seg.session)}
    BY StoredLength
  <2>3. seg.session = s => u \notin 0 .. StoredIn(seg).redPartLength - 1
    BY <2>2 DEF RedUnits
  <2> QED
    BY <2>1, <2>3 DEF Silent
<1> QED
  BY <1>1, <1>2, <1>3, UnclaimedFlow

\* So nothing is claimed of a red part still being collected but what is held.
LEMMA ClaimsHeldHolds ==
    ASSUME TypeOK, ClaimsBounded, ClaimsWithin, HeardIsDelivered
    PROVE  ClaimsHeld
<1> SUFFICES ASSUME NEW s \in Sessions, impState[s] = "open", ~imports[s].delivered
             PROVE  /\ claims[s] \subseteq imports[s].units
                    /\ \A rs \in net \cup Notices(impQueue) :
                          rs.type = "RS" /\ rs.session = s =>
                              rs.claims \subseteq imports[s].units
  BY DEF ClaimsHeld
<1>1. ~Delivered(s)
  <2>1. impNotices[s] = <<>>
    BY DEF HeardIsDelivered
  <2> QED
    BY <2>1 DEF Delivered, InQueue
<1>2. ASSUME NEW u \in Nat, u \notin imports[s].units
      PROVE  Unclaimed(s, u)
  BY <1>1, <1>2 DEF ClaimsBounded, ClaimsWithin
<1>3. claims[s] \subseteq imports[s].units
  <2>1. claims[s] \subseteq Nat
    BY DEF TypeOK, ExpTypeOK
  <2> QED
    BY <1>2, <2>1 DEF Unclaimed
<1>4. ASSUME NEW rs \in net \cup Notices(impQueue), rs.type = "RS", rs.session = s,
             NEW u \in rs.claims
      PROVE  u \in imports[s].units
  <2>1. rs \in Segments
    BY DEF TypeOK, ImpTypeOK, Notices
  <2>2. u \in Nat
    BY <1>4, <2>1, SegmentKinds DEF ReportSegments
  <2>3. SUFFICES ASSUME Unclaimed(s, u)
                 PROVE  rs \in Silent(s, u)
    BY <1>2, <1>4, <2>2 DEF Silent
  <2> QED
    BY <2>3 DEF Unclaimed, Notices
<1> QED
  BY <1>3, <1>4

(***************************************************************************)
(* The end of the red part, in the reports.                                *)
(***************************************************************************)
\* A report whose scope holds the last red unit claims it: the checkpoint that
\* called for it brought that unit.
LEMMA ReportsAnswering ==
    ASSUME TypeOK, SegmentsSound, SegmentsMarked, ReportsSignaled, ReportsAnswer,
           NEW seg \in net \cap DataSegments, IsRed(seg), NEW x \in Reports(seg)
    PROVE  x \in Answering
<1> DEFINE s == seg.session
           session == StoredIn(seg)
           lower == CitedLowerBound(session, seg.rpt)
           n == RedLen(s)
<1>1. s \in Sessions /\ seg.lo \in Nat /\ seg.hi \in Nat /\ seg \in DataSegments
  BY DEF DataSegments
<1>2. n \in Nat
  BY <1>1, ConstantsAssumption DEF RedLen
<1>3. imports[s] \in ImportSessionType /\ session \in ImportSessionType
  BY <1>1, StoredType DEF StoredIn, TypeOK, ImpTypeOK
<1>4. session.reports = imports[s].reports /\ session.units = imports[s].units \cup Units(seg)
  BY <1>3 DEF StoredIn, Stored, ImportSessionType
<1>5. seg.lo < seg.hi /\ seg.hi <= n
  BY DEF SegmentsSound, Sound, SegmentsMarked, Marked, IsRed, IsData
<1>6. lower \in Nat /\ lower < n
  <2>1. lower \in Nat /\ (lower = 0 \/ \E r \in session.reports : lower = r.seg.lo)
    BY <1>3, CitedBound
  <2>2. ASSUME NEW r \in imports[s].reports
        PROVE  r.seg.lo < n
    <3>1. r.seg.type = "RS"
      BY <1>3, <2>2 DEF ImportSessionType, ReportEntries, ReportSegments
    <3>2. r.seg.session = s
      BY <1>1, <2>2 DEF ReportsSignaled, ReportSignals
    <3>3. r.seg \in Answering
      BY <1>1, <2>2 DEF ReportsAnswer
    <3> QED
      BY <3>1, <3>2, <3>3 DEF Answering
  <2> QED
    BY <1>1, <1>2, <1>4, <1>5, <2>1, <2>2
<1> DEFINE cuts == ReportCuts(session, seg)
<1>7. PICK p \in Pieces(cuts) : x = PieceReport(s, session, seg, cuts, p)
  BY ReportsOfPieces DEF Reports
<1>8. /\ x \in ReportSegments /\ x.session = s /\ x.lo = p[1] /\ x.hi = p[2]
      /\ x.claims = Within(session, seg) \cap (p[1] .. p[2] - 1)
  <2>1. x \in ReportSegments
    BY <1>1, <1>3, PartialReportsType DEF Reports
  <2> QED
    BY <1>7, <2>1 DEF PieceReport
<1>9. \A c \in cuts : c \in Nat /\ (c = lower \/ c <= seg.hi)
  BY <1>1, <1>3, ReportCutsType
<1>10. p[1] \in cuts /\ p[2] \in cuts /\ p[1] < p[2]
  BY DEF Pieces
<1> HIDE DEF cuts, lower, n
<1>11. p[1] \in Nat /\ p[2] \in Nat /\ p[1] < n
  BY <1>1, <1>2, <1>5, <1>6, <1>9, <1>10
<1>12. ASSUME n - 1 \in p[1] .. p[2] - 1
       PROVE  n - 1 \in Within(session, seg) \cap (p[1] .. p[2] - 1)
  <2>1. p[2] = seg.hi /\ seg.hi = n
    BY <1>1, <1>2, <1>5, <1>6, <1>9, <1>10, <1>11, <1>12
  <2>2. n - 1 \in Units(seg) /\ n - 1 \in lower .. seg.hi - 1
    BY <1>1, <1>2, <1>5, <1>6, <2>1 DEF Units
  <2> QED
    BY <1>4, <1>12, <2>2 DEF Within, lower
<1> QED
  BY <1>8, <1>11, <1>12 DEF Answering, Segments, LastUnit, Units, n

\* Every step keeps the reports so.
LEMMA ReportsAnswerStep ==
    ASSUME TypeOK, SegmentsSound, SegmentsMarked, ReportsSignaled, ReportsAnswer,
           [Next]_vars
    PROVE  ReportsAnswer'
<1>1. ImpStep
  BY StepOfHalves
<1>2. \A x \in Segments : x.type # "RS" => x \in Answering
  BY DEF Answering
<1>3. CancelSegments \subseteq Answering
  BY <1>2 DEF CancelSegments, Segments
<1>4. ASSUME NEW seg \in net \cap DataSegments, CallsForReports(seg)
      PROVE  Reports(seg) \subseteq Answering
  BY <1>4, ReportsAnswering DEF CallsForReports, Admitted
<1>5. ASSUME NEW seg \in net \cap DataSegments, ImpHears(seg.session, "RecvRedPart")
      PROVE  FinalReportOf(seg) \in Answering
  <2>1. seg.session \in Sessions
    BY DEF DataSegments
  <2>2. 0 < RedLen(seg.session)
    <3>1. PICK t \in net \cap DataSegments : Admitted(seg.session, t)
      <4>1. ImportLife(seg.session)
        BY <1>1, <2>1, ImportLifeSteps
      <4>2. ~ImpSilent(seg.session) /\ ~ImpHears(seg.session, "ImportSessionCanceled")
        <5>1. impNotices[seg.session] \in Seq(ImpNoticeKinds)
          BY <2>1 DEF TypeOK, ImpTypeOK
        <5> QED
          BY <1>5, <5>1 DEF ImpSilent, ImpHears, ImpNoticeKinds
      <4> QED
        BY <4>1, <4>2 DEF ImportLife
    <3>2. t.session = seg.session /\ t.lo < t.hi /\ t.hi <= RedLen(t.session)
      BY <3>1 DEF Admitted, SegmentsSound, Sound, SegmentsMarked, Marked, IsRed, IsData
    <3>3. t.lo \in Nat /\ t.hi \in Nat /\ RedLen(t.session) \in Nat
      BY <2>1, <3>2, ConstantsAssumption DEF DataSegments, RedLen
    <3> QED
      BY <3>2, <3>3
  <2>3. /\ FinalReportOf(seg) \in Segments
        /\ FinalReportOf(seg).session = seg.session
        /\ FinalReportOf(seg).claims = 0 .. StoredIn(seg).redPartLength - 1
    BY FinalReportClaims
  <2>4. FinalReportOf(seg).lo = 0 /\ FinalReportOf(seg).hi = StoredIn(seg).redPartLength
    BY DEF FinalReportOf, LastReport
  <2> QED
    BY <2>2, <2>3, <2>4 DEF Answering, Units
<1>6. /\ impQueue' \in Seq(Answering)
      /\ \A s \in Sessions : \A r \in imports'[s].reports : r.seg \in Answering
  BY <1>1, <1>3, <1>4, <1>5, ReportsFlow DEF ReportsAnswer, Delivers
<1>7. net' \subseteq Answering
  <2>0. expQueue \in Seq(Segments)
    BY DEF TypeOK, ExpTypeOK
  <2>1. ASSUME expQueue # <<>>, DequeueExport(Head(expQueue))
        PROVE  Head(expQueue) \in Answering
    <3>1. Head(expQueue) \in Segments
      BY <2>0, <2>1, HeadTailType
    <3>2. Head(expQueue).type # "RS"
      BY <2>1 DEF DequeueExport, DequeuePlain, DequeueCheckpoint, DequeueGreenEOB,
                  DequeueCS, IsCkpt, CkptTypes
    <3> QED
      BY <1>2, <3>1, <3>2
  <2>2. impQueue # <<>> => Head(impQueue) \in Answering
    BY HeadTailType DEF ReportsAnswer
  <2> QED
    BY <1>3, <2>1, <2>2, NetFlow DEF ReportsAnswer
<1> QED
  BY <1>6, <1>7 DEF ReportsAnswer

(***************************************************************************)
(* The end of the block.                                                   *)
(***************************************************************************)
\* The queue r holds no more of X than q, and nothing of it more often.
Fewer(r, q, X) == (Some(r, X) => Some(q, X)) /\ (Once(q, X) => Once(r, X))

\* Fewer is transitive, ...
LEMMA FewerTwice ==
    ASSUME NEW p, NEW q, NEW r, NEW X, Fewer(q, p, X), Fewer(r, q, X)
    PROVE  Fewer(r, p, X)
BY DEF Fewer

\* ... and holds of queues with the same of X, ...
LEMMA SameFewer ==
    ASSUME NEW q, NEW r, NEW X, Same(r, q, X)
    PROVE  Fewer(r, q, X)
BY SameSome DEF Fewer, Same

\* ... of one with nothing of it, ...
LEMMA NoneFewer ==
    ASSUME NEW q, NEW r, NEW X, ~Some(r, X)
    PROVE  Fewer(r, q, X)
BY DEF Fewer, Some, Once

\* ... and of the tail of a queue.
LEMMA TailFewer ==
    ASSUME NEW T, NEW q \in Seq(T), q # <<>>, NEW X
    PROVE  Fewer(Tail(q), q, X)
<1> DEFINE r == Tail(q)
<1>1. /\ Len(q) \in Nat /\ Len(q) > 0 /\ Len(r) = Len(q) - 1
      /\ \A i \in 1 .. Len(q) - 1 : r[i] = q[i + 1]
  BY TailPlaces
<1> HIDE DEF r
<1>2. \A i \in 1 .. Len(r) : i + 1 \in 1 .. Len(q) /\ r[i] = q[i + 1]
  BY <1>1
<1>3. Some(r, X) => Some(q, X)
  BY <1>2 DEF Some
<1>4. ASSUME Once(q, X), NEW i \in 1 .. Len(r), NEW j \in 1 .. Len(r), r[i] \in X, r[j] \in X
      PROVE  i = j
  <2>1. i + 1 = j + 1
    BY <1>2, <1>4 DEF Once
  <2> QED
    BY <2>1
<1>5. Fewer(r, q, X)
  BY <1>3, <1>4 DEF Fewer, Once
<1> QED
  BY <1>5 DEF r

\* Data segments of session s leave the queue when the session is stopped.
LEMMA StoppedFewer ==
    ASSUME NEW q \in Seq(Segments), NEW t \in Sessions, NEW s \in Sessions,
           NEW X, \A x \in X : IsData(x) /\ x.session = s
    PROVE  Fewer(StoppedQueue(q, t), q, X)
<1>1. CASE s = t
  <2>1. \A x \in X : x.session = t /\ x.type \in DataTypes
    BY <1>1 DEF IsData
  <2>2. ~Some(StoppedQueue(q, t), X)
    BY <2>1, PurgeRest DEF StoppedQueue
  <2> QED
    BY <2>2, NoneFewer
<1>2. CASE s # t
  <2>1. \A x \in X : ~(x.session = t /\ x.type \in DataTypes)
    BY <1>2
  <2>2. Same(StoppedQueue(q, t), q, X)
    BY <2>1, PurgeOther DEF StoppedQueue
  <2> QED
    BY <2>2, SameFewer
<1> QED
  BY <1>1, <1>2

\* This step queues the checkpoint of entry c again.
Requeued(s, c) == \E d \in ckpts'[s] : d.seg = c.seg /\ d.count = c.count + 1

\* No step queues data segments in X, if it neither issues nor resends any.
LEMMA QueueFewer ==
    ASSUME TypeOK, CkptsOwned, ExpStep, NEW s \in Sessions, NEW X,
           \A x \in X : IsData(x) /\ x.session = s,
           IssueBlock(s) => \A x \in IssuedSegs(s) : x \notin X,
           \A rs \in net \cap ReportSegments :
               NegativeReport(rs) => \A x \in Resent(rs) : x \notin X,
           \A c \in ckpts[s] : Requeued(s, c) => c.seg \notin X
    PROVE  Fewer(expQueue', expQueue, X)
<1>0. /\ expQueue \in Seq(Segments) /\ ckpts \in [Sessions -> SUBSET CkptEntries]
      /\ expState \in [Sessions -> {"idle", "open", "dead", "closed"}]
  BY DEF TypeOK, ExpTypeOK
<1>1. ASSUME NEW t \in Sessions
      PROVE  /\ \A r \in Nat : RA(t, r) \in Segments /\ RA(t, r) \notin X
             /\ \A k \in {"CS", "CAR"} : Cancel(k, t) \in Segments /\ Cancel(k, t) \notin X
  <2>1. \A r : ~IsData(RA(t, r))
    BY DEF RA, IsData, DataTypes, CkptTypes, GreenTypes
  <2>2. \A k \in {"CS", "CAR"} : ~IsData(Cancel(k, t))
    BY DEF Cancel, IsData, DataTypes, CkptTypes, GreenTypes
  <2> QED
    BY <2>1, <2>2, MadeSegments
<1>2. CASE expQueue' = expQueue
  BY <1>2, SameItself, SameFewer
<1>3. ASSUME NEW t \in Sessions, NEW q \in Seq(Segments), NEW tl,
             Fewer(q, expQueue, X), CancelSessionBySender(t, q, tl)
      PROVE  Fewer(expQueue', expQueue, X)
  <2> DEFINE p == StoppedQueue(q, t)
  <2>1. p \in Seq(Segments)
    BY PurgeType DEF StoppedQueue
  <2>2. Fewer(p, q, X)
    BY StoppedFewer
  <2>3. Cancel("CS", t) \notin X
    BY <1>1
  <2>4. expQueue' = Append(p, Cancel("CS", t))
    BY <1>3 DEF CancelSessionBySender
  <2> HIDE DEF p
  <2>5. Fewer(expQueue', p, X)
    BY <2>1, <2>3, <2>4, AppendOther, SameFewer
  <2> QED
    BY <1>3, <2>2, <2>5, FewerTwice
<1>4. ASSUME NEW t \in Sessions, IssueBlock(t)
      PROVE  Fewer(expQueue', expQueue, X)
  <2>1. expQueue' = EnqueueAll(expQueue, IssuedSegs(t))
    BY <1>4 DEF IssueBlock, IssuedSegs
  <2>2. IssuedSegs(t) \subseteq Segments /\ IsFiniteSet(IssuedSegs(t))
    BY IssuedSegsType DEF Segments
  <2>3. \A x \in IssuedSegs(t) : x \notin X
    BY <1>4, AddedSegments
  <2>4. Same(expQueue', expQueue, X)
    BY <1>0, <2>1, <2>2, <2>3, AllOther
  <2> QED
    BY <2>4, SameFewer
<1>5. CASE expQueue # <<>> /\ DequeueExport(Head(expQueue))
  <2>1. expQueue' = Tail(expQueue)
    BY <1>5 DEF DequeueExport
  <2> QED
    BY <1>0, <1>5, <2>1, TailFewer
<1>6. ASSUME NEW rs \in net \cap ReportSegments, HandleRS(rs)
      PROVE  Fewer(expQueue', expQueue, X)
  <2> DEFINE t == rs.session
             q == AckedQueue(rs)
  <2>1. t \in Sessions /\ rs.rpt \in Nat
    BY DEF ReportSegments
  <2>2. q \in Seq(Segments)
    BY AckedQueueType DEF TypeOK
  <2>3. Fewer(q, expQueue, X)
    <3>1. RA(t, rs.rpt) \in Segments /\ RA(t, rs.rpt) \notin X
      BY <1>1, <2>1
    <3>2. Same(q, expQueue, X)
      BY <1>0, <3>1, AckOther DEF AckedQueue
    <3> QED
      BY <3>2, SameFewer
  <2>4. CASE LateReport(rs) \/ StrayReport(rs) \/ IgnoredReport(rs) \/ FinalReportBeforeEOB(rs)
    BY <1>2, <2>3, <2>4
       DEF LateReport, StrayReport, IgnoredReport, FinalReportBeforeEOB, AckedQueue, expVars
  <2>5. CASE FinalReport(rs)
    <3>1. expQueue' = StoppedQueue(q, t)
      BY <2>5 DEF FinalReport
    <3> HIDE DEF q
    <3>2. Fewer(expQueue', q, X)
      BY <2>1, <2>2, <3>1, StoppedFewer
    <3> QED
      BY <2>3, <3>2, FewerTwice
  <2>6. CASE NegativeReportAtLimit(rs)
    BY <1>3, <2>1, <2>2, <2>3, <2>6 DEF NegativeReportAtLimit
  <2>7. CASE NegativeReport(rs)
    <3>1. expQueue' = EnqueueAll(q, Resent(rs))
      BY <2>7 DEF NegativeReport, Resent
    <3>2. Resent(rs) \subseteq Segments /\ IsFiniteSet(Resent(rs))
      BY ResentType DEF Segments
    <3>3. \A x \in Resent(rs) : x \notin X
      BY <2>7
    <3> HIDE DEF q
    <3>4. Same(expQueue', q, X)
      BY <2>2, <3>1, <3>2, <3>3, AllOther
    <3> QED
      BY <2>3, <3>4, SameFewer, FewerTwice
  <2> QED
    BY <1>6, <2>4, <2>5, <2>6, <2>7 DEF HandleRS
<1>7. ASSUME NEW t \in Sessions, HandleCAS(t) \/ HandleCR(t)
      PROVE  Fewer(expQueue', expQueue, X)
  <2> DEFINE q == EnqueueAck(expQueue, Cancel("CAR", t))
  <2>1. Cancel("CAR", t) \in Segments /\ Cancel("CAR", t) \notin X
    BY <1>1
  <2>2. Same(q, expQueue, X) /\ q \in Seq(Segments)
    BY <1>0, <2>1, AckOther, EnqueueAckType
  <2>3. CASE expQueue' = StoppedQueue(q, t)
    <3> HIDE DEF q
    <3>1. Fewer(expQueue', q, X)
      BY <2>2, <2>3, StoppedFewer
    <3> QED
      BY <2>2, <3>1, SameFewer, FewerTwice
  <2> QED
    BY <1>2, <1>7, <2>3 DEF HandleCAS, HandleCR, expVars
<1>8. ASSUME NEW t \in Sessions, NEW k \in Nat, ResendCheckpoint(t, k)
      PROVE  Fewer(expQueue', expQueue, X)
  <2> DEFINE entry == {c \in ckpts[t] : c.seg.ckpt = k}
  <2>1. CASE \E tl : CancelSessionBySender(t, expQueue, tl)
    <3>1. Fewer(expQueue, expQueue, X)
      BY SameItself, SameFewer
    <3> QED
      BY <1>0, <1>3, <2>1, <3>1
  <2>2. ASSUME NEW c \in entry,
               ckpts' = [ckpts EXCEPT ![t] = (@ \ entry) \cup {[c EXCEPT !.count = @ + 1]}],
               expQueue' = Append(expQueue, c.seg)
        PROVE  Fewer(expQueue', expQueue, X)
    <3>1. c \in ckpts[t] /\ c \in CkptEntries
      BY <1>0
    <3>2. c.seg \notin X
      <4>1. CASE s = t
        <5>1. [c EXCEPT !.count = @ + 1] \in ckpts'[s]
          BY <1>0, <2>2, <4>1
        <5>2. Requeued(s, c)
          BY <3>1, <5>1 DEF Requeued, CkptEntries
        <5> QED
          BY <3>1, <4>1, <5>2
      <4>2. CASE s # t
        BY <3>1, <4>2 DEF CkptsOwned
      <4> QED
        BY <4>1, <4>2
    <3>3. Same(expQueue', expQueue, X)
      BY <1>0, <2>2, <3>2, AppendOther
    <3> QED
      BY <3>3, SameFewer
  <2>3. CASE \E c \in entry :
                /\ ckpts' = [ckpts EXCEPT ![t] = (@ \ entry) \cup {[c EXCEPT !.count = @ + 1]}]
                /\ expQueue' = Append(expQueue, c.seg)
    BY <2>2, <2>3
  <2> HIDE DEF entry
  <2> QED
    BY <1>2, <1>8, <2>1, <2>3 DEF ResendCheckpoint, entry
<1>9. ASSUME NEW t \in Sessions, ResendXmitCancel(t) \/ ForgetExportSession(t)
      PROVE  Fewer(expQueue', expQueue, X)
  <2>1. CASE expQueue' = Append(expQueue, Cancel("CS", t))
    BY <1>0, <1>1, <2>1, AppendOther, SameFewer
  <2> QED
    BY <1>2, <1>9, <2>1 DEF ResendXmitCancel, ForgetExportSession
<1>10. CASE UNCHANGED expVars
  BY <1>2, <1>10 DEF expVars
<1> QED
  BY <1>4, <1>5, <1>6, <1>7, <1>8, <1>9, <1>10 DEF ExpStep

(***************************************************************************)
(* The announcement that a block is transmitted.                           *)
(***************************************************************************)
\* The client hears that the block is transmitted when the segment at the head
\* of the queue, which ends the block, is sent.
EndSent(s, seg) ==
    /\ expQueue # <<>> /\ seg = Head(expQueue) /\ DequeueExport(seg) /\ seg.session = s
    /\ \/ seg.type = "DsGreenEOB" /\ expState[s] = "open"
       \/ seg.type = "DsRedEOB" /\ \E c \in ckpts[s] : c.seg = seg /\ c.count = 0
XmitHeard(s) ==
    \/ expNotices'[s] = Append(expNotices[s], "XmitComplete")
    \/ expNotices'[s] = expNotices[s] \o <<"XmitComplete", "ExportSessionComplete">>
XmitUnheard(s) ==
    \/ expNotices'[s] = expNotices[s]
    \/ \E kind \in {"ExportSessionComplete", "ExportSessionCanceled"} :
          expNotices'[s] = Append(expNotices[s], kind)
FlagsFewer(s) == stateFlags'[s] \subseteq stateFlags[s]
\* Only the last green segment sets the flag EOB_SENT.
FlagsFlow(s) ==
    \/ FlagsFewer(s)
    \/ expState[s] = "open" /\ stateFlags'[s] = stateFlags[s] \cup {"FINAL_ACK"}
    \/ expState[s] = "open" /\ XmitHeard(s)

EndStep(s) ==
    /\ \/ XmitUnheard(s)
       \/ XmitHeard(s) /\ \E seg \in Segments : EndSent(s, seg)
    /\ FlagsFlow(s)

\* Every step announces the end of a block of s when it sends it, or not at all.
LEMMA EndSteps ==
    ASSUME TypeOK, ExpStep, NEW s \in Sessions
    PROVE  EndStep(s)
<1>0. /\ expNotices \in [Sessions -> Seq(ExpNoticeKinds)]
      /\ stateFlags \in [Sessions -> SUBSET {"FINAL_ACK", "EOB_SENT"}]
      /\ ckpts \in [Sessions -> SUBSET CkptEntries]
  BY DEF TypeOK, ExpTypeOK
<1>1. ASSUME UNCHANGED <<stateFlags, expNotices>>
      PROVE  EndStep(s)
  BY <1>1 DEF EndStep, XmitUnheard, FlagsFlow, FlagsFewer
<1>2. ASSUME NEW t \in Sessions, NEW state, LeaveExportSessions(t, state),
             NEW kind \in {"ExportSessionComplete", "ExportSessionCanceled"}, Notify(t, kind)
      PROVE  EndStep(s)
  <2>1. stateFlags'[s] \subseteq stateFlags[s]
    BY <1>0, <1>2 DEF LeaveExportSessions
  <2>2. expNotices'[s] = expNotices[s] \/ expNotices'[s] = Append(expNotices[s], kind)
    BY <1>0, <1>2 DEF Notify
  <2> QED
    BY <2>1, <2>2 DEF EndStep, XmitUnheard, FlagsFlow, FlagsFewer
<1>3. ASSUME NEW t \in Sessions, NEW q, NEW tl, CancelSessionBySender(t, q, tl)
      PROVE  EndStep(s)
  BY <1>2, <1>3 DEF CancelSessionBySender
<1>4. ASSUME NEW t \in Sessions, IssueBlock(t)
      PROVE  EndStep(s)
  BY <1>1, <1>4 DEF IssueBlock
<1>5. CASE expQueue # <<>> /\ DequeueExport(Head(expQueue))
  <2> DEFINE seg == Head(expQueue)
             t == seg.session
  <2>1. seg \in Segments /\ t \in Sessions
    BY <1>5, HeadTailType, SegmentKinds DEF TypeOK, ExpTypeOK
  <2>2. CASE DequeuePlain(seg) \/ DequeueCS(seg)
    BY <1>1, <2>2 DEF DequeuePlain, DequeueCS, expSessionVars
  <2>3. ASSUME Notify(t, "XmitComplete"), stateFlags' = stateFlags, EndSent(t, seg)
        PROVE  EndStep(s)
    <3>1. FlagsFewer(s)
      BY <2>3 DEF FlagsFewer
    <3>2. s # t => expNotices'[s] = expNotices[s]
      BY <1>0, <2>1, <2>3 DEF Notify
    <3>3. s = t => XmitHeard(s)
      BY <1>0, <2>1, <2>3 DEF Notify, XmitHeard
    <3> HIDE DEF seg
    <3> QED
      BY <2>1, <2>3, <3>1, <3>2, <3>3 DEF EndStep, XmitUnheard, FlagsFlow
  <2>4. CASE DequeueCheckpoint(seg)
    <3>1. stateFlags' = stateFlags
      BY <2>4 DEF DequeueCheckpoint
    <3>2. CASE UNCHANGED expNotices
      BY <1>1, <3>1, <3>2
    <3>3. CASE /\ Notify(t, "XmitComplete") /\ seg.type = "DsRedEOB"
               /\ \E c \in ckpts[t] : c.seg = seg /\ c.count = 0
      <4>1. EndSent(t, seg)
        BY <1>5, <3>3, Zenon DEF EndSent
      <4> QED
        BY <2>3, <3>1, <3>3, <4>1
    <3> QED
      BY <2>4, <3>2, <3>3 DEF DequeueCheckpoint
  <2>5. CASE DequeueGreenEOB(seg)
    <3>1. EndSent(t, seg) /\ expState[t] = "open"
      BY <1>5, <2>5 DEF EndSent, DequeueGreenEOB
    <3>2. CASE /\ LeaveExportSessions(t, "closed")
               /\ expNotices' = [expNotices EXCEPT ![t] =
                                     @ \o <<"XmitComplete", "ExportSessionComplete">>]
      <4>1. FlagsFewer(s)
        BY <1>0, <2>1, <3>2 DEF LeaveExportSessions, FlagsFewer
      <4>2. s # t => expNotices'[s] = expNotices[s]
        BY <1>0, <2>1, <3>2
      <4>3. s = t => XmitHeard(s)
        BY <1>0, <2>1, <3>2 DEF XmitHeard
      <4> HIDE DEF seg
      <4> QED
        BY <2>1, <3>1, <4>1, <4>2, <4>3 DEF EndStep, XmitUnheard, FlagsFlow
    <3>3. CASE /\ stateFlags' = [stateFlags EXCEPT ![t] = @ \cup {"EOB_SENT"}]
               /\ Notify(t, "XmitComplete")
      <4>1. s # t => expNotices'[s] = expNotices[s] /\ FlagsFewer(s)
        BY <1>0, <2>1, <3>3 DEF Notify, FlagsFewer
      <4>2. s = t => XmitHeard(s)
        BY <1>0, <2>1, <3>3 DEF Notify, XmitHeard
      <4> HIDE DEF seg
      <4> QED
        BY <2>1, <3>1, <4>1, <4>2 DEF EndStep, XmitUnheard, FlagsFlow
    <3> QED
      BY <2>5, <3>2, <3>3 DEF DequeueGreenEOB
  <2> QED
    BY <1>5, <2>2, <2>4, <2>5 DEF DequeueExport
<1>6. ASSUME NEW rs \in net \cap ReportSegments, HandleRS(rs)
      PROVE  EndStep(s)
  <2>1. rs.session \in Sessions
    BY DEF ReportSegments
  <2>2. CASE LateReport(rs) \/ StrayReport(rs) \/ IgnoredReport(rs) \/ NegativeReport(rs)
    BY <1>1, <2>2
       DEF LateReport, StrayReport, IgnoredReport, NegativeReport, expSessionVars, expVars
  <2>3. CASE FinalReport(rs) \/ NegativeReportAtLimit(rs)
    BY <1>2, <1>3, <2>1, <2>3 DEF FinalReport, NegativeReportAtLimit
  <2>4. CASE FinalReportBeforeEOB(rs)
    <3>1. /\ expNotices' = expNotices /\ expState[rs.session] = "open"
          /\ stateFlags' = [stateFlags EXCEPT ![rs.session] = @ \cup {"FINAL_ACK"}]
      BY <2>4 DEF FinalReportBeforeEOB, IsNewReport
    <3>2. FlagsFlow(s)
      BY <1>0, <2>1, <3>1 DEF FlagsFlow, FlagsFewer
    <3> QED
      BY <3>1, <3>2 DEF EndStep, XmitUnheard
  <2> QED
    BY <1>6, <2>2, <2>3, <2>4 DEF HandleRS
<1>7. ASSUME NEW t \in Sessions, HandleCAS(t) \/ HandleCR(t)
      PROVE  EndStep(s)
  BY <1>1, <1>2, <1>7 DEF HandleCAS, HandleCR, expSessionVars, expVars
<1>8. ASSUME NEW t \in Sessions, NEW k \in Nat, ResendCheckpoint(t, k)
      PROVE  EndStep(s)
  BY <1>1, <1>3, <1>8 DEF ResendCheckpoint, expSessionVars
<1>9. ASSUME NEW t \in Sessions, ResendXmitCancel(t) \/ ForgetExportSession(t)
      PROVE  EndStep(s)
  BY <1>1, <1>9 DEF ResendXmitCancel, ForgetExportSession, expSessionVars
<1>10. CASE UNCHANGED expVars
  BY <1>1, <1>10 DEF expVars, expSessionVars
<1> QED
  BY <1>4, <1>5, <1>6, <1>7, <1>8, <1>9, <1>10 DEF ExpStep

\* What a step adds to what the client has heard of the transmission.
Xmits(s) == Count(expNotices[s], "XmitComplete")

\* XmitHeard announces the transmission once more, and XmitUnheard does not.
LEMMA HeardStep ==
    ASSUME TypeOK, NEW s \in Sessions
    PROVE  /\ Xmits(s) \in Nat /\ (Xmits(s) = 0 <=> ~Announced(s))
           /\ XmitHeard(s) => Announced(s)' /\ Xmits(s)' = Xmits(s) + 1
           /\ XmitUnheard(s) => (Announced(s)' <=> Announced(s)) /\ Xmits(s)' = Xmits(s)
<1> DEFINE seq == expNotices[s]
           x == "XmitComplete"
<1>1. seq \in Seq(ExpNoticeKinds)
  BY DEF TypeOK, ExpTypeOK
<1>2. \A q \in Seq(ExpNoticeKinds), kind \in ExpNoticeKinds :
          /\ Append(q, kind) \in Seq(ExpNoticeKinds)
          /\ Count(q, x) \in Nat /\ (Count(q, x) = 0 <=> ~InQueue(q, x))
          /\ Count(Append(q, kind), x) = Count(q, x) + (IF kind = x THEN 1 ELSE 0)
          /\ InQueue(Append(q, kind), x) <=> InQueue(q, x) \/ kind = x
  <2> SUFFICES ASSUME NEW q \in Seq(ExpNoticeKinds), NEW kind \in ExpNoticeKinds
               PROVE  /\ Append(q, kind) \in Seq(ExpNoticeKinds)
                      /\ Count(q, x) \in Nat /\ (Count(q, x) = 0 <=> ~InQueue(q, x))
                      /\ Count(Append(q, kind), x) = Count(q, x) + (IF kind = x THEN 1 ELSE 0)
                      /\ InQueue(Append(q, kind), x) <=> InQueue(q, x) \/ kind = x
    OBVIOUS
  <2> HIDE DEF x
  <2>1. Append(q, kind) \in Seq(ExpNoticeKinds)
    OBVIOUS
  <2>2. /\ Count(q, x) \in Nat /\ (Count(q, x) = 0 <=> ~InQueue(q, x))
        /\ Count(Append(q, kind), x) = Count(q, x) + (IF kind = x THEN 1 ELSE 0)
    BY CountAppend
  <2>3. InQueue(Append(q, kind), x) <=> InQueue(q, x) \/ kind = x
    BY HeardAppend
  <2> QED
    BY <2>1, <2>2, <2>3
<1>3. Xmits(s) \in Nat /\ (Xmits(s) = 0 <=> ~Announced(s))
  <2>1. x \in ExpNoticeKinds
    BY DEF ExpNoticeKinds
  <2> QED
    BY <1>1, <1>2, <2>1 DEF Xmits, Announced
<1>4. /\ x \in ExpNoticeKinds
      /\ "ExportSessionComplete" \in ExpNoticeKinds /\ "ExportSessionComplete" # x
      /\ "ExportSessionCanceled" \in ExpNoticeKinds /\ "ExportSessionCanceled" # x
  BY DEF ExpNoticeKinds
<1>5. seq \o <<x, "ExportSessionComplete">> = Append(Append(seq, x), "ExportSessionComplete")
  BY <1>1
<1>6. Count(seq, x) \in Nat
  BY <1>3 DEF Xmits
<1> HIDE DEF x
<1>7. ASSUME NEW kind \in {"ExportSessionComplete", "ExportSessionCanceled"},
             NEW q \in Seq(ExpNoticeKinds)
      PROVE  /\ Count(Append(q, kind), x) = Count(q, x)
             /\ InQueue(Append(q, kind), x) <=> InQueue(q, x)
  BY <1>2, <1>4
<1>8. /\ Append(seq, x) \in Seq(ExpNoticeKinds)
      /\ Count(Append(seq, x), x) = Count(seq, x) + 1
      /\ InQueue(Append(seq, x), x)
  BY <1>1, <1>2, <1>4
<1>9. ASSUME XmitHeard(s)
      PROVE  Announced(s)' /\ Xmits(s)' = Xmits(s) + 1
  BY <1>5, <1>7, <1>8, <1>9 DEF XmitHeard, Announced, Xmits, x
<1>10. ASSUME XmitUnheard(s)
       PROVE  (Announced(s)' <=> Announced(s)) /\ Xmits(s)' = Xmits(s)
  BY <1>1, <1>7, <1>10 DEF XmitUnheard, Announced, Xmits, x
<1> QED
  BY <1>3, <1>9, <1>10

\* Nothing is heard of a session before its issue, and no flag of it is set.
LEMMA UnissuedQuietStep ==
    ASSUME TypeOK, CkptsOwned, UnissuedQuiet, ExpStep
    PROVE  UnissuedQuiet'
<1> SUFFICES ASSUME NEW s \in Sessions, expState'[s] = "idle"
             PROVE  expNotices'[s] = <<>> /\ stateFlags'[s] = {}
  BY DEF UnissuedQuiet
<1>1. LifeStep(s) /\ EndStep(s)
  BY ExportLife, EndSteps
<1>2. expState[s] = "idle"
  BY <1>1 DEF LifeStep, Stays, Moves
<1>3. expNotices[s] = <<>> /\ stateFlags[s] = {}
  BY <1>2 DEF UnissuedQuiet
<1>4. ~\E seg : EndSent(s, seg)
  BY <1>2 DEF EndSent, CkptsOwned
<1>5. XmitUnheard(s) /\ ~XmitHeard(s)
  BY <1>1, <1>4, HeardStep DEF EndStep
<1>6. expNotices'[s] = expNotices[s]
  BY <1>1, <1>2, <1>5 DEF LifeStep, Stays, Moves, XmitHeard
<1> QED
  BY <1>1, <1>2, <1>3, <1>5, <1>6 DEF EndStep, FlagsFlow, FlagsFewer

\* A report never asks for the end of an all-red block again.
LEMMA NoEndResent ==
    ASSUME TypeOK, ReportsAnswer, NEW rs \in net \cap ReportSegments, NEW x \in Resent(rs)
    PROVE  IsRed(x) /\ x.type # "DsRedEOB"
<1> DEFINE s == rs.session
           missing == Units(rs) \ MergedClaims(rs)
           n == RedLen(s)
<1>1. s \in Sessions /\ n \in Nat
  BY ConstantsAssumption DEF ReportSegments, RedLen
<1>2. PICK run, p : IsCut(x, s, missing, rs.rpt, lastCkpt[s] + 1, run, p)
  BY RedSegmentIsCut DEF Resent
<1> HIDE DEF missing
<1>3. /\ x.session = s /\ IsRed(x)
      /\ x.type = "DsRedEOB" => x.hi = n
      /\ run[1] \in Nat /\ run[2] \in Nat /\ x.lo \in Nat /\ x.hi \in Nat
      /\ run[1] <= x.lo /\ x.lo < x.hi /\ x.hi <= run[2] /\ run[2] <= n
      /\ (run[1] .. run[2] - 1) \subseteq missing
  BY <1>1, <1>2, CutShape
<1> HIDE DEF n
<1>4. ASSUME x.type = "DsRedEOB"
      PROVE  FALSE
  <2>1. n - 1 \in run[1] .. run[2] - 1
    BY <1>1, <1>3, <1>4
  <2>2. LastUnit(s) \in missing
    BY <1>3, <2>1 DEF LastUnit, n
  <2>5. LastUnit(s) \in Units(rs) /\ LastUnit(s) \notin rs.claims
    BY <2>2 DEF missing, MergedClaims
  <2>3. rs \in Answering /\ rs.type = "RS"
    BY DEF ReportsAnswer, ReportSegments
  <2> QED
    BY <2>3, <2>5 DEF Answering
<1> QED
  BY <1>3, <1>4

\* Every step keeps the checkpoint at the end of an all-red block the first.
LEMMA EndIsFirstStep ==
    ASSUME TypeOK, CkptsOwned, ReportsAnswer, EndIsFirst, ExpStep
    PROVE  EndIsFirst'
<1> SUFFICES ASSUME NEW s \in Sessions, NEW c \in ckpts'[s], c.seg.type = "DsRedEOB"
             PROVE  c.seg.ckpt = 1
  BY DEF EndIsFirst
<1>1. CkptOrigin(s, c)
  BY CkptsFlow
<1>2. CASE \E d \in ckpts[s] : d.seg = c.seg
  BY <1>2 DEF EndIsFirst
<1>3. CASE c.seg \in IssuedSegs(s)
  <2>1. CASE c.seg \in GreenSegments(s)
    BY <2>1, GreenSegmentsApart
  <2>2. CASE c.seg \in RedSegmentsFor(s, RedUnits(s), 0, 1)
    <3>1. PICK run, p : IsCut(c.seg, s, RedUnits(s), 0, 1, run, p)
      BY <2>2, RedSegmentIsCut
    <3>2. IsCkpt(c.seg)
      BY DEF IsCkpt, CkptTypes
    <3> QED
      BY <3>1, <3>2, CutShape
  <2> QED
    BY <1>3, <2>1, <2>2 DEF IssuedSegs
<1>4. CASE \E rs \in net \cap ReportSegments : c.seg \in Resent(rs)
  BY <1>4, NoEndResent
<1> QED
  BY <1>1, <1>2, <1>3, <1>4 DEF CkptOrigin

\* A block ends in at most one green segment.
LEMMA OneGreenEnd ==
    ASSUME NEW s \in Sessions, NEW x \in IssuedSegs(s), NEW y \in IssuedSegs(s),
           x.type = "DsGreenEOB", y.type = "DsGreenEOB"
    PROVE  x = y
<1>1. ASSUME NEW z \in IssuedSegs(s), z.type = "DsGreenEOB"
      PROVE  z \in GreenSegments(s)
  <2>1. CASE z \in RedSegmentsFor(s, RedUnits(s), 0, 1)
    <3>1. PICK run, p : IsCut(z, s, RedUnits(s), 0, 1, run, p)
      BY <2>1, RedSegmentIsCut
    <3>2. IsRed(z)
      BY <3>1, CutShape
    <3> QED
      BY <1>1, <3>2 DEF IsRed, GreenTypes
  <2> QED
    BY <1>1, <2>1 DEF IssuedSegs
<1>2. \A z \in GreenSegments(s) : z.type = "DsGreenEOB" => z.hi = Block[s].total
  BY GreenSegmentsApart
<1> QED
  BY <1>1, <1>2, GreenSegmentsApart

\* Before its issue, no data of a session are in the queue.
LEMMA UnissuedUnqueued ==
    ASSUME UnissuedUnknown, NEW s \in Sessions, expState[s] = "idle",
           NEW X, \A x \in X : IsData(x) /\ x.session = s
    PROVE  ~Some(expQueue, X)
<1>1. expQueue \in Seq(DataFree(s))
  BY DEF UnissuedUnknown
<1>2. \A i \in 1 .. Len(expQueue) : expQueue[i] \in DataFree(s)
  BY <1>1
<1> QED
  BY <1>2 DEF Some, DataFree

\* Every step keeps the last green segment queued once, until it is announced.
LEMMA GreenEndAnnouncedStep ==
    ASSUME TypeOK, CkptsOwned, CkptsSignaled, SegmentsMarked, UnissuedUnknown,
           ReportsAnswer, UnissuedQuiet, GreenEndAnnounced, ExpStep
    PROVE  GreenEndAnnounced'
<1> SUFFICES ASSUME NEW s \in Sessions, ~AllRed(s)
             PROVE  /\ Once(expQueue', GreenEnds(s))
                    /\ Announced(s)' => ~Some(expQueue', GreenEnds(s))
                    /\ "EOB_SENT" \in stateFlags'[s] => Announced(s)'
  BY DEF GreenEndAnnounced, AllRed, RedLen, GreenEnds
<1> DEFINE X == GreenEnds(s)
<1>1. \A x \in X : x.type = "DsGreenEOB" /\ IsData(x) /\ x.session = s /\ x \in Segments
  BY DEF GreenEnds, IsData, DataTypes, GreenTypes
<1>2. /\ Once(expQueue, X)
      /\ Announced(s) => ~Some(expQueue, X)
      /\ "EOB_SENT" \in stateFlags[s] => Announced(s)
  BY DEF GreenEndAnnounced
<1>3. expQueue \in Seq(Segments)
  BY DEF TypeOK, ExpTypeOK
<1>4. CASE IssueBlock(s)
  <2> DEFINE set == IssuedSegs(s)
             row == InOrder(set)
  <2>1. /\ expState[s] = "idle" /\ expQueue' = EnqueueAll(expQueue, set)
        /\ UNCHANGED <<stateFlags, expNotices>>
    BY <1>4 DEF IssueBlock, IssuedSegs
  <2>2. expNotices'[s] = <<>> /\ stateFlags'[s] = {}
    BY <2>1 DEF UnissuedQuiet
  <2>3. ~Announced(s)'
    BY <2>2 DEF Announced, InQueue
  <2>4. ~Some(expQueue, X)
    BY <1>1, <2>1, UnissuedUnqueued
  <2>5. set \subseteq Segments /\ IsFiniteSet(set)
    BY IssuedSegsType DEF Segments
  <2>6. \A x \in set : x.lo \in Int
    BY IssuedSegsType DEF DataSegments
  <2>7. \A x, y \in set : x.lo = y.lo => x = y
    BY IssuedApart
  <2>8. \A x, y \in set : x \in X /\ y \in X => x = y
    BY <1>1, OneGreenEnd
  <2> HIDE DEF set, X
  <2>9. InARow(row, set)
    BY <2>5, <2>6, <2>7, InOrderOnce
  <2>10. Same(expQueue', row, X)
    BY <1>3, <2>1, <2>4, <2>5, AllCounts
  <2> HIDE DEF row
  <2>11. Once(row, X)
    BY <2>8, <2>9, RowSome
  <2>12. Once(expQueue', X)
    BY <2>10, <2>11 DEF Same
  <2> QED
    BY <2>2, <2>3, <2>12 DEF X
<1>5. CASE ~IssueBlock(s)
  <2>1. \A rs \in net \cap ReportSegments : \A x \in Resent(rs) : x \notin X
    BY <1>1, NoEndResent DEF IsRed, GreenTypes
  <2>2. \A c \in ckpts[s] : c.seg \notin X
    <3> SUFFICES ASSUME NEW c \in ckpts[s] PROVE c.seg.type # "DsGreenEOB"
      BY <1>1
    <3>1. IsCkpt(c.seg)
      BY DEF CkptsOwned, CkptsSignaled, CkptSignals
    <3> QED
      BY <3>1 DEF IsCkpt, CkptTypes
  <2> HIDE DEF X
  <2>3. Fewer(expQueue', expQueue, X)
    BY <1>1, <1>5, <2>1, <2>2, QueueFewer
  <2>4. EndStep(s)
    BY EndSteps
  <2>5. CASE XmitHeard(s) /\ \E seg \in Segments : EndSent(s, seg)
    <3> PICK seg \in Segments : EndSent(s, seg)
      BY <2>5
    <3>1. expQueue # <<>> /\ seg = Head(expQueue) /\ expQueue' = Tail(expQueue)
      BY DEF EndSent, DequeueExport
    <3>2. seg \in Marked
      BY <3>1, HeadTailType DEF SegmentsMarked
    <3>3. seg.session = s /\ (seg.type = "DsRedEOB" => AllRed(s))
      BY <3>2 DEF EndSent, Marked, IsData, DataTypes, CkptTypes
    <3>4. seg \in X
      BY <3>3 DEF EndSent, X, GreenEnds
    <3>5. ~Some(expQueue', X)
      BY <1>2, <1>3, <3>1, <3>4, TailRest
    <3>6. Announced(s)'
      BY <2>5, HeardStep
    <3> QED
      BY <1>2, <2>3, <3>5, <3>6 DEF Fewer, X
  <2>6. CASE XmitUnheard(s)
    <3>1. Announced(s)' <=> Announced(s)
      BY <2>6, HeardStep
    <3>2. "EOB_SENT" \in stateFlags'[s] => "EOB_SENT" \in stateFlags[s] \/ XmitHeard(s)
      BY <2>4 DEF EndStep, FlagsFlow, FlagsFewer
    <3>3. XmitHeard(s) => Announced(s)'
      BY HeardStep
    <3> QED
      BY <1>2, <2>3, <3>1, <3>2, <3>3 DEF Fewer, X
  <2> QED
    BY <2>4, <2>5, <2>6 DEF EndStep
<1> QED
  BY <1>4, <1>5

(***************************************************************************)
(* The end of an all-red block, before and after its announcement.         *)
(***************************************************************************)
\* Before its issue, no end of a block is seen anywhere.
LEMMA UnissuedUnseen ==
    ASSUME TypeOK, CkptsOwned, UnissuedUnknown, BytesAccounted, ClaimsBounded,
           NEW s \in Sessions, AllRed(s), expState[s] = "idle"
    PROVE  EndUnseen(s)
<1>1. /\ net \subseteq DataFree(s)
      /\ impState[s] = "none" /\ s \notin closedImports
  BY DEF UnissuedUnknown
<1>2. \A seg \in net : ~(seg.type = "DsRedEOB" /\ seg.session = s)
  BY <1>1 DEF DataFree, IsData, DataTypes, CkptTypes
<1>3. imports[s].units = {}
  BY <1>1 DEF BytesAccounted
<1>4. Unclaimed(s, LastUnit(s))
  <2>1. LastUnit(s) \in RedUnits(s)
    BY ConstantsAssumption DEF LastUnit, RedUnits, AllRed, RedLen
  <2>2. ~Gone(s)
    BY DEF Gone
  <2> QED
    BY <1>1, <2>1, <2>2 DEF ClaimsBounded
<1>5. ckpts[s] = {}
  <2>1. \A c \in ckpts[s] : FALSE
    BY DEF CkptsOwned
  <2> QED
    BY <2>1
<1> QED
  BY <1>2, <1>3, <1>4, <1>5 DEF EndUnseen

\* The first transmission of the end of the block is announced.
LEMMA FirstEndHeard ==
    ASSUME TypeOK, NEW s \in Sessions, expQueue # <<>>, NEW seg, seg = Head(expQueue),
           DequeueExport(seg), seg.type = "DsRedEOB", seg.session = s,
           NEW c \in ckpts[s], c.seg = seg, c.count = 0
    PROVE  XmitHeard(s)
<1>1. DequeueCheckpoint(seg)
  BY DEF DequeueExport, DequeuePlain, DequeueGreenEOB, DequeueCS
<1>2. Notify(s, "XmitComplete")
  BY <1>1 DEF DequeueCheckpoint
<1>3. expNotices \in [Sessions -> Seq(ExpNoticeKinds)]
  BY DEF TypeOK, ExpTypeOK
<1> QED
  BY <1>2, <1>3 DEF Notify, XmitHeard

\* Notices that are added differ as their kinds do.
LEMMA Appends ==
    ASSUME NEW T, NEW seq \in Seq(T), NEW x, NEW y
    PROVE  Append(seq, x) # seq /\ (Append(seq, x) = Append(seq, y) => x = y)
<1>1. /\ Len(seq) \in Nat /\ Len(Append(seq, x)) = Len(seq) + 1
      /\ Append(seq, x)[Len(seq) + 1] = x /\ Append(seq, y)[Len(seq) + 1] = y
  OBVIOUS
<1>2. Append(seq, x) = Append(seq, y) => x = y
  BY <1>1
<1> QED
  BY <1>1, <1>2

\* A unit at the end of an all-red block is stored with the end of the block.
LEMMA EndUnstored ==
    ASSUME TypeOK, SegmentsSound, SegmentsMarked, BytesAccounted', ImpStep,
           NEW s \in Sessions, AllRed(s), EndUnseen(s)
    PROVE  LastUnit(s) \notin imports'[s].units /\ ~ImpHears(s, "RecvRedPart")
<1> DEFINE n == RedLen(s)
<1>0. n \in Nat /\ n > 0
  BY ConstantsAssumption DEF AllRed, RedLen
<1>1. ImportLife(s)
  BY ImportLifeSteps
<1>2. LastUnit(s) \notin imports[s].units
  BY DEF EndUnseen
<1>3. ASSUME NEW seg \in net \cap DataSegments, Admitted(s, seg), StoreStep(s, seg)
      PROVE  LastUnit(s) \notin imports'[s].units
  <2>1. IsRed(seg) /\ seg.session = s
    BY <1>3 DEF Admitted
  <2>2. seg.hi <= n
    BY <2>1 DEF SegmentsSound, Sound
  <2>3. seg.hi # n
    <3>1. seg \in Marked /\ IsData(seg)
      BY DEF SegmentsMarked, IsData, DataSegments
    <3>2. seg.hi = n => seg.type = "DsRedEOB"
      BY <2>1, <3>1 DEF Marked
    <3> QED
      BY <2>1, <3>2 DEF EndUnseen
  <2>4. seg.lo \in Nat /\ seg.hi \in Nat
    BY DEF DataSegments
  <2>5. LastUnit(s) \notin Units(seg)
    BY <1>0, <2>2, <2>3, <2>4 DEF LastUnit, Units
  <2>6. imports[s] \in ImportSessionType
    BY DEF TypeOK, ImpTypeOK
  <2>7. imports'[s].units = imports[s].units \cup Units(seg)
    BY <1>3, <2>6 DEF StoreStep, Stored, ImportSessionType
  <2> QED
    BY <1>2, <2>5, <2>7
<1>4. LastUnit(s) \notin imports'[s].units
  <2>1. Contents(imports'[s]) = Contents(imports[s]) => imports'[s].units = imports[s].units
    BY DEF Contents
  <2>2. imports'[s] = EmptySession => imports'[s].units = {}
    BY DEF EmptySession
  <2> QED
    BY <1>1, <1>2, <1>3, <2>1, <2>2 DEF ImportLife, ImpStays
<1>5. ASSUME ImpHears(s, "RecvRedPart")
      PROVE  FALSE
  <2>1. impNotices[s] \in Seq(ImpNoticeKinds)
    BY DEF TypeOK, ImpTypeOK
  <2>2. ~ImpSilent(s) /\ ~ImpHears(s, "ImportSessionCanceled")
    BY <1>5, <2>1, Appends DEF ImpHears, ImpSilent
  <2>3. PICK seg \in net \cap DataSegments : StoreStep(s, seg)
    BY <1>1, <2>2 DEF ImportLife
  <2>4. /\ imports'[s].redPartLength > 0
        /\ imports'[s].redPartReceived = imports'[s].redPartLength
    BY <2>2, <2>3 DEF StoreStep, IsComplete
  <2>5. /\ imports'[s].units \subseteq RedUnits(s)
        /\ imports'[s].redPartReceived = Cardinality(imports'[s].units)
        /\ imports'[s].redPartLength \in {0, n}
    BY DEF BytesAccounted
  <2>6. Cardinality(imports'[s].units) = n
    BY <2>4, <2>5
  <2>7. IsFiniteSet(RedUnits(s)) /\ Cardinality(RedUnits(s)) = n
    BY <1>0, FS_Interval DEF RedUnits
  <2>8. imports'[s].units = RedUnits(s)
    BY <2>5, <2>6, <2>7, FS_Subset
  <2>9. LastUnit(s) \in RedUnits(s)
    BY <1>0 DEF LastUnit, RedUnits
  <2> QED
    BY <1>4, <2>8, <2>9
<1> QED
  BY <1>4, <1>5

\* A queued checkpoint has an entry in the list of its session, and only one.
LEMMA CkptEntry ==
    ASSUME TypeOK, CkptsOwned, NEW s \in Sessions, CkptSignals(s)
    PROVE  /\ \A c, d \in ckpts[s] : c.seg.ckpt = d.seg.ckpt => c = d
           /\ \A i \in 1 .. Len(expQueue) :
                 IsCkpt(expQueue[i]) /\ expQueue[i].session = s =>
                     \E c \in ckpts[s] : c.seg = expQueue[i]
<1>1. ckpts[s] \subseteq CkptEntries /\ expQueue \in Seq(Segments)
  BY DEF TypeOK, ExpTypeOK
<1>2. ASSUME NEW c \in ckpts[s]
      PROVE  c.seg.ckpt \in Nat /\ c.seg \in CkptNumbered(s, c.seg.ckpt)
  <2>1. c.seg \in DataSegments /\ c.seg.session = s /\ IsCkpt(c.seg)
    BY <1>1 DEF CkptEntries, CkptsOwned, CkptSignals
  <2> QED
    BY <2>1 DEF DataSegments, Segments, CkptNumbered
<1>3. ASSUME NEW c \in ckpts[s], NEW d \in ckpts[s], c.seg.ckpt = d.seg.ckpt
      PROVE  c = d
  <2> DEFINE k == c.seg.ckpt
  <2>1. k \in Nat /\ c.seg \in CkptNumbered(s, k) /\ d.seg \in CkptNumbered(s, k)
    BY <1>2, <1>3
  <2> HIDE DEF k
  <2>2. CkptSignal(s, k)
    BY <2>1 DEF CkptSignals
  <2> QED
    BY <2>1, <2>2 DEF CkptSignal, Signal
<1>4. ASSUME NEW i \in 1 .. Len(expQueue), IsCkpt(expQueue[i]), expQueue[i].session = s
      PROVE  \E c \in ckpts[s] : c.seg = expQueue[i]
  <2> DEFINE seg == expQueue[i]
             k == seg.ckpt
  <2>1. seg \in Segments
    BY <1>1
  <2>2. k \in Nat
    BY <1>4, <2>1, SegmentKinds DEF IsCkpt, IsData, CkptTypes, DataTypes, DataSegments
  <2>3. seg \in CkptNumbered(s, k)
    BY <1>4, <2>1 DEF CkptNumbered
  <2> HIDE DEF k
  <2>4. CkptSignal(s, k)
    BY <2>2 DEF CkptSignals
  <2> QED
    BY <2>3, <2>4 DEF CkptSignal, Signal
<1> QED
  BY <1>3, <1>4

\* A step that does not announce the end of an all-red block leaves it unseen.
LEMMA EndUnseenStep ==
    ASSUME TypeOK, CkptsOwned, SegmentsSound, SegmentsMarked, BytesAccounted', [Next]_vars,
           NEW s \in Sessions, AllRed(s), EndUnseen(s), CkptSignals(s), ~XmitHeard(s)
    PROVE  EndUnseen(s)'
<1>1. ExpStep /\ ImpStep
  BY StepOfHalves
<1>2. ASSUME expQueue # <<>>, DequeueExport(Head(expQueue)),
             Head(expQueue).type = "DsRedEOB", Head(expQueue).session = s
      PROVE  FALSE
  <2> DEFINE seg == Head(expQueue)
  <2>1. seg = expQueue[1] /\ 1 \in 1 .. Len(expQueue)
    BY <1>2 DEF TypeOK, ExpTypeOK
  <2>2. IsCkpt(seg)
    BY <1>2 DEF IsCkpt, CkptTypes
  <2> HIDE DEF seg
  <2>3. PICK c \in ckpts[s] : c.seg = seg
    BY <1>2, <2>1, <2>2, CkptEntry DEF seg
  <2>4. c.count = 0
    BY <1>2, <2>3 DEF EndUnseen, seg
  <2> QED
    BY <1>2, <2>3, <2>4, FirstEndHeard DEF seg
<1>3. \A seg \in net' : ~(seg.type = "DsRedEOB" /\ seg.session = s)
  <2> DEFINE T == {seg \in Segments : ~(seg.type = "DsRedEOB" /\ seg.session = s)}
  <2>1. net \subseteq T
    BY DEF EndUnseen, TypeOK
  <2>2. CancelSegments \subseteq T
    BY DEF CancelSegments, Segments
  <2>3. ASSUME expQueue # <<>>, DequeueExport(Head(expQueue))
        PROVE  Head(expQueue) \in T
    <3>1. Head(expQueue) \in Segments
      BY <2>3, HeadTailType DEF TypeOK, ExpTypeOK
    <3> QED
      BY <1>2, <2>3, <3>1
  <2>4. ASSUME impQueue # <<>>, DequeueImport(Head(impQueue))
        PROVE  Head(impQueue) \in T
    <3>1. Head(impQueue) \in Segments
      BY <2>4, HeadTailType DEF TypeOK, ImpTypeOK
    <3>2. Head(impQueue).type # "DsRedEOB"
      BY <2>4 DEF DequeueImport, DequeueReport, DequeueCR, DequeueCAS
    <3> QED
      BY <3>1, <3>2
  <2> HIDE DEF T
  <2>5. net' \subseteq T
    BY <2>1, <2>2, <2>3, <2>4, NetFlow
  <2> QED
    BY <2>5 DEF T
<1>4. LastUnit(s) \notin imports'[s].units /\ ~ImpHears(s, "RecvRedPart")
  BY <1>1, EndUnstored
<1>5. Unclaimed(s, LastUnit(s))'
  <2>1. ASSUME NEW u, u = LastUnit(s)
        PROVE  Unclaimed(s, u)'
    BY <1>4, <2>1, UnclaimedStable DEF EndUnseen
  <2> QED
    BY <2>1 DEF LastUnit, RedLen
<1>6. ASSUME NEW c \in ckpts'[s], c.seg.type = "DsRedEOB"
      PROVE  ~c.armed /\ c.count = 0
  <2>1. EntryOrigin(s, c)
    BY <1>1, EntriesFlow
  <2>2. ASSUME NEW d \in ckpts[s], EntryKept(c, d)
        PROVE  ~c.armed /\ c.count = 0
    BY <1>6, <2>2 DEF EntryKept, EndUnseen
  <2>3. ASSUME NEW d \in ckpts[s], EntrySent(c, d)
        PROVE  FALSE
    BY <1>2, <1>6, <2>3 DEF EntrySent, CkptsOwned
  <2>4. ASSUME NEW d \in ckpts[s], EntryResent(c, d, ckpts[s])
        PROVE  FALSE
    <3>1. PICK e \in ckpts[s] : e.armed /\ e.seg.ckpt = d.seg.ckpt
      BY <2>4 DEF EntryResent
    <3>2. e = d
      BY <3>1, CkptEntry
    <3> QED
      BY <1>6, <2>4, <3>1, <3>2 DEF EntryResent, EndUnseen
  <2>5. CASE EntryNew(c)
    BY <2>5 DEF EntryNew
  <2> QED
    BY <2>1, <2>2, <2>3, <2>4, <2>5 DEF EntryOrigin
<1> QED
  BY <1>3, <1>4, <1>5, <1>6 DEF EndUnseen, LastUnit, RedLen

\* Once the end of an all-red block is announced, its checkpoint is not queued
\* as if for the first time.
LEMMA AnnouncedEndStep ==
    ASSUME TypeOK, TypeOK', CkptsOwned, CkptsOwned', CkptsSignaled, CkptsSignaled',
           SegmentsMarked, ReportsAnswer, UnissuedQuiet, EndIsFirst, EndIsFirst',
           RedEndAnnounced, ExpStep, NEW s \in Sessions, AllRed(s), expState'[s] = "open",
           Announced(s)', NEW c \in ckpts'[s], c.seg.type = "DsRedEOB", c.count = 0
    PROVE  ~InQueue(expQueue', c.seg)
<1>0. expQueue \in Seq(Segments) /\ ckpts'[s] \subseteq CkptEntries
  BY DEF TypeOK, ExpTypeOK
<1>1. expState[s] \in {"idle", "open"}
  BY ExportLife DEF LifeStep, Stays, Moves
<1>2. CkptSignals(s) /\ CkptSignals(s)'
  BY <1>1 DEF CkptsSignaled
<1>3. c.seg \in DataSegments /\ c.seg.session = s /\ c.seg.ckpt = 1 /\ IsCkpt(c.seg)
  BY <1>0 DEF CkptEntries, CkptsOwned, EndIsFirst, IsCkpt, CkptTypes
<1>4. EndStep(s)
  BY EndSteps
<1>5. CASE XmitHeard(s) /\ \E seg \in Segments : EndSent(s, seg)
  <2> DEFINE X == CkptNumbered(s, 1)
  <2>1. PICK seg \in Segments : EndSent(s, seg)
    BY <1>5
  <2>2. expQueue # <<>> /\ seg = Head(expQueue) /\ expQueue' = Tail(expQueue)
    BY <2>1 DEF EndSent, DequeueExport
  <2>3. seg \in Marked /\ seg.session = s
    BY <2>1, <2>2, HeadTailType DEF SegmentsMarked, EndSent
  <2>4. seg.type # "DsGreenEOB"
    BY <2>3 DEF Marked, IsData, IsRed, DataTypes, GreenTypes
  <2>5. seg.type = "DsRedEOB" /\ \E d \in ckpts[s] : d.seg = seg
    BY <2>1, <2>4 DEF EndSent
  <2>6. seg.ckpt = 1
    BY <2>5 DEF EndIsFirst
  <2>7. seg \in X
    BY <2>3, <2>5, <2>6 DEF CkptNumbered, IsCkpt, CkptTypes
  <2>8. c.seg \in X
    BY <1>3 DEF CkptNumbered, Segments
  <2> HIDE DEF X
  <2>9. Once(expQueue, X)
    BY <1>2 DEF CkptSignals, CkptSignal, Signal, X
  <2>10. ~Some(expQueue', X)
    BY <1>0, <2>2, <2>7, <2>9, TailRest
  <2> QED
    BY <2>8, <2>10 DEF Some, InQueue
<1>6. CASE XmitUnheard(s)
  <2> DEFINE X == {c.seg}
  <2>1. Announced(s) /\ ~IssueBlock(s) /\ expState[s] = "open"
    <3>1. Announced(s)
      BY <1>6, HeardStep
    <3>2. expNotices[s] # <<>>
      BY <3>1 DEF Announced, InQueue
    <3>3. expState[s] # "idle"
      BY <3>2 DEF UnissuedQuiet
    <3> QED
      BY <1>1, <3>1, <3>3 DEF IssueBlock
  <2>2. \A rs \in net \cap ReportSegments : c.seg \notin Resent(rs)
    BY NoEndResent
  <2>3. PICK d \in ckpts[s] : EntryKept(c, d) \/ EntrySent(c, d) \/ EntryResent(c, d, ckpts[s])
    <3>1. EntryOrigin(s, c)
      BY EntriesFlow
    <3> QED
      BY <2>1, <2>2, <3>1 DEF EntryOrigin
  <2>4. d.seg = c.seg /\ d.count = 0
    <3>1. ckpts[s] \subseteq CkptEntries
      BY DEF TypeOK, ExpTypeOK
    <3>2. d.count \in Nat
      BY <3>1 DEF CkptEntries
    <3> QED
      BY <2>3, <3>2 DEF EntryKept, EntrySent, EntryResent
  <2>5. ~InQueue(expQueue, c.seg)
    BY <2>1, <2>4 DEF RedEndAnnounced
  <2>6. ASSUME NEW e \in ckpts[s], Requeued(s, e)
        PROVE  e.seg \notin X
    <3> SUFFICES ASSUME e.seg = c.seg PROVE FALSE
      OBVIOUS
    <3>1. e = d
      BY <1>2, <2>4, CkptEntry
    <3>2. PICK f \in ckpts'[s] : f.seg = e.seg /\ f.count = e.count + 1
      BY <2>6 DEF Requeued
    <3>3. f = c
      <4>1. CkptNumbered(s, 1)' = CkptNumbered(s, 1) /\ c.seg \in CkptNumbered(s, 1)
        BY <1>3 DEF CkptNumbered, Segments
      <4>2. \A a, b \in ckpts'[s] :
                a.seg \in CkptNumbered(s, 1) /\ b.seg \in CkptNumbered(s, 1) => a = b
        BY <1>2 DEF CkptSignals, CkptSignal, Signal, CkptNumbered
      <4> QED
        BY <3>2, <4>1, <4>2
    <3> QED
      BY <2>4, <3>1, <3>2, <3>3
  <2>7. \A x \in X : IsData(x) /\ x.session = s
    BY <1>3 DEF DataSegments, IsData
  <2>8. ~Some(expQueue, X)
    BY <2>5 DEF Some, InQueue
  <2>9. \A rs \in net \cap ReportSegments : \A x \in Resent(rs) : x \notin X
    BY <2>2
  <2>10. InQueue(expQueue', c.seg) => Some(expQueue', X)
    BY DEF Some, InQueue
  <2> HIDE DEF X
  <2>11. Fewer(expQueue', expQueue, X)
    BY <2>1, <2>6, <2>7, <2>9, QueueFewer
  <2> QED
    BY <2>8, <2>10, <2>11 DEF Fewer
<1> QED
  BY <1>4, <1>5, <1>6 DEF EndStep

\* Every step keeps the end of an all-red block unseen until it is announced.
LEMMA RedEndAnnouncedStep ==
    ASSUME LtpInv, LtpInv', CkptsSignaled, CkptsSignaled', SegmentsMarked, ReportsAnswer,
           UnissuedQuiet, EndIsFirst, EndIsFirst', RedEndAnnounced, [Next]_vars
    PROVE  RedEndAnnounced'
<1> SUFFICES ASSUME NEW s \in Sessions, AllRed(s), expState'[s] = "open"
             PROVE  /\ ~Announced(s)' => EndUnseen(s)'
                    /\ Announced(s)' =>
                          \A c \in ckpts'[s] : c.seg.type = "DsRedEOB" /\ c.count = 0 =>
                              ~InQueue(expQueue', c.seg)
  BY DEF RedEndAnnounced, AllRed, RedLen
<1>1. ExpStep
  BY StepOfHalves DEF LtpInv
<1>2. ASSUME ~Announced(s)'
      PROVE  EndUnseen(s)'
  <2>1. expState[s] \in {"idle", "open"} /\ CkptSignals(s)
    BY <1>1, ExportLife DEF LifeStep, Stays, Moves, CkptsSignaled, LtpInv
  <2>2. ~XmitHeard(s) /\ ~Announced(s)
    <3>1. EndStep(s)
      BY <1>1, EndSteps DEF LtpInv
    <3> QED
      BY <1>2, <3>1, HeardStep DEF LtpInv, EndStep
  <2>3. EndUnseen(s)
    BY <2>1, <2>2, UnissuedUnseen DEF LtpInv, RedEndAnnounced
  <2> QED
    BY <2>1, <2>2, <2>3, EndUnseenStep DEF LtpInv
<1>3. ASSUME Announced(s)', NEW c \in ckpts'[s], c.seg.type = "DsRedEOB", c.count = 0
      PROVE  ~InQueue(expQueue', c.seg)
  BY <1>1, <1>3, AnnouncedEndStep DEF LtpInv
<1> QED
  BY <1>2, <1>3

(***************************************************************************)
(* The sender's notices.                                                   *)
(***************************************************************************)
\* The transmission of a block is announced when it was not yet.
LEMMA EndSentUnannounced ==
    ASSUME TypeOK, CkptsOwned, SegmentsMarked, RedEndAnnounced, GreenEndAnnounced,
           NEW s \in Sessions, NEW seg \in Segments, EndSent(s, seg)
    PROVE  ~Announced(s)
<1>1. expQueue # <<>> /\ seg = Head(expQueue) /\ seg.session = s
  BY DEF EndSent
<1>2. seg = expQueue[1] /\ 1 \in 1 .. Len(expQueue)
  BY <1>1 DEF TypeOK, ExpTypeOK
<1>3. seg \in Marked
  BY <1>1, HeadTailType DEF SegmentsMarked
<1>4. CASE seg.type = "DsGreenEOB"
  <2>1. ~AllRed(s)
    BY <1>1, <1>3, <1>4 DEF Marked, IsData, IsRed, DataTypes, GreenTypes
  <2>2. seg \in GreenEnds(s)
    BY <1>1, <1>4 DEF GreenEnds
  <2>3. Some(expQueue, GreenEnds(s))
    BY <1>2, <2>2 DEF Some
  <2> QED
    BY <2>1, <2>3 DEF GreenEndAnnounced
<1>5. CASE seg.type # "DsGreenEOB"
  <2>1. seg.type = "DsRedEOB"
    BY <1>5 DEF EndSent
  <2>2. PICK c \in ckpts[s] : c.seg = seg /\ c.count = 0
    BY <1>5 DEF EndSent
  <2>3. AllRed(s)
    BY <1>1, <1>3, <2>1 DEF Marked, IsData, DataTypes, CkptTypes
  <2>4. InQueue(expQueue, seg)
    BY <1>2 DEF InQueue
  <2>5. expState[s] = "open"
    BY <2>2 DEF CkptsOwned
  <2> QED
    BY <2>1, <2>2, <2>3, <2>4, <2>5 DEF RedEndAnnounced
<1> QED
  BY <1>4, <1>5

\* Every step keeps the transmission of a block announced at most once.
LEMMA XmitCompleteOnceStep ==
    ASSUME TypeOK, CkptsOwned, SegmentsMarked, RedEndAnnounced, GreenEndAnnounced,
           XmitCompleteOnce, ExpStep
    PROVE  XmitCompleteOnce'
<1> SUFFICES ASSUME NEW s \in Sessions PROVE Xmits(s)' <= 1
  BY DEF XmitCompleteOnce, Xmits
<1>1. Xmits(s) <= 1
  BY DEF XmitCompleteOnce, Xmits
<1>2. CASE XmitUnheard(s)
  BY <1>1, <1>2, HeardStep
<1>3. CASE XmitHeard(s) /\ \E seg \in Segments : EndSent(s, seg)
  <2>1. ~Announced(s)
    BY <1>3, EndSentUnannounced
  <2>2. Xmits(s) = 0 /\ Xmits(s)' = Xmits(s) + 1
    BY <1>3, <2>1, HeardStep
  <2> QED
    BY <2>2
<1> QED
  BY <1>2, <1>3, EndSteps DEF EndStep

\* A session whose red part is acknowledged, and whose green part is sent, has
\* been announced.
LEMMA FinalReportAnnounced ==
    ASSUME TypeOK, RedEndAnnounced, GreenEndAnnounced, NEW s \in Sessions,
           NEW rs \in net \cap ReportSegments, rs.session = s, FinalReport(rs)
    PROVE  Announced(s)
<1>1. expState[s] = "open" /\ AllClaimed(rs)
  BY DEF FinalReport, IsNewReport
<1>2. AllRed(s) \/ "EOB_SENT" \in stateFlags[s]
  BY DEF FinalReport, AllRed
<1>3. CASE ~AllRed(s)
  BY <1>2, <1>3 DEF GreenEndAnnounced
<1>4. CASE AllRed(s)
  <2> SUFFICES ASSUME ~Announced(s) PROVE FALSE
    OBVIOUS
  <2>1. Unclaimed(s, LastUnit(s))
    BY <1>1, <1>4 DEF RedEndAnnounced, EndUnseen
  <2>2. LastUnit(s) \notin claims[s] /\ LastUnit(s) \notin rs.claims
    BY <2>1 DEF Unclaimed, Silent, ReportSegments
  <2>3. LastUnit(s) \in RedUnits(s)
    BY <1>4, ConstantsAssumption DEF LastUnit, RedUnits, AllRed, RedLen
  <2> QED
    BY <1>1, <2>2, <2>3 DEF AllClaimed, MergedClaims
<1> QED
  BY <1>3, <1>4

\* What is heard in the right order, with a notice added.
Ordered(seq) ==
    \A i \in 1 .. Len(seq) : seq[i] = "ExportSessionComplete" =>
        \E j \in 1 .. i - 1 : seq[j] = "XmitComplete"

\* A notice is added in order, if the completion comes after the transmission.
LEMMA OrderedAppend ==
    ASSUME NEW T, NEW seq \in Seq(T), NEW x, Ordered(seq),
           x = "ExportSessionComplete" => InQueue(seq, "XmitComplete")
    PROVE  Ordered(Append(seq, x))
<1> DEFINE r == Append(seq, x)
<1>1. /\ Len(seq) \in Nat /\ Len(r) = Len(seq) + 1
      /\ \A i \in 1 .. Len(seq) : r[i] = seq[i]
      /\ r[Len(seq) + 1] = x
  OBVIOUS
<1> HIDE DEF r
<1> SUFFICES ASSUME NEW i \in 1 .. Len(r), r[i] = "ExportSessionComplete"
             PROVE  \E j \in 1 .. i - 1 : r[j] = "XmitComplete"
  BY DEF Ordered, r
<1>2. CASE i \in 1 .. Len(seq)
  <2>1. PICK j \in 1 .. i - 1 : seq[j] = "XmitComplete"
    BY <1>1, <1>2 DEF Ordered
  <2>2. j \in 1 .. Len(seq)
    BY <1>1, <1>2
  <2> QED
    BY <1>1, <2>1, <2>2
<1>3. CASE i = Len(seq) + 1
  <2>1. PICK j \in 1 .. Len(seq) : seq[j] = "XmitComplete"
    BY <1>1, <1>3 DEF InQueue
  <2>2. r[j] = "XmitComplete" /\ j \in 1 .. i - 1
    BY <1>1, <1>3, <2>1
  <2> QED
    BY <2>2
<1> QED
  BY <1>1, <1>2, <1>3

\* Every step keeps the announcement before the completion.
LEMMA CompleteAfterXmitStep ==
    ASSUME TypeOK, RedEndAnnounced, GreenEndAnnounced, CompleteAfterXmit, ExpStep
    PROVE  CompleteAfterXmit'
<1> SUFFICES ASSUME NEW s \in Sessions PROVE Ordered(expNotices'[s])
  BY DEF CompleteAfterXmit, Ordered
<1> DEFINE seq == expNotices[s]
<1>1. seq \in Seq(ExpNoticeKinds)
  BY DEF TypeOK, ExpTypeOK
<1>2. Ordered(seq)
  BY DEF CompleteAfterXmit, Ordered
<1>3. LifeStep(s)
  BY ExportLife
<1>4. CASE expNotices'[s] = seq
  BY <1>2, <1>4
<1>5. ASSUME NEW kind, kind # "ExportSessionComplete", expNotices'[s] = Append(seq, kind)
      PROVE  Ordered(expNotices'[s])
  BY <1>1, <1>2, <1>5, OrderedAppend
<1>6. ASSUME expNotices'[s] = Append(seq, "ExportSessionComplete"),
             NEW rs \in net \cap ReportSegments, rs.session = s, FinalReport(rs)
      PROVE  Ordered(expNotices'[s])
  <2>1. InQueue(seq, "XmitComplete")
    BY <1>6, FinalReportAnnounced DEF Announced
  <2> QED
    BY <1>1, <1>2, <1>6, <2>1, OrderedAppend
<1>7. CASE expNotices'[s] = seq \o <<"XmitComplete", "ExportSessionComplete">>
  <2> DEFINE more == Append(seq, "XmitComplete")
  <2>1. seq \o <<"XmitComplete", "ExportSessionComplete">>
            = Append(more, "ExportSessionComplete")
    BY <1>1
  <2>2. more \in Seq(ExpNoticeKinds)
    BY <1>1 DEF ExpNoticeKinds
  <2>3. Ordered(more)
    BY <1>1, <1>2, OrderedAppend
  <2>4. InQueue(more, "XmitComplete")
    BY <1>1, HeardAppend
  <2> HIDE DEF more
  <2> QED
    BY <1>7, <2>1, <2>2, <2>3, <2>4, OrderedAppend
<1> QED
  BY <1>3, <1>4, <1>5, <1>6, <1>7 DEF LifeStep, Hears

(***************************************************************************)
(* The theorems.                                                           *)
(***************************************************************************)
\* SignalsInv holds of the span before the first block.
LEMMA SignalsInvInit == Init => SignalsInv
<1> SUFFICES ASSUME Init PROVE SignalsInv
  OBVIOUS
<1>1. /\ net = {} /\ expQueue = <<>> /\ impQueue = <<>>
      /\ expTimeline = {} /\ impTimeline = {}
      /\ lastRed = [session |-> 0, end |-> 0]
      /\ lastGreen = [session |-> 0, start |-> 0]
      /\ \A s \in Sessions :
            /\ expState[s] = "idle" /\ ckpts[s] = {} /\ claims[s] = {}
            /\ stateFlags[s] = {} /\ expNotices[s] = <<>>
            /\ impState[s] = "none" /\ imports[s] = EmptySession
            /\ impNotices[s] = <<>>
  BY DEF Init, ExpInit, ImpInit
<1>2. /\ \A T : <<>> \in Seq(T)
      /\ \A X : ~Some(<<>>, X) /\ Once(<<>>, X)
      /\ \A x : ~InQueue(<<>>, x)
  <2>1. Len(<<>>) = 0 /\ \A T : <<>> \in Seq(T)
    OBVIOUS
  <2> QED
    BY <2>1 DEF Some, Once, InQueue
<1>3. \A s \in Sessions : imports[s].reports = {}
  BY <1>1 DEF EmptySession
<1>4. CkptsSignaled
  BY <1>1, <1>2 DEF CkptsSignaled, CkptSignals, CkptSignal, Signal, Some
<1>5. ReportsSignaled
  BY <1>1, <1>2, <1>3 DEF ReportsSignaled, ReportSignals, ReportSignal, Signal, Some
<1>6. SegmentsMarked /\ ReportsAnswer
  BY <1>1, <1>2, <1>3 DEF SegmentsMarked, ReportsAnswer
<1>7. ColorsKept
  <2>1. 0 \notin Sessions
    BY ConstantsAssumption
  <2> QED
    BY <1>1, <2>1 DEF ColorsKept
<1>8. ClaimsWithin /\ HeardIsDelivered
  BY <1>1, <1>2, <1>3 DEF ClaimsWithin, HeardIsDelivered, Unclaimed
<1>9. \A s \in Sessions : ~Announced(s)
  BY <1>1, <1>2 DEF Announced
<1>10. UnissuedQuiet /\ EndIsFirst /\ RedEndAnnounced /\ GreenEndAnnounced
  BY <1>1, <1>2, <1>9
     DEF UnissuedQuiet, EndIsFirst, RedEndAnnounced, GreenEndAnnounced
<1>11. XmitCompleteOnce
  <2>1. \A s \in Sessions : Xmits(s) = 0
    BY <1>9, HeardStep, LtpInvInit DEF LtpInv
  <2> QED
    BY <2>1 DEF XmitCompleteOnce, Xmits
<1>12. CompleteAfterXmit
  BY <1>1 DEF CompleteAfterXmit
<1> QED
  BY <1>4, <1>5, <1>6, <1>7, <1>8, <1>10, <1>11, <1>12 DEF SignalsInv

\* Every step keeps SignalsInv: each part from LtpInv and the parts before it.
LEMMA SignalsInvStep == LtpInv /\ LtpInv' /\ SignalsInv /\ [Next]_vars => SignalsInv'
<1> SUFFICES ASSUME LtpInv, LtpInv', SignalsInv, [Next]_vars PROVE SignalsInv'
  OBVIOUS
<1>1. ExpStep /\ ImpStep
  BY StepOfHalves DEF LtpInv
<1>2. CkptsSignaled'
  BY <1>1, CkptsSignaledStep DEF LtpInv, SignalsInv
<1>3. ReportsSignaled'
  BY <1>1, ReportsSignaledStep DEF LtpInv, SignalsInv
<1>4. SegmentsMarked'
  BY SegmentsMarkedStep DEF LtpInv, SignalsInv
<1>5. ReportsAnswer'
  BY ReportsAnswerStep DEF LtpInv, SignalsInv
<1>6. ColorsKept'
  BY <1>1, ColorsKeptStep DEF LtpInv, SignalsInv
<1>7. ClaimsWithin'
  BY ClaimsWithinStep DEF LtpInv, SignalsInv
<1>8. HeardIsDelivered'
  BY <1>1, HeardIsDeliveredStep DEF LtpInv, SignalsInv
<1>9. UnissuedQuiet'
  BY <1>1, UnissuedQuietStep DEF LtpInv, SignalsInv
<1>10. EndIsFirst'
  BY <1>1, EndIsFirstStep DEF LtpInv, SignalsInv
<1>11. RedEndAnnounced'
  BY <1>2, <1>10, RedEndAnnouncedStep DEF SignalsInv
<1>12. GreenEndAnnounced'
  BY <1>1, GreenEndAnnouncedStep DEF LtpInv, SignalsInv
<1>13. XmitCompleteOnce'
  BY <1>1, XmitCompleteOnceStep DEF LtpInv, SignalsInv
<1>14. CompleteAfterXmit'
  BY <1>1, CompleteAfterXmitStep DEF LtpInv, SignalsInv
<1> QED
  BY <1>2, <1>3, <1>4, <1>5, <1>6, <1>7, <1>8, <1>9, <1>10, <1>11, <1>12, <1>13, <1>14
     DEF SignalsInv

\* The numbered signals of the two engines, the colors of their segments and
\* the announcement of the end of a block are always as SignalsInv says.
THEOREM SignalsConsistent == Spec => []SignalsInv
<1> QED
  BY SignalsInvInit, SignalsInvStep, SessionsConsistent, PTL DEF Spec

\* A checkpoint or report waits for one retransmission at a time: it is in the
\* queue once, or its timer's event is in the timeline, and never both; an
\* armed timer has one of the two (setTimer, ltpResendCheckpoint and
\* ltpResendReport).
THEOREM OneRetransmissionPerSignal == Spec => []OneRetransmission
<1>1. LtpInv /\ SignalsInv => OneRetransmission
  BY OneRetransmissionHolds DEF LtpInv, SignalsInv
<1> QED
  BY <1>1, SessionsConsistent, SignalsConsistent, PTL

\* What the sender takes for received, and what a report on the way claims,
\* the receiver holds (constructReceptionReport, handleRS).
THEOREM ClaimsAreHeld == Spec => []ClaimsHeld
<1>1. LtpInv /\ SignalsInv => ClaimsHeld
  BY ClaimsHeldHolds DEF LtpInv, SignalsInv
<1> QED
  BY <1>1, SessionsConsistent, SignalsConsistent, PTL

\* No data segment that the sender puts on the link is ever taken for
\* miscolored by handleDataSegment.
THEOREM NothingIsMiscolored == Spec => []NeverMiscolored
<1>1. LtpInv /\ SignalsInv => NeverMiscolored
  BY NeverMiscoloredHolds DEF LtpInv, SignalsInv
<1> QED
  BY <1>1, SessionsConsistent, SignalsConsistent, PTL

\* The client hears of a block's transmission once, however often the
\* checkpoint at its end is sent again (ltpDequeueOutboundSegment).
THEOREM TransmissionAnnouncedOnce == Spec => []XmitCompleteOnce
<1>1. SignalsInv => XmitCompleteOnce
  BY DEF SignalsInv
<1> QED
  BY <1>1, SignalsConsistent, PTL

\* It hears of the transmission before it hears of the completion.
THEOREM CompletionAfterTransmission == Spec => []CompleteAfterXmit
<1>1. SignalsInv => CompleteAfterXmit
  BY DEF SignalsInv
<1> QED
  BY <1>1, SignalsConsistent, PTL

(***************************************************************************)
(* PART II.  Progress.                                                     *)
(*                                                                         *)
(* The ends of what is cut.                                                *)
(***************************************************************************)
\* A remainder of what is smaller than the divisor.
LEMMA SmallRemainder ==
    ASSUME NEW a \in Nat, NEW b \in Nat, a < b
    PROVE  a % b = a
<1> QED
  BY SMT

\* An extent has a last piece.
LEMMA LastPiece ==
    ASSUME NEW a \in Nat, NEW b \in Nat, a < b, NEW isLast
    PROVE  \E p \in Pieces(RedCuts(a, b, isLast)) : p[2] = b
<1> DEFINE cuts == RedCuts(a, b, isLast)
           below == {c \in cuts : c < b}
<1>1. cuts \subseteq a .. b /\ a \in cuts /\ b \in cuts
  <2>1. SegLen \in Nat /\ 0 < SegLen
    BY ConstantsAssumption
  <2>2. a - a = 0 /\ 0 % SegLen = 0
    BY <2>1, SmallRemainder
  <2>3. cuts \subseteq a .. b /\ b \in cuts
    BY DEF RedCuts
  <2>4. a \in a .. b /\ (a - a) % SegLen = 0
    BY <2>2
  <2>5. a \in cuts
    BY <2>4 DEF RedCuts
  <2> QED
    BY <2>3, <2>5
<1> HIDE DEF cuts
<1>2. below \in SUBSET (0 .. b) /\ below # {}
  <2>1. \A c \in cuts : c \in 0 .. b
    BY <1>1
  <2>2. a \in below
    BY <1>1
  <2> QED
    BY <2>1, <2>2
<1>3. PICK c \in below : \A d \in below : d <= c
  BY <1>2, GreatestElement
<1>4. <<c, b>> \in Pieces(cuts)
  <2>1. c \in cuts /\ b \in cuts /\ c < b
    BY <1>1, <1>3
  <2>2. \A d \in cuts : ~(c < d /\ d < b)
    <3>1. \A d \in cuts : d \in Int
      BY <1>1
    <3> QED
      BY <1>3, <2>1, <3>1
  <2> QED
    BY <2>1, <2>2 DEF Pieces
<1> QED
  BY <1>4 DEF cuts

\* A set of units has a last run, which ends with its last unit.
LEMMA LastRunFound ==
    ASSUME NEW n \in Nat, NEW set \in SUBSET (0 .. n - 1), set # {}
    PROVE  \E run \in Runs(set, n) : LastRun(set, n, run) /\ \A u \in set : u < run[2]
<1> DEFINE starts(m) == {b \in 0 .. m : b - 1 \notin set}
<1>1. PICK m \in set : \A u \in set : u <= m
  <2>1. set \in SUBSET (0 .. n)
    OBVIOUS
  <2> QED
    BY <2>1, GreatestElement
<1>2. m \in Nat /\ m < n
  OBVIOUS
<1>3. PICK a \in starts(m) : \A b \in starts(m) : b <= a
  <2>1. starts(m) \in SUBSET (0 .. m) /\ 0 \in starts(m)
    BY <1>2
  <2> QED
    BY <1>2, <2>1, GreatestElement
<1>4. a \in Nat /\ a <= m /\ a - 1 \notin set
  BY <1>2, <1>3
<1>5. (a .. m) \subseteq set
  <2> DEFINE gaps == {u \in a .. m : u \notin set}
  <2> SUFFICES ASSUME gaps # {}
               PROVE  FALSE
    OBVIOUS
  <2>1. gaps \in SUBSET (0 .. m)
    BY <1>2, <1>4
  <2>2. PICK g \in gaps : \A h \in gaps : h <= g
    BY <1>2, <2>1, GreatestElement
  <2>3. g \in Nat /\ a <= g /\ g <= m /\ g \notin set /\ g # m
    BY <1>1, <1>2, <1>4, <2>2
  <2>4. g + 1 \in starts(m)
    BY <1>2, <2>3
  <2> QED
    BY <1>3, <1>4, <2>3, <2>4
<1> DEFINE run == <<a, m + 1>>
<1>6. m + 1 \notin set
  BY <1>1, <1>2
<1>7. run \in Runs(set, n)
  BY <1>2, <1>4, <1>5, <1>6 DEF Runs
<1>8. \A u \in set : u < run[2]
  BY <1>1, <1>2
<1>9. LastRun(set, n, run)
  <2> SUFFICES ASSUME NEW r \in Runs(set, n)
               PROVE  r[2] <= m + 1
    BY DEF LastRun
  <2>1. r[1] \in Nat /\ r[2] \in Nat /\ r[1] < r[2] /\ (r[1] .. r[2] - 1) \subseteq set
    BY DEF Runs
  <2>2. r[2] - 1 \in set
    BY <2>1
  <2> QED
    BY <1>1, <1>2, <2>1, <2>2
<1> QED
  BY <1>7, <1>8, <1>9

\* Something red that is missing is sent again with one checkpoint, behind which
\* nothing is missing.
LEMMA LastCut ==
    ASSUME NEW s \in Sessions, NEW missing \in SUBSET RedUnits(s), missing # {},
           NEW rpt \in Nat, NEW ckpt \in Nat
    PROVE  \E x \in RedSegmentsFor(s, missing, rpt, ckpt) :
              /\ IsCkpt(x) /\ \A u \in missing : u < x.hi
              /\ \A y \in RedSegmentsFor(s, missing, rpt, ckpt) : IsCkpt(y) => y = x
<1> DEFINE n == RedLen(s)
<1>1. n \in Nat /\ missing \in SUBSET (0 .. n - 1)
  BY ConstantsAssumption DEF RedLen, RedUnits
<1> HIDE DEF n
<1>2. PICK run \in Runs(missing, n) :
          LastRun(missing, n, run) /\ \A u \in missing : u < run[2]
  BY <1>1, LastRunFound
<1>3. run[1] \in Nat /\ run[2] \in Nat /\ run[1] < run[2]
  BY <1>1 DEF Runs
<1>4. PICK p \in Pieces(RedCuts(run[1], run[2], TRUE)) : p[2] = run[2]
  BY <1>3, LastPiece
<1> DEFINE x == [type |-> RedType(s, p[2], TRUE), session |-> s, lo |-> p[1], hi |-> p[2],
                 ckpt |-> ckpt, rpt |-> rpt]
<1>5. x \in RedSegments(s, run, TRUE, rpt, ckpt)
  BY <1>4 DEF RedSegments
<1>6. x \in RedSegmentsFor(s, missing, rpt, ckpt)
  BY <1>2, <1>5 DEF RedSegmentsFor, LastRun, n
<1>7. IsCkpt(x)
  BY DEF RedType, IsCkpt, CkptTypes
<1>8. x.hi = run[2]
  BY <1>4
<1> HIDE DEF x
<1> QED
  BY <1>2, <1>6, <1>7, <1>8, RedSegmentsApart

\* The green part has an end.
LEMMA GreenEndCut ==
    ASSUME NEW s \in Sessions, ~AllRed(s)
    PROVE  \E x \in GreenSegments(s) : x \in GreenEnds(s)
<1>1. RedLen(s) \in Nat /\ Block[s].total \in Nat /\ RedLen(s) < Block[s].total
  BY ConstantsAssumption DEF RedLen, AllRed
<1>2. PICK p \in Pieces(RedCuts(RedLen(s), Block[s].total, FALSE)) : p[2] = Block[s].total
  BY <1>1, LastPiece
<1> DEFINE x == [type |-> IF p[2] = Block[s].total THEN "DsGreenEOB" ELSE "DsGreen",
                 session |-> s, lo |-> p[1], hi |-> p[2], ckpt |-> 0, rpt |-> 0]
<1>3. x \in GreenSegments(s)
  BY DEF GreenSegments
<1>4. x.type = "DsGreenEOB" /\ x.session = s
  BY <1>2
<1>5. x \in Segments
  BY <1>3, GreenSegmentsType DEF Segments
<1> HIDE DEF x
<1> QED
  BY <1>3, <1>4, <1>5 DEF GreenEnds

(***************************************************************************)
(* Progress: what the reports cover.                                       *)
(***************************************************************************)
\* Of the numbers below n, no more than half (rounded up) are apart.
LEMMA ApartHalf ==
    ASSUME NEW n \in Nat, NEW A \in SUBSET (0 .. n - 1), \A a \in A : a + 1 \notin A
    PROVE  IsFiniteSet(A) /\ Cardinality(A) \in Nat /\ 2 * Cardinality(A) <= n + 1
<1> DEFINE B == {a + 1 : a \in A}
           f == [a \in A |-> a + 1]
<1>1. IsFiniteSet(0 .. n) /\ Cardinality(0 .. n) = n + 1
  BY FS_Interval
<1>2. A \in SUBSET (0 .. n) /\ B \in SUBSET (0 .. n)
  OBVIOUS
<1>3. IsFiniteSet(A) /\ IsFiniteSet(B) /\ Cardinality(A) \in Nat /\ Cardinality(B) \in Nat
  BY <1>1, <1>2, FS_Subset, FS_CardinalityType
<1>4. Cardinality(A) <= Cardinality(B)
  <2>1. f \in Injection(A, B)
    BY DEF Injection, IsInjective
  <2> QED
    BY <1>3, <2>1, FS_Injection
<1>5. A \cap B = {}
  OBVIOUS
<1>6. Cardinality(A \cup B) = Cardinality(A) + Cardinality(B)
  BY <1>3, <1>5, FS_Union, FS_EmptySet
<1>7. Cardinality(A \cup B) <= n + 1
  BY <1>1, <1>2, FS_Subset
<1> QED
  BY <1>3, <1>4, <1>6, <1>7

\* What starts below the end of the red part is never split.
LEMMA WholeCuts ==
    ASSUME WholeReports, NEW s \in Sessions, NEW session, NEW seg,
           seg.hi \in Nat, seg.hi <= RedLen(s),
           CitedLowerBound(session, seg.rpt) = 0
    PROVE  ReportCuts(session, seg) = {0, seg.hi}
<1> DEFINE n == seg.hi
           set == Within(session, seg)
           starts == {r[1] : r \in Runs(set, n)}
           rank(x) == Cardinality({y \in starts : y <= x})
<1>1. n \in Nat /\ n <= 2 * MaxClaims /\ MaxClaims \in Nat /\ MaxClaims > 0
  <2>1. RedLen(s) \in Nat /\ RedLen(s) <= 2 * MaxClaims
    BY ConstantsAssumption DEF RedLen, WholeReports
  <2> QED
    BY <2>1, ConstantsAssumption
<1>2. \A a \in starts : a \in 0 .. n - 1 /\ a \in set /\ a - 1 \notin set
  <2> HIDE DEF set, n
  <2> QED
    BY <1>1 DEF Runs
<1>3. ASSUME NEW x \in starts
      PROVE  ~(rank(x) > 1 /\ (rank(x) - 1) % MaxClaims = 0)
  <2> DEFINE A == {y \in starts : y <= x}
  <2> HIDE DEF starts, set, n
  <2>1. A \in SUBSET (0 .. n - 1) /\ \A a \in A : a + 1 \notin A
    <3>1. \A a \in A : a \in 0 .. n - 1 /\ a \in set /\ a - 1 \notin set
      BY <1>2
    <3>2. \A a \in A : a \in Int /\ (a + 1) - 1 = a
      BY <3>1
    <3> HIDE DEF A
    <3> QED
      BY <3>1, <3>2
  <2>2. Cardinality(A) \in Nat /\ 2 * Cardinality(A) <= n + 1
    <3> HIDE DEF A
    <3> QED
      BY <1>1, <2>1, ApartHalf
  <2>3. rank(x) = Cardinality(A)
    OBVIOUS
  <2> HIDE DEF A, rank
  <2>4. SUFFICES ASSUME rank(x) > 1 PROVE (rank(x) - 1) % MaxClaims # 0
    OBVIOUS
  <2>5. rank(x) - 1 \in Nat /\ rank(x) - 1 < MaxClaims /\ rank(x) - 1 # 0
    BY <1>1, <2>2, <2>3, <2>4
  <2> QED
    BY <1>1, <2>5, SmallRemainder
<1> QED
  BY <1>3 DEF ReportCuts

\* A report is on the block up to the end of the checkpoint.
LEMMA WholeReport ==
    ASSUME WholeReports, NEW s \in Sessions, NEW session, NEW seg \in DataSegments,
           seg.hi <= RedLen(s), CitedLowerBound(session, seg.rpt) = 0,
           NEW x \in PartialReports(s, session, seg)
    PROVE  /\ x.type = "RS" /\ x.session = s /\ x.ckpt = seg.ckpt
           /\ x.lo = 0 /\ x.hi = seg.hi
<1>1. seg.hi \in Nat
  BY DEF DataSegments
<1>2. ReportCuts(session, seg) = {0, seg.hi}
  BY <1>1, WholeCuts
<1>3. PICK p \in Pieces(ReportCuts(session, seg)) :
          x = PieceReport(s, session, seg, ReportCuts(session, seg), p)
  BY ReportsOfPieces
<1>4. p[1] = 0 /\ p[2] = seg.hi
  BY <1>1, <1>2, <1>3 DEF Pieces
<1> QED
  BY <1>3, <1>4 DEF PieceReport

(***************************************************************************)
(* Progress: the numbers of the checkpoints count up.                      *)
(***************************************************************************)
\* Issue and negative reports apart, no number is given and no session opened.
Unnumbered ==
    /\ UNCHANGED lastCkpt
    /\ \/ UNCHANGED expState
       \/ \E t \in Sessions, state \in {"closed", "dead"} :
             expState' = [expState EXCEPT ![t] = state]

LEMMA NumbersFlow ==
    ASSUME TypeOK, ExpStep
    PROVE  \/ \E t \in Sessions : IssueBlock(t)
           \/ \E rs \in net \cap ReportSegments : NegativeReport(rs)
           \/ Unnumbered
<1>0. \A x \in Segments : x.session \in Sessions
  BY SegmentKinds
<1>1. ASSUME expQueue # <<>>, DequeueExport(Head(expQueue)) PROVE Unnumbered
  <2>1. Head(expQueue) \in Segments
    BY <1>1, HeadTailType DEF TypeOK, ExpTypeOK
  <2> QED
    BY <1>0, <1>1, <2>1 DEF DequeueExport, DequeuePlain, DequeueCheckpoint, DequeueGreenEOB,
       DequeueCS, LeaveExportSessions, expSessionVars, Unnumbered
<1>2. ASSUME NEW rs \in net \cap ReportSegments, HandleRS(rs), ~NegativeReport(rs) PROVE Unnumbered
  <2>1. rs.session \in Sessions
    BY DEF ReportSegments
  <2> QED
    BY <1>2, <2>1 DEF HandleRS, LateReport, StrayReport, IgnoredReport, FinalReport,
       FinalReportBeforeEOB, NegativeReportAtLimit, CancelSessionBySender,
       LeaveExportSessions, expSessionVars, expVars, Unnumbered
<1>3. ASSUME NEW t \in Sessions, HandleCAS(t) \/ HandleCR(t) PROVE Unnumbered
  BY <1>3 DEF HandleCAS, HandleCR, LeaveExportSessions, expSessionVars, expVars, Unnumbered
<1>4. ASSUME NEW t \in Sessions, NEW k \in Nat, ResendCheckpoint(t, k) PROVE Unnumbered
  BY <1>4 DEF ResendCheckpoint, CancelSessionBySender, LeaveExportSessions, expSessionVars,
     Unnumbered
<1>5. ASSUME NEW t \in Sessions, ResendXmitCancel(t) \/ ForgetExportSession(t) PROVE Unnumbered
  BY <1>5 DEF ResendXmitCancel, ForgetExportSession, expSessionVars, Unnumbered
<1>6. ASSUME UNCHANGED expVars PROVE Unnumbered
  BY <1>6 DEF expVars, expSessionVars, Unnumbered
<1> QED
  BY <1>1, <1>2, <1>3, <1>4, <1>5, <1>6 DEF ExpStep

\* A session opens by its issue.
LEMMA OpenedByIssue ==
    ASSUME TypeOK, ExpStep, NEW s \in Sessions, expState[s] = "idle", expState'[s] = "open"
    PROVE  IssueBlock(s)
<1>1. expState \in [Sessions -> {"idle", "open", "dead", "closed"}]
  BY DEF TypeOK, ExpTypeOK
<1>2. \A rs \in ReportSegments : NegativeReport(rs) => expState' = expState
  BY DEF NegativeReport
<1>3. ~Unnumbered
  BY <1>1 DEF Unnumbered
<1>4. PICK t \in Sessions : IssueBlock(t)
  BY <1>2, <1>3, NumbersFlow
<1>5. expState' = [expState EXCEPT ![t] = "open"]
  BY <1>4 DEF IssueBlock
<1> QED
  BY <1>1, <1>4, <1>5

LEMMA NumbersStep ==
    ASSUME TypeOK, UnissuedUnnumbered, ExpStep, NEW s \in Sessions
    PROVE  /\ lastCkpt[s] \in Nat /\ lastCkpt'[s] \in Nat /\ lastCkpt[s] <= lastCkpt'[s]
           /\ expState'[s] = "idle" => lastCkpt'[s] = 0
<1>0. /\ lastCkpt \in [Sessions -> Nat] /\ lastCkpt[s] \in Nat
      /\ expState \in [Sessions -> {"idle", "open", "dead", "closed"}]
      /\ expState[s] = "idle" => lastCkpt[s] = 0
  BY DEF TypeOK, ExpTypeOK, UnissuedUnnumbered
<1>1. ASSUME NEW t \in Sessions, IssueBlock(t)
      PROVE  /\ lastCkpt'[s] \in Nat /\ lastCkpt[s] <= lastCkpt'[s]
             /\ expState'[s] = "idle" => lastCkpt'[s] = 0
  <2>1. PICK k \in {0, 1} : lastCkpt' = [lastCkpt EXCEPT ![t] = k]
    BY <1>1 DEF IssueBlock
  <2>2. expState[t] = "idle" /\ expState' = [expState EXCEPT ![t] = "open"]
    BY <1>1 DEF IssueBlock
  <2> QED
    BY <1>0, <2>1, <2>2
<1>2. ASSUME UNCHANGED lastCkpt, expState'[s] = "idle" => expState[s] = "idle"
      PROVE  /\ lastCkpt'[s] \in Nat /\ lastCkpt[s] <= lastCkpt'[s]
             /\ expState'[s] = "idle" => lastCkpt'[s] = 0
  BY <1>0, <1>2
<1>3. ASSUME NEW rs \in net \cap ReportSegments, NegativeReport(rs)
      PROVE  /\ lastCkpt'[s] \in Nat /\ lastCkpt[s] <= lastCkpt'[s]
             /\ expState'[s] = "idle" => lastCkpt'[s] = 0
  <2>1. \/ lastCkpt' = lastCkpt
        \/ lastCkpt' = [lastCkpt EXCEPT ![rs.session] = @ + 1]
    <3>1. \E b \in BOOLEAN : lastCkpt' = [lastCkpt EXCEPT ![rs.session] = IF b THEN @ ELSE @ + 1]
      BY <1>3 DEF NegativeReport
    <3> QED
      BY <1>0, <3>1
  <2>2. expState' = expState /\ expState[rs.session] = "open"
    BY <1>3 DEF NegativeReport, IsNewReport
  <2> QED
    BY <1>0, <2>1, <2>2
<1>4. ASSUME UNCHANGED lastCkpt,
             \/ UNCHANGED expState
             \/ \E t \in Sessions, state \in {"closed", "dead"} :
                   expState' = [expState EXCEPT ![t] = state]
      PROVE  expState'[s] = "idle" => expState[s] = "idle"
  BY <1>0, <1>4
<1> QED
  BY <1>0, <1>1, <1>2, <1>3, <1>4, NumbersFlow DEF Unnumbered
\* What is new in a list of checkpoints has a new number.
LEMMA NewNumbers ==
    ASSUME TypeOK, CkptsOwned, UnissuedUnnumbered, ExpStep, NEW s \in Sessions,
           NEW c \in ckpts'[s], IsCkpt(c.seg)
    PROVE  (\E d \in ckpts[s] : d.seg = c.seg) \/ c.seg.ckpt > lastCkpt[s]
<1>0. lastCkpt[s] \in Nat
  BY DEF TypeOK, ExpTypeOK
<1>1. CkptOrigin(s, c)
  BY CkptsFlow
<1>2. ASSUME IssueBlock(s), c.seg \in IssuedSegs(s)
      PROVE  c.seg.ckpt > lastCkpt[s]
  <2>1. lastCkpt[s] = 0
    BY <1>2 DEF IssueBlock, UnissuedUnnumbered
  <2>2. c.seg \notin GreenSegments(s)
    BY GreenSegmentsApart DEF IsCkpt, CkptTypes
  <2>3. PICK run, p : IsCut(c.seg, s, RedUnits(s), 0, 1, run, p)
    BY <1>2, <2>2, RedSegmentIsCut DEF IssuedSegs
  <2>4. c.seg.ckpt = 1
    BY <2>3, CutShape
  <2> QED
    BY <2>1, <2>4
<1>3. ASSUME NEW rs \in net \cap ReportSegments, rs.session = s, c.seg \in Resent(rs)
      PROVE  c.seg.ckpt > lastCkpt[s]
  <2>1. PICK run, p : IsCut(c.seg, s, Units(rs) \ MergedClaims(rs), rs.rpt, lastCkpt[s] + 1,
                            run, p)
    BY <1>3, RedSegmentIsCut DEF Resent
  <2>2. c.seg.ckpt = lastCkpt[s] + 1
    BY <2>1, CutShape
  <2> QED
    BY <1>0, <2>2
<1> QED
  BY <1>1, <1>2, <1>3 DEF CkptOrigin

\* What reaches far enough keeps doing so.
LEMMA ReachingGrows ==
    ASSUME TypeOK, CkptsOwned, CkptsOwned', CkptsSignaled', UnissuedUnnumbered, ExpStep,
           NEW s \in Sessions
    PROVE  Reaching(s) \subseteq Reaching(s)'
<1> SUFFICES ASSUME NEW x \in Reaching(s), IsCkpt(x) \/ x.type = "RS", x.session = s
             PROVE  /\ x.ckpt <= lastCkpt'[s]
                    /\ \A c \in ckpts'[s] : c.seg.ckpt = x.ckpt => c.seg.hi <= x.hi
  BY DEF Reaching
<1>1. /\ x.ckpt <= lastCkpt[s]
      /\ \A c \in ckpts[s] : c.seg.ckpt = x.ckpt => c.seg.hi <= x.hi
  BY DEF Reaching
<1>2. lastCkpt[s] \in Nat /\ lastCkpt'[s] \in Nat /\ lastCkpt[s] <= lastCkpt'[s]
  BY NumbersStep
<1>3. x.ckpt \in Nat
  BY DEF Reaching, Segments, DataSegments, ReportSegments, ReportAcks, CancelSegments,
     IsCkpt, CkptTypes
<1>4. ASSUME NEW c \in ckpts'[s], c.seg.ckpt = x.ckpt
      PROVE  c.seg.hi <= x.hi
  <2>1. expState'[s] = "open"
    BY DEF CkptsOwned
  <2>2. IsCkpt(c.seg)
    BY <2>1 DEF CkptsSignaled, CkptSignals
  <2>3. PICK d \in ckpts[s] : d.seg = c.seg
    BY <1>1, <1>2, <1>3, <1>4, <2>2, NewNumbers
  <2> QED
    BY <1>1, <1>4, <2>3
<1> QED
  BY <1>1, <1>2, <1>3, <1>4

\* The reports on a checkpoint reach as far as it does.
LEMMA ReportsReach ==
    ASSUME WholeReports, LtpInv, SignalsInv, NEW s \in Sessions,
           net \subseteq Reaching(s),
           \A r \in imports[s].reports : r.seg \in Reaching(s),
           NEW seg \in net \cap DataSegments, IsCkpt(seg)
    PROVE  /\ Reports(seg) \subseteq Reaching(s)
           /\ IsComplete(StoredIn(seg)) => FinalReportOf(seg) \in Reaching(s)
<1> DEFINE t == seg.session
<1>0. t \in Sessions /\ imports[t] \in ImportSessionType
  BY DEF LtpInv, TypeOK, ImpTypeOK, DataSegments
<1>1. StoredIn(seg) \in ImportSessionType /\ StoredIn(seg).reports = imports[t].reports
  <2>1. StoredIn(seg) \in ImportSessionType
    BY <1>0, StoredType DEF StoredIn
  <2> QED
    BY <1>0, <2>1 DEF StoredIn, Stored, ImportSessionType
<1>2. Reports(seg) \subseteq Segments /\ FinalReportOf(seg) \in Segments
  <2>1. Reports(seg) \subseteq ReportSegments
    BY <1>0, <1>1, PartialReportsType DEF Reports
  <2>2. FinalReportOf(seg) \in ReportSegments
    <3>1. seg.ckpt \in Nat
      BY DEF DataSegments
    <3> QED
      BY <1>0, <1>1, <3>1, LastReportType DEF FinalReportOf
  <2>3. ReportSegments \subseteq Segments
    BY DEF Segments
  <2> QED
    BY <2>1, <2>2, <2>3
<1>3. /\ \A x \in Reports(seg) : x.session = t /\ x.type = "RS"
      /\ FinalReportOf(seg).session = t /\ FinalReportOf(seg).type = "RS"
  <2>1. ASSUME NEW x \in Reports(seg)
        PROVE  x.session = t /\ x.type = "RS"
    <3>1. PICK p : x = PieceReport(t, StoredIn(seg), seg, ReportCuts(StoredIn(seg), seg), p)
      BY ReportsOfPieces DEF Reports
    <3> QED
      BY <3>1 DEF PieceReport
  <2>2. FinalReportOf(seg).session = t /\ FinalReportOf(seg).type = "RS"
    BY DEF FinalReportOf, LastReport
  <2> QED
    BY <2>1, <2>2
<1>4. CASE t # s
  <2>1. \A x \in Segments : x.session # s => x \in Reaching(s)
    BY DEF Reaching
  <2> QED
    BY <1>2, <1>3, <1>4, <2>1
<1>5. CASE t = s
  <2>1. /\ seg.ckpt <= lastCkpt[s]
        /\ \A c \in ckpts[s] : c.seg.ckpt = seg.ckpt => c.seg.hi <= seg.hi
    BY <1>5 DEF Reaching
  <2>2. seg.hi <= RedLen(s)
    BY <1>5 DEF LtpInv, SegmentsSound, Sound, IsCkpt, IsRed, CkptTypes, DataTypes, GreenTypes
  <2>3. CitedLowerBound(StoredIn(seg), seg.rpt) = 0
    <3>1. \A r \in imports[s].reports : r.seg.lo = 0
      <4>1. \A r \in imports[s].reports : r.seg.session = s /\ r.seg.type = "RS"
        BY <1>0, <1>5 DEF SignalsInv, ReportsSignaled, ReportSignals, ImportSessionType,
           ReportEntries, ReportSegments
      <4> QED
        BY <4>1 DEF Reaching
    <3> QED
      BY <1>1, <1>5, <3>1, CitedBound
  <2>4. ASSUME NEW x \in Reports(seg)
        PROVE  x \in Reaching(s)
    <3>1. x.ckpt = seg.ckpt /\ x.lo = 0 /\ x.hi = seg.hi
      BY <1>5, <2>2, <2>3, WholeReport DEF Reports
    <3> QED
      BY <1>2, <2>1, <2>2, <3>1 DEF Reaching
  <2>5. ASSUME IsComplete(StoredIn(seg))
        PROVE  FinalReportOf(seg) \in Reaching(s)
    <3>1. StoredIn(seg).redPartLength = RedLen(s)
      <4>1. StoredIn(seg).redPartLength \in {0, RedLen(s)}
        BY <1>5, StoredLength DEF LtpInv
      <4> QED
        BY <2>5, <4>1 DEF IsComplete
    <3>2. FinalReportOf(seg).ckpt = seg.ckpt /\ FinalReportOf(seg).lo = 0
          /\ FinalReportOf(seg).hi = RedLen(s)
      BY <3>1 DEF FinalReportOf, LastReport
    <3>3. \A c \in ckpts[s] : c.seg.hi <= RedLen(s)
      <4>1. ASSUME NEW c \in ckpts[s]
            PROVE  c.seg.hi <= RedLen(s)
        <5>1. c.seg \in Sound /\ c.seg.session = s /\ expState[s] = "open"
          BY DEF LtpInv, SegmentsSound, CkptsOwned
        <5>2. IsCkpt(c.seg)
          BY <5>1 DEF SignalsInv, CkptsSignaled, CkptSignals
        <5> QED
          BY <5>1, <5>2 DEF Sound, IsCkpt, IsRed, CkptTypes, DataTypes, GreenTypes
      <4> QED
        BY <4>1
    <3>4. RedLen(s) <= RedLen(s)
      BY ConstantsAssumption DEF RedLen
    <3> QED
      BY <1>2, <2>1, <3>2, <3>3, <3>4 DEF Reaching
  <2> QED
    BY <2>4, <2>5
<1> QED
  BY <1>4, <1>5

LEMMA ScopesReachStep ==
    ASSUME WholeReports, LtpInv, LtpInv', SignalsInv, SignalsInv', ScopesReach,
           UnissuedUnnumbered, [Next]_vars
    PROVE  ScopesReach'
<1>0. TypeOK /\ CkptsOwned /\ CkptsOwned' /\ CkptsSignaled /\ CkptsSignaled'
  BY DEF LtpInv, SignalsInv
<1>1. ExpStep /\ ImpStep
  BY <1>0, StepOfHalves
<1> SUFFICES ASSUME NEW s \in Sessions, expState'[s] \in {"idle", "open"}
             PROVE  /\ impQueue' \in Seq(Reaching(s)')
                    /\ \A t \in Sessions : \A r \in imports'[t].reports : r.seg \in Reaching(s)'
                    /\ net' \subseteq Reaching(s)'
  BY DEF ScopesReach
<1>2. expState[s] \in {"idle", "open"}
  <2>1. LifeStep(s)
    BY <1>0, <1>1, ExportLife
  <2> QED
    BY <2>1 DEF LifeStep, Stays, Moves
<1>3. /\ impQueue \in Seq(Reaching(s))
      /\ \A t \in Sessions : \A r \in imports[t].reports : r.seg \in Reaching(s)
      /\ net \subseteq Reaching(s)
  BY <1>2 DEF ScopesReach
<1>4. PICK T : T = Reaching(s)'
  OBVIOUS
<1>5. Reaching(s) \subseteq T
  BY <1>0, <1>1, <1>4, ReachingGrows DEF SignalsInv
<1>6. /\ impQueue \in Seq(T) /\ net \subseteq T
      /\ \A t \in Sessions : \A r \in imports[t].reports : r.seg \in T
  <2>1. impQueue \in Seq(T)
    <3>1. \A i \in 1 .. Len(impQueue) : impQueue[i] \in Reaching(s)
      BY <1>3
    <3> QED
      BY <1>3, <1>5, <3>1, SeqOfOthers
  <2> QED
    BY <1>3, <1>5, <2>1
<1>7. CancelSegments \subseteq T
  BY <1>5 DEF Reaching, CancelSegments, Segments, IsCkpt, CkptTypes
<1>8. \A seg \in net \cap DataSegments : CallsForReports(seg) => Reports(seg) \subseteq T
  <2>1. ASSUME NEW seg \in net \cap DataSegments, CallsForReports(seg)
        PROVE  Reports(seg) \subseteq T
    BY <1>3, <1>5, <2>1, ReportsReach DEF CallsForReports
  <2> QED
    BY <2>1
<1>9. \A seg \in net \cap DataSegments : Delivers(seg) => FinalReportOf(seg) \in T
  <2>1. ASSUME NEW seg \in net \cap DataSegments, Delivers(seg)
        PROVE  FinalReportOf(seg) \in T
    BY <1>3, <1>5, <2>1, ReportsReach DEF Delivers
  <2> QED
    BY <2>1
<1>10. /\ impQueue' \in Seq(T)
       /\ \A t \in Sessions : \A r \in imports'[t].reports : r.seg \in T
  BY <1>0, <1>1, <1>6, <1>7, <1>8, <1>9, ReportsFlow
<1>11. ASSUME expQueue # <<>>, DequeueExport(Head(expQueue))
       PROVE  Head(expQueue) \in T
  <2> DEFINE x == Head(expQueue)
  <2>1. expQueue \in Seq(Segments) /\ x \in Segments
    BY <1>0, <1>11, HeadTailType DEF TypeOK, ExpTypeOK
  <2>2. x.type # "RS"
    BY <1>11 DEF DequeueExport, DequeuePlain, DequeueCheckpoint, DequeueGreenEOB, DequeueCS,
       IsCkpt, CkptTypes
  <2>3. ASSUME IsCkpt(x), x.session = s
        PROVE  /\ x.ckpt <= lastCkpt[s]
               /\ \A c \in ckpts[s] : c.seg.ckpt = x.ckpt => c.seg.hi <= x.hi
    <3>1. CkptSignals(s)
      BY <1>0, <1>2 DEF CkptsSignaled
    <3>2. Len(expQueue) > 0 /\ Len(expQueue) \in Nat /\ x = expQueue[1]
      BY <1>11, <2>1, TailPlaces
    <3>3. PICK c \in ckpts[s] : c.seg = x
      BY <1>0, <2>3, <3>1, <3>2, CkptEntry
    <3>4. \A d \in ckpts[s] : d.seg.ckpt = x.ckpt => d = c
      BY <1>0, <3>1, <3>3, CkptEntry
    <3>5. x.hi \in Nat
      BY <2>1, <2>3, SegmentKinds DEF IsCkpt, IsData, CkptTypes, DataTypes, DataSegments
    <3> QED
      BY <3>1, <3>3, <3>4, <3>5 DEF CkptSignals
  <2>4. x \in Reaching(s)
    BY <2>1, <2>2, <2>3 DEF Reaching
  <2> QED
    BY <1>5, <2>4
<1>12. ASSUME impQueue # <<>>, DequeueImport(Head(impQueue))
       PROVE  Head(impQueue) \in T
  BY <1>6, <1>12, HeadTailType
<1>13. net' \subseteq T
  BY <1>0, <1>6, <1>7, <1>11, <1>12, NetFlow
<1> QED
  BY <1>4, <1>10, <1>13
(***************************************************************************)
(* Progress: an open session moves.                                        *)
(***************************************************************************)
\* The segments that the progress of a session hangs on.
Wanted(s) ==
    {x \in Segments : x.session = s /\ (IsCkpt(x) \/ x.type = "DsGreenEOB")}

LEMMA MovesOn ==
    ASSUME NEW s \in Sessions, SessionMoves(s),
           stateFlags'[s] = stateFlags[s], claims[s] \subseteq claims'[s],
           \A c \in ckpts'[s] : \E d \in ckpts[s] : d.seg = c.seg,
           AnswerAwaited(s) => AnswerAwaited(s)',
           Some(expQueue, GreenEnds(s)) => Some(expQueue', GreenEnds(s))
    PROVE  SessionMoves(s)'
<1>1. (AckedEarly(s)' <=> AckedEarly(s)) /\ (EndSentEarly(s)' <=> EndSentEarly(s))
  BY DEF AckedEarly, EndSentEarly
<1>2. BeyondClaimed(s) => BeyondClaimed(s)'
  BY DEF BeyondClaimed
<1>3. \A x : (x \in GreenEnds(s))' <=> x \in GreenEnds(s)
  BY DEF GreenEnds
<1> QED
  BY <1>1, <1>2, <1>3 DEF SessionMoves

\* A step that leaves the session and its part of the queue alone.
LEMMA MovesKept ==
    ASSUME TypeOK, CkptsOwned, CkptsSignaled, NEW s \in Sessions, SessionMoves(s),
           expState[s] = "open", ckpts'[s] = ckpts[s], claims'[s] = claims[s],
           stateFlags'[s] = stateFlags[s], Same(expQueue', expQueue, Wanted(s))
    PROVE  SessionMoves(s)'
<1>1. \A c \in ckpts[s] : c.seg \in Wanted(s)
  <2>1. ASSUME NEW c \in ckpts[s]
        PROVE  c.seg \in Wanted(s)
    <3>1. c.seg \in Segments
      BY DEF TypeOK, ExpTypeOK, CkptEntries, Segments
    <3>2. IsCkpt(c.seg) /\ c.seg.session = s
      BY DEF CkptsOwned, CkptsSignaled, CkptSignals
    <3> QED
      BY <3>1, <3>2 DEF Wanted
  <2> QED
    BY <2>1
<1>2. \A x \in Wanted(s) : InQueue(expQueue, x) => InQueue(expQueue', x)
  BY DEF Same, InQueue
<1>3. AnswerAwaited(s) => AnswerAwaited(s)'
  BY <1>1, <1>2 DEF AnswerAwaited
<1>4. Some(expQueue, GreenEnds(s)) => Some(expQueue', GreenEnds(s))
  <2>1. GreenEnds(s) \subseteq Wanted(s)
    BY DEF GreenEnds, Wanted
  <2>2. ASSUME NEW i \in 1 .. Len(expQueue), expQueue[i] \in GreenEnds(s)
        PROVE  Some(expQueue', GreenEnds(s))
    <3>1. InQueue(expQueue', expQueue[i])
      BY <2>1, <2>2 DEF Same
    <3> QED
      BY <2>2, <3>1 DEF InQueue, Some
  <2> QED
    BY <2>2 DEF Some
<1> QED
  BY <1>3, <1>4, MovesOn

\* What is not of the session, or no checkpoint and no end of a green part, is
\* not wanted.
LEMMA Unwanted ==
    ASSUME NEW s \in Sessions
    PROVE  /\ \A x : x.session # s => x \notin Wanted(s)
           /\ \A x : ~IsCkpt(x) /\ x.type # "DsGreenEOB" => x \notin Wanted(s)
           /\ \A t, r : RA(t, r) \notin Wanted(s)
           /\ \A t : Cancel("CS", t) \notin Wanted(s) /\ Cancel("CAR", t) \notin Wanted(s)
BY DEF Wanted, IsCkpt, CkptTypes, RA, Cancel

\* Stopping another session takes nothing wanted from the queue.
LEMMA OtherStopped ==
    ASSUME NEW s \in Sessions, NEW t \in Sessions, t # s, NEW q \in Seq(Segments)
    PROVE  /\ Same(StoppedQueue(q, t), q, Wanted(s))
           /\ StoppedQueue(q, t) \in Seq(Segments)
<1>1. \A x \in Wanted(s) : ~(x.session = t /\ x.type \in DataTypes)
  BY DEF Wanted
<1> QED
  BY <1>1, PurgeOther, PurgeType DEF StoppedQueue

\* Another session is canceled.
LEMMA OtherCanceled ==
    ASSUME TypeOK, NEW s \in Sessions, NEW t \in Sessions, t # s,
           NEW q \in Seq(Segments), Same(q, expQueue, Wanted(s)),
           NEW timeline, CancelSessionBySender(t, q, timeline)
    PROVE  Same(expQueue', expQueue, Wanted(s))
<1>1. expQueue' = Append(StoppedQueue(q, t), Cancel("CS", t))
  BY DEF CancelSessionBySender
<1>2. Same(StoppedQueue(q, t), q, Wanted(s)) /\ StoppedQueue(q, t) \in Seq(Segments)
  BY OtherStopped
<1>3. Same(Append(StoppedQueue(q, t), Cancel("CS", t)), StoppedQueue(q, t), Wanted(s))
  BY <1>2, AppendOther, Unwanted
<1> QED
  BY <1>1, <1>2, <1>3, SameTwice

\* What leaves exportSessions is another session.
LEMMA OtherLeft ==
    ASSUME TypeOK, NEW s \in Sessions, NEW t \in Sessions, t # s, NEW state,
           LeaveExportSessions(t, state)
    PROVE  /\ expState'[s] = expState[s] /\ ckpts'[s] = ckpts[s]
           /\ claims'[s] = claims[s] /\ stateFlags'[s] = stateFlags[s]
BY DEF LeaveExportSessions, TypeOK, ExpTypeOK

\* What is sent is all that leaves the queue.
LEMMA TailKeeps ==
    ASSUME NEW T, NEW q \in Seq(T), q # <<>>, NEW x, x # Head(q), InQueue(q, x)
    PROVE  InQueue(Tail(q), x)
<1>1. /\ Len(q) \in Nat /\ Len(q) > 0 /\ Len(Tail(q)) = Len(q) - 1
      /\ Head(q) = q[1]
      /\ \A i \in 1 .. Len(q) - 1 : Tail(q)[i] = q[i + 1]
  BY TailPlaces
<1>2. PICK i \in 1 .. Len(q) : q[i] = x
  BY DEF InQueue
<1>3. i - 1 \in 1 .. Len(q) - 1 /\ (i - 1) + 1 = i
  BY <1>1, <1>2
<1> QED
  BY <1>1, <1>2, <1>3 DEF InQueue

\* What is put in order at the end of a queue is in the queue.
LEMMA AllQueued ==
    ASSUME NEW q \in Seq(Segments), NEW set, set \subseteq DataSegments, IsFiniteSet(set),
           \A x, y \in set : x.lo = y.lo => x = y
    PROVE  \A x \in set : InQueue(EnqueueAll(q, set), x)
<1>1. \A x \in set : x.lo \in Int
  BY DEF DataSegments
<1>2. InARow(InOrder(set), set)
  BY <1>1, InOrderOnce
<1>3. InOrder(set) \in Seq(Segments)
  <2>1. set \subseteq Segments
    BY DEF Segments
  <2> QED
    BY <2>1, InOrderType
<1>4. IsSpliced(EnqueueAll(q, set), q, Len(q), InOrder(set))
  BY <1>3, AllSpliced
<1>5. \A i \in 1 .. Len(InOrder(set)) : InQueue(EnqueueAll(q, set), InOrder(set)[i])
  BY <1>4, SplicedHolds
<1> QED
  <2> SUFFICES ASSUME NEW x \in set PROVE InQueue(EnqueueAll(q, set), x)
    OBVIOUS
  <2>1. PICK i \in 1 .. Len(InOrder(set)) : InOrder(set)[i] = x
    BY <1>2 DEF InARow, InQueue
  <2> QED
    BY <1>5, <2>1

\* A session starts with the end of its red part, or of its green one, queued.
LEMMA IssuedMoves ==
    ASSUME TypeOK, UnissuedQuiet, NEW s \in Sessions, IssueBlock(s)
    PROVE  SessionMoves(s)'
<1> DEFINE R == RedSegmentsFor(s, RedUnits(s), 0, 1)
           new == {x \in R : IsCkpt(x)}
           all == IssuedSegs(s)
<1>1. /\ ckpts' = [ckpts EXCEPT ![s] = {NewCkpt(x) : x \in new}]
      /\ expQueue' = EnqueueAll(expQueue, all)
      /\ stateFlags' = stateFlags
      /\ expState[s] = "idle"
  BY DEF IssueBlock, IssuedSegs
<1>2. /\ ckpts \in [Sessions -> SUBSET CkptEntries] /\ expQueue \in Seq(Segments)
      /\ RedLen(s) \in Nat /\ Block[s].total \in Nat /\ Block[s].total > 0
  BY ConstantsAssumption DEF TypeOK, ExpTypeOK, RedLen
<1>3. \A x \in all : InQueue(expQueue', x)
  <2>1. all \subseteq DataSegments /\ IsFiniteSet(all)
    BY IssuedSegsType
  <2>2. \A x, y \in all : x.lo = y.lo => x = y
    BY IssuedApart
  <2> HIDE DEF all
  <2> QED
    BY <1>1, <1>2, <2>1, <2>2, AllQueued
<1>4. ckpts'[s] = {NewCkpt(x) : x \in new}
  BY <1>1, <1>2
<1>5. ~AckedEarly(s)' /\ ~EndSentEarly(s)'
  BY <1>1 DEF UnissuedQuiet, AckedEarly, EndSentEarly
<1>6. RedLen(s) = 0 => ~AllRed(s)
  BY <1>2 DEF AllRed
<1>7. ASSUME ~AllRed(s)
      PROVE  Some(expQueue', GreenEnds(s))
  <2>1. PICK x \in GreenSegments(s) : x \in GreenEnds(s)
    BY <1>7, GreenEndCut
  <2>2. InQueue(expQueue', x)
    BY <1>3, <2>1 DEF IssuedSegs
  <2> QED
    BY <2>1, <2>2 DEF Some, InQueue
<1>8. ASSUME RedLen(s) > 0
      PROVE  BeyondClaimed(s)' /\ AnswerAwaited(s)'
  <2>1. RedUnits(s) # {}
    <3>1. 0 \in RedUnits(s)
      BY <1>2, <1>8 DEF RedUnits
    <3> QED
      BY <3>1
  <2>2. PICK x \in R : /\ IsCkpt(x) /\ \A u \in RedUnits(s) : u < x.hi
                       /\ \A y \in R : IsCkpt(y) => y = x
    BY <2>1, LastCut
  <2>3. new = {x}
    <3> HIDE DEF R
    <3> QED
      BY <2>2
  <2>4. ckpts'[s] = {NewCkpt(x)} /\ NewCkpt(x).seg = x
    BY <1>4, <2>3 DEF NewCkpt
  <2>5. InQueue(expQueue', x)
    BY <1>3 DEF IssuedSegs
  <2>6. x.hi \in Nat
    BY RedSegmentsForType DEF DataSegments
  <2>7. BeyondClaimed(s)'
    <3>1. ASSUME NEW u \in RedUnits(s), x.hi <= u
          PROVE  FALSE
      <4>1. u \in Int /\ u < x.hi
        BY <2>2 DEF RedUnits
      <4> QED
        BY <2>6, <3>1, <4>1
    <3> QED
      BY <2>4, <3>1 DEF BeyondClaimed
  <2> QED
    BY <2>4, <2>5, <2>7 DEF AnswerAwaited
<1>9. RedLen(s) = 0 => BeyondClaimed(s)'
  BY DEF BeyondClaimed, RedUnits
<1>10. \A x : (x \in GreenEnds(s))' <=> x \in GreenEnds(s)
  BY DEF GreenEnds
<1> QED
  BY <1>2, <1>5, <1>6, <1>7, <1>8, <1>9, <1>10 DEF SessionMoves

\* A segment is sent.
LEMMA SentMoves ==
    ASSUME TypeOK, CkptsOwned, CkptsSignaled, NEW s \in Sessions, SessionMoves(s),
           expState[s] = "open", expState'[s] = "open",
           expQueue # <<>>, DequeueExport(Head(expQueue))
    PROVE  SessionMoves(s)'
<1> DEFINE x == Head(expQueue)
           t == x.session
<1>0. /\ expQueue \in Seq(Segments) /\ x \in Segments /\ t \in Sessions
      /\ expQueue' = Tail(expQueue)
      /\ ckpts \in [Sessions -> SUBSET CkptEntries]
      /\ stateFlags \in [Sessions -> SUBSET {"FINAL_ACK", "EOB_SENT"}]
      /\ expState \in [Sessions -> {"idle", "open", "dead", "closed"}]
  BY HeadTailType, SegmentKinds DEF DequeueExport, TypeOK, ExpTypeOK
<1>1. ASSUME x \notin Wanted(s), ckpts'[s] = ckpts[s], claims'[s] = claims[s],
             stateFlags'[s] = stateFlags[s]
      PROVE  SessionMoves(s)'
  <2>1. Same(expQueue', expQueue, Wanted(s))
    BY <1>0, <1>1, TailOther
  <2> QED
    BY <1>1, <2>1, MovesKept
<1>2. ASSUME ~IsCkpt(x)
      PROVE  AnswerAwaited(s) /\ ckpts'[s] = ckpts[s] => AnswerAwaited(s)'
  <2>1. ASSUME NEW c \in ckpts[s], InQueue(expQueue, c.seg)
        PROVE  InQueue(expQueue', c.seg)
    <3>1. c.seg # x
      BY <1>2 DEF CkptsSignaled, CkptSignals
    <3> QED
      BY <1>0, <2>1, <3>1, TailKeeps
  <2> QED
    BY <2>1 DEF AnswerAwaited
<1>3. CASE DequeuePlain(x) \/ DequeueCS(x)
  <2>1. /\ ~IsCkpt(x) /\ x.type # "DsGreenEOB"
        /\ ckpts' = ckpts /\ claims' = claims /\ stateFlags' = stateFlags
    BY <1>3 DEF DequeuePlain, DequeueCS, expSessionVars, IsCkpt, CkptTypes
  <2> QED
    BY <1>1, <2>1, Unwanted
<1>4. CASE DequeueCheckpoint(x)
  <2> DEFINE entry == {c \in ckpts[t] : c.seg = x}
  <2>1. /\ IsCkpt(x) /\ claims' = claims /\ stateFlags' = stateFlags
        /\ ckpts' = [ckpts EXCEPT ![t] =
                        (@ \ entry) \cup {[c EXCEPT !.armed = TRUE] : c \in entry}]
    BY <1>4 DEF DequeueCheckpoint
  <2>2. CASE t # s
    BY <1>0, <1>1, <2>1, <2>2, Unwanted
  <2>3. CASE t = s
    <3> DEFINE g == [c \in entry |-> [c EXCEPT !.armed = TRUE]]
    <3>1. ckpts'[s] = (ckpts[s] \ entry) \cup {g[c] : c \in entry}
      BY <1>0, <2>1, <2>3
    <3>2. \A c \in ckpts[s] : c \in [seg : DataSegments, armed : BOOLEAN, count : 0 .. MaxTimeouts]
      BY <1>0 DEF CkptEntries
    <3>3. entry \subseteq ckpts[s] /\ \A c \in entry : g[c].seg = c.seg /\ g[c].armed
      BY <2>3, <3>2
    <3>4. \A c \in ckpts[s] : c \in entry <=> c.seg = x
      BY <2>3
    <3> HIDE DEF g, entry
    <3>5. \A c \in ckpts'[s] : \E d \in ckpts[s] : d.seg = c.seg
      BY <3>1, <3>3
    <3>6. ASSUME AnswerAwaited(s)
          PROVE  AnswerAwaited(s)'
      <4>1. PICK c \in ckpts[s] : c.armed \/ InQueue(expQueue, c.seg)
        BY <3>6 DEF AnswerAwaited
      <4>2. CASE c \in entry
        BY <3>1, <3>3, <4>2 DEF AnswerAwaited
      <4>3. CASE c \notin entry
        <5>1. c.seg # x /\ c \in ckpts'[s]
          BY <3>4, <3>1, <4>3
        <5>2. InQueue(expQueue, c.seg) => InQueue(expQueue', c.seg)
          BY <1>0, <5>1, TailKeeps
        <5> QED
          BY <4>1, <5>1, <5>2 DEF AnswerAwaited
      <4> QED
        BY <4>2, <4>3
    <3>7. Some(expQueue, GreenEnds(s)) => Some(expQueue', GreenEnds(s))
      <4>1. x \notin GreenEnds(s)
        BY <2>1 DEF GreenEnds, IsCkpt, CkptTypes
      <4>2. Same(expQueue', expQueue, GreenEnds(s))
        BY <1>0, <4>1, TailOther
      <4> QED
        BY <4>2, SameSome
    <3> QED
      BY <2>1, <3>5, <3>6, <3>7, MovesOn
  <2> QED
    BY <2>2, <2>3
<1>5. CASE DequeueGreenEOB(x)
  <2>1. CASE t # s
    <3>1. ckpts'[s] = ckpts[s] /\ claims'[s] = claims[s] /\ stateFlags'[s] = stateFlags[s]
      <4>1. CASE LeaveExportSessions(t, "closed")
        BY <1>0, <2>1, <4>1, OtherLeft
      <4>2. CASE /\ stateFlags' = [stateFlags EXCEPT ![t] = @ \cup {"EOB_SENT"}]
                 /\ ckpts' = ckpts /\ claims' = claims
        BY <1>0, <2>1, <4>2
      <4> QED
        BY <1>5, <4>1, <4>2 DEF DequeueGreenEOB
    <3> QED
      BY <1>1, <2>1, <3>1, Unwanted
  <2>2. CASE t = s
    <3>1. ~LeaveExportSessions(s, "closed")
      BY <1>0 DEF LeaveExportSessions
    <3>2. /\ x.type = "DsGreenEOB"
          /\ ~(RedLen(s) = 0 \/ "FINAL_ACK" \in stateFlags[s])
          /\ stateFlags' = [stateFlags EXCEPT ![s] = @ \cup {"EOB_SENT"}]
          /\ ckpts' = ckpts /\ claims' = claims
      BY <1>5, <2>2, <3>1 DEF DequeueGreenEOB
    <3>3. ~AckedEarly(s) /\ ~AckedEarly(s)' /\ EndSentEarly(s)' /\ RedLen(s) # 0
      BY <1>0, <3>2 DEF AckedEarly, EndSentEarly
    <3>4. AnswerAwaited(s) => AnswerAwaited(s)'
      BY <1>2, <3>2 DEF IsCkpt, CkptTypes
    <3>5. BeyondClaimed(s) => BeyondClaimed(s)'
      BY <3>2 DEF BeyondClaimed
    <3> QED
      BY <3>3, <3>4, <3>5 DEF SessionMoves
  <2> QED
    BY <2>1, <2>2
<1> QED
  BY <1>3, <1>4, <1>5 DEF DequeueExport
\* A report leaves something to be sent again, up to the last thing missing.
LEMMA SomethingResent ==
    ASSUME LtpInv, SignalsInv, ScopesReach, NEW s \in Sessions, expState[s] = "open",
           BeyondClaimed(s), NEW rs \in net \cap ReportSegments, rs.session = s,
           IsNewReport(rs), ~AllClaimed(rs)
    PROVE  \E x \in Resent(rs) :
              /\ IsCkpt(x) /\ \A y \in Resent(rs) : IsCkpt(y) => y = x
              /\ \A u \in RedUnits(s) : x.hi <= u => u \in MergedClaims(rs)
<1> DEFINE missing == Units(rs) \ MergedClaims(rs)
           n == RedLen(s)
<1>1. /\ n \in Nat /\ RedUnits(s) = 0 .. n - 1
      /\ rs.ckpt \in Nat /\ rs.rpt \in Nat /\ rs.lo \in Nat /\ rs.hi \in Nat
      /\ rs.claims \subseteq Nat /\ claims[s] \subseteq Nat /\ lastCkpt[s] \in Nat
  <2>1. claims \in [Sessions -> SUBSET Nat] /\ lastCkpt \in [Sessions -> Nat]
    BY DEF LtpInv, TypeOK, ExpTypeOK
  <2> QED
    BY <2>1, ConstantsAssumption DEF RedLen, RedUnits, ReportSegments
<1>2. /\ rs.lo = 0 /\ rs.hi <= n
      /\ \A c \in ckpts[s] : c.seg.ckpt = rs.ckpt => c.seg.hi <= rs.hi
  <2>1. rs \in Reaching(s) /\ rs.type = "RS"
    BY DEF ScopesReach, ReportSegments
  <2> QED
    BY <2>1 DEF Reaching
<1>3. PICK cited \in ckpts[s] : cited.seg.ckpt = rs.ckpt
  BY DEF IsNewReport, CitedCkpt
<1>4. cited.seg.hi \in Nat /\ cited.seg.hi <= rs.hi
  BY <1>2, <1>3 DEF LtpInv, TypeOK, ExpTypeOK, CkptEntries, DataSegments
<1>5. MergedClaims(rs) = claims[s] \cup rs.claims
  BY DEF MergedClaims
<1>6. MergedClaims(rs) \subseteq RedUnits(s)
  <2> SUFFICES ASSUME NEW u \in MergedClaims(rs), u \notin RedUnits(s)
               PROVE  FALSE
    OBVIOUS
  <2>1. u \in Nat
    BY <1>1, <1>5
  <2>2. Unclaimed(s, u)
    BY <2>1 DEF SignalsInv, ClaimsWithin
  <2>3. u \notin claims[s] /\ rs \in Silent(s, u)
    BY <2>2 DEF Unclaimed
  <2>4. u \notin rs.claims
    BY <2>3 DEF Silent, ReportSegments
  <2> QED
    BY <1>5, <2>3, <2>4
<1>7. PICK v \in RedUnits(s) : v \notin MergedClaims(rs)
  BY <1>6 DEF AllClaimed
<1>8. \A u \in RedUnits(s) : rs.hi <= u => u \in MergedClaims(rs)
  <2> SUFFICES ASSUME NEW u \in RedUnits(s), rs.hi <= u
               PROVE  u \in MergedClaims(rs)
    OBVIOUS
  <2>1. cited.seg.hi <= u
    BY <1>1, <1>4
  <2> QED
    BY <1>5, <2>1 DEF BeyondClaimed
<1>9. Units(rs) = 0 .. rs.hi - 1
  BY <1>2 DEF Units
<1>10. missing \in SUBSET RedUnits(s) /\ missing # {}
  <2>1. missing \subseteq RedUnits(s)
    BY <1>1, <1>2, <1>9
  <2>2. v \in Units(rs)
    BY <1>1, <1>7, <1>8, <1>9
  <2> QED
    BY <1>7, <2>1, <2>2
<1>11. Resent(rs) = RedSegmentsFor(s, missing, rs.rpt, lastCkpt[s] + 1)
  BY DEF Resent
<1>12. \A u \in RedUnits(s) : u \notin missing => u \in MergedClaims(rs)
  <2> SUFFICES ASSUME NEW u \in RedUnits(s), u \notin Units(rs)
               PROVE  rs.hi <= u
    BY <1>8
  <2> QED
    BY <1>1, <1>9
<1> HIDE DEF missing
<1>13. PICK x \in Resent(rs) :
          /\ IsCkpt(x) /\ \A u \in missing : u < x.hi
          /\ \A y \in Resent(rs) : IsCkpt(y) => y = x
  BY <1>1, <1>10, <1>11, LastCut
<1>14. x.hi \in Nat
  BY <1>1, <1>11, RedSegmentsForType DEF DataSegments
<1>15. \A u \in RedUnits(s) : x.hi <= u => u \in MergedClaims(rs)
  <2> SUFFICES ASSUME NEW u \in RedUnits(s), x.hi <= u
               PROVE  u \notin missing
    BY <1>12
  <2>1. u \in Int
    BY <1>1
  <2> QED
    BY <1>13, <1>14, <2>1
<1> QED
  BY <1>13, <1>15

\* The entry of the cited checkpoint stays, disarmed.
LEMMA DeactivatedSegs ==
    ASSUME TypeOK, NEW rs \in ReportSegments
    PROVE  \A c \in Deactivated(rs) : \E d \in ckpts[rs.session] : d.seg = c.seg
<1> DEFINE E == ckpts[rs.session]
           D == CitedCkpt(rs)
           g == [c \in D |-> [c EXCEPT !.armed = FALSE]]
<1>1. Deactivated(rs) = (E \ D) \cup {g[c] : c \in D}
  BY DEF Deactivated
<1>2. \A c \in E : c \in [seg : DataSegments, armed : BOOLEAN, count : 0 .. MaxTimeouts]
  BY DEF TypeOK, ExpTypeOK, CkptEntries, ReportSegments
<1>3. D \subseteq E
  BY DEF CitedCkpt
<1>4. \A c \in D : g[c].seg = c.seg
  BY <1>2, <1>3
<1> HIDE DEF g, D, E
<1> QED
  BY <1>1, <1>3, <1>4 DEF E

\* Red data are missing, and sent again.
LEMMA NegativeMoves ==
    ASSUME LtpInv, SignalsInv, ScopesReach, NEW s \in Sessions, SessionMoves(s),
           expState[s] = "open", NEW rs \in net \cap ReportSegments, rs.session = s,
           NegativeReport(rs)
    PROVE  SessionMoves(s)'
<1> DEFINE new == {x \in Resent(rs) : IsCkpt(x)}
<1>1. /\ IsNewReport(rs) /\ ~AllClaimed(rs)
      /\ ckpts' = [ckpts EXCEPT ![s] = Deactivated(rs) \cup {NewCkpt(x) : x \in new}]
      /\ claims' = [claims EXCEPT ![s] = MergedClaims(rs)]
      /\ expQueue' = EnqueueAll(AckedQueue(rs), Resent(rs))
      /\ stateFlags' = stateFlags
  BY DEF NegativeReport, Resent
<1>2. /\ TypeOK /\ ckpts \in [Sessions -> SUBSET CkptEntries]
      /\ claims \in [Sessions -> SUBSET Nat] /\ expQueue \in Seq(Segments)
      /\ rs.rpt \in Nat /\ lastCkpt[s] \in Nat
  BY DEF LtpInv, TypeOK, ExpTypeOK, ReportSegments
<1>3. /\ ckpts'[s] = Deactivated(rs) \cup {NewCkpt(x) : x \in new}
      /\ claims'[s] = MergedClaims(rs)
  BY <1>1, <1>2
<1>4. AckedQueue(rs) \in Seq(Segments)
  BY <1>2, AckedQueueType DEF TypeOK
<1>5. /\ Resent(rs) \subseteq DataSegments /\ IsFiniteSet(Resent(rs))
      /\ Resent(rs) \subseteq Segments
  BY <1>2, ResentType DEF Segments
<1>6. (AckedEarly(s)' <=> AckedEarly(s)) /\ (EndSentEarly(s)' <=> EndSentEarly(s))
  BY <1>1 DEF AckedEarly, EndSentEarly
<1>7. Some(expQueue, GreenEnds(s)) => Some(expQueue', GreenEnds(s))
  <2>1. RA(s, rs.rpt) \notin GreenEnds(s) /\ RA(s, rs.rpt) \in Segments
    BY <1>2, MadeSegments DEF GreenEnds, RA
  <2>2. Same(AckedQueue(rs), expQueue, GreenEnds(s))
    BY <1>2, <2>1, AckOther DEF AckedQueue
  <2>3. \A x \in Resent(rs) : x \notin GreenEnds(s)
    <3>1. \A x \in Resent(rs) : IsRed(x)
      <4>1. ASSUME NEW x \in Resent(rs)
            PROVE  IsRed(x)
        <5>1. PICK run, p : IsCut(x, s, Units(rs) \ MergedClaims(rs), rs.rpt,
                                  lastCkpt[s] + 1, run, p)
          BY RedSegmentIsCut DEF Resent
        <5> QED
          BY <5>1, CutShape
      <4> QED
        BY <4>1
    <3> QED
      BY <3>1 DEF GreenEnds, IsRed, GreenTypes
  <2>4. Same(expQueue', AckedQueue(rs), GreenEnds(s))
    BY <1>1, <1>4, <1>5, <2>3, AllOther
  <2> QED
    BY <2>2, <2>4, SameSome
<1>8. \A x : (x \in GreenEnds(s))' <=> x \in GreenEnds(s)
  BY DEF GreenEnds
<1>9. ASSUME ~AckedEarly(s)
      PROVE  BeyondClaimed(s)' /\ AnswerAwaited(s)'
  <2>1. BeyondClaimed(s)
    BY <1>9 DEF SessionMoves
  <2>2. PICK x \in Resent(rs) :
            /\ IsCkpt(x) /\ \A y \in Resent(rs) : IsCkpt(y) => y = x
            /\ \A u \in RedUnits(s) : x.hi <= u => u \in MergedClaims(rs)
    BY <1>1, <2>1, SomethingResent
  <2>3. new = {x}
    BY <2>2
  <2>4. ckpts'[s] = Deactivated(rs) \cup {NewCkpt(x)} /\ NewCkpt(x).seg = x
    BY <1>3, <2>3 DEF NewCkpt
  <2>5. BeyondClaimed(s)'
    <3>1. \A c \in Deactivated(rs) : \E d \in ckpts[s] : d.seg = c.seg
      BY <1>2, DeactivatedSegs
    <3>2. claims[s] \subseteq claims'[s]
      BY <1>3 DEF MergedClaims
    <3> QED
      BY <1>3, <2>1, <2>2, <2>4, <3>1, <3>2 DEF BeyondClaimed
  <2>6. InQueue(expQueue', x)
    <3>1. \A y, z \in Resent(rs) : y.lo = z.lo => y = z
      BY RedSegmentsApart DEF Resent
    <3> QED
      BY <1>1, <1>4, <1>5, <3>1, AllQueued
  <2> QED
    BY <2>4, <2>5, <2>6 DEF AnswerAwaited
<1> QED
  BY <1>6, <1>7, <1>8, <1>9 DEF SessionMoves
\* A report is handled.
LEMMA ReportedMoves ==
    ASSUME LtpInv, SignalsInv, ScopesReach, NEW s \in Sessions, SessionMoves(s),
           expState[s] = "open", expState'[s] = "open",
           NEW rs \in net \cap ReportSegments, HandleRS(rs)
    PROVE  SessionMoves(s)'
<1> DEFINE t == rs.session
<1>1. /\ TypeOK /\ CkptsOwned /\ CkptsSignaled
      /\ t \in Sessions /\ rs.rpt \in Nat /\ expQueue \in Seq(Segments)
      /\ expState \in [Sessions -> {"idle", "open", "dead", "closed"}]
      /\ ckpts \in [Sessions -> SUBSET CkptEntries]
      /\ claims \in [Sessions -> SUBSET Nat]
      /\ stateFlags \in [Sessions -> SUBSET {"FINAL_ACK", "EOB_SENT"}]
  BY DEF LtpInv, SignalsInv, TypeOK, ExpTypeOK, ReportSegments
<1>2. /\ AckedQueue(rs) \in Seq(Segments)
      /\ Same(AckedQueue(rs), expQueue, Wanted(s))
  <2>1. RA(t, rs.rpt) \notin Wanted(s) /\ RA(t, rs.rpt) \in Segments
    BY <1>1, Unwanted, MadeSegments
  <2> QED
    BY <1>1, <2>1, AckOther, AckedQueueType DEF AckedQueue, TypeOK
<1>3. ASSUME ckpts'[s] = ckpts[s], claims'[s] = claims[s], stateFlags'[s] = stateFlags[s],
             Same(expQueue', expQueue, Wanted(s))
      PROVE  SessionMoves(s)'
  BY <1>1, <1>3, MovesKept
<1>4. ASSUME UNCHANGED <<ckpts, claims, stateFlags>>,
             expQueue' \in {expQueue, AckedQueue(rs)}
      PROVE  SessionMoves(s)'
  BY <1>2, <1>3, <1>4, SameItself
<1>5. ASSUME t # s, NEW state, LeaveExportSessions(t, state),
             Same(expQueue', expQueue, Wanted(s))
      PROVE  SessionMoves(s)'
  BY <1>1, <1>3, <1>5, OtherLeft
<1>6. ASSUME NEW state \in {"dead", "closed"}, LeaveExportSessions(t, state)
      PROVE  t # s
  BY <1>1, <1>6 DEF LeaveExportSessions
<1>7. CASE LateReport(rs)
  BY <1>4, <1>7 DEF LateReport, AckedQueue, expSessionVars
<1>8. CASE StrayReport(rs)
  BY <1>4, <1>8 DEF StrayReport, expVars, expSessionVars
<1>9. CASE IgnoredReport(rs)
  BY <1>4, <1>9 DEF IgnoredReport
<1>10. CASE FinalReport(rs)
  <2>1. LeaveExportSessions(t, "closed") /\ expQueue' = StoppedQueue(AckedQueue(rs), t)
    BY <1>10 DEF FinalReport
  <2>2. t # s
    BY <1>6, <2>1
  <2>3. Same(expQueue', AckedQueue(rs), Wanted(s))
    BY <1>1, <1>2, <2>1, <2>2, OtherStopped
  <2> QED
    BY <1>2, <1>5, <2>1, <2>2, <2>3, SameTwice
<1>11. CASE NegativeReportAtLimit(rs)
  <2>1. CancelSessionBySender(t, AckedQueue(rs), expTimeline)
    BY <1>11 DEF NegativeReportAtLimit
  <2>2. LeaveExportSessions(t, "dead") /\ t # s
    BY <1>6, <2>1 DEF CancelSessionBySender
  <2> QED
    BY <1>1, <1>2, <1>5, <2>1, <2>2, OtherCanceled
<1>12. CASE FinalReportBeforeEOB(rs)
  <2>1. /\ RedLen(t) # Block[t].total /\ "EOB_SENT" \notin stateFlags[t]
        /\ ckpts' = [ckpts EXCEPT ![t] = Deactivated(rs)]
        /\ claims' = [claims EXCEPT ![t] = {}]
        /\ stateFlags' = [stateFlags EXCEPT ![t] = @ \cup {"FINAL_ACK"}]
        /\ expQueue' = AckedQueue(rs)
    BY <1>12 DEF FinalReportBeforeEOB
  <2>2. CASE t # s
    BY <1>1, <1>2, <1>3, <2>1, <2>2
  <2>3. CASE t = s
    <3>1. stateFlags'[s] = stateFlags[s] \cup {"FINAL_ACK"}
      BY <1>1, <2>1, <2>3
    <3>2. ~AllRed(s) /\ AckedEarly(s)' /\ ~EndSentEarly(s)' /\ ~EndSentEarly(s)
      BY <2>1, <2>3, <3>1 DEF AllRed, AckedEarly, EndSentEarly
    <3>3. Some(expQueue, GreenEnds(s))
      BY <3>2 DEF SessionMoves
    <3>4. Same(expQueue', expQueue, GreenEnds(s))
      <4>1. RA(t, rs.rpt) \notin GreenEnds(s) /\ RA(t, rs.rpt) \in Segments
        BY <1>1, MadeSegments DEF GreenEnds, RA
      <4> QED
        BY <1>1, <2>1, <4>1, AckOther DEF AckedQueue
    <3>5. Some(expQueue', GreenEnds(s))
      BY <3>3, <3>4, SameSome
    <3>6. \A x : (x \in GreenEnds(s))' <=> x \in GreenEnds(s)
      BY DEF GreenEnds
    <3> QED
      BY <3>2, <3>5, <3>6 DEF SessionMoves
  <2> QED
    BY <2>2, <2>3
<1>13. CASE NegativeReport(rs)
  <2>1. CASE t = s
    BY <1>13, <2>1, NegativeMoves
  <2>2. CASE t # s
    <3>1. /\ stateFlags' = stateFlags
          /\ expQueue' = EnqueueAll(AckedQueue(rs), Resent(rs))
      BY <1>13 DEF NegativeReport, Resent
    <3>2. ckpts'[s] = ckpts[s] /\ claims'[s] = claims[s]
      BY <1>1, <1>13, <2>2 DEF NegativeReport
    <3>3. /\ Resent(rs) \subseteq Segments /\ IsFiniteSet(Resent(rs))
          /\ \A x \in Resent(rs) : x \notin Wanted(s)
      <4>1. Resent(rs) \subseteq DataSegments /\ IsFiniteSet(Resent(rs))
        BY <1>1, ResentType
      <4>2. \A x \in Resent(rs) : x \notin Wanted(s)
        BY <1>1, <2>2, AddedSegments, Unwanted
      <4> QED
        BY <4>1, <4>2 DEF Segments
    <3>4. Same(expQueue', AckedQueue(rs), Wanted(s))
      BY <1>2, <3>1, <3>3, AllOther
    <3> QED
      BY <1>2, <1>3, <3>1, <3>2, <3>4, SameTwice
  <2> QED
    BY <2>1, <2>2
<1> QED
  BY <1>7, <1>8, <1>9, <1>10, <1>11, <1>12, <1>13 DEF HandleRS

\* A checkpoint's timer expires.
LEMMA ResentMoves ==
    ASSUME TypeOK, CkptsOwned, CkptsSignaled, NEW s \in Sessions, SessionMoves(s),
           expState[s] = "open", expState'[s] = "open",
           NEW t \in Sessions, NEW k \in Nat, ResendCheckpoint(t, k)
    PROVE  SessionMoves(s)'
<1> DEFINE D == {c \in ckpts[t] : c.seg.ckpt = k}
           event == ResendCheckpointEvent(t, k)
<1>1. /\ expQueue \in Seq(Segments)
      /\ expState \in [Sessions -> {"idle", "open", "dead", "closed"}]
      /\ ckpts \in [Sessions -> SUBSET CkptEntries]
  BY DEF TypeOK, ExpTypeOK
<1>2. CASE UNCHANGED <<expSessionVars, expQueue>>
  BY <1>2, MovesKept, SameItself DEF expSessionVars
<1>3. CASE CancelSessionBySender(t, expQueue, expTimeline \ {event})
  <2>1. LeaveExportSessions(t, "dead")
    BY <1>3 DEF CancelSessionBySender
  <2>2. t # s
    BY <1>1, <2>1 DEF LeaveExportSessions
  <2>3. Same(expQueue', expQueue, Wanted(s))
    BY <1>1, <1>3, <2>2, OtherCanceled, SameItself
  <2> QED
    BY <2>1, <2>2, <2>3, OtherLeft, MovesKept
<1>4. ASSUME expState[t] = "open", NEW c \in D,
             ckpts' = [ckpts EXCEPT ![t] = (@ \ D) \cup {[c EXCEPT !.count = @ + 1]}],
             expQueue' = Append(expQueue, c.seg),
             claims' = claims, stateFlags' = stateFlags
      PROVE  SessionMoves(s)'
  <2>1. c.seg.session = t
    BY DEF CkptsOwned
  <2>2. CASE t # s
    <3>1. Same(expQueue', expQueue, Wanted(s))
      BY <1>1, <1>4, <2>1, <2>2, Unwanted, AppendOther
    <3> QED
      BY <1>1, <1>4, <2>2, <3>1, MovesKept
  <2>3. CASE t = s
    <3> DEFINE e == [c EXCEPT !.count = @ + 1]
    <3>1. ckpts'[s] = (ckpts[s] \ D) \cup {e}
      BY <1>1, <1>4, <2>3
    <3>2. D = {c} /\ c \in ckpts[s]
      <4>1. \A d \in D : d.seg.ckpt = c.seg.ckpt
        OBVIOUS
      <4>2. D \subseteq ckpts[s] /\ CkptSignals(s)
        BY <2>3 DEF CkptsSignaled
      <4> HIDE DEF D
      <4> QED
        BY <4>1, <4>2, CkptEntry
    <3>3. e.seg = c.seg /\ e.armed = c.armed
      <4>1. c \in [seg : DataSegments, armed : BOOLEAN, count : 0 .. MaxTimeouts]
        BY <1>1, <3>2 DEF CkptEntries
      <4> QED
        BY <4>1
    <3> HIDE DEF D, e
    <3>4. \A d \in ckpts'[s] : \E b \in ckpts[s] : b.seg = d.seg
      BY <3>1, <3>2, <3>3
    <3>5. InQueue(expQueue', c.seg)
      BY <1>1, <1>4, HeardAppend
    <3>6. AnswerAwaited(s)'
      BY <3>1, <3>3, <3>5 DEF AnswerAwaited
    <3>7. Some(expQueue, GreenEnds(s)) => Some(expQueue', GreenEnds(s))
      <4>1. IsCkpt(c.seg)
        BY <3>2 DEF CkptsSignaled, CkptSignals
      <4>2. c.seg \notin GreenEnds(s)
        BY <4>1 DEF GreenEnds, IsCkpt, CkptTypes
      <4>3. Same(expQueue', expQueue, GreenEnds(s))
        BY <1>1, <1>4, <4>2, AppendOther
      <4> QED
        BY <4>3, SameSome
    <3> QED
      BY <1>4, <3>4, <3>6, <3>7, MovesOn
  <2> QED
    BY <2>2, <2>3
<1> QED
  BY <1>2, <1>3, <1>4 DEF ResendCheckpoint
LEMMA SessionsMoveStep ==
    ASSUME LtpInv, SignalsInv, ScopesReach, SessionsMove, [Next]_vars
    PROVE  SessionsMove'
<1>1. /\ TypeOK /\ CkptsOwned /\ CkptsSignaled /\ UnissuedQuiet
      /\ expQueue \in Seq(Segments)
      /\ expState \in [Sessions -> {"idle", "open", "dead", "closed"}]
      /\ ckpts \in [Sessions -> SUBSET CkptEntries]
      /\ claims \in [Sessions -> SUBSET Nat]
      /\ stateFlags \in [Sessions -> SUBSET {"FINAL_ACK", "EOB_SENT"}]
  BY DEF LtpInv, SignalsInv, TypeOK, ExpTypeOK
<1>2. ExpStep
  BY <1>1, StepOfHalves
<1> SUFFICES ASSUME NEW s \in Sessions, expState'[s] = "open"
             PROVE  SessionMoves(s)'
  BY DEF SessionsMove
<1>3. CASE expState[s] = "idle"
  BY <1>1, <1>2, <1>3, OpenedByIssue, IssuedMoves
<1>4. CASE expState[s] = "open"
  <2>0. SessionMoves(s)
    BY <1>4 DEF SessionsMove
  <2>1. ASSUME ckpts'[s] = ckpts[s], claims'[s] = claims[s], stateFlags'[s] = stateFlags[s],
               Same(expQueue', expQueue, Wanted(s))
        PROVE  SessionMoves(s)'
    BY <1>1, <1>4, <2>0, <2>1, MovesKept
  <2>2. ASSUME NEW t \in Sessions, IssueBlock(t)
        PROVE  SessionMoves(s)'
    <3>1. /\ t # s
          /\ expQueue' = EnqueueAll(expQueue, IssuedSegs(t))
          /\ claims' = claims /\ stateFlags' = stateFlags
      BY <1>4, <2>2 DEF IssueBlock, IssuedSegs
    <3>2. ckpts'[s] = ckpts[s]
      BY <1>1, <2>2, <3>1 DEF IssueBlock
    <3>3. /\ IssuedSegs(t) \subseteq Segments /\ IsFiniteSet(IssuedSegs(t))
          /\ \A x \in IssuedSegs(t) : x \notin Wanted(s)
      <4>1. IssuedSegs(t) \subseteq DataSegments /\ IsFiniteSet(IssuedSegs(t))
        BY IssuedSegsType
      <4>2. \A x \in IssuedSegs(t) : x \notin Wanted(s)
        BY <1>1, <3>1, AddedSegments, Unwanted
      <4> QED
        BY <4>1, <4>2 DEF Segments
    <3>4. Same(expQueue', expQueue, Wanted(s))
      BY <1>1, <3>1, <3>3, AllOther
    <3> QED
      BY <2>1, <3>1, <3>2, <3>4
  <2>3. ASSUME expQueue # <<>>, DequeueExport(Head(expQueue))
        PROVE  SessionMoves(s)'
    BY <1>1, <1>4, <2>0, <2>3, SentMoves
  <2>4. ASSUME NEW rs \in net \cap ReportSegments, HandleRS(rs)
        PROVE  SessionMoves(s)'
    BY <1>4, <2>0, <2>4, ReportedMoves
  <2>5. ASSUME NEW t \in Sessions, HandleCR(t)
        PROVE  SessionMoves(s)'
    <3>1. CASE UNCHANGED expVars
      BY <2>1, <3>1, SameItself DEF expVars, expSessionVars
    <3>2. CASE /\ LeaveExportSessions(t, "closed")
               /\ expQueue' = StoppedQueue(EnqueueAck(expQueue, Cancel("CAR", t)), t)
      <4> DEFINE q == EnqueueAck(expQueue, Cancel("CAR", t))
      <4>1. t # s
        BY <1>1, <3>2 DEF LeaveExportSessions
      <4>2. Cancel("CAR", t) \in Segments
        BY MadeSegments
      <4>3. q \in Seq(Segments) /\ Same(q, expQueue, Wanted(s))
        BY <1>1, <4>2, AckOther, EnqueueAckType, Unwanted
      <4> HIDE DEF q
      <4>4. Same(StoppedQueue(q, t), q, Wanted(s))
        BY <4>1, <4>3, OtherStopped
      <4>5. Same(expQueue', expQueue, Wanted(s))
        BY <3>2, <4>3, <4>4, SameTwice DEF q
      <4> QED
        BY <1>1, <2>1, <3>2, <4>1, <4>5, OtherLeft
    <3> QED
      BY <2>5, <3>1, <3>2 DEF HandleCR
  <2>6. ASSUME NEW t \in Sessions, NEW k \in Nat, ResendCheckpoint(t, k)
        PROVE  SessionMoves(s)'
    BY <1>1, <1>4, <2>0, <2>6, ResentMoves
  <2>7. ASSUME NEW t \in Sessions, ResendXmitCancel(t)
        PROVE  SessionMoves(s)'
    <3>1. /\ ckpts' = ckpts /\ claims' = claims /\ stateFlags' = stateFlags
          /\ expQueue' = expQueue \/ expQueue' = Append(expQueue, Cancel("CS", t))
      BY <2>7 DEF ResendXmitCancel
    <3>2. Same(expQueue', expQueue, Wanted(s))
      <4>1. Cancel("CS", t) \notin Wanted(s)
        BY Unwanted
      <4>2. Same(Append(expQueue, Cancel("CS", t)), expQueue, Wanted(s))
        BY <1>1, <4>1, AppendOther
      <4> QED
        BY <3>1, <4>2, SameItself
    <3> QED
      BY <2>1, <3>1, <3>2
  <2>8. ASSUME UNCHANGED <<expSessionVars, expQueue>>
        PROVE  SessionMoves(s)'
    BY <2>1, <2>8, SameItself DEF expSessionVars
  <2>9. ASSUME NEW t \in Sessions, HandleCAS(t) \/ ForgetExportSession(t)
        PROVE  SessionMoves(s)'
    BY <2>8, <2>9 DEF HandleCAS, ForgetExportSession
  <2>10. UNCHANGED expVars => SessionMoves(s)'
    BY <2>8 DEF expVars
  <2> QED
    BY <1>2, <2>2, <2>3, <2>4, <2>5, <2>6, <2>7, <2>9, <2>10 DEF ExpStep
<1>5. expState[s] \in {"idle", "open"}
  <2>1. LifeStep(s)
    BY <1>1, <1>2, ExportLife
  <2> QED
    BY <2>1 DEF LifeStep, Stays, Moves
<1> QED
  BY <1>3, <1>4, <1>5

LEMMA ProgressInvInit == Init => ProgressInv
<1> SUFFICES ASSUME Init PROVE ProgressInv
  OBVIOUS
<1>1. /\ net = {} /\ impQueue = <<>>
      /\ \A s \in Sessions : /\ expState[s] = "idle" /\ lastCkpt[s] = 0
                             /\ imports[s] = EmptySession
  BY DEF Init, ExpInit, ImpInit
<1>2. \A s \in Sessions : imports[s].reports = {}
  BY <1>1 DEF EmptySession
<1>3. \A T : <<>> \in Seq(T)
  OBVIOUS
<1>4. ScopesReach
  BY <1>1, <1>2, <1>3 DEF ScopesReach
<1>5. SessionsMove /\ UnissuedUnnumbered
  BY <1>1 DEF SessionsMove, UnissuedUnnumbered
<1> QED
  BY <1>4, <1>5 DEF ProgressInv

LEMMA ProgressInvStep ==
    ASSUME WholeReports
    PROVE  LtpInv /\ LtpInv' /\ SignalsInv /\ SignalsInv' /\ ProgressInv /\ [Next]_vars
               => ProgressInv'
<1> SUFFICES ASSUME LtpInv, LtpInv', SignalsInv, SignalsInv', ProgressInv, [Next]_vars
             PROVE  ProgressInv'
  OBVIOUS
<1>1. TypeOK /\ ScopesReach /\ SessionsMove /\ UnissuedUnnumbered
  BY DEF LtpInv, ProgressInv
<1>2. ScopesReach'
  BY <1>1, ScopesReachStep
<1>3. SessionsMove'
  BY <1>1, SessionsMoveStep
<1>4. UnissuedUnnumbered'
  <2>1. ExpStep
    BY <1>1, StepOfHalves
  <2> QED
    BY <1>1, <2>1, NumbersStep DEF UnissuedUnnumbered
<1> QED
  BY <1>2, <1>3, <1>4 DEF ProgressInv

\* What is awaited has a running timer, or is in the queue.
LEMMA NeverStrandedHolds ==
    ASSUME TypeOK, CkptsOwned, CkptsSignaled, SessionsMove
    PROVE  NeverStranded
<1> SUFFICES ASSUME NEW s \in Sessions, expState[s] = "open"
             PROVE  \/ \E c \in ckpts[s] :
                          \/ InQueue(expQueue, c.seg)
                          \/ c.armed
                             /\ ResendCheckpointEvent(s, c.seg.ckpt) \in expTimeline
                    \/ \E i \in 1 .. Len(expQueue) :
                          expQueue[i].session = s /\ expQueue[i].type = "DsGreenEOB"
  BY DEF NeverStranded
<1>1. SessionMoves(s) /\ CkptSignals(s)
  BY DEF SessionsMove, CkptsSignaled
<1>2. RedLen(s) \in Nat
  BY ConstantsAssumption DEF RedLen
<1>3. CASE AckedEarly(s) \/ RedLen(s) = 0
  <2>1. Some(expQueue, GreenEnds(s))
    BY <1>1, <1>3 DEF SessionMoves
  <2> QED
    BY <2>1 DEF Some, GreenEnds
<1>4. CASE ~AckedEarly(s) /\ RedLen(s) > 0
  <2>1. PICK c \in ckpts[s] : c.armed \/ InQueue(expQueue, c.seg)
    BY <1>1, <1>4 DEF SessionMoves, AnswerAwaited
  <2>2. c.seg \in CkptNumbered(s, c.seg.ckpt) /\ c.seg.ckpt \in Nat
    BY <1>1 DEF CkptNumbered, CkptSignals, CkptsOwned, TypeOK, ExpTypeOK, CkptEntries,
       DataSegments, Segments
  <2>3. ASSUME c.armed
        PROVE  \/ ResendCheckpointEvent(s, c.seg.ckpt) \in expTimeline
               \/ InQueue(expQueue, c.seg)
    <3>1. CkptSignal(s, c.seg.ckpt)
      BY <1>1, <2>2 DEF CkptSignals
    <3>2. CASE Some(expQueue, CkptNumbered(s, c.seg.ckpt))
      <4>1. PICK i \in 1 .. Len(expQueue) : expQueue[i] \in CkptNumbered(s, c.seg.ckpt)
        BY <3>2 DEF Some
      <4>2. expQueue[i] = c.seg
        BY <2>2, <3>1, <4>1 DEF CkptSignal, Signal
      <4> QED
        BY <4>1, <4>2 DEF InQueue
    <3> QED
      BY <2>2, <2>3, <3>1, <3>2 DEF CkptSignal, Signal
  <2> QED
    BY <2>1, <2>3
<1> QED
  BY <1>2, <1>3, <1>4

\* When a report can claim all that there is to claim of a block, what is on
\* the way reaches far enough, and every open session moves.
THEOREM ProgressConsistent ==
    ASSUME WholeReports
    PROVE  Spec => []ProgressInv
<1>1. LtpInv /\ LtpInv' /\ SignalsInv /\ SignalsInv' /\ ProgressInv /\ [Next]_vars
          => ProgressInv'
  BY ProgressInvStep
<1> QED
  BY <1>1, ProgressInvInit, SessionsConsistent, SignalsConsistent, PTL DEF Spec

\* An export session that is still open waits for something that will come: a
\* checkpoint in the queue or with a running timer, or the end of its green
\* part in the queue (handleRS, ltpResendCheckpoint, ltpDequeueOutboundSegment).
THEOREM OpenNeverStranded ==
    ASSUME WholeReports
    PROVE  Spec => []NeverStranded
<1>1. LtpInv /\ SignalsInv /\ ProgressInv => NeverStranded
  BY NeverStrandedHolds DEF LtpInv, SignalsInv, ProgressInv
<1> QED
  BY <1>1, SessionsConsistent, SignalsConsistent, ProgressConsistent, PTL

=============================================================================
