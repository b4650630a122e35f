--------------------------- MODULE ZcoContentProofs ---------------------------
(***************************************************************************)
(* The proofs about what zero-copy objects hold: that a ZCO is the string  *)
(* of bytes that its clients were promised (ByteStrings), whatever it      *)
(* shares with others, and that its parts are read in order.               *)
(***************************************************************************)
EXTENDS ZcoProofs

(***************************************************************************)
(* Strings of bytes.                                                       *)
(***************************************************************************)
Bytes == Objects \X Nat
ZcoPieces == [object : Objects, offset : Nat, length : Nat]

\* The bytes of a piece are there, as many as its length.
LEMMA ChunkTyped ==
    ASSUME NEW p \in ZcoPieces
    PROVE  /\ p.object \in Objects /\ p.offset \in Nat /\ p.length \in Nat
           /\ Chunk(p) \in Seq(Bytes) /\ Len(Chunk(p)) = p.length
           /\ \A j \in 1..p.length : Chunk(p)[j] = <<p.object, p.offset + j>>
<1>1. p.object \in Objects /\ p.offset \in Nat /\ p.length \in Nat
  BY DEF ZcoPieces
<1>2. \A j \in 1..p.length : <<p.object, p.offset + j>> \in Bytes
  BY <1>1 DEF Bytes
<1>3. Chunk(p) \in [1..p.length -> Bytes]
  BY <1>2 DEF Chunk
<1>4. Chunk(p) \in Seq(Bytes) /\ Len(Chunk(p)) = p.length
  <2>1. Chunk(p) \in Seq(Bytes)
    BY <1>1, <1>3, SeqDef
  <2> QED
    BY <1>1, <1>3, <2>1
<1> QED
  BY <1>1, <1>4 DEF Chunk

\* What the turns from the left leave after each of them.
LEMMA LeftTurn ==
    ASSUME NEW n \in Nat, NEW op, NEW z, NEW a, NEW q, NEW p, NEW h,
           Taken(h, op, z, a, q, p, LastChoice(n), 1..n)
    PROVE  /\ h[1..0] = p
           /\ \A i \in 1..n : h[1..i] = Turn(op, z, a, h[1..(i - 1)], q[i])
<1>1. h[1..0] = p
  <2>1. 1..0 = {} /\ {} \in SUBSET (1..n)
    OBVIOUS
  <2> QED
    BY <2>1 DEF Taken
<1>2. ASSUME NEW i \in 1..n
      PROVE  h[1..i] = Turn(op, z, a, h[1..(i - 1)], q[i])
  <2> DEFINE T == 1..i
  <2>1. T \in SUBSET (1..n) /\ T # {} /\ i \in T /\ T \ {i} = 1..(i - 1) /\ \A y \in T : y <= i
    OBVIOUS
  <2>2. T \in SUBSET (0..n)
    OBVIOUS
  <2> HIDE DEF T
  <2>3. Max(T) = i
    <3>1. Max(T) \in T /\ \A y \in T : y <= Max(T)
      BY <2>1, <2>2, GreatestElement
    <3>2. T \in SUBSET Nat
      BY <2>2
    <3> QED
      BY <2>1, <3>1, <3>2
  <2>4. h[T] = Turn(op, z, a, h[T \ {LastChoice(n)[T]}], q[LastChoice(n)[T]])
    BY <2>1 DEF Taken
  <2>5. LastChoice(n)[T] = i
    BY <2>1, <2>3 DEF LastChoice
  <2> QED
    BY <2>1, <2>4, <2>5 DEF T
<1> QED
  BY <1>1, <1>2

\* What has been read of the pieces after each of them.
ReadSoFar(g, q) ==
    /\ g[0] = <<>>
    /\ \A i \in 1..Len(q) : g[i] = g[i - 1] \o Chunk(q[i])

LEMMA ReadInTurn ==
    ASSUME NEW q \in Seq(ZcoPieces)
    PROVE  \E g : ReadSoFar(g, q) /\ BytesOf(q) = g[Len(q)]
<1> DEFINE n == Len(q)
           k == CHOOSE f : LastIteration(f, "read", 0, 0, q, <<>>)
<1>1. n \in Nat /\ DOMAIN q = 1..n
  OBVIOUS
<1>2. BytesOf(q) = k[1..n]
  BY <1>1 DEF BytesOf, FoldLeft, MapThenFoldSet, Turn, Chunk, LastIteration
<1>3. LastIteration(k, "read", 0, 0, q, <<>>)
  BY <1>1, IterationsTaken
<1> HIDE DEF k
<1>4. FromLeft(k[1..n], "read", 0, 0, q, <<>>)
  BY <1>1, <1>3, IterationsTaken
<1>5. PICK h : Taken(h, "read", 0, 0, q, <<>>, LastChoice(n), 1..n) /\ k[1..n] = h[1..n]
  BY <1>4 DEF FromLeft
<1> DEFINE g == [i \in 0..n |-> h[1..i]]
<1> HIDE DEF n
<1>6. /\ h[1..0] = <<>>
      /\ \A i \in 1..n : h[1..i] = Turn("read", 0, 0, h[1..(i - 1)], q[i])
  BY <1>1, <1>5, LeftTurn
<1>7. \A i \in 1..n : h[1..i] = h[1..(i - 1)] \o Chunk(q[i])
  BY <1>6 DEF Turn
<1>8. g[0] = h[1..0] /\ g[n] = h[1..n] /\ \A i \in 1..n : g[i] = h[1..i] /\ g[i - 1] = h[1..(i - 1)]
  BY <1>1
<1> HIDE DEF g
<1>9. ReadSoFar(g, q)
  BY <1>6, <1>7, <1>8 DEF ReadSoFar, n
<1> QED
  BY <1>2, <1>5, <1>8, <1>9 DEF n

\* Reading goes on piece by piece.
LEMMA BytesAppend ==
    /\ BytesOf(<<>>) = <<>>
    /\ \A q \in Seq(ZcoPieces), p \in ZcoPieces : BytesOf(Append(q, p)) = BytesOf(q) \o Chunk(p)
<1>1. BytesOf(<<>>) = <<>>
  <2>1. <<>> \in Seq(ZcoPieces) /\ Len(<<>>) = 0
    OBVIOUS
  <2>2. PICK g : ReadSoFar(g, <<>>) /\ BytesOf(<<>>) = g[Len(<<>>)]
    BY <2>1, ReadInTurn
  <2> QED
    BY <2>1, <2>2 DEF ReadSoFar
<1>2. ASSUME NEW q \in Seq(ZcoPieces), NEW p \in ZcoPieces
      PROVE  BytesOf(Append(q, p)) = BytesOf(q) \o Chunk(p)
  <2> DEFINE n == Len(q)
             r == Append(q, p)
  <2>1. r \in Seq(ZcoPieces) /\ Len(r) = n + 1 /\ n \in Nat /\ r[n + 1] = p
        /\ \A i \in 1..n : r[i] = q[i]
    OBVIOUS
  <2> HIDE DEF r
  <2>2. PICK g : ReadSoFar(g, q) /\ BytesOf(q) = g[n]
    BY ReadInTurn
  <2>3. PICK k : ReadSoFar(k, r) /\ BytesOf(r) = k[Len(r)]
    BY <2>1, ReadInTurn
  <2> DEFINE N == {i \in Nat : i <= n => k[i] = g[i]}
  <2>4. 0 \in N
    BY <2>2, <2>3 DEF ReadSoFar
  <2>5. ASSUME NEW i \in Nat, i \in N
        PROVE  i + 1 \in N
    <3>1. SUFFICES ASSUME i + 1 <= n
                   PROVE  k[i + 1] = g[i + 1]
      OBVIOUS
    <3>2. i + 1 \in 1..n /\ i + 1 \in 1..Len(r) /\ (i + 1) - 1 = i /\ k[i] = g[i]
      BY <2>1, <2>5, <3>1
    <3>3. g[i + 1] = g[i] \o Chunk(q[i + 1])
      BY <2>2, <3>2 DEF ReadSoFar
    <3>4. k[i + 1] = k[i] \o Chunk(r[i + 1])
      BY <2>3, <3>2 DEF ReadSoFar
    <3> QED
      BY <2>1, <3>2, <3>3, <3>4
  <2> HIDE DEF N
  <2>6. n \in N
    BY <2>1, <2>4, <2>5, NumbersInduction
  <2>7. k[n] = g[n]
    BY <2>6 DEF N
  <2>8. k[n + 1] = k[n] \o Chunk(p)
    <3>1. n + 1 \in 1..Len(r) /\ (n + 1) - 1 = n
      BY <2>1
    <3> QED
      BY <2>1, <2>3, <3>1 DEF ReadSoFar
  <2> QED
    BY <2>1, <2>2, <2>3, <2>7, <2>8 DEF r
<1> QED
  BY <1>1, <1>2

\* What holds of no pieces, and goes on to hold with one piece more, holds of
\* all of them.
LEMMA SequenceInduction ==
    ASSUME NEW S, NEW F, <<>> \in F,
           \A q \in Seq(S) : \A e \in S : q \in F => Append(q, e) \in F
    PROVE  Seq(S) \subseteq F
<1> SUFFICES ASSUME NEW q \in Seq(S)
             PROVE  q \in F
  OBVIOUS
<1> DEFINE n == Len(q)
           N == {i \in Nat : i <= n => SubSeq(q, 1, i) \in F}
<1>1. n \in Nat /\ \A i \in 1..n : q[i] \in S
  OBVIOUS
<1>2. 0 \in N
  <2>1. SubSeq(q, 1, 0) = <<>>
    OBVIOUS
  <2> QED
    BY <2>1
<1>3. ASSUME NEW i \in Nat, i \in N
      PROVE  i + 1 \in N
  <2>1. SUFFICES ASSUME i + 1 <= n
                 PROVE  SubSeq(q, 1, i + 1) \in F
    OBVIOUS
  <2>2. SubSeq(q, 1, i) \in Seq(S) /\ SubSeq(q, 1, i) \in F
    <3>1. i <= n
      BY <1>1, <2>1
    <3>2. \A j \in 1..i : q[j] \in S
      BY <1>1, <3>1
    <3> QED
      BY <1>1, <1>3, <3>1, <3>2
  <2>3. SubSeq(q, 1, i + 1) = Append(SubSeq(q, 1, i), q[i + 1])
    BY <1>1, <2>1
  <2>4. q[i + 1] \in S
    BY <1>1, <2>1
  <2> QED
    BY <2>2, <2>3, <2>4
<1> HIDE DEF N
<1>4. n \in N
  BY <1>1, <1>2, <1>3, NumbersInduction
<1> DEFINE r == SubSeq(q, 1, n)
<1>5. r = q
  BY SubSeqFull
<1>6. n <= n => r \in F
  BY <1>4 DEF N
<1> HIDE DEF r, n
<1> QED
  BY <1>1, <1>5, <1>6

\* What is read is a string of bytes.
LEMMA BytesTyped ==
    ASSUME NEW q \in Seq(ZcoPieces)
    PROVE  BytesOf(q) \in Seq(Bytes) /\ Len(BytesOf(q)) \in Nat
<1> DEFINE F == {r \in Seq(ZcoPieces) : BytesOf(r) \in Seq(Bytes)}
<1>1. <<>> \in F
  <2>1. <<>> \in Seq(ZcoPieces) /\ <<>> \in Seq(Bytes)
    OBVIOUS
  <2> QED
    BY <2>1, BytesAppend
<1>2. ASSUME NEW r \in Seq(ZcoPieces), NEW e \in ZcoPieces, r \in F
      PROVE  Append(r, e) \in F
  <2>1. Append(r, e) \in Seq(ZcoPieces) /\ BytesOf(r) \in Seq(Bytes)
    BY <1>2
  <2>2. BytesOf(Append(r, e)) = BytesOf(r) \o Chunk(e)
    BY BytesAppend
  <2>3. BytesOf(r) \o Chunk(e) \in Seq(Bytes)
    BY <2>1, ChunkTyped
  <2> QED
    BY <2>1, <2>2, <2>3
<1> HIDE DEF F
<1>3. q \in F
  BY <1>1, <1>2, SequenceInduction
<1>4. BytesOf(q) \in Seq(Bytes)
  BY <1>3 DEF F
<1> QED
  BY <1>4

\* Pieces one after the other are read one after the other.
LEMMA BytesJoined ==
    ASSUME NEW q \in Seq(ZcoPieces), NEW r \in Seq(ZcoPieces)
    PROVE  BytesOf(q \o r) = BytesOf(q) \o BytesOf(r)
<1> DEFINE F == {w \in Seq(ZcoPieces) : BytesOf(q \o w) = BytesOf(q) \o BytesOf(w)}
<1>1. <<>> \in F
  <2>1. q \o <<>> = q /\ BytesOf(q) \o <<>> = BytesOf(q)
    BY BytesTyped, ConcatEmptySeq
  <2>2. <<>> \in Seq(ZcoPieces)
    OBVIOUS
  <2> QED
    BY <2>1, <2>2, BytesAppend
<1>2. ASSUME NEW w \in Seq(ZcoPieces), NEW e \in ZcoPieces, w \in F
      PROVE  Append(w, e) \in F
  <2>1. q \o Append(w, e) = Append(q \o w, e) /\ q \o w \in Seq(ZcoPieces)
    <3>1. <<e>> \in Seq(ZcoPieces) /\ q \o w \in Seq(ZcoPieces)
      OBVIOUS
    <3>2. Append(w, e) = w \o <<e>> /\ Append(q \o w, e) = (q \o w) \o <<e>>
      BY <3>1, AppendIsConcat
    <3>3. (q \o w) \o <<e>> = q \o (w \o <<e>>)
      BY <3>1, ConcatAssociative
    <3> QED
      BY <3>1, <3>2, <3>3
  <2>2. BytesOf(Append(q \o w, e)) = BytesOf(q \o w) \o Chunk(e)
    BY <2>1, BytesAppend
  <2>3. BytesOf(q \o w) = BytesOf(q) \o BytesOf(w)
    BY <1>2
  <2>4. (BytesOf(q) \o BytesOf(w)) \o Chunk(e) = BytesOf(q) \o (BytesOf(w) \o Chunk(e))
    <3>1. BytesOf(q) \in Seq(Bytes) /\ BytesOf(w) \in Seq(Bytes) /\ Chunk(e) \in Seq(Bytes)
      BY BytesTyped, ChunkTyped
    <3>2. \A x, y, v \in Seq(Bytes) : (x \o y) \o v = x \o (y \o v)
      BY ConcatAssociative
    <3> QED
      BY <3>1, <3>2
  <2>5. BytesOf(Append(w, e)) = BytesOf(w) \o Chunk(e)
    BY BytesAppend
  <2>6. BytesOf(q \o Append(w, e)) = BytesOf(q) \o BytesOf(Append(w, e))
    BY <2>1, <2>2, <2>3, <2>4, <2>5
  <2> QED
    BY <2>6
<1> HIDE DEF F
<1>3. r \in F
  BY <1>1, <1>2, SequenceInduction
<1> QED
  BY <1>3 DEF F

\* The t of at most n places after the first o of a string s.
IsPart(t, s, o, n) ==
    /\ t \in Seq(Bytes) /\ s \in Seq(Bytes)
    /\ Len(t) = IF Len(s) <= o THEN 0 ELSE IF Len(s) - o <= n THEN Len(s) - o ELSE n
    /\ \A j \in 1..Len(t) : t[j] = s[o + j]

\* The beginning of a string that gets longer does not change.
LEMMA PartFull ==
    ASSUME NEW s, NEW t, NEW o \in Nat, NEW n \in Nat, IsPart(t, s, o, n),
           NEW c \in Seq(Bytes), Len(t) = n \/ Len(s) + Len(c) <= o
    PROVE  IsPart(t, s \o c, o, n)
<1>1. /\ t \in Seq(Bytes) /\ s \in Seq(Bytes) /\ Len(s) \in Nat /\ Len(t) \in Nat /\ Len(c) \in Nat
      /\ Len(t) = IF Len(s) <= o THEN 0 ELSE IF Len(s) - o <= n THEN Len(s) - o ELSE n
      /\ \A j \in 1..Len(t) : t[j] = s[o + j]
  BY DEF IsPart
<1> DEFINE r == s \o c
<1>2. r \in Seq(Bytes) /\ Len(r) = Len(s) + Len(c) /\ \A j \in 1..Len(s) : r[j] = s[j]
  BY <1>1
<1> HIDE DEF r
<1>3. Len(t) = IF Len(r) <= o THEN 0 ELSE IF Len(r) - o <= n THEN Len(r) - o ELSE n
  BY <1>1, <1>2
<1>4. ASSUME NEW j \in 1..Len(t)
      PROVE  t[j] = r[o + j]
  <2>1. o + j \in 1..Len(s)
    BY <1>1
  <2> QED
    BY <1>1, <1>2, <2>1
<1>5. IsPart(t, r, o, n)
  BY <1>1, <1>2, <1>3, <1>4 DEF IsPart
<1> QED
  BY <1>5 DEF r

\* The m places of d after the first k of c are all that is wanted of it,
\* once a walk that took t of s goes on in c.
IsNext(d, m, c, k, t, s, o, n) ==
    /\ o \in Nat /\ n \in Nat /\ Len(t) < n /\ k = IF Len(s) <= o THEN o - Len(s) ELSE 0
    /\ c \in Seq(Bytes) /\ k \in Nat /\ k < Len(c)
    /\ d \in Seq(Bytes) /\ m \in Nat /\ Len(d) = m
    /\ m <= Len(c) - k /\ m <= n - Len(t) /\ (m = Len(c) - k \/ m = n - Len(t))
    /\ \A j \in 1..m : d[j] = c[k + j]

\* The part that a walk takes of a string goes on in what comes after it.
LEMMA PartMore ==
    ASSUME NEW s, NEW t, NEW o, NEW n, IsPart(t, s, o, n),
           NEW c, NEW k, NEW d, NEW m, IsNext(d, m, c, k, t, s, o, n)
    PROVE  IsPart(t \o d, s \o c, o, n)
<1> DEFINE ls == Len(s)
           lt == Len(t)
           lc == Len(c)
           r == s \o c
           w == t \o d
<1>1. /\ t \in Seq(Bytes) /\ s \in Seq(Bytes) /\ \A j \in 1..lt : t[j] = s[o + j]
      /\ c \in Seq(Bytes) /\ d \in Seq(Bytes) /\ Len(d) = m /\ \A j \in 1..m : d[j] = c[k + j]
  BY DEF IsPart, IsNext
<1>a. /\ ls \in Nat /\ lt \in Nat /\ lc \in Nat /\ n \in Nat /\ o \in Nat /\ k \in Nat
      /\ m \in Nat
  BY <1>1 DEF IsPart, IsNext
<1>b. lt = IF ls <= o THEN 0 ELSE IF ls - o <= n THEN ls - o ELSE n
  BY <1>1 DEF IsPart, IsNext
<1>2. /\ r \in Seq(Bytes) /\ Len(r) = ls + lc
      /\ \A j \in 1..(ls + lc) : r[j] = IF j <= ls THEN s[j] ELSE c[j - ls]
  BY <1>1, ConcatProperties
<1>3. /\ w \in Seq(Bytes) /\ Len(w) = lt + m
      /\ \A j \in 1..(lt + m) : w[j] = IF j <= lt THEN t[j] ELSE d[j - lt]
  BY <1>1, ConcatProperties
<1>4. /\ k = IF ls <= o THEN o - ls ELSE 0
      /\ k < lc /\ lt < n /\ m <= lc - k /\ m <= n - lt /\ (m = lc - k \/ m = n - lt)
  BY DEF IsNext
<1> HIDE DEF r, w, ls, lt, lc
<1>5. o + lt = ls + k
  <2>1. CASE ls <= o
    <3>1. lt = 0 /\ k = o - ls
      BY <1>a, <1>b, <1>4, <2>1
    <3> QED
      BY <1>a, <2>1, <3>1
  <2>2. CASE ~(ls <= o)
    <3>1. k = 0
      BY <1>4, <2>2
    <3>2. lt = ls - o
      BY <1>a, <1>b, <1>4, <2>2
    <3> QED
      BY <1>a, <2>2, <3>1, <3>2
  <2> QED
    BY <2>1, <2>2
<1>6. ~(ls + lc <= o) /\ lt + m = IF (ls + lc) - o <= n THEN (ls + lc) - o ELSE n
  <2>1. (ls + lc) - o = lt + (lc - k)
    BY <1>a, <1>5
  <2> QED
    BY <1>a, <1>4, <2>1
<1>7. ASSUME NEW j \in 1..(lt + m)
      PROVE  w[j] = r[o + j]
  <2>1. CASE j <= lt
    <3>1. j \in 1..lt /\ o + j \in 1..(ls + lc) /\ o + j <= ls
      BY <1>a, <1>4, <1>5, <2>1
    <3> QED
      BY <1>a, <1>1, <1>2, <1>3, <2>1, <3>1
  <2>2. CASE j > lt
    <3> DEFINE i == j - lt
    <3>1. i \in 1..m /\ k + i \in 1..lc /\ o + j = ls + (k + i)
      <4>1. i \in 1..m
        BY <1>a, <2>2
      <4>2. o + j = ls + (k + i)
        BY <1>a, <1>5, <2>2
      <4>3. k + i \in 1..lc
        BY <1>a, <1>4, <4>1
      <4> QED
        BY <4>1, <4>2, <4>3
    <3>2. w[j] = d[i] /\ d[i] = c[k + i]
      <4>1. ~(j <= lt) /\ w[j] = IF j <= lt THEN t[j] ELSE d[j - lt]
        BY <1>a, <1>3, <2>2
      <4>2. w[j] = d[i]
        BY <4>1
      <4> HIDE DEF i
      <4> QED
        BY <1>1, <3>1, <4>2
    <3>3. o + j \in 1..(ls + lc) /\ ~(o + j <= ls) /\ (o + j) - ls = k + i
      BY <1>a, <3>1
    <3> HIDE DEF i
    <3>4. r[o + j] = c[k + i]
      BY <1>2, <3>3
    <3> QED
      BY <3>2, <3>4
  <2> QED
    BY <1>a, <2>1, <2>2
<1>8. IsPart(w, r, o, n)
  BY <1>2, <1>3, <1>6, <1>7 DEF IsPart, ls
<1> QED
  BY <1>8 DEF r, w

(***************************************************************************)
(* Walks.                                                                  *)
(***************************************************************************)
\* What a walk takes of a piece it stops at.
TakenOf(p, k, n) == [p EXCEPT !.offset = @ + k, !.length = n]

LEMMA PieceTaken ==
    ASSUME NEW p \in ZcoPieces, NEW k \in Nat, NEW n \in Nat
    PROVE  /\ TakenOf(p, k, n) \in ZcoPieces /\ TakenOf(p, k, n).object = p.object
           /\ TakenOf(p, k, n).offset = p.offset + k /\ TakenOf(p, k, n).length = n
<1> DEFINE f == p.offset + k
           e == TakenOf(p, k, n)
<1>1. p \in [object : Objects, offset : Nat, length : Nat] /\ f \in Nat /\ p.object \in Objects
  BY DEF ZcoPieces
<1>2. e = [p EXCEPT !.offset = f, !.length = n]
  BY <1>1 DEF TakenOf
<1> HIDE DEF f, e
<1>3. e = [object |-> p.object, offset |-> f, length |-> n]
  BY <1>1, <1>2
<1>4. e \in ZcoPieces /\ e.object = p.object /\ e.offset = f /\ e.length = n
  BY <1>1, <1>3 DEF ZcoPieces
<1> QED
  BY <1>4 DEF f, e

\* A walk that set out to skip o bytes and take n, after the bytes b.
Walked(w, b, o, n) ==
    /\ w \in [skip : Nat, todo : Nat, taken : Seq(ZcoPieces)]
    /\ IsPart(BytesOf(w.taken), b, o, n) /\ w.todo = n - Len(BytesOf(w.taken))
    /\ w.todo = 0 \/ w.skip = IF Len(b) <= o THEN o - Len(b) ELSE 0

\* It goes past another piece.
LEMMA PastReads ==
    ASSUME NEW w, NEW b \in Seq(Bytes), NEW o \in Nat, NEW n \in Nat, Walked(w, b, o, n),
           NEW p \in ZcoPieces
    PROVE  Walked(Past(w, p), b \o Chunk(p), o, n)
<1> DEFINE t == BytesOf(w.taken)
           c == Chunk(p)
<1>1. /\ w \in [skip : Nat, todo : Nat, taken : Seq(ZcoPieces)]
      /\ IsPart(t, b, o, n) /\ w.todo = n - Len(t)
      /\ w.todo = 0 \/ w.skip = IF Len(b) <= o THEN o - Len(b) ELSE 0
      /\ w.skip \in Nat /\ w.todo \in Nat /\ w.taken \in Seq(ZcoPieces)
  BY DEF Walked
<1>2. t \in Seq(Bytes) /\ Len(t) \in Nat
  BY <1>1, BytesTyped
<1>3. /\ p.length \in Nat /\ c \in Seq(Bytes) /\ Len(c) = p.length
      /\ \A j \in 1..p.length : c[j] = <<p.object, p.offset + j>>
      /\ p.object \in Objects /\ p.offset \in Nat
  BY ChunkTyped
<1> HIDE DEF c
<1>4. Len(b) \in Nat /\ Len(b \o c) = Len(b) + p.length
  <2>1. Len(b \o c) = Len(b) + Len(c)
    BY <1>3, ConcatProperties
  <2> QED
    BY <1>3, <2>1
<1>5. CASE w.todo = 0
  <2>1. Past(w, p) = w
    BY <1>5 DEF Past
  <2>2. IsPart(t, b \o c, o, n)
    <3> HIDE DEF t
    <3>1. Len(t) = n
      BY <1>1, <1>2, <1>5
    <3> QED
      BY <1>1, <1>3, <3>1, PartFull
  <2> QED
    BY <1>1, <1>5, <2>1, <2>2 DEF Walked, c
<1>6. CASE w.todo # 0 /\ w.skip >= p.length
  <2> DEFINE k == w.skip - p.length
             x == [w EXCEPT !.skip = k]
  <2>1. Past(w, p) = x
    BY <1>6 DEF Past
  <2>2. k \in Nat
    BY <1>1, <1>3, <1>6
  <2> HIDE DEF k
  <2>3. x \in [skip : Nat, todo : Nat, taken : Seq(ZcoPieces)] /\ x.skip = k
        /\ x.todo = w.todo /\ x.taken = w.taken
    BY <1>1, <2>2
  <2> HIDE DEF x
  <2>4. Len(b) + Len(c) <= o \/ p.length = 0
    BY <1>1, <1>3, <1>4, <1>6
  <2>5. k = IF Len(b \o c) <= o THEN o - Len(b \o c) ELSE 0
    <3>1. \A a, i, l, s \in Nat :
             s >= l /\ s = (IF a <= i THEN i - a ELSE 0)
             => s - l = IF a + l <= i THEN i - (a + l) ELSE 0
      OBVIOUS
    <3>2. w.skip >= p.length /\ w.skip = (IF Len(b) <= o THEN o - Len(b) ELSE 0)
      BY <1>1, <1>6
    <3>3. w.skip \in Nat /\ p.length \in Nat /\ Len(b) \in Nat
      BY <1>1, <1>3, <1>4
    <3>4. w.skip - p.length
          = IF Len(b) + p.length <= o THEN o - (Len(b) + p.length) ELSE 0
      BY <3>1, <3>2, <3>3
    <3> QED
      BY <1>4, <3>4 DEF k
  <2>6. IsPart(t, b \o c, o, n)
    <3> HIDE DEF t
    <3>1. CASE Len(b) + Len(c) <= o
      BY <1>1, <1>3, <3>1, PartFull
    <3>2. CASE p.length = 0
      <4>1. c = <<>> /\ b \o c = b
        <5>1. c = <<>>
          BY <1>3, <3>2, EmptySeq
        <5> QED
          BY <5>1, ConcatEmptySeq
      <4> QED
        BY <1>1, <4>1
    <3> QED
      BY <2>4, <3>1, <3>2
  <2> QED
    BY <1>1, <2>1, <2>3, <2>5, <2>6 DEF Walked, c
<1>7. CASE w.todo # 0 /\ w.skip < p.length
  <2> DEFINE g == p.length - w.skip
             m == Min({g, w.todo})
             e == [p EXCEPT !.offset = @ + w.skip, !.length = m]
             d == Chunk(e)
  <2>1. m \in Nat /\ m <= g /\ m <= w.todo /\ (m = g \/ m = w.todo)
    <3>1. g \in Nat /\ w.todo \in Nat
      BY <1>1, <1>3, <1>7
    <3> DEFINE T == {g, w.todo}
    <3>2. T \in SUBSET Nat /\ T # {}
      BY <3>1
    <3> HIDE DEF T, g
    <3>3. Min(T) \in T /\ \A y \in T : Min(T) <= y
      BY <3>2, SmallestElement DEF Min
    <3> QED
      BY <3>1, <3>3 DEF T
  <2>2. Past(w, p) = [skip |-> 0, todo |-> w.todo - m, taken |-> Append(w.taken, e)]
    BY <1>1, <1>3, <1>7 DEF Past
  <2>3. g = Len(c) - w.skip /\ w.skip < Len(c)
    BY <1>3, <1>7
  <2> HIDE DEF m, g
  <2>4. e \in ZcoPieces /\ e.object = p.object /\ e.offset = p.offset + w.skip /\ e.length = m
    <3>1. w.skip \in Nat /\ m \in Nat
      BY <1>1, <2>1
    <3>2. e = TakenOf(p, w.skip, m)
      BY DEF TakenOf
    <3> DEFINE k == w.skip
    <3>3. k \in Nat /\ k = w.skip
      BY <3>1
    <3> HIDE DEF e, k
    <3>4. /\ TakenOf(p, k, m) \in ZcoPieces /\ TakenOf(p, k, m).object = p.object
          /\ TakenOf(p, k, m).offset = p.offset + k /\ TakenOf(p, k, m).length = m
      <4>1. m \in Nat /\ k \in Nat
        BY <3>1, <3>3
      <4> HIDE DEF t, d
      <4> QED
        BY <4>1, PieceTaken
    <3> QED
      BY <3>2, <3>3, <3>4
  <2> HIDE DEF e
  <2>5. d \in Seq(Bytes) /\ Len(d) = m /\ \A j \in 1..m : d[j] = <<e.object, e.offset + j>>
    BY <2>4, ChunkTyped
  <2>6. \A j \in 1..m : d[j] = c[w.skip + j]
    <3> TAKE j \in 1..m
    <3>1. w.skip + j \in 1..p.length
      <4>1. w.skip \in Nat /\ p.length \in Nat /\ m \in Nat /\ m <= p.length - w.skip
        BY <1>1, <1>3, <2>1, <2>3
      <4> QED
        BY <4>1
    <3>2. e.offset + j = p.offset + (w.skip + j)
      BY <1>1, <1>3, <2>1, <2>4
    <3> QED
      BY <1>3, <2>4, <2>5, <3>1, <3>2
  <2> HIDE DEF d
  <2> DEFINE v == Append(w.taken, e)
  <2>7. v \in Seq(ZcoPieces) /\ BytesOf(v) = t \o d
    BY <1>1, <2>4, BytesAppend DEF d
  <2> HIDE DEF v, t
  <2>8. IsPart(t \o d, b \o c, o, n)
    <3>1. w.skip = IF Len(b) <= o THEN o - Len(b) ELSE 0
      BY <1>1, <1>7
    <3>2. Len(t) < n /\ m <= n - Len(t) /\ (m = Len(c) - w.skip \/ m = n - Len(t))
          /\ m <= Len(c) - w.skip
      BY <1>1, <1>2, <1>7, <2>1, <2>3
    <3>3. IsNext(d, m, c, w.skip, t, b, o, n)
      BY <1>1, <1>3, <2>1, <2>3, <2>5, <2>6, <3>1, <3>2 DEF IsNext
    <3> QED
      BY <1>1, <3>3, PartMore
  <2>9. w.todo - m = n - Len(t \o d) /\ w.todo - m \in Nat
    <3>1. Len(t \o d) = Len(t) + m
      BY <1>2, <2>5, ConcatProperties
    <3> QED
      BY <1>1, <1>2, <2>1, <3>1
  <2>10. w.todo - m = 0 \/ 0 = IF Len(b \o c) <= o THEN o - Len(b \o c) ELSE 0
    BY <1>1, <1>3, <1>4, <1>7
  <2> DEFINE x == [skip |-> 0, todo |-> w.todo - m, taken |-> v]
  <2>11. x \in [skip : Nat, todo : Nat, taken : Seq(ZcoPieces)] /\ x.skip = 0
         /\ x.todo = w.todo - m /\ x.taken = v
    BY <2>7, <2>9
  <2>12. Past(w, p) = x
    BY <2>2 DEF v
  <2> HIDE DEF x
  <2> QED
    BY <2>7, <2>8, <2>9, <2>10, <2>11, <2>12 DEF Walked, c
<1> QED
  BY <1>1, <1>3, <1>5, <1>6, <1>7

\* A walk over pieces takes as many bytes as it was to take, from where it was
\* to take them, or as many as there are.
LEMMA WalkReads ==
    ASSUME NEW q \in Seq(ZcoPieces), NEW o \in Nat, NEW n \in Nat
    PROVE  /\ Walk(q, o, n) \in Seq(ZcoPieces)
           /\ IsPart(BytesOf(Walk(q, o, n)), BytesOf(q), o, n)
<1> DEFINE N == Len(q)
           p == Setting(o, n)
<1>1. N \in Nat /\ DOMAIN q = 1..N
  OBVIOUS
<1>2. PICK w : FromLeft(w, "walk", 0, 0, q, p) /\ Walk(q, o, n) = w.taken
  BY <1>1, Walking
<1>3. PICK h : Taken(h, "walk", 0, 0, q, p, LastChoice(N), 1..N) /\ w = h[1..N]
  BY <1>2 DEF FromLeft
<1>4. PICK g : ReadSoFar(g, q) /\ BytesOf(q) = g[N]
  BY ReadInTurn
<1> DEFINE R == {r \in (0..N) \X [skip : Nat, todo : Nat, taken : Seq(ZcoPieces)] :
                    g[r[1]] \in Seq(Bytes) /\ Walked(r[2], g[r[1]], o, n)}
<1>5. <<0, p>> \in R
  <2>1. p \in [skip : Nat, todo : Nat, taken : Seq(ZcoPieces)] /\ p.skip = o /\ p.todo = n
        /\ p.taken = <<>>
    BY DEF Setting
  <2>2. g[0] = <<>> /\ BytesOf(<<>>) = <<>> /\ Len(<<>>) = 0 /\ <<>> \in Seq(Bytes)
    BY <1>4, BytesAppend DEF ReadSoFar
  <2>3. IsPart(<<>>, <<>>, o, n)
    BY <2>2 DEF IsPart
  <2>4. Walked(p, <<>>, o, n)
    <3> HIDE DEF p
    <3> QED
      BY <2>1, <2>2, <2>3 DEF Walked
  <2> HIDE DEF p
  <2> QED
    BY <1>1, <2>1, <2>2, <2>4
<1>6. ASSUME NEW i \in 1..N, NEW t, <<i - 1, t>> \in R
      PROVE  <<i, Turn("walk", 0, 0, t, q[i])>> \in R
  <2>1. Turn("walk", 0, 0, t, q[i]) = Past(t, q[i])
    BY DEF Turn
  <2>2. g[i - 1] \in Seq(Bytes) /\ Walked(t, g[i - 1], o, n)
    BY <1>6
  <2>3. q[i] \in ZcoPieces /\ g[i] = g[i - 1] \o Chunk(q[i])
    <3>1. q[i] \in ZcoPieces
      BY <1>1
    <3> QED
      BY <1>4, <3>1 DEF ReadSoFar, N
  <2>4. Walked(Past(t, q[i]), g[i], o, n)
    BY <2>2, <2>3, PastReads
  <2>5. g[i] \in Seq(Bytes)
    BY <2>2, <2>3, ChunkTyped
  <2>6. Past(t, q[i]) \in [skip : Nat, todo : Nat, taken : Seq(ZcoPieces)]
    BY <2>4 DEF Walked
  <2> QED
    BY <1>1, <2>1, <2>4, <2>5, <2>6
<1> HIDE DEF R, p, N
<1>7. <<N, h[1..N]>> \in R
  BY <1>1, <1>3, <1>5, <1>6, LeftTurns
<1>8. Walked(w, BytesOf(q), o, n)
  BY <1>3, <1>4, <1>7 DEF R
<1> QED
  BY <1>2, <1>8 DEF Walked

(***************************************************************************)
(* What the ZCOs of a store hold.                                          *)
(***************************************************************************)
PieceOf(s, e)  == [object |-> s.liens[e.lien].ref, offset |-> e.offset, length |-> e.length]
PiecesIn(s, q) == [i \in DOMAIN q |-> PieceOf(s, q[i])]
BodyIn(s, q)   == BytesOf(PiecesIn(s, q))

CapsuleOf(o)   == [object |-> o, offset |-> 0, length |-> Length[o]]
CapsulesIn(q)  == [i \in DOMAIN q |-> CapsuleOf(q[i])]
AttachedIn(q)  == BytesOf(CapsulesIn(q))

\* The extents that a store has bytes for.
ExtentsIn(s) == {e \in ZcoExtents : s.liens[e.lien] # NoLien /\ s.liens[e.lien].ref \in Objects}

\* The piece of an extent and the capsule of a header.
LEMMA PiecesTyped ==
    /\ \A s : \A e \in ExtentsIn(s) :
          /\ PieceOf(s, e) \in ZcoPieces /\ PieceOf(s, e).object = s.liens[e.lien].ref
          /\ PieceOf(s, e).offset = e.offset /\ PieceOf(s, e).length = e.length
          /\ e \in ZcoExtents /\ e.offset \in Nat /\ e.length \in Nat
    /\ \A o \in Objects : CapsuleOf(o) \in ZcoPieces /\ CapsuleOf(o).length = Length[o]
<1>1. ASSUME NEW s, NEW e \in ExtentsIn(s)
      PROVE  /\ PieceOf(s, e) \in ZcoPieces /\ PieceOf(s, e).object = s.liens[e.lien].ref
             /\ PieceOf(s, e).offset = e.offset /\ PieceOf(s, e).length = e.length
             /\ e \in ZcoExtents /\ e.offset \in Nat /\ e.length \in Nat
  <2>1. e \in ZcoExtents /\ e.offset \in Nat /\ e.length \in Nat /\ s.liens[e.lien].ref \in Objects
    BY DEF ExtentsIn, ZcoExtents
  <2> QED
    BY <2>1 DEF PieceOf, ZcoPieces
<1>2. ASSUME NEW o \in Objects
      PROVE  CapsuleOf(o) \in ZcoPieces /\ CapsuleOf(o).length = Length[o]
  BY Sizes DEF CapsuleOf, ZcoPieces
<1> QED
  BY <1>1, <1>2

\* The pieces of extents, one after the other.
LEMMA PiecesAppend ==
    ASSUME NEW s
    PROVE  /\ PiecesIn(s, <<>>) = <<>>
           /\ \A q \in Seq(ExtentsIn(s)), e \in ExtentsIn(s) :
                 PiecesIn(s, Append(q, e)) = Append(PiecesIn(s, q), PieceOf(s, e))
           /\ \A q \in Seq(ExtentsIn(s)) :
                 PiecesIn(s, q) \in Seq(ZcoPieces) /\ Len(PiecesIn(s, q)) = Len(q)
<1>1. PiecesIn(s, <<>>) = <<>>
  BY DEF PiecesIn
<1>2. ASSUME NEW q \in Seq(ExtentsIn(s))
      PROVE  PiecesIn(s, q) \in Seq(ZcoPieces) /\ Len(PiecesIn(s, q)) = Len(q)
  <2>1. Len(q) \in Nat /\ DOMAIN q = 1..Len(q) /\ \A i \in 1..Len(q) : q[i] \in ExtentsIn(s)
    OBVIOUS
  <2>2. \A i \in 1..Len(q) : PieceOf(s, q[i]) \in ZcoPieces
    BY <2>1, PiecesTyped
  <2>3. PiecesIn(s, q) \in [1..Len(q) -> ZcoPieces]
    BY <2>1, <2>2 DEF PiecesIn
  <2>4. PiecesIn(s, q) \in Seq(ZcoPieces)
    BY <2>1, <2>3, SeqDef
  <2> QED
    BY <2>1, <2>3, <2>4
<1>3. ASSUME NEW q \in Seq(ExtentsIn(s)), NEW e \in ExtentsIn(s)
      PROVE  PiecesIn(s, Append(q, e)) = Append(PiecesIn(s, q), PieceOf(s, e))
  <2> DEFINE n == Len(q)
             r == Append(q, e)
             p == PiecesIn(s, q)
             w == PiecesIn(s, r)
             v == Append(p, PieceOf(s, e))
  <2>1. r \in Seq(ExtentsIn(s)) /\ n \in Nat /\ Len(r) = n + 1 /\ r[n + 1] = e
        /\ DOMAIN q = 1..n /\ DOMAIN r = 1..(n + 1) /\ \A i \in 1..n : r[i] = q[i]
    OBVIOUS
  <2> HIDE DEF r
  <2>2. p \in Seq(ZcoPieces) /\ Len(p) = n /\ w \in Seq(ZcoPieces) /\ Len(w) = n + 1
    BY <1>2, <2>1
  <2>3. (\A i \in 1..n : p[i] = PieceOf(s, q[i])) /\ \A i \in 1..(n + 1) : w[i] = PieceOf(s, r[i])
    BY <2>1 DEF PiecesIn
  <2>4. PieceOf(s, e) \in ZcoPieces
    BY PiecesTyped
  <2> DEFINE d == PieceOf(s, e)
  <2> HIDE DEF p, w, d, n
  <2>5. v \in Seq(ZcoPieces) /\ Len(v) = n + 1 /\ v[n + 1] = d /\ \A i \in 1..n : v[i] = p[i]
    BY <2>1, <2>2, <2>4 DEF d
  <2>6. \A i \in 1..(n + 1) : w[i] = v[i]
    <3> TAKE i \in 1..(n + 1)
    <3>1. CASE i \in 1..n
      BY <2>1, <2>3, <2>5, <3>1
    <3>2. CASE i = n + 1
      BY <2>1, <2>3, <2>5, <3>2 DEF d
    <3>3. n \in Nat
      BY <2>1
    <3> HIDE DEF v
    <3> QED
      BY <3>1, <3>2, <3>3
  <2> HIDE DEF v
  <2>7. w = v
    BY <2>1, <2>2, <2>5, <2>6
  <2> QED
    BY <2>7 DEF w, v, p, r, d
<1> QED
  BY <1>1, <1>2, <1>3

\* So are the capsules of headers.
LEMMA CapsulesAppend ==
    /\ CapsulesIn(<<>>) = <<>>
    /\ \A q \in Seq(Objects), r \in Seq(Objects) : CapsulesIn(q \o r) = CapsulesIn(q) \o CapsulesIn(r)
    /\ \A q \in Seq(Objects) : CapsulesIn(q) \in Seq(ZcoPieces) /\ Len(CapsulesIn(q)) = Len(q)
<1>1. CapsulesIn(<<>>) = <<>>
  BY DEF CapsulesIn
<1>2. ASSUME NEW q \in Seq(Objects)
      PROVE  CapsulesIn(q) \in Seq(ZcoPieces) /\ Len(CapsulesIn(q)) = Len(q)
             /\ \A i \in 1..Len(q) : CapsulesIn(q)[i] = CapsuleOf(q[i])
  <2>1. Len(q) \in Nat /\ DOMAIN q = 1..Len(q) /\ \A i \in 1..Len(q) : q[i] \in Objects
    OBVIOUS
  <2>2. \A i \in 1..Len(q) : CapsuleOf(q[i]) \in ZcoPieces
    BY <2>1, PiecesTyped
  <2>3. CapsulesIn(q) \in [1..Len(q) -> ZcoPieces]
    BY <2>1, <2>2 DEF CapsulesIn
  <2>4. CapsulesIn(q) \in Seq(ZcoPieces)
    BY <2>1, <2>3, SeqDef
  <2>5. \A i \in 1..Len(q) : CapsulesIn(q)[i] = CapsuleOf(q[i])
    BY <2>1 DEF CapsulesIn
  <2> QED
    BY <2>1, <2>3, <2>4, <2>5
<1>3. ASSUME NEW q \in Seq(Objects), NEW r \in Seq(Objects)
      PROVE  CapsulesIn(q \o r) = CapsulesIn(q) \o CapsulesIn(r)
  <2> DEFINE w == q \o r
             a == CapsulesIn(q)
             b == CapsulesIn(r)
             c == CapsulesIn(w)
             d == a \o b
             m == Len(q)
             n == Len(r)
  <2>1. w \in Seq(Objects) /\ Len(w) = m + n /\ m \in Nat /\ n \in Nat
        /\ \A i \in 1..(m + n) : w[i] = IF i <= m THEN q[i] ELSE r[i - m]
    BY ConcatProperties
  <2> HIDE DEF w, m, n
  <2>2. /\ a \in Seq(ZcoPieces) /\ Len(a) = m /\ \A i \in 1..m : a[i] = CapsuleOf(q[i])
        /\ b \in Seq(ZcoPieces) /\ Len(b) = n /\ \A i \in 1..n : b[i] = CapsuleOf(r[i])
        /\ c \in Seq(ZcoPieces) /\ Len(c) = m + n /\ \A i \in 1..(m + n) : c[i] = CapsuleOf(w[i])
    BY <1>2, <2>1 DEF m, n
  <2> HIDE DEF a, b, c
  <2>3. d \in Seq(ZcoPieces) /\ Len(d) = m + n
        /\ \A i \in 1..(m + n) : d[i] = IF i <= m THEN a[i] ELSE b[i - m]
    BY <2>1, <2>2, ConcatProperties
  <2> HIDE DEF d
  <2>4. ASSUME NEW i \in 1..(m + n)
        PROVE  c[i] = d[i]
    <3>1. CASE i <= m
      <4>1. i \in 1..m /\ w[i] = q[i] /\ d[i] = a[i]
        BY <2>1, <2>3, <3>1
      <4> QED
        BY <2>2, <4>1
    <3>2. CASE ~(i <= m)
      <4>1. i - m \in 1..n /\ w[i] = r[i - m] /\ d[i] = b[i - m]
        BY <2>1, <2>3, <3>2
      <4> QED
        BY <2>2, <4>1
    <3> QED
      BY <3>1, <3>2
  <2>5. c = d
    BY <2>1, <2>2, <2>3, <2>4
  <2> QED
    BY <2>5 DEF c, d, w, a, b
<1> QED
  BY <1>1, <1>2, <1>3

\* A walk over extents, seen as a walk over their pieces.
WalkSeen(s, w) == [skip |-> w.skip, todo |-> w.todo, taken |-> PiecesIn(s, w.taken)]
WalksIn(s) == [skip : Nat, todo : Nat, taken : Seq(ExtentsIn(s))]

\* Going past an extent and going past its piece are the same.
LEMMA PastSeen ==
    ASSUME NEW s, NEW w \in WalksIn(s), NEW e \in ExtentsIn(s)
    PROVE  /\ Past(w, e) \in WalksIn(s)
           /\ WalkSeen(s, Past(w, e)) = Past(WalkSeen(s, w), PieceOf(s, e))
<1> DEFINE v == WalkSeen(s, w)
           p == PieceOf(s, e)
<1>1. /\ w \in [skip : Nat, todo : Nat, taken : Seq(ExtentsIn(s))]
      /\ w.skip \in Nat /\ w.todo \in Nat /\ w.taken \in Seq(ExtentsIn(s))
  BY DEF WalksIn
<1>2. /\ e \in ZcoExtents /\ e.offset \in Nat /\ e.length \in Nat /\ p.offset = e.offset
      /\ p.length = e.length /\ p.object = s.liens[e.lien].ref /\ p \in ZcoPieces
      /\ e.lien \in LienIds /\ p.object \in Objects
  <2>1. p \in ZcoPieces /\ e \in ZcoExtents
    BY PiecesTyped
  <2>2. e.lien \in LienIds /\ p.object \in Objects
    BY <2>1 DEF ZcoExtents, ZcoPieces
  <2> QED
    BY <2>2, PiecesTyped
<1>3. v.skip = w.skip /\ v.todo = w.todo /\ v.taken = PiecesIn(s, w.taken)
      /\ v = [skip |-> w.skip, todo |-> w.todo, taken |-> PiecesIn(s, w.taken)]
  BY DEF WalkSeen
<1> HIDE DEF v, p
<1>4. CASE w.todo = 0
  <2>1. Past(w, e) = w /\ Past(v, p) = v
    BY <1>3, <1>4 DEF Past
  <2> QED
    BY <2>1 DEF v, p
<1>5. CASE w.todo # 0 /\ w.skip >= e.length
  <2> DEFINE k == w.skip - e.length
             x == [w EXCEPT !.skip = k]
             y == [v EXCEPT !.skip = k]
  <2>1. k \in Nat
    BY <1>1, <1>2, <1>5
  <2>2. Past(w, e) = x
    BY <1>5 DEF Past
  <2>3. Past(v, p) = y
    BY <1>2, <1>3, <1>5 DEF Past
  <2> HIDE DEF k
  <2>4. x \in [skip : Nat, todo : Nat, taken : Seq(ExtentsIn(s))] /\ x.skip = k
        /\ x.todo = w.todo /\ x.taken = w.taken
    BY <1>1, <2>1
  <2>5. y = [skip |-> k, todo |-> w.todo, taken |-> PiecesIn(s, w.taken)]
    BY <1>3
  <2> HIDE DEF x, y
  <2>6. WalkSeen(s, x) = y
    BY <2>4, <2>5 DEF WalkSeen
  <2> QED
    BY <2>2, <2>3, <2>4, <2>6 DEF WalksIn, v, p
<1>6. CASE w.todo # 0 /\ w.skip < e.length
  <2> DEFINE g == e.length - w.skip
             m == Min({g, w.todo})
             f == e.offset + w.skip
             c == [e EXCEPT !.offset = f, !.length = m]
             d == [p EXCEPT !.offset = f, !.length = m]
  <2>1. m \in Nat /\ m <= w.todo
    <3>1. g \in Nat /\ w.todo \in Nat
      BY <1>1, <1>2, <1>6
    <3> DEFINE T == {g, w.todo}
    <3>2. T \in SUBSET Nat /\ T # {}
      BY <3>1
    <3> HIDE DEF T, g
    <3>3. Min(T) \in T /\ \A y \in T : Min(T) <= y
      BY <3>2, SmallestElement DEF Min
    <3> QED
      BY <3>1, <3>3 DEF T
  <2>2. f \in Nat
    BY <1>1, <1>2
  <2>3. Past(w, e) = [skip |-> 0, todo |-> w.todo - m, taken |-> Append(w.taken, c)]
    <3>1. ~(w.todo = 0) /\ ~(w.skip >= e.length)
      BY <1>1, <1>2, <1>6
    <3>2. [e EXCEPT !.offset = @ + w.skip, !.length = m] = c
      BY <1>2
    <3> QED
      BY <3>1, <3>2 DEF Past
  <2>4. Past(v, p) = [skip |-> 0, todo |-> w.todo - m, taken |-> Append(v.taken, d)]
    <3>1. ~(v.todo = 0) /\ ~(v.skip >= p.length) /\ p.length - v.skip = g /\ v.todo = w.todo
      BY <1>1, <1>2, <1>3, <1>6
    <3>2. [p EXCEPT !.offset = @ + v.skip, !.length = m] = d
      BY <1>2, <1>3
    <3> HIDE DEF d, g
    <3> QED
      BY <3>1, <3>2 DEF Past
  <2> HIDE DEF m, f
  <2>5. c \in ZcoExtents /\ c.lien = e.lien /\ c.offset = f /\ c.length = m
    <3>1. e \in [lien : LienIds, offset : Nat, length : Nat]
      BY <1>2 DEF ZcoExtents
    <3>2. c \in [lien : LienIds, offset : Nat, length : Nat] /\ c.lien = e.lien /\ c.offset = f
          /\ c.length = m
      BY <2>1, <2>2, <3>1
    <3> QED
      BY <3>2 DEF ZcoExtents
  <2>6. d = [object |-> p.object, offset |-> f, length |-> m]
    <3>1. p \in [object : Objects, offset : Nat, length : Nat]
      BY <1>2 DEF ZcoPieces
    <3>2. d = [p EXCEPT !.offset = f, !.length = m]
      OBVIOUS
    <3> HIDE DEF d
    <3> QED
      BY <3>1, <3>2
  <2> HIDE DEF c, d
  <2>7. c \in ExtentsIn(s) /\ PieceOf(s, c) = d
    <3>1. c \in ExtentsIn(s)
      BY <1>2, <2>5 DEF ExtentsIn
    <3> QED
      BY <1>2, <2>5, <2>6, <3>1 DEF PieceOf
  <2> DEFINE r == Append(w.taken, c)
             x == [skip |-> 0, todo |-> w.todo - m, taken |-> r]
  <2>8. r \in Seq(ExtentsIn(s)) /\ PiecesIn(s, r) = Append(v.taken, d)
    BY <1>1, <1>3, <2>7, PiecesAppend
  <2>9. Past(w, e) = x
    BY <2>3
  <2> HIDE DEF r
  <2>10. w.todo - m \in Nat
    BY <1>1, <2>1
  <2>11. x \in [skip : Nat, todo : Nat, taken : Seq(ExtentsIn(s))]
    BY <2>8, <2>10
  <2>12. WalkSeen(s, x) = [skip |-> 0, todo |-> w.todo - m, taken |-> PiecesIn(s, r)]
    BY DEF WalkSeen
  <2> HIDE DEF x
  <2> QED
    BY <2>4, <2>8, <2>9, <2>11, <2>12 DEF WalksIn, v, p
<1> QED
  BY <1>1, <1>2, <1>4, <1>5, <1>6

\* A walk over extents takes the pieces that a walk over their pieces takes.
LEMMA WalkSeenThrough ==
    ASSUME NEW s, NEW q \in Seq(ExtentsIn(s)), NEW o \in Nat, NEW n \in Nat
    PROVE  /\ Walk(q, o, n) \in Seq(ExtentsIn(s))
           /\ PiecesIn(s, Walk(q, o, n)) = Walk(PiecesIn(s, q), o, n)
<1> DEFINE N == Len(q)
           p == Setting(o, n)
           r == PiecesIn(s, q)
<1>1. N \in Nat /\ DOMAIN q = 1..N /\ r \in Seq(ZcoPieces) /\ Len(r) = N
  BY PiecesAppend
<1>a. DOMAIN r = 1..Len(r) /\ Len(r) \in Nat
  BY <1>1
<1>2. PICK w : FromLeft(w, "walk", 0, 0, q, p) /\ Walk(q, o, n) = w.taken
  BY <1>1, Walking
<1>3. PICK h : Taken(h, "walk", 0, 0, q, p, LastChoice(N), 1..N) /\ w = h[1..N]
  BY <1>2 DEF FromLeft
<1> HIDE DEF r, N
<1>4. PICK v : FromLeft(v, "walk", 0, 0, r, p) /\ Walk(r, o, n) = v.taken
  BY <1>a, Walking
<1>5. PICK k : Taken(k, "walk", 0, 0, r, p, LastChoice(N), 1..N) /\ v = k[1..N]
  BY <1>1, <1>4 DEF FromLeft
<1>6. k[1..0] = p /\ \A i \in 1..N : k[1..i] = Turn("walk", 0, 0, k[1..(i - 1)], r[i])
  BY <1>1, <1>5, LeftTurn
<1> DEFINE R == {x \in (0..N) \X WalksIn(s) : k[1..x[1]] = WalkSeen(s, x[2])}
<1>7. <<0, p>> \in R
  <2>1. p \in WalksIn(s) /\ WalkSeen(s, p) = p
    <3>1. PiecesIn(s, <<>>) = <<>>
      BY PiecesAppend
    <3> QED
      BY <3>1 DEF Setting, WalksIn, WalkSeen
  <2> HIDE DEF p
  <2> QED
    BY <1>1, <1>6, <2>1
<1>8. ASSUME NEW i \in 1..N, NEW t, <<i - 1, t>> \in R
      PROVE  <<i, Turn("walk", 0, 0, t, q[i])>> \in R
  <2>1. Turn("walk", 0, 0, t, q[i]) = Past(t, q[i])
    BY DEF Turn
  <2>2. t \in WalksIn(s) /\ k[1..(i - 1)] = WalkSeen(s, t)
    BY <1>8
  <2>3. q[i] \in ExtentsIn(s) /\ r[i] = PieceOf(s, q[i])
    BY <1>1 DEF r, PiecesIn, N
  <2>4. k[1..i] = Past(WalkSeen(s, t), PieceOf(s, q[i]))
    BY <1>6, <2>2, <2>3 DEF Turn
  <2>5. Past(t, q[i]) \in WalksIn(s) /\ k[1..i] = WalkSeen(s, Past(t, q[i]))
    BY <2>2, <2>3, <2>4, PastSeen
  <2> QED
    BY <1>1, <2>1, <2>5
<1> HIDE DEF R, p
<1>9. <<N, h[1..N]>> \in R
  BY <1>1, <1>3, <1>7, <1>8, LeftTurns
<1>10. w \in WalksIn(s) /\ v = WalkSeen(s, w)
  BY <1>3, <1>5, <1>9 DEF R
<1>11. w.taken \in Seq(ExtentsIn(s)) /\ v.taken = PiecesIn(s, w.taken)
  BY <1>10 DEF WalksIn, WalkSeen
<1> QED
  BY <1>2, <1>4, <1>11 DEF r

\* What is in both of two stores cites the same in both.
Agree(u, s) ==
    \A l \in LienIds : s.liens[l] # NoLien /\ u.liens[l] # NoLien => u.liens[l].ref = s.liens[l].ref

\* Extents under liens of two stores that agree have the same bytes in both.
LEMMA PiecesAgree ==
    ASSUME NEW s, NEW u, Agree(u, s), NEW q \in Seq(ExtentsIn(s)), q \in Seq(ExtentsIn(u))
    PROVE  PiecesIn(u, q) = PiecesIn(s, q) /\ BodyIn(u, q) = BodyIn(s, q)
<1>1. \A i \in DOMAIN q : q[i] \in ExtentsIn(s) /\ q[i] \in ExtentsIn(u)
  OBVIOUS
<1>2. \A i \in DOMAIN q : PieceOf(u, q[i]) = PieceOf(s, q[i])
  <2> TAKE i \in DOMAIN q
  <2>1. q[i].lien \in LienIds /\ s.liens[q[i].lien] # NoLien /\ u.liens[q[i].lien] # NoLien
    BY <1>1 DEF ExtentsIn, ZcoExtents
  <2>2. u.liens[q[i].lien].ref = s.liens[q[i].lien].ref
    BY <2>1 DEF Agree
  <2> QED
    BY <2>2 DEF PieceOf
<1>3. PiecesIn(u, q) = PiecesIn(s, q)
  BY <1>2 DEF PiecesIn
<1> QED
  BY <1>3 DEF BodyIn

\* A store that keeps the liens of another has bytes for its extents.
LEMMA KeepsAgree ==
    ASSUME NEW s, NEW u, Keeps(u, s)
    PROVE  Agree(u, s) /\ ExtentsIn(s) \subseteq ExtentsIn(u)
<1>1. Agree(u, s)
  BY DEF Keeps, Agree
<1>2. ASSUME NEW e \in ExtentsIn(s)
      PROVE  e \in ExtentsIn(u)
  <2>1. e \in ZcoExtents /\ e.lien \in LienIds /\ s.liens[e.lien] # NoLien
        /\ s.liens[e.lien].ref \in Objects
    BY DEF ExtentsIn, ZcoExtents
  <2> QED
    BY <2>1 DEF ExtentsIn, Keeps
<1> QED
  BY <1>1, <1>2

\* Sequences over a set are sequences over a larger one.
LEMMA SequencesOver ==
    ASSUME NEW S, NEW T, S \subseteq T, NEW q \in Seq(S)
    PROVE  q \in Seq(T)
<1>1. Len(q) \in Nat /\ q \in [1..Len(q) -> S]
  OBVIOUS
<1>2. q \in [1..Len(q) -> T]
  BY <1>1
<1> QED
  BY <1>1, <1>2, SeqDef

\* The extents of the ZCOs of a sound store have bytes there.
LEMMA ExtentsHeld ==
    ASSUME NEW s, NEW v, NEW L, NEW O, SoundWith(s, v, L, O), NEW z \in ZcoIds, v[z] # NoZco
    PROVE  v[z].extents \in Seq(ExtentsIn(s))
<1> DEFINE q == v[z].extents
<1>1. q \in Seq(ZcoExtents)
  <2>1. v[z] \in Zcos
    BY DEF SoundWith, ZcoTables
  <2> QED
    BY <2>1, ZcoTyped
<1>2. ASSUME NEW i \in DOMAIN q
      PROVE  q[i] \in ExtentsIn(s)
  <2>1. Backed(s, q[i], v[z].acct)
    BY ExtentsBacked
  <2> QED
    BY <2>1 DEF Backed, ExtentsIn
<1> HIDE DEF q
<1>3. Len(q) \in Nat /\ q \in [1..Len(q) -> ZcoExtents] /\ DOMAIN q = 1..Len(q)
  BY <1>1
<1>4. q \in [1..Len(q) -> ExtentsIn(s)]
  BY <1>2, <1>3
<1>5. q \in Seq(ExtentsIn(s))
  BY <1>3, <1>4, SeqDef
<1> QED
  BY <1>5 DEF q

\* The bodies of extents one after the other.
LEMMA BodiesJoin ==
    ASSUME NEW s
    PROVE  /\ BodyIn(s, <<>>) = <<>>
           /\ \A q \in Seq(ExtentsIn(s)) : BodyIn(s, q) \in Seq(Bytes) /\ Len(BodyIn(s, q)) \in Nat
           /\ \A e \in ExtentsIn(s) : BodyIn(s, <<e>>) = Chunk(PieceOf(s, e))
           /\ \A q \in Seq(ExtentsIn(s)), e \in ExtentsIn(s) :
                 BodyIn(s, Append(q, e)) = BodyIn(s, q) \o Chunk(PieceOf(s, e))
           /\ \A q, r \in Seq(ExtentsIn(s)) : BodyIn(s, q \o r) = BodyIn(s, q) \o BodyIn(s, r)
<1>1. BodyIn(s, <<>>) = <<>>
  BY PiecesAppend, BytesAppend DEF BodyIn
<1>2. ASSUME NEW q \in Seq(ExtentsIn(s))
      PROVE  BodyIn(s, q) \in Seq(Bytes) /\ Len(BodyIn(s, q)) \in Nat
  BY PiecesAppend, BytesTyped DEF BodyIn
<1>3. ASSUME NEW q \in Seq(ExtentsIn(s)), NEW e \in ExtentsIn(s)
      PROVE  BodyIn(s, Append(q, e)) = BodyIn(s, q) \o Chunk(PieceOf(s, e))
  <2>1. PiecesIn(s, Append(q, e)) = Append(PiecesIn(s, q), PieceOf(s, e))
        /\ PiecesIn(s, q) \in Seq(ZcoPieces)
    BY PiecesAppend
  <2>2. PieceOf(s, e) \in ZcoPieces
    BY PiecesTyped
  <2> QED
    BY <2>1, <2>2, BytesAppend DEF BodyIn
<1>4. ASSUME NEW e \in ExtentsIn(s)
      PROVE  BodyIn(s, <<e>>) = Chunk(PieceOf(s, e))
  <2>1. Append(<<>>, e) = <<e>> /\ <<>> \in Seq(ExtentsIn(s))
    OBVIOUS
  <2>2. Chunk(PieceOf(s, e)) \in Seq(Bytes)
    BY PiecesTyped, ChunkTyped
  <2>3. <<>> \o Chunk(PieceOf(s, e)) = Chunk(PieceOf(s, e))
    BY <2>2, ConcatEmptySeq
  <2> QED
    BY <1>1, <1>3, <2>1, <2>3
<1>5. ASSUME NEW q \in Seq(ExtentsIn(s)), NEW r \in Seq(ExtentsIn(s))
      PROVE  BodyIn(s, q \o r) = BodyIn(s, q) \o BodyIn(s, r)
  <2> DEFINE F == {w \in Seq(ExtentsIn(s)) : BodyIn(s, q \o w) = BodyIn(s, q) \o BodyIn(s, w)}
  <2>1. <<>> \in F
    <3>1. q \o <<>> = q /\ BodyIn(s, q) \o <<>> = BodyIn(s, q)
      BY <1>2, ConcatEmptySeq
    <3>2. <<>> \in Seq(ExtentsIn(s))
      OBVIOUS
    <3> QED
      BY <1>1, <3>1, <3>2
  <2>2. ASSUME NEW w \in Seq(ExtentsIn(s)), NEW e \in ExtentsIn(s), w \in F
        PROVE  Append(w, e) \in F
    <3> DEFINE c == Chunk(PieceOf(s, e))
    <3>1. q \o Append(w, e) = Append(q \o w, e) /\ q \o w \in Seq(ExtentsIn(s))
      <4>1. <<e>> \in Seq(ExtentsIn(s)) /\ q \o w \in Seq(ExtentsIn(s))
        OBVIOUS
      <4>2. Append(w, e) = w \o <<e>> /\ Append(q \o w, e) = (q \o w) \o <<e>>
        BY <4>1, AppendIsConcat
      <4>3. (q \o w) \o <<e>> = q \o (w \o <<e>>)
        BY <4>1, ConcatAssociative
      <4> QED
        BY <4>1, <4>2, <4>3
    <3>2. BodyIn(s, Append(q \o w, e)) = BodyIn(s, q \o w) \o c
      BY <1>3, <3>1
    <3>3. BodyIn(s, q \o w) = BodyIn(s, q) \o BodyIn(s, w)
      BY <2>2
    <3>4. (BodyIn(s, q) \o BodyIn(s, w)) \o c = BodyIn(s, q) \o (BodyIn(s, w) \o c)
      <4>1. BodyIn(s, q) \in Seq(Bytes) /\ BodyIn(s, w) \in Seq(Bytes) /\ c \in Seq(Bytes)
        BY <1>2, PiecesTyped, ChunkTyped
      <4>2. \A x, y, v \in Seq(Bytes) : (x \o y) \o v = x \o (y \o v)
        BY ConcatAssociative
      <4> QED
        BY <4>1, <4>2
    <3>5. BodyIn(s, Append(w, e)) = BodyIn(s, w) \o c
      BY <1>3
    <3>6. BodyIn(s, q \o Append(w, e)) = BodyIn(s, q) \o BodyIn(s, Append(w, e))
      BY <3>1, <3>2, <3>3, <3>4, <3>5
    <3> QED
      BY <3>6
  <2> HIDE DEF F
  <2>3. r \in F
    BY <2>1, <2>2, SequenceInduction
  <2> QED
    BY <2>3 DEF F
<1> QED
  BY <1>1, <1>2, <1>3, <1>4, <1>5

\* What headers hold, and how much of it there is.
LEMMA AttachedJoin ==
    /\ AttachedIn(<<>>) = <<>>
    /\ \A q \in Seq(Objects) : AttachedIn(q) \in Seq(Bytes) /\ Len(AttachedIn(q)) \in Nat
    /\ \A o \in Objects : AttachedIn(<<o>>) = Chunk(CapsuleOf(o))
                          /\ Chunk(CapsuleOf(o)) \in Seq(Bytes)
                          /\ Len(Chunk(CapsuleOf(o))) = Length[o]
    /\ \A q, r \in Seq(Objects) : AttachedIn(q \o r) = AttachedIn(q) \o AttachedIn(r)
<1>1. AttachedIn(<<>>) = <<>>
  BY CapsulesAppend, BytesAppend DEF AttachedIn
<1>2. ASSUME NEW q \in Seq(Objects)
      PROVE  AttachedIn(q) \in Seq(Bytes) /\ Len(AttachedIn(q)) \in Nat
  BY CapsulesAppend, BytesTyped DEF AttachedIn
<1>3. ASSUME NEW o \in Objects
      PROVE  AttachedIn(<<o>>) = Chunk(CapsuleOf(o)) /\ Chunk(CapsuleOf(o)) \in Seq(Bytes)
             /\ Len(Chunk(CapsuleOf(o))) = Length[o]
  <2>1. CapsuleOf(o) \in ZcoPieces /\ CapsuleOf(o).length = Length[o]
    BY PiecesTyped
  <2>2. Chunk(CapsuleOf(o)) \in Seq(Bytes) /\ Len(Chunk(CapsuleOf(o))) = Length[o]
    BY <2>1, ChunkTyped
  <2> DEFINE c == CapsuleOf(o)
  <2>3. CapsulesIn(<<o>>) = <<c>>
    BY DEF CapsulesIn
  <2> HIDE DEF c
  <2>4. <<c>> = Append(<<>>, c) /\ <<>> \in Seq(ZcoPieces)
    OBVIOUS
  <2>5. BytesOf(<<c>>) = <<>> \o Chunk(c)
    BY <2>1, <2>4, BytesAppend DEF c
  <2>6. <<>> \o Chunk(c) = Chunk(c)
    BY <2>2, ConcatEmptySeq DEF c
  <2> QED
    BY <2>2, <2>3, <2>5, <2>6 DEF AttachedIn, c
<1>4. ASSUME NEW q \in Seq(Objects), NEW r \in Seq(Objects)
      PROVE  AttachedIn(q \o r) = AttachedIn(q) \o AttachedIn(r)
  BY CapsulesAppend, BytesJoined DEF AttachedIn
<1> QED
  BY <1>1, <1>2, <1>3, <1>4

\* The lengths that are kept of a ZCO are those of what it holds.
Whole(s, x) ==
    /\ x.capsuleLength = Len(AttachedIn(x.headers))
    /\ x.totalLength = x.capsuleLength + Len(BodyIn(s, x.extents))
    /\ x.headersLength + x.sourceLength + x.trailersLength = Len(BodyIn(s, x.extents))

LengthsTrue(s) == \A z \in ZcoIds : s.zcos[z] # NoZco => Whole(s, s.zcos[z])

(***************************************************************************)
(* Reading in two turns.                                                   *)
(***************************************************************************)
\* Two parts of a string, the second from where the first one ends.
LEMMA PartsMeet ==
    ASSUME NEW s, NEW f \in Nat, NEW i \in Nat, NEW a, NEW b, f <= Len(s), i <= Len(s),
           IsPart(a, s, f, i), IsPart(b, s, f + Min({i, Len(s) - f}), Len(s))
    PROVE  a \o b = SubSeq(s, f + 1, Len(s))
<1> DEFINE n == Len(s)
           m == Min({i, n - f})
           w == a \o b
           r == SubSeq(s, f + 1, n)
<1>1. s \in Seq(Bytes) /\ a \in Seq(Bytes) /\ b \in Seq(Bytes) /\ n \in Nat /\ Len(a) \in Nat
      /\ Len(b) \in Nat /\ f <= n /\ i <= n
  BY DEF IsPart
<1>2. m \in Nat /\ m = IF i <= n - f THEN i ELSE n - f
  <2>1. n - f \in Nat
    BY <1>1
  <2> DEFINE g == n - f
             T == {i, g}
  <2>2. T \in SUBSET Nat /\ T # {}
    BY <2>1
  <2> HIDE DEF T, g
  <2>3. Min(T) \in T /\ \A y \in T : Min(T) <= y
    BY <2>2, SmallestElement DEF Min
  <2>4. Min(T) = IF i <= g THEN i ELSE g
    BY <2>1, <2>3 DEF T, g
  <2> QED
    BY <2>1, <2>4 DEF T, g
<1>3. Len(a) = IF n <= f THEN 0 ELSE IF n - f <= i THEN n - f ELSE i
  BY DEF IsPart
<1>4. Len(b) = IF n <= f + m THEN 0 ELSE IF n - (f + m) <= n THEN n - (f + m) ELSE n
  BY DEF IsPart
<1>5. (\A j \in 1..Len(a) : a[j] = s[f + j]) /\ \A j \in 1..Len(b) : b[j] = s[(f + m) + j]
  BY DEF IsPart
<1> HIDE DEF m, n
<1>6. Len(a) = m
  BY <1>1, <1>2, <1>3
<1>7. Len(b) = (n - f) - m
  BY <1>1, <1>2, <1>4
<1>8. w \in Seq(Bytes) /\ Len(w) = n - f
      /\ \A j \in 1..(n - f) : w[j] = IF j <= m THEN a[j] ELSE b[j - m]
  <2>1. w \in Seq(Bytes) /\ Len(w) = Len(a) + Len(b)
        /\ \A j \in 1..(Len(a) + Len(b)) : w[j] = IF j <= Len(a) THEN a[j] ELSE b[j - Len(a)]
    BY <1>1, ConcatProperties
  <2>2. Len(a) + Len(b) = n - f
    BY <1>1, <1>2, <1>6, <1>7
  <2> HIDE DEF w
  <2> QED
    BY <1>6, <2>1, <2>2
<1> HIDE DEF w
<1>9. r \in Seq(Bytes) /\ Len(r) = n - f /\ \A j \in 1..(n - f) : r[j] = s[f + j]
  <2>1. \A j \in (f + 1)..n : s[j] \in Bytes
    BY <1>1 DEF n
  <2>2. Len(r) = n - f /\ \A j \in 1..(n - f) : r[j] = s[f + j]
    BY <1>1
  <2>3. r \in Seq(Bytes)
    BY <1>1, <2>1
  <2> QED
    BY <2>2, <2>3
<1> HIDE DEF r
<1>10. ASSUME NEW j \in 1..(n - f)
       PROVE  w[j] = r[j]
  <2>1. CASE j <= m
    <3>1. j \in 1..Len(a) /\ w[j] = a[j]
      BY <1>1, <1>2, <1>6, <1>8, <2>1
    <3> QED
      BY <1>5, <1>9, <3>1
  <2>2. CASE ~(j <= m)
    <3>1. j - m \in 1..Len(b) /\ (f + m) + (j - m) = f + j
      BY <1>1, <1>2, <1>7, <2>2
    <3>2. w[j] = b[j - m]
      BY <1>8, <2>2
    <3>3. b[j - m] = s[f + j]
      BY <1>5, <3>1
    <3> QED
      BY <1>9, <3>2, <3>3
  <2> QED
    BY <2>1, <2>2
<1>11. w = r
  <2>1. n - f \in Nat
    BY <1>1
  <2> QED
    BY <1>8, <1>9, <1>10, <2>1
<1> QED
  BY <1>11 DEF w, r, n

\* What the properties say of the pieces and of the capsules of a ZCO.
LEMMA ContentsOf ==
    ASSUME ZcoInv, NEW z \in ZcoIds, zcos[z] # NoZco
    PROVE  /\ Pieces(z) = PiecesIn(Store, zcos[z].extents)
           /\ Capsules(z) = CapsulesIn(zcos[z].headers)
           /\ Pieces(z) \in Seq(ZcoPieces) /\ Capsules(z) \in Seq(ZcoPieces)
           /\ zcos[z] \in Zcos /\ Store.zcos = zcos
           /\ zcos[z].extents \in Seq(ExtentsIn(Store)) /\ zcos[z].headers \in Seq(Objects)
<1>1. Store.zcos = zcos /\ Store.liens = liens /\ zcos[z] \in Zcos /\ Sound(Store)
  BY InvUnfolds
<1>2. zcos[z].extents \in Seq(ExtentsIn(Store))
  BY <1>1, ExtentsHeld DEF Sound
<1>3. zcos[z].headers \in Seq(Objects)
  BY <1>1, ZcoTyped
<1>4. Pieces(z) = PiecesIn(Store, zcos[z].extents)
  BY <1>1 DEF Pieces, PiecesIn, PieceOf
<1>5. Capsules(z) = CapsulesIn(zcos[z].headers)
  BY DEF Capsules, CapsulesIn, CapsuleOf
<1> QED
  BY <1>1, <1>2, <1>3, <1>4, <1>5, PiecesAppend, CapsulesAppend

\* With true lengths every part is read in order.
LEMMA OrderKept ==
    ASSUME ZcoInv, LengthsTrue(Store)
    PROVE  ReadsInOrder
<1> SUFFICES ASSUME NEW z \in Live, NEW kind \in Kinds,
                    NEW i \in 0..Len(BytesOf(Exposed(z, kind)))
             PROVE  LET all == BytesOf(Exposed(z, kind))
                        from == Skipped(z, kind)
                    IN Receive(z, kind, 0, i)
                         \o Receive(z, kind, Min({i, Len(all) - from}), Len(all))
                         = SubSeq(all, from + 1, Len(all))
  BY DEF ReadsInOrder
<1> DEFINE q == Exposed(z, kind)
           s == BytesOf(q)
           f == Skipped(z, kind)
           m == Min({i, Len(s) - f})
<1>1. z \in ZcoIds /\ zcos[z] # NoZco
  BY DEF Live
<1>2. q \in Seq(ZcoPieces)
  <2>1. Pieces(z) \in Seq(ZcoPieces) /\ Capsules(z) \o Pieces(z) \in Seq(ZcoPieces)
    BY <1>1, ContentsOf
  <2> QED
    BY <2>1 DEF Exposed
<1>3. f \in Nat /\ f <= Len(s)
  <2>1. CASE kind \in {"transmit", "headers"}
    <3>1. f = 0
      BY <2>1 DEF Skipped
    <3>2. Len(s) \in Nat
      BY <1>2, BytesTyped
    <3> QED
      BY <3>1, <3>2
  <2>2. CASE kind \in {"source", "trailers"}
    <3> DEFINE x == zcos[z]
               b == Len(BodyIn(Store, x.extents))
    <3>1. x \in Zcos /\ Whole(Store, x) /\ x.extents \in Seq(ExtentsIn(Store))
          /\ Pieces(z) = PiecesIn(Store, x.extents)
      <4>1. Store.zcos = zcos
        BY <1>1, ContentsOf
      <4> QED
        BY <1>1, <4>1, ContentsOf DEF LengthsTrue
    <3>2. x.headersLength \in Nat /\ x.sourceLength \in Nat /\ x.trailersLength \in Nat
      BY <3>1 DEF Zcos
    <3>3. Len(s) = b
      <4>1. q = Pieces(z)
        BY <2>2 DEF Exposed
      <4> QED
        BY <3>1, <4>1 DEF BodyIn
    <3>4. x.headersLength + x.sourceLength + x.trailersLength = b /\ b \in Nat
      BY <3>1, BodiesJoin DEF Whole
    <3>5. f = x.headersLength \/ f = x.headersLength + x.sourceLength
      BY <2>2 DEF Skipped
    <3> HIDE DEF x, b, f, s
    <3> QED
      BY <3>2, <3>3, <3>4, <3>5
  <2> QED
    BY <2>1, <2>2 DEF Kinds
<1>4. Len(s) \in Nat /\ i \in Nat /\ i <= Len(s)
  BY <1>2, BytesTyped
<1> HIDE DEF q, f
<1>5. m \in Nat
  <2> DEFINE g == Len(s) - f
             T == {i, g}
  <2>1. T \in SUBSET Nat /\ T # {}
    BY <1>3, <1>4
  <2> HIDE DEF T, g
  <2>2. Min(T) \in T
    BY <2>1, SmallestElement DEF Min
  <2>3. Min(T) \in Nat
    BY <2>1, <2>2
  <2> QED
    BY <2>3 DEF T, g
<1>6. Receive(z, kind, 0, i) = BytesOf(Walk(q, f, i))
  <2>1. f + 0 = f
    BY <1>3
  <2> QED
    BY <2>1 DEF Receive, q, f
<1>7. Receive(z, kind, m, Len(s)) = BytesOf(Walk(q, f + m, Len(s)))
  BY DEF Receive, q, f
<1>8. IsPart(BytesOf(Walk(q, f, i)), s, f, i)
  BY <1>2, <1>3, <1>4, WalkReads
<1>9. IsPart(BytesOf(Walk(q, f + m, Len(s))), s, f + m, Len(s))
  <2>1. f + m \in Nat
    BY <1>3, <1>5
  <2> HIDE DEF m, s
  <2> QED
    BY <1>2, <1>4, <2>1, WalkReads DEF s
<1>10. BytesOf(Walk(q, f, i)) \o BytesOf(Walk(q, f + m, Len(s))) = SubSeq(s, f + 1, Len(s))
  <2> DEFINE a == BytesOf(Walk(q, f, i))
             b == BytesOf(Walk(q, f + m, Len(s)))
  <2>1. IsPart(a, s, f, i) /\ IsPart(b, s, f + Min({i, Len(s) - f}), Len(s))
    BY <1>8, <1>9
  <2> HIDE DEF a, b, s
  <2>2. a \o b = SubSeq(s, f + 1, Len(s))
    BY <1>3, <1>4, <2>1, PartsMeet
  <2> QED
    BY <2>2 DEF a, b
<1> QED
  BY <1>6, <1>7, <1>10 DEF q, f

(***************************************************************************)
(* What the steps of the operations do to what ZCOs hold.                  *)
(***************************************************************************)
\* A ZCO y with the extents q more, n bytes of them.
Grew(x, y, q, n) ==
    /\ x.extents = y.extents \o q /\ x.headers = y.headers
    /\ x.capsuleLength = y.capsuleLength /\ x.headersLength = y.headersLength
    /\ x.trailersLength = y.trailersLength
    /\ x.sourceLength = y.sourceLength + n /\ x.totalLength = y.totalLength + n

\* The ZCO at z got the extents q, and nothing else changed for the ZCOs.
Continued(u, s, z, q) ==
    /\ Keeps(u, s) /\ q \in Seq(ExtentsIn(u))
    /\ u.zcos[z] \in Zcos /\ Grew(u.zcos[z], s.zcos[z], q, Len(BodyIn(u, q)))
    /\ \A k \in ZcoIds \ {z} : u.zcos[k] = s.zcos[k]

\* One extent more.
LEMMA GrewAgain ==
    ASSUME NEW y \in Zcos, NEW x \in Zcos, NEW q \in Seq(ZcoExtents), NEW n \in Nat, Grew(x, y, q, n),
           NEW e \in ZcoExtents
    PROVE  Grew(Longer(x, e), y, Append(q, e), n + e.length)
<1> DEFINE w == Longer(x, e)
           r == y.extents \o q
           p == Append(q, e)
<1>1. /\ w.extents = Append(x.extents, e) /\ w.headers = x.headers
      /\ w.capsuleLength = x.capsuleLength /\ w.headersLength = x.headersLength
      /\ w.trailersLength = x.trailersLength
      /\ w.sourceLength = x.sourceLength + e.length /\ w.totalLength = x.totalLength + e.length
  BY LongerTyped
<1> HIDE DEF w
<1>2. y.extents \in Seq(ZcoExtents) /\ e.length \in Nat /\ y.sourceLength \in Nat
      /\ y.totalLength \in Nat
  BY DEF Zcos, ZcoExtents
<1>3. Append(r, e) = y.extents \o p
  <2>1. <<e>> \in Seq(ZcoExtents) /\ r \in Seq(ZcoExtents)
    BY <1>2
  <2>2. p = q \o <<e>> /\ Append(r, e) = r \o <<e>>
    BY <2>1, AppendIsConcat
  <2>3. \A b, c, d \in Seq(ZcoExtents) : (b \o c) \o d = b \o (c \o d)
    BY ConcatAssociative
  <2>4. (y.extents \o q) \o <<e>> = y.extents \o (q \o <<e>>)
    BY <1>2, <2>1, <2>3
  <2> QED
    BY <2>2, <2>4
<1>4. w.extents = y.extents \o p
  BY <1>1, <1>3 DEF Grew
<1> HIDE DEF p
<1>5. /\ x.sourceLength = y.sourceLength + n /\ x.totalLength = y.totalLength + n
      /\ x.headers = y.headers
      /\ x.capsuleLength = y.capsuleLength /\ x.headersLength = y.headersLength
      /\ x.trailersLength = y.trailersLength
  BY DEF Grew
<1>6. w.sourceLength = y.sourceLength + (n + e.length)
      /\ w.totalLength = y.totalLength + (n + e.length)
  BY <1>1, <1>2, <1>5
<1>7. Grew(w, y, p, n + e.length)
  BY <1>1, <1>4, <1>5, <1>6 DEF Grew
<1> QED
  BY <1>7 DEF w, p

\* Nothing has been added yet.
LEMMA ContinuedStart ==
    ASSUME NEW s, NEW z \in ZcoIds, s.zcos[z] \in Zcos
    PROVE  Continued(s, s, z, <<>>)
<1> DEFINE x == s.zcos[z]
<1>1. x.extents \in Seq(ZcoExtents) /\ x.sourceLength \in Nat /\ x.totalLength \in Nat
  BY DEF Zcos
<1>2. x.extents \o <<>> = x.extents
  BY <1>1, ConcatEmptySeq
<1>3. BodyIn(s, <<>>) = <<>> /\ Len(<<>>) = 0 /\ <<>> \in Seq(ExtentsIn(s))
  BY BodiesJoin
<1>4. x.sourceLength + 0 = x.sourceLength /\ x.totalLength + 0 = x.totalLength
  BY <1>1
<1>5. Grew(x, x, <<>>, 0)
  BY <1>2, <1>4 DEF Grew
<1>6. Keeps(s, s)
  BY DEF Keeps
<1> QED
  BY <1>3, <1>5, <1>6 DEF Continued

\* Another extent is cited and added.
LEMMA ContinuedAgain ==
    ASSUME NEW s, NEW z \in ZcoIds, s.zcos[z] \in Zcos, NEW t, NEW q, Continued(t, s, z, q),
           t.zcos \in ZcoTables, NEW e \in ExtentsIn(t), NEW L, NEW O, NEW u, Added(u, t, z, e, L, O)
    PROVE  Continued(u, s, z, Append(q, e))
<1> DEFINE y == s.zcos[z]
           x == t.zcos[z]
           w == u.zcos[z]
<1>1. Keeps(t, s) /\ q \in Seq(ExtentsIn(t)) /\ x \in Zcos /\ Grew(x, y, q, Len(BodyIn(t, q)))
      /\ \A k \in ZcoIds \ {z} : t.zcos[k] = s.zcos[k]
  BY DEF Continued
<1>2. w = Longer(x, e) /\ \A k \in ZcoIds \ {z} : u.zcos[k] = t.zcos[k]
  BY <1>1 DEF Added, ZcoTables
<1>3. Keeps(u, t)
  BY DEF Added, Keeps
<1>4. Keeps(u, s)
  BY <1>1, <1>3 DEF Keeps
<1>5. e \in ZcoExtents /\ e \in ExtentsIn(u) /\ ExtentsIn(t) \subseteq ExtentsIn(u) /\ Agree(u, t)
  BY <1>3, KeepsAgree, PiecesTyped
<1>6. q \in Seq(ExtentsIn(u)) /\ q \in Seq(ZcoExtents)
  <2>1. ExtentsIn(t) \subseteq ZcoExtents
    BY DEF ExtentsIn
  <2> QED
    BY <1>1, <1>5, <2>1, SequencesOver
<1>7. BodyIn(u, q) = BodyIn(t, q) /\ Len(BodyIn(t, q)) \in Nat /\ BodyIn(u, q) \in Seq(Bytes)
  BY <1>1, <1>5, <1>6, PiecesAgree, BodiesJoin
<1> DEFINE p == Append(q, e)
<1>8. p \in Seq(ExtentsIn(u))
  BY <1>5, <1>6
<1>9. Len(BodyIn(u, p)) = Len(BodyIn(t, q)) + e.length
  <2> DEFINE c == Chunk(PieceOf(u, e))
             b == BodyIn(u, q)
  <2>1. BodyIn(u, p) = b \o c
    BY <1>5, <1>6, BodiesJoin
  <2>2. c \in Seq(Bytes) /\ Len(c) = e.length
    <3>1. PieceOf(u, e) \in ZcoPieces /\ PieceOf(u, e).length = e.length
      BY <1>5, PiecesTyped
    <3> QED
      BY <3>1, ChunkTyped
  <2> HIDE DEF c, b
  <2>3. Len(b \o c) = Len(b) + Len(c)
    BY <1>7, <2>2, ConcatProperties DEF b
  <2> QED
    BY <1>7, <2>1, <2>2, <2>3 DEF b
<1> DEFINE n == Len(BodyIn(t, q))
<1>10. Grew(Longer(x, e), y, p, n + e.length)
  <2>1. x \in Zcos /\ y \in Zcos /\ n \in Nat /\ Grew(x, y, q, n)
    BY <1>1, <1>7
  <2> HIDE DEF x, y, n
  <2> QED
    BY <1>5, <1>6, <2>1, GrewAgain
<1>11. w \in Zcos
  BY <1>1, <1>2, <1>5, LongerTyped
<1>12. Grew(w, y, p, Len(BodyIn(u, p)))
  BY <1>2, <1>9, <1>10
<1>13. \A k \in ZcoIds \ {z} : u.zcos[k] = s.zcos[k]
  BY <1>1, <1>2
<1> HIDE DEF p
<1>14. Continued(u, s, z, p)
  BY <1>4, <1>8, <1>11, <1>12, <1>13 DEF Continued
<1> QED
  BY <1>14 DEF p

\* All the pieces of a walk, added one after another.
LEMMA AllAddedReads ==
    ASSUME NEW s, Sound(s), NEW z \in ZcoIds, s.zcos[z] # NoZco,
           NEW q \in Seq(ZcoExtents), \A i \in DOMAIN q : Standing(s, q[i])
    PROVE  Sound(AllAdded(s, z, q)) /\ Continued(AllAdded(s, z, q), s, z, q)
<1> DEFINE n == Len(q)
           P(i, t) == Sound(t) /\ Continued(t, s, z, SubSeq(q, 1, i))
           R == {r \in (0..n) \X Stores : P(r[1], r[2])}
<1>1. n \in Nat /\ DOMAIN q = 1..n
  OBVIOUS
<1>2. PICK h : /\ Taken(h, "extend", z, 0, q, s, LastChoice(n), 1..n)
               /\ AllAdded(s, z, q) = h[1..n]
  BY <1>1, Adding DEF FromLeft
<1>3. s \in Stores /\ s.zcos[z] \in Zcos
  BY DEF Sound, SoundWith, ZcoTables
<1>4. <<0, s>> \in R
  <2>1. SubSeq(q, 1, 0) = <<>>
    OBVIOUS
  <2>2. Continued(s, s, z, <<>>)
    BY <1>3, ContinuedStart
  <2>3. P(0, s)
    BY <2>1, <2>2
  <2> HIDE DEF P
  <2>4. <<0, s>> \in (0..n) \X Stores
    BY <1>1, <1>3
  <2> QED
    BY <2>3, <2>4
<1>5. ASSUME NEW i \in 1..n, NEW t, <<i - 1, t>> \in R
      PROVE  <<i, Turn("extend", z, 0, t, q[i])>> \in R
  <2> DEFINE e == q[i]
             u == AddExtent(CiteLien(t, e.lien, t.zcos[z].acct), z, e)
             p == SubSeq(q, 1, i - 1)
  <2>1. t \in Stores /\ Sound(t) /\ Continued(t, s, z, p)
    BY <1>5
  <2>2. e \in ZcoExtents /\ Standing(s, e)
    BY <1>1
  <2>3. Turn("extend", z, 0, t, e) = u
    BY DEF Turn
  <2>4. SubSeq(q, 1, i) = Append(p, e)
    <3>1. i \in 1..Len(q) /\ q \in Seq(ZcoExtents)
      BY <1>1
    <3>2. SubSeq(q, 1, i) \in Seq(ZcoExtents) /\ p \in Seq(ZcoExtents)
      <4>1. \A j \in 1..n : q[j] \in ZcoExtents
        BY <1>1
      <4>2. \A j \in 1..i : q[j] \in ZcoExtents
        BY <1>1, <4>1
      <4>3. \A j \in 1..(i - 1) : q[j] \in ZcoExtents
        BY <1>1, <4>1
      <4> QED
        BY <1>1, <4>2, <4>3
    <3>3. SubSeq(q, 1, i) = Append(SubSeq(q, 1, i - 1), q[i])
      BY <1>1, <3>2
    <3> QED
      BY <3>3
  <2> HIDE DEF e, R, p
  <2>5. Standing(t, e)
    <3>1. Keeps(t, s)
      BY <2>1 DEF Continued
    <3> QED
      BY <1>3, <2>2, <3>1, KeepsStanding
  <2>6. SoundWith(t, t.zcos, {}, {}) /\ t.zcos[z] # NoZco /\ t.zcos \in ZcoTables
    <3>1. t.zcos[z] \in Zcos
      BY <2>1 DEF Continued
    <3>2. t.zcos[z] # NoZco
      BY <3>1, EntriesReal
    <3> QED
      BY <2>1, <3>2 DEF Sound, SoundWith
  <2>7. Added(u, t, z, e, {}, {})
    <3> HIDE DEF u
    <3>2. Added(AddExtent(CiteLien(t, e.lien, t.zcos[z].acct), z, e), t, z, e, {}, {})
      BY <2>2, <2>5, <2>6, ExtentAdded DEF Standing
    <3> QED
      BY <3>2 DEF u
  <2> HIDE DEF u
  <2>8. Sound(u) /\ u \in Stores
    <3>1. {} \ {e.lien} = {} /\ {} \ {t.liens[e.lien].ref} = {}
      OBVIOUS
    <3> QED
      BY <2>7, <3>1 DEF Added, Sound, SoundWith
  <2>9. e \in ExtentsIn(t)
    <3>1. e.lien \in LienIds
      BY <2>2 DEF ZcoExtents
    <3>2. t.liens[e.lien] # NoLien /\ t.liens[e.lien].ref \in Objects
      BY <2>1, <2>5, <3>1, CountsTyped DEF Standing
    <3> QED
      BY <2>2, <3>2 DEF ExtentsIn
  <2>10. Continued(u, s, z, Append(p, e))
    BY <1>3, <2>1, <2>6, <2>7, <2>9, ContinuedAgain
  <2>11. <<i, u>> \in R
    <3>1. <<i, u>> \in (0..n) \X Stores
      BY <1>1, <2>8
    <3> QED
      BY <2>4, <2>8, <2>10, <3>1 DEF R
  <2> QED
    BY <2>3, <2>11 DEF e
<1> HIDE DEF R
<1>6. <<n, h[1..n]>> \in R
  <2> HIDE DEF n
  <2> QED
    BY <1>1, <1>2, <1>4, <1>5, LeftTurns
<1>7. SubSeq(q, 1, n) = q
  BY SubSeqFull
<1>8. Sound(h[1..n]) /\ Continued(h[1..n], s, z, q)
  BY <1>6, <1>7 DEF R
<1> QED
  BY <1>2, <1>8

\* The bytes that lie together in an object.
TextIn(o, offset, length) == [j \in 1..length |-> <<o, offset + j>>]

\* A new lien and an extent under it.
LEMMA ExtendByRefReads ==
    ASSUME NEW s, NEW o \in Objects, NEW O \in SUBSET {o}, SoundWith(s, s.zcos, {}, O),
           NEW z \in ZcoIds, s.zcos[z] # NoZco, s.refs[o] # NoRef, FreeIn(s) # {},
           NEW offset \in Nat, NEW length \in Nat, offset + length <= Length[o]
    PROVE  \E q : /\ Continued(ExtendByRef(s, z, o, offset, length), s, z, q)
                  /\ BodyIn(ExtendByRef(s, z, o, offset, length), q) = TextIn(o, offset, length)
<1> DEFINE T == FreeIn(s)
           l == Min(T)
           a == s.zcos[z].acct
           t == WithLien(s, l, NewLien(o, length))
           e == ExtentOf(l, offset, length)
           u == AddExtent(CiteLien(t, l, a), z, e)
<1>1. ExtendByRef(s, z, o, offset, length) = u
  BY DEF ExtendByRef, FreeIn, WithLien, NewLien
<1>2. l \in LienIds /\ s.liens[l] = NoLien
  <2>1. T \in SUBSET LienIds /\ LienIds \in SUBSET Nat
    BY ZcoAssumption DEF FreeIn
  <2>2. l \in T
    <3> HIDE DEF T
    <3>1. \E x \in T : \A y \in T : x <= y
      BY <2>1, SmallestElement DEF T
    <3> QED
      BY <3>1 DEF Min
  <2> HIDE DEF l
  <2> QED
    BY <2>2 DEF FreeIn
<1> HIDE DEF l
<1>3. /\ SoundWith(t, t.zcos, {l}, O) /\ t.zcos = s.zcos /\ t.refs = s.refs
      /\ t.liens[l] # NoLien /\ t.liens[l].ref = o
  <2>1. LienPlaced(t, s, l, O) /\ t.liens[l] # NoLien /\ t.liens[l].ref = o
    BY <1>2, LienCreated
  <2> HIDE DEF t
  <2> QED
    BY <2>1 DEF LienPlaced
<1>4. \A k \in LienIds : k # l => t.liens[k] = s.liens[k]
  <2>1. s \in Stores
    BY DEF SoundWith
  <2> QED
    BY <1>2, <2>1 DEF WithLien, Stores
<1> HIDE DEF t
<1>5. e \in ZcoExtents /\ e.lien = l /\ e.offset = offset /\ e.length = length
  BY <1>2 DEF ExtentOf, ZcoExtents
<1> HIDE DEF e
<1>6. Added(u, t, z, e, {l}, O)
  <2>1. t.liens[e.lien] # NoLien /\ t.refs[t.liens[e.lien].ref] # NoRef
        /\ e.offset + e.length <= Length[t.liens[e.lien].ref]
    BY <1>3, <1>5
  <2> HIDE DEF u, T
  <2>2. Added(AddExtent(CiteLien(t, e.lien, t.zcos[z].acct), z, e), t, z, e, {l}, O)
    BY <1>3, <1>5, <2>1, ExtentAdded
  <2> QED
    BY <1>3, <1>5, <2>2 DEF u
<1> HIDE DEF u
<1>7. s.zcos \in ZcoTables /\ s.zcos[z] \in Zcos
  BY DEF SoundWith, ZcoTables
<1>8. e \in ExtentsIn(t)
  BY <1>3, <1>5 DEF ExtentsIn
<1>9. Keeps(t, s)
  BY <1>2, <1>3, <1>4 DEF Keeps
<1>10. Continued(t, s, z, <<>>)
  <2>1. Continued(s, s, z, <<>>)
    BY <1>7, ContinuedStart
  <2>2. BodyIn(t, <<>>) = BodyIn(s, <<>>) /\ <<>> \in Seq(ExtentsIn(t))
    BY BodiesJoin
  <2> QED
    BY <1>3, <1>9, <2>1, <2>2 DEF Continued
<1>11. Continued(u, s, z, Append(<<>>, e))
  BY <1>3, <1>6, <1>7, <1>8, <1>10, ContinuedAgain
<1> DEFINE q == Append(<<>>, e)
<1>12. BodyIn(u, q) = TextIn(o, offset, length)
  <2>1. Keeps(u, t)
    BY <1>6 DEF Added, Keeps
  <2>2. e \in ExtentsIn(u) /\ u.liens[e.lien].ref = o
    BY <1>2, <1>3, <1>5, <1>8, <2>1, KeepsAgree DEF Keeps
  <2>3. q = <<e>> /\ BodyIn(u, <<e>>) = Chunk(PieceOf(u, e))
    BY <2>2, BodiesJoin
  <2>4. Chunk(PieceOf(u, e)) = TextIn(o, offset, length)
    BY <1>5, <2>2 DEF Chunk, PieceOf, TextIn
  <2> QED
    BY <2>3, <2>4
<1> QED
  BY <1>1, <1>11, <1>12


(***************************************************************************)
(* The strings that a store holds.                                         *)
(***************************************************************************)
AString(attached, body, left, source) ==
    [is |-> "string", attached |-> attached, body |-> body, left |-> left, source |-> source]

StringAt(s, z) ==
    IF s.zcos[z] = NoZco THEN NoZco
    ELSE AString(AttachedIn(s.zcos[z].headers), BodyIn(s, s.zcos[z].extents),
                 s.zcos[z].headersLength, s.zcos[z].sourceLength)

NoText == AString(<<>>, <<>>, 0, 0)

StringFields == {"is", "attached", "body", "left", "source"}

\* A string with other parts.
WithBody(x, body, source) == [x EXCEPT !.body = body, !.source = source]
WithAttached(x, attached) == [x EXCEPT !.attached = attached]
WithLimits(x, left, source) == [x EXCEPT !.left = left, !.source = source]

LEMMA StringChanged ==
    ASSUME NEW h, NEW b, NEW j, NEW n
    PROVE  /\ \A c, m : WithBody(AString(h, b, j, n), c, m) = AString(h, c, j, m)
           /\ \A g : WithAttached(AString(h, b, j, n), g) = AString(g, b, j, n)
           /\ \A i, m : WithLimits(AString(h, b, j, n), i, m) = AString(h, b, i, m)
<1> SUFFICES ASSUME NEW g, NEW c, NEW i, NEW m
             PROVE  LET x == AString(h, b, j, n)
                    IN  /\ WithBody(x, c, m) = AString(h, c, j, m)
                        /\ WithAttached(x, g) = AString(g, b, j, n)
                        /\ WithLimits(x, i, m) = AString(h, b, i, m)
  OBVIOUS
<1> DEFINE F == StringFields
           x == AString(h, b, j, n)
           y1 == WithBody(x, c, m)
           z1 == AString(h, c, j, m)
           y2 == WithAttached(x, g)
           z2 == AString(g, b, j, n)
           y3 == WithLimits(x, i, m)
           z3 == AString(h, b, i, m)
<1>1. /\ DOMAIN x = F
      /\ z1 = [k \in F |-> z1[k]] /\ z2 = [k \in F |-> z2[k]] /\ z3 = [k \in F |-> z3[k]]
  BY DEF AString, StringFields
<1>2. /\ y1 = [k \in F |-> y1[k]] /\ y2 = [k \in F |-> y2[k]] /\ y3 = [k \in F |-> y3[k]]
  BY <1>1 DEF WithBody, WithAttached, WithLimits
<1>3. x.is = "string" /\ x.attached = h /\ x.body = b /\ x.left = j /\ x.source = n
  BY DEF AString
<1>4. z1.is = "string" /\ z1.attached = h /\ z1.body = c /\ z1.left = j /\ z1.source = m
  BY DEF AString
<1>5. z2.is = "string" /\ z2.attached = g /\ z2.body = b /\ z2.left = j /\ z2.source = n
  BY DEF AString
<1>6. z3.is = "string" /\ z3.attached = h /\ z3.body = b /\ z3.left = i /\ z3.source = m
  BY DEF AString
<1> HIDE DEF x, z1, z2, z3
<1>7. \A k \in F : y1[k] = z1[k]
  BY <1>1, <1>3, <1>4 DEF StringFields, WithBody
<1>8. \A k \in F : y2[k] = z2[k]
  BY <1>1, <1>3, <1>5 DEF StringFields, WithAttached
<1>9. \A k \in F : y3[k] = z3[k]
  BY <1>1, <1>3, <1>6 DEF StringFields, WithLimits
<1> HIDE DEF y1, y2, y3, F
<1>10. y1 = z1 /\ y2 = z2 /\ y3 = z3
  BY <1>1, <1>2, <1>7, <1>8, <1>9
<1> QED
  BY <1>10 DEF y1, y2, y3, z1, z2, z3, x

\* Only the ZCO at z is different, and liens that are in both cite the same.
Apart(u, s, z) == Agree(u, s) /\ \A k \in ZcoIds \ {z} : u.zcos[k] = s.zcos[k]

\* The strings elsewhere than at z are what they were.
OnlyAt(u, s, z) == \A k \in ZcoIds \ {z} : StringAt(u, k) = StringAt(s, k)

\* A step at one ZCO changes no other string.
LEMMA OthersKept ==
    ASSUME NEW s, NEW L, NEW O, SoundWith(s, s.zcos, L, O),
           NEW u, NEW M, NEW P, SoundWith(u, u.zcos, M, P),
           NEW z \in ZcoIds, Apart(u, s, z), LengthsTrue(s),
           u.zcos[z] # NoZco => Whole(u, u.zcos[z])
    PROVE  LengthsTrue(u) /\ OnlyAt(u, s, z)
<1>1. ASSUME NEW k \in ZcoIds \ {z}, s.zcos[k] # NoZco
      PROVE  /\ u.zcos[k] = s.zcos[k]
             /\ BodyIn(u, u.zcos[k].extents) = BodyIn(s, s.zcos[k].extents)
  <2>1. u.zcos[k] = s.zcos[k] /\ Agree(u, s)
    BY DEF Apart
  <2>2. s.zcos[k].extents \in Seq(ExtentsIn(s))
    BY <1>1, ExtentsHeld
  <2>3. u.zcos[k].extents \in Seq(ExtentsIn(u))
    BY <1>1, <2>1, ExtentsHeld
  <2> QED
    BY <2>1, <2>2, <2>3, PiecesAgree
<1>2. ASSUME NEW k \in ZcoIds, u.zcos[k] # NoZco
      PROVE  Whole(u, u.zcos[k])
  <2>1. CASE k = z
    BY <1>2, <2>1
  <2>2. CASE k # z
    <3>1. s.zcos[k] # NoZco /\ u.zcos[k] = s.zcos[k]
      BY <1>2, <2>2 DEF Apart
    <3>2. Whole(s, s.zcos[k]) /\ BodyIn(u, u.zcos[k].extents) = BodyIn(s, s.zcos[k].extents)
      BY <1>1, <2>2, <3>1 DEF LengthsTrue
    <3> QED
      BY <3>1, <3>2 DEF Whole
  <2> QED
    BY <2>1, <2>2
<1>3. ASSUME NEW k \in ZcoIds \ {z}
      PROVE  StringAt(u, k) = StringAt(s, k)
  <2>1. u.zcos[k] = s.zcos[k]
    BY DEF Apart
  <2>2. CASE s.zcos[k] = NoZco
    BY <2>1, <2>2 DEF StringAt
  <2>3. CASE s.zcos[k] # NoZco
    BY <1>1, <2>1, <2>3 DEF StringAt
  <2> QED
    BY <2>2, <2>3
<1> QED
  BY <1>2, <1>3 DEF LengthsTrue, OnlyAt

\* Stores with the same ZCOs and liens hold the same strings.
LEMMA SameStrings ==
    ASSUME NEW s, NEW u, u.zcos = s.zcos, u.liens = s.liens
    PROVE  /\ \A z \in ZcoIds : StringAt(u, z) = StringAt(s, z)
           /\ LengthsTrue(s) => LengthsTrue(u)
<1>1. \A q : BodyIn(u, q) = BodyIn(s, q)
  BY DEF BodyIn, PiecesIn, PieceOf
<1> QED
  BY <1>1 DEF StringAt, LengthsTrue, Whole

(***************************************************************************)
(* Text at the end.                                                        *)
(***************************************************************************)
\* The ZCO at z got the text at its end.
Lengthened(u, s, z, text) ==
    /\ Apart(u, s, z) /\ u.zcos[z] \in Zcos /\ text \in Seq(Bytes)
    /\ BodyIn(u, u.zcos[z].extents) = BodyIn(s, s.zcos[z].extents) \o text
    /\ u.zcos[z].headers = s.zcos[z].headers
    /\ u.zcos[z].capsuleLength = s.zcos[z].capsuleLength
    /\ u.zcos[z].headersLength = s.zcos[z].headersLength
    /\ u.zcos[z].trailersLength = s.zcos[z].trailersLength
    /\ u.zcos[z].sourceLength = s.zcos[z].sourceLength + Len(text)
    /\ u.zcos[z].totalLength = s.zcos[z].totalLength + Len(text)

\* More extents are more text.
LEMMA MoreText ==
    ASSUME NEW s, NEW L, NEW O, SoundWith(s, s.zcos, L, O), NEW z \in ZcoIds,
           s.zcos[z] # NoZco, NEW u, NEW q, Continued(u, s, z, q)
    PROVE  Lengthened(u, s, z, BodyIn(u, q))
<1> DEFINE x == s.zcos[z]
           y == u.zcos[z]
           r == x.extents
<1>1. /\ Keeps(u, s) /\ q \in Seq(ExtentsIn(u)) /\ y \in Zcos
      /\ Grew(y, x, q, Len(BodyIn(u, q))) /\ \A k \in ZcoIds \ {z} : u.zcos[k] = s.zcos[k]
  BY DEF Continued
<1>2. Agree(u, s) /\ ExtentsIn(s) \subseteq ExtentsIn(u)
  BY <1>1, KeepsAgree
<1>3. r \in Seq(ExtentsIn(s))
  BY ExtentsHeld
<1> HIDE DEF r
<1>4. r \in Seq(ExtentsIn(u))
  BY <1>2, <1>3, SequencesOver
<1>5. BodyIn(u, r) = BodyIn(s, r)
  BY <1>2, <1>3, <1>4, PiecesAgree
<1>6. BodyIn(u, r \o q) = BodyIn(u, r) \o BodyIn(u, q) /\ BodyIn(u, q) \in Seq(Bytes)
  BY <1>1, <1>4, BodiesJoin
<1>7. y.extents = r \o q
  BY <1>1 DEF Grew, r
<1>8. BodyIn(u, y.extents) = BodyIn(s, x.extents) \o BodyIn(u, q)
  BY <1>5, <1>6, <1>7 DEF r
<1>9. Apart(u, s, z)
  BY <1>1, <1>2 DEF Apart
<1> DEFINE text == BodyIn(u, q)
<1>10. Grew(y, x, q, Len(text)) /\ text \in Seq(Bytes)
       /\ BodyIn(u, y.extents) = BodyIn(s, x.extents) \o text
  BY <1>1, <1>6, <1>8
<1> HIDE DEF text
<1>11. Lengthened(u, s, z, text)
  BY <1>1, <1>9, <1>10 DEF Grew, Lengthened
<1> QED
  BY <1>11 DEF text

\* A string and its lengths after text was added to it.
LEMMA TextAdded ==
    ASSUME NEW s, NEW L, NEW O, SoundWith(s, s.zcos, L, O), LengthsTrue(s),
           NEW z \in ZcoIds, s.zcos[z] # NoZco,
           NEW u, Sound(u), NEW text, Lengthened(u, s, z, text)
    PROVE  /\ LengthsTrue(u) /\ OnlyAt(u, s, z) /\ u.zcos[z] # NoZco
           /\ StringAt(u, z).body = StringAt(s, z).body \o text
           /\ StringAt(u, z) = WithBody(StringAt(s, z), StringAt(s, z).body \o text,
                                        StringAt(s, z).source + Len(text))
<1> DEFINE x == s.zcos[z]
           y == u.zcos[z]
           b == BodyIn(s, x.extents)
           c == BodyIn(u, y.extents)
<1>1. /\ Apart(u, s, z) /\ y \in Zcos /\ text \in Seq(Bytes) /\ c = b \o text
      /\ y.headers = x.headers /\ y.capsuleLength = x.capsuleLength
      /\ y.headersLength = x.headersLength /\ y.trailersLength = x.trailersLength
      /\ y.sourceLength = x.sourceLength + Len(text)
      /\ y.totalLength = x.totalLength + Len(text)
  BY DEF Lengthened
<1>2. y # NoZco
  BY <1>1, EntriesReal
<1>3. Whole(s, x) /\ x \in Zcos /\ x.extents \in Seq(ExtentsIn(s))
  BY ExtentsHeld DEF LengthsTrue, SoundWith, ZcoTables
<1>4. b \in Seq(Bytes)
  BY <1>3, BodiesJoin
<1>5. Len(c) = Len(b) + Len(text) /\ Len(b) \in Nat /\ Len(text) \in Nat
  <2> HIDE DEF b, c
  <2> QED
    BY <1>1, <1>4, ConcatProperties
<1>6. Whole(u, y)
  <2>1. /\ x.capsuleLength = Len(AttachedIn(x.headers))
        /\ x.totalLength = x.capsuleLength + Len(b)
        /\ x.headersLength + x.sourceLength + x.trailersLength = Len(b)
    BY <1>3 DEF Whole
  <2>2. x.capsuleLength \in Nat /\ x.totalLength \in Nat /\ x.headersLength \in Nat
        /\ x.sourceLength \in Nat /\ x.trailersLength \in Nat
    BY <1>3 DEF Zcos
  <2> HIDE DEF x, y, b, c
  <2>3. y.totalLength = y.capsuleLength + Len(c)
    BY <1>1, <1>5, <2>1, <2>2
  <2>4. y.headersLength + y.sourceLength + y.trailersLength = Len(c)
    <3> DEFINE h == x.headersLength
               i == x.sourceLength
               j == x.trailersLength
               m == Len(text)
               n == Len(b)
    <3>1. {h, i, j, m, n} \subseteq Nat /\ h + i + j = n
      BY <1>5, <2>1, <2>2
    <3>2. y.headersLength = h /\ y.sourceLength = i + m /\ y.trailersLength = j
          /\ Len(c) = n + m
      BY <1>1, <1>5
    <3> HIDE DEF h, i, j, m, n
    <3>3. h + (i + m) + j = n + m
      BY <3>1
    <3> QED
      BY <3>2, <3>3
  <2>5. y.capsuleLength = Len(AttachedIn(y.headers))
    BY <1>1, <2>1
  <2> QED
    BY <2>3, <2>4, <2>5 DEF Whole, c
<1>7. LengthsTrue(u) /\ OnlyAt(u, s, z)
  BY <1>1, <1>6, OthersKept DEF Sound
<1> DEFINE h == AttachedIn(x.headers)
           j == x.headersLength
           n == x.sourceLength
<1>8. StringAt(s, z) = AString(h, b, j, n)
  BY DEF StringAt
<1>9. StringAt(u, z) = AString(h, b \o text, j, n + Len(text))
  BY <1>1, <1>2 DEF StringAt
<1> HIDE DEF x, b, c, h, j, n
<1>10. StringAt(s, z).body = b /\ StringAt(s, z).source = n /\ StringAt(u, z).body = b \o text
  BY <1>8, <1>9 DEF AString
<1>11. WithBody(StringAt(s, z), b \o text, n + Len(text)) = StringAt(u, z)
  BY <1>8, <1>9, StringChanged
<1>12. WithBody(StringAt(s, z), StringAt(s, z).body \o text, StringAt(s, z).source + Len(text))
         = StringAt(u, z)
  BY <1>10, <1>11
<1> QED
  BY <1>2, <1>7, <1>10, <1>12 DEF y

\* A new ZCO is an empty string.
Fresh(u, s, z) ==
    /\ LengthsTrue(u) /\ OnlyAt(u, s, z) /\ u.zcos[z] # NoZco
    /\ StringAt(s, z) = NoZco /\ StringAt(u, z) = NoText

LEMMA NewString ==
    ASSUME NEW s, NEW L, NEW O, SoundWith(s, s.zcos, L, O), LengthsTrue(s),
           NEW z \in ZcoIds, s.zcos[z] = NoZco, NEW a, NEW M, NEW u, ZcoPlaced(u, s, z, a, M)
    PROVE  Fresh(u, s, z)
<1> DEFINE y == u.zcos[z]
<1>1. s.zcos \in ZcoTables
  BY DEF SoundWith
<1>2. /\ SoundWith(u, u.zcos, {}, M) /\ y = BlankZco(a) /\ y # NoZco
      /\ \A k \in ZcoIds \ {z} : u.zcos[k] = s.zcos[k]
      /\ u.liens = s.liens
  BY <1>1 DEF ZcoPlaced, ZcoTables
<1>3. Apart(u, s, z)
  BY <1>2 DEF Apart, Agree
<1>4. /\ y.headers = <<>> /\ y.extents = <<>> /\ y.headersLength = 0 /\ y.sourceLength = 0
      /\ y.trailersLength = 0 /\ y.capsuleLength = 0 /\ y.totalLength = 0
  BY <1>2 DEF BlankZco
<1>5. AttachedIn(<<>>) = <<>> /\ BodyIn(u, <<>>) = <<>> /\ Len(<<>>) = 0
  BY AttachedJoin, BodiesJoin
<1> HIDE DEF y
<1>6. Whole(u, y)
  BY <1>4, <1>5 DEF Whole
<1>7. LengthsTrue(u) /\ OnlyAt(u, s, z)
  BY <1>2, <1>3, <1>6, OthersKept DEF y
<1> QED
  BY <1>2, <1>4, <1>5, <1>7 DEF StringAt, y, NoText, Fresh

(***************************************************************************)
(* The texts that the promise speaks of.                                   *)
(***************************************************************************)
\* Two texts put together are as long as both.
LEMMA JoinedParts ==
    ASSUME NEW b \in Seq(Bytes), NEW x \in Seq(Bytes)
    PROVE  Len(b \o x) = Len(b) + Len(x) /\ Len(x \o b) = Len(x) + Len(b)
BY ConcatProperties

\* A text that ends where the other one does, or before.
LEMMA SliceWithin ==
    ASSUME NEW b \in Seq(Bytes), NEW o \in Nat, NEW n \in Nat
    PROVE  \E k \in 0..Len(b) : \E m \in 0..Len(b) - k :
             Promise!SliceOf(b, o, n) = Promise!SliceOf(b, k, m)
<1> DEFINE l == Len(b)
           e == IF o + n <= l THEN o + n ELSE l
<1>1. l \in Nat /\ Promise!SliceOf(b, o, n) = SubSeq(b, o + 1, e)
  BY DEF Promise!SliceOf
<1>2. CASE l <= o
  <2>1. e \in Nat /\ e <= o /\ e < o + 1
    BY <1>1, <1>2
  <2>2. Promise!SliceOf(b, 0, 0) = SubSeq(b, 1, 0)
    BY <1>1 DEF Promise!SliceOf
  <2>3. SubSeq(b, 1, 0) = <<>>
    OBVIOUS
  <2> HIDE DEF e
  <2>4. SubSeq(b, o + 1, e) = <<>>
    BY <2>1
  <2>5. Promise!SliceOf(b, o, n) = Promise!SliceOf(b, 0, 0)
    BY <1>1, <2>2, <2>3, <2>4
  <2>6. 0 \in 0..Len(b) /\ 0 \in 0..Len(b) - 0
    BY <1>1
  <2> QED
    BY <2>5, <2>6
<1>3. CASE o < l
  <2> DEFINE m == e - o
  <2>1. o \in 0..l /\ m \in 0..(l - o) /\ o + m <= l /\ o + m = e
    BY <1>1, <1>3
  <2> HIDE DEF e, m
  <2>2. Promise!SliceOf(b, o, m) = SubSeq(b, o + 1, o + m)
    BY <2>1 DEF Promise!SliceOf
  <2> QED
    BY <1>1, <2>1, <2>2
<1> QED
  BY <1>1, <1>2, <1>3

\* What a walk takes of a body is the slice that was asked for.
LEMMA SliceOfBody ==
    ASSUME NEW s, NEW q \in Seq(ExtentsIn(s)), NEW o \in Nat, NEW n \in Nat
    PROVE  BodyIn(s, Walk(q, o, n)) = Promise!SliceOf(BodyIn(s, q), o, n)
<1> DEFINE b == BodyIn(s, q)
           t == BodyIn(s, Walk(q, o, n))
           l == Len(b)
           m == Len(t)
           e == IF o + n <= l THEN o + n ELSE l
           p == SubSeq(b, o + 1, e)
<1>1. IsPart(t, b, o, n)
  <2>1. PiecesIn(s, Walk(q, o, n)) = Walk(PiecesIn(s, q), o, n)
    BY WalkSeenThrough
  <2>2. PiecesIn(s, q) \in Seq(ZcoPieces)
    BY PiecesAppend
  <2> QED
    BY <2>1, <2>2, WalkReads DEF BodyIn
<1> HIDE DEF b, t
<1>2. /\ t \in Seq(Bytes) /\ b \in Seq(Bytes) /\ m \in Nat /\ l \in Nat
      /\ m = IF l <= o THEN 0 ELSE IF l - o <= n THEN l - o ELSE n
      /\ \A j \in 1..m : t[j] = b[o + j]
  BY <1>1 DEF IsPart
<1>3. Promise!SliceOf(b, o, n) = p
  BY DEF Promise!SliceOf
<1> HIDE DEF l, m
<1>4. CASE l <= o
  <2>1. e \in Nat /\ e < o + 1 /\ m = 0
    BY <1>2, <1>4
  <2> HIDE DEF e
  <2>2. p = <<>>
    BY <1>2, <2>1
  <2>3. t = <<>>
    BY <1>2, <2>1 DEF m
  <2> QED
    BY <1>3, <2>2, <2>3 DEF b, t
<1>5. CASE o < l
  <2>1. e \in Nat /\ e = o + m /\ o + 1 <= e + 1 /\ e <= l
    BY <1>2, <1>5
  <2> HIDE DEF e
  <2>2. \A j \in (o + 1)..e : b[j] \in Bytes
    BY <1>2, <2>1 DEF l
  <2>3. p \in Seq(Bytes)
    BY <1>2, <2>1, <2>2
  <2>4. Len(p) = m /\ \A j \in 1..m : p[j] = b[o + j]
    BY <1>2, <2>1
  <2> HIDE DEF p
  <2>5. Len(t) = Len(p) /\ \A j \in 1..Len(p) : p[j] = t[j]
    BY <1>2, <2>4 DEF m
  <2>6. t = p
    BY <1>2, <2>3, <2>5
  <2> QED
    BY <1>3, <2>6 DEF b, t
<1> QED
  BY <1>2, <1>4, <1>5

(***************************************************************************)
(* What an operation on one ZCO does, as the promise has it.               *)
(***************************************************************************)
Texts(s) == [z \in ZcoIds |-> StringAt(s, z)]

AsPromised(u, s, z) ==
    /\ LengthsTrue(u) /\ OnlyAt(u, s, z)
    /\ Promise!Changed(StringAt(s, z), StringAt(u, z), Texts(s))

\* A string was made of a text, or a text was added to it.
Made(u, s, z, text) ==
    LengthsTrue(u) /\ OnlyAt(u, s, z) /\ Promise!Created(StringAt(s, z), StringAt(u, z), text)
Joins(u, s, z, text) ==
    LengthsTrue(u) /\ OnlyAt(u, s, z) /\ Promise!Appended(StringAt(s, z), StringAt(u, z), text)

\* The texts that the promise has for these.
Offered(text, ss) ==
    \/ \E o \in Objects : \E k \in 0..Length[o] : \E n \in 0..Length[o] - k :
         text = Promise!TextOf(o, k, n)
    \/ \E from \in ZcoIds : /\ ss[from] # Promise!NoString
                            /\ \E k \in 0..Len(ss[from].body) : \E n \in 0..Len(ss[from].body) - k :
                                 text = Promise!SliceOf(ss[from].body, k, n)

\* A string is no absence of a string.
LEMMA StringsReal ==
    ASSUME NEW h, NEW b, NEW j, NEW n
    PROVE  /\ AString(h, b, j, n) # NoZco /\ NoZco = Promise!NoString
           /\ AString(h, b, j, n) = Promise!StringOf(h, b, j, n)
<1>1. AString(h, b, j, n).is = "string" /\ NoZco.is = "none"
  BY DEF AString, NoZco
<1>2. "string" # "none"
  OBVIOUS
<1>3. AString(h, b, j, n) # NoZco
  BY <1>1, <1>2
<1> QED
  BY <1>3 DEF AString, Promise!StringOf, NoZco, Promise!NoString

\* Bytes that lie together in an object are offered.
LEMMA TogetherInObject ==
    ASSUME NEW o \in Objects, NEW offset \in Nat, NEW length \in Nat, offset + length <= Length[o],
           NEW ss
    PROVE  /\ Offered(Promise!TextOf(o, offset, length), ss)
           /\ TextIn(o, offset, length) = Promise!TextOf(o, offset, length)
<1>1. offset \in 0..Length[o] /\ length \in 0..(Length[o] - offset)
  BY Sizes
<1> QED
  BY <1>1 DEF Offered, TextIn, Promise!TextOf

\* What is offered may be made a string of, and added to one.
LEMMA OfferedChange ==
    ASSUME NEW text, NEW ss, Offered(text, ss), NEW x, NEW y,
           Promise!Created(x, y, text) \/ Promise!Appended(x, y, text)
    PROVE  Promise!Changed(x, y, ss)
<1>1. CASE \E o \in Objects : \E k \in 0..Length[o] : \E n \in 0..Length[o] - k :
             text = Promise!TextOf(o, k, n)
  BY <1>1 DEF Promise!Changed
<1>2. CASE \E from \in ZcoIds :
             /\ ss[from] # Promise!NoString
             /\ \E k \in 0..Len(ss[from].body) : \E n \in 0..Len(ss[from].body) - k :
                  text = Promise!SliceOf(ss[from].body, k, n)
  BY <1>2 DEF Promise!Changed
<1> QED
  BY <1>1, <1>2 DEF Offered

\* A text added to a string.
LEMMA AppendedAsPromised ==
    ASSUME NEW h, NEW b, NEW j, NEW n, NEW text, NEW x, NEW y, x = AString(h, b, j, n),
           y = WithBody(x, x.body \o text, x.source + Len(text))
    PROVE  Promise!Appended(x, y, text)
<1>1. x # Promise!NoString
  BY StringsReal
<1> QED
  BY <1>1 DEF Promise!Appended, WithBody

\* A string made of a text.
LEMMA CreatedAsPromised ==
    ASSUME NEW text
    PROVE  Promise!Created(NoZco, AString(<<>>, text, 0, Len(text)), text)
BY StringsReal DEF Promise!Created

\* What is told of the lengths of a ZCO in a store.
LengthsAt(s, z) ==
    IF s.zcos[z] = NoZco THEN NoZco
    ELSE [is |-> "lengths", total |-> s.zcos[z].totalLength,
          data |-> s.zcos[z].headersLength + s.zcos[z].sourceLength + s.zcos[z].trailersLength]

\* The strings and lengths of the properties are those of the store.
LEMMA StringsNow ==
    ASSUME NEW z
    PROVE  StringOf(z) = StringAt(Store, z) /\ LengthsOf(z) = LengthsAt(Store, z)
<1>1. Store.zcos = zcos /\ Store.liens = liens
  BY DEF Store
<1>2. Pieces(z) = PiecesIn(Store, zcos[z].extents)
  BY <1>1 DEF Pieces, PiecesIn, PieceOf
<1>3. Capsules(z) = CapsulesIn(zcos[z].headers)
  BY DEF Capsules, CapsulesIn, CapsuleOf
<1> QED
  BY <1>1, <1>2, <1>3 DEF StringOf, StringAt, AString, BodyIn, AttachedIn, LengthsOf, LengthsAt

\* After an action they are those of the store that it leaves.
LEMMA StringsNext ==
    ASSUME NEW w, Become(w), NEW z
    PROVE  StringOf(z)' = StringAt(w, z) /\ LengthsOf(z)' = LengthsAt(w, z)
<1>1. w.zcos = zcos' /\ w.liens = liens'
  BY DEF Become
<1>2. Pieces(z)' = PiecesIn(w, w.zcos[z].extents)
  BY <1>1 DEF Pieces, PiecesIn, PieceOf
<1>3. Capsules(z)' = CapsulesIn(w.zcos[z].headers)
  BY <1>1 DEF Capsules, CapsulesIn, CapsuleOf
<1> QED
  BY <1>1, <1>2, <1>3 DEF StringOf, StringAt, AString, BodyIn, AttachedIn, LengthsOf, LengthsAt

\* An action does to one string what was promised.
ActsAsPromised == \E w : Become(w) /\ \E z \in ZcoIds : AsPromised(w, Store, z)

\* It makes a string of the text, or adds the text, as the properties say it.
LEMMA MadeSeen ==
    ASSUME NEW w, Become(w), NEW z \in ZcoIds, NEW text, Made(w, Store, z, text),
           Offered(text, Texts(Store))
    PROVE  Makes(text) /\ ActsAsPromised
<1>1. /\ LengthsTrue(w) /\ OnlyAt(w, Store, z)
      /\ Promise!Created(StringAt(Store, z), StringAt(w, z), text)
  BY DEF Made
<1>2. AsPromised(w, Store, z)
  BY <1>1, OfferedChange DEF AsPromised
<1>3. Promise!Created(StringOf(z), StringOf(z)', text)
  BY <1>1, StringsNow, StringsNext
<1> QED
  BY <1>2, <1>3 DEF Makes, ActsAsPromised

LEMMA AddedSeen ==
    ASSUME NEW w, Become(w), NEW z \in ZcoIds, NEW text, Joins(w, Store, z, text),
           Offered(text, Texts(Store))
    PROVE  Adds(z, text) /\ ActsAsPromised
<1>1. /\ LengthsTrue(w) /\ OnlyAt(w, Store, z)
      /\ Promise!Appended(StringAt(Store, z), StringAt(w, z), text)
  BY DEF Joins
<1>2. AsPromised(w, Store, z)
  BY <1>1, OfferedChange DEF AsPromised
<1>3. Promise!Appended(StringOf(z), StringOf(z)', text)
  BY <1>1, StringsNow, StringsNext
<1> QED
  BY <1>2, <1>3 DEF Adds, ActsAsPromised

\* The string before and after, as the properties name it.
LEMMA StepSeen ==
    ASSUME NEW w, Become(w), NEW z \in ZcoIds, AsPromised(w, Store, z)
    PROVE  /\ ActsAsPromised
           /\ StringOf(z) = StringAt(Store, z) /\ StringOf(z)' = StringAt(w, z)
BY StringsNow, StringsNext DEF ActsAsPromised

(***************************************************************************)
(* The operations that add text.                                           *)
(***************************************************************************)
\* A store with the ZCOs and liens of another one.
Alike(s, p) == s.zcos = p.zcos /\ s.liens = p.liens

LEMMA AlikeStrings ==
    ASSUME NEW p, NEW s, Alike(s, p), LengthsTrue(p)
    PROVE  LengthsTrue(s) /\ Texts(s) = Texts(p) /\ \A z \in ZcoIds : StringAt(s, z) = StringAt(p, z)
<1>1. s.zcos = p.zcos /\ s.liens = p.liens
  BY DEF Alike
<1>2. LengthsTrue(s) /\ \A z \in ZcoIds : StringAt(s, z) = StringAt(p, z)
  BY <1>1, SameStrings
<1>3. Texts(s) = Texts(p)
  BY <1>2 DEF Texts
<1> QED
  BY <1>2, <1>3

\* Text at the end of a ZCO of a store, or of one alike.
LEMMA MoreTextAsPromised ==
    ASSUME NEW p, LengthsTrue(p), NEW s, Alike(s, p), NEW O, SoundWith(s, s.zcos, {}, O),
           NEW z \in ZcoIds, s.zcos[z] # NoZco, NEW w, Sound(w), NEW text,
           Lengthened(w, s, z, text)
    PROVE  Joins(w, p, z, text)
<1> DEFINE x == StringAt(s, z)
           y == StringAt(w, z)
           b == BodyIn(s, s.zcos[z].extents)
           h == AttachedIn(s.zcos[z].headers)
           j == s.zcos[z].headersLength
           n == s.zcos[z].sourceLength
<1>1. LengthsTrue(s) /\ Texts(s) = Texts(p) /\ \A k \in ZcoIds : StringAt(s, k) = StringAt(p, k)
  BY AlikeStrings
<1>2. /\ LengthsTrue(w) /\ OnlyAt(w, s, z) /\ w.zcos[z] # NoZco
      /\ y = WithBody(x, x.body \o text, x.source + Len(text))
  <2>1. LengthsTrue(s)
    BY <1>1
  <2> QED
    BY <2>1, TextAdded
<1>3. x = AString(h, b, j, n)
  BY DEF StringAt
<1> HIDE DEF x, y, b, h, j, n
<1>6. Promise!Appended(x, y, text)
  BY <1>2, <1>3, AppendedAsPromised
<1>7. OnlyAt(w, p, z)
  BY <1>1, <1>2 DEF OnlyAt
<1>8. x = StringAt(p, z)
  BY <1>1 DEF x
<1> QED
  BY <1>2, <1>6, <1>7, <1>8 DEF Joins, y

\* A new ZCO with text.
LEMMA NewTextAsPromised ==
    ASSUME NEW p, LengthsTrue(p), NEW s, Alike(s, p), NEW O, SoundWith(s, s.zcos, {}, O),
           NEW z \in ZcoIds, s.zcos[z] = NoZco, NEW a, NEW M, NEW u, ZcoPlaced(u, s, z, a, M),
           NEW w, Sound(w), NEW text, Lengthened(w, u, z, text)
    PROVE  Made(w, p, z, text)
<1> DEFINE x == StringAt(u, z)
           y == StringAt(w, z)
<1>1. LengthsTrue(s) /\ \A k \in ZcoIds : StringAt(s, k) = StringAt(p, k)
  BY AlikeStrings
<1>2. /\ LengthsTrue(u) /\ OnlyAt(u, s, z) /\ u.zcos[z] # NoZco
      /\ StringAt(s, z) = NoZco /\ x = NoText
  <2>1. LengthsTrue(s)
    BY <1>1
  <2>2. Fresh(u, s, z)
    BY <2>1, NewString
  <2> QED
    BY <2>2 DEF Fresh
<1>3. SoundWith(u, u.zcos, {}, M) /\ text \in Seq(Bytes)
  BY DEF ZcoPlaced, Lengthened
<1>4. /\ LengthsTrue(w) /\ OnlyAt(w, u, z)
      /\ y = WithBody(x, x.body \o text, x.source + Len(text))
  BY <1>2, <1>3, TextAdded
<1> HIDE DEF x, y
<1>5. y = AString(<<>>, text, 0, Len(text))
  <2>1. x.body = <<>> /\ x.source = 0
    BY <1>2 DEF AString, NoText
  <2>2. <<>> \o text = text /\ 0 + Len(text) = Len(text)
    BY <1>3, ConcatEmptySeq
  <2>3. y = WithBody(x, <<>> \o text, 0 + Len(text))
    BY <1>4, <2>1
  <2>4. y = WithBody(x, text, Len(text))
    BY <2>2, <2>3
  <2> QED
    BY <1>2, <2>4, StringChanged DEF NoText
<1>6. Promise!Created(StringAt(p, z), y, text)
  <2>1. StringAt(p, z) = NoZco
    BY <1>1, <1>2
  <2> QED
    BY <1>5, <2>1, CreatedAsPromised
<1>7. OnlyAt(w, p, z)
  BY <1>1, <1>2, <1>4 DEF OnlyAt
<1> QED
  BY <1>4, <1>6, <1>7 DEF Made, y

\* A new ZCO without text.
LEMMA NoTextAsPromised ==
    ASSUME NEW s, NEW O, SoundWith(s, s.zcos, {}, O), LengthsTrue(s),
           NEW z \in ZcoIds, s.zcos[z] = NoZco, NEW a, NEW M, NEW u, ZcoPlaced(u, s, z, a, M)
    PROVE  Made(u, s, z, <<>>) /\ Offered(<<>>, Texts(s))
<1>1. /\ LengthsTrue(u) /\ OnlyAt(u, s, z) /\ StringAt(s, z) = NoZco
      /\ StringAt(u, z) = NoText
  <2>1. Fresh(u, s, z)
    BY NewString
  <2> QED
    BY <2>1 DEF Fresh
<1>2. Promise!Created(NoZco, AString(<<>>, <<>>, 0, Len(<<>>)), <<>>)
  BY CreatedAsPromised
<1>3. Len(<<>>) = 0
  OBVIOUS
<1>4. Offered(<<>>, Texts(s))
  <2>1. PICK o \in Objects : TRUE
    BY ZcoAssumption
  <2>2. 0 \in Nat /\ 0 + 0 <= Length[o]
    BY Sizes
  <2>3. Offered(Promise!TextOf(o, 0, 0), Texts(s))
    BY <2>2, TogetherInObject
  <2>4. Promise!TextOf(o, 0, 0) = <<>>
    BY DEF Promise!TextOf
  <2> QED
    BY <2>3, <2>4
<1> QED
  BY <1>1, <1>2, <1>3, <1>4 DEF Made, NoText

LEMMA CreateEmptyPromised ==
    ASSUME ZcoInv, LengthsTrue(Store), NEW a \in Accts, CreateEmpty(a)
    PROVE  Makes(<<>>) /\ ActsAsPromised
<1> DEFINE z == Min(FreeZcos)
           u == NewZco(Store, z, a)
<1>1. z \in ZcoIds /\ zcos[z] = NoZco /\ Become(u)
  BY FreshAddress DEF CreateEmpty
<1> HIDE DEF z
<1>2. ZcoPlaced(u, Store, z, a, {}) /\ SoundWith(Store, Store.zcos, {}, {})
      /\ Store.zcos[z] = NoZco
  BY <1>1, InvUnfolds, ZcoCreated DEF Sound
<1> HIDE DEF u
<1>3. Made(u, Store, z, <<>>) /\ Offered(<<>>, Texts(Store))
  BY <1>1, <1>2, NoTextAsPromised
<1> QED
  BY <1>1, <1>3, MadeSeen

LEMMA CreatePromised ==
    ASSUME ZcoInv, LengthsTrue(Store), NEW a \in Accts, NEW o \in Objects, NEW offset \in Nat,
           NEW length \in Nat, NEW d, Create(a, o, offset, length, d)
    PROVE  Makes(Promise!TextOf(o, offset, length)) /\ ActsAsPromised
<1> DEFINE z == Min(FreeZcos)
           t == Sourced(o)
           u == NewZco(t, z, a)
           w == ExtendByRef(u, z, o, offset, length)
           text == TextIn(o, offset, length)
<1>1. /\ z \in ZcoIds /\ zcos[z] = NoZco /\ Become(w) /\ FreeLiens # {} /\ MaySource(o)
      /\ offset + length <= Length[o]
  BY FreshAddress DEF Create
<1> HIDE DEF z, t
<1>2. PICK O : SourceMade(t, o, O)
  BY <1>1, SourcedDone DEF t
<1>3. ZcoPlaced(u, t, z, a, O)
  BY <1>1, <1>2, ZcoCreated DEF SourceMade
<1> HIDE DEF u
<1>4. /\ SoundWith(u, u.zcos, {}, O) /\ u.zcos[z] # NoZco /\ u.liens = t.liens /\ u.refs = t.refs
  BY <1>1, <1>2, <1>3, InvUnfolds, NewZcoBounded DEF SourceMade
<1>5. FreeIn(u) # {} /\ u.refs[o] # NoRef /\ O \in SUBSET {o}
  BY <1>1, <1>2, <1>4 DEF FreeIn, FreeLiens, SourceMade
<1>6. Sound(w)
  BY <1>1, <1>4, <1>5, ExtendByRefDone DEF Grown
<1>7. PICK q : Continued(w, u, z, q) /\ BodyIn(w, q) = text
  <2>1. z \in ZcoIds /\ offset + length <= Length[o] /\ SoundWith(u, u.zcos, {}, O)
        /\ u.zcos[z] # NoZco
    BY <1>1, <1>4
  <2> QED
    BY <1>5, <2>1, ExtendByRefReads
<1> HIDE DEF w, text
<1>8. Lengthened(w, u, z, text)
  BY <1>1, <1>4, <1>7, MoreText
<1>9. Offered(text, Texts(Store)) /\ text = Promise!TextOf(o, offset, length)
  BY <1>1, TogetherInObject DEF text
<1>10. Alike(t, Store) /\ SoundWith(t, t.zcos, {}, O) /\ t.zcos[z] = NoZco
  BY <1>1, <1>2, InvUnfolds DEF Alike, SourceMade
<1>11. Made(w, Store, z, text)
  BY <1>1, <1>3, <1>6, <1>8, <1>10, NewTextAsPromised
<1> QED
  BY <1>1, <1>9, <1>11, MadeSeen

LEMMA AppendExtentPromised ==
    ASSUME ZcoInv, LengthsTrue(Store), NEW z \in ZcoIds, NEW o \in Objects, NEW offset \in Nat,
           NEW length \in Nat, NEW d, AppendExtent(z, o, offset, length, d)
    PROVE  Adds(z, Promise!TextOf(o, offset, length)) /\ ActsAsPromised
<1> DEFINE u == Sourced(o)
           w == ExtendByRef(u, z, o, offset, length)
           text == TextIn(o, offset, length)
<1>1. z \in Live /\ Become(w) /\ FreeLiens # {} /\ MaySource(o) /\ offset + length <= Length[o]
  BY DEF AppendExtent
<1> HIDE DEF u
<1>2. PICK O : SourceMade(u, o, O)
  BY <1>1, SourcedDone DEF u
<1>3. /\ FreeIn(u) # {} /\ u.refs[o] # NoRef /\ u.zcos[z] # NoZco /\ O \in SUBSET {o}
      /\ SoundWith(u, u.zcos, {}, O) /\ Alike(u, Store)
  BY <1>1, <1>2, InvUnfolds DEF FreeIn, FreeLiens, SourceMade, Live, Alike
<1>4. Sound(w)
  BY <1>1, <1>3, ExtendByRefDone DEF Grown
<1>5. PICK q : Continued(w, u, z, q) /\ BodyIn(w, q) = text
  BY <1>1, <1>3, ExtendByRefReads
<1> HIDE DEF w, text
<1>6. Lengthened(w, u, z, text)
  BY <1>3, <1>5, MoreText
<1>7. Offered(text, Texts(Store)) /\ text = Promise!TextOf(o, offset, length)
  BY <1>1, TogetherInObject DEF text
<1>8. Joins(w, Store, z, text)
  BY <1>3, <1>4, <1>6, MoreTextAsPromised
<1> QED
  BY <1>1, <1>7, <1>8, AddedSeen

(***************************************************************************)
(* The operations that copy from a ZCO.                                    *)
(***************************************************************************)
\* What is cited anew from a ZCO is the slice of it that was asked for.
SliceFrom(from, offset, length) == Promise!SliceOf(StringOf(from).body, offset, length)

LEMMA CitedSlice ==
    ASSUME ZcoInv, NEW from \in ZcoIds, zcos[from] # NoZco, NEW offset \in Nat, NEW length \in Nat,
           NEW q, q = PiecesOf(from, offset, length), NEW w, Keeps(w, Store),
           q \in Seq(ExtentsIn(w))
    PROVE  /\ BodyIn(w, q) = SliceFrom(from, offset, length)
           /\ Offered(BodyIn(w, q), Texts(Store))
<1> DEFINE r == zcos[from].extents
           x == StringAt(Store, from)
           b == BodyIn(Store, r)
<1>1. r \in Seq(ExtentsIn(Store)) /\ Store.zcos = zcos
  BY ContentsOf
<1>2. q = Walk(r, offset, length)
  BY DEF PiecesOf
<1>3. x = AString(AttachedIn(zcos[from].headers), b, zcos[from].headersLength,
                  zcos[from].sourceLength)
  BY <1>1 DEF StringAt
<1>4. x.body = b /\ x # Promise!NoString /\ b \in Seq(Bytes)
  <2>1. b \in Seq(Bytes)
    BY <1>1, BodiesJoin
  <2> HIDE DEF x, b
  <2>2. x.body = b /\ x # Promise!NoString
    BY <1>3, StringsReal DEF AString
  <2> QED
    BY <2>1, <2>2
<1>5. q \in Seq(ExtentsIn(Store)) /\ BodyIn(Store, q) = Promise!SliceOf(b, offset, length)
  <2>1. q \in Seq(ExtentsIn(Store))
    BY <1>1, <1>2, WalkSeenThrough
  <2>2. BodyIn(Store, q) = Promise!SliceOf(BodyIn(Store, r), offset, length)
    BY <1>1, <1>2, SliceOfBody
  <2> QED
    BY <2>1, <2>2
<1> HIDE DEF r, x, b
<1>6. BodyIn(w, q) = BodyIn(Store, q)
  BY <1>5, KeepsAgree, PiecesAgree
<1>7. StringOf(from) = x /\ Texts(Store)[from] = x
  BY StringsNow DEF Texts, x
<1>8. BodyIn(w, q) = SliceFrom(from, offset, length)
  BY <1>4, <1>5, <1>6, <1>7 DEF SliceFrom
<1>9. PICK k \in 0..Len(b) : \E m \in 0..Len(b) - k :
         Promise!SliceOf(b, offset, length) = Promise!SliceOf(b, k, m)
  BY <1>4, SliceWithin
<1>10. PICK m \in 0..Len(b) - k : BodyIn(w, q) = Promise!SliceOf(b, k, m)
  BY <1>5, <1>6, <1>9
<1>11. Offered(BodyIn(w, q), Texts(Store))
  <2> DEFINE ss == Texts(Store)
             text == BodyIn(w, q)
  <2>1. ss[from] # Promise!NoString /\ ss[from].body = b
    BY <1>4, <1>7
  <2>2. text = Promise!SliceOf(b, k, m)
    BY <1>10
  <2> HIDE DEF ss, text
  <2>3. Offered(text, ss)
    BY <2>1, <2>2 DEF Offered
  <2> QED
    BY <2>3 DEF ss, text
<1> QED
  BY <1>8, <1>11

\* A new ZCO with the pieces of a walk over another one.
LEMMA CreateFromPromised ==
    ASSUME ZcoInv, LengthsTrue(Store), FreeZcos # {}, NEW z, z = Min(FreeZcos), NEW a \in Accts,
           NEW from \in ZcoIds, zcos[from] # NoZco, NEW offset \in Nat, NEW length \in Nat,
           Become(ExtendByZco(NewZco(Store, z, a), z, from, offset, length))
    PROVE  Makes(SliceFrom(from, offset, length)) /\ ActsAsPromised
<1> DEFINE u == NewZco(Store, z, a)
           q == PiecesOf(from, offset, length)
           w == AllAdded(u, z, q)
<1>1. z \in ZcoIds /\ zcos[z] = NoZco
  BY FreshAddress
<1>2. ZcoPlaced(u, Store, z, a, {})
  BY <1>1, InvUnfolds, ZcoCreated DEF Sound
<1>3. /\ SoundWith(u, u.zcos, {}, {}) /\ u.zcos[z] # NoZco
      /\ u.liens = Store.liens /\ u.refs = Store.refs
      /\ \A k \in ZcoIds \ {z} : u.zcos[k] = Store.zcos[k]
  <2> HIDE DEF u
  <2> QED
    BY <1>1, <1>2, InvUnfolds, NewZcoBounded
<1>4. ExtendByZco(u, z, from, offset, length) = w
  <2>1. u.zcos[from] = zcos[from]
    BY <1>1, <1>3, InvUnfolds
  <2> HIDE DEF u
  <2> QED
    BY <2>1 DEF ExtendByZco, AllAdded, PiecesOf
<1>5. Become(w)
  BY <1>4
<1> HIDE DEF u
<1>6. q \in Seq(ZcoExtents) /\ \A i \in DOMAIN q : Standing(u, q[i])
  BY <1>3, PiecesStand DEF Standing
<1> HIDE DEF q
<1>7. Sound(w) /\ Continued(w, u, z, q)
  BY <1>1, <1>3, <1>6, AllAddedReads DEF Sound
<1> HIDE DEF w
<1>8. Keeps(w, Store) /\ q \in Seq(ExtentsIn(w))
  <2>1. Keeps(w, u) /\ q \in Seq(ExtentsIn(w))
    BY <1>7 DEF Continued
  <2> QED
    BY <1>3, <2>1 DEF Keeps
<1> DEFINE text == BodyIn(w, q)
<1>9. Offered(text, Texts(Store)) /\ text = SliceFrom(from, offset, length)
  BY <1>8, CitedSlice DEF q
<1>10. Lengthened(w, u, z, text)
  BY <1>1, <1>3, <1>7, MoreText
<1> HIDE DEF text
<1>11. Alike(Store, Store) /\ SoundWith(Store, Store.zcos, {}, {}) /\ Store.zcos[z] = NoZco
  BY <1>1, InvUnfolds DEF Alike, Sound
<1>12. Made(w, Store, z, text)
  BY <1>1, <1>2, <1>7, <1>10, <1>11, NewTextAsPromised
<1> QED
  BY <1>1, <1>5, <1>9, <1>12, MadeSeen

\* All of the source data is the whole body.
LEMMA WholeSlice ==
    ASSUME ZcoInv, LengthsTrue(Store), NEW from \in ZcoIds, zcos[from] # NoZco
    PROVE  SliceFrom(from, 0, DataLength(from)) = StringOf(from).body
<1> DEFINE x == zcos[from]
           b == BodyIn(Store, x.extents)
<1>1. x.extents \in Seq(ExtentsIn(Store)) /\ Store.zcos = zcos /\ x \in Zcos
  BY ContentsOf, InvUnfolds
<1>2. StringOf(from).body = b /\ b \in Seq(Bytes)
  BY <1>1, StringsNow, BodiesJoin DEF StringAt, AString
<1>3. x.totalLength = x.capsuleLength + Len(b)
  BY <1>1 DEF LengthsTrue, Whole
<1>4. x.capsuleLength \in Nat /\ Len(b) \in Nat
  BY <1>1, <1>2 DEF Zcos
<1> HIDE DEF x, b
<1>5. DataLength(from) = Len(b)
  BY <1>3, <1>4 DEF DataLength, x
<1>6. Promise!SliceOf(b, 0, Len(b)) = SubSeq(b, 1, Len(b))
  BY <1>4 DEF Promise!SliceOf
<1>7. SubSeq(b, 1, Len(b)) = b
  BY <1>2
<1> QED
  BY <1>2, <1>5, <1>6, <1>7 DEF SliceFrom

LEMMA CreateFromZcoPromised ==
    ASSUME ZcoInv, LengthsTrue(Store), NEW a \in Accts, NEW from \in ZcoIds, NEW d,
           CreateFromZco(a, from, d)
    PROVE  Makes(StringOf(from).body) /\ ActsAsPromised
<1>1. FreeZcos # {} /\ zcos[from] # NoZco
      /\ Become(ExtendByZco(NewZco(Store, Min(FreeZcos), a), Min(FreeZcos), from, 0,
                            DataLength(from)))
  BY DEF CreateFromZco, Live
<1>2. DataLength(from) \in Nat
  BY <1>1, DataLengths
<1>3. Makes(SliceFrom(from, 0, DataLength(from))) /\ ActsAsPromised
  BY <1>1, <1>2, CreateFromPromised
<1>4. SliceFrom(from, 0, DataLength(from)) = StringOf(from).body
  BY <1>1, WholeSlice
<1> QED
  BY <1>3, <1>4

LEMMA ClonePromised ==
    ASSUME ZcoInv, LengthsTrue(Store), NEW from \in ZcoIds, NEW offset \in Nat,
           NEW length \in Nat, Clone(from, offset, length)
    PROVE  Makes(SliceFrom(from, offset, length)) /\ ActsAsPromised
<1>1. FreeZcos # {} /\ zcos[from] # NoZco
      /\ Become(ExtendByZco(NewZco(Store, Min(FreeZcos), zcos[from].acct), Min(FreeZcos), from,
                            offset, length))
  BY DEF Clone, Live
<1>2. zcos[from].acct \in Accts
  BY <1>1, InvUnfolds, ZcoTyped
<1> QED
  BY <1>1, <1>2, CreateFromPromised

LEMMA AppendFromZcoPromised ==
    ASSUME ZcoInv, LengthsTrue(Store), NEW z \in ZcoIds, NEW from \in ZcoIds, NEW offset \in Nat,
           NEW length \in Nat, AppendFromZco(z, from, offset, length)
    PROVE  Adds(z, SliceFrom(from, offset, length)) /\ ActsAsPromised
<1> DEFINE q == PiecesOf(from, offset, length)
           w == AllAdded(Store, z, q)
<1>1. /\ zcos[z] # NoZco /\ zcos[from] # NoZco
      /\ Become(ExtendByZco(Store, z, from, offset, length))
  BY DEF AppendFromZco, Live
<1>2. ExtendByZco(Store, z, from, offset, length) = w /\ Store.zcos = zcos /\ Sound(Store)
  <2>1. Store.zcos = zcos /\ Sound(Store)
    BY InvUnfolds
  <2> QED
    BY <2>1 DEF ExtendByZco, AllAdded, PiecesOf
<1>3. q \in Seq(ZcoExtents) /\ \A i \in DOMAIN q : Standing(Store, q[i])
  BY <1>1, PiecesStand
<1> HIDE DEF q
<1>4. Sound(w) /\ Continued(w, Store, z, q)
  <2>1. Store.zcos[z] # NoZco
    BY <1>1, <1>2
  <2> QED
    BY <1>2, <1>3, <2>1, AllAddedReads
<1> HIDE DEF w
<1>5. Keeps(w, Store) /\ q \in Seq(ExtentsIn(w))
  BY <1>4 DEF Continued
<1> DEFINE text == BodyIn(w, q)
<1>6. Offered(text, Texts(Store)) /\ text = SliceFrom(from, offset, length)
  BY <1>1, <1>5, CitedSlice DEF q
<1>7. SoundWith(Store, Store.zcos, {}, {}) /\ Store.zcos[z] # NoZco /\ Alike(Store, Store)
  BY <1>1, <1>2 DEF Alike, Sound
<1>8. Lengthened(w, Store, z, text)
  BY <1>4, <1>7, MoreText
<1> HIDE DEF text
<1>9. Joins(w, Store, z, text)
  BY <1>4, <1>7, <1>8, MoreTextAsPromised
<1> QED
  BY <1>1, <1>2, <1>6, <1>9, AddedSeen

(***************************************************************************)
(* Headers and delimitations.                                              *)
(***************************************************************************)
\* A header becomes text before what is attached.
LEMMA HeaderText ==
    ASSUME NEW o \in Objects, NEW h \in Seq(Objects)
    PROVE  /\ AttachedIn(<<o>> \o h) = TextIn(o, 0, Length[o]) \o AttachedIn(h)
           /\ TextIn(o, 0, Length[o]) \in Seq(Bytes) /\ Len(TextIn(o, 0, Length[o])) = Length[o]
           /\ TextIn(o, 0, Length[o]) = Promise!TextOf(o, 0, Length[o])
           /\ AttachedIn(h) \in Seq(Bytes)
<1>1. <<o>> \in Seq(Objects)
  OBVIOUS
<1>2. /\ AttachedIn(<<o>> \o h) = AttachedIn(<<o>>) \o AttachedIn(h)
      /\ AttachedIn(<<o>>) = Chunk(CapsuleOf(o)) /\ AttachedIn(h) \in Seq(Bytes)
      /\ Chunk(CapsuleOf(o)) \in Seq(Bytes) /\ Len(Chunk(CapsuleOf(o))) = Length[o]
  BY <1>1, AttachedJoin
<1>3. Chunk(CapsuleOf(o)) = TextIn(o, 0, Length[o])
  BY DEF Chunk, CapsuleOf, TextIn
<1>4. TextIn(o, 0, Length[o]) = Promise!TextOf(o, 0, Length[o])
  <2>1. 0 \in Nat /\ Length[o] \in Nat /\ 0 + Length[o] <= Length[o]
    BY Sizes
  <2> QED
    BY <2>1, TogetherInObject
<1> QED
  BY <1>2, <1>3, <1>4

\* The ZCO at z became y; the liens are the same.
Rewritten(u, s, z, y) ==
    /\ Sound(u) /\ u.liens = s.liens /\ u.zcos = [s.zcos EXCEPT ![z] = y] /\ y \in Zcos

\* A ZCO with the same extents has the same body.
LEMMA RewrittenStrings ==
    ASSUME NEW s, Sound(s), LengthsTrue(s), NEW z \in ZcoIds, s.zcos[z] # NoZco, NEW y, NEW u,
           Rewritten(u, s, z, y), Whole(s, y)
    PROVE  /\ LengthsTrue(u) /\ OnlyAt(u, s, z)
           /\ StringAt(u, z) = AString(AttachedIn(y.headers), BodyIn(s, y.extents),
                                       y.headersLength, y.sourceLength)
<1>1. /\ SoundWith(s, s.zcos, {}, {}) /\ s.zcos \in ZcoTables /\ u.liens = s.liens
      /\ SoundWith(u, u.zcos, {}, {}) /\ u.zcos = [s.zcos EXCEPT ![z] = y] /\ y \in Zcos
  BY DEF Rewritten, Sound, SoundWith
<1>2. u.zcos[z] = y /\ \A k \in ZcoIds \ {z} : u.zcos[k] = s.zcos[k]
  BY <1>1 DEF ZcoTables
<1>3. \A q : BodyIn(u, q) = BodyIn(s, q)
  BY <1>1 DEF BodyIn, PiecesIn, PieceOf
<1>4. Apart(u, s, z)
  BY <1>1, <1>2 DEF Apart, Agree
<1>5. Whole(u, u.zcos[z])
  BY <1>2, <1>3 DEF Whole
<1>6. LengthsTrue(u) /\ OnlyAt(u, s, z)
  BY <1>1, <1>4, <1>5, OthersKept
<1>7. y # NoZco
  BY <1>1, EntriesReal
<1> QED
  BY <1>2, <1>3, <1>6, <1>7 DEF StringAt

\* A header in front.
LEMMA HeaderAsPromised ==
    ASSUME NEW s, Sound(s), LengthsTrue(s), NEW z \in ZcoIds, s.zcos[z] # NoZco, NEW u,
           NEW o \in Objects, NEW y, y = WithHeader(s.zcos[z], o), Rewritten(u, s, z, y)
    PROVE  /\ AsPromised(u, s, z)
           /\ Promise!Prepended(StringAt(s, z), StringAt(u, z), Promise!TextOf(o, 0, Length[o]))
<1> DEFINE x == s.zcos[z]
           text == TextIn(o, 0, Length[o])
           h == AttachedIn(x.headers)
           b == BodyIn(s, x.extents)
<1>1. x \in Zcos /\ Whole(s, x) /\ x.headers \in Seq(Objects) /\ x.extents \in Seq(ExtentsIn(s))
  <2>1. SoundWith(s, s.zcos, {}, {}) /\ s.zcos \in ZcoTables
    BY DEF Sound, SoundWith
  <2>2. x \in Zcos
    BY <2>1 DEF ZcoTables
  <2> QED
    BY <2>1, <2>2, ZcoTyped, ExtentsHeld DEF LengthsTrue
<1>2. /\ y.extents = x.extents /\ y.headers = <<o>> \o x.headers
      /\ y.capsuleLength = x.capsuleLength + Length[o]
      /\ y.totalLength = x.totalLength + Length[o]
      /\ y.headersLength = x.headersLength /\ y.sourceLength = x.sourceLength
      /\ y.trailersLength = x.trailersLength
  BY <1>1, WithHeaderTyped
<1>3. /\ AttachedIn(y.headers) = text \o h /\ text \in Seq(Bytes) /\ h \in Seq(Bytes)
      /\ Len(text) = Length[o] /\ text = Promise!TextOf(o, 0, Length[o])
  BY <1>1, <1>2, HeaderText
<1>4. Whole(s, y)
  <2>1. /\ x.capsuleLength = Len(h) /\ x.totalLength = x.capsuleLength + Len(b)
        /\ x.headersLength + x.sourceLength + x.trailersLength = Len(b)
    BY <1>1 DEF Whole
  <2>2. Len(text \o h) = Len(text) + Len(h) /\ Len(h) \in Nat /\ Len(text) \in Nat
    BY <1>3, JoinedParts
  <2>3. Len(b) \in Nat
    BY <1>1, BodiesJoin
  <2>4. y.capsuleLength = Len(AttachedIn(y.headers))
    <3> HIDE DEF text, h, b
    <3> QED
      BY <1>2, <1>3, <2>1, <2>2
  <2>5. y.totalLength = y.capsuleLength + Len(b)
    <3>1. Length[o] \in Nat
      BY Sizes
    <3> HIDE DEF text, h, b
    <3> QED
      BY <1>2, <2>1, <2>2, <2>3, <3>1
  <2>6. y.headersLength + y.sourceLength + y.trailersLength = Len(b)
    BY <1>2, <2>1
  <2> QED
    BY <1>2, <2>4, <2>5, <2>6 DEF Whole
<1>5. /\ LengthsTrue(u) /\ OnlyAt(u, s, z)
      /\ StringAt(u, z) = AString(AttachedIn(y.headers), BodyIn(s, y.extents),
                                  y.headersLength, y.sourceLength)
  BY <1>4, RewrittenStrings
<1> DEFINE p == StringAt(s, z)
           r == StringAt(u, z)
           j == x.headersLength
           n == x.sourceLength
<1>6. p = AString(h, b, j, n)
  BY DEF StringAt
<1>7. r = AString(text \o h, b, j, n)
  BY <1>2, <1>3, <1>5
<1> HIDE DEF p, r, text, h, b, j, n
<1>8. p.attached = h /\ p # Promise!NoString
  BY <1>6, StringsReal DEF AString
<1>9. r = WithAttached(p, text \o p.attached)
  BY <1>6, <1>7, <1>8, StringChanged
<1>10. Promise!Prepended(p, r, text)
  BY <1>8, <1>9 DEF Promise!Prepended, WithAttached
<1>11. Promise!Changed(p, r, Texts(s))
  BY <1>3, <1>10 DEF Promise!Changed
<1> QED
  BY <1>3, <1>5, <1>10, <1>11 DEF AsPromised, p, r

LEMMA PrependHeaderPromised ==
    ASSUME ZcoInv, LengthsTrue(Store), NEW z \in ZcoIds, NEW o \in Objects, PrependHeader(z, o)
    PROVE  /\ Promise!Prepended(StringOf(z), StringOf(z)', Promise!TextOf(o, 0, Length[o]))
           /\ ActsAsPromised
<1> DEFINE u == Prepended(Store, z, o)
           y == WithHeader(Store.zcos[z], o)
<1>1. Store.zcos = zcos /\ Store.objects = objects /\ Sound(Store) /\ Store \in Stores
  BY InvUnfolds
<1>2. zcos[z] # NoZco /\ o \notin Store.objects /\ Medium[o] = "heap" /\ Become(u)
  BY <1>1 DEF PrependHeader, Live, FreeObjects, Prepended
<1>3. Sound(u) /\ u.zcos = [Store.zcos EXCEPT ![z] = y]
  BY <1>1, <1>2, HeaderCreated
<1>4. u.liens = Store.liens
  BY <1>1 DEF Prepended, Increase, Stores
<1>5. y \in Zcos
  BY <1>1, <1>2, InvUnfolds, WithHeaderTyped
<1> HIDE DEF u, y
<1>6. Rewritten(u, Store, z, y)
  BY <1>3, <1>4, <1>5 DEF Rewritten
<1>7. /\ AsPromised(u, Store, z)
      /\ Promise!Prepended(StringAt(Store, z), StringAt(u, z), Promise!TextOf(o, 0, Length[o]))
  <2>1. Store.zcos[z] # NoZco /\ y = WithHeader(Store.zcos[z], o)
    BY <1>1, <1>2 DEF y
  <2> QED
    BY <1>1, <1>6, <2>1, HeaderAsPromised
<1> QED
  BY <1>2, <1>7, StepSeen

\* Other limits between headers, source and trailers.
LEMMA LimitsAsPromised ==
    ASSUME NEW s, Sound(s), LengthsTrue(s), NEW z \in ZcoIds, s.zcos[z] # NoZco, NEW u,
           NEW i \in Nat, NEW n \in Nat, NEW r \in Nat,
           i + n + r = s.zcos[z].totalLength - s.zcos[z].capsuleLength,
           NEW y, y = Delimited(s.zcos[z], i, n, r), Rewritten(u, s, z, y)
    PROVE  AsPromised(u, s, z) /\ Promise!Delimited(StringAt(s, z), StringAt(u, z), i, n)
<1> DEFINE x == s.zcos[z]
           h == AttachedIn(x.headers)
           b == BodyIn(s, x.extents)
<1>1. x \in Zcos /\ Whole(s, x) /\ x.extents \in Seq(ExtentsIn(s))
  <2>1. SoundWith(s, s.zcos, {}, {}) /\ s.zcos \in ZcoTables
    BY DEF Sound, SoundWith
  <2> QED
    BY <2>1, ExtentsHeld DEF LengthsTrue, ZcoTables
<1>2. /\ y.extents = x.extents /\ y.headers = x.headers
      /\ y.capsuleLength = x.capsuleLength /\ y.totalLength = x.totalLength
      /\ y.headersLength = i /\ y.sourceLength = n /\ y.trailersLength = r
  BY <1>1 DEF Zcos, Delimited
<1>3. Whole(s, y) /\ i + n <= Len(b) /\ Len(b) \in Nat
  <2>1. x.capsuleLength = Len(h) /\ x.totalLength = x.capsuleLength + Len(b)
    BY <1>1 DEF Whole
  <2>2. Len(b) \in Nat /\ x.capsuleLength \in Nat
    BY <1>1, BodiesJoin DEF Zcos
  <2>3. i + n + r = Len(b)
    <3> HIDE DEF b
    <3> QED
      BY <2>1, <2>2
  <2>4. i + n <= Len(b)
    BY <2>3
  <2> QED
    BY <1>2, <2>1, <2>2, <2>3, <2>4 DEF Whole
<1>4. /\ LengthsTrue(u) /\ OnlyAt(u, s, z)
      /\ StringAt(u, z) = AString(AttachedIn(y.headers), BodyIn(s, y.extents),
                                  y.headersLength, y.sourceLength)
  BY <1>3, RewrittenStrings
<1> DEFINE p == StringAt(s, z)
           t == StringAt(u, z)
           j == x.headersLength
           m == x.sourceLength
<1>5. p = AString(h, b, j, m)
  BY DEF StringAt
<1>6. t = AString(h, b, i, n)
  BY <1>2, <1>4
<1> HIDE DEF p, t, h, b, j, m
<1>7. t = WithLimits(p, i, n)
  BY <1>5, <1>6, StringChanged
<1>8. p.body = b /\ p # Promise!NoString
  BY <1>5, StringsReal DEF AString
<1>9. Promise!Delimited(p, t, i, n)
  BY <1>3, <1>7, <1>8 DEF Promise!Delimited, WithLimits
<1>10. i \in 0..Len(p.body) /\ n \in 0..Len(p.body) - i
  BY <1>3, <1>8
<1>11. Promise!Changed(p, t, Texts(s))
  BY <1>8, <1>9, <1>10 DEF Promise!Changed
<1> QED
  BY <1>4, <1>9, <1>11 DEF AsPromised, p, t

LEMMA DelimitPromised ==
    ASSUME ZcoInv, LengthsTrue(Store), NEW z \in ZcoIds, NEW offset \in Nat, NEW length \in Nat,
           Delimit(z, offset, length)
    PROVE  Promise!Delimited(StringOf(z), StringOf(z)', offset, length) /\ ActsAsPromised
<1> DEFINE rest == DataLength(z) - offset - length
           x == Delimited(zcos[z], offset, length, rest)
           u == WithZco(Store, z, x)
<1>1. zcos[z] # NoZco /\ offset + length <= DataLength(z)
      /\ Become([Store EXCEPT !.zcos[z].headersLength = offset, !.zcos[z].sourceLength = length,
                              !.zcos[z].trailersLength = DataLength(z) - offset - length])
  BY DEF Delimit, Live
<1>2. Store.zcos = zcos /\ zcos \in ZcoTables /\ zcos[z] \in Zcos /\ Sound(Store)
      /\ Store \in Stores
  BY <1>1, InvUnfolds
<1>3. rest \in Nat /\ offset + length + rest = zcos[z].totalLength - zcos[z].capsuleLength
  <2>1. DataLength(z) \in Nat
    BY <1>1, DataLengths
  <2>2. DataLength(z) = zcos[z].totalLength - zcos[z].capsuleLength
    BY DEF DataLength
  <2>3. rest \in Nat /\ offset + length + rest = DataLength(z)
    BY <1>1, <2>1
  <2> QED
    BY <2>2, <2>3
<1>4. u = [Store EXCEPT !.zcos[z].headersLength = offset, !.zcos[z].sourceLength = length,
                        !.zcos[z].trailersLength = rest]
  BY <1>2 DEF WithZco, Delimited, Stores, ZcoTables
<1>5. Become(u)
  BY <1>1, <1>4
<1> HIDE DEF rest
<1>6. x \in Zcos /\ x.acct = zcos[z].acct /\ x.extents = zcos[z].extents
      /\ x.headers = zcos[z].headers /\ x.capsuleLength = zcos[z].capsuleLength
      /\ x.totalLength = zcos[z].totalLength
  BY <1>2, <1>3 DEF Zcos, Delimited
<1> HIDE DEF x
<1>7. Sound(u)
  BY <1>1, <1>2, <1>6, LengthsSet DEF Sound
<1>8. u.liens = Store.liens /\ u.zcos = [Store.zcos EXCEPT ![z] = x]
  BY <1>2 DEF WithZco, Stores
<1> HIDE DEF u
<1>9. Rewritten(u, Store, z, x)
  BY <1>6, <1>7, <1>8 DEF Rewritten
<1>10. /\ AsPromised(u, Store, z)
       /\ Promise!Delimited(StringAt(Store, z), StringAt(u, z), offset, length)
  <2>1. /\ Store.zcos[z] # NoZco /\ x = Delimited(Store.zcos[z], offset, length, rest)
        /\ offset + length + rest = Store.zcos[z].totalLength - Store.zcos[z].capsuleLength
    BY <1>1, <1>2, <1>3 DEF x
  <2> QED
    BY <1>2, <1>3, <1>9, <2>1, LimitsAsPromised
<1> QED
  BY <1>5, <1>10, StepSeen

\* References are none of the clients' business.
ActsUnseen == \E w : Become(w) /\ Alike(w, Store)

LEMMA CreateRefUnseen ==
    ASSUME ZcoInv, NEW o \in Objects, CreateRef(o)
    PROVE  ActsUnseen
<1> DEFINE u == [Store EXCEPT !.objects = @ \cup {o}, !.refs[o] = NewRef(FALSE)]
<1>1. Become(u)
  BY DEF CreateRef
<1>2. u.zcos = Store.zcos /\ u.liens = Store.liens
  BY DEF Store
<1> HIDE DEF u
<1> QED
  BY <1>1, <1>2 DEF ActsUnseen, Alike

LEMMA DestroyRefUnseen ==
    ASSUME ZcoInv, NEW o \in Objects, DestroyRef(o)
    PROVE  ActsUnseen
<1> DEFINE u == IF refs[o].count = NoCitation THEN DropRef(Store, o)
                ELSE [Store EXCEPT !.refs[o].okayToDestroy = TRUE]
<1>1. Become(u)
  BY DEF DestroyRef
<1>2. u.zcos = Store.zcos /\ u.liens = Store.liens
  BY DEF DropRef, Store
<1> HIDE DEF u
<1> QED
  BY <1>1, <1>2 DEF ActsUnseen, Alike

(***************************************************************************)
(* Bonding.                                                                *)
(***************************************************************************)
\* The headers after the first i are in the body of the ZCO at z.
Refilled(t, s, z, i) ==
    /\ Keeps(t, s)
    /\ BodyIn(t, t.zcos[z].extents)
         = AttachedIn(SubSeq(s.zcos[z].headers, i + 1, Len(s.zcos[z].headers)))
             \o BodyIn(s, s.zcos[z].extents)

\* The object o in front of the extents q, under the lien l.
InFront(u, t, q, o, l) ==
    /\ Keeps(u, t)
    /\ BodyIn(u, <<ExtentOf(l, 0, Length[o])>> \o q) = AttachedIn(<<o>>) \o BodyIn(t, q)

\* A new extent in front, under a lien that the store did not hold.
LEMMA BodyInFront ==
    ASSUME NEW t, NEW L, NEW O, NEW v, SoundWith(t, v, L, O), NEW z \in ZcoIds, v[z] # NoZco,
           NEW o \in Objects, NEW l \in LienIds, t.liens[l] = NoLien, NEW a \in Accts, NEW u,
           BondMade(u, t, z, o, a, l)
    PROVE  InFront(u, t, v[z].extents, o, l)
<1> DEFINE e == ExtentOf(l, 0, Length[o])
           E == v[z].extents
<1>1. /\ u.liens[l] = BondLien(o, a) /\ \A k \in LienIds \ {l} : u.liens[k] = t.liens[k]
      /\ u.refs[o] = BondRef(a) /\ \A k \in Objects \ {o} : u.refs[k] = t.refs[k]
  BY DEF BondMade
<1>2. /\ u.liens[l] # NoLien /\ u.liens[l].ref = o /\ u.refs[o] # NoRef
  BY <1>1, BondTyped
<1>3. Keeps(u, t)
  BY <1>1, <1>2 DEF Keeps
<1>4. E \in Seq(ExtentsIn(t))
  BY ExtentsHeld
<1>5. e \in ExtentsIn(u) /\ PieceOf(u, e) = CapsuleOf(o)
  <2>1. e \in ZcoExtents /\ e.lien = l /\ e.offset = 0 /\ e.length = Length[o]
    BY Sizes DEF ExtentOf, ZcoExtents
  <2> HIDE DEF e
  <2> QED
    BY <1>2, <2>1 DEF ExtentsIn, PieceOf, CapsuleOf
<1> HIDE DEF e, E
<1>6. BodyIn(u, E) = BodyIn(t, E) /\ E \in Seq(ExtentsIn(u))
  BY <1>3, <1>4, KeepsAgree, SequencesOver, PiecesAgree
<1>7. BodyIn(u, <<e>> \o E) = BodyIn(u, <<e>>) \o BodyIn(u, E)
  <2>1. <<e>> \in Seq(ExtentsIn(u))
    BY <1>5
  <2> QED
    BY <1>6, <2>1, BodiesJoin
<1>8. BodyIn(u, <<e>>) = AttachedIn(<<o>>)
  BY <1>5, BodiesJoin, AttachedJoin
<1> QED
  BY <1>3, <1>6, <1>7, <1>8 DEF e, E, InFront

\* Stores keep what the ones before them keep.
LEMMA KeepsOn ==
    ASSUME NEW s, NEW t, NEW u, Keeps(t, s), Keeps(u, t)
    PROVE  Keeps(u, s)
BY DEF Keeps

\* One turn of bonding.
LEMMA RefillTurn ==
    ASSUME NEW s, Sound(s), NEW z \in ZcoIds, s.zcos[z] # NoZco,
           NEW i \in 1..Len(s.zcos[z].headers), NEW t, NEW y, Left(t, s, z, i, y),
           Refilled(t, s, z, i)
    PROVE  Refilled(BondHeader(t, z, s.zcos[z].headers[i]), s, z, i - 1)
<1> DEFINE k == s.zcos[z]
           q == k.headers
           o == q[i]
           n == Len(q)
           H == SubSeq(q, i + 1, n)
           b == BodyIn(s, k.extents)
           v == [s.zcos EXCEPT ![z] = y]
           u == BondHeader(t, z, o)
<1>1. k \in Zcos /\ q \in Seq(Objects) /\ s.zcos \in ZcoTables /\ k.acct \in Accts
      /\ SoundWith(s, s.zcos, {}, {})
  <2>1. s.zcos \in ZcoTables /\ SoundWith(s, s.zcos, {}, {})
    BY DEF Sound, SoundWith
  <2>2. k \in Zcos
    BY <2>1 DEF ZcoTables
  <2> QED
    BY <2>1, <2>2, ZcoTyped
<1>2. /\ SubSeq(q, i, n) = <<o>> \o H /\ o \in Objects /\ H \in Seq(Objects)
      /\ (i - 1) + 1 = i
  <2>1. (i - 1) + 1 = i
    OBVIOUS
  <2> HIDE DEF q
  <2> QED
    BY <1>1, <2>1, BackOf DEF q
<1>3. PICK l : HeaderTaken(t, y, z, o, k.acct, i - 1, l)
  BY NextBonded
<1> HIDE DEF o, H, n, u
<1>4. l \in LienIds /\ t.liens[l] = NoLien /\ BondMade(u, t, z, o, k.acct, l)
  BY <1>3 DEF HeaderTaken, u
<1>5. /\ y \in Zcos /\ SoundWith(t, v, {}, {})
      /\ t.zcos = [s.zcos EXCEPT ![z] = [k EXCEPT !.extents = y.extents]]
  BY DEF Left
<1>6. v[z] = y /\ v[z] # NoZco
  BY <1>1, <1>5, EntriesReal DEF ZcoTables
<1>7. t.zcos[z].extents = y.extents /\ z \in DOMAIN t.zcos
      /\ "extents" \in DOMAIN t.zcos[z]
  BY <1>1, <1>5 DEF ZcoTables, Zcos
<1> HIDE DEF v, k, q
<1> DEFINE e == ExtentOf(l, 0, Length[o])
<1>8. Keeps(u, t) /\ BodyIn(u, <<e>> \o y.extents) = AttachedIn(<<o>>) \o BodyIn(t, y.extents)
  <2>1. InFront(u, t, v[z].extents, o, l)
    BY <1>1, <1>2, <1>4, <1>5, <1>6, BodyInFront DEF k
  <2> QED
    BY <1>6, <2>1 DEF InFront
<1>9. u.zcos[z].extents = <<e>> \o y.extents
  <2> DEFINE p == t.zcos
  <2>1. u.zcos = [p EXCEPT ![z].extents = <<e>> \o @]
    BY <1>4 DEF BondMade
  <2>2. z \in DOMAIN p /\ "extents" \in DOMAIN p[z] /\ p[z].extents = y.extents
    BY <1>7
  <2> HIDE DEF p, e
  <2> QED
    BY <2>1, <2>2
<1> HIDE DEF e
<1>10. Keeps(t, s) /\ BodyIn(t, y.extents) = AttachedIn(H) \o b
  BY <1>7 DEF Refilled, H, n, q, k
<1>11. BodyIn(u, u.zcos[z].extents) = AttachedIn(<<o>>) \o (AttachedIn(H) \o b)
  BY <1>8, <1>9, <1>10
<1>12. AttachedIn(SubSeq(q, i, n)) = AttachedIn(<<o>>) \o AttachedIn(H)
       /\ AttachedIn(<<o>>) \in Seq(Bytes) /\ AttachedIn(H) \in Seq(Bytes)
  <2>1. <<o>> \in Seq(Objects)
    BY <1>2
  <2> QED
    BY <1>2, <2>1, AttachedJoin
<1>13. b \in Seq(Bytes)
  <2>1. k.extents \in Seq(ExtentsIn(s))
    BY <1>1, ExtentsHeld DEF k
  <2> QED
    BY <2>1, BodiesJoin
<1> HIDE DEF b
<1>14. BodyIn(u, u.zcos[z].extents) = AttachedIn(SubSeq(q, i, n)) \o b
  <2> DEFINE c == AttachedIn(<<o>>)
             d == AttachedIn(H)
  <2>1. c \in Seq(Bytes) /\ d \in Seq(Bytes)
    BY <1>12
  <2> HIDE DEF c, d
  <2>2. c \o (d \o b) = (c \o d) \o b
    BY <1>13, <2>1, ConcatAssociative
  <2> QED
    BY <1>11, <1>12, <2>2 DEF c, d
<1>15. Keeps(u, s)
  BY <1>8, <1>10, KeepsOn
<1> QED
  BY <1>2, <1>14, <1>15 DEF Refilled, u, o, n, q, k, b

\* All the headers are in the body.
LEMMA AllRefilled ==
    ASSUME NEW s, Sound(s), NEW z \in ZcoIds, s.zcos[z] # NoZco,
           Cardinality(FreeIn(s)) >= Len(s.zcos[z].headers),
           NEW t, t = AllBonded(s, z, s.zcos[z].headers)
    PROVE  Refilled(t, s, z, 0) /\ \E y : Left(t, s, z, 0, y)
<1> DEFINE k == s.zcos[z]
           q == k.headers
           n == Len(q)
           b == BodyIn(s, k.extents)
           R == {r \in (0..n) \X Stores :
                    Refilled(r[2], s, z, r[1]) /\ \E y : Left(r[2], s, z, r[1], y)}
<1>1. /\ s \in Stores /\ s.zcos \in ZcoTables /\ k \in Zcos /\ q \in Seq(Objects)
      /\ n \in Nat /\ DOMAIN q = 1..n /\ Len(k.extents) \in Nat
      /\ SoundWith(s, s.zcos, {}, {})
  <2>1. s \in Stores /\ s.zcos \in ZcoTables /\ SoundWith(s, s.zcos, {}, {})
    BY DEF Sound, SoundWith
  <2>2. k \in Zcos
    BY <2>1 DEF ZcoTables
  <2>3. q \in Seq(Objects) /\ Len(k.extents) \in Nat
    BY <2>2, ZcoTyped
  <2> HIDE DEF q
  <2> QED
    BY <2>1, <2>2, <2>3
<1>2. PICK h : /\ Taken(h, "bond", z, 0, q, s, FirstChoice(n), 1..n)
               /\ AllBonded(s, z, q) = h[1..n]
  <2> HIDE DEF q
  <2> QED
    BY <1>1, Bonding DEF FromRight
<1>3. Left(s, s, z, n, k)
  <2>1. SubSeq(q, 1, n) = q
    <3> HIDE DEF q
    <3> QED
      BY <1>1
  <2>2. [s.zcos EXCEPT ![z] = k] = s.zcos /\ [k EXCEPT !.extents = k.extents] = k
    BY <1>1 DEF ZcoTables, Zcos
  <2>3. Len(k.extents) = Len(k.extents) + (n - n)
    BY <1>1
  <2> HIDE DEF k
  <2> QED
    BY <1>1, <2>1, <2>2, <2>3 DEF Left, k
<1>4. Refilled(s, s, z, n)
  <2>1. SubSeq(q, n + 1, n) = <<>>
    <3> HIDE DEF q
    <3> QED
      BY <1>1
  <2>2. b \in Seq(Bytes)
    BY <1>1, ExtentsHeld, BodiesJoin
  <2>3. AttachedIn(<<>>) \o b = b
    <3> HIDE DEF b
    <3>1. <<>> \o b = b
      BY <2>2, ConcatEmptySeq
    <3> QED
      BY <3>1, AttachedJoin
  <2>4. Keeps(s, s)
    BY DEF Keeps
  <2> QED
    BY <2>1, <2>3, <2>4 DEF Refilled
<1>5. <<n, s>> \in R
  BY <1>1, <1>3, <1>4
<1>6. ASSUME NEW i \in 1..n, NEW r, <<i, r>> \in R
      PROVE  <<i - 1, Turn("bond", z, 0, r, q[i])>> \in R
  <2> DEFINE u == BondHeader(r, z, q[i])
  <2>1. PICK y : Refilled(r, s, z, i) /\ Left(r, s, z, i, y)
    BY <1>6
  <2>2. Refilled(u, s, z, i - 1) /\ \E x : Left(u, s, z, i - 1, x)
    <3> HIDE DEF R
    <3>1. \E x : Left(u, s, z, i - 1, x)
      BY <2>1, BondTurn
    <3>2. Refilled(u, s, z, i - 1)
      BY <2>1, RefillTurn
    <3> QED
      BY <3>1, <3>2
  <2>3. Turn("bond", z, 0, r, q[i]) = u
    BY DEF Turn
  <2>4. u \in Stores
    <3> HIDE DEF u
    <3> QED
      BY <2>2 DEF Left, SoundWith
  <2> HIDE DEF u
  <2>5. <<i - 1, u>> \in (0..n) \X Stores
    BY <1>1, <2>4
  <2> QED
    BY <2>2, <2>3, <2>5
<1> HIDE DEF R
<1>7. <<0, h[1..n]>> \in R
  <2> HIDE DEF n, q
  <2> QED
    BY <1>1, <1>2, <1>5, <1>6, RightTurns
<1>8. t = h[1..n]
  BY <1>2
<1> HIDE DEF n, q
<1>9. <<0, t>> \in R
  BY <1>7, <1>8
<1> QED
  BY <1>9 DEF R

\* The ZCO at z after it was settled.
SettledZco(x, c) == [x EXCEPT !.headers = <<>>, !.sourceLength = x.sourceLength + c,
                              !.capsuleLength = 0]

\* What settling does to the ZCO and to the liens.
SettledAt(u, t, z, c) == u.liens = t.liens /\ u.zcos[z] = SettledZco(t.zcos[z], c)

LEMMA SettledMade ==
    ASSUME NEW t \in Stores, NEW z \in ZcoIds, t.zcos[z] \in Zcos, NEW c
    PROVE  SettledAt(Settled(t, z, c), t, z, c)
<1> DEFINE S == t.zcos[z].sourceLength + c
           w == [t EXCEPT !.zcos[z].headers = <<>>, !.zcos[z].sourceLength = S,
                          !.zcos[z].capsuleLength = 0]
<1>1. Settled(t, z, c) = w
  BY DEF Settled
<1>2. SettledZco(t.zcos[z], c)
        = [t.zcos[z] EXCEPT !.headers = <<>>, !.sourceLength = S, !.capsuleLength = 0]
  BY DEF SettledZco
<1> HIDE DEF S
<1>3. "zcos" \in DOMAIN t /\ z \in DOMAIN t.zcos
  BY DEF Stores
<1>4. w.zcos[z] = [t.zcos[z] EXCEPT !.headers = <<>>, !.sourceLength = S, !.capsuleLength = 0]
      /\ w.liens = t.liens
  BY <1>3
<1> HIDE DEF w
<1> QED
  BY <1>1, <1>2, <1>4 DEF SettledAt

\* A ZCO whose headers went into the body.
Joined(x, k, c) ==
    /\ x.headers = <<>> /\ x.capsuleLength = 0 /\ x.totalLength = k.totalLength
    /\ x.headersLength = k.headersLength /\ x.trailersLength = k.trailersLength
    /\ x.sourceLength = k.sourceLength + c

LEMMA SettledJoined ==
    ASSUME NEW k \in Zcos, NEW E \in Seq(ZcoExtents), NEW g, g = [k EXCEPT !.extents = E], NEW c
    PROVE  /\ g \in Zcos /\ g.extents = E
           /\ Joined(SettledZco(g, c), k, c) /\ SettledZco(g, c).extents = E
<1>1. /\ g \in Zcos /\ g.extents = E /\ g.totalLength = k.totalLength
      /\ g.headersLength = k.headersLength /\ g.trailersLength = k.trailersLength
      /\ g.sourceLength = k.sourceLength
  BY DEF Zcos
<1> DEFINE S == g.sourceLength + c
           x == [g EXCEPT !.headers = <<>>, !.sourceLength = S, !.capsuleLength = 0]
<1>2. SettledZco(g, c) = x
  BY DEF SettledZco
<1> HIDE DEF S
<1>3. /\ x.headers = <<>> /\ x.capsuleLength = 0 /\ x.sourceLength = S /\ x.extents = g.extents
      /\ x.totalLength = g.totalLength /\ x.headersLength = g.headersLength
      /\ x.trailersLength = g.trailersLength
  BY <1>1 DEF Zcos
<1> HIDE DEF x
<1>4. S = k.sourceLength + c
  BY <1>1 DEF S
<1> QED
  BY <1>1, <1>2, <1>3, <1>4 DEF Joined

\* The stores around the bond of all headers.
BondStore(u, s, z) ==
    /\ Apart(u, s, z) /\ Joined(u.zcos[z], s.zcos[z], s.zcos[z].capsuleLength)
    /\ BodyIn(u, u.zcos[z].extents)
         = AttachedIn(s.zcos[z].headers) \o BodyIn(s, s.zcos[z].extents)

LEMMA BondStored ==
    ASSUME NEW s, Sound(s), NEW z \in ZcoIds, s.zcos[z] # NoZco,
           Cardinality(FreeIn(s)) >= Len(s.zcos[z].headers), NEW u,
           u = Settled(AllBonded(s, z, s.zcos[z].headers), z, s.zcos[z].capsuleLength)
    PROVE  BondStore(u, s, z)
<1> DEFINE k == s.zcos[z]
           q == k.headers
           c == k.capsuleLength
           t == AllBonded(s, z, q)
<1>1. k \in Zcos /\ q \in Seq(Objects) /\ s.zcos \in ZcoTables
  <2>1. s.zcos \in ZcoTables
    BY DEF Sound, SoundWith
  <2>2. k \in Zcos
    BY <2>1 DEF ZcoTables
  <2> QED
    BY <2>1, <2>2, ZcoTyped
<1>2. Refilled(t, s, z, 0) /\ \E y : Left(t, s, z, 0, y)
  BY AllRefilled
<1>3. Grown(u, s, z, Len(q))
  BY BondDone
<1>4. u = Settled(t, z, c)
  OBVIOUS
<1> HIDE DEF t, c
<1>5. PICK y : Left(t, s, z, 0, y)
  BY <1>2
<1>6. /\ y \in Zcos /\ t \in Stores
      /\ t.zcos = [s.zcos EXCEPT ![z] = [k EXCEPT !.extents = y.extents]]
  BY <1>5 DEF Left, SoundWith
<1>7. t.zcos[z] = [k EXCEPT !.extents = y.extents] /\ y.extents \in Seq(ZcoExtents)
  BY <1>1, <1>6, ZcoTyped DEF ZcoTables
<1> DEFINE g == t.zcos[z]
<1>8. g \in Zcos /\ Joined(SettledZco(g, c), k, c) /\ SettledZco(g, c).extents = y.extents
      /\ g.extents = y.extents
  <2> DEFINE E == y.extents
  <2>1. E \in Seq(ZcoExtents) /\ g = [k EXCEPT !.extents = E]
    BY <1>7
  <2> HIDE DEF E, g, k
  <2>2. g \in Zcos /\ g.extents = E /\ Joined(SettledZco(g, c), k, c)
        /\ SettledZco(g, c).extents = E
    BY <1>1, <2>1, SettledJoined
  <2> QED
    BY <2>2 DEF E
<1>9. u.liens = t.liens /\ u.zcos[z] = SettledZco(g, c)
  <2>1. t.zcos[z] \in Zcos
    BY <1>8
  <2> HIDE DEF g, k
  <2>2. SettledAt(Settled(t, z, c), t, z, c)
    BY <1>6, <2>1, SettledMade
  <2>3. SettledAt(u, t, z, c)
    BY <1>4, <2>2
  <2> QED
    BY <2>3 DEF SettledAt, g
<1> HIDE DEF g
<1>10. BodyIn(u, u.zcos[z].extents) = BodyIn(t, g.extents)
  <2>1. u.zcos[z].extents = g.extents
    BY <1>8, <1>9
  <2> QED
    BY <1>9, <2>1 DEF BodyIn, PiecesIn, PieceOf
<1>11. Keeps(t, s) /\ BodyIn(t, g.extents) = AttachedIn(q) \o BodyIn(s, k.extents)
  <2>1. SubSeq(q, 0 + 1, Len(q)) = q
    <3> HIDE DEF q
    <3> QED
      BY <1>1
  <2> QED
    BY <1>2, <2>1 DEF Refilled, g
<1>12. Apart(u, s, z)
  <2>1. Agree(t, s)
    BY <1>11, KeepsAgree
  <2>2. Agree(u, s)
    BY <1>9, <2>1 DEF Agree
  <2> QED
    BY <1>3, <2>2 DEF Apart, Grown
<1>13. Joined(u.zcos[z], k, c)
  BY <1>8, <1>9
<1> QED
  BY <1>10, <1>11, <1>12, <1>13 DEF BondStore, c

LEMMA BondAsPromised ==
    ASSUME NEW s, Sound(s), LengthsTrue(s), NEW z \in ZcoIds, s.zcos[z] # NoZco,
           NEW u, Sound(u), u.zcos[z] # NoZco, BondStore(u, s, z)
    PROVE  AsPromised(u, s, z) /\ Promise!Bonded(StringAt(s, z), StringAt(u, z))
<1> DEFINE k == s.zcos[z]
           x == u.zcos[z]
           h == AttachedIn(k.headers)
           b == BodyIn(s, k.extents)
           c == BodyIn(u, x.extents)
<1>1. /\ SoundWith(s, s.zcos, {}, {}) /\ SoundWith(u, u.zcos, {}, {}) /\ k \in Zcos
      /\ Whole(s, k)
  <2>1. SoundWith(s, s.zcos, {}, {}) /\ SoundWith(u, u.zcos, {}, {}) /\ s.zcos \in ZcoTables
    BY DEF Sound, SoundWith
  <2> QED
    BY <2>1 DEF ZcoTables, LengthsTrue
<1>2. /\ Apart(u, s, z) /\ Joined(x, k, k.capsuleLength) /\ c = h \o b
  BY DEF BondStore
<1>3. b \in Seq(Bytes) /\ h \in Seq(Bytes)
  <2>1. k.extents \in Seq(ExtentsIn(s)) /\ k.headers \in Seq(Objects)
    BY <1>1, ExtentsHeld, ZcoTyped
  <2> QED
    BY <2>1, BodiesJoin, AttachedJoin
<1>4. Len(b) \in Nat /\ Len(h) \in Nat /\ Len(h \o b) = Len(h) + Len(b)
  <2> HIDE DEF b, h
  <2>1. Len(b) \in Nat /\ Len(h) \in Nat
    BY <1>3
  <2> QED
    BY <1>3, <2>1, JoinedParts
<1>5. /\ k.capsuleLength = Len(h) /\ k.totalLength = k.capsuleLength + Len(b)
      /\ k.headersLength + k.sourceLength + k.trailersLength = Len(b)
      /\ k.headersLength \in Nat /\ k.sourceLength \in Nat /\ k.trailersLength \in Nat
      /\ k.capsuleLength \in Nat /\ k.totalLength \in Nat
  BY <1>1 DEF Whole, Zcos
<1> DEFINE j == k.headersLength
           n == k.sourceLength
<1>6. /\ x.headers = <<>> /\ x.capsuleLength = 0 /\ x.totalLength = k.totalLength
      /\ x.headersLength = j /\ x.trailersLength = k.trailersLength
      /\ x.sourceLength = n + Len(h)
  BY <1>2, <1>5 DEF Joined
<1>7. Whole(u, x)
  <2>1. AttachedIn(x.headers) = <<>> /\ Len(<<>>) = 0
    BY <1>6, AttachedJoin
  <2> HIDE DEF h, b, c, x, k
  <2>2. x.capsuleLength = Len(AttachedIn(x.headers))
    BY <1>6, <2>1
  <2>3. x.totalLength = x.capsuleLength + Len(c)
    BY <1>2, <1>4, <1>5, <1>6
  <2>4. x.headersLength + x.sourceLength + x.trailersLength = Len(c)
    <3> DEFINE m == k.trailersLength
               d == Len(h)
               e == Len(b)
    <3>1. j \in Nat /\ n \in Nat /\ m \in Nat /\ d \in Nat /\ e \in Nat /\ j + n + m = e
      BY <1>4, <1>5
    <3>2. /\ x.headersLength = j /\ x.sourceLength = n + d /\ x.trailersLength = m
          /\ Len(c) = d + e
      BY <1>2, <1>4, <1>6
    <3> HIDE DEF j, n, m, d, e
    <3>3. j + (n + d) + m = d + e
      BY <3>1
    <3> QED
      BY <3>2, <3>3
  <2> QED
    BY <2>2, <2>3, <2>4 DEF Whole, c
<1>8. LengthsTrue(u) /\ OnlyAt(u, s, z)
  BY <1>1, <1>2, <1>7, OthersKept
<1> DEFINE p == StringAt(s, z)
           r == StringAt(u, z)
<1>9. p = AString(h, b, j, n)
  BY DEF StringAt
<1>10. r = AString(<<>>, h \o b, j, n + Len(h))
  <2>1. AttachedIn(x.headers) = <<>>
    BY <1>6, AttachedJoin
  <2> QED
    BY <1>2, <1>6, <2>1 DEF StringAt
<1> HIDE DEF p, r, h, b, j, n
<1>11. /\ p.attached = h /\ p.body = b /\ p.left = j /\ p.source = n
       /\ p # Promise!NoString
  BY <1>9, StringsReal DEF AString
<1>12. Promise!Bonded(p, r)
  <2>1. r = Promise!StringOf(<<>>, h \o b, j, n + Len(h))
    BY <1>10, StringsReal
  <2> QED
    BY <1>11, <2>1 DEF Promise!Bonded
<1>13. Promise!Changed(p, r, Texts(s))
  BY <1>12 DEF Promise!Changed
<1> QED
  BY <1>8, <1>12, <1>13 DEF AsPromised, p, r

LEMMA BondPromised ==
    ASSUME ZcoInv, LengthsTrue(Store), NEW z \in ZcoIds, Bond(z)
    PROVE  Promise!Bonded(StringOf(z), StringOf(z)') /\ ActsAsPromised
<1> DEFINE q == zcos[z].headers
           u == Settled(AllBonded(Store, z, q), z, zcos[z].capsuleLength)
<1>1. zcos[z] # NoZco /\ Cardinality(FreeLiens) >= Len(q) /\ Become(u)
  BY DEF Bond, Live, Settled, AllBonded
<1>2. Store.zcos = zcos /\ FreeIn(Store) = FreeLiens /\ Sound(Store)
  BY InvUnfolds
<1>3. /\ Cardinality(FreeIn(Store)) >= Len(Store.zcos[z].headers) /\ Store.zcos[z] # NoZco
      /\ u = Settled(AllBonded(Store, z, Store.zcos[z].headers), z,
                     Store.zcos[z].capsuleLength)
  BY <1>1, <1>2
<1> HIDE DEF u, q
<1>4. Grown(u, Store, z, Len(Store.zcos[z].headers)) /\ BondStore(u, Store, z)
  BY <1>2, <1>3, BondDone, BondStored
<1>5. Sound(u) /\ u.zcos[z] # NoZco
  BY <1>4 DEF Grown
<1>6. AsPromised(u, Store, z) /\ Promise!Bonded(StringAt(Store, z), StringAt(u, z))
  BY <1>2, <1>3, <1>4, <1>5, BondAsPromised
<1> QED
  BY <1>1, <1>6, StepSeen

(***************************************************************************)
(* Destroying.                                                             *)
(***************************************************************************)
\* The liens of a store are among those of another one, and cite the same.
FewerLiens(u, s) ==
    \A l \in LienIds : u.liens[l] # NoLien =>
        s.liens[l] # NoLien /\ u.liens[l].ref = s.liens[l].ref

\* A record with the liens of another one.
SameLiens(u, s) == "liens" \in DOMAIN u /\ u.liens = s.liens

\* What is done to references and to the books leaves the liens alone.
LEMMA LiensUntouched ==
    ASSUME NEW s, "liens" \in DOMAIN s, NEW o, NEW a
    PROVE  /\ SameLiens(UnciteRef(s, o, a), s)
           /\ \A m, n : SameLiens(Reduce(s, a, m, n), s)
<1>1. ASSUME NEW p, "liens" \in DOMAIN p, NEW m, NEW n
      PROVE  SameLiens(Reduce(p, a, m, n), p)
  BY <1>1 DEF Reduce, SameLiens
<1> DEFINE one == [s EXCEPT !.refs[o].count[a] = @ - 1]
           n == RefSize[Medium[o]]
           posted == IF one.refs[o].count[a] = 0 THEN Reduce(one, a, "heap", n) ELSE one
<1>2. SameLiens(one, s)
  BY DEF SameLiens
<1>3. UnciteRef(s, o, a) = IF UncitedRef(posted, o, a) THEN DropRef(posted, o) ELSE posted
  BY DEF UnciteRef
<1> HIDE DEF one, n
<1>4. SameLiens(posted, s)
  <2>1. SameLiens(Reduce(one, a, "heap", n), one)
    BY <1>1, <1>2 DEF SameLiens
  <2> QED
    BY <1>2, <2>1 DEF SameLiens
<1> HIDE DEF posted
<1>5. SameLiens(DropRef(posted, o), s)
  BY <1>4 DEF DropRef, SameLiens
<1> QED
  BY <1>1, <1>3, <1>4, <1>5

\* One citation less of a lien.
LEMMA FewerCited ==
    ASSUME NEW t \in Stores, NEW l \in LienIds, NEW a
    PROVE  FewerLiens(UnciteLien(t, l, a), t) /\ "liens" \in DOMAIN UnciteLien(t, l, a)
<1> DEFINE x == t.liens[l]
           one == [t EXCEPT !.liens[l].count[a] = @ - 1]
           p == Reduce(one, a, Medium[x.ref], x.length)
           q == Reduce(p, a, "heap", LienSize)
           r == UnciteRef(q, x.ref, a)
           posted == IF one.liens[l].count[a] = 0 THEN r ELSE one
           u == IF posted.liens[l].count = NoCitation
                THEN [posted EXCEPT !.liens[l] = NoLien] ELSE posted
<1>1. UnciteLien(t, l, a) = u
  BY DEF UnciteLien
<1>2. /\ "liens" \in DOMAIN t /\ DOMAIN t.liens = LienIds /\ x \in Liens \cup {NoLien}
  BY DEF Stores
<1> DEFINE y == [x EXCEPT !.count[a] = @ - 1]
<1>3. "liens" \in DOMAIN one /\ one.liens = [t.liens EXCEPT ![l] = y]
  BY <1>2
<1>4. y # NoLien => x # NoLien /\ y.ref = x.ref
  <2>1. CASE x = NoLien
    <3> DEFINE w == NoLien
    <3>1. DOMAIN w = {"is"}
      BY DEF NoLien
    <3> HIDE DEF w
    <3>2. [w EXCEPT !.count[a] = @ - 1] = [k \in {"is"} |-> w[k]] /\ w = [k \in {"is"} |-> w[k]]
      <4>1. w = [k \in {"is"} |-> w[k]]
        BY DEF w, NoLien
      <4> QED
        BY <3>1, <4>1
    <3> QED
      BY <2>1, <3>2 DEF w
  <2>2. CASE x \in Liens
    <3>1. x # NoLien
      BY <2>2, EntriesReal
    <3> HIDE DEF x
    <3>2. y.ref = x.ref
      BY <2>2 DEF Liens
    <3> QED
      BY <3>1, <3>2
  <2> QED
    BY <1>2, <2>1, <2>2
<1> HIDE DEF one, y
<1>5. SameLiens(posted, one)
  <2> HIDE DEF x
  <2>1. SameLiens(p, one)
    BY <1>3, LiensUntouched
  <2> HIDE DEF p
  <2>2. SameLiens(q, p)
    <3>1. "liens" \in DOMAIN p
      BY <2>1 DEF SameLiens
    <3> QED
      BY <3>1, LiensUntouched
  <2> HIDE DEF q
  <2>3. SameLiens(r, q)
    <3>1. "liens" \in DOMAIN q
      BY <2>2 DEF SameLiens
    <3> QED
      BY <3>1, LiensUntouched
  <2> HIDE DEF r
  <2> QED
    BY <1>3, <2>1, <2>2, <2>3 DEF SameLiens
<1> HIDE DEF posted
<1>6. posted.liens = [t.liens EXCEPT ![l] = y] /\ "liens" \in DOMAIN posted
  BY <1>3, <1>5 DEF SameLiens
<1>7. "liens" \in DOMAIN u
  BY <1>6
<1>8. \A k \in LienIds \ {l} : u.liens[k] = t.liens[k]
  BY <1>2, <1>6
<1>9. u.liens[l] = y \/ u.liens[l] = NoLien
  BY <1>2, <1>6
<1> HIDE DEF u
<1>10. FewerLiens(u, t)
  BY <1>4, <1>8, <1>9 DEF FewerLiens
<1> QED
  BY <1>1, <1>7, <1>10

\* Cutting all the extents makes no lien.
LEMMA FewerCut ==
    ASSUME NEW s, Sound(s), NEW z \in ZcoIds, s.zcos[z] # NoZco
    PROVE  FewerLiens(AllCut(s, s.zcos[z].acct, s.zcos[z].extents), s)
<1> DEFINE k == s.zcos[z]
           a == k.acct
           q == k.extents
           n == Len(q)
           R == {r \in (0..n) \X Stores :
                    FewerLiens(r[2], s) /\ \E y : CutTo(r[2], s, z, r[1], y)}
<1>1. /\ s \in Stores /\ s.zcos \in ZcoTables /\ k \in Zcos /\ q \in Seq(ZcoExtents)
      /\ n \in Nat /\ DOMAIN q = 1..n /\ \A i \in 1..n : q[i].lien \in LienIds
  <2>1. s \in Stores /\ s.zcos \in ZcoTables
    BY DEF Sound, SoundWith
  <2>2. k \in Zcos
    BY <2>1 DEF ZcoTables
  <2>3. q \in Seq(ZcoExtents)
    BY <2>2, ZcoTyped
  <2> HIDE DEF q
  <2>4. \A i \in 1..n : q[i] \in ZcoExtents
    BY <2>3
  <2> QED
    BY <2>1, <2>2, <2>3, <2>4 DEF ZcoExtents
<1>2. PICK h : /\ Taken(h, "cut", 0, a, q, s, LastChoice(n), 1..n)
               /\ AllCut(s, a, q) = h[1..n]
  <2> HIDE DEF q
  <2> QED
    BY <1>1, Cutting DEF FromLeft
<1>3. CutTo(s, s, z, 0, k)
  <2>1. SubSeq(q, 0 + 1, n) = q
    <3> HIDE DEF q
    <3> QED
      BY <1>1
  <2>2. [s.zcos EXCEPT ![z] = k] = s.zcos
    BY <1>1 DEF ZcoTables
  <2>3. SoundWith(s, s.zcos, {}, {})
    BY DEF Sound
  <2> HIDE DEF k
  <2> QED
    BY <1>1, <2>1, <2>2, <2>3 DEF CutTo, Reduced, k
<1>4. <<0, s>> \in R
  BY <1>1, <1>3 DEF FewerLiens
<1>5. ASSUME NEW i \in 1..n, NEW t, <<i - 1, t>> \in R
      PROVE  <<i, Turn("cut", 0, a, t, q[i])>> \in R
  <2> DEFINE w == UnciteLien(t, q[i].lien, a)
             u == Reduce(w, a, "heap", ExtentSize)
  <2>1. PICK y : CutTo(t, s, z, i - 1, y)
    BY <1>5
  <2>2. PICK x : CutTo(u, s, z, i, x)
    <3> HIDE DEF R
    <3> QED
      BY <2>1, CutTurn
  <2>3. Turn("cut", 0, a, t, q[i]) = u
    BY DEF Turn
  <2>4. FewerLiens(w, t) /\ "liens" \in DOMAIN w
    <3>1. t \in Stores /\ q[i].lien \in LienIds
      BY <1>1, <1>5
    <3> HIDE DEF R, q, a
    <3> QED
      BY <3>1, FewerCited
  <2>5. FewerLiens(t, s)
    BY <1>5
  <2>6. FewerLiens(u, s)
    <3> HIDE DEF w, R
    <3>1. SameLiens(u, w)
      BY <2>4, LiensUntouched
    <3> HIDE DEF u
    <3> QED
      BY <2>4, <2>5, <3>1 DEF FewerLiens, SameLiens
  <2>7. u \in Stores
    <3> HIDE DEF u
    <3> QED
      BY <2>2 DEF CutTo, Reduced, SoundWith
  <2> HIDE DEF u
  <2>8. <<i, u>> \in (0..n) \X Stores
    BY <1>1, <2>7
  <2> QED
    BY <2>2, <2>3, <2>6, <2>8
<1> HIDE DEF R
<1>6. <<n, h[1..n]>> \in R
  <2> HIDE DEF n, q, a
  <2> QED
    BY <1>1, <1>2, <1>4, <1>5, LeftTurns
<1> QED
  BY <1>2, <1>6 DEF R

\* Destroying headers leaves the liens alone.
LEMMA SameBared ==
    ASSUME NEW p \in Stores, NEW a \in Accts, NEW q \in Seq(Objects)
    PROVE  AllBare(p, a, q) \in Stores /\ AllBare(p, a, q).liens = p.liens
<1> DEFINE n == Len(q)
           R == {r \in (0..n) \X Stores : r[2].liens = p.liens}
<1>1. n \in Nat /\ DOMAIN q = 1..n /\ \A i \in 1..n : q[i] \in Objects
  OBVIOUS
<1>2. PICK h : /\ Taken(h, "bare", 0, a, q, p, LastChoice(n), 1..n)
               /\ AllBare(p, a, q) = h[1..n]
  BY <1>1, Baring DEF FromLeft
<1>3. <<0, p>> \in R
  BY <1>1
<1>4. ASSUME NEW i \in 1..n, NEW t, <<i - 1, t>> \in R
      PROVE  <<i, Turn("bare", 0, a, t, q[i])>> \in R
  <2> DEFINE o == q[i]
             w == [t EXCEPT !.objects = @ \ {o}]
             c == Length[o] + CapsuleSize
             u == Reduce(w, a, "heap", c)
  <2>1. t \in Stores /\ t.liens = p.liens /\ o \in Objects
    BY <1>1, <1>4
  <2>2. Turn("bare", 0, a, t, o) = u
    BY DEF Turn, DestroyHeader
  <2> HIDE DEF o
  <2>3. w \in Stores /\ w.liens = t.liens
    BY <2>1 DEF Stores
  <2>4. c \in Nat /\ "heap" \in Media
    BY <2>1, Sizes DEF Media
  <2> HIDE DEF w, c
  <2>5. Posted(u, w, a, "heap", -c)
    BY <2>3, <2>4, BookPosted
  <2>6. u \in Stores /\ u.liens = p.liens
    BY <2>1, <2>3, <2>5 DEF Posted
  <2> HIDE DEF u
  <2>7. <<i, u>> \in (0..n) \X Stores
    BY <1>1, <2>6
  <2> QED
    BY <2>2, <2>6, <2>7 DEF o
<1> HIDE DEF R
<1>5. <<n, h[1..n]>> \in R
  <2> HIDE DEF n
  <2> QED
    BY <1>1, <1>2, <1>3, <1>4, LeftTurns
<1> QED
  BY <1>2, <1>5 DEF R

LEMMA DestroyPromised ==
    ASSUME ZcoInv, LengthsTrue(Store), NEW z \in ZcoIds, Destroy(z)
    PROVE  Promise!Destroyed(StringOf(z), StringOf(z)') /\ ActsAsPromised
<1> DEFINE s == Store
           a == zcos[z].acct
           p == AllCut(Store, a, zcos[z].extents)
           t == AllBare(p, a, zcos[z].headers)
           w == [t EXCEPT !.zcos[z] = NoZco]
           u == Reduce(w, a, "heap", ZcoSize)
<1>1. zcos[z] # NoZco /\ Become(u)
  BY DEF Destroy, Live, AllCut, AllBare
<1>2. Store.zcos = zcos /\ Sound(Store) /\ zcos[z] \in Zcos
  BY <1>1, InvUnfolds
<1>3. /\ a = Store.zcos[z].acct /\ p = AllCut(Store, a, Store.zcos[z].extents)
      /\ t = AllBare(p, a, Store.zcos[z].headers) /\ Store.zcos[z] # NoZco
  BY <1>1, <1>2
<1>4. a \in Accts /\ Store.zcos[z].headers \in Seq(Objects)
  BY <1>2, ZcoTyped
<1> HIDE DEF a, p, t
<1>5. Shrunk(u, Store, z)
  BY <1>2, <1>3, DestroyDone
<1>6. FewerLiens(p, Store) /\ p \in Stores
  <2>1. FewerLiens(p, Store)
    BY <1>2, <1>3, FewerCut
  <2>2. \E y : CutTo(p, Store, z, Len(Store.zcos[z].extents), y)
    BY <1>2, <1>3, AllCutDone
  <2> QED
    BY <2>1, <2>2 DEF CutTo, Reduced, SoundWith
<1>7. t \in Stores /\ t.liens = p.liens
  BY <1>3, <1>4, <1>6, SameBared
<1>8. SameLiens(u, t)
  <2>1. SameLiens(w, t)
    BY <1>7 DEF SameLiens, Stores
  <2> HIDE DEF w
  <2>2. SameLiens(u, w)
    <3>1. "liens" \in DOMAIN w
      BY <2>1 DEF SameLiens
    <3> QED
      BY <3>1, LiensUntouched
  <2> QED
    BY <2>1, <2>2 DEF SameLiens
<1> HIDE DEF u
<1>9. Agree(u, Store)
  BY <1>6, <1>7, <1>8 DEF FewerLiens, SameLiens, Agree
<1>10. Apart(u, Store, z) /\ Sound(u) /\ u.zcos[z] = NoZco
  BY <1>5, <1>9 DEF Apart, Shrunk
<1>11. LengthsTrue(u) /\ OnlyAt(u, Store, z)
  <2>1. SoundWith(Store, Store.zcos, {}, {}) /\ SoundWith(u, u.zcos, {}, {})
    BY <1>2, <1>10 DEF Sound
  <2> QED
    BY <1>10, <2>1, OthersKept
<1>12. Promise!Destroyed(StringAt(Store, z), StringAt(u, z))
  <2>1. StringAt(u, z) = NoZco /\ StringAt(Store, z) # NoZco
    BY <1>3, <1>10, StringsReal DEF StringAt
  <2> QED
    BY <2>1, StringsReal DEF Promise!Destroyed
<1>13. AsPromised(u, Store, z)
  BY <1>11, <1>12 DEF AsPromised, Promise!Changed
<1> QED
  BY <1>1, <1>12, <1>13, StepSeen

(***************************************************************************)
(* The steps of the operations, and the theorems.                          *)
(***************************************************************************)
ContentInv == ZcoInv /\ LengthsTrue(Store)

\* True lengths of the store that an action leaves are true afterwards.
LEMMA LengthsNext ==
    ASSUME NEW w, Become(w), LengthsTrue(w)
    PROVE  LengthsTrue(Store)'
<1>1. w.zcos = zcos' /\ w.liens = liens'
  BY DEF Become
<1>2. Store'.zcos = zcos' /\ Store'.liens = liens'
  BY DEF Store
<1>3. LengthsTrue(Store')
  BY <1>1, <1>2, SameStrings
<1> QED
  BY <1>3

\* True lengths are what the promise tells of a string.
LEMMA LengthsTold ==
    ASSUME NEW s, LengthsTrue(s), NEW z \in ZcoIds
    PROVE  LengthsAt(s, z) = Promise!LengthsOf(StringAt(s, z))
<1>1. CASE s.zcos[z] = NoZco
  BY <1>1, StringsReal DEF LengthsAt, StringAt, Promise!LengthsOf
<1>2. CASE s.zcos[z] # NoZco
  <2> DEFINE x == s.zcos[z]
             h == AttachedIn(x.headers)
             b == BodyIn(s, x.extents)
             p == StringAt(s, z)
  <2>1. /\ x.capsuleLength = Len(h) /\ x.totalLength = x.capsuleLength + Len(b)
        /\ x.headersLength + x.sourceLength + x.trailersLength = Len(b)
    BY <1>2 DEF LengthsTrue, Whole
  <2>2. p = AString(h, b, x.headersLength, x.sourceLength)
    BY <1>2 DEF StringAt
  <2>3. p # Promise!NoString /\ p.attached = h /\ p.body = b
    BY <2>2, StringsReal DEF AString
  <2>4. LengthsAt(s, z) = [is |-> "lengths", total |-> Len(h) + Len(b), data |-> Len(b)]
    BY <1>2, <2>1 DEF LengthsAt
  <2> HIDE DEF p
  <2>5. Promise!LengthsOf(p) = [is |-> "lengths", total |-> Len(h) + Len(b), data |-> Len(b)]
    BY <2>3 DEF Promise!LengthsOf
  <2> QED
    BY <2>4, <2>5 DEF p
<1> QED
  BY <1>1, <1>2

\* Every action does what was promised to one string, or nothing to any.
LEMMA NextPromised ==
    ASSUME ContentInv, Next
    PROVE  ActsAsPromised \/ ActsUnseen
<1> USE DEF ContentInv
<1>1. ASSUME NEW o \in Objects, CreateRef(o) \/ DestroyRef(o)
      PROVE  ActsUnseen
  BY <1>1, CreateRefUnseen, DestroyRefUnseen
<1>2. ASSUME NEW a \in Accts, CreateEmpty(a)
      PROVE  ActsAsPromised
  BY <1>2, CreateEmptyPromised
<1>3. ASSUME NEW a \in Accts, NEW o \in Objects, NEW i \in Offsets, NEW n \in Lengths,
             NEW d \in Declares, Create(a, o, i, n, d)
      PROVE  ActsAsPromised
  <2>1. i \in Nat /\ n \in Nat
    BY PartsTyped
  <2> QED
    BY <1>3, <2>1, CreatePromised
<1>4. ASSUME NEW a \in Accts, NEW z \in ZcoIds, NEW d \in Declares, CreateFromZco(a, z, d)
      PROVE  ActsAsPromised
  BY <1>4, CreateFromZcoPromised
<1>5. ASSUME NEW z \in ZcoIds, NEW o \in Objects, NEW i \in Offsets, NEW n \in Lengths,
             NEW d \in Declares, AppendExtent(z, o, i, n, d)
      PROVE  ActsAsPromised
  <2>1. i \in Nat /\ n \in Nat
    BY PartsTyped
  <2> QED
    BY <1>5, <2>1, AppendExtentPromised
<1>6. ASSUME NEW z \in ZcoIds, NEW f \in ZcoIds, NEW i \in Offsets, NEW n \in Lengths,
             AppendFromZco(z, f, i, n)
      PROVE  ActsAsPromised
  <2>1. i \in Nat /\ n \in Nat
    BY PartsTyped
  <2> QED
    BY <1>6, <2>1, AppendFromZcoPromised
<1>7. ASSUME NEW f \in ZcoIds, NEW i \in Offsets, NEW n \in Lengths, Clone(f, i, n)
      PROVE  ActsAsPromised
  <2>1. i \in Nat /\ n \in Nat
    BY PartsTyped
  <2> QED
    BY <1>7, <2>1, ClonePromised
<1>8. ASSUME NEW z \in ZcoIds, NEW o \in Objects, PrependHeader(z, o)
      PROVE  ActsAsPromised
  BY <1>8, PrependHeaderPromised
<1>9. ASSUME NEW z \in ZcoIds, Bond(z)
      PROVE  ActsAsPromised
  BY <1>9, BondPromised
<1>10. ASSUME NEW z \in ZcoIds, NEW d \in Delimits, Delimit(z, d[1], d[2])
       PROVE  ActsAsPromised
  <2>1. d[1] \in Nat /\ d[2] \in Nat
    BY PartsTyped
  <2> QED
    BY <1>10, <2>1, DelimitPromised
<1>11. ASSUME NEW z \in ZcoIds, Destroy(z)
       PROVE  ActsAsPromised
  BY <1>11, DestroyPromised
<1> QED
  BY <1>1, <1>2, <1>3, <1>4, <1>5, <1>6, <1>7, <1>8, <1>9, <1>10, <1>11 DEF Next

\* And the step is the one that the call asked for.
LEMMA NextAsked ==
    ASSUME ContentInv
    PROVE  CallAsAsked
<1> USE DEF ContentInv
<1>1. ASSUME NEW a \in Accts, CreateEmpty(a)
      PROVE  Makes(<<>>)
  BY <1>1, CreateEmptyPromised
<1>2. ASSUME NEW o \in Objects, NEW i \in Offsets, NEW n \in Lengths, NEW d \in Declares
      PROVE  /\ \A a \in Accts : Create(a, o, i, n, d) => Makes(Promise!TextOf(o, i, n))
             /\ \A z \in ZcoIds : AppendExtent(z, o, i, n, d) => Adds(z, Promise!TextOf(o, i, n))
  <2>1. i \in Nat /\ n \in Nat
    BY PartsTyped
  <2> QED
    BY <2>1, CreatePromised, AppendExtentPromised
<1>3. ASSUME NEW a \in Accts, NEW f \in ZcoIds, NEW d \in Declares, CreateFromZco(a, f, d)
      PROVE  Makes(StringOf(f).body)
  BY <1>3, CreateFromZcoPromised
<1>4. ASSUME NEW f \in ZcoIds, NEW i \in Offsets, NEW n \in Lengths
      PROVE  /\ Clone(f, i, n) => Makes(SliceFrom(f, i, n))
             /\ \A z \in ZcoIds : AppendFromZco(z, f, i, n) => Adds(z, SliceFrom(f, i, n))
  <2>1. i \in Nat /\ n \in Nat
    BY PartsTyped
  <2> QED
    BY <2>1, ClonePromised, AppendFromZcoPromised
<1>5. ASSUME NEW z \in ZcoIds, NEW o \in Objects, PrependHeader(z, o)
      PROVE  Promise!Prepended(StringOf(z), StringOf(z)', Promise!TextOf(o, 0, Length[o]))
  BY <1>5, PrependHeaderPromised
<1>6. ASSUME NEW z \in ZcoIds, NEW d \in Delimits, Delimit(z, d[1], d[2])
      PROVE  Promise!Delimited(StringOf(z), StringOf(z)', d[1], d[2])
  <2>1. d[1] \in Nat /\ d[2] \in Nat
    BY PartsTyped
  <2> QED
    BY <1>6, <2>1, DelimitPromised
<1>7. ASSUME NEW z \in ZcoIds
      PROVE  /\ Bond(z) => Promise!Bonded(StringOf(z), StringOf(z)')
             /\ Destroy(z) => Promise!Destroyed(StringOf(z), StringOf(z)')
  BY BondPromised, DestroyPromised
<1> QED
  BY <1>1, <1>2, <1>3, <1>4, <1>5, <1>6, <1>7 DEF CallAsAsked, SliceFrom

\* The strings that the store holds, as the promise sees them.
LEMMA TextsNow ==
    /\ [z \in ZcoIds |-> StringOf(z)] = Texts(Store)
    /\ [z \in ZcoIds |-> LengthsOf(z)] = [z \in ZcoIds |-> LengthsAt(Store, z)]
BY StringsNow DEF Texts

LEMMA TextsNext ==
    ASSUME NEW w, Become(w)
    PROVE  /\ [z \in ZcoIds |-> StringOf(z)]' = Texts(w)
           /\ [z \in ZcoIds |-> LengthsOf(z)]' = [z \in ZcoIds |-> LengthsAt(w, z)]
<1>1. \A z : StringOf(z)' = StringAt(w, z) /\ LengthsOf(z)' = LengthsAt(w, z)
  BY StringsNext
<1> QED
  BY <1>1 DEF Texts

\* What an action does to one string is a step of the promise.
LEMMA PromisedStep ==
    ASSUME ContentInv, ActsAsPromised
    PROVE  LengthsTrue(Store)' /\ Promise!Next
<1>1. PICK w : Become(w) /\ \E z \in ZcoIds : AsPromised(w, Store, z)
  BY DEF ActsAsPromised
<1>2. PICK z \in ZcoIds : AsPromised(w, Store, z)
  BY <1>1
<1>3. /\ LengthsTrue(w) /\ OnlyAt(w, Store, z)
      /\ Promise!Changed(StringAt(Store, z), StringAt(w, z), Texts(Store))
  BY <1>2 DEF AsPromised
<1>4. LengthsTrue(Store)'
  BY <1>1, <1>3, LengthsNext
<1> DEFINE ss == Texts(Store)
           tt == Texts(w)
<1>5. Promise!OnlyOne(ss, tt)
  <2>1. \A y \in ZcoIds \ {z} : tt[y] = ss[y]
    BY <1>3 DEF OnlyAt, Texts
  <2>2. ss[z] = StringAt(Store, z) /\ tt[z] = StringAt(w, z)
    BY DEF Texts
  <2>3. Promise!Changed(ss[z], tt[z], ss)
    BY <1>3, <2>2
  <2> HIDE DEF ss, tt
  <2> QED
    BY <2>1, <2>3 DEF Promise!OnlyOne
<1>6. [k \in ZcoIds |-> LengthsAt(w, k)] = [k \in ZcoIds |-> Promise!LengthsOf(tt[k])]
  <2>1. \A k \in ZcoIds : LengthsAt(w, k) = Promise!LengthsOf(tt[k])
    BY <1>3, LengthsTold DEF Texts
  <2> QED
    BY <2>1
<1> HIDE DEF ss, tt
<1>7. /\ [k \in ZcoIds |-> StringOf(k)] = ss /\ [k \in ZcoIds |-> StringOf(k)]' = tt
      /\ [k \in ZcoIds |-> LengthsOf(k)]' = [k \in ZcoIds |-> LengthsAt(w, k)]
  BY <1>1, TextsNow, TextsNext DEF ss, tt
<1>8. Promise!Next
  BY <1>5, <1>6, <1>7 DEF Promise!Next
<1> QED
  BY <1>4, <1>8

\* What clients do not see is a stuttering step of it.
LEMMA UnseenStep ==
    ASSUME ContentInv, NEW w, Become(w), Alike(w, Store)
    PROVE  LengthsTrue(Store)' /\ UNCHANGED Promise!vars
<1>1. LengthsTrue(w) /\ Texts(w) = Texts(Store) /\ w.zcos = Store.zcos
  BY AlikeStrings DEF ContentInv, Alike
<1>2. LengthsTrue(Store)'
  BY <1>1, LengthsNext
<1>3. [z \in ZcoIds |-> LengthsAt(w, z)] = [z \in ZcoIds |-> LengthsAt(Store, z)]
  BY <1>1 DEF LengthsAt
<1>4. /\ [k \in ZcoIds |-> StringOf(k)]' = [k \in ZcoIds |-> StringOf(k)]
      /\ [k \in ZcoIds |-> LengthsOf(k)]' = [k \in ZcoIds |-> LengthsOf(k)]
  BY <1>1, <1>3, TextsNow, TextsNext
<1> QED
  BY <1>2, <1>4 DEF Promise!vars

\* Every step is one of the promise, or a stuttering one, and keeps the
\* lengths true.
LEMMA ContentStep ==
    ASSUME ContentInv, [Next]_vars
    PROVE  ContentInv' /\ [Promise!Next]_Promise!vars
<1>1. ZcoInv'
  BY NextKeeps, SameKeeps DEF ContentInv
<1>2. CASE ActsAsPromised
  BY <1>1, <1>2, PromisedStep DEF ContentInv
<1>3. CASE ActsUnseen
  BY <1>1, <1>3, UnseenStep DEF ContentInv, ActsUnseen
<1>4. CASE UNCHANGED vars
  <2>1. Become(Store) /\ Alike(Store, Store)
    BY <1>4 DEF Become, Store, vars, Alike
  <2> QED
    BY <1>1, <2>1, UnseenStep DEF ContentInv
<1> QED
  BY <1>2, <1>3, <1>4, NextPromised

\* In an empty store there are no strings.
LEMMA ContentInit ==
    ASSUME Init
    PROVE  ContentInv /\ Promise!Init
<1>1. ZcoInv
  BY InitKeeps
<1>2. \A z \in ZcoIds : zcos[z] = NoZco
  BY DEF Init
<1>3. LengthsTrue(Store)
  BY <1>2 DEF LengthsTrue, Store
<1>4. \A z \in ZcoIds : StringOf(z) = Promise!NoString /\ LengthsOf(z) = Promise!NoString
  BY <1>2, StringsReal DEF StringOf, LengthsOf
<1> QED
  BY <1>1, <1>3, <1>4 DEF ContentInv, Promise!Init

\* The lengths that are kept of a ZCO are those of what it holds, whatever the
\* operations and their order.
THEOREM LengthsAreTrue == Spec => []ContentInv
<1>1. Init => ContentInv
  BY ContentInit
<1>2. ContentInv /\ [Next]_vars => ContentInv'
  BY ContentStep
<1> QED
  BY <1>1, <1>2, PTL DEF Spec

\* A reader that stops and goes on loses no byte and reads none twice, for
\* every kind of reading and wherever it stops.
THEOREM ReadersInOrder == Spec => []ReadsInOrder
<1>1. ContentInv => ReadsInOrder
  BY OrderKept DEF ContentInv
<1> QED
  BY <1>1, LengthsAreTrue, PTL

\* ZCOs that share bytes, liens and references under the counters of two
\* accounts behave as strings of bytes that share nothing.
THEOREM ZcoImplementsByteStrings == Spec => ImplementsByteStrings
<1>1. Init => Promise!Init
  BY ContentInit
<1>2. ContentInv /\ [Next]_vars => [Promise!Next]_Promise!vars
  BY ContentStep
<1> QED
  BY <1>1, <1>2, LengthsAreTrue, PTL DEF Spec, ImplementsByteStrings, Promise!Spec

\* The step that a call makes is the one that it was asked for: a clone or a
\* copy has the slice, an extent the bytes, of the offset and the length given.
THEOREM CallsDoAsAsked == Spec => CallsAsAsked
<1>1. ContentInv => CallAsAsked
  BY NextAsked
<1> QED
  BY <1>1, LengthsAreTrue, PTL DEF CallsAsAsked

=============================================================================
