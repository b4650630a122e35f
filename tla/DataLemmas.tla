---------------------------- MODULE DataLemmas -----------------------------
(***************************************************************************)
(* Facts about data that the proofs of several components need: induction  *)
(* over the natural numbers and over finite sets, stated for sets in place *)
(* of predicates; the greatest element of a set of numbers; insertion into *)
(* and removal from a sequence; sums; folds of sets and of sequences.      *)
(***************************************************************************)
EXTENDS Integers, SequencesExt, FiniteSetTheorems, SequenceTheorems, TLAPS

(***************************************************************************)
(* Induction.                                                              *)
(***************************************************************************)
\* A set of natural numbers has a smallest element.
LEMMA SmallestElement ==
    ASSUME NEW T \in SUBSET Nat, T # {}
    PROVE  \E x \in T : \A y \in T : x <= y
<1> DEFINE Below == {0..(n - 1) : n \in T}
           R == StrictSubsetOrdering(Nat)
<1>1. IsWellFoundedOn(R, FiniteSubsetsOf(Nat))
  BY FS_StrictSubsetOrderingWellFounded
<1>2. Below \subseteq FiniteSubsetsOf(Nat) /\ Below # {}
  <2>1. ASSUME NEW n \in T
        PROVE  0..(n - 1) \in FiniteSubsetsOf(Nat)
    BY FS_Interval DEF FiniteSubsetsOf
  <2> QED
    BY <2>1
<1> HIDE DEF R, Below
<1>3. PICK b \in Below : \A c \in Below : <<c, b>> \notin R
  BY <1>1, <1>2, WFMin
<1>4. PICK x \in T : b = 0..(x - 1)
  BY DEF Below
<1>5. ASSUME NEW y \in T, y < x
      PROVE  FALSE
  <2>1. 0..(y - 1) \in Below
    BY DEF Below
  <2>2. 0..(y - 1) \subseteq 0..(x - 1) /\ 0..(y - 1) # 0..(x - 1)
    <3>1. y \in 0..(x - 1) /\ y \notin 0..(y - 1)
      BY <1>5
    <3> QED
      BY <3>1, <1>5
  <2>3. <<0..(y - 1), b>> \in R
    BY <2>2, <1>4 DEF R, StrictSubsetOrdering
  <2> QED
    BY <2>1, <2>3, <1>3
<1> QED
  BY <1>5

\* A set that holds zero and the successors of its members holds all natural
\* numbers.
LEMMA NumbersInduction ==
    ASSUME NEW T, 0 \in T, \A n \in Nat : n \in T => n + 1 \in T
    PROVE  Nat \subseteq T
<1> SUFFICES ASSUME Nat \ T # {}
             PROVE  FALSE
  OBVIOUS
<1>1. PICK x \in Nat \ T : \A y \in Nat \ T : x <= y
  BY SmallestElement
<1>2. x - 1 \in Nat /\ x - 1 \in T
  BY <1>1
<1> QED
  BY <1>2, <1>1

\* A collection of sets that holds the empty set, and with a set also that set
\* and one more member of S, holds S if S is finite.
LEMMA SetsInduction ==
    ASSUME NEW S, IsFiniteSet(S), NEW F, {} \in F,
           \A T \in SUBSET S : \A x \in S \ T : T \in F => T \cup {x} \in F
    PROVE  S \in F
<1> DEFINE N == {n \in Nat : \A T \in SUBSET S : Cardinality(T) = n => T \in F}
<1>1. 0 \in N
  <2>1. \A T \in SUBSET S : IsFiniteSet(T)
    BY FS_Subset
  <2> QED
    BY <2>1, FS_EmptySet
<1>2. ASSUME NEW n \in Nat, n \in N
      PROVE  n + 1 \in N
  <2>1. SUFFICES ASSUME NEW T \in SUBSET S, Cardinality(T) = n + 1
                 PROVE  T \in F
    OBVIOUS
  <2>2. IsFiniteSet(T)
    BY FS_Subset
  <2>3. T # {}
    <3>1. n + 1 # 0
      OBVIOUS
    <3> QED
      BY <2>1, <3>1, FS_EmptySet
  <2>4. PICK x \in T : TRUE
    BY <2>3
  <2>5. Cardinality(T \ {x}) = n
    <3>1. Cardinality(T \ {x}) = Cardinality(T) - 1
      BY <2>2, FS_RemoveElement
    <3> QED
      BY <2>1, <3>1
  <2>6. T \ {x} \in SUBSET S /\ T \ {x} \in F
    BY <2>5, <1>2
  <2> QED
    <3>1. x \in S \ (T \ {x}) /\ T = (T \ {x}) \cup {x}
      OBVIOUS
    <3> QED
      BY <2>6, <3>1
<1> HIDE DEF N
<1>3. Nat \subseteq N
  BY <1>1, <1>2, NumbersInduction
<1>4. Cardinality(S) \in Nat
  BY FS_CardinalityType
<1> QED
  BY <1>3, <1>4 DEF N

\* The greatest element of a set of natural numbers below a bound.
LEMMA GreatestElement ==
    ASSUME NEW n \in Nat, NEW T \in SUBSET (0..n), T # {}
    PROVE  Max(T) \in T /\ \A y \in T : y <= Max(T)
<1> DEFINE U == {n - y : y \in T}
<1>1. U \in SUBSET Nat /\ U # {}
  <2>1. \A y \in T : n - y \in Nat
    OBVIOUS
  <2>2. PICK y \in T : TRUE
    OBVIOUS
  <2>3. n - y \in U
    OBVIOUS
  <2> QED
    BY <2>1, <2>3
<1>2. PICK u \in U : \A v \in U : u <= v
  BY <1>1, SmallestElement
<1>3. PICK x \in T : u = n - x
  OBVIOUS
<1>4. \A y \in T : x >= y
  <2> TAKE y \in T
  <2>1. n - y \in U
    OBVIOUS
  <2> QED
    BY <2>1, <1>2, <1>3
<1>5. \E z \in T : \A y \in T : z >= y
  BY <1>4
<1> QED
  BY <1>5 DEF Max

(***************************************************************************)
(* Sequences.                                                              *)
(***************************************************************************)
\* r is s with e inserted at place i.
HasInserted(r, s, i, e) ==
    /\ Len(r) = Len(s) + 1
    /\ \A j \in 1..(Len(s) + 1) :
          r[j] = IF j < i THEN s[j] ELSE IF j = i THEN e ELSE s[j - 1]

\* Insertion moves what comes after it by one place.
LEMMA InsertAtElements ==
    ASSUME NEW T, NEW s \in Seq(T), NEW i \in 1..(Len(s) + 1), NEW e \in T
    PROVE  InsertAt(s, i, e) \in Seq(T) /\ HasInserted(InsertAt(s, i, e), s, i, e)
<1> DEFINE before == SubSeq(s, 1, i - 1)
           after == SubSeq(s, i, Len(s))
<1>1. before \in Seq(T) /\ Len(before) = i - 1
      /\ \A j \in 1..(i - 1) : before[j] = s[j]
  OBVIOUS
<1>2. after \in Seq(T) /\ Len(after) = Len(s) - i + 1
      /\ \A j \in 1..(Len(s) - i + 1) : after[j] = s[i + j - 1]
  OBVIOUS
<1> HIDE DEF before, after
<1> DEFINE first == before \o <<e>>
           rest  == Len(s) - i + 1
<1>3. first \in Seq(T) /\ Len(first) = i
      /\ \A j \in 1..i : first[j] = IF j < i THEN s[j] ELSE e
  BY <1>1
<1>4. InsertAt(s, i, e) = first \o after
  BY DEF InsertAt, before, after
<1>5. /\ InsertAt(s, i, e) \in Seq(T)
      /\ Len(InsertAt(s, i, e)) = i + rest
      /\ \A j \in 1..(i + rest) :
            InsertAt(s, i, e)[j] = IF j <= i THEN first[j] ELSE after[j - i]
  <2> HIDE DEF first
  <2>1. /\ first \o after \in Seq(T)
        /\ Len(first \o after) = Len(first) + Len(after)
        /\ \A j \in 1..(Len(first) + Len(after)) :
              (first \o after)[j] = IF j <= Len(first) THEN first[j]
                                    ELSE after[j - Len(first)]
    BY <1>2, <1>3, ConcatProperties
  <2> QED
    BY <1>2, <1>3, <1>4, <2>1
<1> HIDE DEF first
<1>6. ASSUME NEW j \in 1..(Len(s) + 1)
      PROVE  InsertAt(s, i, e)[j] = IF j < i THEN s[j]
                                    ELSE IF j = i THEN e ELSE s[j - 1]
  <2>1. CASE j <= i
    BY <2>1, <1>3, <1>5
  <2>2. CASE j > i
    <3>1. after[j - i] = s[i + (j - i) - 1]
      BY <2>2, <1>2
    <3> QED
      BY <2>2, <3>1, <1>5
  <2> QED
    BY <2>1, <2>2
<1>7. i + (Len(s) - i + 1) = Len(s) + 1
  OBVIOUS
<1> QED
  BY <1>5, <1>6, <1>7 DEF HasInserted

\* Removal closes the gap.
LEMMA RemoveAtElements ==
    ASSUME NEW T, NEW s \in Seq(T), NEW i \in 1..Len(s)
    PROVE  /\ RemoveAt(s, i) \in Seq(T)
           /\ Len(RemoveAt(s, i)) = Len(s) - 1
           /\ \A j \in 1..(Len(s) - 1) :
                 RemoveAt(s, i)[j] = IF j < i THEN s[j] ELSE s[j + 1]
<1> DEFINE before == SubSeq(s, 1, i - 1)
           after == SubSeq(s, i + 1, Len(s))
<1>1. before \in Seq(T) /\ Len(before) = i - 1
      /\ \A j \in 1..(i - 1) : before[j] = s[j]
  OBVIOUS
<1>2. after \in Seq(T) /\ Len(after) = Len(s) - i
      /\ \A j \in 1..(Len(s) - i) : after[j] = s[i + j]
  OBVIOUS
<1> HIDE DEF before, after
<1>3. RemoveAt(s, i) = before \o after
  BY DEF RemoveAt, before, after
<1>4. /\ before \o after \in Seq(T)
      /\ Len(before \o after) = Len(before) + Len(after)
      /\ \A j \in 1..(Len(before) + Len(after)) :
            (before \o after)[j] = IF j <= Len(before) THEN before[j]
                                   ELSE after[j - Len(before)]
  <2>1. before \in Seq(T) /\ after \in Seq(T)
    BY <1>1, <1>2
  <2> QED
    BY <2>1, ConcatProperties
<1>5. /\ RemoveAt(s, i) \in Seq(T)
      /\ Len(RemoveAt(s, i)) = (i - 1) + (Len(s) - i)
      /\ \A j \in 1..((i - 1) + (Len(s) - i)) :
            RemoveAt(s, i)[j] = IF j <= i - 1 THEN before[j] ELSE after[j - (i - 1)]
  BY <1>1, <1>2, <1>3, <1>4
<1>6. ASSUME NEW j \in 1..(Len(s) - 1)
      PROVE  RemoveAt(s, i)[j] = IF j < i THEN s[j] ELSE s[j + 1]
  <2>1. CASE j < i
    <3>1. before[j] = s[j]
      BY <2>1, <1>1
    <3> QED
      BY <2>1, <3>1, <1>5
  <2>2. CASE j >= i
    <3>1. after[j - (i - 1)] = s[i + (j - (i - 1))]
      BY <2>2, <1>2
    <3> QED
      BY <2>2, <3>1, <1>5
  <2> QED
    BY <2>1, <2>2
<1> QED
  BY <1>5, <1>6

\* A new element goes in at any place: nothing is repeated, and nothing but the
\* new element is added.
LEMMA InsertNew ==
    ASSUME NEW T, NEW s \in Seq(T), IsInjective(s), NEW e \in T, e \notin ToSet(s),
           NEW i \in 1..(Len(s) + 1)
    PROVE  /\ IsInjective(InsertAt(s, i, e))
           /\ ToSet(InsertAt(s, i, e)) = ToSet(s) \cup {e}
<1> DEFINE r == InsertAt(s, i, e)
           old(j) == IF j < i THEN j ELSE j - 1
           new(k) == IF k < i THEN k ELSE k + 1
<1>0. r \in Seq(T) /\ HasInserted(r, s, i, e)
  BY InsertAtElements
<1> HIDE DEF r
<1>1. /\ r \in Seq(T) /\ DOMAIN r = 1..(Len(s) + 1) /\ DOMAIN s = 1..Len(s)
      /\ \A j \in 1..(Len(s) + 1) :
            r[j] = IF j < i THEN s[j] ELSE IF j = i THEN e ELSE s[j - 1]
  BY <1>0 DEF HasInserted
<1>2. ASSUME NEW j \in DOMAIN r, j # i
      PROVE  old(j) \in DOMAIN s /\ r[j] = s[old(j)] /\ r[j] # e
  <2>1. old(j) \in DOMAIN s /\ r[j] = s[old(j)]
    BY <1>1, <1>2
  <2> QED
    BY <2>1 DEF ToSet
<1>3. i \in DOMAIN r /\ r[i] = e
  BY <1>1
<1>4. ASSUME NEW k \in DOMAIN s
      PROVE  new(k) \in DOMAIN r /\ r[new(k)] = s[k]
  BY <1>1
<1>5. ASSUME NEW a \in DOMAIN r, NEW b \in DOMAIN r, r[a] = r[b]
      PROVE  a = b
  <2>1. CASE a = i \/ b = i
    BY <2>1, <1>2, <1>3, <1>5
  <2>2. CASE a # i /\ b # i
    <3>1. s[old(a)] = s[old(b)] /\ old(a) \in DOMAIN s /\ old(b) \in DOMAIN s
      BY <2>2, <1>2, <1>5
    <3>2. old(a) = old(b)
      BY <3>1 DEF IsInjective
    <3> QED
      BY <3>2, <2>2, <1>1
  <2> QED
    BY <2>1, <2>2
<1> HIDE DEF old, new
<1>6. ToSet(r) = ToSet(s) \cup {e}
  BY <1>2, <1>3, <1>4 DEF ToSet
<1> QED
  BY <1>5, <1>6 DEF IsInjective, r

\* An element is taken out: nothing else is lost.
LEMMA RemoveFound ==
    ASSUME NEW T, NEW s \in Seq(T), IsInjective(s), NEW i \in DOMAIN s
    PROVE  /\ IsInjective(RemoveAt(s, i))
           /\ ToSet(RemoveAt(s, i)) = ToSet(s) \ {s[i]}
<1> DEFINE r == RemoveAt(s, i)
           old(j) == IF j < i THEN j ELSE j + 1
           new(k) == IF k < i THEN k ELSE k - 1
<1>a. i \in 1..Len(s)
  OBVIOUS
<1>0. /\ r \in Seq(T) /\ Len(r) = Len(s) - 1
      /\ \A j \in 1..(Len(s) - 1) : r[j] = IF j < i THEN s[j] ELSE s[j + 1]
  BY <1>a, RemoveAtElements
<1> HIDE DEF r
<1>1. /\ r \in Seq(T) /\ DOMAIN r = 1..(Len(s) - 1) /\ DOMAIN s = 1..Len(s)
      /\ \A j \in 1..(Len(s) - 1) : r[j] = IF j < i THEN s[j] ELSE s[j + 1]
  BY <1>0
<1>2. ASSUME NEW j \in DOMAIN r
      PROVE  old(j) \in DOMAIN s /\ r[j] = s[old(j)] /\ old(j) # i
  BY <1>1
<1>3. ASSUME NEW k \in DOMAIN s, k # i
      PROVE  new(k) \in DOMAIN r /\ r[new(k)] = s[k]
  BY <1>1, <1>3
<1>4. ASSUME NEW a \in DOMAIN r, NEW b \in DOMAIN r, r[a] = r[b]
      PROVE  a = b
  <2>1. s[old(a)] = s[old(b)] /\ old(a) \in DOMAIN s /\ old(b) \in DOMAIN s
    BY <1>2, <1>4
  <2>2. old(a) = old(b)
    BY <2>1 DEF IsInjective
  <2> QED
    BY <2>2, <1>1
<1> HIDE DEF old, new
<1>5. \A k \in DOMAIN s : s[k] = s[i] => k = i
  BY DEF IsInjective
<1>6. ToSet(r) = ToSet(s) \ {s[i]}
  BY <1>2, <1>3, <1>5 DEF ToSet
<1> QED
  BY <1>4, <1>6 DEF IsInjective, r

\* The place of an element, by which it is taken out.
LEMMA PlaceFound ==
    ASSUME NEW s, NEW e \in ToSet(s)
    PROVE  LET i == CHOOSE j \in DOMAIN s : s[j] = e
           IN  i \in DOMAIN s /\ s[i] = e
<1>1. \E j \in DOMAIN s : s[j] = e
  BY DEF ToSet
<1> QED
  BY <1>1

\* One element comes before another one in a sequence.
Before(s, a, b) == \E k, l \in DOMAIN s : k < l /\ s[k] = a /\ s[l] = b

\* What is taken out leaves the order of the others.
LEMMA RemoveBefore ==
    ASSUME NEW T, NEW s \in Seq(T), NEW i \in DOMAIN s,
           NEW a, NEW b, a # s[i], b # s[i], Before(s, a, b)
    PROVE  Before(RemoveAt(s, i), a, b)
<1> DEFINE r == RemoveAt(s, i)
<1>a. i \in 1..Len(s)
  OBVIOUS
<1>0. /\ r \in Seq(T) /\ Len(r) = Len(s) - 1
      /\ \A j \in 1..(Len(s) - 1) : r[j] = IF j < i THEN s[j] ELSE s[j + 1]
  BY <1>a, RemoveAtElements
<1> HIDE DEF r
<1>1. /\ r \in Seq(T) /\ DOMAIN r = 1..(Len(s) - 1) /\ DOMAIN s = 1..Len(s)
      /\ \A j \in 1..(Len(s) - 1) : r[j] = IF j < i THEN s[j] ELSE s[j + 1]
  BY <1>0
<1>2. PICK k \in DOMAIN s, l \in DOMAIN s : k < l /\ s[k] = a /\ s[l] = b
  BY DEF Before
<1> DEFINE new(j) == IF j < i THEN j ELSE j - 1
<1>3. k # i /\ l # i
  BY <1>2
<1>4. new(k) \in DOMAIN r /\ new(l) \in DOMAIN r /\ new(k) < new(l)
  BY <1>1, <1>2, <1>3
<1>5. r[new(k)] = s[k] /\ r[new(l)] = s[l]
  BY <1>1, <1>2, <1>3
<1> QED
  BY <1>2, <1>4, <1>5 DEF Before, r

\* What is put at the end comes after the others and leaves their order.
LEMMA AppendBefore ==
    ASSUME NEW T, NEW s \in Seq(T), NEW e
    PROVE  /\ \A a, b : Before(s, a, b) => Before(Append(s, e), a, b)
           /\ \A a \in ToSet(s) : Before(Append(s, e), a, e)
<1> DEFINE r == Append(s, e)
<1>1. /\ DOMAIN r = 1..(Len(s) + 1) /\ DOMAIN s = 1..Len(s)
      /\ \A j \in 1..Len(s) : r[j] = s[j]
      /\ r[Len(s) + 1] = e /\ Len(s) \in Nat
  OBVIOUS
<1> HIDE DEF r
<1>2. ASSUME NEW a, NEW b, Before(s, a, b)
      PROVE  Before(r, a, b)
  <2>1. DOMAIN s \subseteq DOMAIN r /\ \A j \in DOMAIN s : r[j] = s[j]
    BY <1>1
  <2> QED
    BY <1>2, <2>1 DEF Before
<1>3. ASSUME NEW a \in ToSet(s)
      PROVE  Before(r, a, e)
  <2>1. PICK k \in DOMAIN s : s[k] = a
    BY DEF ToSet
  <2>2. k < Len(s) + 1 /\ k \in DOMAIN r /\ Len(s) + 1 \in DOMAIN r
    BY <1>1
  <2> QED
    BY <1>1, <2>1, <2>2 DEF Before
<1> QED
  BY <1>2, <1>3 DEF r

\* A new element goes to the end of a sequence: nothing is repeated.
LEMMA AppendNew ==
    ASSUME NEW T, NEW s \in Seq(T), IsInjective(s), NEW e, e \notin ToSet(s)
    PROVE  IsInjective(Append(s, e)) /\ ToSet(Append(s, e)) = ToSet(s) \cup {e}
<1> DEFINE r == Append(s, e)
<1>1. /\ DOMAIN r = 1..(Len(s) + 1) /\ DOMAIN s = 1..Len(s)
      /\ \A j \in 1..Len(s) : r[j] = s[j]
      /\ r[Len(s) + 1] = e /\ Len(s) \in Nat
  OBVIOUS
<1> HIDE DEF r
<1>2. \A j \in 1..Len(s) : s[j] # e
  BY <1>1 DEF ToSet
<1>3. \A a, b \in 1..Len(s) : s[a] = s[b] => a = b
  BY <1>1 DEF IsInjective
<1>4. \A a, b \in DOMAIN r : r[a] = r[b] => a = b
  <2>1. \A a \in DOMAIN r : a \in 1..Len(s) \/ a = Len(s) + 1
    BY <1>1
  <2> QED
    BY <1>1, <1>2, <1>3, <2>1
<1>5. ToSet(r) = ToSet(s) \cup {e}
  <2>1. DOMAIN r = DOMAIN s \cup {Len(s) + 1}
    BY <1>1
  <2> QED
    BY <2>1, <1>1 DEF ToSet
<1> QED
  BY <1>4, <1>5 DEF IsInjective, r

(***************************************************************************)
(* Sums, which MapThenSumSet defines by recursion over the subsets of its  *)
(* set, taking away one chosen element at a time.                          *)
(***************************************************************************)
SumOf(f, S) == MapThenSumSet(LAMBDA x : f[x], S)

\* What the sums over the subsets of S are, in whatever order they are taken.
Sums(f, S, g) ==
    /\ g \in [SUBSET S -> Nat] /\ g[{}] = 0
    /\ \A T \in SUBSET S : \A x \in S \ T : g[T \cup {x}] = f[x] + g[T]

\* The sums over the subsets of a finite set exist.
LEMMA SumsExist ==
    ASSUME NEW S, IsFiniteSet(S), NEW f, \A x \in S : f[x] \in Nat
    PROVE  \E g : Sums(f, S, g)
<1> DEFINE F == {T \in SUBSET S : \E g : Sums(f, T, g)}
<1>1. {} \in F
  <2>1. Sums(f, {}, [T \in SUBSET {} |-> 0])
    BY DEF Sums
  <2> QED
    BY <2>1
<1>2. ASSUME NEW T \in SUBSET S, NEW x \in S \ T, T \in F
      PROVE  T \cup {x} \in F
  <2>1. PICK g : Sums(f, T, g)
    BY <1>2
  <2> DEFINE h == [U \in SUBSET (T \cup {x}) |->
                      IF x \in U THEN f[x] + g[U \ {x}] ELSE g[U]]
  <2>2. h \in [SUBSET (T \cup {x}) -> Nat]
    <3>1. ASSUME NEW U \in SUBSET (T \cup {x})
          PROVE  (IF x \in U THEN f[x] + g[U \ {x}] ELSE g[U]) \in Nat
      <4>1. CASE x \in U
        <5>1. U \ {x} \in SUBSET T
          OBVIOUS
        <5>2. g[U \ {x}] \in Nat /\ f[x] \in Nat
          BY <5>1, <2>1 DEF Sums
        <5> QED
          BY <4>1, <5>2
      <4>2. CASE x \notin U
        BY <4>2, <2>1 DEF Sums
      <4> QED
        BY <4>1, <4>2
    <3> QED
      BY <3>1
  <2>3. h[{}] = 0
    BY <2>1 DEF Sums
  <2>4. ASSUME NEW U \in SUBSET (T \cup {x}), NEW y \in (T \cup {x}) \ U
        PROVE  h[U \cup {y}] = f[y] + h[U]
    <3>1. CASE y = x
      <4>1. x \in U \cup {y} /\ (U \cup {y}) \ {x} = U /\ x \notin U
        BY <3>1
      <4> QED
        BY <4>1, <3>1
    <3>2. CASE y # x /\ x \in U
      <4>1. /\ (U \cup {y}) \ {x} = (U \ {x}) \cup {y}
            /\ U \ {x} \in SUBSET T /\ y \in T \ (U \ {x})
        BY <3>2
      <4>2. g[(U \ {x}) \cup {y}] = f[y] + g[U \ {x}]
        BY <4>1, <2>1 DEF Sums
      <4>3. g[U \ {x}] \in Nat /\ f[x] \in Nat /\ f[y] \in Nat
        BY <4>1, <2>1 DEF Sums
      <4>4. h[U \cup {y}] = f[x] + (f[y] + g[U \ {x}]) /\ h[U] = f[x] + g[U \ {x}]
        BY <3>2, <4>1, <4>2
      <4> HIDE DEF h
      <4> QED
        BY <4>3, <4>4
    <3>3. CASE y # x /\ x \notin U
      <4>1. U \in SUBSET T /\ y \in T \ U
        BY <3>3
      <4> QED
        BY <3>3, <4>1, <2>1 DEF Sums
    <3> QED
      BY <3>1, <3>2, <3>3
  <2>5. Sums(f, T \cup {x}, h)
    <3> HIDE DEF h
    <3> QED
      BY <2>2, <2>3, <2>4 DEF Sums
  <2> QED
    BY <2>5
<1> HIDE DEF F
<1>3. S \in F
  BY <1>1, <1>2, SetsInduction
<1> QED
  BY <1>3 DEF F

\* Taking away any element, the chosen one for instance, leads to the same sum.
LEMMA SumsAgree ==
    ASSUME NEW S, IsFiniteSet(S), NEW f, \A x \in S : f[x] \in Nat,
           NEW g, Sums(f, S, g)
    PROVE  SumOf(f, S) = g[S]
<1> DEFINE ch(T) == CHOOSE x \in T : TRUE
           Iter(h) == h = [T \in SUBSET S |->
                              IF T = {} THEN 0 ELSE f[ch(T)] + h[T \ {ch(T)}]]
<1>1. \A T \in SUBSET S : T # {} => ch(T) \in T
  OBVIOUS
<1>2. SumOf(f, S) = (CHOOSE h : Iter(h))[S]
  BY DEF SumOf, MapThenSumSet, MapThenFoldSet
<1>3. Iter(g)
  <2> HIDE DEF ch
  <2>1. ASSUME NEW T \in SUBSET S, T # {}
        PROVE  g[T] = f[ch(T)] + g[T \ {ch(T)}]
    <3>1. /\ T \ {ch(T)} \in SUBSET S /\ ch(T) \in S \ (T \ {ch(T)})
          /\ (T \ {ch(T)}) \cup {ch(T)} = T
      BY <1>1, <2>1
    <3>2. g[(T \ {ch(T)}) \cup {ch(T)}] = f[ch(T)] + g[T \ {ch(T)}]
      BY <3>1 DEF Sums
    <3> QED
      BY <3>1, <3>2
  <2>2. g[{}] = 0 /\ g = [T \in SUBSET S |-> g[T]]
    BY DEF Sums
  <2> QED
    BY <2>1, <2>2
<1>4. ASSUME NEW h, Iter(h)
      PROVE  h[S] = g[S]
  <2> DEFINE N == {n \in Nat : \A T \in SUBSET S : Cardinality(T) = n => h[T] = g[T]}
  <2>1. \A T \in SUBSET S : IsFiniteSet(T) /\ Cardinality(T) \in Nat
    BY FS_Subset, FS_CardinalityType
  <2>2. 0 \in N
    <3>1. \A T \in SUBSET S : Cardinality(T) = 0 => T = {}
      BY <2>1, FS_EmptySet
    <3>2. h[{}] = 0
      BY <1>4
    <3> QED
      BY <3>1, <3>2 DEF Sums
  <2>3. ASSUME NEW n \in Nat, n \in N
        PROVE  n + 1 \in N
    <3>1. SUFFICES ASSUME NEW T \in SUBSET S, Cardinality(T) = n + 1
                   PROVE  h[T] = g[T]
      OBVIOUS
    <3>2. T # {}
      <4>1. n + 1 # 0
        OBVIOUS
      <4> QED
        BY <3>1, <4>1, FS_EmptySet
    <3>3. ch(T) \in T /\ T \ {ch(T)} \in SUBSET S
      BY <1>1, <3>2
    <3> HIDE DEF ch
    <3>4. Cardinality(T \ {ch(T)}) = n
      <4>1. Cardinality(T \ {ch(T)}) = Cardinality(T) - 1
        BY <2>1, <3>3, FS_RemoveElement
      <4> QED
        BY <4>1, <3>1
    <3>5. h[T \ {ch(T)}] = g[T \ {ch(T)}]
      BY <3>3, <3>4, <2>3
    <3>6. h[T] = f[ch(T)] + h[T \ {ch(T)}] /\ g[T] = f[ch(T)] + g[T \ {ch(T)}]
      BY <1>3, <1>4, <3>2
    <3> QED
      BY <3>5, <3>6
  <2> HIDE DEF N
  <2>4. Nat \subseteq N
    BY <2>2, <2>3, NumbersInduction
  <2> QED
    BY <2>1, <2>4 DEF N
<1> HIDE DEF Iter
<1>5. Iter(CHOOSE h : Iter(h))
  BY <1>3
<1> QED
  BY <1>2, <1>4, <1>5

\* A sum is a number, and the order of the terms makes no difference.
LEMMA SumType ==
    ASSUME NEW S, IsFiniteSet(S), NEW f, \A x \in S : f[x] \in Nat
    PROVE  SumOf(f, S) \in Nat
<1>1. PICK g : Sums(f, S, g)
  BY SumsExist
<1>2. SumOf(f, S) = g[S]
  BY <1>1, SumsAgree
<1> QED
  BY <1>1, <1>2 DEF Sums

\* The sum of no terms.
LEMMA SumEmpty ==
    ASSUME NEW f
    PROVE  SumOf(f, {}) = 0
<1>1. PICK g : Sums(f, {}, g)
  BY SumsExist, FS_EmptySet
<1>2. SumOf(f, {}) = g[{}]
  BY <1>1, SumsAgree, FS_EmptySet
<1> QED
  BY <1>1, <1>2 DEF Sums

\* One more term adds itself.
LEMMA SumMore ==
    ASSUME NEW S, IsFiniteSet(S), NEW x, x \notin S,
           NEW f, \A y \in S \cup {x} : f[y] \in Nat
    PROVE  SumOf(f, S \cup {x}) = f[x] + SumOf(f, S)
<1> DEFINE U == S \cup {x}
<1>1. IsFiniteSet(U)
  BY FS_AddElement
<1>2. PICK g : Sums(f, U, g)
  BY <1>1, SumsExist
<1>3. SumOf(f, U) = g[U]
  BY <1>1, <1>2, SumsAgree
<1>4. Sums(f, S, [T \in SUBSET S |-> g[T]])
  BY <1>2 DEF Sums
<1>5. SumOf(f, S) = g[S]
  <2>1. SumOf(f, S) = [T \in SUBSET S |-> g[T]][S]
    BY <1>4, SumsAgree
  <2> QED
    BY <2>1
<1>6. g[S \cup {x}] = f[x] + g[S]
  BY <1>2 DEF Sums
<1> QED
  BY <1>3, <1>5, <1>6

\* The sum that the community modules write otherwise.
LEMMA SumFunctionAgrees ==
    ASSUME NEW f, NEW S
    PROVE  SumFunctionOnSet(f, S) = SumOf(f, S)
BY DEF SumFunctionOnSet, FoldFunctionOnSet, SumOf, MapThenSumSet

\* A sum depends on its terms alone.
LEMMA SumSame ==
    ASSUME NEW S, IsFiniteSet(S), NEW f, NEW g,
           \A x \in S : f[x] \in Nat, \A x \in S : g[x] = f[x]
    PROVE  SumOf(g, S) = SumOf(f, S)
<1>1. PICK h : Sums(f, S, h)
  BY SumsExist
<1>2. Sums(g, S, h)
  BY <1>1 DEF Sums
<1> QED
  BY <1>1, <1>2, SumsAgree

\* A sum changes by as much as its one term does.
LEMMA SumChanged ==
    ASSUME NEW S, IsFiniteSet(S), NEW t \in S, NEW f, NEW g,
           \A x \in S : f[x] \in Nat, \A x \in S : g[x] \in Nat,
           \A x \in S \ {t} : g[x] = f[x]
    PROVE  SumOf(g, S) + f[t] = SumOf(f, S) + g[t]
<1> DEFINE R == S \ {t}
<1>1. IsFiniteSet(R) /\ t \notin R /\ R \cup {t} = S
  BY FS_Subset
<1> HIDE DEF R
<1>2. SumOf(f, R \cup {t}) = f[t] + SumOf(f, R)
  BY <1>1, SumMore
<1>3. SumOf(g, R \cup {t}) = g[t] + SumOf(g, R)
  BY <1>1, SumMore
<1>4. SumOf(g, R) = SumOf(f, R) /\ SumOf(f, R) \in Nat
  <2>1. \A x \in R : f[x] \in Nat /\ g[x] = f[x]
    BY DEF R
  <2> QED
    BY <1>1, <2>1, SumSame, SumType
<1>5. f[t] \in Nat /\ g[t] \in Nat
  OBVIOUS
<1>6. ASSUME NEW a, NEW b, NEW c \in Nat, a = f[t] + c, b = g[t] + c
      PROVE  b + f[t] = a + g[t]
  BY <1>5, <1>6
<1>7. SumOf(f, S) = f[t] + SumOf(f, R) /\ SumOf(g, S) = g[t] + SumOf(f, R)
  BY <1>1, <1>2, <1>3, <1>4
<1> QED
  BY <1>4, <1>6, <1>7
(***************************************************************************)
(* Ranks.                                                                  *)
(***************************************************************************)
\* The place of x among the elements of S, in the order of their f.
RankIn(S, f, x) == Cardinality({y \in S : f[y] <= f[x]})

\* Elements of a finite set with different f have different places, and
\* every place is taken.
LEMMA RanksFound ==
    ASSUME NEW S, IsFiniteSet(S), NEW f, \A x \in S : f[x] \in Int,
           \A x, y \in S : f[x] = f[y] => x = y
    PROVE  /\ \A x \in S : RankIn(S, f, x) \in 1..Cardinality(S)
           /\ \A x, y \in S : RankIn(S, f, x) = RankIn(S, f, y) => x = y
           /\ \A i \in 1..Cardinality(S) : \E x \in S : RankIn(S, f, x) = i
<1> DEFINE below(x) == {y \in S : f[y] <= f[x]}
           n == Cardinality(S)
           r == [x \in S |-> Cardinality(below(x))]
<1>1. ASSUME NEW x \in S
      PROVE  /\ IsFiniteSet(below(x)) /\ x \in below(x)
             /\ Cardinality(below(x)) \in 1..n
  <2>1. below(x) \in SUBSET S /\ x \in below(x)
    OBVIOUS
  <2>2. IsFiniteSet(below(x)) /\ Cardinality(below(x)) <= n
    BY <2>1, FS_Subset
  <2>3. Cardinality(below(x)) \in Nat /\ n \in Nat /\ Cardinality(below(x)) # 0
    BY <2>1, <2>2, FS_CardinalityType, FS_EmptySet
  <2> QED
    BY <2>1, <2>2, <2>3
<1>2. ASSUME NEW x \in S, NEW y \in S, f[x] < f[y]
      PROVE  Cardinality(below(x)) # Cardinality(below(y))
  <2>1. below(x) \in SUBSET below(y) /\ y \in below(y) /\ y \notin below(x)
    BY <1>2
  <2> HIDE DEF below
  <2> QED
    BY <1>1, <2>1, FS_Subset
<1>3. ASSUME NEW x \in S, NEW y \in S, Cardinality(below(x)) = Cardinality(below(y))
      PROVE  x = y
  <2>1. ~(f[x] < f[y]) /\ ~(f[y] < f[x])
    BY <1>2, <1>3
  <2> QED
    BY <2>1
<1> HIDE DEF below
<1>4. r \in Injection(S, 1..n)
  BY <1>1, <1>3 DEF Injection, IsInjective
<1>5. IsFiniteSet(1..n) /\ Cardinality(1..n) = n
  BY FS_CardinalityType, FS_Interval
<1>6. r \in Surjection(S, 1..n)
  BY <1>4, <1>5, FS_Injection
<1>7. \A i \in 1..n : \E x \in S : r[x] = i
  BY <1>6 DEF Surjection
<1> QED
  BY <1>1, <1>3, <1>7 DEF RankIn, below

(***************************************************************************)
(* Folds.  A fold takes the elements of a finite set one by one, as its    *)
(* choice function says; a fold of a sequence takes those of its domain.   *)
(***************************************************************************)
Chooses(c, S) == \A T \in SUBSET S : T # {} => c[T] \in T

\* Of a finite set, what holds when nothing is left to choose and goes on to
\* hold with one more choice holds of the whole.
LEMMA ChoiceInduction ==
    ASSUME NEW S, IsFiniteSet(S), NEW c, Chooses(c, S), NEW F, {} \in F,
           \A T \in SUBSET S : T # {} /\ T \ {c[T]} \in F => T \in F
    PROVE  S \in F
<1> DEFINE N == {n \in Nat : \A T \in SUBSET S : Cardinality(T) = n => T \in F}
<1>1. \A T \in SUBSET S : IsFiniteSet(T) /\ Cardinality(T) \in Nat
  BY FS_Subset, FS_CardinalityType
<1>2. 0 \in N
  <2>1. \A T \in SUBSET S : Cardinality(T) = 0 => T = {}
    BY <1>1, FS_EmptySet
  <2> QED
    BY <2>1
<1>3. ASSUME NEW n \in Nat, n \in N
      PROVE  n + 1 \in N
  <2>1. SUFFICES ASSUME NEW T \in SUBSET S, Cardinality(T) = n + 1
                 PROVE  T \in F
    OBVIOUS
  <2>2. T # {}
    <3>1. n + 1 # 0
      OBVIOUS
    <3> QED
      BY <2>1, <3>1, FS_EmptySet
  <2>3. c[T] \in T /\ T \ {c[T]} \in SUBSET S
    BY <2>2 DEF Chooses
  <2>4. Cardinality(T \ {c[T]}) = n
    <3>1. Cardinality(T \ {c[T]}) = Cardinality(T) - 1
      BY <1>1, <2>3, FS_RemoveElement
    <3> QED
      BY <3>1, <2>1
  <2>5. T \ {c[T]} \in F
    BY <2>3, <2>4, <1>3
  <2> QED
    BY <2>2, <2>5
<1> HIDE DEF N
<1>4. Nat \subseteq N
  BY <1>2, <1>3, NumbersInduction
<1> QED
  BY <1>1, <1>4 DEF N

\* The fold over S from p with g, and the values that it goes through.
Folding(S, c, P, p, g) ==
    IsFiniteSet(S) /\ Chooses(c, S) /\ p \in P /\ g \in [S \X P -> P]

FoldedBy(h, S, c, P, p, g) ==
    /\ h \in [SUBSET S -> P]
    /\ \A T \in SUBSET S : h[T] = IF T = {} THEN p ELSE g[<<c[T], h[T \ {c[T]}]>>]

\* There is a function with the values that a fold goes through.
LEMMA FoldExists ==
    ASSUME NEW S, NEW c, NEW P, NEW p, NEW g, Folding(S, c, P, p, g)
    PROVE  \E h : FoldedBy(h, S, c, P, p, g)
<1> DEFINE Fits(h, n) == \A T \in SUBSET S : Cardinality(T) <= n =>
                  h[T] = IF T = {} THEN p ELSE g[<<c[T], h[T \ {c[T]}]>>]
           N == {n \in Nat : \E h \in [SUBSET S -> P] : Fits(h, n)}
<1>0. IsFiniteSet(S) /\ Chooses(c, S) /\ p \in P /\ g \in [S \X P -> P]
  BY DEF Folding
<1>1. \A T \in SUBSET S : IsFiniteSet(T) /\ Cardinality(T) \in Nat
  BY <1>0, FS_Subset, FS_CardinalityType
<1>a. \A T \in SUBSET S : T # {} =>
         /\ c[T] \in S /\ T \ {c[T]} \in SUBSET S
         /\ Cardinality(T \ {c[T]}) = Cardinality(T) - 1
  BY <1>0, <1>1, FS_RemoveElement DEF Chooses
<1>2. 0 \in N
  <2>1. \A T \in SUBSET S : Cardinality(T) <= 0 => T = {}
    BY <1>1, FS_EmptySet
  <2>2. Fits([T \in SUBSET S |-> p], 0)
    BY <2>1
  <2>3. [T \in SUBSET S |-> p] \in [SUBSET S -> P]
    BY <1>0
  <2> QED
    BY <2>2, <2>3
<1>3. ASSUME NEW n \in Nat, n \in N
      PROVE  n + 1 \in N
  <2>1. PICK h \in [SUBSET S -> P] : Fits(h, n)
    BY <1>3
  <2> DEFINE k == [T \in SUBSET S |-> IF T # {} /\ Cardinality(T) = n + 1
                                      THEN g[<<c[T], h[T \ {c[T]}]>>] ELSE h[T]]
  <2>2. k \in [SUBSET S -> P]
    <3>1. ASSUME NEW T \in SUBSET S, T # {}
          PROVE  g[<<c[T], h[T \ {c[T]}]>>] \in P
      BY <3>1, <1>a, <1>0
    <3> QED
      BY <3>1
  <2>3. \A T \in SUBSET S : Cardinality(T) <= n => k[T] = h[T]
    BY <1>1
  <2>4. ASSUME NEW T \in SUBSET S, Cardinality(T) <= n + 1, T # {}
        PROVE  k[T] = g[<<c[T], k[T \ {c[T]}]>>]
    <3>1. k[T \ {c[T]}] = h[T \ {c[T]}]
      BY <2>3, <2>4, <1>a, <1>1
    <3>2. CASE Cardinality(T) = n + 1
      BY <3>1, <3>2, <2>4
    <3>3. CASE Cardinality(T) # n + 1
      <4>1. Cardinality(T) <= n
        BY <3>3, <2>4, <1>1
      <4> HIDE DEF k
      <4> QED
        BY <4>1, <3>1, <2>1, <2>3, <2>4
    <3> QED
      BY <3>2, <3>3
  <2>5. k[{}] = p
    <3>1. Cardinality({}) <= n /\ {} \in SUBSET S
      BY FS_EmptySet
    <3> HIDE DEF k
    <3>2. k[{}] = h[{}]
      BY <3>1, <2>3
    <3>3. h[{}] = IF {} = {} THEN p ELSE g[<<c[{}], h[{} \ {c[{}]}]>>]
      BY <3>1, <2>1
    <3> QED
      BY <3>2, <3>3
  <2> HIDE DEF k
  <2>6. Fits(k, n + 1)
    BY <2>4, <2>5
  <2>7. \E f \in [SUBSET S -> P] : Fits(f, n + 1)
    <3> HIDE DEF Fits
    <3> QED
      BY <2>2, <2>6
  <2>8. n + 1 \in Nat
    OBVIOUS
  <2> HIDE DEF Fits
  <2> QED
    BY <2>7, <2>8
<1> HIDE DEF N
<1>4. Nat \subseteq N
  BY <1>2, <1>3, NumbersInduction
<1>5. PICK h \in [SUBSET S -> P] : Fits(h, Cardinality(S))
  BY <1>1, <1>4 DEF N
<1>6. \A T \in SUBSET S : Cardinality(T) <= Cardinality(S)
  BY <1>0, FS_Subset
<1> QED
  BY <1>5, <1>6 DEF FoldedBy

\* What starts and goes on like a fold ends like it.
FoldsAlike(f, S, c, P, p, g) ==
    /\ f[{}] = p
    /\ \A T \in SUBSET S : T # {} /\ f[T \ {c[T]}] \in P
                                => f[T] = g[<<c[T], f[T \ {c[T]}]>>]

LEMMA FoldFollows ==
    ASSUME NEW S, NEW c, NEW P, NEW p, NEW g, Folding(S, c, P, p, g),
           NEW h, FoldedBy(h, S, c, P, p, g), NEW f, FoldsAlike(f, S, c, P, p, g)
    PROVE  f[S] = h[S]
<1> DEFINE F == {T \in SUBSET S : f[T] = h[T]}
<1>0. IsFiniteSet(S) /\ Chooses(c, S)
  BY DEF Folding
<1>1. {} \in F
  BY DEF FoldedBy, FoldsAlike
<1>2. ASSUME NEW T \in SUBSET S, T # {}, T \ {c[T]} \in F
      PROVE  T \in F
  <2>1. f[T \ {c[T]}] = h[T \ {c[T]}] /\ h[T \ {c[T]}] \in P
    BY <1>2 DEF FoldedBy
  <2>2. f[T] = g[<<c[T], f[T \ {c[T]}]>>]
    BY <1>2, <2>1 DEF FoldsAlike
  <2>3. h[T] = g[<<c[T], h[T \ {c[T]}]>>]
    BY <1>2 DEF FoldedBy
  <2> QED
    BY <2>1, <2>2, <2>3
<1> HIDE DEF F
<1>3. S \in F
  BY <1>0, <1>1, <1>2, ChoiceInduction
<1> QED
  BY <1>3 DEF F

\* What relates the empty set to the start of a fold, and goes on to relate
\* more to what follows, relates the set to the end.
Carries(R, S, P, p, g) ==
    /\ <<{}, p>> \in R
    /\ \A T \in SUBSET S : \A x \in S \ T : \A q \in P :
          <<T, q>> \in R => <<T \cup {x}, g[<<x, q>>]>> \in R

LEMMA FoldInduction ==
    ASSUME NEW S, NEW c, NEW P, NEW p, NEW g, Folding(S, c, P, p, g),
           NEW h, FoldedBy(h, S, c, P, p, g), NEW R, Carries(R, S, P, p, g)
    PROVE  h[S] \in P /\ <<S, h[S]>> \in R
<1> DEFINE F == {T \in SUBSET S : <<T, h[T]>> \in R}
<1>0. IsFiniteSet(S) /\ Chooses(c, S)
  BY DEF Folding
<1>1. {} \in F
  BY DEF FoldedBy, Carries
<1>2. ASSUME NEW T \in SUBSET S, T # {}, T \ {c[T]} \in F
      PROVE  T \in F
  <2>1. /\ c[T] \in T /\ T \ {c[T]} \in SUBSET S /\ c[T] \in S \ (T \ {c[T]})
        /\ T = (T \ {c[T]}) \cup {c[T]}
    BY <1>0, <1>2 DEF Chooses
  <2>2. h[T \ {c[T]}] \in P /\ h[T] = g[<<c[T], h[T \ {c[T]}]>>]
    BY <1>2 DEF FoldedBy
  <2>3. <<T \ {c[T]}, h[T \ {c[T]}]>> \in R
    BY <1>2
  <2>4. <<(T \ {c[T]}) \cup {c[T]}, g[<<c[T], h[T \ {c[T]}]>>]>> \in R
    BY <2>1, <2>2, <2>3 DEF Carries
  <2> QED
    BY <2>1, <2>2, <2>4
<1> HIDE DEF F
<1>3. S \in F
  BY <1>0, <1>1, <1>2, ChoiceInduction
<1>4. h[S] \in P
  BY DEF FoldedBy
<1> QED
  BY <1>3, <1>4 DEF F

\* The elements that FoldSet chooses, and those that FoldLeft does.
SetChoice(S)  == [T \in SUBSET S |-> CHOOSE x \in T : TRUE]
LastChoice(n) == [T \in SUBSET (1..n) |-> Max(T)]

LEMMA ChoicesMade ==
    /\ \A S : Chooses(SetChoice(S), S)
    /\ \A n \in Nat : Chooses(LastChoice(n), 1..n)
<1>1. ASSUME NEW S
      PROVE  Chooses(SetChoice(S), S)
  BY DEF Chooses, SetChoice
<1>2. ASSUME NEW n \in Nat
      PROVE  Chooses(LastChoice(n), 1..n)
  <2>1. ASSUME NEW T \in SUBSET (1..n), T # {}
        PROVE  Max(T) \in T
    <3>1. T \in SUBSET (0..n)
      OBVIOUS
    <3> QED
      BY <2>1, <3>1, GreatestElement
  <2> QED
    BY <2>1 DEF Chooses, LastChoice
<1> QED
  BY <1>1, <1>2

\* A fold from the right takes the first index of a set last.
FirstChoice(n) == [T \in SUBSET (1..n) |-> Min(T)]

LEMMA FirstChoiceMade ==
    ASSUME NEW n \in Nat
    PROVE  /\ Chooses(FirstChoice(n), 1..n)
           /\ \A T \in SUBSET (1..n) : T # {} => \A y \in T : FirstChoice(n)[T] <= y
<1>1. ASSUME NEW T \in SUBSET (1..n), T # {}
      PROVE  Min(T) \in T /\ \A y \in T : Min(T) <= y
  <2>1. \E x \in T : \A y \in T : x <= y
    BY <1>1, SmallestElement
  <2> QED
    BY <2>1 DEF Min
<1> QED
  BY <1>1 DEF Chooses, FirstChoice

(***************************************************************************)
(* Sums and their parts.                                                   *)
(***************************************************************************)
\* No term is more than the sum.
LEMMA SumAtLeast ==
    ASSUME NEW S, IsFiniteSet(S), NEW f, \A x \in S : f[x] \in Nat, NEW x \in S
    PROVE  f[x] <= SumOf(f, S)
<1>1. IsFiniteSet(S \ {x}) /\ S = (S \ {x}) \cup {x} /\ x \notin S \ {x}
  BY FS_Subset
<1>2. SumOf(f, S \ {x}) \in Nat
  BY <1>1, SumType
<1>3. SumOf(f, S) = f[x] + SumOf(f, S \ {x})
  BY <1>1, SumMore
<1> QED
  BY <1>2, <1>3

\* The sum over a part is the sum over all with nothing for the rest.
LEMMA SumOfPart ==
    ASSUME NEW S, IsFiniteSet(S), NEW T \in SUBSET S,
           NEW f, \A x \in T : f[x] \in Nat,
           NEW g, \A x \in S : g[x] = IF x \in T THEN f[x] ELSE 0
    PROVE  SumOf(f, T) = SumOf(g, S)
<1> DEFINE F == {U \in SUBSET S : SumOf(f, U \cap T) = SumOf(g, U)}
<1>1. {} \in F
  BY SumEmpty
<1>2. ASSUME NEW U \in SUBSET S, NEW x \in S \ U, U \in F
      PROVE  U \cup {x} \in F
  <2>1. /\ IsFiniteSet(U) /\ IsFiniteSet(U \cap T) /\ x \notin U
        /\ \A y \in U \cup {x} : g[y] \in Nat
        /\ SumOf(f, U \cap T) = SumOf(g, U)
    BY <1>2, FS_Subset
  <2> HIDE DEF F
  <2>2. SumOf(g, U \cup {x}) = g[x] + SumOf(g, U)
    BY <2>1, SumMore
  <2>3. SumOf(g, U) \in Nat
    BY <2>1, SumType
  <2>4. ASSUME x \in T
        PROVE  SumOf(f, (U \cup {x}) \cap T) = SumOf(g, U \cup {x})
    <3>1. (U \cup {x}) \cap T = (U \cap T) \cup {x}
      BY <2>4
    <3>2. x \notin U \cap T /\ \A y \in (U \cap T) \cup {x} : f[y] \in Nat
      BY <2>1, <2>4
    <3>3. SumOf(f, (U \cap T) \cup {x}) = f[x] + SumOf(f, U \cap T)
      BY <2>1, <3>2, SumMore
    <3>4. g[x] = f[x]
      BY <2>4
    <3> QED
      BY <2>1, <2>2, <3>1, <3>3, <3>4
  <2>5. ASSUME x \notin T
        PROVE  SumOf(f, (U \cup {x}) \cap T) = SumOf(g, U \cup {x})
    <3>1. (U \cup {x}) \cap T = U \cap T
      BY <2>5
    <3>2. g[x] = 0
      BY <2>5
    <3>3. SumOf(g, U \cup {x}) = SumOf(g, U)
      BY <2>2, <2>3, <3>2
    <3> QED
      BY <2>1, <3>1, <3>3
  <2> QED
    BY <2>4, <2>5 DEF F
<1> HIDE DEF F
<1>3. S \in F
  BY <1>1, <1>2, SetsInduction
<1>4. S \cap T = T
  OBVIOUS
<1> QED
  BY <1>3, <1>4 DEF F

\* Sums add up.
LEMMA SumAdds ==
    ASSUME NEW S, IsFiniteSet(S), NEW f, \A x \in S : f[x] \in Nat,
           NEW g, \A x \in S : g[x] \in Nat, NEW h, \A x \in S : h[x] = f[x] + g[x]
    PROVE  SumOf(h, S) = SumOf(f, S) + SumOf(g, S)
<1> DEFINE F == {U \in SUBSET S : SumOf(h, U) = SumOf(f, U) + SumOf(g, U)}
<1>1. {} \in F
  BY SumEmpty
<1>2. ASSUME NEW U \in SUBSET S, NEW x \in S \ U, U \in F
      PROVE  U \cup {x} \in F
  <2>1. /\ IsFiniteSet(U) /\ x \notin U /\ \A y \in U \cup {x} : h[y] \in Nat
        /\ \A y \in U \cup {x} : f[y] \in Nat /\ g[y] \in Nat
    BY FS_Subset
  <2>2. /\ SumOf(f, U \cup {x}) = f[x] + SumOf(f, U)
        /\ SumOf(g, U \cup {x}) = g[x] + SumOf(g, U)
        /\ SumOf(h, U \cup {x}) = h[x] + SumOf(h, U)
    BY <2>1, SumMore
  <2>3. SumOf(f, U) \in Nat /\ SumOf(g, U) \in Nat
    BY <2>1, SumType
  <2>4. SumOf(h, U) = SumOf(f, U) + SumOf(g, U) /\ h[x] = f[x] + g[x]
        /\ f[x] \in Nat /\ g[x] \in Nat
    BY <1>2
  <2>5. SumOf(h, U \cup {x}) = SumOf(f, U \cup {x}) + SumOf(g, U \cup {x})
    BY <2>2, <2>3, <2>4
  <2> QED
    BY <2>5
<1> HIDE DEF F
<1>3. S \in F
  BY <1>1, <1>2, SetsInduction
<1> QED
  BY <1>3 DEF F

\* A sum of equal terms.
LEMMA SumOfEqual ==
    ASSUME NEW S, IsFiniteSet(S), NEW c \in Nat, NEW f, \A x \in S : f[x] = c
    PROVE  SumOf(f, S) = c * Cardinality(S)
<1> DEFINE F == {U \in SUBSET S : SumOf(f, U) = c * Cardinality(U)}
<1>1. {} \in F
  BY SumEmpty, FS_EmptySet
<1>2. ASSUME NEW U \in SUBSET S, NEW x \in S \ U, U \in F
      PROVE  U \cup {x} \in F
  <2>1. /\ IsFiniteSet(U) /\ x \notin U /\ f[x] = c
        /\ \A y \in U \cup {x} : f[y] \in Nat
    BY FS_Subset
  <2>2. SumOf(f, U \cup {x}) = c + SumOf(f, U)
    BY <2>1, SumMore
  <2>3. Cardinality(U) \in Nat /\ Cardinality(U \cup {x}) = Cardinality(U) + 1
    BY <2>1, FS_AddElement, FS_CardinalityType
  <2>4. c + c * Cardinality(U) = c * (Cardinality(U) + 1)
    BY <2>3
  <2>5. SumOf(f, U) = c * Cardinality(U)
    BY <1>2
  <2>6. SumOf(f, U \cup {x}) = c * Cardinality(U \cup {x})
    BY <2>2, <2>3, <2>4, <2>5
  <2> QED
    BY <2>6
<1> HIDE DEF F
<1>3. S \in F
  BY <1>1, <1>2, SetsInduction
<1> QED
  BY <1>3 DEF F

=============================================================================
