------------------------------ MODULE ZcoProofs ------------------------------
(***************************************************************************)
(* The proofs about zero-copy objects: that the occupancy and the          *)
(* citations are exact and that every byte has an owner (Zco), and that    *)
(* the list of requisitions for their space is in order and what wakes a   *)
(* task is a service (ZcoSpace).                                           *)
(***************************************************************************)
EXTENDS Zco, ZcoSpace, DataLemmas

(***************************************************************************)
(* The stores that the functions of Zco work on.                           *)
(***************************************************************************)
ZcoExtents == [lien : LienIds, offset : Nat, length : Nat]
Zcos  == [is : {"zco"}, acct : Accts, headers : Seq(Objects), extents : Seq(ZcoExtents),
          headersLength : Nat, sourceLength : Nat, trailersLength : Nat,
          capsuleLength : Nat, totalLength : Nat]
Counts == [Accts -> Nat]
Liens == [is : {"lien"}, ref : Objects, length : Nat, count : Counts]
Refs  == [is : {"ref"}, count : Counts, okayToDestroy : BOOLEAN]

Stores == [zcos : [ZcoIds -> Zcos \cup {NoZco}], liens : [LienIds -> Liens \cup {NoLien}],
           refs : [Objects -> Refs \cup {NoRef}], objects : SUBSET Objects,
           book : [Accts -> [Media -> Int]]]

\* Nothing that is there is like nothing.
LEMMA EntriesReal ==
    (\A z \in Zcos : z # NoZco) /\ (\A l \in Liens : l # NoLien) /\ (\A r \in Refs : r # NoRef)
<1>1. ASSUME NEW z \in Zcos PROVE z # NoZco
  <2>1. z.is = "zco" /\ NoZco.is = "none"
    BY DEF Zcos, NoZco
  <2> QED
    BY <2>1
<1>2. ASSUME NEW l \in Liens PROVE l # NoLien
  <2>1. l.is = "lien" /\ NoLien.is = "none"
    BY DEF Liens, NoLien
  <2> QED
    BY <2>1
<1>3. ASSUME NEW r \in Refs PROVE r # NoRef
  <2>1. r.is = "ref" /\ NoRef.is = "none"
    BY DEF Refs, NoRef
  <2> QED
    BY <2>1
<1> QED
  BY <1>1, <1>2, <1>3

\* The parts of a ZCO.
LEMMA ZcoTyped ==
    ASSUME NEW x \in Zcos
    PROVE  /\ x.extents \in Seq(ZcoExtents) /\ Len(x.extents) \in Nat
           /\ x.headers \in Seq(Objects) /\ Len(x.headers) \in Nat
           /\ x.acct \in Accts /\ x.capsuleLength \in Nat
<1>1. /\ x.extents \in Seq(ZcoExtents) /\ x.headers \in Seq(Objects)
      /\ x.acct \in Accts /\ x.capsuleLength \in Nat
  BY DEF Zcos
<1> QED
  BY <1>1

\* What ZcoAssumption says of addresses and of sizes.
LEMMA Addresses == IsFiniteSet(Objects) /\ IsFiniteSet(ZcoIds) /\ IsFiniteSet(LienIds)
BY ZcoAssumption

\* The sizes that the book counts in.
LEMMA Sizes ==
    /\ ZcoSize \in Nat /\ CapsuleSize \in Nat /\ ExtentSize \in Nat /\ LienSize \in Nat
    /\ \A o \in Objects : Length[o] \in Nat /\ Length[o] > 0 /\ Medium[o] \in Media
                          /\ RefSize[Medium[o]] \in Nat
    /\ RefSize["heap"] \in Nat
BY ZcoAssumption DEF Media

(***************************************************************************)
(* The book.  What a lien, a reference and a ZCO cost in a medium; x is    *)
(* what is at an address and v is what is at the addresses of ZCOs.        *)
(***************************************************************************)
LienCost(x, a, m) ==
    IF x # NoLien /\ x.count[a] > 0
    THEN (IF Medium[x.ref] = m THEN x.length ELSE 0) + (IF m = "heap" THEN LienSize ELSE 0)
    ELSE 0
RefCost(o, r, a, m) ==
    IF r # NoRef /\ m = "heap" /\ r.count[a] > 0 THEN RefSize[Medium[o]] ELSE 0
ZcoCost(x, a, m) ==
    IF x # NoZco /\ x.acct = a /\ m = "heap"
    THEN ZcoSize + ExtentSize * Len(x.extents) + CapsuleSize * Len(x.headers)
         + x.capsuleLength
    ELSE 0

LienCosts(s, a, m) == [l \in LienIds |-> LienCost(s.liens[l], a, m)]
RefCosts(s, a, m)  == [o \in Objects |-> RefCost(o, s.refs[o], a, m)]
ZcoCosts(v, a, m)  == [z \in ZcoIds |-> ZcoCost(v[z], a, m)]

\* What the book has over what the liens and the references cost, ...
Excess(s, a, m) ==
    s.book[a][m] - (SumOf(LienCosts(s, a, m), LienIds) + SumOf(RefCosts(s, a, m), Objects))

\* ... which is what the ZCOs cost.
ZcoDue(v, a, m) == SumOf(ZcoCosts(v, a, m), ZcoIds)

\* Costs are natural numbers.
LEMMA LienCostType ==
    ASSUME NEW x \in Liens \cup {NoLien}, NEW a \in Accts, NEW m \in Media
    PROVE  LienCost(x, a, m) \in Nat
<1>1. CASE x = NoLien
  BY <1>1 DEF LienCost
<1>2. CASE x \in Liens
  BY <1>2, Sizes DEF LienCost, Liens
<1> QED
  BY <1>1, <1>2

\* So is what a ZCO costs.
LEMMA ZcoCostType ==
    ASSUME NEW x \in Zcos \cup {NoZco}, NEW a \in Accts, NEW m \in Media
    PROVE  ZcoCost(x, a, m) \in Nat
<1>1. CASE x = NoZco
  BY <1>1 DEF ZcoCost
<1>2. CASE x \in Zcos
  <2> DEFINE p == ExtentSize * Len(x.extents)
             q == CapsuleSize * Len(x.headers)
  <2>1. Len(x.extents) \in Nat /\ Len(x.headers) \in Nat /\ x.capsuleLength \in Nat
    BY <1>2, ZcoTyped
  <2>2. p \in Nat /\ q \in Nat
    BY <2>1, Sizes
  <2> HIDE DEF p, q
  <2>3. ZcoSize + p + q + x.capsuleLength \in Nat
    BY <2>1, <2>2, Sizes
  <2> QED
    BY <2>3 DEF ZcoCost, p, q
<1> QED
  BY <1>1, <1>2

\* And so are their sums; what the book has in excess of them is a number.
LEMMA CostTypes ==
    ASSUME NEW s \in Stores, NEW a \in Accts, NEW m \in Media
    PROVE  /\ LienCosts(s, a, m) \in [LienIds -> Nat]
           /\ RefCosts(s, a, m) \in [Objects -> Nat]
           /\ SumOf(LienCosts(s, a, m), LienIds) \in Nat
           /\ SumOf(RefCosts(s, a, m), Objects) \in Nat
           /\ s.book[a][m] \in Int /\ Excess(s, a, m) \in Int
<1>1. ASSUME NEW l \in LienIds PROVE LienCost(s.liens[l], a, m) \in Nat
  BY LienCostType DEF Stores
<1>2. ASSUME NEW o \in Objects PROVE RefCost(o, s.refs[o], a, m) \in Nat
  BY Sizes DEF RefCost
<1>3. /\ LienCosts(s, a, m) \in [LienIds -> Nat]
      /\ RefCosts(s, a, m) \in [Objects -> Nat]
  BY <1>1, <1>2 DEF LienCosts, RefCosts
<1>4. /\ SumOf(LienCosts(s, a, m), LienIds) \in Nat
      /\ SumOf(RefCosts(s, a, m), Objects) \in Nat
  <2>1. /\ \A l \in LienIds : LienCosts(s, a, m)[l] \in Nat
        /\ \A o \in Objects : RefCosts(s, a, m)[o] \in Nat
    BY <1>3
  <2> QED
    BY <2>1, SumType, Addresses
<1>5. s.book[a][m] \in Int
  BY DEF Stores
<1> QED
  BY <1>3, <1>4, <1>5 DEF Excess

\* A lien or a reference that changes takes what it costs from the excess.
LEMMA LienChange ==
    ASSUME NEW s \in Stores, NEW t \in Stores, NEW l \in LienIds, NEW x,
           \A k \in LienIds : t.liens[k] = IF k = l THEN x ELSE s.liens[k],
           t.refs = s.refs, t.book = s.book,
           NEW a \in Accts, NEW m \in Media
    PROVE  Excess(t, a, m) = Excess(s, a, m) + LienCost(s.liens[l], a, m) - LienCost(x, a, m)
<1> DEFINE f == LienCosts(s, a, m)
           g == LienCosts(t, a, m)
           r == SumOf(RefCosts(s, a, m), Objects)
<1>1. f \in [LienIds -> Nat] /\ g \in [LienIds -> Nat]
  BY CostTypes
<1>2. /\ f[l] = LienCost(s.liens[l], a, m) /\ g[l] = LienCost(x, a, m)
      /\ \A k \in LienIds \ {l} : g[k] = f[k]
  BY DEF LienCosts
<1>3. SumOf(f, LienIds) \in Nat /\ SumOf(g, LienIds) \in Nat /\ r \in Nat
      /\ s.book[a][m] \in Int
  BY CostTypes
<1>4. /\ Excess(s, a, m) = s.book[a][m] - (SumOf(f, LienIds) + r)
      /\ Excess(t, a, m) = s.book[a][m] - (SumOf(g, LienIds) + r)
  BY DEF Excess, RefCosts
<1> HIDE DEF f, g, r
<1>5. SumOf(g, LienIds) + f[l] = SumOf(f, LienIds) + g[l] /\ f[l] \in Nat /\ g[l] \in Nat
  BY <1>1, <1>2, SumChanged, Addresses
<1> QED
  BY <1>2, <1>3, <1>4, <1>5

\* The same for a reference.
LEMMA RefChange ==
    ASSUME NEW s \in Stores, NEW t \in Stores, NEW o \in Objects, NEW x,
           \A k \in Objects : t.refs[k] = IF k = o THEN x ELSE s.refs[k],
           t.liens = s.liens, t.book = s.book,
           NEW a \in Accts, NEW m \in Media
    PROVE  Excess(t, a, m) = Excess(s, a, m) + RefCost(o, s.refs[o], a, m) - RefCost(o, x, a, m)
<1> DEFINE f == RefCosts(s, a, m)
           g == RefCosts(t, a, m)
           r == SumOf(LienCosts(s, a, m), LienIds)
<1>1. f \in [Objects -> Nat] /\ g \in [Objects -> Nat]
  BY CostTypes
<1>2. /\ f[o] = RefCost(o, s.refs[o], a, m) /\ g[o] = RefCost(o, x, a, m)
      /\ \A k \in Objects \ {o} : g[k] = f[k]
  BY DEF RefCosts
<1>3. SumOf(f, Objects) \in Nat /\ SumOf(g, Objects) \in Nat /\ r \in Nat
      /\ s.book[a][m] \in Int
  BY CostTypes
<1>4. /\ Excess(s, a, m) = s.book[a][m] - (r + SumOf(f, Objects))
      /\ Excess(t, a, m) = s.book[a][m] - (r + SumOf(g, Objects))
  BY DEF Excess, LienCosts
<1> HIDE DEF f, g, r
<1>5. SumOf(g, Objects) + f[o] = SumOf(f, Objects) + g[o] /\ f[o] \in Nat /\ g[o] \in Nat
  BY <1>1, <1>2, SumChanged, Addresses
<1> QED
  BY <1>2, <1>3, <1>4, <1>5

\* A ZCO changes what is due by what it costs.
ZcoTables == [ZcoIds -> Zcos \cup {NoZco}]

\* What ZCOs owe when one of them is another.
LEMMA ZcoChange ==
    ASSUME NEW v \in ZcoTables, NEW z \in ZcoIds, NEW x \in Zcos \cup {NoZco},
           NEW a \in Accts, NEW m \in Media
    PROVE  /\ ZcoDue(v, a, m) \in Nat
           /\ ZcoDue([v EXCEPT ![z] = x], a, m)
                = ZcoDue(v, a, m) + ZcoCost(x, a, m) - ZcoCost(v[z], a, m)
<1> DEFINE w == [v EXCEPT ![z] = x]
           f == ZcoCosts(v, a, m)
           g == ZcoCosts(w, a, m)
<1>1. w \in ZcoTables /\ w[z] = x /\ \A k \in ZcoIds \ {z} : w[k] = v[k]
  BY DEF ZcoTables
<1>2. \A k \in ZcoIds : v[k] \in Zcos \cup {NoZco} /\ w[k] \in Zcos \cup {NoZco}
  BY <1>1 DEF ZcoTables
<1>3. /\ f[z] = ZcoCost(v[z], a, m) /\ g[z] = ZcoCost(x, a, m)
      /\ \A k \in ZcoIds \ {z} : g[k] = f[k]
      /\ \A k \in ZcoIds : f[k] \in Nat /\ g[k] \in Nat
  <2> HIDE DEF w
  <2> QED
    BY <1>1, <1>2, ZcoCostType DEF ZcoCosts
<1> HIDE DEF f, g, w
<1>4. /\ SumOf(f, ZcoIds) \in Nat /\ SumOf(g, ZcoIds) \in Nat
      /\ SumOf(g, ZcoIds) + f[z] = SumOf(f, ZcoIds) + g[z]
  BY <1>3, SumChanged, SumType, Addresses
<1>5. ZcoDue(v, a, m) = SumOf(f, ZcoIds) /\ ZcoDue(w, a, m) = SumOf(g, ZcoIds)
  BY DEF ZcoDue, f, g
<1>6. ZcoCost(v[z], a, m) \in Nat /\ ZcoCost(x, a, m) \in Nat
  BY <1>2, ZcoCostType
<1> QED
  BY <1>3, <1>4, <1>5, <1>6 DEF w

\* What is posted is in the book, and nowhere else.
Posted(t, s, a, m, n) ==
    /\ t \in Stores /\ t.zcos = s.zcos /\ t.liens = s.liens /\ t.refs = s.refs
    /\ t.objects = s.objects
    /\ \A b \in Accts, k \in Media :
          Excess(t, b, k) = Excess(s, b, k) + (IF b = a /\ k = m THEN n ELSE 0)

\* Increase and Reduce move the excess, and nothing else.
LEMMA BookPosted ==
    ASSUME NEW s \in Stores, NEW a \in Accts, NEW m \in Media, NEW n \in Nat
    PROVE  Posted(Increase(s, a, m, n), s, a, m, n) /\ Posted(Reduce(s, a, m, n), s, a, m, -n)
<1>1. ASSUME NEW i \in Int, NEW t, t = [s EXCEPT !.book[a][m] = @ + i]
      PROVE  Posted(t, s, a, m, i)
  <2>1. /\ t \in Stores /\ t.zcos = s.zcos /\ t.liens = s.liens /\ t.refs = s.refs
        /\ t.objects = s.objects
        /\ t.book = [s.book EXCEPT ![a] = [s.book[a] EXCEPT ![m] = s.book[a][m] + i]]
    <3>1. /\ t.zcos = s.zcos /\ t.liens = s.liens /\ t.refs = s.refs
          /\ t.objects = s.objects
          /\ t.book = [s.book EXCEPT ![a] = [s.book[a] EXCEPT ![m] = s.book[a][m] + i]]
          /\ t = [zcos |-> t.zcos, liens |-> t.liens, refs |-> t.refs,
                  objects |-> t.objects, book |-> t.book]
      BY <1>1 DEF Stores
    <3>2. t.book \in [Accts -> [Media -> Int]]
      <4>1. s.book \in [Accts -> [Media -> Int]]
        BY DEF Stores
      <4> QED
        BY <3>1, <4>1
    <3> QED
      BY <3>1, <3>2 DEF Stores
  <2>2. ASSUME NEW b \in Accts, NEW k \in Media
        PROVE  Excess(t, b, k) = Excess(s, b, k) + (IF b = a /\ k = m THEN i ELSE 0)
    <3> DEFINE d == SumOf(LienCosts(s, b, k), LienIds) + SumOf(RefCosts(s, b, k), Objects)
    <3>1. /\ Excess(s, b, k) = s.book[b][k] - d /\ Excess(t, b, k) = t.book[b][k] - d
          /\ d \in Nat
      BY <2>1, CostTypes DEF Excess, LienCosts, RefCosts
    <3>2. /\ s.book[b][k] \in Int
          /\ t.book[b][k] = s.book[b][k] + (IF b = a /\ k = m THEN i ELSE 0)
      BY <2>1 DEF Stores
    <3> HIDE DEF d
    <3> QED
      BY <3>1, <3>2
  <2> QED
    BY <2>1, <2>2 DEF Posted
<1>2. Increase(s, a, m, n) = [s EXCEPT !.book[a][m] = @ + n]
  BY DEF Increase
<1>3. Reduce(s, a, m, n) = [s EXCEPT !.book[a][m] = @ + (-n)]
  <2>1. s.book[a][m] - n = s.book[a][m] + (-n)
    BY DEF Stores
  <2> QED
    BY <2>1 DEF Reduce
<1> QED
  BY <1>1, <1>2, <1>3

(***************************************************************************)
(* Citations.  What a lien or a reference is with one more or one less.    *)
(***************************************************************************)
Adjust(x, a, d) == [x EXCEPT !.count[a] = @ + d]

\* A lien with one citation more or less.
LEMMA LienAdjusted ==
    ASSUME NEW x \in Liens, NEW a \in Accts, NEW d \in Int, x.count[a] + d \in Nat
    PROVE  /\ Adjust(x, a, d) \in Liens
           /\ Adjust(x, a, d).ref = x.ref /\ Adjust(x, a, d).length = x.length
           /\ \A b \in Accts : Adjust(x, a, d).count[b]
                                 = x.count[b] + (IF b = a THEN d ELSE 0)
<1> DEFINE y == Adjust(x, a, d)
<1>1. /\ y.is = x.is /\ y.ref = x.ref /\ y.length = x.length
      /\ y.count = [x.count EXCEPT ![a] = x.count[a] + d]
      /\ y = [is |-> y.is, ref |-> y.ref, length |-> y.length, count |-> y.count]
  BY DEF Adjust, Liens
<1>2. x.is = "lien" /\ x.ref \in Objects /\ x.length \in Nat /\ x.count \in Counts
  BY DEF Liens
<1> HIDE DEF y
<1>3. y.count \in Counts /\ \A b \in Accts : y.count[b] = x.count[b] + (IF b = a THEN d ELSE 0)
  BY <1>1, <1>2 DEF Counts
<1>4. y \in Liens
  BY <1>1, <1>2, <1>3 DEF Liens
<1> QED
  BY <1>1, <1>3, <1>4 DEF y

\* A reference with one citation more or less.
LEMMA RefAdjusted ==
    ASSUME NEW x \in Refs, NEW a \in Accts, NEW d \in Int, x.count[a] + d \in Nat
    PROVE  /\ Adjust(x, a, d) \in Refs
           /\ Adjust(x, a, d).okayToDestroy = x.okayToDestroy
           /\ \A b \in Accts : Adjust(x, a, d).count[b]
                                 = x.count[b] + (IF b = a THEN d ELSE 0)
<1> DEFINE y == Adjust(x, a, d)
<1>1. /\ y.is = x.is /\ y.okayToDestroy = x.okayToDestroy
      /\ y.count = [x.count EXCEPT ![a] = x.count[a] + d]
      /\ y = [is |-> y.is, count |-> y.count, okayToDestroy |-> y.okayToDestroy]
  BY DEF Adjust, Refs
<1>2. x.is = "ref" /\ x.okayToDestroy \in BOOLEAN /\ x.count \in Counts
  BY DEF Refs
<1> HIDE DEF y
<1>3. y.count \in Counts /\ \A b \in Accts : y.count[b] = x.count[b] + (IF b = a THEN d ELSE 0)
  BY <1>1, <1>2 DEF Counts
<1>4. y \in Refs
  BY <1>1, <1>2, <1>3 DEF Refs
<1> QED
  BY <1>1, <1>3, <1>4 DEF y

\* A lien costs what it has under it and its own size.
LienBytes(x, m) ==
    (IF Medium[x.ref] = m THEN x.length ELSE 0) + (IF m = "heap" THEN LienSize ELSE 0)

\* Only the first citation in an account costs, and only the last one ends it.
LEMMA CostAdjusted ==
    /\ \A x \in Liens, a, b \in Accts, m \in Media, d \in {1, -1} :
          x.count[a] + d \in Nat =>
            LienCost(Adjust(x, a, d), b, m) = LienCost(x, b, m)
              + (IF b = a /\ x.count[a] = 0 THEN LienBytes(x, m)
                 ELSE IF b = a /\ x.count[a] + d = 0 THEN -LienBytes(x, m) ELSE 0)
    /\ \A o \in Objects, x \in Refs, a, b \in Accts, m \in Media, d \in {1, -1} :
          x.count[a] + d \in Nat =>
            RefCost(o, Adjust(x, a, d), b, m) = RefCost(o, x, b, m)
              + (IF m # "heap" THEN 0
                 ELSE IF b = a /\ x.count[a] = 0 THEN RefSize[Medium[o]]
                 ELSE IF b = a /\ x.count[a] + d = 0 THEN -RefSize[Medium[o]] ELSE 0)
<1>1. ASSUME NEW x \in Liens, NEW a \in Accts, NEW b \in Accts, NEW m \in Media,
             NEW d \in {1, -1}, x.count[a] + d \in Nat
      PROVE  LienCost(Adjust(x, a, d), b, m) = LienCost(x, b, m)
              + (IF b = a /\ x.count[a] = 0 THEN LienBytes(x, m)
                 ELSE IF b = a /\ x.count[a] + d = 0 THEN -LienBytes(x, m) ELSE 0)
  <2> DEFINE y == Adjust(x, a, d)
             n == LienBytes(x, m)
             c == x.count[b]
  <2>1. y \in Liens /\ LienBytes(y, m) = n /\ y.count[b] = c + (IF b = a THEN d ELSE 0)
    BY <1>1, LienAdjusted DEF LienBytes
  <2>2. y # NoLien /\ x # NoLien /\ c \in Nat /\ n \in Nat
    <3>1. x.count \in Counts /\ x.length \in Nat
      BY DEF Liens
    <3> QED
      BY <2>1, <3>1, EntriesReal, Sizes DEF Counts, LienBytes
  <2>3. /\ LienCost(y, b, m) = IF y.count[b] > 0 THEN n ELSE 0
        /\ LienCost(x, b, m) = IF c > 0 THEN n ELSE 0
    BY <2>1, <2>2 DEF LienCost, LienBytes
  <2> HIDE DEF y, n
  <2>4. b # a => y.count[b] = c
    BY <2>1, <2>2
  <2>5. b = a => y.count[b] = c + d /\ c = x.count[a]
    BY <2>1
  <2> HIDE DEF c
  <2>6. CASE b # a
    BY <2>2, <2>3, <2>4, <2>6 DEF y, n
  <2>7. CASE b = a
    <3>1. CASE c = 0
      BY <1>1, <2>2, <2>3, <2>5, <2>7, <3>1 DEF y, n
    <3>2. CASE c > 0 /\ c + d = 0
      BY <1>1, <2>2, <2>3, <2>5, <2>7, <3>2 DEF y, n
    <3>3. CASE c > 0 /\ c + d # 0
      <4>1. c + d > 0
        BY <1>1, <2>2, <2>5, <2>7, <3>3
      <4> QED
        BY <1>1, <2>2, <2>3, <2>5, <2>7, <3>3, <4>1 DEF y, n
    <3> QED
      BY <2>2, <3>1, <3>2, <3>3
  <2> QED
    BY <2>6, <2>7
<1>2. ASSUME NEW o \in Objects, NEW x \in Refs, NEW a \in Accts, NEW b \in Accts,
             NEW m \in Media, NEW d \in {1, -1}, x.count[a] + d \in Nat
      PROVE  RefCost(o, Adjust(x, a, d), b, m) = RefCost(o, x, b, m)
              + (IF m # "heap" THEN 0
                 ELSE IF b = a /\ x.count[a] = 0 THEN RefSize[Medium[o]]
                 ELSE IF b = a /\ x.count[a] + d = 0 THEN -RefSize[Medium[o]] ELSE 0)
  <2> DEFINE y == Adjust(x, a, d)
             n == RefSize[Medium[o]]
             c == x.count[b]
  <2>1. y \in Refs /\ y.count[b] = c + (IF b = a THEN d ELSE 0)
    BY <1>2, RefAdjusted
  <2>2. y # NoRef /\ x # NoRef /\ c \in Nat /\ n \in Nat
    <3>1. x.count \in Counts
      BY DEF Refs
    <3> QED
      BY <2>1, <3>1, EntriesReal, Sizes DEF Counts
  <2>3. /\ RefCost(o, y, b, m) = IF m = "heap" /\ y.count[b] > 0 THEN n ELSE 0
        /\ RefCost(o, x, b, m) = IF m = "heap" /\ c > 0 THEN n ELSE 0
    BY <2>1, <2>2 DEF RefCost
  <2> HIDE DEF y, n
  <2>4. b # a => y.count[b] = c
    BY <2>1, <2>2
  <2>5. b = a => y.count[b] = c + d /\ c = x.count[a]
    BY <2>1
  <2> HIDE DEF c
  <2>6. CASE b # a
    BY <2>2, <2>3, <2>4, <2>6 DEF y, n
  <2>7. CASE b = a
    <3>1. CASE c = 0
      BY <1>2, <2>2, <2>3, <2>5, <2>7, <3>1 DEF y, n
    <3>2. CASE c > 0 /\ c + d = 0
      BY <1>2, <2>2, <2>3, <2>5, <2>7, <3>2 DEF y, n
    <3>3. CASE c > 0 /\ c + d # 0
      <4>1. c + d > 0
        BY <1>2, <2>2, <2>5, <2>7, <3>3
      <4> QED
        BY <1>2, <2>2, <2>3, <2>5, <2>7, <3>3, <4>1 DEF y, n
    <3> QED
      BY <2>2, <3>1, <3>2, <3>3
  <2> QED
    BY <2>6, <2>7
<1> QED
  BY <1>1, <1>2

(***************************************************************************)
(* What citing a reference, citing a lien and taking citations back do.    *)
(* None of it looks at a ZCO.                                              *)
(***************************************************************************)
SameExcess(t, s) == \A a \in Accts, m \in Media : Excess(t, a, m) = Excess(s, a, m)

\* Stores in which one reference, or one lien, has become another.
WithRef(s, o, x)  == [s EXCEPT !.refs[o] = x]
WithLien(s, l, x) == [s EXCEPT !.liens[l] = x]

\* Another reference at its address.
LEMMA RefReplaced ==
    ASSUME NEW s \in Stores, NEW o \in Objects, NEW x \in Refs \cup {NoRef},
           NEW t, t = WithRef(s, o, x)
    PROVE  /\ t \in Stores /\ t.zcos = s.zcos /\ t.liens = s.liens /\ t.objects = s.objects
           /\ t.refs = [s.refs EXCEPT ![o] = x]
           /\ \A a \in Accts, m \in Media :
                 Excess(t, a, m) = Excess(s, a, m) + RefCost(o, s.refs[o], a, m) - RefCost(o, x, a, m)
<1>1. /\ t.zcos = s.zcos /\ t.liens = s.liens /\ t.objects = s.objects /\ t.book = s.book
      /\ t.refs = [s.refs EXCEPT ![o] = x]
      /\ t = [zcos |-> t.zcos, liens |-> t.liens, refs |-> t.refs,
              objects |-> t.objects, book |-> t.book]
  BY DEF Stores, WithRef
<1>2. t.refs \in [Objects -> Refs \cup {NoRef}]
  <2>1. s.refs \in [Objects -> Refs \cup {NoRef}]
    BY DEF Stores
  <2> QED
    BY <1>1, <2>1
<1>3. t \in Stores
  BY <1>1, <1>2 DEF Stores
<1>4. ASSUME NEW a \in Accts, NEW m \in Media
      PROVE  Excess(t, a, m) = Excess(s, a, m) + RefCost(o, s.refs[o], a, m) - RefCost(o, x, a, m)
  <2>1. \A k \in Objects : t.refs[k] = IF k = o THEN x ELSE s.refs[k]
    BY <1>1 DEF Stores
  <2>2. t.liens = s.liens /\ t.book = s.book
    BY <1>1
  <2> QED
    BY <1>3, <2>1, <2>2, RefChange
<1> QED
  BY <1>1, <1>3, <1>4

\* Another lien at its address.
LEMMA LienReplaced ==
    ASSUME NEW s \in Stores, NEW l \in LienIds, NEW x \in Liens \cup {NoLien},
           NEW t, t = WithLien(s, l, x)
    PROVE  /\ t \in Stores /\ t.zcos = s.zcos /\ t.refs = s.refs /\ t.objects = s.objects
           /\ t.liens = [s.liens EXCEPT ![l] = x]
           /\ \A a \in Accts, m \in Media :
                 Excess(t, a, m) = Excess(s, a, m) + LienCost(s.liens[l], a, m) - LienCost(x, a, m)
<1>1. /\ t.zcos = s.zcos /\ t.refs = s.refs /\ t.objects = s.objects /\ t.book = s.book
      /\ t.liens = [s.liens EXCEPT ![l] = x]
      /\ t = [zcos |-> t.zcos, liens |-> t.liens, refs |-> t.refs,
              objects |-> t.objects, book |-> t.book]
  BY DEF Stores, WithLien
<1>2. t.liens \in [LienIds -> Liens \cup {NoLien}]
  <2>1. s.liens \in [LienIds -> Liens \cup {NoLien}]
    BY DEF Stores
  <2> QED
    BY <1>1, <2>1
<1>3. t \in Stores
  BY <1>1, <1>2 DEF Stores
<1>4. ASSUME NEW a \in Accts, NEW m \in Media
      PROVE  Excess(t, a, m) = Excess(s, a, m) + LienCost(s.liens[l], a, m) - LienCost(x, a, m)
  <2>1. \A k \in LienIds : t.liens[k] = IF k = l THEN x ELSE s.liens[k]
    BY <1>1 DEF Stores
  <2>2. t.refs = s.refs /\ t.book = s.book
    BY <1>1
  <2> QED
    BY <1>3, <2>1, <2>2, LienChange
<1> QED
  BY <1>1, <1>3, <1>4

\* Stores in which one count of a reference, or of a lien, has changed.
CountRef(s, o, a, d)  == [s EXCEPT !.refs[o].count[a] = @ + d]
CountLien(s, l, a, d) == [s EXCEPT !.liens[l].count[a] = @ + d]

RefMoved(t, s, o, a, d) ==
    /\ t \in Stores /\ t.zcos = s.zcos /\ t.liens = s.liens /\ t.objects = s.objects
    /\ s.refs[o] \in Refs /\ t.refs = [s.refs EXCEPT ![o] = Adjust(s.refs[o], a, d)]
    /\ t.refs[o].count[a] = s.refs[o].count[a] + d /\ t.refs[o] \in Refs
    /\ \A b \in Accts, m \in Media :
          Excess(t, b, m) = Excess(s, b, m)
            - (IF m # "heap" THEN 0
               ELSE IF b = a /\ s.refs[o].count[a] = 0 THEN RefSize[Medium[o]]
               ELSE IF b = a /\ s.refs[o].count[a] + d = 0 THEN -RefSize[Medium[o]] ELSE 0)

LienMoved(t, s, l, a, d) ==
    /\ t \in Stores /\ t.zcos = s.zcos /\ t.refs = s.refs /\ t.objects = s.objects
    /\ s.liens[l] \in Liens /\ t.liens = [s.liens EXCEPT ![l] = Adjust(s.liens[l], a, d)]
    /\ t.liens[l].count[a] = s.liens[l].count[a] + d /\ t.liens[l] \in Liens
    /\ \A b \in Accts, m \in Media :
          Excess(t, b, m) = Excess(s, b, m)
            - (IF b = a /\ s.liens[l].count[a] = 0 THEN LienBytes(s.liens[l], m)
               ELSE IF b = a /\ s.liens[l].count[a] + d = 0 THEN -LienBytes(s.liens[l], m)
               ELSE 0)

\* One step of the counter of a reference.
LEMMA RefCounted ==
    ASSUME NEW s \in Stores, NEW o \in Objects, s.refs[o] # NoRef, NEW a \in Accts,
           NEW d \in {1, -1}, s.refs[o].count[a] + d \in Nat
    PROVE  RefMoved(CountRef(s, o, a, d), s, o, a, d)
<1> DEFINE t == CountRef(s, o, a, d)
           x == s.refs[o]
           y == Adjust(x, a, d)
<1>1. x \in Refs /\ d \in Int /\ DOMAIN s.refs = Objects
  BY DEF Stores
<1>2. y \in Refs /\ y.count[a] = x.count[a] + d
  BY <1>1, RefAdjusted
<1>3. t = WithRef(s, o, y)
  BY DEF Adjust, CountRef, WithRef
<1> HIDE DEF t
<1>4. /\ t \in Stores /\ t.zcos = s.zcos /\ t.liens = s.liens /\ t.objects = s.objects
      /\ t.refs = [s.refs EXCEPT ![o] = y]
      /\ \A b \in Accts, m \in Media :
            Excess(t, b, m) = Excess(s, b, m) + RefCost(o, x, b, m) - RefCost(o, y, b, m)
  <2> HIDE DEF y
  <2>1. y \in Refs \cup {NoRef}
    BY <1>2
  <2> QED
    BY <1>3, <2>1, RefReplaced
<1>5. ASSUME NEW b \in Accts, NEW m \in Media
      PROVE  Excess(t, b, m) = Excess(s, b, m)
                   - (IF m # "heap" THEN 0
                      ELSE IF b = a /\ x.count[a] = 0 THEN RefSize[Medium[o]]
                      ELSE IF b = a /\ x.count[a] + d = 0 THEN -RefSize[Medium[o]] ELSE 0)
  <2> DEFINE n == IF m # "heap" THEN 0
                      ELSE IF b = a /\ x.count[a] = 0 THEN RefSize[Medium[o]]
                      ELSE IF b = a /\ x.count[a] + d = 0 THEN -RefSize[Medium[o]] ELSE 0
  <2>1. RefCost(o, y, b, m) = RefCost(o, x, b, m) + n
    BY <1>1, CostAdjusted
  <2>2. n \in Int /\ RefCost(o, x, b, m) \in Int
    BY Sizes DEF RefCost
  <2>3. Excess(s, b, m) \in Int
    BY CostTypes
  <2> HIDE DEF n, y
  <2>4. Excess(t, b, m) = Excess(s, b, m) - n
    BY <1>4, <2>1, <2>2, <2>3
  <2> QED
    BY <2>4 DEF n
<1> QED
  BY <1>1, <1>2, <1>4, <1>5 DEF RefMoved, t

\* One step of the counter of a lien.
LEMMA LienCounted ==
    ASSUME NEW s \in Stores, NEW l \in LienIds, s.liens[l] # NoLien, NEW a \in Accts,
           NEW d \in {1, -1}, s.liens[l].count[a] + d \in Nat
    PROVE  LienMoved(CountLien(s, l, a, d), s, l, a, d)
<1> DEFINE t == CountLien(s, l, a, d)
           x == s.liens[l]
           y == Adjust(x, a, d)
<1>1. x \in Liens /\ d \in Int /\ DOMAIN s.liens = LienIds
  BY DEF Stores
<1>2. y \in Liens /\ y.count[a] = x.count[a] + d
  BY <1>1, LienAdjusted
<1>3. t = WithLien(s, l, y)
  BY DEF Adjust, CountLien, WithLien
<1> HIDE DEF t
<1>4. /\ t \in Stores /\ t.zcos = s.zcos /\ t.refs = s.refs /\ t.objects = s.objects
      /\ t.liens = [s.liens EXCEPT ![l] = y]
      /\ \A b \in Accts, m \in Media :
            Excess(t, b, m) = Excess(s, b, m) + LienCost(x, b, m) - LienCost(y, b, m)
  <2> HIDE DEF y
  <2>1. y \in Liens \cup {NoLien}
    BY <1>2
  <2> QED
    BY <1>3, <2>1, LienReplaced
<1>5. ASSUME NEW b \in Accts, NEW m \in Media
      PROVE  Excess(t, b, m) = Excess(s, b, m)
                   - (IF b = a /\ x.count[a] = 0 THEN LienBytes(x, m)
                      ELSE IF b = a /\ x.count[a] + d = 0 THEN -LienBytes(x, m) ELSE 0)
  <2> DEFINE n == IF b = a /\ x.count[a] = 0 THEN LienBytes(x, m)
                  ELSE IF b = a /\ x.count[a] + d = 0 THEN -LienBytes(x, m) ELSE 0
  <2>1. LienCost(y, b, m) = LienCost(x, b, m) + n
    BY <1>1, CostAdjusted
  <2>2. n \in Int
    <3>1. LienBytes(x, m) \in Nat
      BY <1>1, Sizes DEF LienBytes, Liens
    <3> QED
      BY <3>1
  <2>3. Excess(s, b, m) \in Int /\ LienCost(x, b, m) \in Int
    BY <1>1, CostTypes, LienCostType
  <2> HIDE DEF n, y
  <2>4. Excess(t, b, m) = Excess(s, b, m) - n
    BY <1>4, <2>1, <2>2, <2>3
  <2> QED
    BY <2>4 DEF n
<1> QED
  BY <1>1, <1>2, <1>4, <1>5 DEF LienMoved, t

\* Citing a reference changes its count, and posts what the count costs.
RefCited(t, s, o, a) ==
    /\ t \in Stores /\ t.zcos = s.zcos /\ t.liens = s.liens /\ t.objects = s.objects
    /\ s.refs[o] \in Refs /\ t.refs = [s.refs EXCEPT ![o] = Adjust(s.refs[o], a, 1)]
    /\ SameExcess(t, s)

\* CiteRef posts what the citation costs, no more and no less.
LEMMA CiteRefDone ==
    ASSUME NEW s \in Stores, NEW o \in Objects, s.refs[o] # NoRef, NEW a \in Accts
    PROVE  RefCited(CiteRef(s, o, a), s, o, a)
<1> DEFINE t == CiteRef(s, o, a)
           u == CountRef(s, o, a, 1)
           n == RefSize[Medium[o]]
           c == s.refs[o].count[a]
<1>0. c \in Nat
  BY DEF Stores, Refs, Counts
<1>1. RefMoved(u, s, o, a, 1)
  BY <1>0, RefCounted
<1>2. t = IF u.refs[o].count[a] = 1 THEN Increase(u, a, "heap", n) ELSE u
  BY DEF CiteRef, CountRef
<1> HIDE DEF u, t, c
<1>3. n \in Nat /\ "heap" \in Media
  BY Sizes DEF Media
<1> HIDE DEF n
<1>4. /\ u \in Stores /\ u.zcos = s.zcos /\ u.liens = s.liens /\ u.objects = s.objects
      /\ s.refs[o] \in Refs /\ u.refs = [s.refs EXCEPT ![o] = Adjust(s.refs[o], a, 1)]
      /\ u.refs[o].count[a] = c + 1
  BY <1>1 DEF RefMoved, c
<1>5. ASSUME NEW b \in Accts, NEW m \in Media
      PROVE  Excess(u, b, m) = Excess(s, b, m) - (IF m = "heap" /\ b = a /\ c = 0 THEN n ELSE 0)
  BY <1>0, <1>1 DEF RefMoved, c, n
<1>6. CASE c = 0
  <2>1. Posted(t, u, a, "heap", n)
    BY <1>2, <1>3, <1>4, <1>6, BookPosted
  <2>2. ASSUME NEW b \in Accts, NEW m \in Media PROVE Excess(t, b, m) = Excess(s, b, m)
    <3>1. Excess(t, b, m) = Excess(u, b, m) + (IF b = a /\ m = "heap" THEN n ELSE 0)
      BY <2>1 DEF Posted
    <3>2. Excess(s, b, m) \in Int
      BY CostTypes
    <3> QED
      BY <1>3, <1>5, <1>6, <3>1, <3>2
  <2> QED
    BY <1>4, <2>1, <2>2 DEF Posted, SameExcess, RefCited, t
<1>7. CASE c # 0
  <2>1. t = u
    BY <1>0, <1>2, <1>4, <1>7
  <2>2. ASSUME NEW b \in Accts, NEW m \in Media PROVE Excess(t, b, m) = Excess(s, b, m)
    <3>1. Excess(s, b, m) \in Int
      BY CostTypes
    <3> QED
      BY <1>5, <1>7, <2>1, <3>1
  <2> QED
    BY <1>4, <2>1, <2>2 DEF SameExcess, RefCited, t
<1> QED
  BY <1>6, <1>7

\* Citing a lien changes its count, cites its reference if the count was
\* zero, and posts what the counts cost.
LienCited(t, s, l, a) ==
    /\ t \in Stores /\ t.zcos = s.zcos /\ t.objects = s.objects
    /\ s.liens[l] \in Liens /\ t.liens = [s.liens EXCEPT ![l] = Adjust(s.liens[l], a, 1)]
    /\ s.refs[s.liens[l].ref] \in Refs
    /\ t.refs = IF s.liens[l].count[a] = 0
                THEN [s.refs EXCEPT ![s.liens[l].ref] = Adjust(s.refs[s.liens[l].ref], a, 1)]
                ELSE s.refs
    /\ SameExcess(t, s)

\* So does CiteLien, for the lien and for its reference.
LEMMA CiteLienDone ==
    ASSUME NEW s \in Stores, NEW l \in LienIds, s.liens[l] # NoLien,
           s.refs[s.liens[l].ref] # NoRef, NEW a \in Accts
    PROVE  LienCited(CiteLien(s, l, a), s, l, a)
<1> DEFINE t == CiteLien(s, l, a)
           x == s.liens[l]
           o == x.ref
           n == x.length
           c == x.count[a]
           u == CountLien(s, l, a, 1)
           p == Increase(u, a, Medium[o], n)
           q == Increase(p, a, "heap", LienSize)
<1>0. x \in Liens /\ c \in Nat /\ o \in Objects /\ n \in Nat /\ s.refs[o] \in Refs
  BY DEF Stores, Liens, Counts
<1>1. LienMoved(u, s, l, a, 1)
  BY <1>0, LienCounted
<1>2. t = IF u.liens[l].count[a] = 1 THEN CiteRef(q, o, a) ELSE u
  BY DEF CiteLien, CountLien
<1>3. "heap" \in Media /\ Medium[o] \in Media /\ LienSize \in Nat
  BY <1>0, Sizes DEF Media
<1> HIDE DEF u, t, c
<1>4. /\ u \in Stores /\ u.zcos = s.zcos /\ u.refs = s.refs /\ u.objects = s.objects
      /\ u.liens = [s.liens EXCEPT ![l] = Adjust(x, a, 1)]
      /\ u.liens[l].count[a] = c + 1
  BY <1>1 DEF LienMoved, c
<1>5. ASSUME NEW b \in Accts, NEW m \in Media
      PROVE  Excess(u, b, m) = Excess(s, b, m)
               - (IF b = a /\ c = 0
                  THEN (IF Medium[o] = m THEN n ELSE 0) + (IF m = "heap" THEN LienSize ELSE 0)
                  ELSE 0)
  <2>1. LienBytes(x, m) = (IF Medium[o] = m THEN n ELSE 0) + (IF m = "heap" THEN LienSize ELSE 0)
    BY DEF LienBytes
  <2>2. Excess(u, b, m) = Excess(s, b, m)
            - (IF b = a /\ c = 0 THEN LienBytes(x, m)
               ELSE IF b = a /\ c + 1 = 0 THEN -LienBytes(x, m) ELSE 0)
    BY <1>1 DEF LienMoved, c
  <2> HIDE DEF x, o, n
  <2> QED
    BY <1>0, <2>1, <2>2
<1>6. CASE c = 0
  <2> HIDE DEF x, o, n
  <2>1. Posted(p, u, a, Medium[o], n)
    BY <1>0, <1>3, <1>4, BookPosted
  <2>2. p \in Stores
    BY <2>1 DEF Posted
  <2> HIDE DEF p
  <2>3. Posted(q, p, a, "heap", LienSize)
    BY <1>3, <2>2, BookPosted
  <2> HIDE DEF q
  <2>4. /\ q \in Stores /\ q.zcos = s.zcos /\ q.refs = s.refs /\ q.objects = s.objects
        /\ q.liens = u.liens
    BY <1>4, <2>1, <2>3 DEF Posted
  <2>5. t = CiteRef(q, o, a)
    BY <1>2, <1>4, <1>6
  <2>6. RefCited(t, q, o, a)
    <3>1. q.refs[o] # NoRef
      BY <2>4 DEF o, x
    <3> QED
      BY <1>0, <2>4, <2>5, <3>1, CiteRefDone
  <2>7. ASSUME NEW b \in Accts, NEW m \in Media PROVE Excess(t, b, m) = Excess(s, b, m)
    <3>1. Excess(t, b, m) = Excess(q, b, m)
      BY <2>6 DEF SameExcess, RefCited
    <3>2. /\ Excess(p, b, m) = Excess(u, b, m) + (IF b = a /\ m = Medium[o] THEN n ELSE 0)
          /\ Excess(q, b, m) = Excess(p, b, m) + (IF b = a /\ m = "heap" THEN LienSize ELSE 0)
      BY <2>1, <2>3 DEF Posted
    <3>3. Excess(s, b, m) \in Int
      BY CostTypes
    <3> QED
      BY <1>0, <1>3, <1>5, <1>6, <3>1, <3>2, <3>3
  <2>8. /\ t \in Stores /\ t.zcos = s.zcos /\ t.objects = s.objects /\ t.liens = u.liens
        /\ t.refs = [s.refs EXCEPT ![o] = Adjust(s.refs[o], a, 1)]
    BY <2>4, <2>6 DEF RefCited
  <2> QED
    BY <1>0, <1>4, <1>6, <2>7, <2>8 DEF SameExcess, LienCited, t, x, o, c
<1>7. CASE c # 0
  <2>1. t = u
    BY <1>0, <1>2, <1>4, <1>7
  <2>2. ASSUME NEW b \in Accts, NEW m \in Media PROVE Excess(t, b, m) = Excess(s, b, m)
    <3>1. Excess(s, b, m) \in Int
      BY CostTypes
    <3> HIDE DEF x, o, n
    <3> QED
      BY <1>5, <1>7, <2>1, <3>1
  <2> QED
    BY <1>0, <1>4, <1>7, <2>1, <2>2 DEF SameExcess, LienCited, t, x, o, c
<1> QED
  BY <1>6, <1>7

\* Stores in which objects have come or gone, or a ZCO has become another.
WithObjects(s, U) == [s EXCEPT !.objects = U]
WithZco(s, z, x)  == [s EXCEPT !.zcos[z] = x]

\* Other objects.
LEMMA ObjectsReplaced ==
    ASSUME NEW s \in Stores, NEW U \in SUBSET Objects
    PROVE  LET t == WithObjects(s, U)
           IN  /\ t \in Stores /\ t.zcos = s.zcos /\ t.liens = s.liens /\ t.refs = s.refs
               /\ t.objects = U /\ SameExcess(t, s)
<1> DEFINE t == WithObjects(s, U)
<1>1. /\ t.zcos = s.zcos /\ t.liens = s.liens /\ t.refs = s.refs /\ t.book = s.book
      /\ t.objects = U
      /\ t = [zcos |-> t.zcos, liens |-> t.liens, refs |-> t.refs,
              objects |-> t.objects, book |-> t.book]
  BY DEF Stores, WithObjects
<1> HIDE DEF t
<1>2. t \in Stores
  BY <1>1 DEF Stores
<1>3. SameExcess(t, s)
  BY <1>1 DEF SameExcess, Excess, LienCosts, RefCosts
<1> QED
  BY <1>1, <1>2, <1>3 DEF t

\* Another ZCO at its address.
LEMMA ZcoReplaced ==
    ASSUME NEW s \in Stores, NEW z \in ZcoIds, NEW x \in Zcos \cup {NoZco}
    PROVE  LET t == WithZco(s, z, x)
           IN  /\ t \in Stores /\ t.zcos = [s.zcos EXCEPT ![z] = x] /\ t.liens = s.liens
               /\ t.refs = s.refs /\ t.objects = s.objects /\ SameExcess(t, s)
<1> DEFINE t == WithZco(s, z, x)
<1>1. /\ t.zcos = [s.zcos EXCEPT ![z] = x] /\ t.liens = s.liens /\ t.refs = s.refs
      /\ t.book = s.book /\ t.objects = s.objects
      /\ t = [zcos |-> t.zcos, liens |-> t.liens, refs |-> t.refs,
              objects |-> t.objects, book |-> t.book]
  BY DEF Stores, WithZco
<1>2. t.zcos \in [ZcoIds -> Zcos \cup {NoZco}]
  <2>1. s.zcos \in [ZcoIds -> Zcos \cup {NoZco}]
    BY DEF Stores
  <2> QED
    BY <1>1, <2>1
<1> HIDE DEF t
<1>3. t \in Stores
  BY <1>1, <1>2 DEF Stores
<1>4. SameExcess(t, s)
  BY <1>1 DEF SameExcess, Excess, LienCosts, RefCosts
<1> QED
  BY <1>1, <1>3, <1>4 DEF t

\* Destroying a reference that nothing cites takes nothing from the book.
RefDropped(t, s, o) ==
    /\ t \in Stores /\ t.zcos = s.zcos /\ t.liens = s.liens
    /\ t.refs = [s.refs EXCEPT ![o] = NoRef] /\ t.objects = s.objects \ {o}
    /\ SameExcess(t, s)

\* A reference that nothing cites costs nothing, and goes for nothing.
LEMMA DropRefDone ==
    ASSUME NEW s \in Stores, NEW o \in Objects, s.refs[o] # NoRef,
           s.refs[o].count = NoCitation
    PROVE  RefDropped(DropRef(s, o), s, o)
<1> DEFINE u == WithRef(s, o, NoRef)
           t == DropRef(s, o)
<1>1. /\ u \in Stores /\ u.zcos = s.zcos /\ u.liens = s.liens /\ u.objects = s.objects
      /\ u.refs = [s.refs EXCEPT ![o] = NoRef]
      /\ \A a \in Accts, m \in Media :
            Excess(u, a, m) = Excess(s, a, m) + RefCost(o, s.refs[o], a, m) - RefCost(o, NoRef, a, m)
  BY RefReplaced
<1>2. SameExcess(u, s)
  <2>1. ASSUME NEW a \in Accts, NEW m \in Media
        PROVE  Excess(u, a, m) = Excess(s, a, m)
    <3>1. RefCost(o, NoRef, a, m) = 0 /\ RefCost(o, s.refs[o], a, m) = 0
      BY DEF RefCost, NoCitation
    <3>2. Excess(s, a, m) \in Int
      BY CostTypes
    <3> HIDE DEF u
    <3> QED
      BY <1>1, <3>1, <3>2
  <2> QED
    BY <2>1 DEF SameExcess
<1>3. t = WithObjects(u, s.objects \ {o})
  BY DEF DropRef, WithRef, WithObjects
<1> HIDE DEF u, t
<1>4. s.objects \ {o} \in SUBSET Objects
  BY DEF Stores
<1>5. /\ t \in Stores /\ t.zcos = u.zcos /\ t.liens = u.liens /\ t.refs = u.refs
      /\ t.objects = s.objects \ {o} /\ SameExcess(t, u)
  BY <1>1, <1>3, <1>4, ObjectsReplaced
<1>6. SameExcess(t, s)
  BY <1>2, <1>5 DEF SameExcess
<1> QED
  BY <1>1, <1>5, <1>6 DEF RefDropped, t

\* A reference that one lien less cites.
RefLess(t, s, o, a) ==
    /\ s.refs[o] \in Refs /\ Adjust(s.refs[o], a, -1) \in Refs
    /\ IF Adjust(s.refs[o], a, -1).count = NoCitation /\ s.refs[o].okayToDestroy
       THEN t.refs = [s.refs EXCEPT ![o] = NoRef] /\ t.objects = s.objects \ {o}
       ELSE /\ t.refs = [s.refs EXCEPT ![o] = Adjust(s.refs[o], a, -1)]
            /\ t.objects = s.objects

RefUncited(t, s, o, a) ==
    /\ t \in Stores /\ t.zcos = s.zcos /\ t.liens = s.liens /\ SameExcess(t, s)
    /\ RefLess(t, s, o, a)

\* UnciteRef takes off what the citation costs.
LEMMA UnciteRefDone ==
    ASSUME NEW s \in Stores, NEW o \in Objects, s.refs[o] # NoRef, NEW a \in Accts,
           s.refs[o].count[a] > 0
    PROVE  RefUncited(UnciteRef(s, o, a), s, o, a)
<1> DEFINE t == UnciteRef(s, o, a)
           x == s.refs[o]
           y == Adjust(x, a, -1)
           u == CountRef(s, o, a, -1)
           n == RefSize[Medium[o]]
           p == IF u.refs[o].count[a] = 0 THEN Reduce(u, a, "heap", n) ELSE u
           c == x.count[a]
<1>0. c \in Nat /\ c > 0 /\ x \in Refs
  BY DEF Stores, Refs, Counts
<1>1. RefMoved(u, s, o, a, -1)
  BY <1>0, RefCounted
<1>2. t = IF UncitedRef(p, o, a) THEN DropRef(p, o) ELSE p
  <2>1. u = [s EXCEPT !.refs[o].count[a] = @ - 1]
    <3>1. c + (-1) = c - 1
      BY <1>0
    <3> QED
      BY <3>1 DEF CountRef
  <2> QED
    BY <2>1 DEF UnciteRef
<1>3. n \in Nat /\ "heap" \in Media
  BY Sizes DEF Media
<1> HIDE DEF u, t, c, n
<1>4. /\ u \in Stores /\ u.zcos = s.zcos /\ u.liens = s.liens /\ u.objects = s.objects
      /\ u.refs = [s.refs EXCEPT ![o] = y]
      /\ u.refs[o].count[a] = c - 1
      /\ u.refs[o] = y /\ y \in Refs /\ y.okayToDestroy = x.okayToDestroy
  <2>1. c + (-1) = c - 1
    BY <1>0
  <2>2. c + (-1) \in Nat
    BY <1>0
  <2>3. y \in Refs /\ y.okayToDestroy = x.okayToDestroy
    BY <1>0, <2>2, RefAdjusted DEF c
  <2>4. DOMAIN s.refs = Objects
    BY DEF Stores
  <2> QED
    BY <1>1, <2>1, <2>3, <2>4 DEF RefMoved, c
<1>5. ASSUME NEW b \in Accts, NEW m \in Media
      PROVE  Excess(u, b, m) = Excess(s, b, m) + (IF m = "heap" /\ b = a /\ c = 1 THEN n ELSE 0)
  <2>1. Excess(u, b, m) = Excess(s, b, m)
           - (IF m # "heap" THEN 0
              ELSE IF b = a /\ c = 0 THEN n
              ELSE IF b = a /\ c + (-1) = 0 THEN -n ELSE 0)
    BY <1>1 DEF RefMoved, c, n
  <2>2. Excess(s, b, m) \in Int
    BY CostTypes
  <2> QED
    BY <1>0, <1>3, <2>1, <2>2
<1>6. /\ p \in Stores /\ p.zcos = s.zcos /\ p.liens = s.liens /\ p.objects = s.objects
      /\ p.refs = [s.refs EXCEPT ![o] = y] /\ p.refs[o] = y /\ SameExcess(p, s)
  <2>1. CASE c = 1
    <3>1. p = Reduce(u, a, "heap", n)
      BY <1>4, <2>1
    <3>2. Posted(p, u, a, "heap", -n)
      BY <1>3, <1>4, <3>1, BookPosted
    <3> HIDE DEF p, y
    <3>3. ASSUME NEW b \in Accts, NEW m \in Media PROVE Excess(p, b, m) = Excess(s, b, m)
      <4>1. Excess(p, b, m) = Excess(u, b, m) + (IF b = a /\ m = "heap" THEN -n ELSE 0)
        BY <3>2 DEF Posted
      <4>2. Excess(s, b, m) \in Int
        BY CostTypes
      <4> QED
        BY <1>3, <1>5, <2>1, <4>1, <4>2
    <3> QED
      BY <1>4, <3>2, <3>3 DEF Posted, SameExcess
  <2>2. CASE c # 1
    <3>1. p = u
      BY <1>0, <1>4, <2>2
    <3> HIDE DEF p, y
    <3>2. ASSUME NEW b \in Accts, NEW m \in Media PROVE Excess(p, b, m) = Excess(s, b, m)
      <4>1. Excess(s, b, m) \in Int
        BY CostTypes
      <4> QED
        BY <1>5, <2>2, <3>1, <4>1
    <3> QED
      BY <1>4, <3>1, <3>2 DEF SameExcess
  <2> QED
    BY <2>1, <2>2
<1> HIDE DEF p, y
<1>7. UncitedRef(p, o, a) <=> y.count = NoCitation /\ x.okayToDestroy
  BY <1>4, <1>6 DEF UncitedRef
<1>8. CASE UncitedRef(p, o, a)
  <2>1. p.refs[o] # NoRef /\ p.refs[o].count = NoCitation
    BY <1>4, <1>6, <1>7, <1>8, EntriesReal
  <2>2. t = DropRef(p, o)
    BY <1>2, <1>8
  <2>3. RefDropped(t, p, o)
    BY <1>6, <2>1, <2>2, DropRefDone
  <2>4. SameExcess(t, s)
    BY <1>6, <2>3 DEF RefDropped, SameExcess
  <2>5. t.refs = [s.refs EXCEPT ![o] = NoRef]
    BY <1>6, <2>3 DEF RefDropped
  <2> QED
    BY <1>0, <1>4, <1>6, <1>7, <1>8, <2>3, <2>4, <2>5 DEF RefDropped, RefUncited, RefLess, t, x, y
<1>9. CASE ~UncitedRef(p, o, a)
  <2>1. t = p
    BY <1>2, <1>9
  <2> QED
    BY <1>0, <1>4, <1>6, <1>7, <1>9, <2>1 DEF RefUncited, RefLess, t, x, y
<1> QED
  BY <1>8, <1>9

\* A lien that one extent less cites.
LienUncited(t, s, l, a) ==
    /\ t \in Stores /\ t.zcos = s.zcos /\ SameExcess(t, s)
    /\ s.liens[l] \in Liens /\ Adjust(s.liens[l], a, -1) \in Liens
    /\ t.liens = [s.liens EXCEPT ![l] = IF Adjust(s.liens[l], a, -1).count = NoCitation
                                        THEN NoLien ELSE Adjust(s.liens[l], a, -1)]
    /\ IF s.liens[l].count[a] = 1 THEN RefLess(t, s, s.liens[l].ref, a)
       ELSE t.refs = s.refs /\ t.objects = s.objects

\* So does UnciteLien, for the lien and for its reference.
LEMMA UnciteLienDone ==
    ASSUME NEW s \in Stores, NEW l \in LienIds, s.liens[l] # NoLien, NEW a \in Accts,
           s.liens[l].count[a] > 0,
           s.refs[s.liens[l].ref] # NoRef, s.refs[s.liens[l].ref].count[a] > 0
    PROVE  LienUncited(UnciteLien(s, l, a), s, l, a)
<1> DEFINE t == UnciteLien(s, l, a)
           x == s.liens[l]
           y == Adjust(x, a, -1)
           o == x.ref
           n == x.length
           c == x.count[a]
           u == CountLien(s, l, a, -1)
           p == Reduce(u, a, Medium[o], n)
           q == Reduce(p, a, "heap", LienSize)
           r == IF u.liens[l].count[a] = 0 THEN UnciteRef(q, o, a) ELSE u
<1>0. x \in Liens /\ c \in Nat /\ c > 0 /\ o \in Objects /\ n \in Nat /\ s.refs[o] \in Refs
  BY DEF Stores, Liens, Counts
<1>1. LienMoved(u, s, l, a, -1)
  BY <1>0, LienCounted
<1>2. t = IF r.liens[l].count = NoCitation THEN WithLien(r, l, NoLien) ELSE r
  <2>1. u = [s EXCEPT !.liens[l].count[a] = @ - 1]
    <3>1. c + (-1) = c - 1
      BY <1>0
    <3> QED
      BY <3>1 DEF CountLien
  <2> QED
    BY <2>1 DEF UnciteLien, WithLien
<1>3. "heap" \in Media /\ Medium[o] \in Media /\ LienSize \in Nat
  BY <1>0, Sizes DEF Media
<1> HIDE DEF u, t, c, r, y
<1>4. /\ u \in Stores /\ u.zcos = s.zcos /\ u.refs = s.refs /\ u.objects = s.objects
      /\ u.liens = [s.liens EXCEPT ![l] = y]
      /\ u.liens[l].count[a] = c - 1
      /\ u.liens[l] = y /\ y \in Liens
  <2>1. c + (-1) = c - 1 /\ c + (-1) \in Nat
    BY <1>0
  <2>2. y \in Liens
    BY <1>0, <2>1, LienAdjusted DEF c, y
  <2>3. DOMAIN s.liens = LienIds
    BY DEF Stores
  <2> QED
    BY <1>1, <2>1, <2>2, <2>3 DEF LienMoved, c, y
<1>5. ASSUME NEW b \in Accts, NEW m \in Media
      PROVE  Excess(u, b, m) = Excess(s, b, m)
               + (IF b = a /\ c = 1
                  THEN (IF Medium[o] = m THEN n ELSE 0) + (IF m = "heap" THEN LienSize ELSE 0)
                  ELSE 0)
  <2>1. LienBytes(x, m) = (IF Medium[o] = m THEN n ELSE 0) + (IF m = "heap" THEN LienSize ELSE 0)
    BY DEF LienBytes
  <2>2. Excess(u, b, m) = Excess(s, b, m)
            - (IF b = a /\ c = 0 THEN LienBytes(x, m)
               ELSE IF b = a /\ c + (-1) = 0 THEN -LienBytes(x, m) ELSE 0)
    BY <1>1 DEF LienMoved, c
  <2>3. Excess(s, b, m) \in Int /\ LienBytes(x, m) \in Nat
    BY <1>0, <1>3, <2>1, CostTypes
  <2> HIDE DEF x, o, n
  <2> QED
    BY <1>0, <2>1, <2>2, <2>3
<1>6. /\ r \in Stores /\ r.zcos = s.zcos /\ SameExcess(r, s) /\ r.liens = u.liens
      /\ IF c = 1 THEN RefLess(r, s, o, a) ELSE r.refs = s.refs /\ r.objects = s.objects
  <2> HIDE DEF x, o, n
  <2>1. CASE c = 1
    <3>1. Posted(p, u, a, Medium[o], -n)
      BY <1>0, <1>3, <1>4, BookPosted
    <3>2. p \in Stores
      BY <3>1 DEF Posted
    <3> HIDE DEF p
    <3>3. Posted(q, p, a, "heap", -LienSize)
      BY <1>3, <3>2, BookPosted
    <3> HIDE DEF q
    <3>4. /\ q \in Stores /\ q.zcos = s.zcos /\ q.refs = s.refs /\ q.objects = s.objects
          /\ q.liens = u.liens
      BY <1>4, <3>1, <3>3 DEF Posted
    <3>5. r = UnciteRef(q, o, a)
      BY <1>4, <2>1 DEF r
    <3>6. RefUncited(r, q, o, a)
      <4>1. q.refs[o] # NoRef /\ q.refs[o].count[a] > 0
        BY <3>4 DEF o, x
      <4> QED
        BY <1>0, <3>4, <3>5, <4>1, UnciteRefDone
    <3>7. ASSUME NEW b \in Accts, NEW m \in Media PROVE Excess(r, b, m) = Excess(s, b, m)
      <4>1. Excess(r, b, m) = Excess(q, b, m)
        BY <3>6 DEF SameExcess, RefUncited
      <4>2. /\ Excess(p, b, m) = Excess(u, b, m) + (IF b = a /\ m = Medium[o] THEN -n ELSE 0)
            /\ Excess(q, b, m) = Excess(p, b, m)
                                   + (IF b = a /\ m = "heap" THEN -LienSize ELSE 0)
        BY <3>1, <3>3 DEF Posted
      <4>3. Excess(s, b, m) \in Int
        BY CostTypes
      <4> QED
        BY <1>0, <1>3, <1>5, <2>1, <4>1, <4>2, <4>3
    <3>8. RefLess(r, s, o, a)
      BY <3>4, <3>6 DEF RefUncited, RefLess
    <3> QED
      BY <2>1, <3>4, <3>6, <3>7, <3>8 DEF RefUncited, SameExcess
  <2>2. CASE c # 1
    <3>1. r = u
      BY <1>0, <1>4, <2>2 DEF r
    <3>2. ASSUME NEW b \in Accts, NEW m \in Media PROVE Excess(r, b, m) = Excess(s, b, m)
      <4>1. Excess(s, b, m) \in Int
        BY CostTypes
      <4> QED
        BY <1>5, <2>2, <3>1, <4>1
    <3> QED
      BY <1>4, <2>2, <3>1, <3>2 DEF SameExcess
  <2> QED
    BY <2>1, <2>2
<1>7. r.liens[l] = y /\ r.liens = [s.liens EXCEPT ![l] = y]
  BY <1>4, <1>6
<1>8. CASE y.count = NoCitation
  <2>1. t = WithLien(r, l, NoLien)
    BY <1>2, <1>7, <1>8
  <2>2. /\ t \in Stores /\ t.zcos = r.zcos /\ t.refs = r.refs /\ t.objects = r.objects
        /\ t.liens = [r.liens EXCEPT ![l] = NoLien]
        /\ \A b \in Accts, m \in Media :
              Excess(t, b, m) = Excess(r, b, m) + LienCost(r.liens[l], b, m) - LienCost(NoLien, b, m)
    BY <1>6, <2>1, LienReplaced
  <2>3. ASSUME NEW b \in Accts, NEW m \in Media PROVE Excess(t, b, m) = Excess(s, b, m)
    <3>1. LienCost(NoLien, b, m) = 0 /\ LienCost(r.liens[l], b, m) = 0
      BY <1>7, <1>8 DEF LienCost, NoCitation
    <3>2. Excess(s, b, m) \in Int /\ Excess(r, b, m) = Excess(s, b, m)
      BY <1>6, CostTypes DEF SameExcess
    <3> QED
      BY <2>2, <3>1, <3>2
  <2>4. t.liens = [s.liens EXCEPT ![l] = NoLien]
    BY <1>7, <2>2
  <2>5. IF c = 1 THEN RefLess(t, s, o, a) ELSE t.refs = s.refs /\ t.objects = s.objects
    BY <1>6, <2>2 DEF RefLess
  <2> QED
    BY <1>0, <1>4, <1>6, <1>8, <2>2, <2>3, <2>4, <2>5 DEF SameExcess, LienUncited, t, x, y, o, c
<1>9. CASE y.count # NoCitation
  <2>1. t = r
    BY <1>2, <1>7, <1>9
  <2> QED
    BY <1>0, <1>4, <1>6, <1>7, <1>9, <2>1 DEF LienUncited, t, x, y, o, c
<1> QED
  BY <1>8, <1>9

(***************************************************************************)
(* Counting.  How often a sequence of extents, a ZCO and all of them cite  *)
(* a lien; what the counters of a lien and of a reference say; the liens   *)
(* that cite a reference.                                                  *)
(***************************************************************************)
Occ(q, l) == Cardinality({i \in DOMAIN q : q[i].lien = l})

CitedBy(x, l, a) == IF x # NoZco /\ x.acct = a THEN Occ(x.extents, l) ELSE 0
CitedIn(v, l, a) == SumOf([z \in ZcoIds |-> CitedBy(v[z], l, a)], ZcoIds)

LienCount(s, l, a) == IF s.liens[l] = NoLien THEN 0 ELSE s.liens[l].count[a]
RefCount(s, o, a)  == IF s.refs[o] = NoRef THEN 0 ELSE s.refs[o].count[a]
Citing(s, o, a) ==
    {l \in LienIds : s.liens[l] # NoLien /\ s.liens[l].ref = o /\ s.liens[l].count[a] > 0}

RefsCounted(s) ==
    \A o \in Objects, a \in Accts : RefCount(s, o, a) = Cardinality(Citing(s, o, a))

\* A lien occurs in a sequence when an extent cites it.
LEMMA OccType ==
    ASSUME NEW q \in Seq(ZcoExtents), NEW l
    PROVE  Occ(q, l) \in Nat /\ (Occ(q, l) > 0 <=> \E i \in DOMAIN q : q[i].lien = l)
<1> DEFINE I == {i \in DOMAIN q : q[i].lien = l}
<1>1. DOMAIN q = 1..Len(q) /\ Len(q) \in Nat
  OBVIOUS
<1>2. IsFiniteSet(I)
  <2>1. IsFiniteSet(1..Len(q)) /\ I \in SUBSET (1..Len(q))
    BY <1>1, FS_Interval
  <2> QED
    BY <2>1, FS_Subset
<1>3. Cardinality(I) \in Nat /\ (Cardinality(I) = 0 <=> I = {})
  BY <1>2, FS_CardinalityType, FS_EmptySet
<1>4. Occ(q, l) = Cardinality(I)
  BY DEF Occ
<1>5. (I # {}) <=> \E i \in DOMAIN q : q[i].lien = l
  OBVIOUS
<1> HIDE DEF I
<1> QED
  BY <1>3, <1>4, <1>5

\* No extents, no citations.
LEMMA OccEmpty == \A l : Occ(<<>>, l) = 0
<1> TAKE l
<1>1. {i \in DOMAIN <<>> : <<>>[i].lien = l} = {}
  OBVIOUS
<1> QED
  BY <1>1, FS_EmptySet DEF Occ

\* One more extent at the end.
LEMMA OccAppend ==
    ASSUME NEW q \in Seq(ZcoExtents), NEW e \in ZcoExtents, NEW l
    PROVE  Occ(Append(q, e), l) = Occ(q, l) + (IF e.lien = l THEN 1 ELSE 0)
<1> DEFINE r == Append(q, e)
           n == Len(q)
           I == {i \in DOMAIN q : q[i].lien = l}
           J == {i \in DOMAIN r : r[i].lien = l}
<1>1. /\ DOMAIN q = 1..n /\ n \in Nat /\ DOMAIN r = 1..(n + 1)
      /\ r[n + 1] = e /\ \A i \in 1..n : r[i] = q[i]
  OBVIOUS
<1> HIDE DEF r, n
<1>2. IsFiniteSet(I) /\ n + 1 \notin I
  <2>1. IsFiniteSet(1..n) /\ I \in SUBSET (1..n) /\ n + 1 \notin 1..n
    BY <1>1, FS_Interval
  <2> QED
    BY <2>1, FS_Subset
<1>3. J = IF e.lien = l THEN I \cup {n + 1} ELSE I
  BY <1>1
<1> HIDE DEF I, J
<1>4. Cardinality(J) = Cardinality(I) + (IF e.lien = l THEN 1 ELSE 0)
  <2>1. Cardinality(I) \in Nat /\ Cardinality(I \cup {n + 1}) = Cardinality(I) + 1
    BY <1>2, FS_AddElement, FS_CardinalityType
  <2> QED
    BY <1>3, <2>1
<1> QED
  BY <1>4 DEF Occ, I, J, r

\* One more extent at the beginning.
LEMMA OccPrepend ==
    ASSUME NEW q \in Seq(ZcoExtents), NEW e \in ZcoExtents, NEW l
    PROVE  Occ(<<e>> \o q, l) = Occ(q, l) + (IF e.lien = l THEN 1 ELSE 0)
<1> DEFINE r == <<e>> \o q
           n == Len(q)
           I == {i \in DOMAIN q : q[i].lien = l}
           K == {i \in 2..(n + 1) : q[i - 1].lien = l}
           J == {i \in DOMAIN r : r[i].lien = l}
           f == [i \in I |-> i + 1]
<1>1. /\ DOMAIN q = 1..n /\ n \in Nat /\ DOMAIN r = 1..(n + 1)
      /\ r[1] = e /\ \A i \in 2..(n + 1) : r[i] = q[i - 1]
  <2>1. Len(r) = n + 1 /\ r \in Seq(ZcoExtents) /\ n \in Nat
    OBVIOUS
  <2>2. r[1] = e
    OBVIOUS
  <2>3. ASSUME NEW i \in 2..(n + 1) PROVE r[i] = q[i - 1]
    OBVIOUS
  <2> QED
    BY <2>1, <2>2, <2>3
<1> HIDE DEF r, n
<1>2. IsFiniteSet(I)
  <2>1. IsFiniteSet(1..n) /\ I \in SUBSET (1..n)
    BY <1>1, FS_Interval
  <2> QED
    BY <2>1, FS_Subset
<1>3. f \in Bijection(I, K)
  <2>1. f \in [I -> K]
    BY <1>1
  <2>2. \A i, j \in I : f[i] = f[j] => i = j
    BY <1>1
  <2>3. ASSUME NEW k \in K PROVE \E i \in I : f[i] = k
    <3>1. k - 1 \in I /\ f[k - 1] = k
      BY <1>1
    <3> QED
      BY <3>1
  <2> HIDE DEF f, I, K
  <2> QED
    BY <2>1, <2>2, <2>3 DEF Bijection, Injection, Surjection, IsInjective
<1>4. Cardinality(K) = Cardinality(I) /\ IsFiniteSet(K)
  <2> HIDE DEF I, K, f
  <2> QED
    BY <1>2, <1>3, FS_Bijection DEF ExistsBijection
<1>5. J = (IF e.lien = l THEN {1} ELSE {}) \cup K /\ 1 \notin K
  BY <1>1
<1> HIDE DEF I, J, K
<1>6. Cardinality(J) = Cardinality(I) + (IF e.lien = l THEN 1 ELSE 0)
  <2>1. Cardinality(K) \in Nat /\ Cardinality(K \cup {1}) = Cardinality(K) + 1
    BY <1>4, <1>5, FS_AddElement, FS_CardinalityType
  <2>2. CASE e.lien = l
    <3>1. J = K \cup {1}
      BY <1>5, <2>2
    <3> QED
      BY <1>4, <2>1, <2>2, <3>1
  <2>3. CASE e.lien # l
    <3>1. J = K
      BY <1>5, <2>3
    <3> QED
      BY <1>4, <2>1, <2>3, <3>1
  <2> QED
    BY <2>2, <2>3
<1> QED
  BY <1>6 DEF Occ, I, J, r

\* A ZCO changes how often a lien is cited by how often it cites it.
LEMMA CitedType ==
    ASSUME NEW x \in Zcos \cup {NoZco}, NEW l, NEW a
    PROVE  CitedBy(x, l, a) \in Nat
BY OccType, ZcoTyped DEF CitedBy

\* How often a lien is cited when one ZCO is another.
LEMMA CitedChange ==
    ASSUME NEW v \in ZcoTables, NEW z \in ZcoIds, NEW x \in Zcos \cup {NoZco}, NEW l, NEW a
    PROVE  /\ CitedIn(v, l, a) \in Nat
           /\ CitedIn([v EXCEPT ![z] = x], l, a)
                = CitedIn(v, l, a) + CitedBy(x, l, a) - CitedBy(v[z], l, a)
<1> DEFINE w == [v EXCEPT ![z] = x]
           f == [k \in ZcoIds |-> CitedBy(v[k], l, a)]
           g == [k \in ZcoIds |-> CitedBy(w[k], l, a)]
<1>1. w \in ZcoTables /\ w[z] = x /\ \A k \in ZcoIds \ {z} : w[k] = v[k]
  BY DEF ZcoTables
<1>2. \A k \in ZcoIds : v[k] \in Zcos \cup {NoZco} /\ w[k] \in Zcos \cup {NoZco}
  BY <1>1 DEF ZcoTables
<1>3. /\ f[z] = CitedBy(v[z], l, a) /\ g[z] = CitedBy(x, l, a)
      /\ \A k \in ZcoIds \ {z} : g[k] = f[k]
      /\ \A k \in ZcoIds : f[k] \in Nat /\ g[k] \in Nat
  <2> HIDE DEF w
  <2> QED
    BY <1>1, <1>2, CitedType
<1>4. CitedIn(v, l, a) = SumOf(f, ZcoIds) /\ CitedIn(w, l, a) = SumOf(g, ZcoIds)
  BY DEF CitedIn
<1> HIDE DEF f, g, w
<1>5. /\ SumOf(f, ZcoIds) \in Nat /\ SumOf(g, ZcoIds) \in Nat
      /\ SumOf(g, ZcoIds) + f[z] = SumOf(f, ZcoIds) + g[z]
  BY <1>3, SumChanged, SumType, Addresses
<1>6. CitedBy(v[z], l, a) \in Nat /\ CitedBy(x, l, a) \in Nat
  BY <1>2, CitedType
<1> QED
  BY <1>3, <1>4, <1>5, <1>6 DEF w

\* What a ZCO cites is cited.
LEMMA CitedFound ==
    ASSUME NEW v \in ZcoTables, NEW z \in ZcoIds, v[z] # NoZco,
           NEW i \in DOMAIN v[z].extents
    PROVE  CitedIn(v, v[z].extents[i].lien, v[z].acct) > 0
<1> DEFINE l == v[z].extents[i].lien
           a == v[z].acct
           f == [k \in ZcoIds |-> CitedBy(v[k], l, a)]
<1>1. v[z] \in Zcos /\ \A k \in ZcoIds : v[k] \in Zcos \cup {NoZco}
  BY DEF ZcoTables
<1>2. f[z] > 0
  <2>1. Occ(v[z].extents, l) > 0
    BY <1>1, OccType, ZcoTyped
  <2> QED
    BY <2>1 DEF CitedBy
<1>3. \A k \in ZcoIds : f[k] \in Nat
  BY <1>1, CitedType
<1>4. CitedIn(v, l, a) = SumOf(f, ZcoIds)
  BY DEF CitedIn
<1> HIDE DEF f
<1>5. f[z] <= SumOf(f, ZcoIds) /\ SumOf(f, ZcoIds) \in Nat
  BY <1>3, SumAtLeast, SumType, Addresses
<1> QED
  BY <1>2, <1>3, <1>4, <1>5

\* No citation is zero in every account.
LEMMA NothingCited ==
    ASSUME NEW c \in Counts
    PROVE  c = NoCitation <=> \A a \in Accts : c[a] = 0
BY DEF Counts, NoCitation

\* The counters of a store.
LEMMA CountsTyped ==
    ASSUME NEW s \in Stores
    PROVE  /\ \A l \in LienIds, a \in Accts : LienCount(s, l, a) \in Nat
           /\ \A l \in LienIds : s.liens[l] # NoLien =>
                 /\ s.liens[l] \in Liens /\ s.liens[l].ref \in Objects
                 /\ s.liens[l].count \in Counts
                 /\ \A a \in Accts : s.liens[l].count[a] \in Nat
           /\ \A o \in Objects, a \in Accts : RefCount(s, o, a) \in Nat
           /\ \A o \in Objects : s.refs[o] # NoRef =>
                 /\ s.refs[o] \in Refs /\ s.refs[o].count \in Counts
                 /\ s.refs[o].okayToDestroy \in BOOLEAN
                 /\ \A a \in Accts : s.refs[o].count[a] \in Nat
<1>1. ASSUME NEW l \in LienIds, s.liens[l] # NoLien
      PROVE  /\ s.liens[l] \in Liens /\ s.liens[l].ref \in Objects
             /\ s.liens[l].count \in Counts
             /\ \A a \in Accts : s.liens[l].count[a] \in Nat
  <2>1. s.liens[l] \in Liens
    BY <1>1 DEF Stores
  <2>2. s.liens[l].ref \in Objects /\ s.liens[l].count \in Counts
    BY <2>1 DEF Liens
  <2> QED
    BY <2>1, <2>2 DEF Counts
<1>2. ASSUME NEW o \in Objects, s.refs[o] # NoRef
      PROVE  /\ s.refs[o] \in Refs /\ s.refs[o].count \in Counts
             /\ s.refs[o].okayToDestroy \in BOOLEAN
             /\ \A a \in Accts : s.refs[o].count[a] \in Nat
  <2>1. s.refs[o] \in Refs
    BY <1>2 DEF Stores
  <2>2. s.refs[o].count \in Counts /\ s.refs[o].okayToDestroy \in BOOLEAN
    BY <2>1 DEF Refs
  <2> QED
    BY <2>1, <2>2 DEF Counts
<1> QED
  BY <1>1, <1>2 DEF LienCount, RefCount

\* The liens that cite a reference are finitely many.
LEMMA CitingFinite ==
    ASSUME NEW s, NEW o, NEW a
    PROVE  /\ IsFiniteSet(Citing(s, o, a)) /\ Cardinality(Citing(s, o, a)) \in Nat
           /\ Cardinality(Citing(s, o, a)) = 0 <=> Citing(s, o, a) = {}
<1>1. Citing(s, o, a) \in SUBSET LienIds
  BY DEF Citing
<1>2. IsFiniteSet(Citing(s, o, a))
  BY <1>1, Addresses, FS_Subset
<1> QED
  BY <1>2, FS_CardinalityType, FS_EmptySet

\* A lien that is cited holds its reference.
LEMMA RefHeld ==
    ASSUME NEW s \in Stores, RefsCounted(s), NEW l \in LienIds, NEW a \in Accts,
           LienCount(s, l, a) > 0
    PROVE  /\ s.liens[l] # NoLien /\ s.liens[l].count[a] > 0 /\ s.liens[l].ref \in Objects
           /\ s.refs[s.liens[l].ref] # NoRef /\ s.refs[s.liens[l].ref].count[a] > 0
           /\ RefCount(s, s.liens[l].ref, a) > 0
<1>1. s.liens[l] # NoLien /\ s.liens[l].count[a] > 0
  BY DEF LienCount
<1>2. s.liens[l].ref \in Objects
  BY <1>1, CountsTyped
<1>3. Citing(s, s.liens[l].ref, a) # {}
  BY <1>1 DEF Citing
<1>4. RefCount(s, s.liens[l].ref, a) > 0
  <2>1. RefCount(s, s.liens[l].ref, a) = Cardinality(Citing(s, s.liens[l].ref, a))
    BY <1>2 DEF RefsCounted
  <2> QED
    BY <1>3, <2>1, CitingFinite
<1> QED
  BY <1>1, <1>2, <1>4 DEF RefCount

\* What citing a lien does to the counters.
MoreCited(t, s, l, a) ==
    /\ RefsCounted(t)
    /\ \A k \in LienIds, b \in Accts :
          LienCount(t, k, b) = LienCount(s, k, b) + (IF k = l /\ b = a THEN 1 ELSE 0)
    /\ \A k \in LienIds :
          /\ t.liens[k] # NoLien <=> s.liens[k] # NoLien
          /\ s.liens[k] # NoLien => t.liens[k].ref = s.liens[k].ref
    /\ \A o \in Objects :
          /\ t.refs[o] # NoRef <=> s.refs[o] # NoRef
          /\ s.refs[o] # NoRef => t.refs[o].okayToDestroy = s.refs[o].okayToDestroy
          /\ \A b \in Accts : RefCount(t, o, b) >= RefCount(s, o, b)
    /\ RefCount(t, s.liens[l].ref, a) > 0

\* After CiteLien the counters of references count the liens that cite them.
LEMMA CitedCounts ==
    ASSUME NEW s \in Stores, RefsCounted(s), NEW l \in LienIds, NEW a \in Accts,
           NEW t, LienCited(t, s, l, a)
    PROVE  MoreCited(t, s, l, a)
<1> DEFINE x == s.liens[l]
           y == Adjust(x, a, 1)
           o == x.ref
           r == s.refs[o]
           q == Adjust(r, a, 1)
           c == x.count[a]
<1>0. /\ t \in Stores /\ x \in Liens /\ r \in Refs
      /\ t.liens = [s.liens EXCEPT ![l] = y]
      /\ t.refs = IF c = 0 THEN [s.refs EXCEPT ![o] = q] ELSE s.refs
  BY DEF LienCited
<1>1. x # NoLien /\ r # NoRef /\ o \in Objects /\ c \in Nat /\ r.count[a] \in Nat
  <2>1. x # NoLien /\ r # NoRef
    BY <1>0, EntriesReal
  <2>2. o \in Objects /\ c \in Nat
    BY <2>1, CountsTyped
  <2> QED
    BY <2>1, <2>2, CountsTyped
<1>2. /\ y \in Liens /\ y.ref = o
      /\ \A b \in Accts : y.count[b] = x.count[b] + (IF b = a THEN 1 ELSE 0)
  <2>1. x.count[a] + 1 \in Nat
    BY <1>1
  <2> QED
    BY <1>0, <2>1, LienAdjusted
<1>3. /\ q \in Refs /\ q.okayToDestroy = r.okayToDestroy
      /\ \A b \in Accts : q.count[b] = r.count[b] + (IF b = a THEN 1 ELSE 0)
  <2>1. r.count[a] + 1 \in Nat
    BY <1>1
  <2> QED
    BY <1>0, <2>1, RefAdjusted
<1>4. y # NoLien /\ q # NoRef
  BY <1>2, <1>3, EntriesReal
<1>5. /\ DOMAIN s.liens = LienIds /\ DOMAIN s.refs = Objects
  BY DEF Stores
<1> HIDE DEF y, q
<1>6. \A k \in LienIds : t.liens[k] = IF k = l THEN y ELSE s.liens[k]
  BY <1>0, <1>5
<1>7. \A u \in Objects : t.refs[u] = IF u = o /\ c = 0 THEN q ELSE s.refs[u]
  BY <1>0, <1>5
<1>8. ASSUME NEW k \in LienIds, NEW b \in Accts
      PROVE  LienCount(t, k, b) = LienCount(s, k, b) + (IF k = l /\ b = a THEN 1 ELSE 0)
  <2>1. LienCount(s, k, b) \in Nat
    BY CountsTyped
  <2>2. CASE k = l
    <3>1. LienCount(t, k, b) = y.count[b] /\ LienCount(s, k, b) = x.count[b]
      BY <1>1, <1>4, <1>6, <2>2 DEF LienCount
    <3> QED
      BY <1>2, <2>2, <3>1
  <2>3. CASE k # l
    BY <1>6, <2>1, <2>3 DEF LienCount
  <2> QED
    BY <2>2, <2>3
<1>9. ASSUME NEW k \in LienIds
      PROVE  /\ t.liens[k] # NoLien <=> s.liens[k] # NoLien
             /\ s.liens[k] # NoLien => t.liens[k].ref = s.liens[k].ref
  BY <1>1, <1>2, <1>4, <1>6
<1>10. ASSUME NEW u \in Objects, NEW b \in Accts
       PROVE  RefCount(t, u, b) = RefCount(s, u, b) + (IF u = o /\ c = 0 /\ b = a THEN 1 ELSE 0)
  <2>1. RefCount(s, u, b) \in Nat
    BY CountsTyped
  <2>2. CASE u = o /\ c = 0
    <3>1. RefCount(t, u, b) = q.count[b] /\ RefCount(s, u, b) = r.count[b]
      BY <1>1, <1>4, <1>7, <2>2 DEF RefCount
    <3> QED
      BY <1>3, <2>2, <3>1
  <2>3. CASE ~(u = o /\ c = 0)
    BY <1>7, <2>1, <2>3 DEF RefCount
  <2> QED
    BY <2>2, <2>3
<1>11. ASSUME NEW u \in Objects
       PROVE  /\ t.refs[u] # NoRef <=> s.refs[u] # NoRef
              /\ s.refs[u] # NoRef => t.refs[u].okayToDestroy = s.refs[u].okayToDestroy
              /\ \A b \in Accts : RefCount(t, u, b) >= RefCount(s, u, b)
  <2>1. /\ t.refs[u] # NoRef <=> s.refs[u] # NoRef
        /\ s.refs[u] # NoRef => t.refs[u].okayToDestroy = s.refs[u].okayToDestroy
    BY <1>1, <1>3, <1>4, <1>7
  <2>2. ASSUME NEW b \in Accts PROVE RefCount(t, u, b) >= RefCount(s, u, b)
    <3>1. RefCount(s, u, b) \in Nat
      BY CountsTyped
    <3> HIDE DEF c, o
    <3> QED
      BY <1>10, <3>1
  <2> QED
    BY <2>1, <2>2
<1>12. ASSUME NEW u \in Objects, NEW b \in Accts
       PROVE  RefCount(t, u, b) = Cardinality(Citing(t, u, b))
  <2>1. RefCount(s, u, b) = Cardinality(Citing(s, u, b))
    BY DEF RefsCounted
  <2>2. CASE u = o /\ c = 0 /\ b = a
    <3>1. Citing(t, u, b) = Citing(s, u, b) \cup {l} /\ l \notin Citing(s, u, b)
      <4>1. l \notin Citing(s, u, b)
        BY <2>2 DEF Citing
      <4>2. y.count[a] = 1
        BY <1>1, <1>2, <2>2
      <4>3. l \in Citing(t, u, b)
        BY <1>2, <1>4, <1>6, <2>2, <4>2 DEF Citing
      <4>4. \A k \in LienIds \ {l} : k \in Citing(t, u, b) <=> k \in Citing(s, u, b)
        BY <1>6 DEF Citing
      <4>5. Citing(t, u, b) \in SUBSET LienIds /\ Citing(s, u, b) \in SUBSET LienIds
        BY DEF Citing
      <4> QED
        BY <4>1, <4>3, <4>4, <4>5
    <3>2. Cardinality(Citing(t, u, b)) = Cardinality(Citing(s, u, b)) + 1
      BY <3>1, CitingFinite, FS_AddElement
    <3> QED
      BY <1>10, <2>1, <2>2, <3>2
  <2>3. CASE ~(u = o /\ c = 0 /\ b = a)
    <3>1. l \in Citing(t, u, b) <=> l \in Citing(s, u, b)
      <4>1. l \in Citing(s, u, b) <=> o = u /\ x.count[b] > 0
        BY <1>1 DEF Citing
      <4>2. l \in Citing(t, u, b) <=> o = u /\ y.count[b] > 0
        BY <1>2, <1>4, <1>6 DEF Citing
      <4>3. o = u => (y.count[b] > 0 <=> x.count[b] > 0)
        <5>1. CASE b # a
          <6>1. y.count[b] = x.count[b] + 0 /\ x.count[b] \in Nat
            BY <1>1, <1>2, <5>1, CountsTyped
          <6> QED
            BY <6>1
        <5>2. CASE b = a
          <6>1. y.count[b] = c + 1 /\ x.count[b] = c
            BY <1>2, <5>2
          <6> QED
            BY <1>1, <2>3, <5>2, <6>1
        <5> QED
          BY <5>1, <5>2
      <4> QED
        BY <4>1, <4>2, <4>3
    <3>2. \A k \in LienIds \ {l} : k \in Citing(t, u, b) <=> k \in Citing(s, u, b)
      BY <1>6 DEF Citing
    <3>3. Citing(t, u, b) \in SUBSET LienIds /\ Citing(s, u, b) \in SUBSET LienIds
      BY DEF Citing
    <3>4. Citing(t, u, b) = Citing(s, u, b)
      BY <3>1, <3>2, <3>3
    <3>5. RefCount(s, u, b) \in Nat
      BY CountsTyped
    <3> HIDE DEF o, c
    <3> QED
      BY <1>10, <2>1, <2>3, <3>4, <3>5
  <2> QED
    BY <2>2, <2>3
<1>13. RefsCounted(t)
  BY <1>12 DEF RefsCounted
<1>14. RefCount(t, o, a) > 0
  <2>1. LienCount(t, l, a) = c + 1
    <3>1. LienCount(s, l, a) = c
      BY <1>1 DEF LienCount
    <3> QED
      BY <1>8, <3>1
  <2>2. LienCount(t, l, a) > 0
    BY <1>1, <2>1
  <2>3. t.liens[l].ref = o
    BY <1>2, <1>6
  <2> QED
    BY <1>0, <1>13, <2>2, <2>3, RefHeld
<1> QED
  BY <1>8, <1>9, <1>11, <1>13, <1>14 DEF MoreCited

\* What taking a citation of a lien back does to the counters and the objects.
LessCited(t, s, l, a) ==
    /\ RefsCounted(t)
    /\ \A k \in LienIds, b \in Accts :
          LienCount(t, k, b) = LienCount(s, k, b) - (IF k = l /\ b = a THEN 1 ELSE 0)
    /\ \A k \in LienIds : t.liens[k] # NoLien =>
          /\ s.liens[k] # NoLien /\ t.liens[k].ref = s.liens[k].ref
          /\ (\E b \in Accts : LienCount(s, k, b) > 0) => \E b \in Accts : LienCount(t, k, b) > 0
    /\ \A o \in Objects : t.refs[o] # NoRef =>
          /\ s.refs[o] # NoRef /\ t.refs[o].okayToDestroy = s.refs[o].okayToDestroy
          /\ o \in s.objects => o \in t.objects
          /\ t.refs[o].okayToDestroy /\ (\E b \in Accts : RefCount(s, o, b) > 0) =>
                \E b \in Accts : RefCount(t, o, b) > 0
    /\ \A o \in t.objects : o \in s.objects /\ (t.refs[o] = NoRef => s.refs[o] = NoRef)
    /\ \A o \in s.objects : s.refs[o] = NoRef => o \in t.objects /\ t.refs[o] = NoRef

\* After UnciteLien they do as well, and what nothing cites is gone.
LEMMA UncitedCounts ==
    ASSUME NEW s \in Stores, RefsCounted(s), NEW l \in LienIds, NEW a \in Accts,
           LienCount(s, l, a) > 0, NEW t, LienUncited(t, s, l, a)
    PROVE  LessCited(t, s, l, a)
<1> DEFINE x == s.liens[l]
           y == Adjust(x, a, -1)
           o == x.ref
           r == s.refs[o]
           q == Adjust(r, a, -1)
           c == x.count[a]
           gone == y.count = NoCitation
           dropped == q.count = NoCitation /\ r.okayToDestroy
<1>0. /\ t \in Stores /\ x \in Liens
      /\ t.liens = [s.liens EXCEPT ![l] = IF gone THEN NoLien ELSE y]
      /\ IF c = 1
         THEN /\ r \in Refs
              /\ IF dropped
                 THEN t.refs = [s.refs EXCEPT ![o] = NoRef] /\ t.objects = s.objects \ {o}
                 ELSE t.refs = [s.refs EXCEPT ![o] = q] /\ t.objects = s.objects
         ELSE t.refs = s.refs /\ t.objects = s.objects
  BY DEF LienUncited, RefLess
<1>1. /\ x # NoLien /\ o \in Objects /\ c \in Nat /\ c > 0 /\ r # NoRef /\ r \in Refs
      /\ r.count[a] \in Nat /\ r.count[a] > 0 /\ r.okayToDestroy \in BOOLEAN
      /\ s.objects \in SUBSET Objects
  <2>1. x # NoLien /\ c > 0 /\ o \in Objects /\ r # NoRef /\ r.count[a] > 0
    BY RefHeld
  <2>2. s.objects \in SUBSET Objects
    BY DEF Stores
  <2> QED
    BY <2>1, <2>2, CountsTyped
<1>2. /\ y \in Liens /\ y.ref = o
      /\ \A b \in Accts : y.count[b] = x.count[b] - (IF b = a THEN 1 ELSE 0)
  <2>1. x.count[a] + (-1) \in Nat
    BY <1>1
  <2>2. /\ y \in Liens /\ y.ref = o
        /\ \A b \in Accts : y.count[b] = x.count[b] + (IF b = a THEN -1 ELSE 0)
    BY <1>0, <2>1, LienAdjusted
  <2>3. \A b \in Accts : x.count[b] \in Nat
    BY <1>1, CountsTyped
  <2> HIDE DEF y, x
  <2> QED
    BY <2>2, <2>3
<1>3. /\ q \in Refs /\ q.okayToDestroy = r.okayToDestroy
      /\ \A b \in Accts : q.count[b] = r.count[b] - (IF b = a THEN 1 ELSE 0)
  <2>1. r.count[a] + (-1) \in Nat
    BY <1>1
  <2>2. /\ q \in Refs /\ q.okayToDestroy = r.okayToDestroy
        /\ \A b \in Accts : q.count[b] = r.count[b] + (IF b = a THEN -1 ELSE 0)
    BY <1>1, <2>1, RefAdjusted
  <2>3. \A b \in Accts : r.count[b] \in Nat
    BY <1>1, CountsTyped
  <2> HIDE DEF q, r
  <2> QED
    BY <2>2, <2>3
<1>4. y # NoLien /\ q # NoRef
  BY <1>2, <1>3, EntriesReal
<1>5. /\ DOMAIN s.liens = LienIds /\ DOMAIN s.refs = Objects
  BY DEF Stores
<1>a. gone <=> \A b \in Accts : y.count[b] = 0
  <2>1. y.count \in Counts
    BY <1>2 DEF Liens
  <2> QED
    BY <2>1, NothingCited
<1>b. q.count = NoCitation <=> \A b \in Accts : q.count[b] = 0
  <2>1. q.count \in Counts
    BY <1>3 DEF Refs
  <2> QED
    BY <2>1, NothingCited
<1>c. dropped <=> r.okayToDestroy /\ \A b \in Accts : q.count[b] = 0
  BY <1>b
<1> HIDE DEF y, q, gone, dropped
<1>6. \A k \in LienIds : t.liens[k] = IF k # l THEN s.liens[k] ELSE IF gone THEN NoLien ELSE y
  BY <1>0, <1>5
<1>7. /\ \A u \in Objects : t.refs[u] = IF u = o /\ c = 1
                                        THEN IF dropped THEN NoRef ELSE q
                                        ELSE s.refs[u]
      /\ t.objects = IF c = 1 /\ dropped THEN s.objects \ {o} ELSE s.objects
  <2>1. CASE c # 1
    BY <1>0, <2>1
  <2>2. CASE c = 1 /\ dropped
    BY <1>0, <1>5, <2>2
  <2>3. CASE c = 1 /\ ~dropped
    BY <1>0, <1>5, <2>3
  <2> QED
    BY <2>1, <2>2, <2>3
<1>8. \A b \in Accts : LienCount(t, l, b) = y.count[b] /\ LienCount(s, l, b) = x.count[b]
                       /\ x.count[b] \in Nat /\ y.count[b] \in Nat
  <2>1. \A b \in Accts : x.count[b] \in Nat /\ y.count[b] \in Nat
    <3>1. y.count \in Counts
      BY <1>2 DEF Liens
    <3> QED
      BY <1>1, <3>1, CountsTyped DEF Counts
  <2> QED
    BY <1>1, <1>4, <1>6, <1>a, <2>1 DEF LienCount
<1>9. ASSUME NEW k \in LienIds, NEW b \in Accts
      PROVE  LienCount(t, k, b) = LienCount(s, k, b) - (IF k = l /\ b = a THEN 1 ELSE 0)
  <2>1. LienCount(s, k, b) \in Nat
    BY CountsTyped
  <2>2. CASE k = l
    BY <1>2, <1>8, <2>2
  <2>3. CASE k # l
    BY <1>6, <2>1, <2>3 DEF LienCount
  <2> QED
    BY <2>2, <2>3
<1>10. ASSUME NEW k \in LienIds, t.liens[k] # NoLien
       PROVE  /\ s.liens[k] # NoLien /\ t.liens[k].ref = s.liens[k].ref
              /\ (\E b \in Accts : LienCount(s, k, b) > 0) => \E b \in Accts : LienCount(t, k, b) > 0
  <2>1. CASE k = l
    <3>1. ~gone /\ t.liens[k] = y
      BY <1>6, <1>10, <2>1
    <3>2. PICK b \in Accts : y.count[b] # 0
      BY <1>a, <3>1
    <3>3. LienCount(t, k, b) > 0
      BY <1>8, <2>1, <3>2
    <3> QED
      BY <1>1, <1>2, <2>1, <3>1, <3>3
  <2>2. CASE k # l
    BY <1>6, <1>10, <2>2 DEF LienCount
  <2> QED
    BY <2>1, <2>2
<1>11. ASSUME NEW u \in Objects, NEW b \in Accts
       PROVE  RefCount(t, u, b) = RefCount(s, u, b) - (IF u = o /\ c = 1 /\ b = a THEN 1 ELSE 0)
  <2>1. RefCount(s, u, b) \in Nat
    BY CountsTyped
  <2>2. CASE u = o /\ c = 1
    <3>1. RefCount(t, u, b) = q.count[b] /\ RefCount(s, u, b) = r.count[b]
      BY <1>1, <1>4, <1>7, <1>c, <2>2 DEF RefCount
    <3> QED
      BY <1>3, <2>2, <3>1
  <2>3. CASE ~(u = o /\ c = 1)
    BY <1>7, <2>1, <2>3 DEF RefCount
  <2> QED
    BY <2>2, <2>3
<1>12. ASSUME NEW u \in Objects, t.refs[u] # NoRef
       PROVE  /\ s.refs[u] # NoRef /\ t.refs[u].okayToDestroy = s.refs[u].okayToDestroy
              /\ u \in s.objects => u \in t.objects
              /\ t.refs[u].okayToDestroy /\ (\E b \in Accts : RefCount(s, u, b) > 0) =>
                    \E b \in Accts : RefCount(t, u, b) > 0
  <2>1. CASE u = o /\ c = 1
    <3>1. ~dropped /\ t.refs[u] = q
      BY <1>7, <1>12, <2>1
    <3>2. ASSUME r.okayToDestroy
          PROVE  \E b \in Accts : RefCount(t, u, b) > 0
      <4>1. PICK b \in Accts : q.count[b] # 0
        BY <1>c, <3>1, <3>2
      <4>2. RefCount(t, u, b) = q.count[b] /\ RefCount(t, u, b) \in Nat
        BY <1>0, <1>4, <3>1, CountsTyped DEF RefCount
      <4> QED
        BY <4>1, <4>2
    <3> QED
      BY <1>1, <1>3, <1>7, <2>1, <3>1, <3>2
  <2>2. CASE ~(u = o /\ c = 1)
    <3>1. t.refs[u] = s.refs[u]
      BY <1>7, <2>2
    <3>2. u \in s.objects => u \in t.objects
      BY <1>7, <2>2
    <3>3. \A b \in Accts : RefCount(t, u, b) = RefCount(s, u, b)
      BY <3>1 DEF RefCount
    <3> QED
      BY <1>12, <3>1, <3>2, <3>3
  <2> QED
    BY <2>1, <2>2
<1>13. ASSUME NEW u \in t.objects
       PROVE  u \in s.objects /\ (t.refs[u] = NoRef => s.refs[u] = NoRef)
  <2>1. u \in s.objects /\ u \in Objects
    BY <1>1, <1>7
  <2>2. t.refs[u] = NoRef => s.refs[u] = NoRef
    BY <1>4, <1>7, <2>1
  <2> QED
    BY <2>1, <2>2
<1>14. ASSUME NEW u \in s.objects, s.refs[u] = NoRef
       PROVE  u \in t.objects /\ t.refs[u] = NoRef
  <2>1. u # o /\ u \in Objects
    BY <1>1, <1>14
  <2> QED
    BY <1>7, <1>14, <2>1
<1>15. ASSUME NEW u \in Objects, NEW b \in Accts
       PROVE  RefCount(t, u, b) = Cardinality(Citing(t, u, b))
  <2>1. RefCount(s, u, b) = Cardinality(Citing(s, u, b))
    BY DEF RefsCounted
  <2>2. \A k \in LienIds \ {l} : k \in Citing(t, u, b) <=> k \in Citing(s, u, b)
    BY <1>6 DEF Citing
  <2>3. Citing(t, u, b) \in SUBSET LienIds /\ Citing(s, u, b) \in SUBSET LienIds
    BY DEF Citing
  <2>4. l \in Citing(s, u, b) <=> o = u /\ x.count[b] > 0
    BY <1>1 DEF Citing
  <2>5. l \in Citing(t, u, b) <=> o = u /\ y.count[b] > 0
    <3>1. CASE gone
      <4>1. y.count[b] = 0
        BY <1>a, <3>1
      <4>2. l \notin Citing(t, u, b)
        BY <1>6, <3>1 DEF Citing
      <4> QED
        BY <4>1, <4>2
    <3>2. CASE ~gone
      BY <1>2, <1>4, <1>6, <3>2 DEF Citing
    <3> QED
      BY <3>1, <3>2
  <2>6. CASE u = o /\ c = 1 /\ b = a
    <3>1. l \in Citing(s, u, b) /\ l \notin Citing(t, u, b)
      BY <1>2, <2>4, <2>5, <2>6
    <3>2. Citing(t, u, b) = Citing(s, u, b) \ {l}
      BY <2>2, <2>3, <3>1
    <3>3. Cardinality(Citing(t, u, b)) = Cardinality(Citing(s, u, b)) - 1
      BY <3>1, <3>2, CitingFinite, FS_RemoveElement
    <3> QED
      BY <1>11, <2>1, <2>6, <3>3
  <2>7. CASE ~(u = o /\ c = 1 /\ b = a)
    <3>1. o = u => (y.count[b] > 0 <=> x.count[b] > 0)
      <4>1. CASE b # a
        <5>1. y.count[b] = x.count[b] - 0 /\ x.count[b] \in Nat
          BY <1>2, <1>8, <4>1
        <5> QED
          BY <5>1
      <4>2. CASE b = a
        <5>1. y.count[b] = c - 1 /\ x.count[b] = c
          BY <1>2, <4>2
        <5> QED
          BY <1>1, <2>7, <4>2, <5>1
      <4> QED
        BY <4>1, <4>2
    <3>2. Citing(t, u, b) = Citing(s, u, b)
      BY <2>2, <2>3, <2>4, <2>5, <3>1
    <3>3. RefCount(s, u, b) \in Nat
      BY CountsTyped
    <3> HIDE DEF o, c
    <3> QED
      BY <1>11, <2>1, <2>7, <3>2, <3>3
  <2> QED
    BY <2>6, <2>7
<1>16. RefsCounted(t)
  BY <1>15 DEF RefsCounted
<1> QED
  BY <1>9, <1>10, <1>12, <1>13, <1>14, <1>16 DEF LessCited

(***************************************************************************)
(* Sound stores.  The table v of ZCOs is the one of the store, except      *)
(* within an operation that takes a ZCO apart, which works on the store    *)
(* first and forgets the ZCO at its end: there v has what is left of it.   *)
(* The liens of L and the references of O are about to be cited.           *)
(***************************************************************************)
Paid(s, v) == \A a \in Accts, m \in Media : Excess(s, a, m) = ZcoDue(v, a, m)

CitesCounted(s, v) ==
    \A l \in LienIds, a \in Accts : LienCount(s, l, a) = CitedIn(v, l, a)

LiensCited(s, L) ==
    \A l \in LienIds : s.liens[l] # NoLien /\ l \notin L => \E a \in Accts : LienCount(s, l, a) > 0

RefsKept(s, O) ==
    \A o \in Objects : s.refs[o] # NoRef =>
       /\ o \in s.objects
       /\ s.refs[o].okayToDestroy /\ o \notin O => \E a \in Accts : RefCount(s, o, a) > 0

ExtentsInside(s, v) ==
    \A z \in ZcoIds : v[z] # NoZco => \A i \in DOMAIN v[z].extents :
       v[z].extents[i].offset + v[z].extents[i].length
         <= Length[s.liens[v[z].extents[i].lien].ref]

\* The objects without a reference, each of them a header of one ZCO.
Bare(s) == {o \in s.objects : s.refs[o] = NoRef}

HeadersOwned(B, v) ==
    /\ \A z \in ZcoIds : v[z] # NoZco =>
          /\ IsInjective(v[z].headers)
          /\ v[z].capsuleLength = SumOf(Length, ToSet(v[z].headers))
          /\ v[z].capsuleLength <= v[z].totalLength
          /\ \A o \in ToSet(v[z].headers) : o \in B /\ Medium[o] = "heap"
    /\ \A y, z \in ZcoIds : v[y] # NoZco /\ v[z] # NoZco /\ y # z =>
          ToSet(v[y].headers) \cap ToSet(v[z].headers) = {}
    /\ \A o \in B : \E z \in ZcoIds : v[z] # NoZco /\ o \in ToSet(v[z].headers)

SoundWith(s, v, L, O) ==
    /\ s \in Stores /\ v \in ZcoTables
    /\ Paid(s, v) /\ RefsCounted(s) /\ CitesCounted(s, v) /\ LiensCited(s, L)
    /\ RefsKept(s, O) /\ ExtentsInside(s, v) /\ HeadersOwned(Bare(s), v)

Sound(s) == SoundWith(s, s.zcos, {}, {})

\* Headers stay owned when a ZCO changes and keeps them.
LEMMA HeadersKept ==
    ASSUME NEW B, NEW v \in ZcoTables, HeadersOwned(B, v), NEW z \in ZcoIds, v[z] # NoZco,
           NEW x \in Zcos, x.headers = v[z].headers, x.capsuleLength = v[z].capsuleLength,
           x.capsuleLength <= x.totalLength
    PROVE  HeadersOwned(B, [v EXCEPT ![z] = x])
<1> DEFINE w == [v EXCEPT ![z] = x]
<1>1. \A k \in ZcoIds : w[k] = IF k = z THEN x ELSE v[k]
  BY DEF ZcoTables
<1>2. x # NoZco
  BY EntriesReal
<1> HIDE DEF w
<1>3. \A k \in ZcoIds : /\ w[k] # NoZco <=> v[k] # NoZco
                        /\ v[k] # NoZco => w[k].headers = v[k].headers
                                           /\ w[k].capsuleLength = v[k].capsuleLength
  BY <1>1, <1>2
<1>4. ASSUME NEW k \in ZcoIds, w[k] # NoZco
      PROVE  /\ IsInjective(w[k].headers)
             /\ w[k].capsuleLength = SumOf(Length, ToSet(w[k].headers))
             /\ w[k].capsuleLength <= w[k].totalLength
             /\ \A o \in ToSet(w[k].headers) : o \in B /\ Medium[o] = "heap"
  <2>1. w[k].capsuleLength <= w[k].totalLength
    BY <1>1, <1>4 DEF HeadersOwned
  <2> QED
    BY <1>3, <1>4, <2>1 DEF HeadersOwned
<1>5. \A y, k \in ZcoIds : w[y] # NoZco /\ w[k] # NoZco /\ y # k =>
          ToSet(w[y].headers) \cap ToSet(w[k].headers) = {}
  BY <1>3 DEF HeadersOwned
<1>6. \A o \in B : \E k \in ZcoIds : w[k] # NoZco /\ o \in ToSet(w[k].headers)
  BY <1>3 DEF HeadersOwned
<1>7. HeadersOwned(B, w)
  BY <1>4, <1>5, <1>6 DEF HeadersOwned
<1> QED
  BY <1>7 DEF w

\* What has the fields of a ZCO is one.
ZcoFields == {"is", "acct", "headers", "extents", "headersLength", "sourceLength",
              "trailersLength", "capsuleLength", "totalLength"}

\* A record with the fields of a ZCO is one.
LEMMA ZcoMade ==
    ASSUME NEW y, DOMAIN y = ZcoFields, y = [k \in ZcoFields |-> y[k]],
           y.is = "zco", y.acct \in Accts, y.headers \in Seq(Objects),
           y.extents \in Seq(ZcoExtents), y.headersLength \in Nat, y.sourceLength \in Nat,
           y.trailersLength \in Nat, y.capsuleLength \in Nat, y.totalLength \in Nat
    PROVE  y \in Zcos
<1>1. y = [is |-> y.is, acct |-> y.acct, headers |-> y.headers, extents |-> y.extents,
           headersLength |-> y.headersLength, sourceLength |-> y.sourceLength,
           trailersLength |-> y.trailersLength, capsuleLength |-> y.capsuleLength,
           totalLength |-> y.totalLength]
  BY DEF ZcoFields
<1> QED
  BY <1>1 DEF Zcos

\* A ZCO with one extent more.
Longer(x, e) == [x EXCEPT !.extents = Append(@, e), !.sourceLength = @ + e.length,
                          !.totalLength = @ + e.length]

\* A ZCO with one extent more.
LEMMA LongerTyped ==
    ASSUME NEW x \in Zcos, NEW e \in ZcoExtents
    PROVE  /\ Longer(x, e) \in Zcos /\ Longer(x, e).acct = x.acct
           /\ Longer(x, e).extents = Append(x.extents, e)
           /\ Longer(x, e).headers = x.headers
           /\ Longer(x, e).capsuleLength = x.capsuleLength
           /\ Longer(x, e).totalLength >= x.totalLength
           /\ Longer(x, e).totalLength = x.totalLength + e.length
           /\ Longer(x, e).sourceLength = x.sourceLength + e.length
           /\ Longer(x, e).headersLength = x.headersLength
           /\ Longer(x, e).trailersLength = x.trailersLength
<1> DEFINE y == Longer(x, e)
<1>0. DOMAIN x = ZcoFields
  BY DEF Zcos, ZcoFields
<1>1. /\ y.is = x.is /\ y.acct = x.acct /\ y.headers = x.headers
      /\ y.extents = Append(x.extents, e) /\ y.headersLength = x.headersLength
      /\ y.sourceLength = x.sourceLength + e.length /\ y.trailersLength = x.trailersLength
      /\ y.capsuleLength = x.capsuleLength /\ y.totalLength = x.totalLength + e.length
  BY <1>0 DEF Longer, ZcoFields
<1>a. DOMAIN y = ZcoFields /\ y = [k \in ZcoFields |-> y[k]]
  BY <1>0 DEF Longer
<1>2. /\ x.is = "zco" /\ x.acct \in Accts /\ x.headers \in Seq(Objects)
      /\ x.extents \in Seq(ZcoExtents) /\ x.headersLength \in Nat /\ x.sourceLength \in Nat
      /\ x.trailersLength \in Nat /\ x.capsuleLength \in Nat /\ x.totalLength \in Nat
  BY DEF Zcos
<1>3. e.length \in Nat
  BY DEF ZcoExtents
<1> HIDE DEF y
<1>4. /\ y.sourceLength \in Nat /\ y.totalLength \in Nat /\ y.totalLength >= x.totalLength
      /\ y.extents \in Seq(ZcoExtents)
  BY <1>1, <1>2, <1>3
<1>5. y \in Zcos
  BY <1>1, <1>2, <1>4, <1>a, ZcoMade
<1> QED
  BY <1>1, <1>4, <1>5 DEF y

\* Adding an extent posts it.
LEMMA AddExtentDone ==
    ASSUME NEW s \in Stores, NEW z \in ZcoIds, s.zcos[z] # NoZco, NEW e \in ZcoExtents
    PROVE  LET u == AddExtent(s, z, e)
               a == s.zcos[z].acct
           IN  /\ u \in Stores /\ u.zcos = [s.zcos EXCEPT ![z] = Longer(s.zcos[z], e)]
               /\ u.liens = s.liens /\ u.refs = s.refs /\ u.objects = s.objects
               /\ \A b \in Accts, m \in Media :
                     Excess(u, b, m) = Excess(s, b, m)
                                         + (IF b = a /\ m = "heap" THEN ExtentSize ELSE 0)
<1> DEFINE x == s.zcos[z]
           a == x.acct
           p == Increase(s, a, "heap", ExtentSize)
           y == Longer(x, e)
           u == AddExtent(s, z, e)
<1>1. x \in Zcos /\ a \in Accts
  <2>1. x \in Zcos
    BY DEF Stores
  <2> QED
    BY <2>1, ZcoTyped
<1>2. Posted(p, s, a, "heap", ExtentSize)
  BY <1>1, Sizes, BookPosted DEF Media
<1>3. u = WithZco(p, z, y)
  <2>1. p \in Stores /\ p.zcos = s.zcos
    BY <1>2 DEF Posted
  <2>2. u = [p EXCEPT !.zcos[z].extents = Append(@, e), !.zcos[z].sourceLength = @ + e.length,
                      !.zcos[z].totalLength = @ + e.length]
    BY DEF AddExtent
  <2> DEFINE E == Append(x.extents, e)
             S == x.sourceLength + e.length
             F == x.totalLength + e.length
             w == [p EXCEPT !.zcos[z].extents = E, !.zcos[z].sourceLength = S,
                            !.zcos[z].totalLength = F]
  <2>3. u = w /\ y = [x EXCEPT !.extents = E, !.sourceLength = S, !.totalLength = F]
        /\ x = p.zcos[z]
    BY <2>1, <2>2 DEF Longer
  <2> HIDE DEF E, S, F, p, u, y, x
  <2>4. "zcos" \in DOMAIN p /\ z \in DOMAIN p.zcos
    BY <2>1 DEF Stores
  <2>5. w.zcos[z] = [p.zcos[z] EXCEPT !.extents = E, !.sourceLength = S, !.totalLength = F]
    BY <2>4
  <2>6. w.zcos = [p.zcos EXCEPT ![z] = y]
    BY <2>3, <2>4, <2>5
  <2>7. w = [p EXCEPT !.zcos = [p.zcos EXCEPT ![z] = y]]
    BY <2>4, <2>6
  <2> QED
    BY <2>3, <2>7 DEF WithZco
<1>4. y \in Zcos
  BY <1>1, LongerTyped
<1> HIDE DEF p, y, u, a
<1>5. /\ u \in Stores /\ u.zcos = [s.zcos EXCEPT ![z] = y] /\ u.liens = s.liens
      /\ u.refs = s.refs /\ u.objects = s.objects /\ SameExcess(u, p)
  BY <1>2, <1>3, <1>4, ZcoReplaced DEF Posted
<1>6. ASSUME NEW b \in Accts, NEW m \in Media
      PROVE  Excess(u, b, m) = Excess(s, b, m) + (IF b = a /\ m = "heap" THEN ExtentSize ELSE 0)
  BY <1>2, <1>5 DEF SameExcess, Posted
<1> QED
  BY <1>5, <1>6 DEF u, y, a

(***************************************************************************)
(* The steps that operations are made of.                                  *)
(***************************************************************************)
\* A ZCO gets an extent under a lien that is there.
Added(u, s, z, e, L, O) ==
    /\ SoundWith(u, u.zcos, L \ {e.lien}, O \ {s.liens[e.lien].ref})
    /\ u.zcos = [s.zcos EXCEPT ![z] = Longer(s.zcos[z], e)]
    /\ \A k \in LienIds : /\ u.liens[k] # NoLien <=> s.liens[k] # NoLien
                          /\ s.liens[k] # NoLien => u.liens[k].ref = s.liens[k].ref
    /\ \A o \in Objects : u.refs[o] # NoRef <=> s.refs[o] # NoRef

\* An extent under a lien that stands, cited and added.
LEMMA ExtentAdded ==
    ASSUME NEW s, NEW L, NEW O, SoundWith(s, s.zcos, L, O),
           NEW z \in ZcoIds, s.zcos[z] # NoZco, NEW e \in ZcoExtents,
           s.liens[e.lien] # NoLien, s.refs[s.liens[e.lien].ref] # NoRef,
           e.offset + e.length <= Length[s.liens[e.lien].ref]
    PROVE  Added(AddExtent(CiteLien(s, e.lien, s.zcos[z].acct), z, e), s, z, e, L, O)
<1> DEFINE l == e.lien
           v == s.zcos
           x == v[z]
           a == x.acct
           y == Longer(x, e)
           t == CiteLien(s, l, a)
           u == AddExtent(t, z, e)
           w == [v EXCEPT ![z] = y]
<1>1. /\ s \in Stores /\ v \in ZcoTables /\ l \in LienIds /\ x \in Zcos /\ a \in Accts
      /\ x.extents \in Seq(ZcoExtents) /\ Len(x.extents) \in Nat
  <2>1. s \in Stores /\ v \in ZcoTables
    BY DEF SoundWith
  <2>2. x \in Zcos
    BY <2>1 DEF ZcoTables
  <2>3. l \in LienIds
    BY DEF ZcoExtents
  <2> QED
    BY <2>1, <2>2, <2>3, ZcoTyped
<1>2. /\ y \in Zcos /\ y.acct = a /\ y.extents = Append(x.extents, e)
      /\ y.headers = x.headers /\ y.capsuleLength = x.capsuleLength
      /\ y.totalLength >= x.totalLength
  BY <1>1, LongerTyped
<1>3. y # NoZco
  BY <1>2, EntriesReal
<1>4. LienCited(t, s, l, a)
  BY <1>1, CiteLienDone
<1>5. MoreCited(t, s, l, a)
  <2>1. RefsCounted(s)
    BY DEF SoundWith
  <2> HIDE DEF t, l, a
  <2> QED
    BY <1>1, <1>4, <2>1, CitedCounts
<1>6. t \in Stores /\ t.zcos = v /\ t.objects = s.objects /\ SameExcess(t, s)
  BY <1>4 DEF LienCited
<1>7. /\ u \in Stores /\ u.zcos = w /\ u.liens = t.liens /\ u.refs = t.refs
      /\ u.objects = s.objects
      /\ \A b \in Accts, m \in Media :
            Excess(u, b, m) = Excess(s, b, m) + (IF b = a /\ m = "heap" THEN ExtentSize ELSE 0)
  <2> DEFINE c == t.zcos[z].acct
  <2>1. /\ u \in Stores /\ u.zcos = [t.zcos EXCEPT ![z] = Longer(t.zcos[z], e)]
        /\ u.liens = t.liens /\ u.refs = t.refs /\ u.objects = t.objects
        /\ \A b \in Accts, m \in Media :
              Excess(u, b, m) = Excess(t, b, m) + (IF b = c /\ m = "heap" THEN ExtentSize ELSE 0)
    <3> HIDE DEF t
    <3> QED
      BY <1>6, AddExtentDone
  <2>2. c = a
    BY <1>6
  <2>3. \A b \in Accts, m \in Media : Excess(t, b, m) = Excess(s, b, m)
    BY <1>6 DEF SameExcess
  <2> HIDE DEF t, u, c
  <2> QED
    BY <1>6, <2>1, <2>2, <2>3
<1>8. w \in ZcoTables /\ \A k \in ZcoIds : w[k] = IF k = z THEN y ELSE v[k]
  BY <1>1, <1>2 DEF ZcoTables
<1>9. /\ \A k \in LienIds, b \in Accts :
            LienCount(u, k, b) = LienCount(s, k, b) + (IF k = l /\ b = a THEN 1 ELSE 0)
      /\ \A k \in LienIds : /\ u.liens[k] # NoLien <=> s.liens[k] # NoLien
                            /\ s.liens[k] # NoLien => u.liens[k].ref = s.liens[k].ref
      /\ \A o \in Objects :
            /\ u.refs[o] # NoRef <=> s.refs[o] # NoRef
            /\ s.refs[o] # NoRef => u.refs[o].okayToDestroy = s.refs[o].okayToDestroy
            /\ \A b \in Accts : RefCount(u, o, b) >= RefCount(s, o, b)
      /\ RefCount(u, s.liens[l].ref, a) > 0
      /\ RefsCounted(u)
  <2> HIDE DEF t, u, l, a
  <2> QED
    BY <1>5, <1>7 DEF MoreCited, LienCount, RefCount, RefsCounted, Citing
<1> HIDE DEF t, u, y, w
<1>10. Paid(u, w)
  <2>1. ASSUME NEW b \in Accts, NEW m \in Media
        PROVE  Excess(u, b, m) = ZcoDue(w, b, m)
    <3>1. /\ ZcoDue(w, b, m) = ZcoDue(v, b, m) + ZcoCost(y, b, m) - ZcoCost(x, b, m)
          /\ ZcoDue(v, b, m) \in Nat
      BY <1>1, <1>2, ZcoChange DEF w
    <3>2. ZcoCost(y, b, m) = ZcoCost(x, b, m) + (IF b = a /\ m = "heap" THEN ExtentSize ELSE 0)
      <4>1. CASE b = a /\ m = "heap"
        <5> DEFINE n == Len(x.extents)
                   h == CapsuleSize * Len(x.headers)
                   c == x.capsuleLength
        <5>1. Len(y.extents) = n + 1 /\ n \in Nat
          BY <1>1, <1>2
        <5>2. h \in Nat /\ c \in Nat
          BY <1>1, ZcoTyped, Sizes
        <5>3. ZcoCost(x, b, m) = ZcoSize + ExtentSize * n + h + c
          BY <4>1 DEF ZcoCost
        <5>4. ZcoCost(y, b, m) = ZcoSize + ExtentSize * (n + 1) + h + c
          BY <1>2, <1>3, <4>1, <5>1 DEF ZcoCost
        <5> HIDE DEF n, h, c
        <5>5. ExtentSize * (n + 1) = ExtentSize * n + ExtentSize /\ ExtentSize * n \in Nat
              /\ ExtentSize \in Nat /\ ZcoSize \in Nat
          BY <5>1, Sizes
        <5> DEFINE k == ExtentSize * n
        <5>6. ZcoSize + (k + ExtentSize) + h + c = ZcoSize + k + h + c + ExtentSize
          <6> k \in Nat /\ ExtentSize \in Nat /\ ZcoSize \in Nat
            BY <5>5
          <6> HIDE DEF k
          <6> QED
            BY <5>2
        <5> QED
          BY <4>1, <5>3, <5>4, <5>5, <5>6
      <4>2. CASE ~(b = a /\ m = "heap")
        BY <1>2, <4>2 DEF ZcoCost
      <4> QED
        BY <4>1, <4>2
    <3>3. Excess(s, b, m) = ZcoDue(v, b, m)
      BY DEF SoundWith, Paid
    <3>4. ZcoCost(x, b, m) \in Nat
      BY <1>1, ZcoCostType
    <3>5. Excess(u, b, m) = Excess(s, b, m) + (IF b = a /\ m = "heap" THEN ExtentSize ELSE 0)
      BY <1>7
    <3> HIDE DEF v, x, a
    <3> QED
      BY <3>1, <3>2, <3>3, <3>4, <3>5, Sizes
  <2> QED
    BY <2>1 DEF Paid
<1>11. CitesCounted(u, w)
  <2>1. ASSUME NEW k \in LienIds, NEW b \in Accts
        PROVE  LienCount(u, k, b) = CitedIn(w, k, b)
    <3>1. /\ CitedIn(w, k, b) = CitedIn(v, k, b) + CitedBy(y, k, b) - CitedBy(x, k, b)
          /\ CitedIn(v, k, b) \in Nat
      BY <1>1, <1>2, CitedChange DEF w
    <3>2. CitedBy(y, k, b) = CitedBy(x, k, b) + (IF k = l /\ b = a THEN 1 ELSE 0)
      <4>1. Occ(y.extents, k) = Occ(x.extents, k) + (IF k = l THEN 1 ELSE 0)
        BY <1>1, <1>2, OccAppend
      <4>2. CitedBy(x, k, b) = IF b = a THEN Occ(x.extents, k) ELSE 0
        BY DEF CitedBy
      <4>3. CitedBy(y, k, b) = IF b = a THEN Occ(y.extents, k) ELSE 0
        BY <1>2, <1>3 DEF CitedBy
      <4>4. Occ(x.extents, k) \in Nat
        BY <1>1, OccType
      <4> HIDE DEF a, l
      <4> QED
        BY <4>1, <4>2, <4>3, <4>4
    <3>3. LienCount(s, k, b) = CitedIn(v, k, b)
      BY DEF SoundWith, CitesCounted
    <3>4. CitedBy(x, k, b) \in Nat
      BY <1>1, CitedType
    <3>5. LienCount(u, k, b) = LienCount(s, k, b) + (IF k = l /\ b = a THEN 1 ELSE 0)
      BY <1>9
    <3> HIDE DEF v, x, a, l
    <3> QED
      BY <3>1, <3>2, <3>3, <3>4, <3>5
  <2> QED
    BY <2>1 DEF CitesCounted
<1>12. LiensCited(u, L \ {l})
  <2>1. ASSUME NEW k \in LienIds, u.liens[k] # NoLien, k \notin L \ {l}
        PROVE  \E b \in Accts : LienCount(u, k, b) > 0
    <3>1. CASE k = l
      <4>1. LienCount(u, k, a) = LienCount(s, k, a) + 1 /\ LienCount(s, k, a) \in Nat
        BY <1>1, <1>9, <3>1, CountsTyped
      <4> QED
        BY <1>1, <4>1
    <3>2. CASE k # l
      <4>1. s.liens[k] # NoLien /\ k \notin L
        BY <1>9, <2>1, <3>2
      <4>2. PICK b \in Accts : LienCount(s, k, b) > 0
        BY <4>1 DEF SoundWith, LiensCited
      <4>3. LienCount(u, k, b) = LienCount(s, k, b) + 0 /\ LienCount(s, k, b) \in Nat
        BY <1>1, <1>9, <3>2, CountsTyped
      <4> QED
        BY <4>2, <4>3
    <3> QED
      BY <3>1, <3>2
  <2> QED
    BY <2>1 DEF LiensCited
<1>13. RefsKept(u, O \ {s.liens[l].ref})
  <2>1. ASSUME NEW o \in Objects, u.refs[o] # NoRef
        PROVE  /\ o \in u.objects
               /\ u.refs[o].okayToDestroy /\ o \notin O \ {s.liens[l].ref} =>
                     \E b \in Accts : RefCount(u, o, b) > 0
    <3>1. s.refs[o] # NoRef /\ u.refs[o].okayToDestroy = s.refs[o].okayToDestroy
      BY <1>9, <2>1
    <3>2. o \in u.objects
      BY <1>7, <3>1 DEF SoundWith, RefsKept
    <3>3. ASSUME u.refs[o].okayToDestroy, o \notin O \ {s.liens[l].ref}
          PROVE  \E b \in Accts : RefCount(u, o, b) > 0
      <4>1. CASE o = s.liens[l].ref
        BY <1>1, <1>9, <4>1
      <4>2. CASE o # s.liens[l].ref
        <5>1. PICK b \in Accts : RefCount(s, o, b) > 0
          BY <3>1, <3>3, <4>2 DEF SoundWith, RefsKept
        <5>2. /\ RefCount(s, o, b) \in Nat /\ RefCount(u, o, b) \in Nat
              /\ RefCount(u, o, b) >= RefCount(s, o, b)
          BY <1>1, <1>7, <1>9, CountsTyped
        <5> QED
          BY <5>1, <5>2
      <4> QED
        BY <4>1, <4>2
    <3> QED
      BY <3>2, <3>3
  <2> QED
    BY <2>1 DEF RefsKept
<1>14. ExtentsInside(u, w)
  <2>1. ASSUME NEW k \in ZcoIds, w[k] # NoZco, NEW i \in DOMAIN w[k].extents
        PROVE  w[k].extents[i].offset + w[k].extents[i].length
                 <= Length[u.liens[w[k].extents[i].lien].ref]
    <3>1. CASE v[k] # NoZco /\ i \in DOMAIN v[k].extents /\ w[k].extents[i] = v[k].extents[i]
      <4> DEFINE f == v[k].extents[i]
      <4>1. f.offset + f.length <= Length[s.liens[f.lien].ref]
        BY <3>1 DEF SoundWith, ExtentsInside
      <4>2. f.lien \in LienIds /\ s.liens[f.lien] # NoLien
        <5>1. v[k] \in Zcos
          BY <1>1, <3>1 DEF ZcoTables
        <5>2. f \in ZcoExtents /\ v[k].acct \in Accts
          BY <3>1, <5>1, ZcoTyped
        <5>3. f.lien \in LienIds
          BY <5>2 DEF ZcoExtents
        <5>4. CitedIn(v, f.lien, v[k].acct) > 0
          BY <1>1, <3>1, CitedFound
        <5>5. LienCount(s, f.lien, v[k].acct) > 0
          BY <5>2, <5>3, <5>4 DEF SoundWith, CitesCounted
        <5>6. LienCount(s, f.lien, v[k].acct) # 0
          BY <5>5
        <5>7. s.liens[f.lien] # NoLien
          BY <5>6 DEF LienCount
        <5> QED
          BY <5>3, <5>7
      <4>3. u.liens[f.lien].ref = s.liens[f.lien].ref
        BY <1>9, <4>2
      <4> HIDE DEF f
      <4> QED
        BY <3>1, <4>1, <4>3 DEF f
    <3>2. CASE w[k].extents[i] = e
      <4>1. u.liens[l].ref = s.liens[l].ref
        BY <1>1, <1>9
      <4> QED
        BY <3>2, <4>1
    <3>3. \/ v[k] # NoZco /\ i \in DOMAIN v[k].extents /\ w[k].extents[i] = v[k].extents[i]
          \/ w[k].extents[i] = e
      <4>1. CASE k # z
        BY <1>8, <2>1, <4>1
      <4>2. CASE k = z
        <5>1. w[k].extents = Append(x.extents, e)
          BY <1>2, <1>8, <4>2
        <5>2. i \in 1..(Len(x.extents) + 1) /\ DOMAIN x.extents = 1..Len(x.extents)
          BY <1>1, <5>1, <2>1
        <5>3. CASE i = Len(x.extents) + 1
          BY <1>1, <5>1, <5>3
        <5>4. CASE i # Len(x.extents) + 1
          <6>1. i \in 1..Len(x.extents)
            BY <1>1, <5>2, <5>4
          <6> QED
            BY <1>1, <4>2, <5>1, <5>2, <6>1
        <5> QED
          BY <5>3, <5>4
      <4> QED
        BY <4>1, <4>2
    <3> QED
      BY <3>1, <3>2, <3>3
  <2> QED
    BY <2>1 DEF ExtentsInside
<1>15. HeadersOwned(Bare(u), w)
  <2>1. Bare(u) = Bare(s)
    <3>1. s.objects \in SUBSET Objects
      BY <1>1 DEF Stores
    <3> QED
      BY <1>7, <1>9, <3>1 DEF Bare
  <2>2. HeadersOwned(Bare(s), v)
    BY DEF SoundWith
  <2>3. y.capsuleLength <= y.totalLength
    <3>1. x.capsuleLength <= x.totalLength
      BY <2>2 DEF HeadersOwned
    <3>2. x.capsuleLength \in Nat /\ x.totalLength \in Nat /\ y.totalLength \in Nat
      BY <1>1, <1>2 DEF Zcos
    <3> HIDE DEF x
    <3> QED
      BY <1>2, <3>1, <3>2
  <2> QED
    BY <1>1, <1>2, <2>1, <2>2, <2>3, HeadersKept DEF w
<1>16. SoundWith(u, w, L \ {l}, O \ {s.liens[l].ref})
  BY <1>7, <1>8, <1>9, <1>10, <1>11, <1>12, <1>13, <1>14, <1>15 DEF SoundWith
<1> QED
  BY <1>7, <1>9, <1>16 DEF Added, t, u, w, y

\* A ZCO loses its first extent.
CutOff(u, s, v, z, x) == SoundWith(u, [v EXCEPT ![z] = x], {}, {}) /\ u.zcos = s.zcos

\* The first extent, uncited and cut.
LEMMA ExtentCut ==
    ASSUME NEW s, NEW v, SoundWith(s, v, {}, {}), NEW z \in ZcoIds, v[z] # NoZco,
           NEW x \in Zcos, NEW e \in ZcoExtents, v[z].extents = <<e>> \o x.extents,
           x.acct = v[z].acct, x.headers = v[z].headers,
           x.capsuleLength = v[z].capsuleLength, x.totalLength = v[z].totalLength
    PROVE  CutOff(Reduce(UnciteLien(s, e.lien, x.acct), x.acct, "heap", ExtentSize), s, v, z, x)
<1> DEFINE l == e.lien
           a == x.acct
           y == v[z]
           t == UnciteLien(s, l, a)
           u == Reduce(t, a, "heap", ExtentSize)
           w == [v EXCEPT ![z] = x]
<1>1. /\ s \in Stores /\ v \in ZcoTables /\ l \in LienIds /\ y \in Zcos /\ a \in Accts
      /\ x.extents \in Seq(ZcoExtents) /\ Len(x.extents) \in Nat /\ RefsCounted(s)
  <2>1. s \in Stores /\ v \in ZcoTables /\ RefsCounted(s)
    BY DEF SoundWith
  <2>2. y \in Zcos
    BY <2>1 DEF ZcoTables
  <2>3. l \in LienIds
    BY DEF ZcoExtents
  <2> QED
    BY <2>1, <2>2, <2>3, ZcoTyped
<1>2. /\ DOMAIN y.extents = 1..(Len(x.extents) + 1) /\ y.extents[1] = e
      /\ Len(y.extents) = Len(x.extents) + 1 /\ DOMAIN x.extents = 1..Len(x.extents)
      /\ \A i \in 1..Len(x.extents) : x.extents[i] = y.extents[i + 1]
  BY <1>1
<1>3. x # NoZco
  BY EntriesReal
<1>4. LienCount(s, l, a) > 0
  <2>1. 1 \in DOMAIN y.extents
    BY <1>1, <1>2
  <2>2. CitedIn(v, y.extents[1].lien, y.acct) > 0
    BY <1>1, <2>1, CitedFound
  <2> QED
    BY <1>1, <1>2, <2>2 DEF SoundWith, CitesCounted
<1>5. LienUncited(t, s, l, a)
  <2>1. /\ s.liens[l] # NoLien /\ s.liens[l].count[a] > 0
        /\ s.refs[s.liens[l].ref] # NoRef /\ s.refs[s.liens[l].ref].count[a] > 0
    BY <1>1, <1>4, RefHeld
  <2> HIDE DEF l, a
  <2> QED
    BY <1>1, <2>1, UnciteLienDone
<1>6. LessCited(t, s, l, a)
  <2> HIDE DEF t, l, a
  <2> QED
    BY <1>1, <1>4, <1>5, UncitedCounts
<1> HIDE DEF t
<1>7. /\ u \in Stores /\ u.zcos = s.zcos /\ u.liens = t.liens /\ u.refs = t.refs
      /\ u.objects = t.objects
      /\ \A b \in Accts, m \in Media :
            Excess(u, b, m) = Excess(s, b, m) + (IF b = a /\ m = "heap" THEN -ExtentSize ELSE 0)
  <2>1. t \in Stores /\ t.zcos = s.zcos /\ SameExcess(t, s)
    BY <1>5 DEF LienUncited
  <2>2. Posted(u, t, a, "heap", -ExtentSize)
    BY <1>1, <2>1, Sizes, BookPosted DEF Media
  <2> HIDE DEF u
  <2> QED
    BY <2>1, <2>2 DEF Posted, SameExcess
<1>8. w \in ZcoTables /\ \A k \in ZcoIds : w[k] = IF k = z THEN x ELSE v[k]
  BY <1>1 DEF ZcoTables
<1>9. /\ RefsCounted(u)
      /\ \A k \in LienIds, b \in Accts :
            LienCount(u, k, b) = LienCount(s, k, b) - (IF k = l /\ b = a THEN 1 ELSE 0)
      /\ \A k \in LienIds : u.liens[k] # NoLien =>
            /\ s.liens[k] # NoLien /\ u.liens[k].ref = s.liens[k].ref
            /\ (\E b \in Accts : LienCount(s, k, b) > 0) => \E b \in Accts : LienCount(u, k, b) > 0
      /\ \A o \in Objects : u.refs[o] # NoRef =>
            /\ s.refs[o] # NoRef /\ u.refs[o].okayToDestroy = s.refs[o].okayToDestroy
            /\ o \in s.objects => o \in u.objects
            /\ u.refs[o].okayToDestroy /\ (\E b \in Accts : RefCount(s, o, b) > 0) =>
                  \E b \in Accts : RefCount(u, o, b) > 0
      /\ \A o \in u.objects : o \in s.objects /\ (u.refs[o] = NoRef => s.refs[o] = NoRef)
      /\ \A o \in s.objects : s.refs[o] = NoRef => o \in u.objects /\ u.refs[o] = NoRef
  <2> HIDE DEF u, l, a
  <2> QED
    BY <1>6, <1>7 DEF LessCited, LienCount, RefCount, RefsCounted, Citing
<1> HIDE DEF u, w
<1>10. Paid(u, w)
  <2>1. ASSUME NEW b \in Accts, NEW m \in Media
        PROVE  Excess(u, b, m) = ZcoDue(w, b, m)
    <3>1. /\ ZcoDue(w, b, m) = ZcoDue(v, b, m) + ZcoCost(x, b, m) - ZcoCost(y, b, m)
          /\ ZcoDue(v, b, m) \in Nat
      BY <1>1, ZcoChange DEF w
    <3>2. ZcoCost(y, b, m) = ZcoCost(x, b, m) + (IF b = a /\ m = "heap" THEN ExtentSize ELSE 0)
      <4>1. CASE b = a /\ m = "heap"
        <5> DEFINE n == Len(x.extents)
                   h == CapsuleSize * Len(x.headers)
                   c == x.capsuleLength
        <5>1. Len(y.extents) = n + 1 /\ n \in Nat
          BY <1>1, <1>2
        <5>2. h \in Nat /\ c \in Nat
          <6>1. Len(x.headers) \in Nat /\ x.capsuleLength \in Nat
            BY ZcoTyped
          <6> QED
            BY <6>1, Sizes
        <5>3. ZcoCost(x, b, m) = ZcoSize + ExtentSize * n + h + c
          BY <1>3, <4>1 DEF ZcoCost
        <5>4. ZcoCost(y, b, m) = ZcoSize + ExtentSize * (n + 1) + h + c
          BY <4>1, <5>1 DEF ZcoCost
        <5> HIDE DEF n, h, c
        <5>5. ExtentSize * (n + 1) = ExtentSize * n + ExtentSize /\ ExtentSize * n \in Nat
              /\ ExtentSize \in Nat /\ ZcoSize \in Nat
          BY <5>1, Sizes
        <5> DEFINE k == ExtentSize * n
        <5>6. ZcoSize + (k + ExtentSize) + h + c = ZcoSize + k + h + c + ExtentSize
          <6> k \in Nat /\ ExtentSize \in Nat /\ ZcoSize \in Nat
            BY <5>5
          <6> HIDE DEF k
          <6> QED
            BY <5>2
        <5> QED
          BY <4>1, <5>3, <5>4, <5>5, <5>6
      <4>2. CASE ~(b = a /\ m = "heap")
        <5>1. ZcoCost(y, b, m) = 0 /\ ZcoCost(x, b, m) = 0
          BY <4>2 DEF ZcoCost
        <5> QED
          BY <4>2, <5>1
      <4> QED
        BY <4>1, <4>2
    <3>3. Excess(s, b, m) = ZcoDue(v, b, m)
      BY DEF SoundWith, Paid
    <3>4. ZcoCost(x, b, m) \in Nat
      BY ZcoCostType
    <3>5. Excess(u, b, m) = Excess(s, b, m) + (IF b = a /\ m = "heap" THEN -ExtentSize ELSE 0)
      BY <1>7
    <3> HIDE DEF y, a
    <3> QED
      BY <3>1, <3>2, <3>3, <3>4, <3>5, Sizes
  <2> QED
    BY <2>1 DEF Paid
<1>11. CitesCounted(u, w)
  <2>1. ASSUME NEW k \in LienIds, NEW b \in Accts
        PROVE  LienCount(u, k, b) = CitedIn(w, k, b)
    <3>1. /\ CitedIn(w, k, b) = CitedIn(v, k, b) + CitedBy(x, k, b) - CitedBy(y, k, b)
          /\ CitedIn(v, k, b) \in Nat
      BY <1>1, CitedChange DEF w
    <3>2. CitedBy(y, k, b) = CitedBy(x, k, b) + (IF k = l /\ b = a THEN 1 ELSE 0)
      <4>1. Occ(y.extents, k) = Occ(x.extents, k) + (IF k = l THEN 1 ELSE 0)
        BY <1>1, OccPrepend
      <4>2. CitedBy(x, k, b) = IF b = a THEN Occ(x.extents, k) ELSE 0
        BY <1>3 DEF CitedBy
      <4>3. CitedBy(y, k, b) = IF b = a THEN Occ(y.extents, k) ELSE 0
        BY DEF CitedBy
      <4>4. Occ(x.extents, k) \in Nat
        BY <1>1, OccType
      <4> HIDE DEF a, l, y
      <4> QED
        BY <4>1, <4>2, <4>3, <4>4
    <3>3. LienCount(s, k, b) = CitedIn(v, k, b)
      BY DEF SoundWith, CitesCounted
    <3>4. CitedBy(x, k, b) \in Nat
      BY CitedType
    <3>5. LienCount(u, k, b) = LienCount(s, k, b) - (IF k = l /\ b = a THEN 1 ELSE 0)
      BY <1>9
    <3> HIDE DEF y, a, l
    <3> QED
      BY <3>1, <3>2, <3>3, <3>4, <3>5
  <2> QED
    BY <2>1 DEF CitesCounted
<1>12. LiensCited(u, {})
  BY <1>9 DEF SoundWith, LiensCited
<1>13. RefsKept(u, {})
  <2>1. ASSUME NEW o \in Objects, u.refs[o] # NoRef
        PROVE  /\ o \in u.objects
               /\ u.refs[o].okayToDestroy => \E b \in Accts : RefCount(u, o, b) > 0
    <3>1. s.refs[o] # NoRef /\ u.refs[o].okayToDestroy = s.refs[o].okayToDestroy
      BY <1>9, <2>1
    <3>2. o \in s.objects /\ (s.refs[o].okayToDestroy => \E b \in Accts : RefCount(s, o, b) > 0)
      BY <3>1 DEF SoundWith, RefsKept
    <3> QED
      BY <1>9, <2>1, <3>1, <3>2
  <2> QED
    BY <2>1 DEF RefsKept
<1>14. ExtentsInside(u, w)
  <2>1. ASSUME NEW k \in ZcoIds, w[k] # NoZco, NEW i \in DOMAIN w[k].extents
        PROVE  w[k].extents[i].offset + w[k].extents[i].length
                 <= Length[u.liens[w[k].extents[i].lien].ref]
    <3> DEFINE f == w[k].extents[i]
    <3>1. f.lien \in LienIds /\ u.liens[f.lien] # NoLien
      <4>1. w[k] \in Zcos
        BY <1>8, <2>1 DEF ZcoTables
      <4>2. f \in ZcoExtents /\ w[k].acct \in Accts
        BY <2>1, <4>1, ZcoTyped
      <4>3. f.lien \in LienIds
        BY <4>2 DEF ZcoExtents
      <4>4. CitedIn(w, f.lien, w[k].acct) > 0
        BY <1>8, <2>1, CitedFound
      <4>5. LienCount(u, f.lien, w[k].acct) > 0
        BY <1>11, <4>2, <4>3, <4>4 DEF CitesCounted
      <4> QED
        BY <4>3, <4>5 DEF LienCount
    <3>2. u.liens[f.lien].ref = s.liens[f.lien].ref
      BY <1>9, <3>1
    <3>3. PICK j \in DOMAIN v[k].extents : v[k] # NoZco /\ f = v[k].extents[j]
      <4>1. CASE k # z
        BY <1>8, <2>1, <4>1
      <4>2. CASE k = z
        <5>1. i \in 1..Len(x.extents) /\ f = x.extents[i]
          BY <1>2, <1>8, <2>1, <4>2
        <5>2. i + 1 \in DOMAIN y.extents /\ f = y.extents[i + 1]
          BY <1>1, <1>2, <5>1
        <5> HIDE DEF f
        <5> QED
          BY <4>2, <5>2
      <4> QED
        BY <4>1, <4>2
    <3>4. f.offset + f.length <= Length[s.liens[f.lien].ref]
      <4> HIDE DEF f
      <4> QED
        BY <3>3 DEF SoundWith, ExtentsInside
    <3> QED
      BY <3>2, <3>4
  <2> QED
    BY <2>1 DEF ExtentsInside
<1>15. HeadersOwned(Bare(u), w)
  <2>1. Bare(u) = Bare(s)
    BY <1>9 DEF Bare
  <2>2. HeadersOwned(Bare(s), v)
    BY DEF SoundWith
  <2>3. x.capsuleLength <= x.totalLength
    BY <2>2 DEF HeadersOwned
  <2> QED
    BY <1>1, <2>1, <2>2, <2>3, HeadersKept DEF w
<1>16. SoundWith(u, w, {}, {})
  BY <1>7, <1>8, <1>9, <1>10, <1>11, <1>12, <1>13, <1>14, <1>15 DEF SoundWith
<1> QED
  BY <1>7, <1>16 DEF CutOff, t, u, w

\* What a ZCO costs follows its headers, if its extents stay.
LEMMA CostFollows ==
    ASSUME NEW x \in Zcos, NEW y \in Zcos, x.acct = y.acct, x.extents = y.extents, NEW d \in Int,
           CapsuleSize * Len(x.headers) + x.capsuleLength
             = CapsuleSize * Len(y.headers) + y.capsuleLength + d,
           NEW b \in Accts, NEW m \in Media
    PROVE  ZcoCost(x, b, m) = ZcoCost(y, b, m) + (IF b = x.acct /\ m = "heap" THEN d ELSE 0)
<1> DEFINE n == ExtentSize * Len(x.extents)
           h == CapsuleSize * Len(x.headers)
           g == CapsuleSize * Len(y.headers)
           i == x.capsuleLength
           j == y.capsuleLength
<1>1. /\ Len(x.extents) \in Nat /\ Len(x.headers) \in Nat /\ Len(y.headers) \in Nat
      /\ i \in Nat /\ j \in Nat
  BY ZcoTyped
<1>2. n \in Nat /\ h \in Nat /\ g \in Nat /\ ZcoSize \in Nat
  <2>1. ExtentSize \in Nat /\ CapsuleSize \in Nat /\ ZcoSize \in Nat
    BY Sizes
  <2>2. \A p, q \in Nat : p * q \in Nat
    OBVIOUS
  <2> QED
    BY <1>1, <2>1, <2>2
<1>3. x # NoZco /\ y # NoZco
  BY EntriesReal
<1>4. CASE b = x.acct /\ m = "heap"
  <2>1. ZcoCost(x, b, m) = ZcoSize + n + h + i /\ ZcoCost(y, b, m) = ZcoSize + n + g + j
    BY <1>3, <1>4 DEF ZcoCost
  <2>2. h + i = g + j + d
    OBVIOUS
  <2> HIDE DEF n, h, g, i, j
  <2>3. ZcoSize + n + h + i = ZcoSize + n + g + j + d
    BY <1>1, <1>2, <2>2
  <2> QED
    BY <1>4, <2>1, <2>3
<1>5. CASE ~(b = x.acct /\ m = "heap")
  <2>1. ZcoCost(y, b, m) = 0 /\ ZcoCost(x, b, m) = 0
    BY <1>5 DEF ZcoCost
  <2> QED
    BY <1>5, <2>1
<1> QED
  BY <1>4, <1>5

\* The ZCO at z becomes x, which has other headers, and d more is posted.
Rehung(u, s, v, z, x, d) ==
    /\ z \in ZcoIds /\ v[z] # NoZco /\ x \in Zcos
    /\ x.acct = v[z].acct /\ x.extents = v[z].extents
    /\ d \in Int /\ CapsuleSize * Len(x.headers) + x.capsuleLength
                   = CapsuleSize * Len(v[z].headers) + v[z].capsuleLength + d
    /\ u \in Stores /\ u.liens = s.liens /\ u.refs = s.refs
    /\ \A b \in Accts, m \in Media :
          Excess(u, b, m) = Excess(s, b, m) + (IF b = x.acct /\ m = "heap" THEN d ELSE 0)
    /\ \A o \in s.objects : s.refs[o] # NoRef => o \in u.objects
    /\ HeadersOwned(Bare(u), [v EXCEPT ![z] = x])

\* A ZCO with other headers keeps a store sound if its book and owners follow.
LEMMA HeadersMoved ==
    ASSUME NEW s, NEW v, NEW L, NEW O, SoundWith(s, v, L, O),
           NEW u, NEW z, NEW x, NEW d, Rehung(u, s, v, z, x, d)
    PROVE  SoundWith(u, [v EXCEPT ![z] = x], L, O)
<1>0. /\ z \in ZcoIds /\ v[z] # NoZco /\ x \in Zcos
      /\ x.acct = v[z].acct /\ x.extents = v[z].extents
      /\ d \in Int /\ CapsuleSize * Len(x.headers) + x.capsuleLength
                     = CapsuleSize * Len(v[z].headers) + v[z].capsuleLength + d
      /\ u \in Stores /\ u.liens = s.liens /\ u.refs = s.refs
      /\ \A b \in Accts, m \in Media :
            Excess(u, b, m) = Excess(s, b, m) + (IF b = x.acct /\ m = "heap" THEN d ELSE 0)
      /\ \A o \in s.objects : s.refs[o] # NoRef => o \in u.objects
      /\ HeadersOwned(Bare(u), [v EXCEPT ![z] = x])
  BY DEF Rehung
<1> DEFINE y == v[z]
           w == [v EXCEPT ![z] = x]
<1>1. /\ s \in Stores /\ v \in ZcoTables /\ y \in Zcos /\ x.acct \in Accts
  <2>1. s \in Stores /\ v \in ZcoTables
    BY <1>0 DEF SoundWith
  <2> QED
    BY <1>0, <2>1, ZcoTyped DEF ZcoTables
<1>2. w \in ZcoTables /\ \A k \in ZcoIds : w[k] = IF k = z THEN x ELSE v[k]
  BY <1>0, <1>1 DEF ZcoTables
<1>3. x # NoZco
  BY <1>0, EntriesReal
<1> HIDE DEF w
<1>4. Paid(u, w)
  <2>1. ASSUME NEW b \in Accts, NEW m \in Media
        PROVE  Excess(u, b, m) = ZcoDue(w, b, m)
    <3>1. /\ ZcoDue(w, b, m) = ZcoDue(v, b, m) + ZcoCost(x, b, m) - ZcoCost(y, b, m)
          /\ ZcoDue(v, b, m) \in Nat
      BY <1>0, <1>1, ZcoChange DEF w
    <3>2. ZcoCost(x, b, m) = ZcoCost(y, b, m) + (IF b = x.acct /\ m = "heap" THEN d ELSE 0)
      BY <1>0, <1>1, CostFollows
    <3>3. Excess(s, b, m) = ZcoDue(v, b, m)
      BY <1>0 DEF SoundWith, Paid
    <3>4. ZcoCost(y, b, m) \in Nat
      BY <1>0, <1>1, ZcoCostType
    <3>5. Excess(u, b, m) = Excess(s, b, m) + (IF b = x.acct /\ m = "heap" THEN d ELSE 0)
      BY <1>0
    <3> HIDE DEF y
    <3> QED
      BY <1>0, <3>1, <3>2, <3>3, <3>4, <3>5
  <2> QED
    BY <1>0, <2>1 DEF Paid
<1>5. CitesCounted(u, w)
  <2>1. ASSUME NEW k \in LienIds, NEW b \in Accts
        PROVE  LienCount(u, k, b) = CitedIn(w, k, b)
    <3>1. /\ CitedIn(w, k, b) = CitedIn(v, k, b) + CitedBy(x, k, b) - CitedBy(y, k, b)
          /\ CitedIn(v, k, b) \in Nat
      BY <1>0, <1>1, CitedChange DEF w
    <3>2. CitedBy(y, k, b) = CitedBy(x, k, b)
      BY <1>0, <1>3 DEF CitedBy
    <3>3. LienCount(s, k, b) = CitedIn(v, k, b) /\ LienCount(u, k, b) = LienCount(s, k, b)
      BY <1>0 DEF SoundWith, CitesCounted, LienCount
    <3>4. CitedBy(x, k, b) \in Nat
      BY <1>0, CitedType
    <3> HIDE DEF y
    <3> QED
      BY <1>0, <3>1, <3>2, <3>3, <3>4
  <2> QED
    BY <1>0, <2>1 DEF CitesCounted
<1>6. RefsCounted(u) /\ LiensCited(u, L)
  BY <1>0 DEF SoundWith, RefsCounted, RefCount, Citing, LiensCited, LienCount
<1>7. RefsKept(u, O)
  <2>1. \A o \in Objects, b \in Accts : RefCount(u, o, b) = RefCount(s, o, b)
    BY <1>0 DEF RefCount
  <2> QED
    BY <1>0, <2>1 DEF SoundWith, RefsKept
<1>8. ExtentsInside(u, w)
  <2>1. \A k \in ZcoIds : w[k] # NoZco => v[k] # NoZco /\ w[k].extents = v[k].extents
    BY <1>0, <1>2
  <2> QED
    BY <1>0, <2>1 DEF SoundWith, ExtentsInside
<1> QED
  BY <1>0, <1>2, <1>4, <1>5, <1>6, <1>7, <1>8 DEF SoundWith, w

\* The headers of a ZCO with one more.
LEMMA HeadersLonger ==
    ASSUME NEW B \in SUBSET Objects, NEW v \in ZcoTables, HeadersOwned(B, v),
           NEW z \in ZcoIds, v[z] # NoZco, NEW o \in Objects, o \notin B, Medium[o] = "heap",
           NEW x \in Zcos, IsInjective(x.headers),
           ToSet(x.headers) = ToSet(v[z].headers) \cup {o},
           x.capsuleLength = v[z].capsuleLength + Length[o],
           x.totalLength = v[z].totalLength + Length[o]
    PROVE  HeadersOwned(B \cup {o}, [v EXCEPT ![z] = x])
<1> DEFINE w == [v EXCEPT ![z] = x]
           y == v[z]
<1>1. \A k \in ZcoIds : w[k] = IF k = z THEN x ELSE v[k]
  BY DEF ZcoTables
<1>2. x # NoZco /\ \A k \in ZcoIds : v[k] # NoZco => ToSet(v[k].headers) \subseteq B
  BY EntriesReal DEF HeadersOwned
<1>3. /\ x.capsuleLength = SumOf(Length, ToSet(x.headers))
      /\ x.capsuleLength <= x.totalLength
  <2>1. y.capsuleLength = SumOf(Length, ToSet(y.headers)) /\ y.capsuleLength <= y.totalLength
    BY DEF HeadersOwned
  <2>2. o \notin ToSet(y.headers) /\ ToSet(y.headers) \subseteq Objects
    BY <1>2
  <2>3. IsFiniteSet(ToSet(y.headers))
    BY <2>2, Addresses, FS_Subset
  <2>4. SumOf(Length, ToSet(y.headers) \cup {o}) = Length[o] + SumOf(Length, ToSet(y.headers))
    <3>1. \A p \in ToSet(y.headers) \cup {o} : Length[p] \in Nat
      BY <2>2, Sizes
    <3> HIDE DEF y
    <3> QED
      BY <2>2, <2>3, <3>1, SumMore
  <2>5. y.capsuleLength \in Nat /\ y.totalLength \in Nat /\ Length[o] \in Nat
    <3>1. y \in Zcos
      BY DEF ZcoTables
    <3> QED
      BY <3>1, Sizes DEF Zcos
  <2> HIDE DEF y
  <2>6. x.capsuleLength = y.capsuleLength + Length[o] /\ x.totalLength = y.totalLength + Length[o]
        /\ ToSet(x.headers) = ToSet(y.headers) \cup {o}
    BY DEF y
  <2>7. x.capsuleLength = SumOf(Length, ToSet(x.headers))
    <3>1. \A i, j \in Nat : i + j = j + i
      OBVIOUS
    <3> QED
      BY <2>1, <2>4, <2>5, <2>6, <3>1
  <2>8. x.capsuleLength <= x.totalLength
    <3> DEFINE i == y.capsuleLength
               j == y.totalLength
               k == Length[o]
    <3>1. i \in Nat /\ j \in Nat /\ k \in Nat /\ i <= j
      BY <2>1, <2>5
    <3>2. x.capsuleLength = i + k /\ x.totalLength = j + k
      BY <2>6
    <3> HIDE DEF i, j, k
    <3>3. i + k <= j + k
      BY <3>1
    <3> QED
      BY <3>2, <3>3
  <2> QED
    BY <2>7, <2>8
<1> HIDE DEF w
<1>4. ASSUME NEW k \in ZcoIds, w[k] # NoZco
      PROVE  /\ IsInjective(w[k].headers)
             /\ w[k].capsuleLength = SumOf(Length, ToSet(w[k].headers))
             /\ w[k].capsuleLength <= w[k].totalLength
             /\ \A p \in ToSet(w[k].headers) : p \in B \cup {o} /\ Medium[p] = "heap"
  <2>1. CASE k = z
    <3>1. w[k] = x
      BY <1>1, <2>1
    <3>2. \A p \in ToSet(x.headers) : p \in B \cup {o} /\ Medium[p] = "heap"
      BY DEF HeadersOwned
    <3> QED
      BY <1>3, <3>1, <3>2
  <2>2. CASE k # z
    BY <1>1, <1>4, <2>2 DEF HeadersOwned
  <2> QED
    BY <2>1, <2>2
<1>5. ASSUME NEW k \in ZcoIds, NEW j \in ZcoIds, w[k] # NoZco, w[j] # NoZco, k # j
      PROVE  ToSet(w[k].headers) \cap ToSet(w[j].headers) = {}
  <2>1. ASSUME NEW i \in ZcoIds, v[i] # NoZco, i # z
        PROVE  ToSet(x.headers) \cap ToSet(v[i].headers) = {}
    BY <1>2, <2>1 DEF HeadersOwned
  <2>2. CASE k = z
    BY <1>1, <1>5, <2>1, <2>2
  <2>3. CASE j = z
    BY <1>1, <1>5, <2>1, <2>3
  <2>4. CASE k # z /\ j # z
    BY <1>1, <1>5, <2>4 DEF HeadersOwned
  <2> QED
    BY <2>2, <2>3, <2>4
<1>6. ASSUME NEW p \in B \cup {o} PROVE \E k \in ZcoIds : w[k] # NoZco /\ p \in ToSet(w[k].headers)
  <2>1. CASE p = o
    BY <1>1, <1>2, <2>1
  <2>2. CASE p \in B
    <3>1. PICK k \in ZcoIds : v[k] # NoZco /\ p \in ToSet(v[k].headers)
      BY <2>2 DEF HeadersOwned
    <3>2. w[k] # NoZco /\ p \in ToSet(w[k].headers)
      BY <1>1, <1>2, <3>1
    <3> QED
      BY <3>2
  <2> QED
    BY <2>1, <2>2
<1>7. HeadersOwned(B \cup {o}, w)
  BY <1>4, <1>5, <1>6 DEF HeadersOwned
<1> QED
  BY <1>7 DEF w

\* The headers of a ZCO with one less.
LEMMA HeadersShorter ==
    ASSUME NEW B \in SUBSET Objects, NEW v \in ZcoTables, HeadersOwned(B, v),
           NEW z \in ZcoIds, v[z] # NoZco, NEW o \in Objects,
           NEW x \in Zcos, IsInjective(x.headers), o \notin ToSet(x.headers),
           ToSet(v[z].headers) = ToSet(x.headers) \cup {o},
           x.capsuleLength = v[z].capsuleLength - Length[o],
           x.totalLength = v[z].totalLength
    PROVE  HeadersOwned(B \ {o}, [v EXCEPT ![z] = x])
<1> DEFINE w == [v EXCEPT ![z] = x]
           y == v[z]
<1>1. \A k \in ZcoIds : w[k] = IF k = z THEN x ELSE v[k]
  BY DEF ZcoTables
<1>2. x # NoZco /\ \A k \in ZcoIds : v[k] # NoZco => ToSet(v[k].headers) \subseteq B
  BY EntriesReal DEF HeadersOwned
<1>3. /\ x.capsuleLength = SumOf(Length, ToSet(x.headers))
      /\ x.capsuleLength <= x.totalLength
  <2>1. y.capsuleLength = SumOf(Length, ToSet(y.headers)) /\ y.capsuleLength <= y.totalLength
    BY DEF HeadersOwned
  <2>2. ToSet(x.headers) \subseteq Objects
    BY <1>2
  <2>3. IsFiniteSet(ToSet(x.headers))
    BY <2>2, Addresses, FS_Subset
  <2>a. \A p \in ToSet(x.headers) \cup {o} : Length[p] \in Nat
    BY <2>2, Sizes
  <2>4. SumOf(Length, ToSet(x.headers) \cup {o}) = Length[o] + SumOf(Length, ToSet(x.headers))
    BY <2>2, <2>3, <2>a, SumMore
  <2>5. y.capsuleLength \in Nat /\ y.totalLength \in Nat /\ Length[o] \in Nat
        /\ SumOf(Length, ToSet(x.headers)) \in Nat
    <3>1. y \in Zcos
      BY DEF ZcoTables
    <3> QED
      BY <2>3, <2>a, <3>1, SumType, Sizes DEF Zcos
  <2> HIDE DEF y
  <2>6. x.capsuleLength = y.capsuleLength - Length[o] /\ x.totalLength = y.totalLength
        /\ ToSet(y.headers) = ToSet(x.headers) \cup {o}
    BY DEF y
  <2>7. y.capsuleLength = Length[o] + SumOf(Length, ToSet(x.headers))
    BY <2>1, <2>4, <2>6
  <2> QED
    BY <2>1, <2>5, <2>6, <2>7
<1> HIDE DEF w
<1>4. ASSUME NEW k \in ZcoIds, w[k] # NoZco
      PROVE  /\ IsInjective(w[k].headers)
             /\ w[k].capsuleLength = SumOf(Length, ToSet(w[k].headers))
             /\ w[k].capsuleLength <= w[k].totalLength
             /\ \A p \in ToSet(w[k].headers) : p \in B \ {o} /\ Medium[p] = "heap"
  <2>1. CASE k = z
    <3>1. w[k] = x
      BY <1>1, <2>1
    <3>2. \A p \in ToSet(x.headers) : p \in B \ {o} /\ Medium[p] = "heap"
      BY DEF HeadersOwned
    <3> QED
      BY <1>3, <3>1, <3>2
  <2>2. CASE k # z
    <3>1. w[k] = v[k] /\ v[k] # NoZco
      BY <1>1, <1>4, <2>2
    <3>2. o \notin ToSet(v[k].headers)
      BY <2>2, <3>1 DEF HeadersOwned
    <3> QED
      BY <3>1, <3>2 DEF HeadersOwned
  <2> QED
    BY <2>1, <2>2
<1>5. ASSUME NEW k \in ZcoIds, NEW j \in ZcoIds, w[k] # NoZco, w[j] # NoZco, k # j
      PROVE  ToSet(w[k].headers) \cap ToSet(w[j].headers) = {}
  <2>1. \A i \in ZcoIds : w[i] # NoZco => v[i] # NoZco /\ ToSet(w[i].headers) \subseteq ToSet(v[i].headers)
    BY <1>1
  <2> QED
    BY <1>5, <2>1 DEF HeadersOwned
<1>6. ASSUME NEW p \in B \ {o} PROVE \E k \in ZcoIds : w[k] # NoZco /\ p \in ToSet(w[k].headers)
  <2>1. PICK k \in ZcoIds : v[k] # NoZco /\ p \in ToSet(v[k].headers)
    BY DEF HeadersOwned
  <2>2. w[k] # NoZco /\ p \in ToSet(w[k].headers)
    BY <1>1, <1>2, <2>1
  <2> QED
    BY <2>2
<1>7. HeadersOwned(B \ {o}, w)
  BY <1>4, <1>5, <1>6 DEF HeadersOwned
<1> QED
  BY <1>7 DEF w

\* A sequence of headers with one more.
LEMMA OneMore ==
    ASSUME NEW q \in Seq(Objects), NEW o \in Objects, NEW r, r = <<o>> \o q \/ r = Append(q, o)
    PROVE  /\ r \in Seq(Objects) /\ Len(r) = Len(q) + 1
           /\ ToSet(r) = ToSet(q) \cup {o}
           /\ IsInjective(r) <=> IsInjective(q) /\ o \notin ToSet(q)
<1>1. /\ r \in Seq(Objects) /\ Len(r) = Len(q) + 1 /\ Len(q) \in Nat
      /\ DOMAIN r = 1..(Len(q) + 1) /\ DOMAIN q = 1..Len(q)
  <2>1. CASE r = <<o>> \o q
    <3>1. Len(q) \in Nat /\ 1 + Len(q) = Len(q) + 1
      OBVIOUS
    <3>2. <<o>> \in Seq(Objects) /\ Len(<<o>>) = 1
      OBVIOUS
    <3>3. r \in Seq(Objects) /\ Len(r) = 1 + Len(q)
      BY <2>1, <3>2
    <3>4. DOMAIN r = 1..Len(r) /\ DOMAIN q = 1..Len(q)
      BY <3>3
    <3> QED
      BY <3>1, <3>3, <3>4
  <2>2. CASE r = Append(q, o)
    <3>1. r \in Seq(Objects) /\ Len(r) = Len(q) + 1
      BY <2>2
    <3> QED
      BY <3>1
  <2> QED
    BY <2>1, <2>2
<1> DEFINE n == Len(q)
           d == IF r = <<o>> \o q THEN 1 ELSE 0
           k == IF r = <<o>> \o q THEN 1 ELSE n + 1
<1>2. d \in {0, 1} /\ (d = 1 => k = 1) /\ (d = 0 => k = n + 1) /\ k \in 1..(n + 1)
  BY <1>1
<1>3. r[k] = o /\ \A i \in 1..n : r[i + d] = q[i]
  <2>1. CASE r = <<o>> \o q
    BY <1>1, <2>1
  <2>2. CASE r # <<o>> \o q
    <3>1. r = Append(q, o)
      BY <2>2
    <3>2. \A i \in 1..n : i + 0 = i
      BY <1>1
    <3> QED
      BY <1>1, <2>2, <3>1, <3>2
  <2> QED
    BY <2>1, <2>2
<1> HIDE DEF d, k
<1>4. /\ \A i \in 1..n : i + d \in 1..(n + 1) /\ i + d # k
      /\ \A j \in 1..(n + 1) : j # k => \E i \in 1..n : j = i + d
  <2>0. n \in Nat
    BY <1>1
  <2> HIDE DEF n
  <2>1. CASE d = 0
    <3>1. ASSUME NEW j \in 1..(n + 1), j # k PROVE j \in 1..n /\ j = j + d
      BY <1>2, <2>0, <2>1, <3>1
    <3> QED
      BY <1>2, <2>0, <2>1, <3>1
  <2>2. CASE d = 1
    <3>1. ASSUME NEW j \in 1..(n + 1), j # k PROVE j - 1 \in 1..n /\ j = (j - 1) + d
      BY <1>2, <2>0, <2>2, <3>1
    <3> QED
      BY <1>2, <2>0, <2>2, <3>1
  <2> QED
    BY <1>2, <2>1, <2>2
<1>5. ToSet(r) = ToSet(q) \cup {o}
  <2>1. ASSUME NEW p \in ToSet(r) PROVE p \in ToSet(q) \cup {o}
    <3>1. PICK j \in 1..(n + 1) : p = r[j]
      BY <1>1 DEF ToSet
    <3> QED
      BY <1>1, <1>3, <1>4, <3>1 DEF ToSet
  <2>2. ASSUME NEW p \in ToSet(q) \cup {o} PROVE p \in ToSet(r)
    <3>1. CASE p = o
      BY <1>1, <1>2, <1>3, <3>1 DEF ToSet
    <3>2. CASE p # o
      <4>1. PICK i \in 1..n : p = q[i]
        BY <1>1, <3>2 DEF ToSet
      <4> QED
        BY <1>1, <1>3, <1>4, <4>1 DEF ToSet
    <3> QED
      BY <3>1, <3>2
  <2> QED
    BY <2>1, <2>2
<1>6. ASSUME IsInjective(r) PROVE IsInjective(q) /\ o \notin ToSet(q)
  <2>0. \A i, j \in 1..(n + 1) : r[i] = r[j] => i = j
    BY <1>1, <1>6 DEF IsInjective
  <2>1. ASSUME NEW i \in 1..n, NEW j \in 1..n, q[i] = q[j] PROVE i = j
    <3>1. i + d = j + d
      BY <1>3, <1>4, <2>0, <2>1
    <3>2. i \in Int /\ j \in Int /\ d \in Int
      BY <1>1, <1>2
    <3> QED
      BY <3>1, <3>2
  <2>2. ASSUME NEW i \in 1..n PROVE q[i] # o
    BY <1>2, <1>3, <1>4, <2>0
  <2> QED
    BY <1>1, <2>1, <2>2 DEF IsInjective, ToSet
<1>7. ASSUME IsInjective(q), o \notin ToSet(q) PROVE IsInjective(r)
  <2>0. /\ \A i, j \in 1..n : q[i] = q[j] => i = j
        /\ \A i \in 1..n : q[i] # o
    BY <1>1, <1>7 DEF IsInjective, ToSet
  <2>1. ASSUME NEW i \in 1..(n + 1), NEW j \in 1..(n + 1), r[i] = r[j] PROVE i = j
    <3>a. \A p \in 1..(n + 1) : p # k => r[p] # o
      <4>1. SUFFICES ASSUME NEW p \in 1..(n + 1), p # k PROVE r[p] # o
        OBVIOUS
      <4>2. PICK j0 \in 1..n : p = j0 + d
        BY <1>4, <4>1
      <4>3. r[p] = q[j0]
        BY <1>3, <4>2
      <4> QED
        BY <2>0, <4>3
    <3>1. CASE i = k \/ j = k
      BY <1>3, <2>1, <3>a, <3>1
    <3>2. CASE i # k /\ j # k
      BY <1>3, <1>4, <2>0, <2>1, <3>2
    <3> QED
      BY <3>1, <3>2
  <2> QED
    BY <1>1, <2>1 DEF IsInjective
<1> QED
  BY <1>1, <1>5, <1>6, <1>7

\* A ZCO loses its first header, and the object goes with it.
LEMMA HeaderCut ==
    ASSUME NEW s, NEW v, SoundWith(s, v, {}, {}), NEW z \in ZcoIds, v[z] # NoZco,
           NEW x \in Zcos, NEW o \in Objects, v[z].headers = <<o>> \o x.headers,
           x.acct = v[z].acct, x.extents = v[z].extents,
           x.capsuleLength = v[z].capsuleLength - Length[o], x.totalLength = v[z].totalLength
    PROVE  CutOff(DestroyHeader(s, x.acct, o), s, v, z, x)
<1> DEFINE y == v[z]
           a == x.acct
           t == WithObjects(s, s.objects \ {o})
           n == Length[o] + CapsuleSize
           d == -n
           u == DestroyHeader(s, a, o)
           w == [v EXCEPT ![z] = x]
<1>1. /\ s \in Stores /\ v \in ZcoTables /\ y \in Zcos /\ a \in Accts /\ n \in Nat
      /\ s.objects \in SUBSET Objects /\ "heap" \in Media
  <2>1. s \in Stores /\ v \in ZcoTables
    BY DEF SoundWith
  <2>2. Length[o] \in Nat /\ CapsuleSize \in Nat
    BY Sizes
  <2> QED
    BY <2>1, <2>2, ZcoTyped DEF ZcoTables, Stores, Media
<1>2. /\ x.headers \in Seq(Objects) /\ IsInjective(x.headers) /\ o \notin ToSet(x.headers)
      /\ ToSet(y.headers) = ToSet(x.headers) \cup {o} /\ Len(y.headers) = Len(x.headers) + 1
  <2>1. IsInjective(y.headers)
    BY DEF SoundWith, HeadersOwned
  <2>2. x.headers \in Seq(Objects)
    BY ZcoTyped
  <2> DEFINE r == y.headers
             q == x.headers
  <2>3. r = <<o>> \o q \/ r = Append(q, o)
    OBVIOUS
  <2>4. IsInjective(r) /\ q \in Seq(Objects)
    BY <2>1, <2>2
  <2> HIDE DEF r, q
  <2>5. /\ Len(r) = Len(q) + 1 /\ ToSet(r) = ToSet(q) \cup {o}
        /\ IsInjective(q) /\ o \notin ToSet(q)
    BY <2>3, <2>4, OneMore
  <2> QED
    BY <2>4, <2>5 DEF r, q
<1>3. o \in Bare(s)
  BY <1>2 DEF SoundWith, HeadersOwned
<1>4. u = Reduce(t, a, "heap", n)
  BY DEF DestroyHeader, WithObjects
<1>5. /\ t \in Stores /\ t.zcos = s.zcos /\ t.liens = s.liens /\ t.refs = s.refs
      /\ t.objects = s.objects \ {o} /\ SameExcess(t, s)
  BY <1>1, ObjectsReplaced
<1> HIDE DEF u, t, n
<1>6. Posted(u, t, a, "heap", -n)
  BY <1>1, <1>4, <1>5, BookPosted
<1>7. /\ u \in Stores /\ u.zcos = s.zcos /\ u.liens = s.liens /\ u.refs = s.refs
      /\ u.objects = s.objects \ {o}
      /\ \A b \in Accts, m \in Media :
            Excess(u, b, m) = Excess(s, b, m) + (IF b = a /\ m = "heap" THEN d ELSE 0)
  BY <1>5, <1>6 DEF Posted, SameExcess
<1>8. Bare(u) = Bare(s) \ {o}
  BY <1>7 DEF Bare
<1>9. HeadersOwned(Bare(u), w)
  <2>1. Bare(s) \in SUBSET Objects /\ HeadersOwned(Bare(s), v)
    BY <1>1 DEF Bare, SoundWith
  <2>2. v[z] # NoZco /\ x.capsuleLength = v[z].capsuleLength - Length[o]
        /\ x.totalLength = v[z].totalLength
    OBVIOUS
  <2>3. HeadersOwned(Bare(s) \ {o}, w)
    BY <1>1, <1>2, <2>1, <2>2, HeadersShorter
  <2> QED
    BY <1>8, <2>3
<1>10. d \in Int
  BY <1>1
<1>11. CapsuleSize * Len(x.headers) + x.capsuleLength
         = CapsuleSize * Len(y.headers) + y.capsuleLength + d
  <2> DEFINE h == CapsuleSize * Len(x.headers)
             k == Length[o]
             c == y.capsuleLength
  <2>1. /\ Len(x.headers) \in Nat /\ CapsuleSize \in Nat /\ k \in Nat /\ c \in Nat
    BY <1>1, <1>2, ZcoTyped, Sizes
  <2>2. \A p, q \in Nat : p * q \in Nat /\ p * (q + 1) = p * q + p
    OBVIOUS
  <2>3. h \in Nat /\ CapsuleSize * Len(y.headers) = h + CapsuleSize
    BY <1>2, <2>1, <2>2
  <2>4. x.capsuleLength = c - k
    OBVIOUS
  <2> HIDE DEF h, k, c
  <2>5. h + (c - k) = (h + CapsuleSize) + c + (-(k + CapsuleSize))
    BY <2>1, <2>3
  <2> QED
    BY <2>3, <2>4, <2>5 DEF h, k, c, n
<1> HIDE DEF d
<1>12. \A p \in s.objects : s.refs[p] # NoRef => p \in u.objects
  BY <1>3, <1>7 DEF Bare
<1>13. SoundWith(u, w, {}, {})
  <2>1. Rehung(u, s, v, z, x, d)
    BY <1>7, <1>9, <1>10, <1>11, <1>12 DEF Rehung
  <2> QED
    BY <2>1, HeadersMoved
<1> QED
  BY <1>7, <1>13 DEF CutOff, u, w, a

\* A ZCO of which nothing is left goes.
LEMMA ZcoGone ==
    ASSUME NEW s, NEW v, SoundWith(s, v, {}, {}), NEW z \in ZcoIds, v[z] # NoZco,
           v[z].extents = <<>>, v[z].headers = <<>>, \A k \in ZcoIds \ {z} : v[k] = s.zcos[k]
    PROVE  Sound(Reduce([s EXCEPT !.zcos[z] = NoZco], v[z].acct, "heap", ZcoSize))
<1> DEFINE y == v[z]
           a == y.acct
           t == WithZco(s, z, NoZco)
           u == Reduce([s EXCEPT !.zcos[z] = NoZco], a, "heap", ZcoSize)
           w == [v EXCEPT ![z] = NoZco]
<1>1. /\ s \in Stores /\ v \in ZcoTables /\ y \in Zcos /\ a \in Accts /\ "heap" \in Media
      /\ ZcoSize \in Nat
  <2>1. s \in Stores /\ v \in ZcoTables
    BY DEF SoundWith
  <2>2. y \in Zcos
    BY <2>1 DEF ZcoTables
  <2> QED
    BY <2>1, <2>2, ZcoTyped, Sizes DEF Media
<1>2. w \in ZcoTables /\ \A k \in ZcoIds : w[k] = IF k = z THEN NoZco ELSE v[k]
  BY <1>1 DEF ZcoTables
<1>3. /\ t \in Stores /\ t.zcos = [s.zcos EXCEPT ![z] = NoZco] /\ t.liens = s.liens
      /\ t.refs = s.refs /\ t.objects = s.objects /\ SameExcess(t, s)
  BY <1>1, ZcoReplaced
<1>4. u = Reduce(t, a, "heap", ZcoSize)
  BY DEF WithZco
<1>5. [s.zcos EXCEPT ![z] = NoZco] = w
  <2>1. s.zcos \in [ZcoIds -> Zcos \cup {NoZco}]
    BY <1>1 DEF Stores
  <2>2. v \in [ZcoIds -> Zcos \cup {NoZco}]
    BY <1>1 DEF ZcoTables
  <2> QED
    BY <2>1, <2>2
<1> HIDE DEF u, t, w
<1>6. Posted(u, t, a, "heap", -ZcoSize)
  BY <1>1, <1>3, <1>4, BookPosted
<1>7. /\ u \in Stores /\ u.zcos = w /\ u.liens = s.liens /\ u.refs = s.refs
      /\ u.objects = s.objects
      /\ \A b \in Accts, m \in Media :
            Excess(u, b, m) = Excess(s, b, m) + (IF b = a /\ m = "heap" THEN -ZcoSize ELSE 0)
  BY <1>3, <1>5, <1>6 DEF Posted, SameExcess
<1>8. Len(y.extents) = 0 /\ Len(y.headers) = 0 /\ y.capsuleLength = 0 /\ ToSet(y.headers) = {}
  <2>1. y.capsuleLength = SumOf(Length, ToSet(y.headers))
    BY DEF SoundWith, HeadersOwned
  <2>2. ToSet(y.headers) = {}
    BY DEF ToSet
  <2> QED
    BY <2>1, <2>2, SumEmpty
<1>9. Paid(u, w)
  <2>1. ASSUME NEW b \in Accts, NEW m \in Media
        PROVE  Excess(u, b, m) = ZcoDue(w, b, m)
    <3>1. /\ ZcoDue(w, b, m) = ZcoDue(v, b, m) + ZcoCost(NoZco, b, m) - ZcoCost(y, b, m)
          /\ ZcoDue(v, b, m) \in Nat
      <4>1. NoZco \in Zcos \cup {NoZco}
        OBVIOUS
      <4> HIDE DEF y
      <4> QED
        BY <1>1, <4>1, ZcoChange DEF w, y
    <3>2. /\ ZcoCost(NoZco, b, m) = 0
          /\ ZcoCost(y, b, m) = IF b = a /\ m = "heap" THEN ZcoSize ELSE 0
      <4>1. ZcoSize + ExtentSize * 0 + CapsuleSize * 0 + 0 = ZcoSize
        BY Sizes
      <4> QED
        BY <1>8, <4>1 DEF ZcoCost
    <3>3. Excess(s, b, m) = ZcoDue(v, b, m)
      BY DEF SoundWith, Paid
    <3>5. Excess(u, b, m) = Excess(s, b, m) + (IF b = a /\ m = "heap" THEN -ZcoSize ELSE 0)
      BY <1>7
    <3> HIDE DEF y, a
    <3> QED
      BY <1>1, <3>1, <3>2, <3>3, <3>5
  <2> QED
    BY <2>1 DEF Paid
<1>10. CitesCounted(u, w)
  <2>1. ASSUME NEW k \in LienIds, NEW b \in Accts
        PROVE  LienCount(u, k, b) = CitedIn(w, k, b)
    <3>1. /\ CitedIn(w, k, b) = CitedIn(v, k, b) + CitedBy(NoZco, k, b) - CitedBy(y, k, b)
          /\ CitedIn(v, k, b) \in Nat
      BY <1>1, CitedChange DEF w
    <3>2. CitedBy(y, k, b) = 0 /\ CitedBy(NoZco, k, b) = 0
      BY OccEmpty DEF CitedBy
    <3>3. LienCount(s, k, b) = CitedIn(v, k, b) /\ LienCount(u, k, b) = LienCount(s, k, b)
      BY <1>7 DEF SoundWith, CitesCounted, LienCount
    <3> HIDE DEF y
    <3> QED
      BY <3>1, <3>2, <3>3
  <2> QED
    BY <2>1 DEF CitesCounted
<1>11. RefsCounted(u) /\ LiensCited(u, {})
  BY <1>7 DEF SoundWith, RefsCounted, RefCount, Citing, LiensCited, LienCount
<1>12. RefsKept(u, {})
  <2>1. \A o \in Objects, b \in Accts : RefCount(u, o, b) = RefCount(s, o, b)
    BY <1>7 DEF RefCount
  <2> QED
    BY <1>7, <2>1 DEF SoundWith, RefsKept
<1>13. ExtentsInside(u, w)
  <2>1. \A k \in ZcoIds : w[k] # NoZco => v[k] # NoZco /\ w[k] = v[k]
    BY <1>2
  <2> QED
    BY <1>7, <2>1 DEF SoundWith, ExtentsInside
<1>14. HeadersOwned(Bare(u), w)
  <2>1. Bare(u) = Bare(s) /\ HeadersOwned(Bare(s), v)
    BY <1>7 DEF Bare, SoundWith
  <2>2. \A k \in ZcoIds : w[k] # NoZco => v[k] # NoZco /\ w[k] = v[k]
    BY <1>2
  <2>3. ASSUME NEW o \in Bare(s)
        PROVE  \E k \in ZcoIds : w[k] # NoZco /\ o \in ToSet(w[k].headers)
    <3>1. PICK k \in ZcoIds : v[k] # NoZco /\ o \in ToSet(v[k].headers)
      BY <2>1 DEF HeadersOwned
    <3> QED
      BY <1>2, <1>8, <3>1
  <2> QED
    BY <2>1, <2>2, <2>3 DEF HeadersOwned
<1>15. SoundWith(u, w, {}, {})
  BY <1>2, <1>7, <1>9, <1>10, <1>11, <1>12, <1>13, <1>14 DEF SoundWith
<1> QED
  BY <1>7, <1>15 DEF Sound, u

\* The bytes of an extent are there.
Backed(s, e, a) ==
    /\ e \in ZcoExtents /\ e.lien \in LienIds /\ s.liens[e.lien] # NoLien
    /\ s.liens[e.lien].ref \in Objects /\ s.refs[s.liens[e.lien].ref] # NoRef
    /\ RefCount(s, s.liens[e.lien].ref, a) > 0
    /\ e.offset + e.length <= Length[s.liens[e.lien].ref]

\* In a sound store the lien of an extent stands, and so does its reference.
LEMMA ExtentsBacked ==
    ASSUME NEW s, NEW v, NEW L, NEW O, SoundWith(s, v, L, O), NEW z \in ZcoIds, v[z] # NoZco,
           NEW i \in DOMAIN v[z].extents
    PROVE  Backed(s, v[z].extents[i], v[z].acct)
<1> DEFINE e == v[z].extents[i]
           a == v[z].acct
<1>1. s \in Stores /\ RefsCounted(s) /\ v \in ZcoTables
  BY DEF SoundWith
<1>2. v[z] \in Zcos
  BY <1>1 DEF ZcoTables
<1>3. e \in ZcoExtents /\ a \in Accts
  BY <1>2, ZcoTyped
<1>4. e.lien \in LienIds
  BY <1>3 DEF ZcoExtents
<1>5. CitedIn(v, e.lien, a) > 0
  BY <1>1, CitedFound
<1>6. LienCount(s, e.lien, a) > 0
  BY <1>3, <1>4, <1>5 DEF SoundWith, CitesCounted
<1>7. e.offset + e.length <= Length[s.liens[e.lien].ref]
  BY DEF SoundWith, ExtentsInside
<1> HIDE DEF e, a
<1>8. /\ s.liens[e.lien] # NoLien /\ s.liens[e.lien].ref \in Objects
      /\ s.refs[s.liens[e.lien].ref] # NoRef /\ RefCount(s, s.liens[e.lien].ref, a) > 0
  BY <1>1, <1>3, <1>4, <1>6, RefHeld
<1> QED
  BY <1>3, <1>4, <1>7, <1>8 DEF Backed, e, a

\* What does not concern the ZCOs keeps a store sound.
StaysCited(u, s) ==
    /\ u \in Stores /\ u.zcos = s.zcos /\ SameExcess(u, s)
    /\ \A l \in LienIds, a \in Accts : LienCount(u, l, a) = LienCount(s, l, a)
    /\ \A l \in LienIds : s.liens[l] # NoLien => u.liens[l].ref = s.liens[l].ref
    /\ Bare(u) = Bare(s)

\* A store that only counts otherwise what it cites as often stays sound.
LEMMA StaysSound ==
    ASSUME NEW s, NEW L, NEW O, SoundWith(s, s.zcos, L, O), NEW u, StaysCited(u, s),
           NEW M, NEW P, RefsCounted(u), LiensCited(u, M), RefsKept(u, P)
    PROVE  SoundWith(u, u.zcos, M, P)
<1>1. u.zcos = s.zcos /\ u \in Stores /\ s.zcos \in ZcoTables
  BY DEF StaysCited, SoundWith
<1>2. Paid(u, u.zcos) /\ CitesCounted(u, u.zcos)
  BY <1>1 DEF StaysCited, SameExcess, SoundWith, Paid, CitesCounted
<1>3. ExtentsInside(u, u.zcos)
  <2>1. ASSUME NEW z \in ZcoIds, s.zcos[z] # NoZco, NEW i \in DOMAIN s.zcos[z].extents
        PROVE  s.zcos[z].extents[i].offset + s.zcos[z].extents[i].length
                 <= Length[u.liens[s.zcos[z].extents[i].lien].ref]
    BY <2>1, ExtentsBacked DEF Backed, StaysCited
  <2> QED
    BY <1>1, <2>1 DEF ExtentsInside
<1>4. HeadersOwned(Bare(u), u.zcos)
  BY <1>1 DEF StaysCited, SoundWith
<1> QED
  BY <1>1, <1>2, <1>3, <1>4 DEF SoundWith

\* A reference on an object that has just been made.
RefMade(u, s, o) ==
    /\ u.zcos = s.zcos /\ u.liens = s.liens /\ u.refs[o] # NoRef
    /\ \A k \in Objects : s.refs[k] # NoRef => u.refs[k] # NoRef

\* A reference object to an object just made.
LEMMA RefCreated ==
    ASSUME NEW s, Sound(s), NEW o \in Objects, o \notin s.objects, NEW okay \in BOOLEAN,
           NEW O, okay => o \in O
    PROVE  LET u == [s EXCEPT !.objects = @ \cup {o}, !.refs[o] = NewRef(okay)]
           IN  SoundWith(u, u.zcos, {}, O) /\ RefMade(u, s, o)
<1> DEFINE x == NewRef(okay)
           t == WithObjects(s, s.objects \cup {o})
           u == [s EXCEPT !.objects = @ \cup {o}, !.refs[o] = x]
<1>1. s \in Stores /\ RefsCounted(s) /\ SoundWith(s, s.zcos, {}, {})
  BY DEF Sound, SoundWith
<1>2. s.refs[o] = NoRef
  BY DEF Sound, SoundWith, RefsKept
<1>3. x \in Refs /\ x # NoRef /\ x.okayToDestroy = okay /\ \A a \in Accts : x.count[a] = 0
  <2>1. x \in Refs /\ x.okayToDestroy = okay /\ \A a \in Accts : x.count[a] = 0
    BY DEF NewRef, Refs, Counts, NoCitation
  <2> QED
    BY <2>1, EntriesReal
<1>4. /\ t \in Stores /\ t.zcos = s.zcos /\ t.liens = s.liens /\ t.refs = s.refs
      /\ t.objects = s.objects \cup {o} /\ SameExcess(t, s)
  <2>1. s.objects \cup {o} \in SUBSET Objects
    BY <1>1 DEF Stores
  <2> QED
    BY <1>1, <2>1, ObjectsReplaced
<1>5. u = WithRef(t, o, x)
  BY DEF WithRef, WithObjects
<1> HIDE DEF u, t, x
<1>6. /\ u \in Stores /\ u.zcos = s.zcos /\ u.liens = s.liens /\ u.objects = s.objects \cup {o}
      /\ u.refs = [s.refs EXCEPT ![o] = x]
      /\ \A a \in Accts, m \in Media :
            Excess(u, a, m) = Excess(t, a, m) + RefCost(o, NoRef, a, m) - RefCost(o, x, a, m)
  BY <1>2, <1>3, <1>4, <1>5, RefReplaced
<1>7. SameExcess(u, s)
  <2>1. ASSUME NEW a \in Accts, NEW m \in Media
        PROVE  Excess(u, a, m) = Excess(s, a, m)
    <3>1. RefCost(o, NoRef, a, m) = 0 /\ RefCost(o, x, a, m) = 0
      BY <1>3 DEF RefCost
    <3>2. Excess(t, a, m) = Excess(s, a, m) /\ Excess(s, a, m) \in Int
      BY <1>1, <1>4, CostTypes DEF SameExcess
    <3> QED
      BY <1>6, <3>1, <3>2
  <2> QED
    BY <2>1 DEF SameExcess
<1>8. \A k \in Objects : u.refs[k] = IF k = o THEN x ELSE s.refs[k]
  BY <1>1, <1>6 DEF Stores
<1>9. RefsCounted(u)
  <2>1. \A k \in Objects, a \in Accts : Citing(u, k, a) = Citing(s, k, a)
    BY <1>6 DEF Citing
  <2>2. \A k \in Objects, a \in Accts : RefCount(u, k, a) = RefCount(s, k, a)
    BY <1>2, <1>3, <1>8 DEF RefCount
  <2> QED
    BY <1>1, <2>1, <2>2 DEF RefsCounted
<1>10. LiensCited(u, {})
  BY <1>1, <1>6 DEF SoundWith, LiensCited, LienCount
<1>11. RefsKept(u, O)
  <2>1. ASSUME NEW k \in Objects, u.refs[k] # NoRef
        PROVE  /\ k \in u.objects
               /\ u.refs[k].okayToDestroy /\ k \notin O => \E a \in Accts : RefCount(u, k, a) > 0
    <3>1. CASE k = o
      BY <1>3, <1>6, <1>8, <3>1
    <3>2. CASE k # o
      <4>1. u.refs[k] = s.refs[k] /\ \A a \in Accts : RefCount(u, k, a) = RefCount(s, k, a)
        BY <1>8, <3>2 DEF RefCount
      <4> QED
        BY <1>1, <1>6, <2>1, <4>1 DEF SoundWith, RefsKept
    <3> QED
      BY <3>1, <3>2
  <2> QED
    BY <2>1 DEF RefsKept
<1>12. Bare(u) = Bare(s)
  <2>1. s.objects \subseteq Objects
    BY <1>1 DEF Stores
  <2> QED
    BY <1>3, <1>6, <1>8, <2>1 DEF Bare
<1>13. StaysCited(u, s)
  BY <1>6, <1>7, <1>12 DEF StaysCited, LienCount
<1>14. SoundWith(u, u.zcos, {}, O)
  BY <1>1, <1>9, <1>10, <1>11, <1>13, StaysSound
<1>15. RefMade(u, s, o)
  BY <1>3, <1>6, <1>8 DEF RefMade
<1> QED
  BY <1>14, <1>15 DEF u, x

\* The maker of a reference destroys it.
LEMMA RefEnded ==
    ASSUME NEW s, Sound(s), NEW o \in Objects, s.refs[o] # NoRef, ~s.refs[o].okayToDestroy
    PROVE  Sound(IF s.refs[o].count = NoCitation THEN DropRef(s, o)
                 ELSE [s EXCEPT !.refs[o].okayToDestroy = TRUE])
<1> DEFINE x == s.refs[o]
           y == [x EXCEPT !.okayToDestroy = TRUE]
           u == IF x.count = NoCitation THEN DropRef(s, o)
                ELSE [s EXCEPT !.refs[o].okayToDestroy = TRUE]
<1>1. s \in Stores /\ RefsCounted(s) /\ SoundWith(s, s.zcos, {}, {})
  BY DEF Sound, SoundWith
<1>2. x \in Refs /\ x.count \in Counts
  BY <1>1, CountsTyped
<1>3. CASE x.count = NoCitation
  <2>1. u = DropRef(s, o)
    BY <1>3
  <2> HIDE DEF u
  <2>2. RefDropped(u, s, o)
    BY <1>1, <1>3, <2>1, DropRefDone
  <2>3. /\ u \in Stores /\ u.zcos = s.zcos /\ u.liens = s.liens /\ u.objects = s.objects \ {o}
        /\ SameExcess(u, s) /\ \A k \in Objects : u.refs[k] = IF k = o THEN NoRef ELSE s.refs[k]
    <3>1. s.refs \in [Objects -> Refs \cup {NoRef}]
      BY <1>1 DEF Stores
    <3> QED
      BY <2>2, <3>1 DEF RefDropped
  <2>4. \A a \in Accts : RefCount(s, o, a) = 0
    BY <1>2, <1>3, NothingCited DEF RefCount
  <2>5. RefsCounted(u)
    <3>1. \A k \in Objects, a \in Accts : Citing(u, k, a) = Citing(s, k, a)
      BY <2>3 DEF Citing
    <3>2. \A k \in Objects, a \in Accts : RefCount(u, k, a) = RefCount(s, k, a)
      BY <2>3, <2>4 DEF RefCount
    <3> QED
      BY <1>1, <3>1, <3>2 DEF RefsCounted
  <2>6. LiensCited(u, {})
    BY <1>1, <2>3 DEF SoundWith, LiensCited, LienCount
  <2>7. RefsKept(u, {})
    <3>1. \A k \in Objects : u.refs[k] # NoRef => k # o /\ s.refs[k] # NoRef /\ u.refs[k] = s.refs[k]
      BY <2>3
    <3>2. \A k \in Objects, a \in Accts : u.refs[k] # NoRef => RefCount(u, k, a) = RefCount(s, k, a)
      BY <3>1 DEF RefCount
    <3> QED
      BY <1>1, <2>3, <3>1, <3>2 DEF SoundWith, RefsKept
  <2>8. Bare(u) = Bare(s)
    <3>1. s.objects \subseteq Objects
      BY <1>1 DEF Stores
    <3> QED
      BY <2>3, <3>1 DEF Bare
  <2>9. StaysCited(u, s)
    BY <2>3, <2>8 DEF StaysCited, LienCount
  <2>10. SoundWith(u, u.zcos, {}, {})
    BY <1>1, <2>5, <2>6, <2>7, <2>9, StaysSound
  <2> QED
    BY <2>10 DEF Sound, u
<1>4. CASE x.count # NoCitation
  <2>1. u = WithRef(s, o, y)
    BY <1>4 DEF WithRef
  <2>2. y \in Refs /\ y.okayToDestroy /\ y.count = x.count /\ y # NoRef
    <3>1. y \in Refs /\ y.okayToDestroy /\ y.count = x.count
      BY <1>2 DEF Refs
    <3> QED
      BY <3>1, EntriesReal
  <2> HIDE DEF u, y
  <2>3. /\ u \in Stores /\ u.zcos = s.zcos /\ u.liens = s.liens /\ u.objects = s.objects
        /\ u.refs = [s.refs EXCEPT ![o] = y]
        /\ \A a \in Accts, m \in Media :
              Excess(u, a, m) = Excess(s, a, m) + RefCost(o, x, a, m) - RefCost(o, y, a, m)
    BY <1>1, <2>1, <2>2, RefReplaced
  <2>4. SameExcess(u, s)
    <3>1. ASSUME NEW a \in Accts, NEW m \in Media
          PROVE  Excess(u, a, m) = Excess(s, a, m)
      <4>1. RefCost(o, x, a, m) = RefCost(o, y, a, m) /\ RefCost(o, y, a, m) \in Int
        BY <2>2, Sizes DEF RefCost
      <4>2. Excess(s, a, m) \in Int
        BY <1>1, CostTypes
      <4> HIDE DEF x
      <4> QED
        BY <2>3, <4>1, <4>2
    <3> QED
      BY <3>1 DEF SameExcess
  <2>5. \A k \in Objects : u.refs[k] = IF k = o THEN y ELSE s.refs[k]
    BY <1>1, <2>3 DEF Stores
  <2>6. \A k \in Objects, a \in Accts : RefCount(u, k, a) = RefCount(s, k, a)
    BY <2>2, <2>5 DEF RefCount
  <2>7. RefsCounted(u) /\ LiensCited(u, {})
    BY <1>1, <2>3, <2>6 DEF SoundWith, RefsCounted, Citing, LiensCited, LienCount
  <2>8. \E a \in Accts : RefCount(s, o, a) > 0
    <3>1. PICK a \in Accts : x.count[a] # 0
      BY <1>2, <1>4, NothingCited
    <3>2. x.count[a] > 0
      BY <1>2, <3>1 DEF Counts
    <3> QED
      BY <3>2 DEF RefCount
  <2>9. RefsKept(u, {})
    <3>1. ASSUME NEW k \in Objects, u.refs[k] # NoRef
          PROVE  /\ k \in u.objects
                 /\ u.refs[k].okayToDestroy => \E a \in Accts : RefCount(u, k, a) > 0
      <4>1. s.refs[k] # NoRef /\ (k # o => u.refs[k] = s.refs[k])
        BY <2>5, <3>1
      <4> QED
        BY <1>1, <2>3, <2>6, <2>8, <4>1 DEF SoundWith, RefsKept
    <3> QED
      BY <3>1 DEF RefsKept
  <2>10. Bare(u) = Bare(s)
    <3>1. s.objects \subseteq Objects
      BY <1>1 DEF Stores
    <3> QED
      BY <2>2, <2>3, <2>5, <3>1 DEF Bare
  <2>11. StaysCited(u, s)
    BY <2>3, <2>4, <2>10 DEF StaysCited, LienCount
  <2>12. SoundWith(u, u.zcos, {}, {})
    BY <1>1, <2>7, <2>9, <2>11, StaysSound
  <2> QED
    BY <2>12 DEF Sound, u
<1> QED
  BY <1>3, <1>4

\* A lien that nothing cites yet.
NewLien(o, n) == [is |-> "lien", ref |-> o, length |-> n, count |-> NoCitation]

LienPlaced(u, s, l, O) ==
    /\ SoundWith(u, u.zcos, {l}, O) /\ u.zcos = s.zcos /\ u.refs = s.refs

\* A lien that nothing cites yet.
LEMMA LienCreated ==
    ASSUME NEW s, NEW O, SoundWith(s, s.zcos, {}, O), NEW l \in LienIds, s.liens[l] = NoLien,
           NEW o \in Objects, NEW n \in Nat
    PROVE  LET u == WithLien(s, l, NewLien(o, n))
           IN  LienPlaced(u, s, l, O) /\ u.liens[l] # NoLien /\ u.liens[l].ref = o
<1> DEFINE x == NewLien(o, n)
           u == WithLien(s, l, x)
<1>1. s \in Stores /\ RefsCounted(s)
  BY DEF SoundWith
<1>2. x \in Liens /\ x # NoLien /\ x.ref = o /\ \A a \in Accts : x.count[a] = 0
  <2>1. x \in Liens /\ x.ref = o /\ \A a \in Accts : x.count[a] = 0
    BY DEF NewLien, Liens, Counts, NoCitation
  <2> QED
    BY <2>1, EntriesReal
<1> HIDE DEF x
<1>3. /\ u \in Stores /\ u.zcos = s.zcos /\ u.refs = s.refs /\ u.objects = s.objects
      /\ u.liens = [s.liens EXCEPT ![l] = x]
      /\ \A a \in Accts, m \in Media :
            Excess(u, a, m) = Excess(s, a, m) + LienCost(NoLien, a, m) - LienCost(x, a, m)
  BY <1>1, <1>2, LienReplaced
<1> HIDE DEF u
<1>4. SameExcess(u, s)
  <2>1. ASSUME NEW a \in Accts, NEW m \in Media
        PROVE  Excess(u, a, m) = Excess(s, a, m)
    <3>1. LienCost(NoLien, a, m) = 0 /\ LienCost(x, a, m) = 0
      BY <1>2 DEF LienCost
    <3>2. Excess(s, a, m) \in Int
      BY <1>1, CostTypes
    <3> QED
      BY <1>3, <3>1, <3>2
  <2> QED
    BY <2>1 DEF SameExcess
<1>5. \A k \in LienIds : u.liens[k] = IF k = l THEN x ELSE s.liens[k]
  BY <1>1, <1>3 DEF Stores
<1>6. \A k \in LienIds, a \in Accts : LienCount(u, k, a) = LienCount(s, k, a)
  BY <1>2, <1>5 DEF LienCount
<1>7. RefsCounted(u)
  <2>1. \A k \in Objects, a \in Accts : Citing(u, k, a) = Citing(s, k, a)
    BY <1>2, <1>5 DEF Citing
  <2>2. \A k \in Objects, a \in Accts : RefCount(u, k, a) = RefCount(s, k, a)
    BY <1>3 DEF RefCount
  <2> QED
    BY <1>1, <2>1, <2>2 DEF RefsCounted
<1>8. LiensCited(u, {l})
  BY <1>5, <1>6 DEF SoundWith, LiensCited
<1>9. RefsKept(u, O)
  <2>1. \A k \in Objects, a \in Accts : RefCount(u, k, a) = RefCount(s, k, a)
    BY <1>3 DEF RefCount
  <2> QED
    BY <1>3, <2>1 DEF SoundWith, RefsKept
<1>10. StaysCited(u, s)
  BY <1>3, <1>4, <1>5, <1>6 DEF StaysCited, Bare
<1>11. SoundWith(u, u.zcos, {l}, O)
  BY <1>7, <1>8, <1>9, <1>10, StaysSound
<1> QED
  BY <1>2, <1>3, <1>5, <1>11 DEF LienPlaced, u, x

\* A new ZCO.
BlankZco(a) == [is |-> "zco", acct |-> a, headers |-> <<>>, extents |-> <<>>,
                headersLength |-> 0, sourceLength |-> 0, trailersLength |-> 0,
                capsuleLength |-> 0, totalLength |-> 0]

ZcoPlaced(u, s, z, a, O) ==
    /\ SoundWith(u, u.zcos, {}, O) /\ u.zcos = [s.zcos EXCEPT ![z] = BlankZco(a)]
    /\ u.liens = s.liens /\ u.refs = s.refs /\ BlankZco(a) # NoZco

\* A ZCO with nothing in it.
LEMMA ZcoCreated ==
    ASSUME NEW s, NEW O, SoundWith(s, s.zcos, {}, O), NEW z \in ZcoIds, s.zcos[z] = NoZco,
           NEW a \in Accts
    PROVE  ZcoPlaced(NewZco(s, z, a), s, z, a, O)
<1> DEFINE x == BlankZco(a)
           t == WithZco(s, z, x)
           u == NewZco(s, z, a)
           v == s.zcos
           w == [v EXCEPT ![z] = x]
<1>1. /\ s \in Stores /\ v \in ZcoTables /\ "heap" \in Media /\ ZcoSize \in Nat
  BY Sizes DEF SoundWith, Media
<1>2. /\ x \in Zcos /\ x # NoZco /\ x.acct = a /\ x.headers = <<>> /\ x.extents = <<>>
      /\ x.capsuleLength = 0 /\ x.totalLength = 0
  <2>1. x \in Zcos /\ x.acct = a /\ x.headers = <<>> /\ x.extents = <<>>
        /\ x.capsuleLength = 0 /\ x.totalLength = 0
    BY DEF BlankZco, Zcos
  <2> QED
    BY <2>1, EntriesReal
<1>3. u = Increase(t, a, "heap", ZcoSize)
  BY DEF NewZco, WithZco, BlankZco
<1> HIDE DEF u, x
<1>4. /\ t \in Stores /\ t.zcos = w /\ t.liens = s.liens
      /\ t.refs = s.refs /\ t.objects = s.objects /\ SameExcess(t, s)
  BY <1>1, <1>2, ZcoReplaced
<1> HIDE DEF t
<1>5. Posted(u, t, a, "heap", ZcoSize)
  BY <1>1, <1>3, <1>4, BookPosted
<1>6. /\ u \in Stores /\ u.zcos = w /\ u.liens = s.liens /\ u.refs = s.refs
      /\ u.objects = s.objects
      /\ \A b \in Accts, m \in Media :
            Excess(u, b, m) = Excess(s, b, m) + (IF b = a /\ m = "heap" THEN ZcoSize ELSE 0)
  BY <1>4, <1>5 DEF Posted, SameExcess
<1>7. w \in ZcoTables /\ \A k \in ZcoIds : w[k] = IF k = z THEN x ELSE v[k]
  BY <1>1, <1>2 DEF ZcoTables
<1> HIDE DEF w
<1>8. Paid(u, w)
  <2>1. ASSUME NEW b \in Accts, NEW m \in Media
        PROVE  Excess(u, b, m) = ZcoDue(w, b, m)
    <3>1. /\ ZcoDue(w, b, m) = ZcoDue(v, b, m) + ZcoCost(x, b, m) - ZcoCost(NoZco, b, m)
          /\ ZcoDue(v, b, m) \in Nat
      BY <1>1, <1>2, ZcoChange DEF w
    <3>2. /\ ZcoCost(NoZco, b, m) = 0
          /\ ZcoCost(x, b, m) = IF b = a /\ m = "heap" THEN ZcoSize ELSE 0
      <4>1. ZcoSize + ExtentSize * 0 + CapsuleSize * 0 + 0 = ZcoSize
        BY Sizes
      <4> QED
        BY <1>2, <4>1 DEF ZcoCost
    <3>3. Excess(s, b, m) = ZcoDue(v, b, m)
      BY DEF SoundWith, Paid
    <3>4. Excess(u, b, m) = Excess(s, b, m) + (IF b = a /\ m = "heap" THEN ZcoSize ELSE 0)
      BY <1>6
    <3> HIDE DEF v
    <3> QED
      BY <1>1, <3>1, <3>2, <3>3, <3>4
  <2> QED
    BY <2>1 DEF Paid
<1>9. CitesCounted(u, w)
  <2>1. ASSUME NEW k \in LienIds, NEW b \in Accts
        PROVE  LienCount(u, k, b) = CitedIn(w, k, b)
    <3>1. /\ CitedIn(w, k, b) = CitedIn(v, k, b) + CitedBy(x, k, b) - CitedBy(NoZco, k, b)
          /\ CitedIn(v, k, b) \in Nat
      BY <1>1, <1>2, CitedChange DEF w
    <3>2. CitedBy(x, k, b) = 0 /\ CitedBy(NoZco, k, b) = 0
      BY <1>2, OccEmpty DEF CitedBy
    <3>3. LienCount(s, k, b) = CitedIn(v, k, b) /\ LienCount(u, k, b) = LienCount(s, k, b)
      BY <1>6 DEF SoundWith, CitesCounted, LienCount
    <3> HIDE DEF v
    <3> QED
      BY <3>1, <3>2, <3>3
  <2> QED
    BY <2>1 DEF CitesCounted
<1>10. RefsCounted(u) /\ LiensCited(u, {})
  BY <1>6 DEF SoundWith, RefsCounted, RefCount, Citing, LiensCited, LienCount
<1>11. RefsKept(u, O)
  <2>1. \A o \in Objects, b \in Accts : RefCount(u, o, b) = RefCount(s, o, b)
    BY <1>6 DEF RefCount
  <2> QED
    BY <1>6, <2>1 DEF SoundWith, RefsKept
<1>12. ExtentsInside(u, w)
  <2>1. ASSUME NEW k \in ZcoIds, w[k] # NoZco, NEW i \in DOMAIN w[k].extents
        PROVE  w[k].extents[i].offset + w[k].extents[i].length
                 <= Length[u.liens[w[k].extents[i].lien].ref]
    <3>1. CASE k = z
      BY <1>2, <1>7, <2>1, <3>1
    <3>2. CASE k # z
      BY <1>6, <1>7, <2>1, <3>2 DEF SoundWith, ExtentsInside
    <3> QED
      BY <3>1, <3>2
  <2> QED
    BY <2>1 DEF ExtentsInside
<1>13. HeadersOwned(Bare(u), w)
  <2>1. Bare(u) = Bare(s) /\ HeadersOwned(Bare(s), v)
    BY <1>6 DEF Bare, SoundWith
  <2>2. /\ ToSet(x.headers) = {} /\ IsInjective(x.headers)
        /\ x.capsuleLength = SumOf(Length, ToSet(x.headers)) /\ x.capsuleLength <= x.totalLength
    <3>1. ToSet(x.headers) = {} /\ IsInjective(x.headers)
      BY <1>2 DEF ToSet, IsInjective
    <3>2. SumOf(Length, {}) = 0 /\ 0 <= 0
      BY SumEmpty
    <3>3. SumOf(Length, ToSet(x.headers)) = 0
      BY <3>1, <3>2
    <3> QED
      BY <1>2, <3>1, <3>2, <3>3
  <2>3. ASSUME NEW k \in ZcoIds, w[k] # NoZco
        PROVE  /\ IsInjective(w[k].headers)
               /\ w[k].capsuleLength = SumOf(Length, ToSet(w[k].headers))
               /\ w[k].capsuleLength <= w[k].totalLength
               /\ \A o \in ToSet(w[k].headers) : o \in Bare(s) /\ Medium[o] = "heap"
    <3>1. CASE k = z
      BY <1>7, <2>2, <3>1
    <3>2. CASE k # z
      BY <1>7, <2>1, <2>3, <3>2 DEF HeadersOwned
    <3> QED
      BY <3>1, <3>2
  <2>4. ASSUME NEW j \in ZcoIds, NEW k \in ZcoIds, w[j] # NoZco, w[k] # NoZco, j # k
        PROVE  ToSet(w[j].headers) \cap ToSet(w[k].headers) = {}
    <3>1. CASE j = z \/ k = z
      BY <1>7, <2>2, <3>1
    <3>2. CASE j # z /\ k # z
      BY <1>7, <2>1, <2>4, <3>2 DEF HeadersOwned
    <3> QED
      BY <3>1, <3>2
  <2>5. ASSUME NEW o \in Bare(s)
        PROVE  \E k \in ZcoIds : w[k] # NoZco /\ o \in ToSet(w[k].headers)
    <3>1. PICK k \in ZcoIds : v[k] # NoZco /\ o \in ToSet(v[k].headers)
      BY <2>1 DEF HeadersOwned
    <3> QED
      BY <1>7, <3>1
  <2> QED
    BY <2>1, <2>3, <2>4, <2>5 DEF HeadersOwned
<1>14. SoundWith(u, w, {}, O)
  BY <1>6, <1>7, <1>8, <1>9, <1>10, <1>11, <1>12, <1>13 DEF SoundWith
<1> QED
  BY <1>2, <1>6, <1>14 DEF ZcoPlaced, u, w, x

\* The lengths of a ZCO count for nothing.
LEMMA LengthsSet ==
    ASSUME NEW s, NEW v, SoundWith(s, v, {}, {}), NEW z \in ZcoIds, v[z] # NoZco,
           \A k \in ZcoIds \ {z} : v[k] = s.zcos[k],
           NEW x \in Zcos, x.acct = v[z].acct, x.extents = v[z].extents,
           x.headers = v[z].headers, x.capsuleLength = v[z].capsuleLength,
           x.totalLength = v[z].totalLength
    PROVE  Sound(WithZco(s, z, x))
<1> DEFINE u == WithZco(s, z, x)
           y == v[z]
           w == [v EXCEPT ![z] = x]
           d == 0
<1>1. s \in Stores /\ v \in ZcoTables /\ y \in Zcos /\ HeadersOwned(Bare(s), v)
  <2>1. s \in Stores /\ v \in ZcoTables /\ HeadersOwned(Bare(s), v)
    BY DEF SoundWith
  <2> QED
    BY <2>1 DEF ZcoTables
<1>2. /\ u \in Stores /\ u.zcos = [s.zcos EXCEPT ![z] = x] /\ u.liens = s.liens
      /\ u.refs = s.refs /\ u.objects = s.objects /\ SameExcess(u, s)
  BY <1>1, ZcoReplaced
<1>3. [s.zcos EXCEPT ![z] = x] = w
  <2>1. s.zcos \in [ZcoIds -> Zcos \cup {NoZco}]
    BY <1>1 DEF Stores
  <2>2. v \in [ZcoIds -> Zcos \cup {NoZco}]
    BY <1>1 DEF ZcoTables
  <2> QED
    BY <2>1, <2>2
<1> HIDE DEF u
<1>4. HeadersOwned(Bare(u), w)
  <2>1. Bare(u) = Bare(s)
    BY <1>2 DEF Bare
  <2>2. x.capsuleLength <= x.totalLength
    BY <1>1 DEF HeadersOwned
  <2> QED
    BY <1>1, <2>1, <2>2, HeadersKept
<1>5. CapsuleSize * Len(x.headers) + x.capsuleLength
         = CapsuleSize * Len(y.headers) + y.capsuleLength + d
  <2> DEFINE n == CapsuleSize * Len(y.headers) + y.capsuleLength
  <2>1. n \in Nat
    <3>1. CapsuleSize \in Nat /\ Len(y.headers) \in Nat /\ y.capsuleLength \in Nat
      BY <1>1, ZcoTyped, Sizes
    <3>2. \A p, q, r \in Nat : p * q + r \in Nat
      OBVIOUS
    <3> HIDE DEF y
    <3> QED
      BY <3>1, <3>2
  <2>2. CapsuleSize * Len(x.headers) + x.capsuleLength = n
    OBVIOUS
  <2> HIDE DEF n, d, y
  <2>3. n = n + 0
    BY <2>1
  <2> QED
    BY <2>2, <2>3 DEF n, d
<1>6. \A b \in Accts, m \in Media :
         Excess(u, b, m) = Excess(s, b, m) + (IF b = x.acct /\ m = "heap" THEN d ELSE 0)
  BY <1>1, <1>2, CostTypes DEF SameExcess
<1>7. Rehung(u, s, v, z, x, d)
  BY <1>2, <1>4, <1>5, <1>6 DEF Rehung
<1>8. SoundWith(u, w, {}, {})
  <2> HIDE DEF d, w
  <2> QED
    BY <1>7, HeadersMoved DEF w
<1> QED
  BY <1>2, <1>3, <1>8 DEF Sound, u

\* A ZCO with one header more.
WithHeader(x, o) ==
    [x EXCEPT !.headers = <<o>> \o @, !.capsuleLength = @ + Length[o],
              !.totalLength = @ + Length[o]]

\* A ZCO with one header more.
LEMMA WithHeaderTyped ==
    ASSUME NEW x \in Zcos, NEW o \in Objects
    PROVE  /\ WithHeader(x, o) \in Zcos /\ WithHeader(x, o).acct = x.acct
           /\ WithHeader(x, o).extents = x.extents
           /\ WithHeader(x, o).headers = <<o>> \o x.headers
           /\ WithHeader(x, o).capsuleLength = x.capsuleLength + Length[o]
           /\ WithHeader(x, o).totalLength = x.totalLength + Length[o]
           /\ WithHeader(x, o).headersLength = x.headersLength
           /\ WithHeader(x, o).sourceLength = x.sourceLength
           /\ WithHeader(x, o).trailersLength = x.trailersLength
<1> DEFINE y == WithHeader(x, o)
<1>0. DOMAIN x = ZcoFields
  BY DEF Zcos, ZcoFields
<1>1. /\ y.is = x.is /\ y.acct = x.acct /\ y.headers = <<o>> \o x.headers
      /\ y.extents = x.extents /\ y.headersLength = x.headersLength
      /\ y.sourceLength = x.sourceLength /\ y.trailersLength = x.trailersLength
      /\ y.capsuleLength = x.capsuleLength + Length[o]
      /\ y.totalLength = x.totalLength + Length[o]
  BY <1>0 DEF WithHeader, ZcoFields
<1>a. DOMAIN y = ZcoFields /\ y = [k \in ZcoFields |-> y[k]]
  BY <1>0 DEF WithHeader
<1>2. /\ x.is = "zco" /\ x.acct \in Accts /\ x.headers \in Seq(Objects)
      /\ x.extents \in Seq(ZcoExtents) /\ x.headersLength \in Nat /\ x.sourceLength \in Nat
      /\ x.trailersLength \in Nat /\ x.capsuleLength \in Nat /\ x.totalLength \in Nat
      /\ Length[o] \in Nat
  BY Sizes DEF Zcos
<1> HIDE DEF y
<1>4. y.capsuleLength \in Nat /\ y.totalLength \in Nat /\ y.headers \in Seq(Objects)
  BY <1>1, <1>2
<1>5. y \in Zcos
  BY <1>1, <1>2, <1>4, <1>a, ZcoMade
<1> QED
  BY <1>1, <1>5 DEF y

Prepended(s, z, o) ==
    LET more == Increase(s, s.zcos[z].acct, "heap", Length[o] + CapsuleSize)
    IN  [more EXCEPT !.objects = @ \cup {o},
                     !.zcos[z].headers = <<o>> \o @,
                     !.zcos[z].capsuleLength = @ + Length[o],
                     !.zcos[z].totalLength = @ + Length[o]]

\* A header is put before a ZCO, in an object of its own.
LEMMA HeaderCreated ==
    ASSUME NEW s, Sound(s), NEW z \in ZcoIds, s.zcos[z] # NoZco, NEW o \in Objects,
           o \notin s.objects, Medium[o] = "heap"
    PROVE  LET u == Prepended(s, z, o)
           IN  Sound(u) /\ u.zcos = [s.zcos EXCEPT ![z] = WithHeader(s.zcos[z], o)]
<1> DEFINE v == s.zcos
           y == v[z]
           a == y.acct
           n == Length[o] + CapsuleSize
           p == Increase(s, a, "heap", n)
           x == WithHeader(y, o)
           u == Prepended(s, z, o)
           q == WithObjects(p, p.objects \cup {o})
           w == [v EXCEPT ![z] = x]
<1>1. /\ s \in Stores /\ v \in ZcoTables /\ y \in Zcos /\ a \in Accts /\ n \in Nat
      /\ s.objects \in SUBSET Objects /\ "heap" \in Media /\ Length[o] \in Nat
      /\ SoundWith(s, v, {}, {})
  <2>1. s \in Stores /\ v \in ZcoTables /\ SoundWith(s, v, {}, {})
    BY DEF Sound, SoundWith
  <2>2. Length[o] \in Nat /\ CapsuleSize \in Nat
    BY Sizes
  <2>3. y \in Zcos
    BY <2>1 DEF ZcoTables
  <2> QED
    BY <2>1, <2>2, <2>3, ZcoTyped DEF Stores, Media
<1>2. s.refs[o] = NoRef /\ o \notin Bare(s)
  BY <1>1 DEF SoundWith, RefsKept, Bare
<1>3. Posted(p, s, a, "heap", n)
  BY <1>1, BookPosted
<1>4. /\ x \in Zcos /\ x.acct = a /\ x.extents = y.extents
      /\ x.headers = <<o>> \o y.headers
      /\ x.capsuleLength = y.capsuleLength + Length[o]
      /\ x.totalLength = y.totalLength + Length[o]
  BY <1>1, WithHeaderTyped
<1>5. u = WithZco(q, z, x)
  <2>1. p \in Stores /\ p.zcos = s.zcos
    BY <1>3 DEF Posted
  <2> DEFINE E == <<o>> \o y.headers
             S == y.capsuleLength + Length[o]
             F == y.totalLength + Length[o]
             D == p.objects \cup {o}
             r == [p EXCEPT !.objects = D, !.zcos[z].headers = E,
                            !.zcos[z].capsuleLength = S, !.zcos[z].totalLength = F]
  <2>2. y = p.zcos[z] /\ x = [y EXCEPT !.headers = E, !.capsuleLength = S, !.totalLength = F]
    BY <2>1 DEF WithHeader
  <2>3. u = r
    BY <2>1 DEF Prepended
  <2> HIDE DEF E, S, F, D, p, u, y, x
  <2>4. "zcos" \in DOMAIN p /\ z \in DOMAIN p.zcos
    BY <2>1 DEF Stores
  <2>5. r.zcos[z] = [p.zcos[z] EXCEPT !.headers = E, !.capsuleLength = S, !.totalLength = F]
    BY <2>4
  <2>6. r.zcos = [p.zcos EXCEPT ![z] = x]
    BY <2>2, <2>4, <2>5
  <2>7. r = [p EXCEPT !.objects = D, !.zcos = [p.zcos EXCEPT ![z] = x]]
    BY <2>4, <2>6
  <2>8. q = [p EXCEPT !.objects = D] /\ q.zcos = p.zcos
    BY DEF WithObjects, D
  <2> QED
    BY <2>3, <2>7, <2>8 DEF WithZco
<1> HIDE DEF p, q, u, x, a, n
<1>6. /\ q \in Stores /\ q.zcos = v /\ q.liens = s.liens /\ q.refs = s.refs
      /\ q.objects = s.objects \cup {o}
      /\ \A b \in Accts, m \in Media :
            Excess(q, b, m) = Excess(s, b, m) + (IF b = a /\ m = "heap" THEN n ELSE 0)
  <2>1. p \in Stores /\ p.objects = s.objects /\ p.objects \cup {o} \in SUBSET Objects
    BY <1>1, <1>3 DEF Posted
  <2>2. /\ q \in Stores /\ q.zcos = p.zcos /\ q.liens = p.liens /\ q.refs = p.refs
        /\ q.objects = p.objects \cup {o} /\ SameExcess(q, p)
    BY <2>1, ObjectsReplaced DEF q
  <2> QED
    BY <1>3, <2>2 DEF Posted, SameExcess
<1>7. /\ u \in Stores /\ u.zcos = w /\ u.liens = s.liens /\ u.refs = s.refs
      /\ u.objects = s.objects \cup {o}
      /\ \A b \in Accts, m \in Media :
            Excess(u, b, m) = Excess(s, b, m) + (IF b = a /\ m = "heap" THEN n ELSE 0)
  <2>1. x \in Zcos \cup {NoZco}
    BY <1>4
  <2>2. /\ u \in Stores /\ u.zcos = [q.zcos EXCEPT ![z] = x] /\ u.liens = q.liens
        /\ u.refs = q.refs /\ u.objects = q.objects /\ SameExcess(u, q)
    BY <1>5, <1>6, <2>1, ZcoReplaced
  <2> QED
    BY <1>6, <2>2 DEF SameExcess
<1>8. Bare(u) = Bare(s) \cup {o}
  BY <1>2, <1>7 DEF Bare
<1>9. /\ y.headers \in Seq(Objects) /\ Len(x.headers) = Len(y.headers) + 1
      /\ ToSet(x.headers) = ToSet(y.headers) \cup {o} /\ IsInjective(x.headers)
  <2> DEFINE r == x.headers
             h == y.headers
  <2>1. h \in Seq(Objects)
    BY <1>1, ZcoTyped
  <2>2. r = <<o>> \o h \/ r = Append(h, o)
    BY <1>4
  <2>3. IsInjective(h) /\ o \notin ToSet(h)
    BY <1>1, <1>2 DEF SoundWith, HeadersOwned
  <2> HIDE DEF r, h
  <2>4. Len(r) = Len(h) + 1 /\ ToSet(r) = ToSet(h) \cup {o} /\ IsInjective(r)
    BY <2>1, <2>2, <2>3, OneMore
  <2> QED
    BY <2>1, <2>4 DEF r, h
<1>10. HeadersOwned(Bare(u), w)
  <2>1. Bare(s) \in SUBSET Objects /\ HeadersOwned(Bare(s), v)
    BY <1>1 DEF Bare, SoundWith
  <2>2. HeadersOwned(Bare(s) \cup {o}, w)
    BY <1>1, <1>2, <1>4, <1>9, <2>1, HeadersLonger
  <2> QED
    BY <1>8, <2>2
<1>11. CapsuleSize * Len(x.headers) + x.capsuleLength
         = CapsuleSize * Len(y.headers) + y.capsuleLength + n
  <2> DEFINE h == CapsuleSize * Len(y.headers)
             k == Length[o]
             c == y.capsuleLength
  <2>1. Len(y.headers) \in Nat /\ CapsuleSize \in Nat /\ k \in Nat /\ c \in Nat
    BY <1>1, ZcoTyped, Sizes
  <2>2. \A i, j \in Nat : i * j \in Nat /\ i * (j + 1) = i * j + i
    OBVIOUS
  <2>3. h \in Nat /\ CapsuleSize * Len(x.headers) = h + CapsuleSize
    BY <1>9, <2>1, <2>2
  <2>4. x.capsuleLength = c + k
    BY <1>4
  <2> HIDE DEF h, k, c
  <2>5. (h + CapsuleSize) + (c + k) = h + c + (k + CapsuleSize)
    BY <2>1, <2>3
  <2> QED
    BY <2>3, <2>4, <2>5 DEF h, k, c, n
<1>12. Rehung(u, s, v, z, x, n)
  <2>1. n \in Int /\ \A k \in s.objects : s.refs[k] # NoRef => k \in u.objects
    BY <1>1, <1>7
  <2>2. /\ z \in ZcoIds /\ v[z] # NoZco /\ x \in Zcos /\ x.acct = v[z].acct /\ a = x.acct
        /\ x.extents = v[z].extents /\ u \in Stores /\ u.liens = s.liens /\ u.refs = s.refs
    BY <1>4, <1>7 DEF a
  <2> HIDE DEF v, w
  <2> QED
    BY <1>7, <1>10, <1>11, <2>1, <2>2 DEF Rehung, w
<1>13. SoundWith(u, w, {}, {})
  <2> HIDE DEF v, w
  <2> QED
    BY <1>1, <1>12, HeadersMoved DEF w
<1> QED
  BY <1>7, <1>13 DEF Sound, u, w, x, p, n, a

\* The lien and the reference that a header gets when it becomes an extent.
OneIn(a) == [NoCitation EXCEPT ![a] = 1]
BondRef(a) == [NewRef(TRUE) EXCEPT !.count = OneIn(a)]
BondLien(o, a) == [is |-> "lien", ref |-> o, length |-> Length[o], count |-> OneIn(a)]
BondSize == ExtentSize + LienSize + RefSize["heap"]

\* The lien and the reference that bonding makes.
LEMMA BondTyped ==
    ASSUME NEW o \in Objects, NEW a \in Accts
    PROVE  /\ OneIn(a) \in Counts /\ \A b \in Accts : OneIn(a)[b] = IF b = a THEN 1 ELSE 0
           /\ BondRef(a) \in Refs /\ BondRef(a) # NoRef /\ BondRef(a).count = OneIn(a)
           /\ BondLien(o, a) \in Liens /\ BondLien(o, a) # NoLien
           /\ BondLien(o, a).ref = o /\ BondLien(o, a).length = Length[o]
           /\ BondLien(o, a).count = OneIn(a)
<1>1. OneIn(a) \in Counts /\ \A b \in Accts : OneIn(a)[b] = IF b = a THEN 1 ELSE 0
  BY DEF OneIn, NoCitation, Counts
<1>2. BondRef(a) \in Refs /\ BondRef(a).count = OneIn(a)
  BY <1>1 DEF BondRef, NewRef, Refs
<1>3. /\ BondLien(o, a) \in Liens /\ BondLien(o, a).ref = o
      /\ BondLien(o, a).length = Length[o] /\ BondLien(o, a).count = OneIn(a)
  BY <1>1, Sizes DEF BondLien, Liens
<1> QED
  BY <1>1, <1>2, <1>3, EntriesReal

\* A header that becomes an extent.  What it costs stays the same but for the
\* sizes of the structures.
BondMade(u, s, z, o, a, l) ==
    /\ u \in Stores /\ u.objects = s.objects
    /\ u.zcos = [s.zcos EXCEPT ![z].extents = <<ExtentOf(l, 0, Length[o])>> \o @]
    /\ \A k \in LienIds : u.liens[k] = IF k = l THEN BondLien(o, a) ELSE s.liens[k]
    /\ \A k \in Objects : u.refs[k] = IF k = o THEN BondRef(a) ELSE s.refs[k]
    /\ \A b \in Accts, m \in Media :
          Excess(u, b, m) = Excess(s, b, m)
            + (IF b = a /\ m = "heap" THEN ExtentSize - CapsuleSize - Length[o] ELSE 0)

\* The lien that the next extent gets.
NextLien(s, l) == l = Min({k \in LienIds : s.liens[k] = NoLien})

\* What bonding one header does to the tables.
LEMMA BondHeaderDone ==
    ASSUME NEW s \in Stores, NEW z \in ZcoIds, s.zcos[z] # NoZco, NEW o \in Objects,
           s.refs[o] = NoRef, Medium[o] = "heap",
           NEW l \in LienIds, NextLien(s, l),
           s.liens[l] = NoLien
    PROVE  BondMade(BondHeader(s, z, o), s, z, o, s.zcos[z].acct, l)
<1> DEFINE x == s.zcos[z]
           a == x.acct
           freed == Reduce(s, a, "heap", CapsuleSize)
           kept == Increase(freed, a, "heap", BondSize)
           r == BondRef(a)
           n == BondLien(o, a)
           e == ExtentOf(l, 0, Length[o])
           y == [x EXCEPT !.extents = <<e>> \o @]
           p == WithRef(kept, o, r)
           q == WithLien(p, l, n)
           u == BondHeader(s, z, o)
<1>1. /\ x \in Zcos /\ a \in Accts /\ CapsuleSize \in Nat /\ BondSize \in Nat /\ "heap" \in Media
      /\ RefSize["heap"] \in Nat /\ LienSize \in Nat /\ ExtentSize \in Nat /\ Length[o] \in Nat
  <2>1. x \in Zcos
    BY DEF Stores
  <2>2. /\ RefSize["heap"] \in Nat /\ LienSize \in Nat /\ ExtentSize \in Nat
        /\ CapsuleSize \in Nat /\ Length[o] \in Nat
    BY Sizes
  <2> QED
    BY <2>1, <2>2, ZcoTyped DEF Media, BondSize
<1>2. Posted(freed, s, a, "heap", -CapsuleSize)
  BY <1>1, BookPosted
<1>3. Posted(kept, freed, a, "heap", BondSize)
  <2>1. freed \in Stores
    BY <1>2 DEF Posted
  <2> HIDE DEF freed, a
  <2> QED
    BY <1>1, <2>1, BookPosted
<1>4. /\ y \in Zcos /\ e \in ZcoExtents
  <2>1. e \in ZcoExtents
    BY <1>1 DEF ExtentOf, ZcoExtents
  <2>2. x.extents \in Seq(ZcoExtents) /\ DOMAIN x = ZcoFields
    BY <1>1 DEF Zcos, ZcoFields
  <2> HIDE DEF e
  <2>3. <<e>> \o x.extents \in Seq(ZcoExtents)
    BY <2>1, <2>2
  <2> DEFINE E == <<e>> \o x.extents
  <2>4. y = [x EXCEPT !.extents = E]
    BY <2>2
  <2>5. y \in Zcos
    <3> HIDE DEF E, y, x
    <3>1. E \in Seq(ZcoExtents)
      BY <2>3 DEF E
    <3> QED
      BY <1>1, <2>4, <3>1 DEF Zcos
  <2> QED
    BY <2>1, <2>5
<1>5. u = WithZco(q, z, y)
  <2>1. /\ kept \in Stores /\ kept.zcos = s.zcos
    BY <1>2, <1>3 DEF Posted
  <2> DEFINE E == <<e>> \o x.extents
             g == [kept EXCEPT !.refs[o] = r, !.liens[l] = n, !.zcos[z].extents = E]
  <2>2. u = g
    <3>1. u = [kept EXCEPT !.refs[o] = r, !.liens[l] = n, !.zcos[z].extents = <<e>> \o @]
      BY DEF BondHeader, BondRef, BondLien, OneIn, BondSize, NextLien
    <3>2. kept.zcos[z].extents = x.extents
      BY <2>1
    <3> HIDE DEF kept, r, n, e
    <3> QED
      BY <3>1, <3>2
  <2>3. y = [x EXCEPT !.extents = E] /\ x = kept.zcos[z]
    BY <2>1
  <2> HIDE DEF E, kept, u, y, x, r, n
  <2>4. "zcos" \in DOMAIN kept /\ z \in DOMAIN kept.zcos
    BY <2>1 DEF Stores
  <2>5. g.zcos[z] = [kept.zcos[z] EXCEPT !.extents = E]
    BY <2>4
  <2>6. g.zcos = [kept.zcos EXCEPT ![z] = y]
    BY <2>3, <2>4, <2>5
  <2>7. g = [kept EXCEPT !.refs[o] = r, !.liens[l] = n, !.zcos = [kept.zcos EXCEPT ![z] = y]]
    BY <2>4, <2>6
  <2>8. q = [kept EXCEPT !.refs[o] = r, !.liens[l] = n] /\ q.zcos = kept.zcos
    BY DEF WithRef, WithLien
  <2> QED
    BY <2>2, <2>7, <2>8 DEF WithZco
<1>6. /\ r \in Refs \cup {NoRef} /\ n \in Liens \cup {NoLien} /\ y \in Zcos \cup {NoZco}
  BY <1>1, <1>4, BondTyped
<1>7. /\ kept \in Stores /\ kept.zcos = s.zcos /\ kept.liens = s.liens /\ kept.refs = s.refs
      /\ kept.objects = s.objects
      /\ \A b \in Accts, m \in Media :
            Excess(kept, b, m) = Excess(s, b, m)
              + (IF b = a /\ m = "heap" THEN BondSize - CapsuleSize ELSE 0)
  <2>1. ASSUME NEW b \in Accts, NEW m \in Media
        PROVE  Excess(kept, b, m) = Excess(s, b, m)
                  + (IF b = a /\ m = "heap" THEN BondSize - CapsuleSize ELSE 0)
    <3>1. /\ Excess(freed, b, m) = Excess(s, b, m) + (IF b = a /\ m = "heap" THEN -CapsuleSize ELSE 0)
          /\ Excess(kept, b, m) = Excess(freed, b, m) + (IF b = a /\ m = "heap" THEN BondSize ELSE 0)
      BY <1>2, <1>3 DEF Posted
    <3>2. Excess(s, b, m) \in Int
      BY CostTypes
    <3> HIDE DEF freed, kept, a
    <3> QED
      BY <1>1, <3>1, <3>2
  <2> QED
    BY <1>2, <1>3, <2>1 DEF Posted
<1> HIDE DEF u, y, r, n, kept, freed, e
<1>8. /\ p \in Stores /\ p.zcos = s.zcos /\ p.liens = s.liens /\ p.objects = s.objects
      /\ p.refs = [s.refs EXCEPT ![o] = r]
      /\ \A b \in Accts, m \in Media :
            Excess(p, b, m) = Excess(kept, b, m) + RefCost(o, NoRef, b, m) - RefCost(o, r, b, m)
  BY <1>6, <1>7, RefReplaced
<1> HIDE DEF p
<1>9. /\ q \in Stores /\ q.zcos = s.zcos /\ q.refs = p.refs /\ q.objects = s.objects
      /\ q.liens = [s.liens EXCEPT ![l] = n]
      /\ \A b \in Accts, m \in Media :
            Excess(q, b, m) = Excess(p, b, m) + LienCost(NoLien, b, m) - LienCost(n, b, m)
  <2>1. q = WithLien(p, l, n)
    OBVIOUS
  <2> HIDE DEF q
  <2>2. /\ q \in Stores /\ q.zcos = p.zcos /\ q.refs = p.refs /\ q.objects = p.objects
        /\ q.liens = [p.liens EXCEPT ![l] = n]
        /\ \A b \in Accts, m \in Media :
              Excess(q, b, m) = Excess(p, b, m) + LienCost(p.liens[l], b, m) - LienCost(n, b, m)
    <3>1. p \in Stores /\ n \in Liens \cup {NoLien} /\ l \in LienIds
      BY <1>6, <1>8
    <3> HIDE DEF a, x
    <3> QED
      BY <2>1, <3>1, LienReplaced
  <2>3. p.liens[l] = NoLien
    BY <1>8
  <2> QED
    BY <1>8, <2>2, <2>3
<1> HIDE DEF q
<1>10. /\ u \in Stores /\ u.zcos = [s.zcos EXCEPT ![z] = y] /\ u.liens = q.liens
       /\ u.refs = p.refs /\ u.objects = s.objects /\ SameExcess(u, q)
  BY <1>5, <1>6, <1>9, ZcoReplaced
<1>11. u.zcos = [s.zcos EXCEPT ![z].extents = <<e>> \o @]
  BY <1>10 DEF y
<1>12. /\ \A k \in LienIds : u.liens[k] = IF k = l THEN n ELSE s.liens[k]
       /\ \A k \in Objects : u.refs[k] = IF k = o THEN r ELSE s.refs[k]
  BY <1>8, <1>9, <1>10 DEF Stores
<1>13. ASSUME NEW b \in Accts, NEW m \in Media
       PROVE  Excess(u, b, m) = Excess(s, b, m)
                + (IF b = a /\ m = "heap" THEN ExtentSize - CapsuleSize - Length[o] ELSE 0)
  <2> DEFINE mine == b = a /\ m = "heap"
  <2>1. RefCost(o, NoRef, b, m) = 0 /\ LienCost(NoLien, b, m) = 0
    BY DEF RefCost, LienCost
  <2>2. RefCost(o, r, b, m) = IF mine THEN RefSize["heap"] ELSE 0
    <3>1. r # NoRef /\ r.count[b] = IF b = a THEN 1 ELSE 0
      BY <1>1, BondTyped DEF r
    <3> QED
      BY <3>1 DEF RefCost
  <2>3. LienCost(n, b, m) = IF mine THEN Length[o] + LienSize ELSE 0
    <3>1. n # NoLien /\ n.ref = o /\ n.length = Length[o] /\ n.count[b] = IF b = a THEN 1 ELSE 0
      BY <1>1, BondTyped DEF n
    <3>2. m # "heap" => Medium[n.ref] # m
      BY <3>1
    <3>3. 0 + 0 = 0
      OBVIOUS
    <3> QED
      BY <3>1, <3>2, <3>3 DEF LienCost
  <2>4. /\ Excess(kept, b, m) = Excess(s, b, m) + (IF mine THEN BondSize - CapsuleSize ELSE 0)
        /\ Excess(p, b, m) = Excess(kept, b, m) + RefCost(o, NoRef, b, m) - RefCost(o, r, b, m)
        /\ Excess(q, b, m) = Excess(p, b, m) + LienCost(NoLien, b, m) - LienCost(n, b, m)
        /\ Excess(u, b, m) = Excess(q, b, m)
    BY <1>7, <1>8, <1>9, <1>10 DEF SameExcess
  <2>5. Excess(s, b, m) \in Int /\ BondSize = ExtentSize + LienSize + RefSize["heap"]
    BY CostTypes DEF BondSize
  <2> HIDE DEF a, x
  <2>6. CASE mine
    <3> HIDE DEF mine
    <3> QED
      BY <1>1, <2>1, <2>2, <2>3, <2>4, <2>5, <2>6 DEF mine
  <2>7. CASE ~mine
    <3> HIDE DEF mine
    <3>1. Excess(u, b, m) = Excess(s, b, m)
      BY <1>1, <2>1, <2>2, <2>3, <2>4, <2>5, <2>7
    <3> QED
      BY <2>5, <2>7, <3>1 DEF mine
  <2> QED
    BY <2>6, <2>7
<1> QED
  BY <1>10, <1>11, <1>12, <1>13 DEF BondMade, u, r, n, e

\* What citing by the new lien and reference amounts to.
Bonded(u, s, o, a, l) ==
    /\ RefsCounted(u) /\ LiensCited(u, {}) /\ RefsKept(u, {}) /\ Bare(u) = Bare(s) \ {o}
    /\ \A k \in LienIds, b \in Accts :
          LienCount(u, k, b) = LienCount(s, k, b) + (IF k = l /\ b = a THEN 1 ELSE 0)
    /\ \A k \in LienIds : s.liens[k] # NoLien => u.liens[k] = s.liens[k]
    /\ u.liens[l].ref = o

\* What it does to the counters.
LEMMA BondCounts ==
    ASSUME NEW s \in Stores, RefsCounted(s), LiensCited(s, {}), RefsKept(s, {}),
           NEW o \in Objects, s.refs[o] = NoRef, o \in s.objects,
           NEW l \in LienIds, s.liens[l] = NoLien, NEW a \in Accts,
           NEW z, NEW u, BondMade(u, s, z, o, a, l)
    PROVE  Bonded(u, s, o, a, l)
<1> DEFINE n == BondLien(o, a)
           r == BondRef(a)
<1>1. /\ u \in Stores /\ u.objects = s.objects
      /\ \A k \in LienIds : u.liens[k] = IF k = l THEN n ELSE s.liens[k]
      /\ \A k \in Objects : u.refs[k] = IF k = o THEN r ELSE s.refs[k]
  BY DEF BondMade
<1>2. /\ n # NoLien /\ n.ref = o /\ \A b \in Accts : n.count[b] = IF b = a THEN 1 ELSE 0
      /\ r # NoRef /\ \A b \in Accts : r.count[b] = IF b = a THEN 1 ELSE 0
  BY BondTyped
<1> HIDE DEF n, r
<1>3. ASSUME NEW k \in LienIds, NEW b \in Accts
      PROVE  LienCount(u, k, b) = LienCount(s, k, b) + (IF k = l /\ b = a THEN 1 ELSE 0)
  <2>1. LienCount(s, k, b) \in Nat
    BY CountsTyped
  <2>2. CASE k = l
    <3>1. LienCount(s, k, b) = 0
      BY <2>2 DEF LienCount
    <3>2. LienCount(u, k, b) = IF b = a THEN 1 ELSE 0
      BY <1>1, <1>2, <2>2 DEF LienCount
    <3> QED
      BY <2>2, <3>1, <3>2
  <2>3. CASE k # l
    <3>1. LienCount(u, k, b) = LienCount(s, k, b)
      BY <1>1, <2>3 DEF LienCount
    <3> QED
      BY <2>1, <2>3, <3>1
  <2> QED
    BY <2>2, <2>3
<1>4. ASSUME NEW k \in Objects, NEW b \in Accts
      PROVE  RefCount(u, k, b) = Cardinality(Citing(u, k, b))
  <2>1. RefCount(s, k, b) = Cardinality(Citing(s, k, b))
    BY DEF RefsCounted
  <2>2. CASE k = o
    <3>1. Citing(s, k, b) = {}
      <4>1. RefCount(s, k, b) = 0
        BY <2>2 DEF RefCount
      <4> QED
        BY <2>1, <4>1, CitingFinite
    <3>2. Citing(u, k, b) = IF b = a THEN {l} ELSE {}
      <4>1. ASSUME NEW j \in LienIds
            PROVE  j \in Citing(u, k, b) <=> j = l /\ b = a
        <5>1. CASE j = l
          BY <1>1, <1>2, <2>2, <5>1 DEF Citing
        <5>2. CASE j # l
          <6>1. u.liens[j] = s.liens[j]
            BY <1>1, <5>2
          <6>2. j \in Citing(u, k, b) <=> j \in Citing(s, k, b)
            BY <6>1 DEF Citing
          <6> QED
            BY <3>1, <5>2, <6>2
        <5> QED
          BY <5>1, <5>2
      <4>2. Citing(u, k, b) \subseteq LienIds
        BY DEF Citing
      <4> QED
        BY <4>1, <4>2
    <3>3. RefCount(u, k, b) = IF b = a THEN 1 ELSE 0
      BY <1>1, <1>2, <2>2 DEF RefCount
    <3>4. Cardinality({l}) = 1 /\ Cardinality({}) = 0
      BY FS_Singleton, FS_EmptySet
    <3> QED
      BY <3>2, <3>3, <3>4
  <2>3. CASE k # o
    <3>1. Citing(u, k, b) = Citing(s, k, b)
      <4>1. ASSUME NEW j \in LienIds
            PROVE  j \in Citing(u, k, b) <=> j \in Citing(s, k, b)
        <5>1. CASE j = l
          BY <1>1, <1>2, <2>3, <5>1 DEF Citing
        <5>2. CASE j # l
          <6>1. u.liens[j] = s.liens[j]
            BY <1>1, <5>2
          <6> QED
            BY <6>1 DEF Citing
        <5> QED
          BY <5>1, <5>2
      <4>2. Citing(u, k, b) \subseteq LienIds /\ Citing(s, k, b) \subseteq LienIds
        BY DEF Citing
      <4> QED
        BY <4>1, <4>2
    <3>2. RefCount(u, k, b) = RefCount(s, k, b)
      BY <1>1, <2>3 DEF RefCount
    <3> QED
      BY <2>1, <3>1, <3>2
  <2> QED
    BY <2>2, <2>3
<1>5. LiensCited(u, {})
  <2>1. ASSUME NEW k \in LienIds, u.liens[k] # NoLien
        PROVE  \E b \in Accts : LienCount(u, k, b) > 0
    <3>1. CASE k = l
      <4>1. LienCount(u, k, a) = 1
        BY <1>1, <1>2, <3>1 DEF LienCount
      <4> QED
        BY <4>1
    <3>2. CASE k # l
      <4>1. s.liens[k] # NoLien
        BY <1>1, <2>1, <3>2
      <4>2. PICK b \in Accts : LienCount(s, k, b) > 0
        BY <4>1 DEF LiensCited
      <4>3. LienCount(u, k, b) = LienCount(s, k, b)
        BY <1>1, <3>2 DEF LienCount
      <4> QED
        BY <4>2, <4>3
    <3> QED
      BY <3>1, <3>2
  <2> QED
    BY <2>1 DEF LiensCited
<1>6. RefsKept(u, {})
  <2>1. ASSUME NEW k \in Objects, u.refs[k] # NoRef
        PROVE  /\ k \in u.objects
               /\ u.refs[k].okayToDestroy => \E b \in Accts : RefCount(u, k, b) > 0
    <3>1. CASE k = o
      <4>1. RefCount(u, k, a) = 1
        BY <1>1, <1>2, <3>1 DEF RefCount
      <4> QED
        BY <1>1, <3>1, <4>1
    <3>2. CASE k # o
      <4>1. u.refs[k] = s.refs[k] /\ \A b \in Accts : RefCount(u, k, b) = RefCount(s, k, b)
        BY <1>1, <3>2 DEF RefCount
      <4> QED
        BY <1>1, <2>1, <4>1 DEF RefsKept
    <3> QED
      BY <3>1, <3>2
  <2> QED
    BY <2>1 DEF RefsKept
<1>7. Bare(u) = Bare(s) \ {o}
  <2>1. \A k \in s.objects : k \in Objects
    BY DEF Stores
  <2> QED
    BY <1>1, <1>2, <2>1 DEF Bare
<1> QED
  BY <1>1, <1>2, <1>3, <1>4, <1>5, <1>6, <1>7 DEF Bonded, RefsCounted

\* The last header of a ZCO becomes its first extent.
Moved(x, y, o, l) ==
    /\ x \in Zcos /\ x.acct = y.acct /\ y.headers = Append(x.headers, o)
    /\ x.extents = <<ExtentOf(l, 0, Length[o])>> \o y.extents
    /\ x.capsuleLength = y.capsuleLength - Length[o] /\ x.totalLength = y.totalLength

\* What it costs, and how often it cites a lien.
LEMMA MovedCost ==
    ASSUME NEW y \in Zcos, NEW o \in Objects, NEW l \in LienIds, NEW x, Moved(x, y, o, l)
    PROVE  /\ \A b \in Accts, m \in Media :
                 ZcoCost(x, b, m) = ZcoCost(y, b, m)
                   + (IF b = y.acct /\ m = "heap" THEN ExtentSize - CapsuleSize - Length[o] ELSE 0)
           /\ \A k \in LienIds, b \in Accts :
                 CitedBy(x, k, b) = CitedBy(y, k, b) + (IF k = l /\ b = y.acct THEN 1 ELSE 0)
<1> DEFINE e == ExtentOf(l, 0, Length[o])
           a == y.acct
<1>1. /\ x \in Zcos /\ x.acct = a /\ y.headers = Append(x.headers, o) /\ x.extents = <<e>> \o y.extents
      /\ x.capsuleLength = y.capsuleLength - Length[o]
  BY DEF Moved
<1>2. e \in ZcoExtents /\ e.lien = l
  BY Sizes DEF ExtentOf, ZcoExtents
<1> HIDE DEF e
<1>3. /\ y.extents \in Seq(ZcoExtents) /\ y.headers \in Seq(Objects) /\ x.headers \in Seq(Objects)
      /\ a \in Accts /\ x # NoZco /\ y # NoZco /\ x.capsuleLength \in Nat /\ y.capsuleLength \in Nat
  BY <1>1, ZcoTyped, EntriesReal
<1>4. /\ Len(x.extents) = Len(y.extents) + 1 /\ Len(y.headers) = Len(x.headers) + 1
      /\ Len(y.extents) \in Nat /\ Len(x.headers) \in Nat
  <2>1. Len(<<e>> \o y.extents) = 1 + Len(y.extents) /\ Len(y.extents) \in Nat
    BY <1>2, <1>3
  <2> QED
    BY <1>1, <1>3, <2>1
<1>5. ASSUME NEW b \in Accts, NEW m \in Media
      PROVE  ZcoCost(x, b, m) = ZcoCost(y, b, m)
                   + (IF b = a /\ m = "heap" THEN ExtentSize - CapsuleSize - Length[o] ELSE 0)
  <2>1. CASE b = a /\ m = "heap"
    <3> DEFINE i == Len(y.extents)
               j == Len(x.headers)
               c == x.capsuleLength
               d == Length[o]
    <3>1. ZcoCost(x, b, m) = ZcoSize + ExtentSize * (i + 1) + CapsuleSize * j + c
      BY <1>1, <1>3, <1>4, <2>1 DEF ZcoCost
    <3>2. ZcoCost(y, b, m) = ZcoSize + ExtentSize * i + CapsuleSize * (j + 1) + y.capsuleLength
      BY <1>1, <1>3, <1>4, <2>1 DEF ZcoCost
    <3>3. i \in Nat /\ j \in Nat /\ c \in Nat /\ d \in Nat /\ y.capsuleLength = c + d
      BY <1>1, <1>3, <1>4, Sizes
    <3> HIDE DEF i, j, c, d
    <3>4. /\ ExtentSize * (i + 1) = ExtentSize * i + ExtentSize /\ ExtentSize * i \in Nat
          /\ CapsuleSize * (j + 1) = CapsuleSize * j + CapsuleSize /\ CapsuleSize * j \in Nat
          /\ ExtentSize \in Nat /\ CapsuleSize \in Nat /\ ZcoSize \in Nat
      BY <3>3, Sizes
    <3> DEFINE f == ExtentSize * i
               g == CapsuleSize * j
               p == ZcoCost(x, b, m)
               q == ZcoCost(y, b, m)
    <3>5. /\ p = ZcoSize + (f + ExtentSize) + g + c /\ q = ZcoSize + f + (g + CapsuleSize) + (c + d)
          /\ f \in Nat /\ g \in Nat
      BY <3>1, <3>2, <3>3, <3>4
    <3> HIDE DEF f, g, p, q
    <3>6. p = q + (ExtentSize - CapsuleSize - d)
      BY <3>3, <3>4, <3>5
    <3> QED
      BY <2>1, <3>6 DEF p, q, d
  <2>2. CASE ~(b = a /\ m = "heap")
    BY <1>1, <2>2 DEF ZcoCost
  <2> QED
    BY <2>1, <2>2
<1>6. ASSUME NEW k \in LienIds, NEW b \in Accts
      PROVE  CitedBy(x, k, b) = CitedBy(y, k, b) + (IF k = l /\ b = a THEN 1 ELSE 0)
  <2>1. Occ(x.extents, k) = Occ(y.extents, k) + (IF l = k THEN 1 ELSE 0) /\ Occ(y.extents, k) \in Nat
    BY <1>1, <1>2, <1>3, OccPrepend, OccType
  <2>2. /\ CitedBy(x, k, b) = IF b = a THEN Occ(x.extents, k) ELSE 0
        /\ CitedBy(y, k, b) = IF b = a THEN Occ(y.extents, k) ELSE 0
    BY <1>1, <1>3 DEF CitedBy
  <2> HIDE DEF a
  <2> QED
    BY <2>1, <2>2
<1> QED
  BY <1>5, <1>6

\* What it does to a sound store.
LEMMA HeaderBonded ==
    ASSUME NEW s, NEW v, SoundWith(s, v, {}, {}), NEW z \in ZcoIds, v[z] # NoZco,
           NEW o \in Objects, NEW l \in LienIds, s.liens[l] = NoLien,
           NEW x, Moved(x, v[z], o, l), NEW u, BondMade(u, s, z, o, v[z].acct, l)
    PROVE  SoundWith(u, [v EXCEPT ![z] = x], {}, {})
<1> DEFINE y == v[z]
           a == y.acct
           e == ExtentOf(l, 0, Length[o])
           w == [v EXCEPT ![z] = x]
<1>1. /\ s \in Stores /\ v \in ZcoTables /\ RefsCounted(s) /\ LiensCited(s, {}) /\ RefsKept(s, {})
      /\ Paid(s, v) /\ CitesCounted(s, v) /\ ExtentsInside(s, v) /\ HeadersOwned(Bare(s), v)
  BY DEF SoundWith
<1>2. y \in Zcos /\ y.headers \in Seq(Objects)
  <2>1. y \in Zcos
    BY <1>1 DEF ZcoTables
  <2> QED
    BY <2>1, ZcoTyped
<1>3. /\ x \in Zcos /\ x # NoZco /\ x.headers \in Seq(Objects) /\ a \in Accts /\ x.acct = a
      /\ x.extents = <<e>> \o y.extents /\ y.headers = Append(x.headers, o)
      /\ x.capsuleLength = y.capsuleLength - Length[o] /\ x.totalLength = y.totalLength
  BY <1>2, ZcoTyped, EntriesReal DEF Moved
<1>4. /\ ToSet(y.headers) = ToSet(x.headers) \cup {o}
      /\ IsInjective(y.headers) => IsInjective(x.headers) /\ o \notin ToSet(x.headers)
  <2> DEFINE q == x.headers
             r == y.headers
  <2>1. q \in Seq(Objects) /\ r = Append(q, o)
    BY <1>3
  <2> HIDE DEF q, r
  <2>2. ToSet(r) = ToSet(q) \cup {o} /\ (IsInjective(r) <=> IsInjective(q) /\ o \notin ToSet(q))
    BY <2>1, OneMore
  <2> QED
    BY <2>2 DEF q, r
<1>5. IsInjective(y.headers) /\ o \in Bare(s)
  BY <1>1, <1>4 DEF HeadersOwned
<1>6. o \in s.objects /\ s.refs[o] = NoRef
  BY <1>5 DEF Bare
<1>7. Bonded(u, s, o, a, l)
  BY <1>1, <1>3, <1>6, BondCounts
<1>8. u \in Stores /\ w \in ZcoTables /\ \A k \in ZcoIds : w[k] = IF k = z THEN x ELSE v[k]
  BY <1>1, <1>3 DEF BondMade, ZcoTables
<1>9. HeadersOwned(Bare(u), w)
  <2> DEFINE B == Bare(s)
  <2>1. B \in SUBSET Objects
    BY <1>1 DEF Bare, Stores
  <2>2. HeadersOwned(B, v)
    BY <1>1
  <2>3. IsInjective(x.headers) /\ o \notin ToSet(x.headers)
    BY <1>4, <1>5
  <2> HIDE DEF B, w
  <2>4. HeadersOwned(B \ {o}, [v EXCEPT ![z] = x])
    BY <1>1, <1>3, <1>4, <2>1, <2>2, <2>3, HeadersShorter
  <2>5. Bare(u) = B \ {o}
    BY <1>7 DEF Bonded, B
  <2> QED
    BY <2>4, <2>5 DEF w
<1> HIDE DEF w
<1>10. Paid(u, w)
  <2>1. ASSUME NEW b \in Accts, NEW m \in Media
        PROVE  Excess(u, b, m) = ZcoDue(w, b, m)
    <3> DEFINE d == IF b = a /\ m = "heap" THEN ExtentSize - CapsuleSize - Length[o] ELSE 0
    <3>1. ZcoCost(x, b, m) = ZcoCost(y, b, m) + d
      BY <1>2, MovedCost
    <3>2. ZcoDue(w, b, m) = ZcoDue(v, b, m) + ZcoCost(x, b, m) - ZcoCost(y, b, m)
          /\ ZcoDue(v, b, m) \in Nat
      BY <1>1, <1>3, ZcoChange DEF w
    <3>3. Excess(u, b, m) = Excess(s, b, m) + d
      BY DEF BondMade
    <3>4. Excess(s, b, m) = ZcoDue(v, b, m)
      BY <1>1 DEF Paid
    <3>5. ZcoCost(y, b, m) \in Nat /\ d \in Int
      BY <1>2, ZcoCostType, Sizes
    <3> HIDE DEF d, y, a
    <3> QED
      BY <3>1, <3>2, <3>3, <3>4, <3>5
  <2> QED
    BY <2>1 DEF Paid
<1>11. CitesCounted(u, w)
  <2>1. ASSUME NEW k \in LienIds, NEW b \in Accts
        PROVE  LienCount(u, k, b) = CitedIn(w, k, b)
    <3> DEFINE d == IF k = l /\ b = a THEN 1 ELSE 0
    <3>1. CitedBy(x, k, b) = CitedBy(y, k, b) + d
      BY <1>2, MovedCost
    <3>2. CitedIn(w, k, b) = CitedIn(v, k, b) + CitedBy(x, k, b) - CitedBy(y, k, b)
          /\ CitedIn(v, k, b) \in Nat
      BY <1>1, <1>3, CitedChange DEF w
    <3>3. LienCount(u, k, b) = LienCount(s, k, b) + d
      BY <1>7 DEF Bonded
    <3>4. LienCount(s, k, b) = CitedIn(v, k, b)
      BY <1>1 DEF CitesCounted
    <3>5. CitedBy(y, k, b) \in Nat /\ d \in Int
      BY <1>2, CitedType
    <3> HIDE DEF d, y, a
    <3> QED
      BY <3>1, <3>2, <3>3, <3>4, <3>5
  <2> QED
    BY <2>1 DEF CitesCounted
<1>12. ExtentsInside(u, w)
  <2>1. ASSUME NEW k \in ZcoIds, v[k] # NoZco, NEW i \in DOMAIN v[k].extents
        PROVE  v[k].extents[i].offset + v[k].extents[i].length
                 <= Length[u.liens[v[k].extents[i].lien].ref]
    <3>1. Backed(s, v[k].extents[i], v[k].acct)
      BY <2>1, ExtentsBacked
    <3>2. u.liens[v[k].extents[i].lien] = s.liens[v[k].extents[i].lien]
      BY <1>7, <3>1 DEF Backed, Bonded
    <3> QED
      BY <3>1, <3>2 DEF Backed
  <2>2. ASSUME NEW i \in DOMAIN x.extents
        PROVE  x.extents[i].offset + x.extents[i].length
                 <= Length[u.liens[x.extents[i].lien].ref]
    <3>1. y.extents \in Seq(ZcoExtents) /\ e \in ZcoExtents
      BY <1>2, Sizes, ZcoTyped DEF ZcoExtents, ExtentOf
    <3>2. CASE i = 1
      <4>1. x.extents[i] = e
        <5> HIDE DEF e, y
        <5> QED
          BY <1>3, <3>1, <3>2
      <4>2. e.lien = l /\ e.offset = 0 /\ e.length = Length[o] /\ 0 + Length[o] <= Length[o]
        BY Sizes DEF ExtentOf
      <4>3. u.liens[l].ref = o
        BY <1>7 DEF Bonded
      <4> HIDE DEF e
      <4> QED
        BY <4>1, <4>2, <4>3
    <3>3. CASE i # 1
      <4>1. i - 1 \in DOMAIN y.extents /\ x.extents[i] = y.extents[i - 1]
        <5> HIDE DEF e, y
        <5> QED
          BY <1>3, <3>1, <3>3
      <4> DEFINE j == i - 1
      <4>2. j \in DOMAIN v[z].extents /\ x.extents[i] = v[z].extents[j]
        BY <4>1
      <4> HIDE DEF j, y, e
      <4> QED
        BY <2>1, <4>2
    <3> QED
      BY <3>2, <3>3
  <2>3. ASSUME NEW k \in ZcoIds, w[k] # NoZco, NEW i \in DOMAIN w[k].extents
        PROVE  w[k].extents[i].offset + w[k].extents[i].length
                 <= Length[u.liens[w[k].extents[i].lien].ref]
    <3>1. CASE k = z
      BY <1>8, <2>2, <2>3, <3>1
    <3>2. CASE k # z
      BY <1>8, <2>1, <2>3, <3>2
    <3> QED
      BY <3>1, <3>2
  <2> QED
    BY <2>3 DEF ExtentsInside
<1>13. SoundWith(u, w, {}, {})
  BY <1>7, <1>8, <1>9, <1>10, <1>11, <1>12 DEF SoundWith, Bonded
<1> QED
  BY <1>13 DEF w

(***************************************************************************)
(* Operations on all the extents, or on all the headers, of a ZCO: a turn  *)
(* for each, in the order of a choice of indexes.                          *)
(***************************************************************************)
\* A walk goes past a piece.
Past(w, p) ==
    IF w.todo = 0 THEN w
    ELSE IF w.skip >= p.length THEN [w EXCEPT !.skip = @ - p.length]
    ELSE LET n == Min({p.length - w.skip, w.todo})
         IN [skip |-> 0, todo |-> w.todo - n,
             taken |-> Append(w.taken, [p EXCEPT !.offset = @ + w.skip, !.length = n])]

\* The bytes of a piece.
Chunk(p) == [j \in 1..p.length |-> <<p.object, p.offset + j>>]

Turn(op, z, a, t, x) ==
    CASE op = "cut"    -> Reduce(UnciteLien(t, x.lien, a), a, "heap", ExtentSize)
      [] op = "bare"   -> DestroyHeader(t, a, x)
      [] op = "bond"   -> BondHeader(t, z, x)
      [] op = "extend" -> AddExtent(CiteLien(t, x.lien, t.zcos[z].acct), z, x)
      [] op = "walk"   -> Past(t, x)
      [] op = "count"  -> t + x
      [] op = "read"   -> t \o Chunk(x)

Taken(h, op, z, a, q, p, c, S) ==
    h = [T \in SUBSET S |-> IF T = {} THEN p ELSE Turn(op, z, a, h[T \ {c[T]}], q[c[T]])]

\* There is a function with what is there after the turns for every set of indexes.
LEMMA TurnsTaken ==
    ASSUME NEW S, IsFiniteSet(S), NEW c, Chooses(c, S), NEW op, NEW z, NEW a, NEW q, NEW p
    PROVE  \E h : Taken(h, op, z, a, q, p, c, S)
<1> DEFINE Fit(h, n) == \A T \in SUBSET S : Cardinality(T) <= n =>
                  h[T] = IF T = {} THEN p ELSE Turn(op, z, a, h[T \ {c[T]}], q[c[T]])
           N == {n \in Nat : \E h : h = [T \in SUBSET S |-> h[T]] /\ Fit(h, n)}
<1>1. \A T \in SUBSET S : IsFiniteSet(T) /\ Cardinality(T) \in Nat
  BY FS_Subset, FS_CardinalityType
<1>2. \A T \in SUBSET S : T # {} =>
         /\ T \ {c[T]} \in SUBSET S
         /\ Cardinality(T \ {c[T]}) = Cardinality(T) - 1
  BY <1>1, FS_RemoveElement DEF Chooses
<1>3. 0 \in N
  <2> DEFINE h == [T \in SUBSET S |-> p]
  <2>1. \A T \in SUBSET S : Cardinality(T) <= 0 => T = {}
    BY <1>1, FS_EmptySet
  <2>2. Fit(h, 0)
    BY <2>1
  <2>3. h = [T \in SUBSET S |-> h[T]]
    OBVIOUS
  <2> HIDE DEF h
  <2> QED
    BY <2>2, <2>3
<1>4. ASSUME NEW n \in Nat, n \in N
      PROVE  n + 1 \in N
  <2>1. PICK h : h = [T \in SUBSET S |-> h[T]] /\ Fit(h, n)
    BY <1>4
  <2> DEFINE k == [T \in SUBSET S |-> IF T # {} /\ Cardinality(T) = n + 1
                                      THEN Turn(op, z, a, h[T \ {c[T]}], q[c[T]]) ELSE h[T]]
  <2>2. \A T \in SUBSET S : Cardinality(T) <= n => k[T] = h[T]
    BY <1>1
  <2>3. ASSUME NEW T \in SUBSET S, Cardinality(T) <= n + 1, T # {}
        PROVE  k[T] = Turn(op, z, a, k[T \ {c[T]}], q[c[T]])
    <3>1. k[T \ {c[T]}] = h[T \ {c[T]}]
      BY <1>1, <1>2, <2>2, <2>3
    <3>2. CASE Cardinality(T) = n + 1
      <4>1. k[T] = Turn(op, z, a, h[T \ {c[T]}], q[c[T]])
        BY <2>3, <3>2
      <4> HIDE DEF k
      <4> QED
        BY <3>1, <4>1
    <3>3. CASE Cardinality(T) # n + 1
      <4>1. Cardinality(T) <= n
        BY <1>1, <2>3, <3>3
      <4> HIDE DEF k
      <4> QED
        BY <2>1, <2>2, <2>3, <3>1, <4>1
    <3> QED
      BY <3>2, <3>3
  <2>4. k[{}] = p
    <3>1. Cardinality({}) <= n /\ {} \in SUBSET S
      BY FS_EmptySet
    <3> HIDE DEF k
    <3> QED
      BY <2>1, <2>2, <3>1
  <2>5. k = [T \in SUBSET S |-> k[T]]
    OBVIOUS
  <2> HIDE DEF k
  <2>6. Fit(k, n + 1)
    BY <2>3, <2>4
  <2> HIDE DEF Fit
  <2> QED
    BY <2>5, <2>6
<1>5. Cardinality(S) \in N
  <2> HIDE DEF N
  <2> QED
    BY <1>1, <1>3, <1>4, NumbersInduction
<1>6. PICK h : h = [T \in SUBSET S |-> h[T]] /\ Fit(h, Cardinality(S))
  BY <1>5
<1>7. \A T \in SUBSET S : Cardinality(T) <= Cardinality(S)
  BY FS_Subset
<1>8. \A T \in SUBSET S : h[T] = IF T = {} THEN p ELSE Turn(op, z, a, h[T \ {c[T]}], q[c[T]])
  BY <1>6, <1>7
<1>9. Taken(h, op, z, a, q, p, c, S)
  BY <1>6, <1>8 DEF Taken
<1> QED
  BY <1>9

\* From the first to the last, what holds before the first turn and is kept
\* by every turn holds after the last one.
LEMMA LeftTurns ==
    ASSUME NEW n \in Nat, NEW op, NEW z, NEW a, NEW q, NEW p, NEW h,
           Taken(h, op, z, a, q, p, LastChoice(n), 1..n), NEW R, <<0, p>> \in R,
           \A i \in 1..n : \A t : <<i - 1, t>> \in R => <<i, Turn(op, z, a, t, q[i])>> \in R
    PROVE  <<n, h[1..n]>> \in R
<1> DEFINE N == {i \in Nat : i <= n => <<i, h[1..i]>> \in R}
<1>1. 0 \in N
  <2>1. 1..0 = {} /\ {} \in SUBSET (1..n)
    OBVIOUS
  <2>2. h[{}] = p
    BY <2>1 DEF Taken
  <2> QED
    BY <2>1, <2>2
<1>2. ASSUME NEW i \in Nat, i \in N
      PROVE  i + 1 \in N
  <2>1. SUFFICES ASSUME i + 1 <= n
                 PROVE  <<i + 1, h[1..(i + 1)]>> \in R
    OBVIOUS
  <2> DEFINE T == 1..(i + 1)
  <2>2. T \in SUBSET (1..n) /\ T # {} /\ i + 1 \in T /\ T \ {i + 1} = 1..i
    BY <2>1
  <2>3. LastChoice(n)[T] = i + 1
    <3>1. Max(T) = i + 1
      <4>1. Max(T) \in T /\ \A y \in T : y <= Max(T)
        <5>1. T \in SUBSET (0..(i + 1)) /\ i + 1 \in Nat
          OBVIOUS
        <5> HIDE DEF T
        <5> QED
          BY <2>2, <5>1, GreatestElement
      <4> QED
        BY <4>1
    <3> HIDE DEF T
    <3> QED
      BY <2>2, <3>1 DEF LastChoice
  <2> HIDE DEF T
  <2>4. h[T] = Turn(op, z, a, h[1..i], q[i + 1])
    BY <2>2, <2>3 DEF Taken
  <2>5. <<(i + 1) - 1, h[1..i]>> \in R
    <3>1. (i + 1) - 1 = i /\ i <= n
      BY <2>1
    <3> QED
      BY <1>2, <3>1
  <2>6. i + 1 \in 1..n
    BY <2>1
  <2> QED
    BY <2>4, <2>5, <2>6 DEF T
<1> HIDE DEF N
<1>3. n \in N
  BY <1>1, <1>2, NumbersInduction
<1> QED
  BY <1>3 DEF N

\* And from the last to the first.
LEMMA RightTurns ==
    ASSUME NEW n \in Nat, NEW op, NEW z, NEW a, NEW q, NEW p, NEW h,
           Taken(h, op, z, a, q, p, FirstChoice(n), 1..n), NEW R, <<n, p>> \in R,
           \A i \in 1..n : \A t : <<i, t>> \in R => <<i - 1, Turn(op, z, a, t, q[i])>> \in R
    PROVE  <<0, h[1..n]>> \in R
<1> DEFINE N == {i \in Nat : i <= n => <<n - i, h[(n - i + 1)..n]>> \in R}
<1>1. 0 \in N
  <2>1. (n - 0 + 1)..n = {} /\ {} \in SUBSET (1..n) /\ n - 0 = n
    OBVIOUS
  <2>2. h[{}] = p
    BY <2>1 DEF Taken
  <2> QED
    BY <2>1, <2>2
<1>2. ASSUME NEW i \in Nat, i \in N
      PROVE  i + 1 \in N
  <2>1. SUFFICES ASSUME i + 1 <= n
                 PROVE  <<n - (i + 1), h[(n - (i + 1) + 1)..n]>> \in R
    OBVIOUS
  <2> DEFINE j == n - i
             T == j..n
  <2>2. j \in 1..n /\ n - (i + 1) = j - 1 /\ n - (i + 1) + 1 = j /\ n - i + 1 = j + 1
    BY <2>1
  <2> HIDE DEF j
  <2>3. T \in SUBSET (1..n) /\ T # {} /\ j \in T /\ T \ {j} = (j + 1)..n
        /\ \A y \in T : j <= y
    BY <2>2
  <2> HIDE DEF T
  <2>4. FirstChoice(n)[T] = j
    <3>1. FirstChoice(n)[T] \in T /\ FirstChoice(n)[T] <= j
      BY <2>3, FirstChoiceMade DEF Chooses
    <3> QED
      BY <2>2, <2>3, <3>1
  <2>5. h[T] = Turn(op, z, a, h[(j + 1)..n], q[j])
    BY <2>3, <2>4 DEF Taken
  <2>6. <<j, h[(j + 1)..n]>> \in R
    BY <1>2, <2>1, <2>2 DEF j
  <2> QED
    BY <2>2, <2>5, <2>6 DEF T
<1> HIDE DEF N
<1>3. n \in N
  BY <1>1, <1>2, NumbersInduction
<1>4. n - n = 0 /\ n - n + 1 = 1
  OBVIOUS
<1> QED
  BY <1>3, <1>4 DEF N

\* The folds of the module, each with the name of its turns.
AllCut(p, a, q) ==
    FoldLeft(LAMBDA s, e : Reduce(UnciteLien(s, e.lien, a), a, "heap", ExtentSize), p, q)
AllBare(p, a, q) == FoldLeft(LAMBDA s, o : DestroyHeader(s, a, o), p, q)
AllAdded(p, z, q) ==
    FoldLeft(LAMBDA t, x : AddExtent(CiteLien(t, x.lien, t.zcos[z].acct), z, x), p, q)
AllBonded(p, z, q) == FoldRight(LAMBDA o, t : BondHeader(t, z, o), q, p)

FromLeft(u, op, z, a, q, p) ==
    \E h : /\ Taken(h, op, z, a, q, p, LastChoice(Len(q)), 1..Len(q))
           /\ u = h[1..Len(q)]
FromRight(u, op, z, a, q, p) ==
    \E h : /\ Taken(h, op, z, a, q, p, FirstChoice(Len(q)), 1..Len(q))
           /\ u = h[1..Len(q)]

\* What the folds of the library iterate, with the choices that they make.
LastIteration(f, op, z, a, q, p) ==
    f = [T \in SUBSET (1..Len(q)) |->
            IF T = {} THEN p ELSE Turn(op, z, a, f[T \ {Max(T)}], q[Max(T)])]
FirstIteration(f, op, z, a, q, p) ==
    f = [T \in SUBSET (1..Len(q)) |->
            IF T = {} THEN p ELSE Turn(op, z, a, f[T \ {Min(T)}], q[Min(T)])]

\* The iterations that the folds are defined by are such functions.
LEMMA IterationsTaken ==
    ASSUME NEW q, Len(q) \in Nat, NEW op, NEW z, NEW a, NEW p
    PROVE  /\ \E f : LastIteration(f, op, z, a, q, p)
           /\ \E f : FirstIteration(f, op, z, a, q, p)
           /\ \A f : LastIteration(f, op, z, a, q, p) => FromLeft(f[1..Len(q)], op, z, a, q, p)
           /\ \A f : FirstIteration(f, op, z, a, q, p) => FromRight(f[1..Len(q)], op, z, a, q, p)
<1> DEFINE L == LastChoice(Len(q))
           F == FirstChoice(Len(q))
           S == 1..Len(q)
<1>1. \A T \in SUBSET S : L[T] = Max(T) /\ F[T] = Min(T)
  BY DEF LastChoice, FirstChoice
<1>2. IsFiniteSet(S) /\ Chooses(L, S) /\ Chooses(F, S)
  BY FS_Interval, ChoicesMade, FirstChoiceMade
<1> HIDE DEF L, F
<1>3. \A f : /\ LastIteration(f, op, z, a, q, p) <=> Taken(f, op, z, a, q, p, L, S)
             /\ FirstIteration(f, op, z, a, q, p) <=> Taken(f, op, z, a, q, p, F, S)
  BY <1>1 DEF Taken, LastIteration, FirstIteration
<1>4. (\E f : Taken(f, op, z, a, q, p, L, S)) /\ (\E f : Taken(f, op, z, a, q, p, F, S))
  <2> HIDE DEF S
  <2> QED
    BY <1>2, TurnsTaken
<1> QED
  BY <1>3, <1>4 DEF FromLeft, FromRight, L, F

\* All extents are cut by turns from the left.
LEMMA Cutting ==
    ASSUME NEW q, Len(q) \in Nat, DOMAIN q = 1..Len(q), NEW p, NEW a
    PROVE  FromLeft(AllCut(p, a, q), "cut", 0, a, q, p)
<1> DEFINE g == CHOOSE f : LastIteration(f, "cut", 0, a, q, p)
<1>1. AllCut(p, a, q) = g[1..Len(q)]
  BY DEF AllCut, FoldLeft, MapThenFoldSet, Turn, LastIteration
<1>2. LastIteration(g, "cut", 0, a, q, p)
  BY IterationsTaken
<1> HIDE DEF g
<1> QED
  BY <1>1, <1>2, IterationsTaken

\* All headers are destroyed by turns from the left.
LEMMA Baring ==
    ASSUME NEW q, Len(q) \in Nat, DOMAIN q = 1..Len(q), NEW p, NEW a
    PROVE  FromLeft(AllBare(p, a, q), "bare", 0, a, q, p)
<1> DEFINE g == CHOOSE f : LastIteration(f, "bare", 0, a, q, p)
<1>1. AllBare(p, a, q) = g[1..Len(q)]
  BY DEF AllBare, FoldLeft, MapThenFoldSet, Turn, LastIteration
<1>2. LastIteration(g, "bare", 0, a, q, p)
  BY IterationsTaken
<1> HIDE DEF g
<1> QED
  BY <1>1, <1>2, IterationsTaken

\* Pieces are added by turns from the left.
LEMMA Adding ==
    ASSUME NEW q, Len(q) \in Nat, DOMAIN q = 1..Len(q), NEW p, NEW z
    PROVE  FromLeft(AllAdded(p, z, q), "extend", z, 0, q, p)
<1> DEFINE g == CHOOSE f : LastIteration(f, "extend", z, 0, q, p)
<1>1. AllAdded(p, z, q) = g[1..Len(q)]
  BY DEF AllAdded, FoldLeft, MapThenFoldSet, Turn, LastIteration
<1>2. LastIteration(g, "extend", z, 0, q, p)
  BY IterationsTaken
<1> HIDE DEF g
<1> QED
  BY <1>1, <1>2, IterationsTaken

\* Headers are bonded by turns from the right.
LEMMA Bonding ==
    ASSUME NEW q, Len(q) \in Nat, DOMAIN q = 1..Len(q), NEW p, NEW z
    PROVE  FromRight(AllBonded(p, z, q), "bond", z, 0, q, p)
<1> DEFINE g == CHOOSE f : FirstIteration(f, "bond", z, 0, q, p)
<1>1. AllBonded(p, z, q) = g[1..Len(q)]
  BY DEF AllBonded, FoldRight, MapThenFoldSet, Turn, FirstIteration
<1>2. FirstIteration(g, "bond", z, 0, q, p)
  BY IterationsTaken
<1> HIDE DEF g
<1> QED
  BY <1>1, <1>2, IterationsTaken

\* The start of a walk.
Setting(offset, length) == [skip |-> offset, todo |-> length, taken |-> <<>>]

\* A walk is made by turns from the left.
LEMMA Walking ==
    ASSUME NEW q, Len(q) \in Nat, DOMAIN q = 1..Len(q), NEW offset, NEW length
    PROVE  \E w : /\ FromLeft(w, "walk", 0, 0, q, Setting(offset, length))
                 /\ Walk(q, offset, length) = w.taken
<1> DEFINE p == Setting(offset, length)
           g == CHOOSE f : LastIteration(f, "walk", 0, 0, q, p)
<1>1. Walk(q, offset, length) = g[1..Len(q)].taken
  BY DEF Walk, Setting, FoldLeft, MapThenFoldSet, Turn, Past, LastIteration
<1>2. LastIteration(g, "walk", 0, 0, q, p)
  BY IterationsTaken
<1> HIDE DEF g
<1> QED
  BY <1>1, <1>2, IterationsTaken

(***************************************************************************)
(* What a walk takes and what the extents amount to.                       *)
(***************************************************************************)
\* A piece p of an extent e: under its lien and within its bounds.
Within(p, e) == p.lien = e.lien /\ p.offset + p.length <= e.offset + e.length

Walks(q) == {w \in [skip : Nat, todo : Nat, taken : Seq(ZcoExtents)] :
               \A j \in DOMAIN w.taken : \E k \in DOMAIN q : Within(w.taken[j], q[k])}

\* Each turn of a walk takes a piece from within the extent it passes.
LEMMA PastInside ==
    ASSUME NEW q \in Seq(ZcoExtents), NEW i \in DOMAIN q, NEW w \in Walks(q)
    PROVE  Past(w, q[i]) \in Walks(q)
<1> DEFINE p == q[i]
<1>1. /\ p \in ZcoExtents /\ p.offset \in Nat /\ p.length \in Nat /\ w.skip \in Nat /\ w.todo \in Nat
      /\ w.taken \in Seq(ZcoExtents)
  <2>1. p \in ZcoExtents
    OBVIOUS
  <2>2. w \in [skip : Nat, todo : Nat, taken : Seq(ZcoExtents)]
    BY DEF Walks
  <2> HIDE DEF p
  <2> QED
    BY <2>1, <2>2 DEF ZcoExtents
<1>2. CASE w.todo = 0
  BY <1>2 DEF Past
<1>3. CASE w.todo # 0 /\ w.skip >= p.length
  <2>1. Past(w, p) = [w EXCEPT !.skip = w.skip - p.length]
    BY <1>3 DEF Past
  <2>2. w.skip - p.length \in Nat
    BY <1>1, <1>3
  <2> QED
    BY <2>1, <2>2 DEF Walks
<1>4. CASE w.todo # 0 /\ w.skip < p.length
  <2> DEFINE m == p.length - w.skip
             n == Min({m, w.todo})
             e == [p EXCEPT !.offset = @ + w.skip, !.length = n]
             t == Append(w.taken, e)
  <2>1. n \in Nat /\ n <= m /\ n <= w.todo
    <3>1. m \in Nat /\ w.todo \in Nat
      BY <1>1, <1>4
    <3> DEFINE T == {m, w.todo}
    <3>2. T \in SUBSET Nat /\ T # {}
      BY <3>1
    <3> HIDE DEF T, m
    <3>3. Min(T) \in T /\ \A y \in T : Min(T) <= y
      BY <3>2, SmallestElement DEF Min
    <3> QED
      BY <3>1, <3>3 DEF T
  <2> HIDE DEF n
  <2>2. e \in ZcoExtents /\ Within(e, p)
    <3>1. e = [lien |-> p.lien, offset |-> p.offset + w.skip, length |-> n]
      <4>1. p \in [lien : LienIds, offset : Nat, length : Nat]
        BY <1>1 DEF ZcoExtents
      <4> DEFINE f == p.offset + w.skip
      <4>2. e = [p EXCEPT !.offset = f, !.length = n]
        BY <4>1
      <4> HIDE DEF p, f, e
      <4>3. e = [lien |-> p.lien, offset |-> f, length |-> n]
        BY <4>1, <4>2
      <4> QED
        BY <4>3 DEF f
    <3>2. e.lien = p.lien /\ e.offset = p.offset + w.skip /\ e.length = n /\ p.lien \in LienIds
      BY <1>1, <3>1 DEF ZcoExtents
    <3> HIDE DEF e, p
    <3>3. e.offset \in Nat
      BY <1>1, <3>2
    <3>4. e \in ZcoExtents
      BY <2>1, <3>1, <3>2, <3>3 DEF ZcoExtents
    <3>5. e.offset + e.length <= p.offset + p.length
      BY <1>1, <2>1, <3>2
    <3> QED
      BY <3>2, <3>4, <3>5 DEF Within
  <2>3. Past(w, p) = [skip |-> 0, todo |-> w.todo - n, taken |-> t]
    BY <1>1, <1>4 DEF Past, n
  <2> HIDE DEF e, p
  <2>4. t \in Seq(ZcoExtents) /\ w.todo - n \in Nat
    BY <1>1, <2>1, <2>2
  <2>5. ASSUME NEW j \in DOMAIN t
        PROVE  \E k \in DOMAIN q : Within(t[j], q[k])
    <3>1. t[j] = e \/ (j \in DOMAIN w.taken /\ t[j] = w.taken[j])
      BY <1>1, <2>2
    <3>2. CASE t[j] = e
      BY <2>2, <3>2 DEF p
    <3>3. CASE j \in DOMAIN w.taken /\ t[j] = w.taken[j]
      BY <3>3 DEF Walks
    <3> QED
      BY <3>1, <3>2, <3>3
  <2> HIDE DEF t
  <2> QED
    BY <2>3, <2>4, <2>5 DEF Walks, p
<1> QED
  BY <1>1, <1>2, <1>3, <1>4

\* What a walk takes of the extents are pieces of theirs.
LEMMA WalkInside ==
    ASSUME NEW q \in Seq(ZcoExtents), NEW offset \in Nat, NEW length \in Nat
    PROVE  /\ Walk(q, offset, length) \in Seq(ZcoExtents)
           /\ \A j \in DOMAIN Walk(q, offset, length) : \E k \in DOMAIN q :
                 Within(Walk(q, offset, length)[j], q[k])
<1> DEFINE n == Len(q)
           p == Setting(offset, length)
           R == (0..n) \X Walks(q)
<1>1. n \in Nat /\ DOMAIN q = 1..n
  OBVIOUS
<1>2. PICK w : FromLeft(w, "walk", 0, 0, q, p) /\ Walk(q, offset, length) = w.taken
  BY <1>1, Walking
<1>3. PICK h : Taken(h, "walk", 0, 0, q, p, LastChoice(n), 1..n) /\ w = h[1..n]
  BY <1>2 DEF FromLeft
<1>4. p \in Walks(q)
  BY DEF Setting, Walks
<1>5. ASSUME NEW i \in 1..n, NEW t, <<i - 1, t>> \in R
      PROVE  <<i, Turn("walk", 0, 0, t, q[i])>> \in R
  <2>1. Turn("walk", 0, 0, t, q[i]) = Past(t, q[i])
    BY DEF Turn
  <2>2. Past(t, q[i]) \in Walks(q)
    BY <1>1, <1>5, PastInside
  <2> QED
    BY <1>1, <2>1, <2>2
<1>6. <<0, p>> \in R
  BY <1>1, <1>4
<1> HIDE DEF R, p, n
<1>7. <<n, h[1..n]>> \in R
  BY <1>1, <1>3, <1>5, <1>6, LeftTurns
<1>8. w \in Walks(q)
  BY <1>3, <1>7 DEF R
<1> QED
  BY <1>2, <1>8 DEF Walks

\* The turns for the members of a set, in any order.
Carried(R, S, op, z, a, q) ==
    \A T \in SUBSET S : \A x \in T : \A t :
       <<T \ {x}, t>> \in R => <<T, Turn(op, z, a, t, q[x])>> \in R

\* What each turn carries on is so at the end, whatever the order.
LEMMA SetTurns ==
    ASSUME NEW S, IsFiniteSet(S), NEW c, Chooses(c, S), NEW op, NEW z, NEW a, NEW q, NEW p,
           NEW h, Taken(h, op, z, a, q, p, c, S), NEW R, <<{}, p>> \in R,
           Carried(R, S, op, z, a, q)
    PROVE  <<S, h[S]>> \in R
<1> DEFINE F == {T \in SUBSET S : <<T, h[T]>> \in R}
<1>1. {} \in F
  BY DEF Taken
<1>2. ASSUME NEW T \in SUBSET S, T # {}, T \ {c[T]} \in F
      PROVE  T \in F
  <2>1. c[T] \in T
    BY <1>2 DEF Chooses
  <2>2. h[T] = Turn(op, z, a, h[T \ {c[T]}], q[c[T]])
    BY <1>2 DEF Taken
  <2> QED
    BY <1>2, <2>1, <2>2 DEF Carried
<1> HIDE DEF F
<1>3. S \in F
  BY <1>1, <1>2, ChoiceInduction
<1> QED
  BY <1>3 DEF F

\* No ZCO has more extents than there are in all.
LEMMA ExtentsBelow ==
    ASSUME Live \subseteq ZcoIds, \A z \in Live : Len(zcos[z].extents) \in Nat
    PROVE  Extents \in Nat /\ \A z \in Live : Len(zcos[z].extents) <= Extents
<1> DEFINE S == Live
           q == [z \in S |-> Len(zcos[z].extents)]
           c == SetChoice(S)
           Iter(f) == f = [T \in SUBSET S |->
                             IF T = {} THEN 0
                             ELSE LET x == CHOOSE x \in T : TRUE
                                  IN f[T \ {x}] + Len(zcos[x].extents)]
           g == CHOOSE f : Iter(f)
           R == {r \in (SUBSET S) \X Nat : \A z \in r[1] : q[z] <= r[2]}
<1>1. IsFiniteSet(S) /\ Chooses(c, S)
  BY Addresses, FS_Subset, ChoicesMade
<1>2. Extents = g[S]
  BY DEF Extents, FoldSet, MapThenFoldSet
<1>3. \A T \in SUBSET S : T # {} => c[T] = (CHOOSE x \in T : TRUE) /\ c[T] \in S
                                    /\ q[c[T]] = Len(zcos[c[T]].extents)
  BY <1>1 DEF SetChoice, Chooses
<1> HIDE DEF c, q
<1>4. \A f : Iter(f) <=> Taken(f, "count", 0, 0, q, 0, c, S)
  <2> SUFFICES ASSUME NEW f
               PROVE  Iter(f) <=> Taken(f, "count", 0, 0, q, 0, c, S)
    OBVIOUS
  <2>1. \A T \in SUBSET S :
           (IF T = {} THEN 0 ELSE LET x == CHOOSE x \in T : TRUE
                                  IN f[T \ {x}] + Len(zcos[x].extents))
           = IF T = {} THEN 0 ELSE Turn("count", 0, 0, f[T \ {c[T]}], q[c[T]])
    <3> SUFFICES ASSUME NEW T \in SUBSET S, T # {}
                 PROVE  f[T \ {CHOOSE x \in T : TRUE}] + Len(zcos[CHOOSE x \in T : TRUE].extents)
                          = Turn("count", 0, 0, f[T \ {c[T]}], q[c[T]])
      OBVIOUS
    <3>1. Turn("count", 0, 0, f[T \ {c[T]}], q[c[T]]) = f[T \ {c[T]}] + q[c[T]]
      BY DEF Turn
    <3> HIDE DEF S
    <3> QED
      BY <1>3, <3>1
  <2> HIDE DEF S
  <2> QED
    BY <2>1 DEF Taken
<1>5. Taken(g, "count", 0, 0, q, 0, c, S)
  <2>1. \E f : Taken(f, "count", 0, 0, q, 0, c, S)
    BY <1>1, TurnsTaken
  <2>2. \E f : Iter(f)
    <3> HIDE DEF Iter
    <3> QED
      BY <1>4, <2>1
  <2>3. Iter(g)
    <3> HIDE DEF Iter
    <3> QED
      BY <2>2
  <2> HIDE DEF g, Iter
  <2> QED
    BY <1>4, <2>3
<1> HIDE DEF g
<1>6. \A z \in S : q[z] \in Nat /\ q[z] = Len(zcos[z].extents)
  BY DEF q
<1> HIDE DEF S
<1>7. <<{}, 0>> \in R
  OBVIOUS
<1>8. ASSUME NEW T \in SUBSET S, NEW x \in T, NEW t, <<T \ {x}, t>> \in R
      PROVE  <<T, Turn("count", 0, 0, t, q[x])>> \in R
  <2>1. Turn("count", 0, 0, t, q[x]) = t + q[x] /\ t \in Nat /\ q[x] \in Nat
    BY <1>6, <1>8 DEF Turn
  <2>2. \A z \in T \ {x} : q[z] <= t
    BY <1>8
  <2>3. \A z \in T : q[z] <= t + q[x]
    BY <1>6, <2>1, <2>2
  <2> QED
    BY <2>1, <2>3
<1> HIDE DEF R, q, Iter
<1>9. Carried(R, S, "count", 0, 0, q)
  BY <1>8 DEF Carried
<1>10. <<S, g[S]>> \in R
  BY <1>1, <1>5, <1>7, <1>9, SetTurns
<1> QED
  BY <1>2, <1>6, <1>10 DEF R, S

(***************************************************************************)
(* The operations on sound stores.                                         *)
(***************************************************************************)
\* The ZCO at z gets n extents, and the other ZCOs stay.
Grown(u, s, z, n) ==
    /\ Sound(u) /\ u.zcos[z] # NoZco
    /\ Len(u.zcos[z].extents) = Len(s.zcos[z].extents) + n
    /\ \A k \in ZcoIds \ {z} : u.zcos[k] = s.zcos[k]

\* There are bytes for an extent.
Standing(s, e) ==
    /\ s.liens[e.lien] # NoLien /\ s.refs[s.liens[e.lien].ref] # NoRef
    /\ e.offset + e.length <= Length[s.liens[e.lien].ref]

\* Whatever has bytes in a store has them in another.
Keeps(u, s) ==
    /\ \A k \in LienIds : s.liens[k] # NoLien =>
          u.liens[k] # NoLien /\ u.liens[k].ref = s.liens[k].ref
    /\ \A o \in Objects : s.refs[o] # NoRef => u.refs[o] # NoRef

\* What stands goes on standing in a store that keeps liens and references.
LEMMA KeepsStanding ==
    ASSUME NEW s \in Stores, NEW u, Keeps(u, s), NEW e \in ZcoExtents, Standing(s, e)
    PROVE  Standing(u, e)
<1>1. e.lien \in LienIds
  BY DEF ZcoExtents
<1>2. s.liens[e.lien].ref \in Objects
  BY <1>1, CountsTyped DEF Standing
<1> QED
  BY <1>1, <1>2 DEF Standing, Keeps

\* All the pieces of a walk, added one after another.
LEMMA AllAddedDone ==
    ASSUME NEW s, Sound(s), NEW z \in ZcoIds, s.zcos[z] # NoZco,
           NEW q \in Seq(ZcoExtents), \A i \in DOMAIN q : Standing(s, q[i])
    PROVE  Grown(AllAdded(s, z, q), s, z, Len(q))
<1> DEFINE n == Len(q)
           P(i, t) == Grown(t, s, z, i) /\ Keeps(t, s)
           R == {r \in (0..n) \X Stores : P(r[1], r[2])}
<1>1. n \in Nat /\ DOMAIN q = 1..n
  OBVIOUS
<1>2. PICK h : /\ Taken(h, "extend", z, 0, q, s, LastChoice(n), 1..n)
               /\ AllAdded(s, z, q) = h[1..n]
  BY <1>1, Adding DEF FromLeft
<1>3. s \in Stores /\ \A k \in ZcoIds : s.zcos[k] # NoZco => Len(s.zcos[k].extents) \in Nat
  <2>1. s \in Stores /\ s.zcos \in ZcoTables
    BY DEF Sound, SoundWith
  <2>2. \A k \in ZcoIds : s.zcos[k] # NoZco => s.zcos[k] \in Zcos
    BY <2>1 DEF ZcoTables
  <2> QED
    BY <2>1, <2>2, ZcoTyped
<1>4. <<0, s>> \in R
  BY <1>1, <1>3 DEF Grown, Keeps
<1>5. ASSUME NEW i \in 1..n, NEW t, <<i - 1, t>> \in R
      PROVE  <<i, Turn("extend", z, 0, t, q[i])>> \in R
  <2> DEFINE e == q[i]
             u == AddExtent(CiteLien(t, e.lien, t.zcos[z].acct), z, e)
  <2>1. t \in Stores /\ Grown(t, s, z, i - 1) /\ Keeps(t, s)
    BY <1>5
  <2>2. e \in ZcoExtents /\ Standing(s, e)
    BY <1>1
  <2>3. Turn("extend", z, 0, t, e) = u
    BY DEF Turn
  <2> HIDE DEF e, R
  <2>4. Standing(t, e)
    BY <1>3, <2>1, <2>2, KeepsStanding
  <2>5. Added(u, t, z, e, {}, {})
    <3>1. SoundWith(t, t.zcos, {}, {}) /\ t.zcos[z] # NoZco
      BY <2>1 DEF Grown, Sound
    <3> HIDE DEF u
    <3>2. Added(AddExtent(CiteLien(t, e.lien, t.zcos[z].acct), z, e), t, z, e, {}, {})
      BY <2>2, <2>4, <3>1, ExtentAdded DEF Standing
    <3> QED
      BY <3>2 DEF u
  <2> HIDE DEF u
  <2>6. Sound(u) /\ u \in Stores
    <3>1. {} \ {e.lien} = {} /\ {} \ {t.liens[e.lien].ref} = {}
      OBVIOUS
    <3> QED
      BY <2>5, <3>1 DEF Added, Sound, SoundWith
  <2>7. /\ t.zcos[z] \in Zcos /\ u.zcos[z] = Longer(t.zcos[z], e)
        /\ \A k \in ZcoIds \ {z} : u.zcos[k] = t.zcos[k]
    <3>1. t.zcos \in ZcoTables /\ t.zcos[z] # NoZco
      BY <2>1 DEF Stores, ZcoTables, Grown
    <3> QED
      BY <2>5, <3>1 DEF Added, ZcoTables
  <2>8. u.zcos[z] # NoZco /\ Len(u.zcos[z].extents) = Len(t.zcos[z].extents) + 1
    <3>1. u.zcos[z] \in Zcos /\ u.zcos[z].extents = Append(t.zcos[z].extents, e)
      <4>1. t.zcos[z] \in Zcos /\ u.zcos[z] = Longer(t.zcos[z], e)
        BY <2>7
      <4>2. /\ Longer(t.zcos[z], e) \in Zcos
            /\ Longer(t.zcos[z], e).extents = Append(t.zcos[z].extents, e)
        BY <2>2, <4>1, LongerTyped
      <4> QED
        BY <4>1, <4>2
    <3>2. t.zcos[z].extents \in Seq(ZcoExtents)
      BY <2>7, ZcoTyped
    <3> QED
      BY <3>1, <3>2, EntriesReal
  <2>9. Len(u.zcos[z].extents) = Len(s.zcos[z].extents) + i
    <3>1. Len(t.zcos[z].extents) = Len(s.zcos[z].extents) + (i - 1)
      BY <2>1 DEF Grown
    <3> QED
      BY <1>1, <1>3, <2>8, <3>1
  <2>10. Grown(u, s, z, i)
    BY <2>1, <2>6, <2>7, <2>8, <2>9 DEF Grown
  <2>11. Keeps(u, s)
    <3>1. \A k \in LienIds : s.liens[k] # NoLien =>
             u.liens[k] # NoLien /\ u.liens[k].ref = s.liens[k].ref
      BY <2>1, <2>5 DEF Keeps, Added
    <3>2. \A o \in Objects : s.refs[o] # NoRef => u.refs[o] # NoRef
      BY <2>1, <2>5 DEF Keeps, Added
    <3> QED
      BY <3>1, <3>2 DEF Keeps
  <2>12. <<i, u>> \in R
    <3>1. <<i, u>> \in (0..n) \X Stores
      BY <1>1, <2>6
    <3> QED
      BY <2>10, <2>11, <3>1 DEF R
  <2> QED
    BY <2>3, <2>12 DEF e
<1> HIDE DEF R
<1>6. <<n, h[1..n]>> \in R
  <2> HIDE DEF n
  <2> QED
    BY <1>1, <1>2, <1>4, <1>5, LeftTurns
<1> QED
  BY <1>2, <1>6 DEF R

\* The first i headers of the ZCO at z are left; the others are extents, and
\* the store is sound with y for the ZCO.
FreeIn(t) == {l \in LienIds : t.liens[l] = NoLien}

Left(t, s, z, i, y) ==
    /\ y \in Zcos /\ y.acct = s.zcos[z].acct /\ y.totalLength = s.zcos[z].totalLength
    /\ y.headers = SubSeq(s.zcos[z].headers, 1, i)
    /\ Len(y.extents) = Len(s.zcos[z].extents) + (Len(s.zcos[z].headers) - i)
    /\ SoundWith(t, [s.zcos EXCEPT ![z] = y], {}, {})
    /\ t.zcos = [s.zcos EXCEPT ![z] = [s.zcos[z] EXCEPT !.extents = y.extents]]
    /\ Cardinality(FreeIn(t)) >= i

\* What is left when the last of the headers is gone.
LEMMA FrontOf ==
    ASSUME NEW q \in Seq(Objects), NEW i \in 1..Len(q)
    PROVE  /\ SubSeq(q, 1, i) = Append(SubSeq(q, 1, i - 1), q[i]) /\ q[i] \in Objects
           /\ SubSeq(q, 1, i) \in Seq(Objects) /\ SubSeq(q, 1, i - 1) \in Seq(Objects)
<1>1. Len(q) \in Nat /\ i \in Nat /\ i - 1 \in Nat /\ i <= Len(q) /\ q[i] \in Objects
  OBVIOUS
<1>2. SubSeq(q, 1, i) \in Seq(Objects) /\ SubSeq(q, 1, i - 1) \in Seq(Objects)
  <2>1. \A j \in 1..i : q[j] \in Objects
    BY <1>1
  <2>2. \A j \in 1..(i - 1) : q[j] \in Objects
    BY <1>1
  <2> QED
    BY <1>1, <2>1, <2>2
<1>3. SubSeq(q, 1, i) = Append(SubSeq(q, 1, i - 1), q[i])
  BY <1>1, <1>2
<1> QED
  BY <1>1, <1>2, <1>3

\* The bond of a header takes the first free lien.
LEMMA LienTaken ==
    ASSUME NEW t, NEW n \in Nat, Cardinality(FreeIn(t)) >= n, n > 0
    PROVE  \E l \in LienIds : /\ NextLien(t, l) /\ t.liens[l] = NoLien
                              /\ Cardinality(FreeIn(t) \ {l}) >= n - 1
<1> DEFINE T == FreeIn(t)
           l == Min(T)
<1>1. IsFiniteSet(T) /\ T \in SUBSET LienIds /\ LienIds \in SUBSET Nat
  BY Addresses, FS_Subset, ZcoAssumption DEF FreeIn
<1>2. T # {}
  BY FS_EmptySet
<1>3. l \in T
  <2> HIDE DEF T
  <2>1. \E x \in T : \A y \in T : x <= y
    BY <1>1, <1>2, SmallestElement
  <2> QED
    BY <2>1 DEF Min
<1>4. NextLien(t, l)
  BY DEF NextLien, FreeIn
<1> HIDE DEF l
<1>5. t.liens[l] = NoLien
  BY <1>3 DEF FreeIn
<1>6. Cardinality(T \ {l}) = Cardinality(T) - 1 /\ Cardinality(T) \in Nat
  BY <1>1, <1>3, FS_RemoveElement, FS_CardinalityType
<1>7. Cardinality(T \ {l}) >= n - 1
  BY <1>6
<1> QED
  BY <1>1, <1>3, <1>4, <1>5, <1>7

\* The ZCO after the bond of its last header.
LEMMA MovedMade ==
    ASSUME NEW y \in Zcos, NEW q \in Seq(Objects), NEW o \in Objects, y.headers = Append(q, o),
           NEW l \in LienIds, Length[o] <= y.capsuleLength
    PROVE  \E x : Moved(x, y, o, l) /\ x.headers = q /\ Len(x.extents) = Len(y.extents) + 1
<1> DEFINE e == ExtentOf(l, 0, Length[o])
           E == <<e>> \o y.extents
           C == y.capsuleLength - Length[o]
           x == [y EXCEPT !.headers = q, !.extents = E, !.capsuleLength = C]
<1>1. e \in ZcoExtents
  BY Sizes DEF ExtentOf, ZcoExtents
<1>2. y.extents \in Seq(ZcoExtents) /\ y.capsuleLength \in Nat /\ Length[o] \in Nat
  BY ZcoTyped, Sizes
<1>3. E \in Seq(ZcoExtents) /\ Len(E) = Len(y.extents) + 1 /\ C \in Nat
  <2>1. C \in Nat
    BY <1>2
  <2> HIDE DEF e
  <2>2. <<e>> \in Seq(ZcoExtents) /\ Len(<<e>>) = 1
    BY <1>1
  <2>3. Len(E) = 1 + Len(y.extents) /\ E \in Seq(ZcoExtents) /\ Len(y.extents) \in Nat
    BY <1>2, <2>2
  <2> QED
    BY <2>1, <2>3
<1> HIDE DEF E, C
<1>4. x \in Zcos /\ x.headers = q /\ x.extents = E /\ x.capsuleLength = C /\ x.acct = y.acct
      /\ x.totalLength = y.totalLength
  BY <1>3 DEF Zcos
<1> HIDE DEF x
<1> QED
  BY <1>3, <1>4 DEF Moved, E, C

\* What the bond of the next header takes, and what it makes.
HeaderTaken(t, y, z, o, a, n, l) ==
    /\ l \in LienIds /\ t.liens[l] = NoLien /\ Cardinality(FreeIn(t) \ {l}) >= n
    /\ Length[o] <= y.capsuleLength /\ BondMade(BondHeader(t, z, o), t, z, o, a, l)

LEMMA NextBonded ==
    ASSUME NEW s, Sound(s), NEW z \in ZcoIds, s.zcos[z] # NoZco,
           NEW i \in 1..Len(s.zcos[z].headers), NEW t, NEW y, Left(t, s, z, i, y)
    PROVE  \E l : HeaderTaken(t, y, z, s.zcos[z].headers[i], s.zcos[z].acct, i - 1, l)
<1> DEFINE k == s.zcos[z]
           q == k.headers
           o == q[i]
           v == [s.zcos EXCEPT ![z] = y]
           u == BondHeader(t, z, o)
<1>1. k \in Zcos /\ q \in Seq(Objects) /\ Len(k.extents) \in Nat /\ s.zcos \in ZcoTables
  <2>1. s.zcos \in ZcoTables
    BY DEF Sound, SoundWith
  <2>2. k \in Zcos
    BY <2>1 DEF ZcoTables
  <2> QED
    BY <2>1, <2>2, ZcoTyped
<1>2. /\ y \in Zcos /\ y.acct = k.acct /\ y.totalLength = k.totalLength
      /\ y.headers = SubSeq(q, 1, i) /\ Len(y.extents) = Len(k.extents) + (Len(q) - i)
      /\ SoundWith(t, v, {}, {})
      /\ t.zcos = [s.zcos EXCEPT ![z] = [k EXCEPT !.extents = y.extents]]
      /\ Cardinality(FreeIn(t)) >= i
  BY DEF Left
<1>3. /\ y.headers = Append(SubSeq(q, 1, i - 1), o) /\ o \in Objects
      /\ SubSeq(q, 1, i - 1) \in Seq(Objects) /\ y.headers \in Seq(Objects)
  <2> HIDE DEF q
  <2> QED
    BY <1>1, <1>2, FrontOf DEF q
<1>4. i \in Nat /\ i > 0 /\ Len(q) \in Nat
  BY <1>1
<1> HIDE DEF o
<1>5. PICK l \in LienIds : /\ NextLien(t, l) /\ t.liens[l] = NoLien
                           /\ Cardinality(FreeIn(t) \ {l}) >= i - 1
  BY <1>2, <1>4, LienTaken
<1>6. v[z] = y /\ v[z] # NoZco /\ \A j \in ZcoIds \ {z} : v[j] = s.zcos[j]
  BY <1>1, <1>2, EntriesReal DEF ZcoTables
<1>7. o \in Bare(t) /\ Medium[o] = "heap" /\ Length[o] <= y.capsuleLength
  <2>1. HeadersOwned(Bare(t), v)
    BY <1>2 DEF SoundWith
  <2>2. o \in ToSet(y.headers) /\ ToSet(y.headers) \in SUBSET Objects
    <3> DEFINE p == SubSeq(q, 1, i - 1)
               r == y.headers
    <3>1. p \in Seq(Objects) /\ r = Append(p, o)
      BY <1>3
    <3> HIDE DEF p, r
    <3>2. ToSet(r) = ToSet(p) \cup {o} /\ r \in Seq(Objects)
      BY <1>3, <3>1, OneMore
    <3>3. ToSet(r) \in SUBSET Objects
      BY <3>2 DEF ToSet
    <3> QED
      BY <3>2, <3>3 DEF r
  <2>3. o \in Bare(t) /\ Medium[o] = "heap" /\ y.capsuleLength = SumOf(Length, ToSet(y.headers))
    BY <1>6, <2>1, <2>2 DEF HeadersOwned
  <2>4. Length[o] <= SumOf(Length, ToSet(y.headers))
    <3> DEFINE S == ToSet(y.headers)
    <3>1. IsFiniteSet(S) /\ \A j \in S : Length[j] \in Nat
      BY <2>2, Addresses, FS_Subset, Sizes
    <3>2. o \in S
      BY <2>2
    <3> HIDE DEF S
    <3>3. Length[o] <= SumOf(Length, S)
      BY <3>1, <3>2, SumAtLeast
    <3> QED
      BY <3>3 DEF S
  <2> QED
    BY <2>3, <2>4
<1>8. t \in Stores /\ t.refs[o] = NoRef /\ t.zcos[z] # NoZco /\ t.zcos[z].acct = k.acct
  <2>1. t \in Stores
    BY <1>2 DEF SoundWith
  <2>2. t.zcos[z] = [k EXCEPT !.extents = y.extents]
    BY <1>1, <1>2 DEF ZcoTables
  <2>3. t.zcos[z].acct = k.acct /\ t.zcos[z].is = "zco"
    BY <1>1, <2>2 DEF Zcos
  <2>4. t.zcos[z] # NoZco
    BY <2>3 DEF NoZco
  <2> QED
    BY <1>7, <2>1, <2>3, <2>4 DEF Bare
<1>9. BondMade(u, t, z, o, k.acct, l)
  <2>1. BondMade(BondHeader(t, z, o), t, z, o, t.zcos[z].acct, l)
    BY <1>3, <1>5, <1>7, <1>8, BondHeaderDone
  <2> QED
    BY <1>8, <2>1
<1> HIDE DEF u
<1>10. HeaderTaken(t, y, z, o, k.acct, i - 1, l)
  BY <1>5, <1>7, <1>9 DEF HeaderTaken, u
<1> QED
  BY <1>10 DEF o, q, k

\* One turn of bonding.
LEMMA BondTurn ==
    ASSUME NEW s, Sound(s), NEW z \in ZcoIds, s.zcos[z] # NoZco,
           NEW i \in 1..Len(s.zcos[z].headers), NEW t, NEW y, Left(t, s, z, i, y)
    PROVE  \E x : Left(BondHeader(t, z, s.zcos[z].headers[i]), s, z, i - 1, x)
<1> DEFINE k == s.zcos[z]
           q == k.headers
           o == q[i]
           v == [s.zcos EXCEPT ![z] = y]
           u == BondHeader(t, z, o)
<1>1. k \in Zcos /\ q \in Seq(Objects) /\ Len(k.extents) \in Nat /\ s.zcos \in ZcoTables
  <2>1. s.zcos \in ZcoTables
    BY DEF Sound, SoundWith
  <2>2. k \in Zcos
    BY <2>1 DEF ZcoTables
  <2> QED
    BY <2>1, <2>2, ZcoTyped
<1>2. /\ y \in Zcos /\ y.acct = k.acct /\ y.totalLength = k.totalLength
      /\ y.headers = SubSeq(q, 1, i) /\ Len(y.extents) = Len(k.extents) + (Len(q) - i)
      /\ SoundWith(t, v, {}, {})
      /\ t.zcos = [s.zcos EXCEPT ![z] = [k EXCEPT !.extents = y.extents]]
      /\ Cardinality(FreeIn(t)) >= i
  BY DEF Left
<1>3. /\ y.headers = Append(SubSeq(q, 1, i - 1), o) /\ o \in Objects
      /\ SubSeq(q, 1, i - 1) \in Seq(Objects) /\ y.headers \in Seq(Objects)
  <2> HIDE DEF q
  <2> QED
    BY <1>1, <1>2, FrontOf DEF q
<1>4. i \in Nat /\ i > 0 /\ Len(q) \in Nat
  BY <1>1
<1>5. PICK l : HeaderTaken(t, y, z, o, k.acct, i - 1, l)
  BY NextBonded
<1> HIDE DEF o
<1>6. v[z] = y /\ v[z] # NoZco /\ \A j \in ZcoIds \ {z} : v[j] = s.zcos[j]
  BY <1>1, <1>2, EntriesReal DEF ZcoTables
<1>7. /\ l \in LienIds /\ t.liens[l] = NoLien /\ Cardinality(FreeIn(t) \ {l}) >= i - 1
      /\ Length[o] <= y.capsuleLength
  BY <1>5 DEF HeaderTaken
<1>9. BondMade(u, t, z, o, k.acct, l)
  BY <1>5 DEF HeaderTaken
<1>10. PICK x : /\ Moved(x, y, o, l) /\ x.headers = SubSeq(q, 1, i - 1)
                /\ Len(x.extents) = Len(y.extents) + 1
  <2> DEFINE p == SubSeq(q, 1, i - 1)
  <2>1. p \in Seq(Objects) /\ y.headers = Append(p, o) /\ y \in Zcos
    BY <1>2, <1>3
  <2> HIDE DEF p, q, k
  <2>2. \E x : Moved(x, y, o, l) /\ x.headers = p /\ Len(x.extents) = Len(y.extents) + 1
    BY <1>3, <1>7, <2>1, MovedMade
  <2> QED
    BY <2>2 DEF p
<1> HIDE DEF u, v, q, k
<1>11. SoundWith(u, [v EXCEPT ![z] = x], {}, {})
  <2>1. BondMade(u, t, z, o, v[z].acct, l) /\ Moved(x, v[z], o, l)
    BY <1>2, <1>6, <1>9, <1>10
  <2> QED
    BY <1>2, <1>3, <1>6, <1>7, <2>1, HeaderBonded
<1>12. [v EXCEPT ![z] = x] = [s.zcos EXCEPT ![z] = x]
  BY DEF v
<1>13. u.zcos = [s.zcos EXCEPT ![z] = [k EXCEPT !.extents = x.extents]]
  <2>1. u.zcos = [t.zcos EXCEPT ![z].extents = <<ExtentOf(l, 0, Length[o])>> \o @]
    BY <1>9 DEF BondMade
  <2>2. x.extents = <<ExtentOf(l, 0, Length[o])>> \o y.extents
    BY <1>10 DEF Moved
  <2> DEFINE e == ExtentOf(l, 0, Length[o])
             g == [k EXCEPT !.extents = y.extents]
  <2>3. t.zcos = [s.zcos EXCEPT ![z] = g] /\ t.zcos[z] = g
    BY <1>1, <1>2 DEF ZcoTables
  <2>4. g.extents = y.extents /\ [g EXCEPT !.extents = x.extents] = [k EXCEPT !.extents = x.extents]
    BY <1>1 DEF Zcos
  <2> HIDE DEF e, g
  <2>5. u.zcos = [t.zcos EXCEPT ![z] = [g EXCEPT !.extents = <<e>> \o g.extents]]
    BY <2>1, <2>3 DEF e
  <2>6. u.zcos = [t.zcos EXCEPT ![z] = [k EXCEPT !.extents = x.extents]]
    BY <2>2, <2>4, <2>5 DEF e
  <2> QED
    BY <2>3, <2>6
<1>14. Cardinality(FreeIn(u)) >= i - 1
  <2>1. FreeIn(u) = FreeIn(t) \ {l}
    <3>1. BondLien(o, k.acct) # NoLien
      BY <1>1, <1>3, BondTyped, ZcoTyped
    <3> QED
      BY <1>7, <1>9, <3>1 DEF BondMade, FreeIn
  <2> QED
    BY <1>7, <2>1
<1>15. Len(x.extents) = Len(k.extents) + (Len(q) - (i - 1))
  BY <1>1, <1>2, <1>4, <1>10
<1>16. x \in Zcos /\ x.acct = k.acct /\ x.totalLength = k.totalLength
  BY <1>2, <1>10 DEF Moved
<1>17. Left(u, s, z, i - 1, x)
  BY <1>10, <1>11, <1>12, <1>13, <1>14, <1>15, <1>16 DEF Left, k, q
<1> QED
  BY <1>17 DEF u, o, q, k

\* All the headers become extents.
LEMMA AllBondedDone ==
    ASSUME NEW s, Sound(s), NEW z \in ZcoIds, s.zcos[z] # NoZco,
           Cardinality(FreeIn(s)) >= Len(s.zcos[z].headers)
    PROVE  \E y : Left(AllBonded(s, z, s.zcos[z].headers), s, z, 0, y)
<1> DEFINE k == s.zcos[z]
           q == k.headers
           n == Len(q)
           R == {r \in (0..n) \X Stores : \E y : Left(r[2], s, z, r[1], y)}
<1>1. /\ s \in Stores /\ s.zcos \in ZcoTables /\ k \in Zcos /\ q \in Seq(Objects)
      /\ n \in Nat /\ DOMAIN q = 1..n /\ Len(k.extents) \in Nat
  <2>1. s \in Stores /\ s.zcos \in ZcoTables
    BY DEF Sound, SoundWith
  <2>2. k \in Zcos
    BY <2>1 DEF ZcoTables
  <2>3. q \in Seq(Objects) /\ Len(k.extents) \in Nat
    BY <2>2, ZcoTyped
  <2> HIDE DEF q
  <2> QED
    BY <2>1, <2>2, <2>3
<1>2. PICK h : /\ Taken(h, "bond", z, 0, q, s, FirstChoice(n), 1..n)
               /\ AllBonded(s, z, q) = h[1..n]
  <2> HIDE DEF q
  <2> QED
    BY <1>1, Bonding DEF FromRight
<1>3. Left(s, s, z, n, k)
  <2>1. SubSeq(q, 1, n) = q
    <3> HIDE DEF q
    <3> QED
      BY <1>1
  <2>2. [s.zcos EXCEPT ![z] = k] = s.zcos /\ [k EXCEPT !.extents = k.extents] = k
    BY <1>1 DEF ZcoTables, Zcos
  <2>3. Len(k.extents) = Len(k.extents) + (n - n)
    BY <1>1
  <2>4. SoundWith(s, s.zcos, {}, {})
    BY DEF Sound
  <2> HIDE DEF k
  <2> QED
    BY <1>1, <2>1, <2>2, <2>3, <2>4 DEF Left, k
<1>4. <<n, s>> \in R
  BY <1>1, <1>3
<1>5. ASSUME NEW i \in 1..n, NEW t, <<i, t>> \in R
      PROVE  <<i - 1, Turn("bond", z, 0, t, q[i])>> \in R
  <2> DEFINE u == BondHeader(t, z, q[i])
  <2>1. PICK y : Left(t, s, z, i, y)
    BY <1>5
  <2>2. PICK x : Left(u, s, z, i - 1, x)
    <3> HIDE DEF R
    <3> QED
      BY <2>1, BondTurn
  <2>3. Turn("bond", z, 0, t, q[i]) = u
    BY DEF Turn
  <2>4. u \in Stores
    <3> HIDE DEF u
    <3> QED
      BY <2>2 DEF Left, SoundWith
  <2> HIDE DEF u
  <2>5. <<i - 1, u>> \in (0..n) \X Stores
    BY <1>1, <2>4
  <2> QED
    BY <2>2, <2>3, <2>5
<1> HIDE DEF R
<1>6. <<0, h[1..n]>> \in R
  <2> HIDE DEF n, q
  <2> QED
    BY <1>1, <1>2, <1>4, <1>5, RightTurns
<1> QED
  BY <1>2, <1>6 DEF R

\* The end of zco_bond.
Settled(t, z, c) ==
    [t EXCEPT !.zcos[z].headers = <<>>, !.zcos[z].sourceLength = @ + c,
              !.zcos[z].capsuleLength = 0]

\* All the headers are bonded, and none is left.
LEMMA BondDone ==
    ASSUME NEW s, Sound(s), NEW z \in ZcoIds, s.zcos[z] # NoZco,
           Cardinality(FreeIn(s)) >= Len(s.zcos[z].headers)
    PROVE  Grown(Settled(AllBonded(s, z, s.zcos[z].headers), z, s.zcos[z].capsuleLength),
                 s, z, Len(s.zcos[z].headers))
<1> DEFINE k == s.zcos[z]
           t == AllBonded(s, z, k.headers)
           c == k.capsuleLength
           u == Settled(t, z, c)
<1>1. PICK y : Left(t, s, z, 0, y)
  BY AllBondedDone
<1>2. /\ k \in Zcos /\ c \in Nat /\ s.zcos \in ZcoTables /\ Len(k.extents) \in Nat
      /\ Len(k.headers) \in Nat /\ k.headers \in Seq(Objects)
  <2>1. s.zcos \in ZcoTables
    BY DEF Sound, SoundWith
  <2>2. k \in Zcos
    BY <2>1 DEF ZcoTables
  <2> QED
    BY <2>1, <2>2, ZcoTyped
<1> HIDE DEF t
<1> DEFINE v == [s.zcos EXCEPT ![z] = y]
           g == t.zcos[z]
           x == [g EXCEPT !.headers = <<>>, !.sourceLength = @ + c, !.capsuleLength = 0]
<1>3. /\ y \in Zcos /\ y.acct = k.acct /\ y.totalLength = k.totalLength
      /\ Len(y.extents) = Len(k.extents) + Len(k.headers) /\ SoundWith(t, v, {}, {})
      /\ t.zcos = [s.zcos EXCEPT ![z] = [k EXCEPT !.extents = y.extents]]
      /\ y.headers = <<>>
  <2>1. SubSeq(k.headers, 1, 0) = <<>>
    BY <1>2
  <2>2. Len(k.headers) - 0 = Len(k.headers)
    BY <1>2
  <2> QED
    BY <1>1, <2>1, <2>2 DEF Left
<1>4. v[z] = y /\ v[z] # NoZco /\ \A j \in ZcoIds \ {z} : v[j] = t.zcos[j] /\ t.zcos[j] = s.zcos[j]
  BY <1>2, <1>3, EntriesReal DEF ZcoTables
<1>5. y.capsuleLength = 0
  <2>1. y.capsuleLength = SumOf(Length, ToSet(y.headers))
    BY <1>3, <1>4 DEF SoundWith, HeadersOwned
  <2>2. ToSet(y.headers) = {}
    BY <1>3 DEF ToSet
  <2> QED
    BY <2>1, <2>2, SumEmpty
<1>6. g = [k EXCEPT !.extents = y.extents]
  BY <1>2, <1>3 DEF ZcoTables
<1>7. /\ x \in Zcos /\ x.acct = y.acct /\ x.extents = y.extents /\ x.headers = y.headers
      /\ x.capsuleLength = y.capsuleLength /\ x.totalLength = y.totalLength
  <2>1. g \in Zcos /\ g.acct = k.acct /\ g.extents = y.extents /\ g.totalLength = k.totalLength
    <3>1. y.extents \in Seq(ZcoExtents)
      BY <1>3, ZcoTyped
    <3> DEFINE E == y.extents
    <3>2. g = [k EXCEPT !.extents = E] /\ E \in Seq(ZcoExtents)
      BY <1>6, <3>1
    <3> HIDE DEF E, g, k
    <3>3. g \in Zcos /\ g.acct = k.acct /\ g.extents = E /\ g.totalLength = k.totalLength
      BY <1>2, <3>2 DEF Zcos
    <3> QED
      BY <3>3 DEF E
  <2> DEFINE S == g.sourceLength + c
  <2>2. S \in Nat
    <3> HIDE DEF g, c
    <3>1. g.sourceLength \in Nat
      BY <2>1 DEF Zcos
    <3> QED
      BY <1>2, <3>1
  <2>3. x = [g EXCEPT !.headers = <<>>, !.sourceLength = S, !.capsuleLength = 0]
    BY <2>1 DEF Zcos
  <2> HIDE DEF x, S, g, k
  <2>4. <<>> \in Seq(Objects)
    OBVIOUS
  <2>5. /\ x \in Zcos /\ x.acct = g.acct /\ x.extents = g.extents /\ x.headers = <<>>
        /\ x.capsuleLength = 0 /\ x.totalLength = g.totalLength
    BY <2>1, <2>2, <2>3, <2>4 DEF Zcos
  <2> QED
    BY <1>3, <1>5, <2>1, <2>5
<1>8. u = WithZco(t, z, x)
  <2>1. t \in Stores
    BY <1>3 DEF SoundWith
  <2> DEFINE S == g.sourceLength + c
             w == [t EXCEPT !.zcos[z].headers = <<>>, !.zcos[z].sourceLength = S,
                            !.zcos[z].capsuleLength = 0]
  <2>2. u = w
    BY DEF Settled
  <2>3. x = [t.zcos[z] EXCEPT !.headers = <<>>, !.sourceLength = S, !.capsuleLength = 0]
    OBVIOUS
  <2> HIDE DEF S, u, x
  <2>4. "zcos" \in DOMAIN t /\ z \in DOMAIN t.zcos
    BY <2>1 DEF Stores
  <2>5. w.zcos[z] = [t.zcos[z] EXCEPT !.headers = <<>>, !.sourceLength = S, !.capsuleLength = 0]
    BY <2>4
  <2>6. w.zcos = [t.zcos EXCEPT ![z] = x]
    BY <2>3, <2>4, <2>5
  <2>7. w = [t EXCEPT !.zcos = [t.zcos EXCEPT ![z] = x]]
    BY <2>4, <2>6
  <2> QED
    BY <2>2, <2>7 DEF WithZco
<1> HIDE DEF u, x, v, g
<1>9. Sound(u)
  <2>1. Sound(WithZco(t, z, x))
    BY <1>3, <1>4, <1>7, LengthsSet
  <2> QED
    BY <1>8, <2>1
<1>10. /\ u.zcos[z] = x /\ \A j \in ZcoIds \ {z} : u.zcos[j] = s.zcos[j]
  <2>1. t \in Stores
    BY <1>3 DEF SoundWith
  <2>2. u.zcos = [t.zcos EXCEPT ![z] = x]
    BY <1>7, <1>8, <2>1, ZcoReplaced
  <2>3. t.zcos \in ZcoTables
    BY <2>1 DEF Stores, ZcoTables
  <2> QED
    BY <1>4, <2>2, <2>3 DEF ZcoTables
<1>11. x # NoZco
  BY <1>7, EntriesReal
<1> QED
  BY <1>3, <1>7, <1>9, <1>10, <1>11 DEF Grown, u, t

\* A ZCO taken apart from the front: y is what is left of it.
Reduced(t, s, z, y) ==
    /\ y \in Zcos /\ y.acct = s.zcos[z].acct
    /\ SoundWith(t, [s.zcos EXCEPT ![z] = y], {}, {}) /\ t.zcos = s.zcos

CutTo(t, s, z, i, y) ==
    /\ Reduced(t, s, z, y)
    /\ y.headers = s.zcos[z].headers /\ y.capsuleLength = s.zcos[z].capsuleLength
    /\ y.totalLength = s.zcos[z].totalLength
    /\ y.extents = SubSeq(s.zcos[z].extents, i + 1, Len(s.zcos[z].extents))

BareTo(t, s, z, i, y) ==
    /\ Reduced(t, s, z, y)
    /\ y.extents = <<>>
    /\ y.headers = SubSeq(s.zcos[z].headers, i + 1, Len(s.zcos[z].headers))

\* The rest of a sequence begins with its next element.
LEMMA BackOf ==
    ASSUME NEW S, NEW q \in Seq(S), NEW i \in 1..Len(q)
    PROVE  /\ SubSeq(q, i, Len(q)) = <<q[i]>> \o SubSeq(q, i + 1, Len(q)) /\ q[i] \in S
           /\ SubSeq(q, i + 1, Len(q)) \in Seq(S)
<1> DEFINE n == Len(q)
           r == SubSeq(q, i + 1, n)
           p == SubSeq(q, i, n)
<1>1. n \in Nat /\ i \in Nat /\ i > 0 /\ i <= n /\ q[i] \in S /\ \A j \in 1..n : q[j] \in S
  OBVIOUS
<1>2. r \in Seq(S) /\ Len(r) = n - i /\ \A j \in 1..(n - i) : r[j] = q[j + i]
  BY <1>1
<1>3. p \in Seq(S) /\ Len(p) = n - i + 1 /\ \A j \in 1..(n - i + 1) : p[j] = q[j + i - 1]
  BY <1>1
<1> DEFINE w == <<q[i]>> \o r
<1> HIDE DEF r, p
<1>4. w \in Seq(S) /\ Len(w) = n - i + 1 /\ w[1] = q[i] /\ \A j \in 2..(n - i + 1) : w[j] = r[j - 1]
  BY <1>1, <1>2
<1> HIDE DEF w
<1>5. \A j \in 1..(n - i + 1) : p[j] = w[j]
  <2> TAKE j \in 1..(n - i + 1)
  <2>1. CASE j = 1
    BY <1>1, <1>3, <1>4, <2>1
  <2>2. CASE j # 1
    <3>1. j - 1 \in 1..(n - i) /\ (j - 1) + i = j + i - 1 /\ j \in 2..(n - i + 1)
      BY <1>1, <2>2
    <3> QED
      BY <1>2, <1>3, <1>4, <3>1
  <2> QED
    BY <2>1, <2>2
<1>6. p = w
  BY <1>1, <1>3, <1>4, <1>5
<1> QED
  BY <1>1, <1>2, <1>6 DEF p, r, w

\* One turn of cutting.
LEMMA CutTurn ==
    ASSUME NEW s, Sound(s), NEW z \in ZcoIds, s.zcos[z] # NoZco,
           NEW i \in 1..Len(s.zcos[z].extents), NEW t, NEW y, CutTo(t, s, z, i - 1, y)
    PROVE  \E x : CutTo(Reduce(UnciteLien(t, s.zcos[z].extents[i].lien, s.zcos[z].acct),
                               s.zcos[z].acct, "heap", ExtentSize), s, z, i, x)
<1> DEFINE k == s.zcos[z]
           q == k.extents
           e == q[i]
           E == SubSeq(q, i + 1, Len(q))
           v == [s.zcos EXCEPT ![z] = y]
           x == [y EXCEPT !.extents = E]
           u == Reduce(UnciteLien(t, e.lien, k.acct), k.acct, "heap", ExtentSize)
<1>1. s.zcos \in ZcoTables /\ k \in Zcos /\ q \in Seq(ZcoExtents) /\ Len(q) \in Nat
  <2>1. s.zcos \in ZcoTables
    BY DEF Sound, SoundWith
  <2>2. k \in Zcos
    BY <2>1 DEF ZcoTables
  <2> QED
    BY <2>1, <2>2, ZcoTyped
<1>2. /\ SubSeq(q, i, Len(q)) = <<e>> \o E /\ e \in ZcoExtents /\ E \in Seq(ZcoExtents)
  <2> HIDE DEF q
  <2> QED
    BY <1>1, BackOf DEF q
<1>3. /\ y \in Zcos /\ y.acct = k.acct /\ SoundWith(t, v, {}, {}) /\ t.zcos = s.zcos
      /\ y.headers = k.headers /\ y.capsuleLength = k.capsuleLength
      /\ y.totalLength = k.totalLength /\ y.extents = <<e>> \o E
  <2>1. (i - 1) + 1 = i
    BY <1>1
  <2> HIDE DEF e, E
  <2> QED
    BY <1>2, <2>1 DEF CutTo, Reduced
<1> HIDE DEF e, E, q
<1>4. /\ x \in Zcos /\ x.acct = y.acct /\ x.headers = y.headers /\ x.extents = E
      /\ x.capsuleLength = y.capsuleLength /\ x.totalLength = y.totalLength
  <2> HIDE DEF v, u
  <2> QED
    BY <1>2, <1>3 DEF Zcos
<1>5. v[z] = y /\ v[z] # NoZco
  BY <1>1, <1>3, EntriesReal DEF ZcoTables
<1> HIDE DEF x, v
<1>6. CutOff(u, t, v, z, x)
  <2>1. x.acct = k.acct
    BY <1>3, <1>4
  <2> HIDE DEF u, k
  <2>2. CutOff(Reduce(UnciteLien(t, e.lien, x.acct), x.acct, "heap", ExtentSize), t, v, z, x)
    BY <1>2, <1>3, <1>4, <1>5, ExtentCut
  <2> QED
    BY <2>1, <2>2 DEF u
<1> HIDE DEF u
<1>7. [v EXCEPT ![z] = x] = [s.zcos EXCEPT ![z] = x]
  BY DEF v
<1>8. CutTo(u, s, z, i, x)
  BY <1>3, <1>4, <1>6, <1>7 DEF CutTo, Reduced, CutOff, E, q
<1> QED
  BY <1>8 DEF u, e, q

\* All the extents are cut.
LEMMA AllCutDone ==
    ASSUME NEW s, Sound(s), NEW z \in ZcoIds, s.zcos[z] # NoZco
    PROVE  \E y : CutTo(AllCut(s, s.zcos[z].acct, s.zcos[z].extents), s, z,
                        Len(s.zcos[z].extents), y)
<1> DEFINE k == s.zcos[z]
           a == k.acct
           q == k.extents
           n == Len(q)
           R == {r \in (0..n) \X Stores : \E y : CutTo(r[2], s, z, r[1], y)}
<1>1. /\ s \in Stores /\ s.zcos \in ZcoTables /\ k \in Zcos /\ q \in Seq(ZcoExtents)
      /\ n \in Nat /\ DOMAIN q = 1..n
  <2>1. s \in Stores /\ s.zcos \in ZcoTables
    BY DEF Sound, SoundWith
  <2>2. k \in Zcos
    BY <2>1 DEF ZcoTables
  <2>3. q \in Seq(ZcoExtents)
    BY <2>2, ZcoTyped
  <2> HIDE DEF q
  <2> QED
    BY <2>1, <2>2, <2>3
<1>2. PICK h : /\ Taken(h, "cut", 0, a, q, s, LastChoice(n), 1..n)
               /\ AllCut(s, a, q) = h[1..n]
  <2> HIDE DEF q
  <2> QED
    BY <1>1, Cutting DEF FromLeft
<1>3. CutTo(s, s, z, 0, k)
  <2>1. SubSeq(q, 0 + 1, n) = q
    <3> HIDE DEF q
    <3> QED
      BY <1>1
  <2>2. [s.zcos EXCEPT ![z] = k] = s.zcos
    BY <1>1 DEF ZcoTables
  <2>3. SoundWith(s, s.zcos, {}, {})
    BY DEF Sound
  <2> HIDE DEF k
  <2> QED
    BY <1>1, <2>1, <2>2, <2>3 DEF CutTo, Reduced, k
<1>4. <<0, s>> \in R
  BY <1>1, <1>3
<1>5. ASSUME NEW i \in 1..n, NEW t, <<i - 1, t>> \in R
      PROVE  <<i, Turn("cut", 0, a, t, q[i])>> \in R
  <2> DEFINE u == Reduce(UnciteLien(t, q[i].lien, a), a, "heap", ExtentSize)
  <2>1. PICK y : CutTo(t, s, z, i - 1, y)
    BY <1>5
  <2>2. PICK x : CutTo(u, s, z, i, x)
    <3> HIDE DEF R
    <3> QED
      BY <2>1, CutTurn
  <2>3. Turn("cut", 0, a, t, q[i]) = u
    BY DEF Turn
  <2>4. u \in Stores
    <3> HIDE DEF u
    <3> QED
      BY <2>2 DEF CutTo, Reduced, SoundWith
  <2> HIDE DEF u
  <2>5. <<i, u>> \in (0..n) \X Stores
    BY <1>1, <2>4
  <2> QED
    BY <2>2, <2>3, <2>5
<1> HIDE DEF R
<1>6. <<n, h[1..n]>> \in R
  <2> HIDE DEF n, q, a
  <2> QED
    BY <1>1, <1>2, <1>4, <1>5, LeftTurns
<1> QED
  BY <1>2, <1>6 DEF R

\* The length of a header is counted in the length of the capsules.
LEMMA HeaderCounted ==
    ASSUME NEW B, NEW v, HeadersOwned(B, v), NEW z \in ZcoIds, v[z] # NoZco,
           NEW r, r = v[z].headers, r \in Seq(Objects), NEW o, o \in ToSet(r)
    PROVE  o \in B /\ Medium[o] = "heap" /\ Length[o] <= v[z].capsuleLength
<1>1. /\ o \in B /\ Medium[o] = "heap" /\ v[z].capsuleLength = SumOf(Length, ToSet(r))
  BY DEF HeadersOwned
<1> DEFINE S == ToSet(r)
<1>2. S \in SUBSET Objects
  BY DEF ToSet
<1>3. IsFiniteSet(S) /\ \A j \in S : Length[j] \in Nat
  <2> HIDE DEF S
  <2> QED
    BY <1>2, Addresses, FS_Subset, Sizes
<1>4. Length[o] <= SumOf(Length, S)
  <2>1. o \in S
    OBVIOUS
  <2> HIDE DEF S
  <2> QED
    BY <1>3, <2>1, SumAtLeast
<1> QED
  BY <1>1, <1>4

\* One turn of destroying headers.
LEMMA BareTurn ==
    ASSUME NEW s, Sound(s), NEW z \in ZcoIds, s.zcos[z] # NoZco,
           NEW i \in 1..Len(s.zcos[z].headers), NEW t, NEW y, BareTo(t, s, z, i - 1, y)
    PROVE  \E x : BareTo(DestroyHeader(t, s.zcos[z].acct, s.zcos[z].headers[i]), s, z, i, x)
<1> DEFINE k == s.zcos[z]
           q == k.headers
           o == q[i]
           H == SubSeq(q, i + 1, Len(q))
           v == [s.zcos EXCEPT ![z] = y]
           C == y.capsuleLength - Length[o]
           x == [y EXCEPT !.headers = H, !.capsuleLength = C]
           u == DestroyHeader(t, k.acct, o)
<1>1. s.zcos \in ZcoTables /\ k \in Zcos /\ q \in Seq(Objects) /\ Len(q) \in Nat
  <2>1. s.zcos \in ZcoTables
    BY DEF Sound, SoundWith
  <2>2. k \in Zcos
    BY <2>1 DEF ZcoTables
  <2> QED
    BY <2>1, <2>2, ZcoTyped
<1>2. /\ SubSeq(q, i, Len(q)) = <<o>> \o H /\ o \in Objects /\ H \in Seq(Objects)
  <2> HIDE DEF q
  <2> QED
    BY <1>1, BackOf DEF q
<1>3. /\ y \in Zcos /\ y.acct = k.acct /\ SoundWith(t, v, {}, {}) /\ t.zcos = s.zcos
      /\ y.extents = <<>> /\ y.headers = <<o>> \o H
  <2>1. (i - 1) + 1 = i
    BY <1>1
  <2> HIDE DEF o, H
  <2> QED
    BY <1>2, <2>1 DEF BareTo, Reduced
<1> HIDE DEF o, H, q
<1>4. v[z] = y /\ v[z] # NoZco
  BY <1>1, <1>3, EntriesReal DEF ZcoTables
<1> HIDE DEF v
<1>5. Length[o] <= y.capsuleLength /\ y.capsuleLength \in Nat /\ Length[o] \in Nat
  <2> DEFINE r == y.headers
  <2>1. r = <<o>> \o H /\ r = v[z].headers
    BY <1>3, <1>4
  <2> HIDE DEF r
  <2>2. r \in Seq(Objects) /\ ToSet(r) = ToSet(H) \cup {o}
    BY <1>2, <2>1, OneMore
  <2>3. HeadersOwned(Bare(t), v)
    BY <1>3 DEF SoundWith
  <2>4. Length[o] <= v[z].capsuleLength
    BY <1>4, <2>1, <2>2, <2>3, HeaderCounted
  <2> QED
    BY <1>2, <1>3, <1>4, <2>4, ZcoTyped, Sizes
<1>6. C \in Nat
  BY <1>5
<1> HIDE DEF C
<1>7. /\ x \in Zcos /\ x.acct = y.acct /\ x.headers = H /\ x.extents = y.extents
      /\ x.capsuleLength = C /\ x.totalLength = y.totalLength
  <2> HIDE DEF u, k
  <2> QED
    BY <1>2, <1>3, <1>6 DEF Zcos
<1> HIDE DEF x
<1>8. CutOff(u, t, v, z, x)
  <2>1. x.acct = k.acct
    BY <1>3, <1>7
  <2> HIDE DEF u, k
  <2>2. /\ v[z].headers = <<o>> \o x.headers /\ x.acct = v[z].acct /\ x.extents = v[z].extents
        /\ x.capsuleLength = v[z].capsuleLength - Length[o] /\ x.totalLength = v[z].totalLength
    BY <1>3, <1>4, <1>7 DEF C
  <2>3. CutOff(DestroyHeader(t, x.acct, o), t, v, z, x)
    BY <1>2, <1>3, <1>4, <1>7, <2>2, HeaderCut
  <2> QED
    BY <2>1, <2>3 DEF u
<1> HIDE DEF u
<1>9. [v EXCEPT ![z] = x] = [s.zcos EXCEPT ![z] = x]
  BY DEF v
<1>10. BareTo(u, s, z, i, x)
  BY <1>3, <1>7, <1>8, <1>9 DEF BareTo, Reduced, CutOff, H, q
<1> QED
  BY <1>10 DEF u, o, q

\* All the headers are destroyed.
LEMMA AllBareDone ==
    ASSUME NEW s, Sound(s), NEW z \in ZcoIds, s.zcos[z] # NoZco,
           NEW p, NEW w, BareTo(p, s, z, 0, w)
    PROVE  \E y : BareTo(AllBare(p, s.zcos[z].acct, s.zcos[z].headers), s, z,
                         Len(s.zcos[z].headers), y)
<1> DEFINE k == s.zcos[z]
           a == k.acct
           q == k.headers
           n == Len(q)
           R == {r \in (0..n) \X Stores : \E y : BareTo(r[2], s, z, r[1], y)}
<1>1. n \in Nat /\ DOMAIN q = 1..n /\ p \in Stores
  <2>1. s.zcos \in ZcoTables
    BY DEF Sound, SoundWith
  <2>2. k \in Zcos
    BY <2>1 DEF ZcoTables
  <2>3. q \in Seq(Objects)
    BY <2>2, ZcoTyped
  <2>4. p \in Stores
    BY DEF BareTo, Reduced, SoundWith
  <2> HIDE DEF q
  <2> QED
    BY <2>3, <2>4
<1>2. PICK h : /\ Taken(h, "bare", 0, a, q, p, LastChoice(n), 1..n)
               /\ AllBare(p, a, q) = h[1..n]
  <2> HIDE DEF q
  <2> QED
    BY <1>1, Baring DEF FromLeft
<1>3. <<0, p>> \in R
  BY <1>1
<1>4. ASSUME NEW i \in 1..n, NEW t, <<i - 1, t>> \in R
      PROVE  <<i, Turn("bare", 0, a, t, q[i])>> \in R
  <2> DEFINE u == DestroyHeader(t, a, q[i])
  <2>1. PICK y : BareTo(t, s, z, i - 1, y)
    BY <1>4
  <2>2. PICK x : BareTo(u, s, z, i, x)
    <3> HIDE DEF R
    <3> QED
      BY <2>1, BareTurn
  <2>3. Turn("bare", 0, a, t, q[i]) = u
    BY DEF Turn
  <2>4. u \in Stores
    <3> HIDE DEF u
    <3> QED
      BY <2>2 DEF BareTo, Reduced, SoundWith
  <2> HIDE DEF u
  <2>5. <<i, u>> \in (0..n) \X Stores
    BY <1>1, <2>4
  <2> QED
    BY <2>2, <2>3, <2>5
<1> HIDE DEF R
<1>5. <<n, h[1..n]>> \in R
  <2> HIDE DEF n, q, a
  <2> QED
    BY <1>1, <1>2, <1>3, <1>4, LeftTurns
<1> QED
  BY <1>2, <1>5 DEF R

\* The ZCO at z is gone, and the other ZCOs stay.
Shrunk(u, s, z) ==
    Sound(u) /\ u.zcos[z] = NoZco /\ \A k \in ZcoIds \ {z} : u.zcos[k] = s.zcos[k]

\* The extents, the headers and the ZCO are gone, and the store is sound.
LEMMA DestroyDone ==
    ASSUME NEW s, Sound(s), NEW z \in ZcoIds, s.zcos[z] # NoZco,
           NEW a, a = s.zcos[z].acct,
           NEW p, p = AllCut(s, a, s.zcos[z].extents),
           NEW t, t = AllBare(p, a, s.zcos[z].headers)
    PROVE  Shrunk(Reduce([t EXCEPT !.zcos[z] = NoZco], a, "heap", ZcoSize), s, z)
<1> DEFINE k == s.zcos[z]
           u == Reduce([t EXCEPT !.zcos[z] = NoZco], a, "heap", ZcoSize)
<1>1. s.zcos \in ZcoTables /\ k.extents \in Seq(ZcoExtents) /\ k.headers \in Seq(Objects)
      /\ Len(k.extents) \in Nat /\ Len(k.headers) \in Nat /\ a \in Accts
  <2>1. s.zcos \in ZcoTables
    BY DEF Sound, SoundWith
  <2>2. k \in Zcos
    BY <2>1 DEF ZcoTables
  <2> QED
    BY <2>1, <2>2, ZcoTyped
<1>2. PICK w : CutTo(p, s, z, Len(k.extents), w)
  BY AllCutDone
<1>3. BareTo(p, s, z, 0, w)
  <2>1. SubSeq(k.extents, Len(k.extents) + 1, Len(k.extents)) = <<>>
    BY <1>1
  <2>2. SubSeq(k.headers, 0 + 1, Len(k.headers)) = k.headers
    BY <1>1
  <2> QED
    BY <1>2, <2>1, <2>2 DEF CutTo, BareTo
<1>4. PICK y : BareTo(t, s, z, Len(k.headers), y)
  BY <1>3, AllBareDone
<1> DEFINE v == [s.zcos EXCEPT ![z] = y]
<1>5. /\ y \in Zcos /\ y.acct = a /\ SoundWith(t, v, {}, {}) /\ t.zcos = s.zcos
      /\ y.extents = <<>> /\ y.headers = <<>>
  <2>1. SubSeq(k.headers, Len(k.headers) + 1, Len(k.headers)) = <<>>
    BY <1>1
  <2> QED
    BY <1>4, <2>1 DEF BareTo, Reduced
<1>6. v[z] = y /\ v[z] # NoZco /\ \A j \in ZcoIds \ {z} : v[j] = t.zcos[j]
  BY <1>1, <1>5, EntriesReal DEF ZcoTables
<1> HIDE DEF v, u
<1>7. Sound(u)
  <2>1. Sound(Reduce([t EXCEPT !.zcos[z] = NoZco], v[z].acct, "heap", ZcoSize))
    BY <1>5, <1>6, ZcoGone
  <2> QED
    BY <1>5, <1>6, <2>1 DEF u
<1>8. u.zcos = [s.zcos EXCEPT ![z] = NoZco]
  <2>1. t \in Stores /\ "heap" \in Media
    BY <1>5 DEF SoundWith, Media
  <2> DEFINE g == [t EXCEPT !.zcos[z] = NoZco]
  <2>2. g \in Stores /\ g.zcos = [t.zcos EXCEPT ![z] = NoZco]
    <3>1. g = WithZco(t, z, NoZco)
      BY DEF WithZco
    <3> HIDE DEF g
    <3> QED
      BY <2>1, <3>1, ZcoReplaced
  <2> HIDE DEF g
  <2>3. Reduce(g, a, "heap", ZcoSize).zcos = g.zcos
    <3>1. ZcoSize \in Nat
      BY Sizes
    <3>2. Posted(Reduce(g, a, "heap", ZcoSize), g, a, "heap", -ZcoSize)
      BY <1>1, <2>1, <2>2, <3>1, BookPosted
    <3> QED
      BY <3>2 DEF Posted
  <2> QED
    BY <1>5, <2>2, <2>3 DEF u, g
<1>9. u.zcos[z] = NoZco /\ \A j \in ZcoIds \ {z} : u.zcos[j] = s.zcos[j]
  BY <1>1, <1>8 DEF ZcoTables
<1> QED
  BY <1>7, <1>9 DEF Shrunk, u

\* A new lien and an extent under it.
LEMMA ExtendByRefDone ==
    ASSUME NEW s, NEW o \in Objects, NEW O \in SUBSET {o}, SoundWith(s, s.zcos, {}, O),
           NEW z \in ZcoIds, s.zcos[z] # NoZco, s.refs[o] # NoRef, FreeIn(s) # {},
           NEW offset \in Nat, NEW length \in Nat, offset + length <= Length[o]
    PROVE  Grown(ExtendByRef(s, z, o, offset, length), s, z, 1)
<1> DEFINE T == FreeIn(s)
           l == Min(T)
           a == s.zcos[z].acct
           t == WithLien(s, l, NewLien(o, length))
           e == ExtentOf(l, offset, length)
           u == AddExtent(CiteLien(t, l, a), z, e)
<1>1. ExtendByRef(s, z, o, offset, length) = u
  BY DEF ExtendByRef, FreeIn, WithLien, NewLien
<1>2. l \in LienIds /\ s.liens[l] = NoLien
  <2>1. T \in SUBSET LienIds /\ LienIds \in SUBSET Nat
    BY ZcoAssumption DEF FreeIn
  <2>2. l \in T
    <3> HIDE DEF T
    <3>1. \E x \in T : \A y \in T : x <= y
      BY <2>1, SmallestElement DEF T
    <3> QED
      BY <3>1 DEF Min
  <2> HIDE DEF l
  <2> QED
    BY <2>2 DEF FreeIn
<1> HIDE DEF l
<1>3. LienPlaced(t, s, l, O) /\ t.liens[l] # NoLien /\ t.liens[l].ref = o
  BY <1>2, LienCreated
<1> HIDE DEF t
<1>4. e \in ZcoExtents /\ e.lien = l /\ e.offset = offset /\ e.length = length
  BY <1>2 DEF ExtentOf, ZcoExtents
<1> HIDE DEF e
<1>5. Added(u, t, z, e, {l}, O)
  <2>1. SoundWith(t, t.zcos, {l}, O) /\ t.zcos = s.zcos /\ t.refs = s.refs
    BY <1>3 DEF LienPlaced
  <2>2. t.liens[e.lien] # NoLien /\ t.refs[t.liens[e.lien].ref] # NoRef
        /\ e.offset + e.length <= Length[t.liens[e.lien].ref]
    BY <1>3, <1>4, <2>1
  <2> HIDE DEF u, T
  <2>3. Added(AddExtent(CiteLien(t, e.lien, t.zcos[z].acct), z, e), t, z, e, {l}, O)
    BY <1>4, <2>1, <2>2, ExtentAdded
  <2> QED
    BY <1>4, <2>1, <2>3 DEF u
<1> HIDE DEF u
<1>6. Sound(u)
  <2>1. {l} \ {e.lien} = {} /\ O \ {t.liens[e.lien].ref} = {}
    BY <1>3, <1>4
  <2> QED
    BY <1>5, <2>1 DEF Added, Sound
<1>7. s.zcos \in ZcoTables /\ s.zcos[z] \in Zcos
  <2>1. s.zcos \in ZcoTables
    BY DEF SoundWith
  <2> QED
    BY <2>1 DEF ZcoTables
<1>8. u.zcos = [s.zcos EXCEPT ![z] = Longer(s.zcos[z], e)]
  BY <1>3, <1>5 DEF Added, LienPlaced
<1>9. /\ u.zcos[z] = Longer(s.zcos[z], e) /\ \A k \in ZcoIds \ {z} : u.zcos[k] = s.zcos[k]
  BY <1>7, <1>8 DEF ZcoTables
<1>10. u.zcos[z] # NoZco /\ Len(u.zcos[z].extents) = Len(s.zcos[z].extents) + 1
  <2>1. u.zcos[z] \in Zcos /\ u.zcos[z].extents = Append(s.zcos[z].extents, e)
    BY <1>4, <1>7, <1>9, LongerTyped
  <2>2. s.zcos[z].extents \in Seq(ZcoExtents)
    BY <1>7, ZcoTyped
  <2> QED
    BY <2>1, <2>2, EntriesReal
<1> QED
  BY <1>1, <1>6, <1>9, <1>10 DEF Grown

\* The bound on the extents of a ZCO.
Bounded(s) == \A z \in ZcoIds : s.zcos[z] # NoZco => Len(s.zcos[z].extents) <= MaxExtents

\* A ZCO may grow as far as the bound on its extents.
LEMMA GrownBounded ==
    ASSUME NEW s, Bounded(s), NEW z \in ZcoIds, NEW n, NEW u, Grown(u, s, z, n),
           Len(s.zcos[z].extents) + n <= MaxExtents
    PROVE  Sound(u) /\ Bounded(u)
<1>1. ASSUME NEW k \in ZcoIds, u.zcos[k] # NoZco
      PROVE  Len(u.zcos[k].extents) <= MaxExtents
  <2>1. CASE k = z
    BY <2>1 DEF Grown
  <2>2. CASE k # z
    BY <1>1, <2>2 DEF Grown, Bounded
  <2> QED
    BY <2>1, <2>2
<1> QED
  BY <1>1 DEF Grown, Bounded

\* A new ZCO in a store.
LEMMA NewZcoBounded ==
    ASSUME NEW s, Bounded(s), s.zcos \in ZcoTables, NEW z \in ZcoIds, NEW a, NEW O,
           NEW u, ZcoPlaced(u, s, z, a, O)
    PROVE  /\ SoundWith(u, u.zcos, {}, O) /\ Bounded(u) /\ u.zcos[z] # NoZco
           /\ u.zcos[z].extents = <<>> /\ u.zcos[z].acct = a
           /\ \A k \in ZcoIds \ {z} : u.zcos[k] = s.zcos[k]
           /\ u.liens = s.liens /\ u.refs = s.refs
<1>1. u.zcos[z] = BlankZco(a) /\ \A k \in ZcoIds \ {z} : u.zcos[k] = s.zcos[k]
  BY DEF ZcoPlaced, ZcoTables
<1>2. u.zcos[z].extents = <<>> /\ u.zcos[z].acct = a
  BY <1>1 DEF BlankZco
<1>3. ASSUME NEW k \in ZcoIds, u.zcos[k] # NoZco
      PROVE  Len(u.zcos[k].extents) <= MaxExtents
  <2>1. CASE k = z
    <3>1. Len(u.zcos[k].extents) = 0 /\ MaxExtents \in Nat
      BY <1>2, <2>1, ZcoAssumption
    <3> QED
      BY <3>1
  <2>2. CASE k # z
    BY <1>1, <1>3, <2>2 DEF Bounded
  <2> QED
    BY <2>1, <2>2
<1> QED
  BY <1>1, <1>2, <1>3 DEF ZcoPlaced, Bounded

(***************************************************************************)
(* The actions.                                                            *)
(***************************************************************************)
ZcoInv == Sound(Store) /\ Bounded(Store)

\* An action whose next store is sound keeps the invariant.
LEMMA Became ==
    ASSUME NEW u, Sound(u), Bounded(u), Become(u)
    PROVE  ZcoInv'
<1> DEFINE v == [zcos |-> zcos', liens |-> liens', refs |-> refs', objects |-> objects',
                 book |-> book']
<1>1. u \in Stores
  BY DEF Sound, SoundWith
<1>2. u = [zcos |-> u.zcos, liens |-> u.liens, refs |-> u.refs, objects |-> u.objects,
           book |-> u.book]
  BY <1>1 DEF Stores
<1>3. v = u
  BY <1>2 DEF Become
<1>4. Store' = v
  BY DEF Store
<1>5. Sound(v) /\ Bounded(v)
  BY <1>3
<1> HIDE DEF v
<1>6. ZcoInv' <=> Sound(Store') /\ Bounded(Store')
  BY DEF ZcoInv, Sound, SoundWith, Bounded, Paid, RefsCounted, CitesCounted, LiensCited,
         RefsKept, ExtentsInside, HeadersOwned, Bare, Excess, LienCosts, RefCosts, LienCount,
         RefCount, Citing
<1> QED
  BY <1>4, <1>5, <1>6

\* What the invariant says of the store, and how an action changes it.
LEMMA InvUnfolds ==
    ASSUME ZcoInv
    PROVE  /\ Sound(Store) /\ Bounded(Store) /\ Store \in Stores
           /\ zcos \in ZcoTables /\ Store.zcos = zcos /\ Store.liens = liens
           /\ Store.refs = refs /\ Store.objects = objects /\ Store.book = book
           /\ FreeIn(Store) = FreeLiens
           /\ \A z \in ZcoIds : zcos[z] # NoZco => zcos[z] \in Zcos
           /\ \A z \in Live : z \in ZcoIds /\ zcos[z] # NoZco
<1>1. Store.zcos = zcos /\ Store.liens = liens /\ Store.refs = refs /\ Store.objects = objects
      /\ Store.book = book
  BY DEF Store
<1>2. Sound(Store) /\ Bounded(Store)
  BY DEF ZcoInv
<1>3. Store \in Stores /\ Store.zcos \in ZcoTables
  BY <1>2 DEF Sound, SoundWith
<1>4. \A z \in ZcoIds : zcos[z] # NoZco => zcos[z] \in Zcos
  BY <1>1, <1>3 DEF ZcoTables
<1>5. FreeIn(Store) = FreeLiens
  BY <1>1 DEF FreeIn, FreeLiens
<1> QED
  BY <1>1, <1>2, <1>3, <1>4, <1>5 DEF Live

\* No ZCO has more extents than there are in all.
LEMMA ExtentsSpent ==
    ASSUME ZcoInv
    PROVE  /\ Extents \in Nat
           /\ \A z \in Live : Len(zcos[z].extents) \in Nat /\ Len(zcos[z].extents) <= Extents
<1>1. \A z \in Live : Len(zcos[z].extents) \in Nat
  BY InvUnfolds, ZcoTyped
<1>2. Live \subseteq ZcoIds
  BY DEF Live
<1> QED
  BY <1>1, <1>2, ExtentsBelow

\* The address of a new ZCO is free.
LEMMA FreshAddress ==
    ASSUME FreeZcos # {}
    PROVE  Min(FreeZcos) \in ZcoIds /\ zcos[Min(FreeZcos)] = NoZco
<1>1. FreeZcos \in SUBSET ZcoIds /\ ZcoIds \in SUBSET Nat
  BY ZcoAssumption DEF FreeZcos
<1>2. \E x \in FreeZcos : \A y \in FreeZcos : x <= y
  BY <1>1, SmallestElement
<1>3. Min(FreeZcos) \in FreeZcos
  BY <1>2 DEF Min
<1> QED
  BY <1>1, <1>3 DEF FreeZcos, Live

\* Offsets and lengths are natural numbers.
LEMMA PartsTyped ==
    /\ \A i \in Offsets : i \in Nat
    /\ \A n \in Lengths : n \in Nat
    /\ \A d \in Delimits : d[1] \in Nat /\ d[2] \in Nat
BY ZcoAssumption DEF Offsets, Lengths

\* The source of an extent.
SourceMade(u, o, O) ==
    /\ O \in SUBSET {o} /\ SoundWith(u, u.zcos, {}, O) /\ Bounded(u)
    /\ u.zcos = zcos /\ u.liens = liens /\ u.refs[o] # NoRef

\* A reference that the maker still holds, or a new one that its first citation keeps.
LEMMA SourcedDone ==
    ASSUME ZcoInv, NEW o \in Objects, MaySource(o)
    PROVE  \E O : SourceMade(Sourced(o), o, O)
<1> DEFINE u == Sourced(o)
<1>0. Sound(Store) /\ Bounded(Store) /\ Store.zcos = zcos /\ Store.liens = liens
      /\ Store.refs = refs /\ Store.objects = objects
  BY InvUnfolds
<1>1. CASE refs[o] # NoRef
  <2>1. u = Store
    BY <1>1 DEF Sourced
  <2>2. SourceMade(Store, o, {})
    BY <1>0, <1>1 DEF SourceMade, Sound
  <2> QED
    BY <2>1, <2>2
<1>2. CASE refs[o] = NoRef
  <2>1. u = [Store EXCEPT !.objects = @ \cup {o}, !.refs[o] = NewRef(TRUE)]
    BY <1>2 DEF Sourced
  <2>2. o \notin Store.objects
    BY <1>0, <1>2 DEF MaySource, FreeObjects
  <2> HIDE DEF u
  <2>3. SoundWith(u, u.zcos, {}, {o}) /\ RefMade(u, Store, o)
    BY <1>0, <2>1, <2>2, RefCreated
  <2>4. SourceMade(u, o, {o})
    BY <1>0, <2>3 DEF SourceMade, RefMade, Bounded
  <2> QED
    BY <2>4 DEF u
<1> QED
  BY <1>1, <1>2

\* One lemma for each action.
LEMMA CreateRefKeeps ==
    ASSUME ZcoInv, NEW o \in Objects, CreateRef(o)
    PROVE  ZcoInv'
<1> DEFINE u == [Store EXCEPT !.objects = @ \cup {o}, !.refs[o] = NewRef(FALSE)]
<1>1. o \notin Store.objects /\ Become(u)
  BY InvUnfolds DEF CreateRef, FreeObjects
<1> HIDE DEF u
<1>2. SoundWith(u, u.zcos, {}, {}) /\ RefMade(u, Store, o)
  BY <1>1, InvUnfolds, RefCreated DEF u
<1>3. Sound(u) /\ Bounded(u)
  BY <1>2, InvUnfolds DEF Sound, Bounded, RefMade
<1> QED
  BY <1>1, <1>3, Became

LEMMA DestroyRefKeeps ==
    ASSUME ZcoInv, NEW o \in Objects, DestroyRef(o)
    PROVE  ZcoInv'
<1> DEFINE u == IF refs[o].count = NoCitation THEN DropRef(Store, o)
                ELSE [Store EXCEPT !.refs[o].okayToDestroy = TRUE]
<1>1. refs[o] # NoRef /\ ~refs[o].okayToDestroy /\ Become(u)
  BY DEF DestroyRef
<1>2. u.zcos = Store.zcos
  BY DEF DropRef, Store
<1> HIDE DEF u
<1>3. Sound(u)
  BY <1>1, InvUnfolds, RefEnded DEF u
<1>4. Bounded(u)
  BY <1>2, InvUnfolds DEF Bounded
<1> QED
  BY <1>1, <1>3, <1>4, Became

LEMMA CreateEmptyKeeps ==
    ASSUME ZcoInv, NEW a \in Accts, CreateEmpty(a)
    PROVE  ZcoInv'
<1> DEFINE z == Min(FreeZcos)
           u == NewZco(Store, z, a)
<1>1. z \in ZcoIds /\ zcos[z] = NoZco /\ Become(u)
  BY FreshAddress DEF CreateEmpty
<1> HIDE DEF z
<1>2. ZcoPlaced(u, Store, z, a, {})
  BY <1>1, InvUnfolds, ZcoCreated DEF Sound
<1> HIDE DEF u
<1>3. Sound(u) /\ Bounded(u)
  BY <1>1, <1>2, InvUnfolds, NewZcoBounded DEF Sound
<1> QED
  BY <1>1, <1>3, Became

LEMMA CreateKeeps ==
    ASSUME ZcoInv, NEW a \in Accts, NEW o \in Objects, NEW offset \in Nat, NEW length \in Nat,
           NEW d, Create(a, o, offset, length, d)
    PROVE  ZcoInv'
<1> DEFINE z == Min(FreeZcos)
           t == Sourced(o)
           u == NewZco(t, z, a)
           w == ExtendByRef(u, z, o, offset, length)
<1>1. /\ z \in ZcoIds /\ zcos[z] = NoZco /\ Become(w) /\ FreeLiens # {} /\ MaySource(o)
      /\ Extents < MaxExtents /\ offset + length <= Length[o]
  BY FreshAddress DEF Create
<1> HIDE DEF z, t
<1>2. PICK O : SourceMade(t, o, O)
  BY <1>1, SourcedDone DEF t
<1>3. ZcoPlaced(u, t, z, a, O)
  BY <1>1, <1>2, ZcoCreated DEF SourceMade
<1> HIDE DEF u
<1>4. /\ SoundWith(u, u.zcos, {}, O) /\ Bounded(u) /\ u.zcos[z] # NoZco
      /\ u.zcos[z].extents = <<>> /\ u.liens = t.liens /\ u.refs = t.refs
  BY <1>1, <1>2, <1>3, InvUnfolds, NewZcoBounded DEF SourceMade
<1>5. FreeIn(u) # {} /\ u.refs[o] # NoRef
  BY <1>1, <1>2, <1>4 DEF FreeIn, FreeLiens, SourceMade
<1>6. Grown(w, u, z, 1)
  BY <1>1, <1>2, <1>4, <1>5, ExtendByRefDone DEF SourceMade
<1> HIDE DEF w
<1>7. Len(u.zcos[z].extents) + 1 <= MaxExtents
  <2>1. Len(<<>>) = 0
    OBVIOUS
  <2> QED
    BY <1>1, <1>4, <2>1, ExtentsSpent, ZcoAssumption
<1>8. Sound(w) /\ Bounded(w)
  BY <1>1, <1>4, <1>6, <1>7, GrownBounded
<1> QED
  BY <1>1, <1>8, Became

LEMMA AppendExtentKeeps ==
    ASSUME ZcoInv, NEW z \in ZcoIds, NEW o \in Objects, NEW offset \in Nat, NEW length \in Nat,
           NEW d, AppendExtent(z, o, offset, length, d)
    PROVE  ZcoInv'
<1> DEFINE u == Sourced(o)
           w == ExtendByRef(u, z, o, offset, length)
<1>1. /\ z \in Live /\ Become(w) /\ FreeLiens # {} /\ MaySource(o)
      /\ Extents < MaxExtents /\ offset + length <= Length[o]
  BY DEF AppendExtent
<1> HIDE DEF u
<1>2. PICK O : SourceMade(u, o, O)
  BY <1>1, SourcedDone DEF u
<1>3. FreeIn(u) # {} /\ u.refs[o] # NoRef /\ u.zcos = zcos /\ zcos[z] # NoZco
  BY <1>1, <1>2 DEF FreeIn, FreeLiens, SourceMade, Live
<1>4. Grown(w, u, z, 1)
  BY <1>1, <1>2, <1>3, ExtendByRefDone DEF SourceMade
<1> HIDE DEF w
<1>5. Len(u.zcos[z].extents) + 1 <= MaxExtents
  <2>1. Len(zcos[z].extents) \in Nat /\ Len(zcos[z].extents) <= Extents /\ Extents \in Nat
    BY <1>1, ExtentsSpent
  <2> QED
    BY <1>1, <1>3, <2>1, ZcoAssumption
<1>6. Sound(w) /\ Bounded(w)
  BY <1>2, <1>4, <1>5, GrownBounded DEF SourceMade
<1> QED
  BY <1>1, <1>6, Became

\* The pieces of a walk over the extents of a ZCO can be cited.
PiecesOf(from, offset, length) == Walk(zcos[from].extents, offset, length)

LEMMA PiecesStand ==
    ASSUME ZcoInv, NEW from \in ZcoIds, zcos[from] # NoZco, NEW offset \in Nat, NEW length \in Nat
    PROVE  /\ PiecesOf(from, offset, length) \in Seq(ZcoExtents)
           /\ Len(PiecesOf(from, offset, length)) \in Nat
           /\ \A i \in DOMAIN PiecesOf(from, offset, length) :
                 Standing(Store, PiecesOf(from, offset, length)[i])
<1> DEFINE q == zcos[from].extents
           w == PiecesOf(from, offset, length)
<1>1. q \in Seq(ZcoExtents) /\ Store.zcos = zcos /\ Sound(Store)
  BY InvUnfolds, ZcoTyped
<1>2. \A k \in DOMAIN q : Backed(Store, q[k], zcos[from].acct)
  BY <1>1, ExtentsBacked DEF Sound
<1> HIDE DEF q
<1>3. w \in Seq(ZcoExtents) /\ \A j \in DOMAIN w : \E k \in DOMAIN q : Within(w[j], q[k])
  BY <1>1, WalkInside DEF q, PiecesOf
<1> HIDE DEF w
<1>4. ASSUME NEW j \in DOMAIN w
      PROVE  Standing(Store, w[j])
  <2>1. PICK k \in DOMAIN q : Within(w[j], q[k])
    BY <1>3
  <2>2. Backed(Store, q[k], zcos[from].acct)
    BY <1>2
  <2>3. w[j] \in ZcoExtents
    BY <1>3
  <2> DEFINE e == w[j]
             f == q[k]
             n == Length[Store.liens[f.lien].ref]
  <2>4. e \in ZcoExtents /\ f \in ZcoExtents /\ e.lien = f.lien
        /\ e.offset + e.length <= f.offset + f.length /\ f.offset + f.length <= n /\ n \in Nat
    BY <2>1, <2>2, <2>3, Sizes DEF Within, Backed
  <2> HIDE DEF e, f, n
  <2>5. e.offset + e.length <= n
    BY <2>4 DEF ZcoExtents
  <2> QED
    BY <2>2, <2>4, <2>5 DEF Backed, Standing, e, f, n
<1>5. Len(w) \in Nat
  BY <1>3
<1> QED
  BY <1>3, <1>4, <1>5 DEF w

\* A new ZCO with the pieces of a walk over another one.
LEMMA CreateFromKeeps ==
    ASSUME ZcoInv, FreeZcos # {}, NEW z, z = Min(FreeZcos), NEW a \in Accts,
           NEW from \in ZcoIds, zcos[from] # NoZco, NEW offset \in Nat, NEW length \in Nat,
           Fits(from, offset, length),
           Become(ExtendByZco(NewZco(Store, z, a), z, from, offset, length))
    PROVE  ZcoInv'
<1> DEFINE u == NewZco(Store, z, a)
           q == PiecesOf(from, offset, length)
           w == AllAdded(u, z, q)
<1>1. z \in ZcoIds /\ zcos[z] = NoZco
  BY FreshAddress
<1>2. ZcoPlaced(u, Store, z, a, {})
  BY <1>1, InvUnfolds, ZcoCreated DEF Sound
<1>3. /\ SoundWith(u, u.zcos, {}, {}) /\ Bounded(u) /\ u.zcos[z] # NoZco
      /\ u.zcos[z].extents = <<>> /\ u.liens = Store.liens /\ u.refs = Store.refs
      /\ \A k \in ZcoIds \ {z} : u.zcos[k] = Store.zcos[k]
  <2> HIDE DEF u
  <2> QED
    BY <1>1, <1>2, InvUnfolds, NewZcoBounded
<1>4. ExtendByZco(u, z, from, offset, length) = w
  <2>1. u.zcos[from] = zcos[from]
    BY <1>1, <1>3, InvUnfolds
  <2> HIDE DEF u
  <2> QED
    BY <2>1 DEF ExtendByZco, AllAdded, PiecesOf
<1> HIDE DEF u
<1>5. q \in Seq(ZcoExtents) /\ Len(q) \in Nat /\ \A i \in DOMAIN q : Standing(u, q[i])
  BY <1>3, PiecesStand DEF Standing
<1>6. Extents + Len(q) <= MaxExtents
  BY DEF Fits, PiecesOf
<1> HIDE DEF q
<1>7. Grown(w, u, z, Len(q))
  BY <1>1, <1>3, <1>5, AllAddedDone DEF Sound
<1> HIDE DEF w
<1>8. Len(u.zcos[z].extents) + Len(q) <= MaxExtents
  <2>1. Len(u.zcos[z].extents) = 0
    BY <1>3
  <2>2. Extents \in Nat /\ MaxExtents \in Nat
    BY ExtentsSpent, ZcoAssumption
  <2> QED
    BY <1>5, <1>6, <2>1, <2>2
<1>9. Sound(w) /\ Bounded(w)
  BY <1>1, <1>3, <1>7, <1>8, GrownBounded
<1>10. Become(w)
  BY <1>4 DEF u
<1> QED
  BY <1>9, <1>10, Became

\* Capsules are part of the total.
LEMMA DataLengths ==
    ASSUME ZcoInv, NEW z \in ZcoIds, zcos[z] # NoZco
    PROVE  DataLength(z) \in Nat
<1>1. zcos[z] \in Zcos /\ Store.zcos = zcos /\ HeadersOwned(Bare(Store), Store.zcos)
  BY InvUnfolds DEF Sound, SoundWith
<1>2. zcos[z].capsuleLength <= zcos[z].totalLength
  BY <1>1 DEF HeadersOwned
<1>3. zcos[z].capsuleLength \in Nat /\ zcos[z].totalLength \in Nat
  BY <1>1 DEF Zcos
<1> QED
  BY <1>2, <1>3 DEF DataLength

LEMMA CreateFromZcoKeeps ==
    ASSUME ZcoInv, NEW a \in Accts, NEW from \in ZcoIds, NEW d, CreateFromZco(a, from, d)
    PROVE  ZcoInv'
<1>1. FreeZcos # {} /\ zcos[from] # NoZco /\ Fits(from, 0, DataLength(from))
      /\ Become(ExtendByZco(NewZco(Store, Min(FreeZcos), a), Min(FreeZcos), from, 0,
                            DataLength(from)))
  BY DEF CreateFromZco, Live
<1>2. DataLength(from) \in Nat
  BY <1>1, DataLengths
<1> QED
  BY <1>1, <1>2, CreateFromKeeps

LEMMA CloneKeeps ==
    ASSUME ZcoInv, NEW from \in ZcoIds, NEW offset \in Nat, NEW length \in Nat,
           Clone(from, offset, length)
    PROVE  ZcoInv'
<1>1. FreeZcos # {} /\ zcos[from] # NoZco /\ Fits(from, offset, length)
      /\ Become(ExtendByZco(NewZco(Store, Min(FreeZcos), zcos[from].acct), Min(FreeZcos), from,
                            offset, length))
  BY DEF Clone, Live
<1>2. zcos[from].acct \in Accts
  BY <1>1, InvUnfolds, ZcoTyped
<1> QED
  BY <1>1, <1>2, CreateFromKeeps

LEMMA AppendFromZcoKeeps ==
    ASSUME ZcoInv, NEW z \in ZcoIds, NEW from \in ZcoIds, NEW offset \in Nat,
           NEW length \in Nat, AppendFromZco(z, from, offset, length)
    PROVE  ZcoInv'
<1> DEFINE q == PiecesOf(from, offset, length)
           w == AllAdded(Store, z, q)
<1>1. z \in Live /\ zcos[z] # NoZco /\ zcos[from] # NoZco /\ Fits(from, offset, length)
      /\ Become(ExtendByZco(Store, z, from, offset, length))
  BY DEF AppendFromZco, Live
<1>2. ExtendByZco(Store, z, from, offset, length) = w
  <2>1. Store.zcos = zcos
    BY InvUnfolds
  <2> QED
    BY <2>1 DEF ExtendByZco, AllAdded, PiecesOf
<1>3. q \in Seq(ZcoExtents) /\ Len(q) \in Nat /\ \A i \in DOMAIN q : Standing(Store, q[i])
  BY <1>1, PiecesStand
<1>4. Extents + Len(q) <= MaxExtents
  BY <1>1 DEF Fits, PiecesOf
<1> HIDE DEF q
<1>5. Grown(w, Store, z, Len(q))
  BY <1>1, <1>3, InvUnfolds, AllAddedDone
<1> HIDE DEF w
<1>6. Len(Store.zcos[z].extents) + Len(q) <= MaxExtents
  <2>1. Len(zcos[z].extents) \in Nat /\ Len(zcos[z].extents) <= Extents
        /\ Extents \in Nat /\ MaxExtents \in Nat
    BY <1>1, ExtentsSpent, ZcoAssumption
  <2>2. Store.zcos = zcos
    BY InvUnfolds
  <2> QED
    BY <1>3, <1>4, <2>1, <2>2
<1>7. Sound(w) /\ Bounded(w)
  BY <1>5, <1>6, InvUnfolds, GrownBounded
<1> QED
  BY <1>1, <1>2, <1>7, Became

LEMMA PrependHeaderKeeps ==
    ASSUME ZcoInv, NEW z \in ZcoIds, NEW o \in Objects, PrependHeader(z, o)
    PROVE  ZcoInv'
<1> DEFINE u == Prepended(Store, z, o)
<1>1. Store.zcos = zcos /\ Store.objects = objects
  BY InvUnfolds
<1>2. zcos[z] # NoZco /\ o \notin Store.objects /\ Medium[o] = "heap" /\ Become(u)
  BY <1>1 DEF PrependHeader, Live, FreeObjects, Prepended
<1>3. Sound(u) /\ u.zcos = [Store.zcos EXCEPT ![z] = WithHeader(Store.zcos[z], o)]
  BY <1>1, <1>2, InvUnfolds, HeaderCreated
<1> HIDE DEF u
<1>4. Bounded(u)
  <2>1. Store.zcos \in ZcoTables /\ Store.zcos[z] \in Zcos /\ Bounded(Store)
    BY <1>1, <1>2, InvUnfolds
  <2>2. WithHeader(Store.zcos[z], o).extents = Store.zcos[z].extents
    BY <2>1, WithHeaderTyped
  <2>3. \A k \in ZcoIds : u.zcos[k] = IF k = z THEN WithHeader(Store.zcos[z], o)
                                      ELSE Store.zcos[k]
    BY <1>3, <2>1 DEF ZcoTables
  <2> QED
    BY <1>1, <1>2, <2>1, <2>2, <2>3 DEF Bounded
<1> QED
  BY <1>2, <1>3, <1>4, Became

LEMMA BondKeeps ==
    ASSUME ZcoInv, NEW z \in ZcoIds, Bond(z)
    PROVE  ZcoInv'
<1> DEFINE q == zcos[z].headers
           u == Settled(AllBonded(Store, z, q), z, zcos[z].capsuleLength)
<1>1. /\ z \in Live /\ zcos[z] # NoZco /\ Cardinality(FreeLiens) >= Len(q)
      /\ Len(q) + Extents <= MaxExtents /\ Become(u)
  BY DEF Bond, Live, Settled, AllBonded
<1>2. Store.zcos = zcos /\ FreeIn(Store) = FreeLiens /\ Sound(Store) /\ Bounded(Store)
  BY InvUnfolds
<1>3. Grown(u, Store, z, Len(q))
  BY <1>1, <1>2, BondDone
<1> HIDE DEF u
<1>4. Len(Store.zcos[z].extents) + Len(q) <= MaxExtents
  <2>1. Len(zcos[z].extents) \in Nat /\ Len(zcos[z].extents) <= Extents
        /\ Extents \in Nat /\ MaxExtents \in Nat
    BY <1>1, ExtentsSpent, ZcoAssumption
  <2>2. Len(q) \in Nat
    BY <1>1, InvUnfolds, ZcoTyped
  <2> HIDE DEF q
  <2> QED
    BY <1>1, <1>2, <2>1, <2>2
<1>5. Sound(u) /\ Bounded(u)
  BY <1>2, <1>3, <1>4, GrownBounded
<1> QED
  BY <1>1, <1>5, Became

Delimited(x, offset, length, rest) ==
    [x EXCEPT !.headersLength = offset, !.sourceLength = length, !.trailersLength = rest]

LEMMA DelimitKeeps ==
    ASSUME ZcoInv, NEW z \in ZcoIds, NEW offset \in Nat, NEW length \in Nat,
           Delimit(z, offset, length)
    PROVE  ZcoInv'
<1> DEFINE rest == DataLength(z) - offset - length
           x == Delimited(zcos[z], offset, length, rest)
           u == WithZco(Store, z, x)
<1>1. zcos[z] # NoZco /\ offset + length <= DataLength(z)
      /\ Become([Store EXCEPT !.zcos[z].headersLength = offset, !.zcos[z].sourceLength = length,
                              !.zcos[z].trailersLength = DataLength(z) - offset - length])
  BY DEF Delimit, Live
<1>2. Store.zcos = zcos /\ zcos \in ZcoTables /\ zcos[z] \in Zcos /\ Sound(Store)
      /\ Bounded(Store) /\ Store \in Stores
  BY <1>1, InvUnfolds
<1>3. rest \in Nat
  <2>1. DataLength(z) \in Nat
    BY <1>1, DataLengths
  <2> QED
    BY <1>1, <2>1
<1>4. u = [Store EXCEPT !.zcos[z].headersLength = offset, !.zcos[z].sourceLength = length,
                        !.zcos[z].trailersLength = rest]
  BY <1>2 DEF WithZco, Delimited, Stores, ZcoTables
<1>5. Become(u)
  BY <1>1, <1>4
<1> HIDE DEF rest
<1>6. x \in Zcos /\ x.acct = zcos[z].acct /\ x.extents = zcos[z].extents
      /\ x.headers = zcos[z].headers /\ x.capsuleLength = zcos[z].capsuleLength
      /\ x.totalLength = zcos[z].totalLength
  BY <1>2, <1>3 DEF Zcos, Delimited
<1> HIDE DEF x
<1>7. Sound(u)
  BY <1>1, <1>2, <1>6, LengthsSet DEF Sound
<1>8. Bounded(u)
  <2>1. \A k \in ZcoIds : u.zcos[k] = IF k = z THEN x ELSE zcos[k]
    BY <1>2 DEF WithZco, Stores, ZcoTables
  <2> HIDE DEF u
  <2> QED
    BY <1>1, <1>2, <1>6, <2>1 DEF Bounded
<1> HIDE DEF u
<1> QED
  BY <1>5, <1>7, <1>8, Became

LEMMA DestroyKeeps ==
    ASSUME ZcoInv, NEW z \in ZcoIds, Destroy(z)
    PROVE  ZcoInv'
<1> DEFINE a == zcos[z].acct
           p == AllCut(Store, a, zcos[z].extents)
           t == AllBare(p, a, zcos[z].headers)
           u == Reduce([t EXCEPT !.zcos[z] = NoZco], a, "heap", ZcoSize)
<1>1. zcos[z] # NoZco /\ Become(u)
  BY DEF Destroy, Live, AllCut, AllBare
<1>2. Store.zcos = zcos /\ Sound(Store) /\ Bounded(Store)
  BY InvUnfolds
<1>3. Shrunk(u, Store, z)
  <2>1. a = Store.zcos[z].acct /\ p = AllCut(Store, a, Store.zcos[z].extents)
        /\ t = AllBare(p, a, Store.zcos[z].headers)
    BY <1>2
  <2>2. Store.zcos[z] # NoZco
    BY <1>1, <1>2
  <2> HIDE DEF a, p, t
  <2> QED
    BY <1>2, <2>1, <2>2, DestroyDone
<1> HIDE DEF u
<1>4. Sound(u) /\ Bounded(u)
  BY <1>2, <1>3 DEF Shrunk, Bounded
<1> QED
  BY <1>1, <1>4, Became

\* An empty store is sound.
LEMMA InitKeeps ==
    ASSUME Init
    PROVE  ZcoInv
<1> DEFINE s == Store
<1>1. /\ s.zcos = [z \in ZcoIds |-> NoZco] /\ s.liens = [l \in LienIds |-> NoLien]
      /\ s.refs = [o \in Objects |-> NoRef] /\ s.objects = {}
      /\ s.book = [a \in Accts |-> [m \in Media |-> 0]]
      /\ s = [zcos |-> s.zcos, liens |-> s.liens, refs |-> s.refs, objects |-> s.objects,
              book |-> s.book]
  BY DEF Init, Store
<1> HIDE DEF s
<1>2. /\ \A z \in ZcoIds : s.zcos[z] = NoZco
      /\ \A l \in LienIds : s.liens[l] = NoLien
      /\ \A o \in Objects : s.refs[o] = NoRef
      /\ \A a \in Accts, m \in Media : s.book[a][m] = 0
  BY <1>1
<1>3. s.zcos \in ZcoTables /\ s \in Stores
  <2>1. s.zcos \in ZcoTables
    BY <1>1 DEF ZcoTables
  <2>2. s.liens \in [LienIds -> Liens \cup {NoLien}] /\ s.refs \in [Objects -> Refs \cup {NoRef}]
        /\ s.objects \in SUBSET Objects /\ s.book \in [Accts -> [Media -> Int]]
    BY <1>1
  <2> HIDE DEF NoZco, NoLien, NoRef
  <2> QED
    BY <1>1, <2>1, <2>2 DEF Stores, ZcoTables
<1>4. Paid(s, s.zcos)
  <2> SUFFICES ASSUME NEW a \in Accts, NEW m \in Media
               PROVE  Excess(s, a, m) = ZcoDue(s.zcos, a, m)
    BY DEF Paid
  <2>1. \A l \in LienIds : LienCosts(s, a, m)[l] = 0
    BY <1>2 DEF LienCosts, LienCost
  <2>2. \A o \in Objects : RefCosts(s, a, m)[o] = 0
    BY <1>2 DEF RefCosts, RefCost
  <2>3. \A z \in ZcoIds : ZcoCosts(s.zcos, a, m)[z] = 0
    BY <1>2 DEF ZcoCosts, ZcoCost
  <2>4. SumOf(LienCosts(s, a, m), LienIds) = 0 * Cardinality(LienIds)
    BY <2>1, Addresses, SumOfEqual
  <2>5. SumOf(RefCosts(s, a, m), Objects) = 0 * Cardinality(Objects)
    BY <2>2, Addresses, SumOfEqual
  <2>6. SumOf(ZcoCosts(s.zcos, a, m), ZcoIds) = 0 * Cardinality(ZcoIds)
    BY <2>3, Addresses, SumOfEqual
  <2>7. Cardinality(LienIds) \in Nat /\ Cardinality(Objects) \in Nat /\ Cardinality(ZcoIds) \in Nat
    BY Addresses, FS_CardinalityType
  <2> QED
    BY <1>2, <2>4, <2>5, <2>6, <2>7 DEF Excess, ZcoDue
<1>5. RefsCounted(s)
  <2>1. \A o \in Objects, a \in Accts : Citing(s, o, a) = {} /\ RefCount(s, o, a) = 0
    BY <1>2 DEF Citing, RefCount
  <2>2. Cardinality({}) = 0
    BY FS_EmptySet
  <2> QED
    BY <2>1, <2>2 DEF RefsCounted
<1>6. CitesCounted(s, s.zcos)
  <2> SUFFICES ASSUME NEW l \in LienIds, NEW a \in Accts
               PROVE  LienCount(s, l, a) = CitedIn(s.zcos, l, a)
    BY DEF CitesCounted
  <2> DEFINE f == [z \in ZcoIds |-> CitedBy(s.zcos[z], l, a)]
  <2>1. \A z \in ZcoIds : f[z] = 0
    BY <1>2 DEF CitedBy
  <2>2. LienCount(s, l, a) = 0
    BY <1>2 DEF LienCount
  <2> HIDE DEF f
  <2>3. SumOf(f, ZcoIds) = 0 * Cardinality(ZcoIds) /\ Cardinality(ZcoIds) \in Nat
    BY <2>1, Addresses, SumOfEqual, FS_CardinalityType
  <2> QED
    BY <2>2, <2>3 DEF CitedIn, f
<1>7. LiensCited(s, {}) /\ RefsKept(s, {}) /\ ExtentsInside(s, s.zcos) /\ Bounded(s)
  BY <1>2 DEF LiensCited, RefsKept, ExtentsInside, Bounded
<1>8. HeadersOwned(Bare(s), s.zcos)
  BY <1>1, <1>2 DEF HeadersOwned, Bare
<1> QED
  BY <1>3, <1>4, <1>5, <1>6, <1>7, <1>8 DEF Sound, SoundWith, ZcoInv, s

\* Nothing happens.
LEMMA SameKeeps ==
    ASSUME ZcoInv, UNCHANGED vars
    PROVE  ZcoInv'
<1>1. Become(Store)
  BY DEF Become, Store, vars
<1> QED
  BY <1>1, InvUnfolds, Became

\* Every step keeps the invariant.
LEMMA NextKeeps ==
    ASSUME ZcoInv, Next
    PROVE  ZcoInv'
<1>1. ASSUME NEW o \in Objects, CreateRef(o) \/ DestroyRef(o)
      PROVE  ZcoInv'
  BY <1>1, CreateRefKeeps, DestroyRefKeeps
<1>2. ASSUME NEW a \in Accts, CreateEmpty(a)
      PROVE  ZcoInv'
  BY <1>2, CreateEmptyKeeps
<1>3. ASSUME NEW a \in Accts, NEW o \in Objects, NEW i \in Offsets, NEW n \in Lengths,
             NEW d \in Declares, Create(a, o, i, n, d)
      PROVE  ZcoInv'
  <2>1. i \in Nat /\ n \in Nat
    BY PartsTyped
  <2> QED
    BY <1>3, <2>1, CreateKeeps
<1>4. ASSUME NEW a \in Accts, NEW z \in ZcoIds, NEW d \in Declares, CreateFromZco(a, z, d)
      PROVE  ZcoInv'
  BY <1>4, CreateFromZcoKeeps
<1>5. ASSUME NEW z \in ZcoIds, NEW o \in Objects, NEW i \in Offsets, NEW n \in Lengths,
             NEW d \in Declares, AppendExtent(z, o, i, n, d)
      PROVE  ZcoInv'
  <2>1. i \in Nat /\ n \in Nat
    BY PartsTyped
  <2> QED
    BY <1>5, <2>1, AppendExtentKeeps
<1>6. ASSUME NEW z \in ZcoIds, NEW f \in ZcoIds, NEW i \in Offsets, NEW n \in Lengths,
             AppendFromZco(z, f, i, n)
      PROVE  ZcoInv'
  <2>1. i \in Nat /\ n \in Nat
    BY PartsTyped
  <2> QED
    BY <1>6, <2>1, AppendFromZcoKeeps
<1>7. ASSUME NEW f \in ZcoIds, NEW i \in Offsets, NEW n \in Lengths, Clone(f, i, n)
      PROVE  ZcoInv'
  <2>1. i \in Nat /\ n \in Nat
    BY PartsTyped
  <2> QED
    BY <1>7, <2>1, CloneKeeps
<1>8. ASSUME NEW z \in ZcoIds, NEW o \in Objects, PrependHeader(z, o)
      PROVE  ZcoInv'
  BY <1>8, PrependHeaderKeeps
<1>9. ASSUME NEW z \in ZcoIds, Bond(z) \/ Destroy(z)
      PROVE  ZcoInv'
  BY <1>9, BondKeeps, DestroyKeeps
<1>10. ASSUME NEW z \in ZcoIds, NEW d \in Delimits, Delimit(z, d[1], d[2])
       PROVE  ZcoInv'
  <2>1. d[1] \in Nat /\ d[2] \in Nat
    BY PartsTyped
  <2> QED
    BY <1>10, <2>1, DelimitKeeps
<1> QED
  BY <1>1, <1>2, <1>3, <1>4, <1>5, <1>6, <1>7, <1>8, <1>9, <1>10 DEF Next

\* The invariant holds whatever the operations and their order.
LEMMA InvKept == Spec => []ZcoInv
<1>1. Init => ZcoInv
  BY InitKeeps
<1>2. ZcoInv /\ [Next]_vars => ZcoInv'
  BY NextKeeps, SameKeeps
<1> QED
  BY <1>1, <1>2, PTL DEF Spec

(***************************************************************************)
(* What the invariant says in the words of the properties.                 *)
(***************************************************************************)
CitesAmong(T, a, l) == {c \in Cites(a, l) : c[1] \in T}
PlacesOf(z, a, l) ==
    {i \in 1..MaxExtents : /\ zcos[z] # NoZco /\ zcos[z].acct = a
                           /\ i \in DOMAIN zcos[z].extents /\ zcos[z].extents[i].lien = l}

\* The extents of a ZCO that cite a lien.
LEMMA CitesOfZco ==
    ASSUME ZcoInv, NEW z \in ZcoIds, NEW a, NEW l
    PROVE  /\ IsFiniteSet(PlacesOf(z, a, l))
           /\ Cardinality(PlacesOf(z, a, l)) = CitedBy(zcos[z], l, a)
<1>1. IsFiniteSet(1..MaxExtents)
  <2>1. 1 \in Int /\ MaxExtents \in Int
    BY ZcoAssumption
  <2> QED
    BY <2>1, FS_Interval
<1>2. IsFiniteSet(PlacesOf(z, a, l))
  BY <1>1, FS_Subset DEF PlacesOf
<1>3. CASE zcos[z] # NoZco /\ zcos[z].acct = a
  <2> DEFINE q == zcos[z].extents
  <2>1. q \in Seq(ZcoExtents) /\ Len(q) \in Nat
    BY <1>3, InvUnfolds, ZcoTyped
  <2>2. Len(q) <= MaxExtents /\ MaxExtents \in Nat
    BY <1>3, InvUnfolds, ZcoAssumption DEF Bounded
  <2>3. DOMAIN q = 1..Len(q)
    BY <2>1
  <2>4. \A i \in DOMAIN q : i \in 1..MaxExtents
    BY <2>1, <2>2, <2>3
  <2>5. PlacesOf(z, a, l) = {i \in DOMAIN q : q[i].lien = l}
    BY <1>3, <2>4 DEF PlacesOf
  <2> QED
    BY <1>2, <1>3, <2>5 DEF CitedBy, Occ
<1>4. CASE zcos[z] = NoZco \/ zcos[z].acct # a
  <2>1. PlacesOf(z, a, l) = {}
    BY <1>4 DEF PlacesOf
  <2> QED
    BY <1>2, <1>4, <2>1, FS_EmptySet DEF CitedBy
<1> QED
  BY <1>3, <1>4

\* Pairs with one first element are as many as the second ones.
LEMMA PairsWith ==
    ASSUME NEW z, NEW I, IsFiniteSet(I)
    PROVE  IsFiniteSet({z} \X I) /\ Cardinality({z} \X I) = Cardinality(I)
<1>1. IsFiniteSet({z}) /\ Cardinality({z}) = 1 /\ Cardinality(I) \in Nat
  BY FS_Singleton, FS_CardinalityType
<1> QED
  BY <1>1, FS_Product

\* The citations of a lien are counted ZCO by ZCO.
LEMMA CitesCountedThere ==
    ASSUME ZcoInv, NEW a \in Accts, NEW l \in LienIds
    PROVE  Cardinality(Cites(a, l)) = CitedIn(zcos, l, a)
<1> DEFINE f == [z \in ZcoIds |-> CitedBy(zcos[z], l, a)]
           F == {T \in SUBSET ZcoIds : /\ IsFiniteSet(CitesAmong(T, a, l))
                                       /\ Cardinality(CitesAmong(T, a, l)) = SumOf(f, T)}
<1>1. \A z \in ZcoIds : f[z] \in Nat
  BY InvUnfolds, CitedType DEF ZcoTables
<1>2. {} \in F
  <2>1. CitesAmong({}, a, l) = {}
    BY DEF CitesAmong
  <2> QED
    BY <2>1, FS_EmptySet, SumEmpty
<1>3. ASSUME NEW T \in SUBSET ZcoIds, NEW z \in ZcoIds \ T, T \in F
      PROVE  T \cup {z} \in F
  <2> DEFINE A == CitesAmong(T, a, l)
             I == PlacesOf(z, a, l)
             B == {z} \X I
             C == CitesAmong(T \cup {z}, a, l)
  <2>1. C = A \cup B /\ A \cap B = {}
    <3>1. \A c : c \in B <=> c \in Cites(a, l) /\ c[1] = z
      <4>1. ASSUME NEW c \in B
            PROVE  c \in Cites(a, l) /\ c[1] = z
        <5>1. PICK i \in I : c = <<z, i>>
          OBVIOUS
        <5> QED
          BY <5>1 DEF PlacesOf, Cites
      <4>2. ASSUME NEW c \in Cites(a, l), c[1] = z
            PROVE  c \in B
        <5>1. c \in ZcoIds \X (1..MaxExtents)
          BY DEF Cites
        <5>2. c = <<c[1], c[2]>> /\ c[2] \in 1..MaxExtents
          BY <5>1
        <5>3. c[2] \in I
          BY <4>2, <5>2 DEF PlacesOf, Cites
        <5> QED
          BY <4>2, <5>2, <5>3
      <4> QED
        BY <4>1, <4>2
    <3> HIDE DEF B
    <3>2. C = A \cup B
      BY <3>1 DEF CitesAmong
    <3>3. A \cap B = {}
      BY <1>3, <3>1 DEF CitesAmong
    <3> QED
      BY <3>2, <3>3
  <2>2. IsFiniteSet(I) /\ Cardinality(I) = f[z]
    BY CitesOfZco
  <2> HIDE DEF I
  <2>3. IsFiniteSet(B) /\ Cardinality(B) = f[z]
    BY <2>2, PairsWith
  <2> HIDE DEF A, B, C, f
  <2>4. IsFiniteSet(A) /\ Cardinality(A) = SumOf(f, T)
    BY <1>3 DEF A
  <2>5. IsFiniteSet(C) /\ Cardinality(C) = Cardinality(A) + Cardinality(B) - Cardinality({})
    BY <2>1, <2>3, <2>4, FS_Union
  <2>6. SumOf(f, T \cup {z}) = f[z] + SumOf(f, T) /\ SumOf(f, T) \in Nat
    <3>1. IsFiniteSet(T) /\ z \notin T
      BY Addresses, FS_Subset
    <3> QED
      BY <1>1, <3>1, SumMore, SumType
  <2>7. Cardinality(C) = SumOf(f, T \cup {z})
    BY <1>1, <2>3, <2>4, <2>5, <2>6, FS_EmptySet
  <2> QED
    BY <2>5, <2>7 DEF C
<1> HIDE DEF F, f
<1>4. ZcoIds \in F
  BY <1>2, <1>3, Addresses, SetsInduction
<1>5. CitesAmong(ZcoIds, a, l) = Cites(a, l)
  BY DEF CitesAmong, Cites
<1> QED
  BY <1>4, <1>5 DEF F, f, CitedIn

\* Every counter is the number of those that cite.
LEMMA CitationsKept ==
    ASSUME ZcoInv
    PROVE  CitationsExact
<1> DEFINE s == Store
<1>1. /\ s \in Stores /\ s.zcos = zcos /\ s.liens = liens /\ s.refs = refs
      /\ RefsCounted(s) /\ CitesCounted(s, zcos) /\ LiensCited(s, {})
  BY InvUnfolds DEF Sound, SoundWith
<1> HIDE DEF s
<1>2. ASSUME NEW l \in Held
      PROVE  /\ \A a \in Accts : liens[l].count[a] = Cardinality(Cites(a, l))
             /\ liens[l].count # NoCitation
  <2>1. l \in LienIds /\ liens[l] # NoLien
    BY DEF Held
  <2>2. liens[l].count \in Counts
    BY <1>1, <2>1, CountsTyped
  <2>3. \A a \in Accts : liens[l].count[a] = CitedIn(zcos, l, a)
    BY <1>1, <2>1 DEF CitesCounted, LienCount
  <2>4. \A a \in Accts : liens[l].count[a] = Cardinality(Cites(a, l))
    BY <2>1, <2>3, CitesCountedThere
  <2>5. PICK a \in Accts : LienCount(s, l, a) > 0
    BY <1>1, <2>1 DEF LiensCited
  <2>6. liens[l].count[a] # 0
    BY <1>1, <2>1, <2>5 DEF LienCount
  <2>7. liens[l].count # NoCitation
    BY <2>2, <2>6, NothingCited
  <2> QED
    BY <2>4, <2>7
<1>3. ASSUME NEW o \in Objects, refs[o] # NoRef, NEW a \in Accts
      PROVE  refs[o].count[a] = Cardinality({l \in HeldIn(a) : liens[l].ref = o})
  <2>1. {l \in HeldIn(a) : liens[l].ref = o} = Citing(s, o, a)
    BY <1>1 DEF HeldIn, Held, Citing
  <2> QED
    BY <1>1, <1>3, <2>1 DEF RefsCounted, RefCount
<1> QED
  BY <1>2, <1>3 DEF CitationsExact

\* What an account owes in a medium.
LEMMA BookOwed ==
    ASSUME ZcoInv, NEW a \in Accts, NEW m \in Media
    PROVE  /\ book[a][m] = SumOf(LienCosts(Store, a, m), LienIds)
                             + SumOf(RefCosts(Store, a, m), Objects)
                             + SumOf(ZcoCosts(zcos, a, m), ZcoIds)
           /\ SumOf(LienCosts(Store, a, m), LienIds) \in Nat
           /\ SumOf(RefCosts(Store, a, m), Objects) \in Nat
           /\ SumOf(ZcoCosts(zcos, a, m), ZcoIds) \in Nat
<1> DEFINE x == SumOf(LienCosts(Store, a, m), LienIds)
           y == SumOf(RefCosts(Store, a, m), Objects)
           w == SumOf(ZcoCosts(zcos, a, m), ZcoIds)
<1>1. Store \in Stores /\ Store.zcos = zcos /\ Store.book = book /\ Paid(Store, zcos)
      /\ zcos \in ZcoTables
  BY InvUnfolds DEF Sound, SoundWith
<1>2. x \in Nat /\ y \in Nat /\ book[a][m] \in Int
  BY <1>1, CostTypes
<1>3. w \in Nat
  <2>1. \A z \in ZcoIds : ZcoCosts(zcos, a, m)[z] \in Nat
    BY <1>1, ZcoCostType DEF ZcoCosts, ZcoTables
  <2> QED
    BY <2>1, Addresses, SumType
<1>4. book[a][m] - (x + y) = w
  BY <1>1 DEF Paid, Excess, ZcoDue
<1> HIDE DEF x, y, w
<1>5. book[a][m] = x + y + w
  BY <1>2, <1>3, <1>4
<1> QED
  BY <1>2, <1>3, <1>5 DEF x, y, w

\* The bytes under the liens that an account cites.
BytesUnder == [l \in LienIds |-> IF l \in Held THEN liens[l].length ELSE 0]
UnderIn(a, m) == {l \in HeldIn(a) : Medium[liens[l].ref] = m}

\* What liens cost: the bytes under them and themselves.
LEMMA BytesOwed ==
    ASSUME ZcoInv, NEW a \in Accts
    PROVE  /\ SumOf(BytesUnder, UnderIn(a, "file")) = SumOf(LienCosts(Store, a, "file"), LienIds)
           /\ SumOf(BytesUnder, UnderIn(a, "heap")) + LienSize * Cardinality(HeldIn(a))
                = SumOf(LienCosts(Store, a, "heap"), LienIds)
<1>1. Store \in Stores /\ Store.liens = liens
  BY InvUnfolds
<1>2. \A l \in Held : l \in LienIds /\ liens[l] \in Liens /\ liens[l].length \in Nat
  <2>1. \A l \in Held : l \in LienIds /\ liens[l] \in Liens
    BY <1>1, CountsTyped DEF Held
  <2> QED
    BY <2>1 DEF Liens
<1>3. \A l \in LienIds : BytesUnder[l] \in Nat
  BY <1>2 DEF BytesUnder
<1>4. \A m \in Media : UnderIn(a, m) \in SUBSET LienIds
  BY DEF UnderIn, HeldIn, Held
<1>5. HeldIn(a) \in SUBSET LienIds
  BY DEF HeldIn, Held
<1> DEFINE g(m) == [l \in LienIds |-> IF l \in UnderIn(a, m) THEN BytesUnder[l] ELSE 0]
           c == [l \in LienIds |-> LienSize]
           h == [l \in LienIds |-> IF l \in HeldIn(a) THEN LienSize ELSE 0]
<1>6. \A m \in Media : SumOf(BytesUnder, UnderIn(a, m)) = SumOf(g(m), LienIds)
  <2> TAKE m \in Media
  <2> DEFINE u == g(m)
             U == UnderIn(a, m)
  <2>1. \A l \in LienIds : u[l] = IF l \in U THEN BytesUnder[l] ELSE 0
    OBVIOUS
  <2>2. U \in SUBSET LienIds /\ \A l \in U : BytesUnder[l] \in Nat
    BY <1>3, <1>4
  <2> HIDE DEF u, U
  <2>3. SumOf(BytesUnder, U) = SumOf(u, LienIds)
    BY <2>1, <2>2, Addresses, SumOfPart
  <2> QED
    BY <2>3 DEF u, U
<1>7. SumOf(h, LienIds) = LienSize * Cardinality(HeldIn(a))
  <2> DEFINE U == HeldIn(a)
  <2>1. \A l \in LienIds : h[l] = (IF l \in U THEN c[l] ELSE 0) /\ c[l] = LienSize
    OBVIOUS
  <2>2. LienSize \in Nat
    BY Sizes
  <2>3. \A l \in U : c[l] \in Nat /\ c[l] = LienSize
    BY <1>5, <2>1, <2>2
  <2>4. IsFiniteSet(U)
    BY <1>5, Addresses, FS_Subset
  <2> HIDE DEF h, c, U
  <2>5. SumOf(c, U) = SumOf(h, LienIds)
    BY <1>5, <2>1, <2>3, Addresses, SumOfPart DEF U
  <2>6. SumOf(c, U) = LienSize * Cardinality(U)
    BY <2>2, <2>3, <2>4, SumOfEqual
  <2> QED
    BY <2>5, <2>6 DEF U
<1>8. \A l \in LienIds :
         /\ LienCosts(Store, a, "file")[l] = g("file")[l]
         /\ LienCosts(Store, a, "heap")[l] = g("heap")[l] + h[l]
         /\ g("file")[l] \in Nat /\ g("heap")[l] \in Nat /\ h[l] \in Nat
         /\ LienCosts(Store, a, "file")[l] \in Nat
  <2> TAKE l \in LienIds
  <2>1. LienSize \in Nat
    BY Sizes
  <2>2. CASE l \in HeldIn(a)
    <3>1. l \in Held /\ liens[l] # NoLien /\ liens[l].count[a] > 0 /\ liens[l].length \in Nat
      BY <1>2, <2>2 DEF HeldIn, Held
    <3>2. BytesUnder[l] = liens[l].length
      BY <3>1 DEF BytesUnder
    <3>3. \A m : l \in UnderIn(a, m) <=> Medium[liens[l].ref] = m
      BY <2>2 DEF UnderIn
    <3> QED
      BY <1>1, <2>1, <2>2, <3>1, <3>2, <3>3 DEF LienCosts, LienCost
  <2>3. CASE l \notin HeldIn(a)
    <3>1. ~(liens[l] # NoLien /\ liens[l].count[a] > 0)
      BY <2>3 DEF HeldIn, Held
    <3>2. \A m : l \notin UnderIn(a, m)
      BY <2>3 DEF UnderIn
    <3> QED
      BY <1>1, <2>1, <2>3, <3>1, <3>2 DEF LienCosts, LienCost
  <2> QED
    BY <2>2, <2>3
<1> DEFINE gf == g("file")
           gh == g("heap")
<1>9. /\ SumOf(BytesUnder, UnderIn(a, "file")) = SumOf(gf, LienIds)
      /\ SumOf(BytesUnder, UnderIn(a, "heap")) = SumOf(gh, LienIds)
  BY <1>6 DEF Media
<1>10. \A l \in LienIds :
         /\ LienCosts(Store, a, "file")[l] = gf[l]
         /\ LienCosts(Store, a, "heap")[l] = gh[l] + h[l]
         /\ gf[l] \in Nat /\ gh[l] \in Nat /\ h[l] \in Nat
         /\ LienCosts(Store, a, "file")[l] \in Nat
  BY <1>8
<1> HIDE DEF g, gf, gh, h
<1>11. SumOf(LienCosts(Store, a, "file"), LienIds) = SumOf(gf, LienIds)
  BY <1>10, Addresses, SumSame
<1>12. SumOf(LienCosts(Store, a, "heap"), LienIds) = SumOf(gh, LienIds) + SumOf(h, LienIds)
  BY <1>10, Addresses, SumAdds
<1> QED
  BY <1>7, <1>9, <1>11, <1>12

\* The references that an account cites, and its ZCOs.
CitedRefs(a) == {liens[l].ref : l \in HeldIn(a)}
RefSizes == [o \in Objects |-> RefSize[Medium[o]]]

\* What references cost: the size of each that a lien of the account cites.
LEMMA RefsOwed ==
    ASSUME ZcoInv, NEW a \in Accts
    PROVE  /\ SumOf(RefSizes, CitedRefs(a)) = SumOf(RefCosts(Store, a, "heap"), Objects)
           /\ SumOf(RefCosts(Store, a, "file"), Objects) = 0
<1> DEFINE s == Store
           T == CitedRefs(a)
           f == RefCosts(s, a, "heap")
           k == RefCosts(s, a, "file")
<1>1. /\ s \in Stores /\ s.liens = liens /\ s.refs = refs /\ RefsCounted(s)
  BY InvUnfolds DEF Sound, SoundWith
<1> HIDE DEF s
<1>2. T \in SUBSET Objects
  BY <1>1, CountsTyped DEF CitedRefs, HeldIn, Held
<1>3. \A o \in Objects : o \in T <=> Citing(s, o, a) # {}
  BY <1>1 DEF CitedRefs, HeldIn, Held, Citing
<1>4. \A o \in Objects : o \in T <=> RefCount(s, o, a) > 0
  <2> TAKE o \in Objects
  <2>1. RefCount(s, o, a) = Cardinality(Citing(s, o, a))
    BY <1>1 DEF RefsCounted
  <2>2. Cardinality(Citing(s, o, a)) \in Nat
        /\ (Cardinality(Citing(s, o, a)) = 0 <=> Citing(s, o, a) = {})
    BY CitingFinite
  <2> QED
    BY <1>3, <2>1, <2>2
<1>5. \A o \in Objects : f[o] = IF o \in T THEN RefSizes[o] ELSE 0
  BY <1>4 DEF RefCosts, RefCost, RefCount, RefSizes
<1>6. \A o \in T : RefSizes[o] \in Nat
  BY <1>2, Sizes DEF RefSizes
<1>7. \A o \in Objects : k[o] = 0
  BY DEF RefCosts, RefCost
<1> HIDE DEF T, f, k
<1>8. SumOf(RefSizes, T) = SumOf(f, Objects)
  BY <1>2, <1>5, <1>6, Addresses, SumOfPart
<1>9. SumOf(k, Objects) = 0 * Cardinality(Objects) /\ Cardinality(Objects) \in Nat
  BY <1>7, Addresses, SumOfEqual, FS_CardinalityType
<1> QED
  BY <1>8, <1>9 DEF T, f, k, s

Mine(a) == {z \in Live : zcos[z].acct = a}
SizeOf(z) == ZcoSize + ExtentSize * Len(zcos[z].extents)
               + CapsuleSize * Len(zcos[z].headers) + zcos[z].capsuleLength
SizesIn(a) == [z \in ZcoIds |-> IF z \in Mine(a) THEN SizeOf(z) ELSE 0]

\* What ZCOs cost.
LEMMA ZcosOwed ==
    ASSUME ZcoInv, NEW a \in Accts
    PROVE  /\ SumOf(SizesIn(a), Mine(a)) = SumOf(ZcoCosts(zcos, a, "heap"), ZcoIds)
           /\ SumOf(ZcoCosts(zcos, a, "file"), ZcoIds) = 0
<1> DEFINE T == Mine(a)
           f == ZcoCosts(zcos, a, "heap")
           g == SizesIn(a)
           k == ZcoCosts(zcos, a, "file")
<1>1. zcos \in ZcoTables
  BY InvUnfolds
<1>2. T \in SUBSET ZcoIds
  BY DEF Mine, Live
<1>3. \A z \in ZcoIds : f[z] = IF z \in T THEN g[z] ELSE 0
  BY DEF ZcoCosts, ZcoCost, SizesIn, SizeOf, Mine, Live
<1>4. \A z \in ZcoIds : f[z] \in Nat
  BY <1>1, ZcoCostType DEF ZcoCosts, ZcoTables, Media
<1>5. \A z \in ZcoIds : k[z] = 0
  BY DEF ZcoCosts, ZcoCost
<1> HIDE DEF T, f, g, k
<1>6. \A z \in T : g[z] \in Nat
  BY <1>2, <1>3, <1>4
<1>7. SumOf(g, T) = SumOf(f, ZcoIds)
  BY <1>2, <1>3, <1>6, Addresses, SumOfPart
<1>8. SumOf(k, ZcoIds) = 0 * Cardinality(ZcoIds) /\ Cardinality(ZcoIds) \in Nat
  BY <1>5, Addresses, SumOfEqual, FS_CardinalityType
<1> QED
  BY <1>7, <1>8 DEF T, f, g, k

\* The occupancy is what liens, references and ZCOs cost.
LEMMA OccupancyKept ==
    ASSUME ZcoInv
    PROVE  OccupancyExact
<1> SUFFICES ASSUME NEW a \in Accts
             PROVE  /\ book[a]["file"] = SumFunctionOnSet(BytesUnder, UnderIn(a, "file"))
                    /\ book[a]["heap"] =
                         SumFunctionOnSet(BytesUnder, UnderIn(a, "heap"))
                         + LienSize * Cardinality(HeldIn(a))
                         + SumFunctionOnSet(SizesIn(a), Mine(a))
                         + SumFunctionOnSet(RefSizes, CitedRefs(a))
  BY DEF OccupancyExact, BytesUnder, UnderIn, SizesIn, SizeOf, Mine, RefSizes, CitedRefs
<1> DEFINE L(m) == SumOf(LienCosts(Store, a, m), LienIds)
           R(m) == SumOf(RefCosts(Store, a, m), Objects)
           Z(m) == SumOf(ZcoCosts(zcos, a, m), ZcoIds)
<1>1. \A m \in Media : /\ book[a][m] = L(m) + R(m) + Z(m)
                       /\ L(m) \in Nat /\ R(m) \in Nat /\ Z(m) \in Nat
  BY BookOwed
<1>2. /\ book[a]["file"] = L("file") + R("file") + Z("file")
      /\ book[a]["heap"] = L("heap") + R("heap") + Z("heap")
      /\ L("file") \in Nat /\ R("file") \in Nat /\ Z("file") \in Nat
      /\ L("heap") \in Nat /\ R("heap") \in Nat /\ Z("heap") \in Nat
  BY <1>1 DEF Media
<1>3. /\ SumOf(BytesUnder, UnderIn(a, "file")) = L("file")
      /\ SumOf(BytesUnder, UnderIn(a, "heap")) + LienSize * Cardinality(HeldIn(a)) = L("heap")
  BY BytesOwed
<1>4. SumOf(RefSizes, CitedRefs(a)) = R("heap") /\ R("file") = 0
  BY RefsOwed
<1>5. SumOf(SizesIn(a), Mine(a)) = Z("heap") /\ Z("file") = 0
  BY ZcosOwed
<1>6. /\ SumFunctionOnSet(BytesUnder, UnderIn(a, "file")) = SumOf(BytesUnder, UnderIn(a, "file"))
      /\ SumFunctionOnSet(BytesUnder, UnderIn(a, "heap")) = SumOf(BytesUnder, UnderIn(a, "heap"))
      /\ SumFunctionOnSet(SizesIn(a), Mine(a)) = SumOf(SizesIn(a), Mine(a))
      /\ SumFunctionOnSet(RefSizes, CitedRefs(a)) = SumOf(RefSizes, CitedRefs(a))
  BY SumFunctionAgrees
<1> DEFINE lf == L("file")   lh == L("heap")
           rh == R("heap")   rf == R("file")
           zh == Z("heap")   zf == Z("file")
           n  == LienSize * Cardinality(HeldIn(a))
           bh == SumFunctionOnSet(BytesUnder, UnderIn(a, "heap"))
<1>7. book[a]["file"] = lf + rf + zf /\ lf \in Nat /\ rf = 0 /\ zf = 0
  BY <1>2, <1>4, <1>5
<1>8. book[a]["heap"] = lh + rh + zh /\ bh + n = lh
      /\ lh \in Nat /\ rh \in Nat /\ zh \in Nat
  BY <1>2, <1>3, <1>6
<1>9. SumFunctionOnSet(BytesUnder, UnderIn(a, "file")) = lf
      /\ SumFunctionOnSet(SizesIn(a), Mine(a)) = zh
      /\ SumFunctionOnSet(RefSizes, CitedRefs(a)) = rh
  BY <1>3, <1>4, <1>5, <1>6
<1> HIDE DEF L, R, Z, lf, lh, rf, rh, zf, zh
<1>10. book[a]["file"] = lf
  BY <1>7
<1>11. book[a]["heap"] = (bh + n) + zh + rh
  BY <1>8
<1> QED
  BY <1>9, <1>10, <1>11

\* Every byte has an owner.
LEMMA StorageKept ==
    ASSUME ZcoInv
    PROVE  StorageOwned
<1> DEFINE s == Store
<1>1. /\ s \in Stores /\ s.zcos = zcos /\ s.liens = liens /\ s.refs = refs /\ s.objects = objects
      /\ RefsKept(s, {}) /\ HeadersOwned(Bare(s), zcos) /\ SoundWith(s, zcos, {}, {})
  BY InvUnfolds DEF Sound, SoundWith
<1> HIDE DEF s
<1>2. ASSUME NEW z \in Live, NEW i \in DOMAIN zcos[z].extents
      PROVE  LET e == zcos[z].extents[i]
             IN /\ e.lien \in Held /\ refs[liens[e.lien].ref] # NoRef
                /\ liens[e.lien].ref \in objects
                /\ e.offset + e.length <= Length[liens[e.lien].ref]
  <2>1. z \in ZcoIds /\ zcos[z] # NoZco
    BY DEF Live
  <2>2. Backed(s, zcos[z].extents[i], zcos[z].acct)
    BY <1>1, <2>1, ExtentsBacked
  <2> QED
    BY <1>1, <2>2 DEF Backed, Held, RefsKept
<1>3. ASSUME NEW o \in objects
      PROVE  \/ refs[o] # NoRef /\ (~refs[o].okayToDestroy \/ refs[o].count # NoCitation)
             \/ \E z \in Live : Contains(zcos[z].headers, o)
  <2>1. o \in Objects
    BY <1>1 DEF Stores
  <2>2. CASE refs[o] # NoRef
    <3>1. CASE refs[o].okayToDestroy
      <4>1. PICK a \in Accts : RefCount(s, o, a) > 0
        BY <1>1, <2>1, <2>2, <3>1 DEF RefsKept
      <4>2. refs[o].count \in Counts /\ refs[o].count[a] # 0
        BY <1>1, <2>1, <2>2, <4>1, CountsTyped DEF RefCount
      <4> QED
        BY <2>2, <4>2, NothingCited
    <3> QED
      BY <2>2, <3>1
  <2>3. CASE refs[o] = NoRef
    <3>1. o \in Bare(s)
      BY <1>1, <2>3 DEF Bare
    <3>2. PICK z \in ZcoIds : zcos[z] # NoZco /\ o \in ToSet(zcos[z].headers)
      BY <1>1, <3>1 DEF HeadersOwned
    <3> DEFINE q == zcos[z].headers
    <3>3. q \in Seq(Objects)
      BY <3>2, InvUnfolds, ZcoTyped
    <3>4. \E i \in DOMAIN q : q[i] = o
      BY <3>2 DEF ToSet
    <3> HIDE DEF q
    <3>5. DOMAIN q = 1..Len(q)
      BY <3>3
    <3>6. Contains(q, o)
      BY <3>4, <3>5 DEF Contains
    <3> QED
      BY <3>2, <3>6 DEF Live, q
  <2> QED
    BY <2>2, <2>3
<1> QED
  BY <1>2, <1>3 DEF StorageOwned

\* Types.
LEMMA TypesKept ==
    ASSUME ZcoInv
    PROVE  TypeOK
<1>1. /\ Store \in Stores /\ Store.zcos = zcos /\ Store.liens = liens /\ Store.refs = refs
      /\ Store.objects = objects /\ Store.book = book /\ Bounded(Store)
  BY InvUnfolds
<1>2. /\ DOMAIN zcos = ZcoIds /\ DOMAIN liens = LienIds /\ DOMAIN refs = Objects
      /\ objects \subseteq Objects /\ book \in [Accts -> [Media -> Int]]
  BY <1>1 DEF Stores
<1>3. ASSUME NEW z \in Live
      PROVE  /\ zcos[z].acct \in Accts /\ Len(zcos[z].extents) <= MaxExtents
             /\ {zcos[z].headersLength, zcos[z].sourceLength, zcos[z].trailersLength,
                 zcos[z].capsuleLength, zcos[z].totalLength} \subseteq Nat
  <2>1. z \in ZcoIds /\ zcos[z] \in Zcos /\ zcos[z] # NoZco
    BY InvUnfolds
  <2>2. Len(zcos[z].extents) <= MaxExtents
    BY <1>1, <2>1 DEF Bounded
  <2> QED
    BY <2>1, <2>2 DEF Zcos
<1>4. \A l \in Held : liens[l].ref \in Objects /\ liens[l].count \in [Accts -> Nat]
  BY <1>1, CountsTyped DEF Held, Counts
<1>5. \A o \in Objects : refs[o] # NoRef => refs[o].count \in [Accts -> Nat]
  BY <1>1, CountsTyped DEF Counts
<1>6. book \in [Accts -> [Media -> Nat]]
  <2>1. \A a \in Accts, m \in Media : book[a][m] \in Nat
    <3> TAKE a \in Accts, m \in Media
    <3> DEFINE x == SumOf(LienCosts(Store, a, m), LienIds)
               y == SumOf(RefCosts(Store, a, m), Objects)
               w == SumOf(ZcoCosts(zcos, a, m), ZcoIds)
    <3>1. book[a][m] = x + y + w /\ x \in Nat /\ y \in Nat /\ w \in Nat
      BY BookOwed
    <3> HIDE DEF x, y, w
    <3> QED
      BY <3>1
  <2> QED
    BY <1>2, <2>1
<1> QED
  BY <1>2, <1>3, <1>4, <1>5, <1>6 DEF TypeOK

(***************************************************************************)
(* The theorems.                                                           *)
(***************************************************************************)
\* Counters and occupancies stay natural numbers and addresses stay what they
\* are, whatever operations are made in whatever order.
THEOREM ZcoTypes == Spec => []TypeOK
<1>1. ZcoInv => TypeOK
  BY TypesKept
<1> QED
  BY <1>1, InvKept, PTL

\* What is posted to the occupancy of an account, and what the counters of
\* liens and references say, is exactly what its ZCOs hold.
THEOREM AccountsAgree == Spec => []AccountsExact
<1>1. ZcoInv => AccountsExact
  BY OccupancyKept, CitationsKept DEF AccountsExact
<1> QED
  BY <1>1, InvKept, PTL

\* Bytes are there as long as a ZCO has them, and go when nobody can reach
\* them any more.
THEOREM BytesOwned == Spec => []StorageOwned
<1>1. ZcoInv => StorageOwned
  BY StorageKept
<1> QED
  BY <1>1, InvKept, PTL

(***************************************************************************)
(* Flow control of the space of zero-copy objects.                         *)
(***************************************************************************)
Requisition == [need : Nat, coarse : 0..255, fine : 0..255,
                waits : BOOLEAN, serviced : BOOLEAN]

SpaceTypes ==
    /\ requisitions \in Seq(Tasks) /\ arrivals \in Seq(Tasks)
    /\ req \in [Tasks -> Requisition]
    /\ occupancy \in Nat /\ held \in [Tasks -> Nat]
    /\ pc \in [Tasks -> Places]

(***************************************************************************)
(* The inductive invariant: the tickets, in the list and in the order of   *)
(* their arrival, are those of the tasks inside ionCreateZco; the list is  *)
(* in order; and a semaphore that is given to a task that waits for it, or *)
(* was when the task took it, was given with its request serviced or with  *)
(* its attendant ended.                                                    *)
(***************************************************************************)
Holders == {t \in Tasks : pc[t] \in Ticketed}

Tickets(list) == IsInjective(list) /\ ToSet(list) = Holders

\* a may stand before b in the list.
MayPrecede(a, b) ==
    /\ Precedes(req[a], req[b])
    /\ req[a].coarse = req[b].coarse /\ req[a].fine = req[b].fine =>
          Before(arrivals, a, b)

InOrder ==
    \A i, j \in DOMAIN requisitions :
       i < j => MayPrecede(requisitions[i], requisitions[j])

Answered(t) == req[t].serviced \/ t \in ended

TaskFine(t) ==
    /\ pc[t] # "idle" => held[t] = 0
    /\ pc[t] = "waiting" /\ t \in given => Answered(t)
    /\ pc[t] = "woken" => Answered(t)
    /\ pc[t] \in {"awarded", "creating"} => req[t].serviced

SpaceInv ==
    /\ SpaceTypes
    /\ Tickets(requisitions) /\ Tickets(arrivals)
    /\ occupancy = SumOf(held, Tasks)
    /\ InOrder
    /\ \A t \in Tasks : TaskFine(t)

(***************************************************************************)
(* The properties follow from it.                                          *)
(***************************************************************************)
\* The invariant says what the run checks of the tickets and the occupancy.
LEMMA InvOwned == SpaceInv => TicketsOwned
BY SumFunctionAgrees DEF SpaceInv, Tickets, Holders, TicketsOwned

\* The invariant says what the run checks of the order of the list.
LEMMA InvOrder == SpaceInv => PriorityOrder
<1> SUFFICES ASSUME SpaceInv, NEW i \in DOMAIN requisitions,
                    NEW j \in DOMAIN requisitions, i < j
             PROVE  LET a == req[requisitions[i]]
                        b == req[requisitions[j]]
                    IN  /\ Precedes(a, b)
                        /\ a.coarse = b.coarse /\ a.fine = b.fine =>
                             \E k, l \in DOMAIN arrivals :
                                /\ k < l
                                /\ arrivals[k] = requisitions[i]
                                /\ arrivals[l] = requisitions[j]
  BY DEF PriorityOrder
<1>1. MayPrecede(requisitions[i], requisitions[j])
  BY DEF SpaceInv, InOrder
<1> QED
  BY <1>1 DEF MayPrecede, Before

\* The invariant says what the run checks of the tasks that are woken.
LEMMA InvServiced == SpaceInv => WakesServiced
BY DEF SpaceInv, TaskFine, WakesServiced

(***************************************************************************)
(* The order of the list.                                                  *)
(***************************************************************************)
\* Precedence is an order in which any two requisitions compare; those that
\* precede each other are of the same priority.
LEMMA PrecedesOrder ==
    ASSUME NEW a \in Requisition, NEW b \in Requisition, NEW c \in Requisition
    PROVE  /\ Precedes(a, b) \/ Precedes(b, a)
           /\ Precedes(a, b) /\ Precedes(b, c) => Precedes(a, c)
           /\ ~Precedes(a, b) => ~(a.coarse = b.coarse /\ a.fine = b.fine)
<1>1. /\ a.coarse \in Int /\ b.coarse \in Int /\ c.coarse \in Int
      /\ a.fine \in Int /\ b.fine \in Int /\ c.fine \in Int
  BY DEF Requisition
<1> QED
  BY <1>1 DEF Precedes

\* What stands up to the insertion point precedes the new requisition, and what
\* stands after it does not.
LEMMA InsertPointSplits ==
    ASSUME SpaceTypes, InOrder, NEW r \in Requisition
    PROVE  LET p == InsertPoint(requisitions, r)
           IN  /\ p \in 0..Len(requisitions)
               /\ \A i \in DOMAIN requisitions :
                     i <= p <=> Precedes(req[requisitions[i]], r)
<1> DEFINE ahead == {i \in DOMAIN requisitions : Precedes(req[requisitions[i]], r)}
           p == InsertPoint(requisitions, r)
<1>1. /\ DOMAIN requisitions = 1..Len(requisitions) /\ Len(requisitions) \in Nat
      /\ \A i \in DOMAIN requisitions : req[requisitions[i]] \in Requisition
  BY DEF SpaceTypes
<1>2. p = IF ahead = {} THEN 0 ELSE Max(ahead)
  BY DEF InsertPoint
<1> HIDE DEF p
<1>3. CASE ahead = {}
  <2>1. \A i \in DOMAIN requisitions : ~Precedes(req[requisitions[i]], r)
    BY <1>3
  <2>2. p = 0
    BY <1>2, <1>3
  <2> QED
    BY <1>1, <2>1, <2>2 DEF p
<1>4. CASE ahead # {}
  <2>1. ahead \in SUBSET (0..Len(requisitions))
    BY <1>1
  <2>2. p \in ahead /\ \A y \in ahead : y <= p
    BY <1>1, <1>2, <1>4, <2>1, GreatestElement
  <2>3. p \in DOMAIN requisitions /\ Precedes(req[requisitions[p]], r)
    BY <2>2
  <2>4. ASSUME NEW i \in DOMAIN requisitions, i <= p
        PROVE  Precedes(req[requisitions[i]], r)
    <3>1. CASE i = p
      BY <3>1, <2>3
    <3>2. CASE i < p
      <4>1. Precedes(req[requisitions[i]], req[requisitions[p]])
        BY <3>2, <2>3 DEF InOrder, MayPrecede
      <4> QED
        BY <4>1, <2>3, <1>1, PrecedesOrder
    <3> QED
      BY <3>1, <3>2, <2>4, <2>3, <1>1
  <2>5. ASSUME NEW i \in DOMAIN requisitions, Precedes(req[requisitions[i]], r)
        PROVE  i <= p
    BY <2>2, <2>5
  <2> QED
    BY <1>1, <2>3, <2>4, <2>5 DEF p
<1> QED
  BY <1>3, <1>4

\* A step that leaves the list, the tickets and the priorities of the tickets
\* alone leaves the order.
LEMMA ListsKept ==
    ASSUME SpaceInv, UNCHANGED <<requisitions, arrivals>>, Holders' = Holders,
           \A t \in Holders : /\ req'[t].coarse = req[t].coarse
                              /\ req'[t].fine = req[t].fine
    PROVE  Tickets(requisitions)' /\ Tickets(arrivals)' /\ InOrder'
<1>1. Tickets(requisitions)' /\ Tickets(arrivals)'
  BY DEF SpaceInv, Tickets
<1>2. ASSUME NEW i \in DOMAIN requisitions, NEW j \in DOMAIN requisitions, i < j
      PROVE  MayPrecede(requisitions[i], requisitions[j])'
  <2>1. requisitions[i] \in Holders /\ requisitions[j] \in Holders
    BY DEF SpaceInv, Tickets, ToSet
  <2>2. MayPrecede(requisitions[i], requisitions[j])
    BY <1>2 DEF SpaceInv, InOrder
  <2> QED
    BY <2>1, <2>2 DEF MayPrecede, Precedes
<1> QED
  BY <1>1, <1>2 DEF InOrder

(***************************************************************************)
(* The walk that serves the list.                                          *)
(***************************************************************************)
\* Serving the list changes nothing of a requisition but that it is serviced,
\* takes back no service, and gives a semaphore only with a service.
LEMMA ServeList ==
    ASSUME SpaceInv, NEW occupied, ProvideZcoSpace(occupied)
    PROVE  /\ req' \in [Tasks -> Requisition]
           /\ \A t \in Tasks : /\ req'[t].need = req[t].need
                               /\ req'[t].coarse = req[t].coarse
                               /\ req'[t].fine = req[t].fine
                               /\ req[t].serviced => req'[t].serviced
                               /\ t \in given' /\ t \notin given => req'[t].serviced
<1> DEFINE fresh == {t \in Provided(requisitions, occupied) : ~req[t].serviced}
<1>1. /\ req' = [t \in Tasks |-> IF t \in fresh
                                 THEN [req[t] EXCEPT !.serviced = TRUE]
                                 ELSE req[t]]
      /\ given' = given \cup {t \in fresh : req[t].waits}
  BY DEF ProvideZcoSpace
<1> HIDE DEF fresh
<1>2. ASSUME NEW t \in Tasks
      PROVE  /\ req'[t] \in Requisition
             /\ req'[t].need = req[t].need
             /\ req'[t].coarse = req[t].coarse /\ req'[t].fine = req[t].fine
             /\ req[t].serviced => req'[t].serviced
             /\ t \in fresh => req'[t].serviced
  <2>1. req[t] \in Requisition
    BY DEF SpaceInv, SpaceTypes
  <2>2. CASE t \in fresh
    <3>1. req'[t] = [req[t] EXCEPT !.serviced = TRUE]
      BY <1>1, <2>2
    <3> QED
      BY <2>1, <3>1 DEF Requisition
  <2>3. CASE t \notin fresh
    <3>1. req'[t] = req[t]
      BY <1>1, <2>3
    <3> QED
      BY <2>1, <2>3, <3>1
  <2> QED
    BY <2>2, <2>3
<1>3. req' \in [Tasks -> Requisition]
  <2>1. DOMAIN req' = Tasks /\ req' = [t \in Tasks |-> req'[t]]
    BY <1>1
  <2> QED
    BY <1>2, <2>1
<1>4. \A t \in Tasks : t \in given' /\ t \notin given => t \in fresh
  BY <1>1
<1> QED
  BY <1>2, <1>3, <1>4

\* Serving the list, whatever the walk takes the occupancy for, keeps the
\* invariant, but for the occupancy.
LEMMA ServeInv ==
    ASSUME SpaceInv, NEW occupied, ProvideZcoSpace(occupied),
           UNCHANGED <<requisitions, arrivals, ended>>, Holders' = Holders,
           occupancy' \in Nat, held' \in [Tasks -> Nat],
           occupancy' = SumOf(held', Tasks),
           pc' \in [Tasks -> Places],
           \A t \in Tasks : pc'[t] # "idle" => held'[t] = 0,
           \A t \in Tasks : \/ pc'[t] = pc[t]
                            \/ pc'[t] = "provided"
    PROVE  SpaceInv'
<1>1. SpaceTypes'
  BY ServeList DEF SpaceInv, SpaceTypes
<1>2. Tickets(requisitions)' /\ Tickets(arrivals)' /\ InOrder'
  <2>1. \A t \in Holders : /\ req'[t].coarse = req[t].coarse
                           /\ req'[t].fine = req[t].fine
    BY ServeList DEF Holders
  <2> QED
    BY <2>1, ListsKept
<1>3. ASSUME NEW t \in Tasks
      PROVE  TaskFine(t)'
  <2>1. /\ req[t].serviced => req'[t].serviced
        /\ t \in given' /\ t \notin given => req'[t].serviced
    BY ServeList
  <2>2. TaskFine(t)
    BY DEF SpaceInv
  <2> QED
    BY <2>1, <2>2 DEF TaskFine, Answered
<1> QED
  BY <1>1, <1>2, <1>3 DEF SpaceInv

(***************************************************************************)
(* The steps of a task inside ionCreateZco.                                *)
(***************************************************************************)
\* A step that moves one task from a place where it holds a ticket to another,
\* and changes nothing but its semaphore, keeps the invariant if the task is
\* fine there.
LEMMA MoveInv ==
    ASSUME SpaceInv, NEW t \in Tasks, NEW place \in Ticketed,
           pc[t] \in Ticketed, Goto(t, place),
           UNCHANGED <<requisitions, req, arrivals, ended, occupancy, held>>,
           given' \ {t} = given \ {t}, TaskFine(t)'
    PROVE  SpaceInv'
<1>1. /\ pc' \in [Tasks -> Places] /\ pc'[t] = place
      /\ \A u \in Tasks \ {t} : pc'[u] = pc[u]
  BY DEF SpaceInv, SpaceTypes, Goto, Places
<1>2. Holders' = Holders
  BY <1>1 DEF Holders
<1>3. Tickets(requisitions)' /\ Tickets(arrivals)' /\ InOrder'
  BY <1>2, ListsKept
<1>4. ASSUME NEW u \in Tasks
      PROVE  TaskFine(u)'
  <2>1. CASE u = t
    BY <2>1
  <2>2. CASE u # t
    <3>1. pc'[u] = pc[u] /\ (u \in given' <=> u \in given)
      BY <1>1, <2>2
    <3>2. TaskFine(u)
      BY DEF SpaceInv
    <3> QED
      BY <3>1, <3>2 DEF TaskFine, Answered
  <2> QED
    BY <2>1, <2>2
<1>5. SpaceTypes'
  BY <1>1 DEF SpaceInv, SpaceTypes
<1> QED
  BY <1>3, <1>4, <1>5 DEF SpaceInv

\* The new requisition goes into the list behind those that precede it.
LEMMA RequestInv ==
    ASSUME SpaceInv, NEW t \in Tasks, NEW r \in Requests, RequestZcoSpace(t, r)
    PROVE  SpaceInv'
<1> DEFINE p == InsertPoint(requisitions, r)
<1>0. r \in Requisition
  <2>1. r \in [need : Nat \ {0}, coarse : 0..255, fine : 0..255,
               waits : BOOLEAN, serviced : {FALSE}]
    BY SpaceAssumption
  <2> QED
    BY <2>1 DEF Requisition
<1>1. /\ pc[t] = "idle" /\ held[t] = 0
      /\ req' = [req EXCEPT ![t] = r]
      /\ requisitions' = InsertAt(requisitions, p + 1, t)
      /\ arrivals' = Append(arrivals, t)
      /\ pc' = [pc EXCEPT ![t] = "listed"]
      /\ UNCHANGED <<given, ended, occupancy, held>>
  BY DEF RequestZcoSpace, Listed, Goto, sems
<1>2. /\ p \in 0..Len(requisitions)
      /\ \A i \in DOMAIN requisitions :
            i <= p <=> Precedes(req[requisitions[i]], r)
  BY <1>0, InsertPointSplits DEF SpaceInv
<1> HIDE DEF p
<1>3. /\ requisitions \in Seq(Tasks) /\ arrivals \in Seq(Tasks)
      /\ Len(requisitions) \in Nat /\ p + 1 \in 1..(Len(requisitions) + 1)
      /\ req \in [Tasks -> Requisition] /\ pc \in [Tasks -> Places]
      /\ t \notin Holders
  BY <1>1, <1>2 DEF SpaceInv, SpaceTypes, Holders, Ticketed
<1>4. /\ requisitions' \in Seq(Tasks) /\ Len(requisitions') = Len(requisitions) + 1
      /\ \A j \in 1..(Len(requisitions) + 1) :
            requisitions'[j] = IF j < p + 1 THEN requisitions[j]
                               ELSE IF j = p + 1 THEN t ELSE requisitions[j - 1]
  <2> DEFINE i == p + 1
             list == InsertAt(requisitions, i, t)
  <2>0. list \in Seq(Tasks) /\ HasInserted(list, requisitions, i, t)
    <3>1. i \in 1..(Len(requisitions) + 1) /\ requisitions \in Seq(Tasks)
      BY <1>3
    <3> HIDE DEF i
    <3> QED
      BY <3>1, InsertAtElements
  <2>1. /\ requisitions' \in Seq(Tasks)
        /\ HasInserted(requisitions', requisitions, p + 1, t)
    BY <1>1, <2>0
  <2> QED
    BY <2>1, <1>3 DEF HasInserted
<1>5. SpaceTypes'
  BY <1>0, <1>1, <1>3, <1>4 DEF SpaceInv, SpaceTypes, Places, Ticketed
<1>6. Holders' = Holders \cup {t}
  BY <1>1, <1>3 DEF Holders, Ticketed
<1>7. Tickets(requisitions)' /\ Tickets(arrivals)'
  <2>1. IsInjective(requisitions) /\ ToSet(requisitions) = Holders
        /\ IsInjective(arrivals) /\ ToSet(arrivals) = Holders
    BY DEF SpaceInv, Tickets
  <2>2. IsInjective(requisitions') /\ ToSet(requisitions') = Holders \cup {t}
    BY <1>1, <1>3, <2>1, InsertNew
  <2>3. IsInjective(arrivals') /\ ToSet(arrivals') = Holders \cup {t}
    BY <1>1, <1>3, <2>1, AppendNew
  <2> QED
    BY <1>6, <2>2, <2>3 DEF Tickets
<1>8. \A i \in DOMAIN requisitions : /\ requisitions[i] \in Holders
                                     /\ requisitions[i] \in Tasks
                                     /\ requisitions[i] # t
                                     /\ req'[requisitions[i]] = req[requisitions[i]]
                                     /\ req[requisitions[i]] \in Requisition
  BY <1>1, <1>3 DEF SpaceInv, Tickets, ToSet, Holders
<1>9. /\ \A a, b : Before(arrivals, a, b) => Before(arrivals', a, b)
      /\ \A a \in Holders : Before(arrivals', a, t)
  BY <1>1, <1>3, AppendBefore DEF SpaceInv, Tickets
<1>10. req'[t] = r
  BY <1>1, <1>3
<1>11. ASSUME NEW a \in Holders, NEW b \in Holders, MayPrecede(a, b)
       PROVE  MayPrecede(a, b)'
  <2>1. req'[a] = req[a] /\ req'[b] = req[b]
    BY <1>1, <1>3 DEF Holders
  <2> QED
    BY <2>1, <1>9, <1>11 DEF MayPrecede
<1>12. ASSUME NEW a \in Holders
       PROVE  /\ Precedes(req[a], r) => MayPrecede(a, t)'
              /\ ~Precedes(req[a], r) => MayPrecede(t, a)'
  <2>1. req'[a] = req[a] /\ req'[t] = r /\ req[a] \in Requisition
    BY <1>1, <1>3 DEF Holders
  <2>2. Precedes(req[a], r) => MayPrecede(a, t)'
    BY <2>1, <1>9 DEF MayPrecede
  <2>3. ~Precedes(req[a], r) => MayPrecede(t, a)'
    <3>1. SUFFICES ASSUME ~Precedes(req[a], r)
                   PROVE  MayPrecede(t, a)'
      OBVIOUS
    <3>2. /\ Precedes(r, req[a])
          /\ ~(req[a].coarse = r.coarse /\ req[a].fine = r.fine)
      BY <3>1, <2>1, <1>0, PrecedesOrder
    <3> QED
      BY <2>1, <3>2 DEF MayPrecede
  <2> QED
    BY <2>2, <2>3
<1>13. InOrder'
  <2>1. SUFFICES ASSUME NEW i \in 1..(Len(requisitions) + 1),
                        NEW j \in 1..(Len(requisitions) + 1), i < j
                 PROVE  MayPrecede(requisitions[i], requisitions[j])'
    BY <1>4 DEF InOrder
  <2>2. ASSUME NEW k \in DOMAIN requisitions, NEW l \in DOMAIN requisitions, k < l
        PROVE  MayPrecede(requisitions[k], requisitions[l])
    BY <2>2 DEF SpaceInv, InOrder
  <2>3. \A k \in DOMAIN requisitions : requisitions[k] \in Holders
    BY DEF SpaceInv, Tickets, ToSet
  <2>4. DOMAIN requisitions = 1..Len(requisitions)
    BY <1>3
  <2>5. ASSUME NEW x, NEW y, x = requisitions'[i], y = requisitions'[j]
        PROVE  MayPrecede(x, y)'
    <3>1. CASE i < p + 1 /\ j < p + 1
      <4>1. /\ i \in DOMAIN requisitions /\ j \in DOMAIN requisitions
            /\ x = requisitions[i] /\ y = requisitions[j]
        BY <3>1, <1>3, <1>4, <2>4, <2>5, <1>2
      <4>2. MayPrecede(x, y) /\ x \in Holders /\ y \in Holders
        BY <4>1, <2>1, <2>2, <2>3
      <4> QED
        BY <4>2, <1>11
    <3>2. CASE i < p + 1 /\ j = p + 1
      <4>1. /\ i \in DOMAIN requisitions /\ i <= p
            /\ x = requisitions[i] /\ y = t
        BY <3>2, <1>3, <1>4, <2>4, <2>5, <1>2
      <4>2. Precedes(req[x], r) /\ x \in Holders
        BY <4>1, <1>2, <2>3
      <4> QED
        BY <4>1, <4>2, <1>12
    <3>3. CASE i < p + 1 /\ j > p + 1
      <4>1. /\ i \in DOMAIN requisitions /\ j - 1 \in DOMAIN requisitions
            /\ i < j - 1 /\ x = requisitions[i] /\ y = requisitions[j - 1]
        BY <3>3, <1>3, <1>4, <2>4, <2>5, <1>2
      <4>2. MayPrecede(x, y) /\ x \in Holders /\ y \in Holders
        BY <4>1, <2>2, <2>3
      <4> QED
        BY <4>2, <1>11
    <3>4. CASE i = p + 1
      <4>1. /\ j - 1 \in DOMAIN requisitions /\ ~(j - 1 <= p)
            /\ x = t /\ y = requisitions[j - 1]
        BY <3>4, <2>1, <1>3, <1>4, <2>4, <2>5, <1>2
      <4>2. ~Precedes(req[y], r) /\ y \in Holders
        BY <4>1, <1>2, <2>3
      <4> QED
        BY <4>1, <4>2, <1>12
    <3>5. CASE i > p + 1
      <4>1. /\ i - 1 \in DOMAIN requisitions /\ j - 1 \in DOMAIN requisitions
            /\ i - 1 < j - 1
            /\ x = requisitions[i - 1] /\ y = requisitions[j - 1]
        BY <3>5, <2>1, <1>3, <1>4, <2>4, <2>5, <1>2
      <4>2. MayPrecede(x, y) /\ x \in Holders /\ y \in Holders
        BY <4>1, <2>2, <2>3
      <4> QED
        BY <4>2, <1>11
    <3> QED
      BY <3>1, <3>2, <3>3, <3>4, <3>5, <2>1, <1>2
  <2> QED
    BY <2>5 DEF MayPrecede
<1>14. ASSUME NEW u \in Tasks
       PROVE  TaskFine(u)'
  <2>1. TaskFine(u)
    BY DEF SpaceInv
  <2>2. CASE u = t
    BY <2>2, <1>1, <1>3 DEF TaskFine, Answered
  <2>3. CASE u # t
    BY <2>1, <2>3, <1>1, <1>3 DEF TaskFine, Answered
  <2> QED
    BY <2>2, <2>3
<1>15. occupancy' = SumOf(held, Tasks)'
  BY <1>1 DEF SpaceInv
<1> QED
  BY <1>5, <1>7, <1>13, <1>14, <1>15 DEF SpaceInv

\* The steps from one place with a ticket to another.
LEMMA InsideInv ==
    ASSUME SpaceInv, NEW t \in Tasks,
           \/ NotYet(t) \/ GotIt(t) \/ Prime(t) \/ Wake(t) \/ CheckEnded(t)
    PROVE  SpaceInv'
<1>1. TaskFine(t) /\ pc \in [Tasks -> Places]
  BY DEF SpaceInv, SpaceTypes
<1>2. CASE NotYet(t)
  <2>1. CASE req[t].waits
    <3>1. TaskFine(t)' /\ Goto(t, "priming") /\ pc[t] \in Ticketed
      BY <1>1, <1>2, <2>1 DEF NotYet, TaskFine, Goto, Ticketed
    <3> QED
      BY <1>2, <3>1, MoveInv DEF NotYet, sems, Ticketed
  <2>2. CASE ~req[t].waits
    <3>1. TaskFine(t)' /\ Goto(t, "refused") /\ pc[t] \in Ticketed
      BY <1>1, <1>2, <2>2 DEF NotYet, TaskFine, Goto, Ticketed
    <3> QED
      BY <1>2, <3>1, MoveInv DEF NotYet, sems, Ticketed
  <2> QED
    BY <2>1, <2>2
<1>3. CASE GotIt(t)
  <2>1. TaskFine(t)' /\ Goto(t, "awarded") /\ pc[t] \in Ticketed
    BY <1>1, <1>3 DEF GotIt, TaskFine, Goto, Ticketed
  <2> QED
    BY <1>3, <2>1, MoveInv DEF GotIt, sems, Ticketed
<1>4. CASE PrimeGive(t)
  <2>1. TaskFine(t)' /\ Goto(t, "primed") /\ pc[t] \in Ticketed
    BY <1>1, <1>4 DEF PrimeGive, TaskFine, Goto, Ticketed
  <2>2. given' \ {t} = given \ {t}
    BY <1>4 DEF PrimeGive
  <2> QED
    BY <1>4, <2>1, <2>2, MoveInv DEF PrimeGive, Ticketed
<1>5. CASE PrimeTake(t)
  <2>1. TaskFine(t)' /\ Goto(t, "waiting") /\ pc[t] \in Ticketed
    BY <1>1, <1>5 DEF PrimeTake, TaskFine, Goto, Ticketed
  <2>2. given' \ {t} = given \ {t}
    BY <1>5 DEF PrimeTake
  <2> QED
    BY <1>5, <2>1, <2>2, MoveInv DEF PrimeTake, Ticketed
<1>6. CASE Wake(t)
  <2>1. TaskFine(t)' /\ Goto(t, "woken") /\ pc[t] \in Ticketed
    BY <1>1, <1>6 DEF Wake, TaskFine, Answered, Goto, Ticketed
  <2>2. given' \ {t} = given \ {t}
    BY <1>6 DEF Wake
  <2> QED
    BY <1>6, <2>1, <2>2, MoveInv DEF Wake, Ticketed
<1>7. CASE CheckEnded(t)
  <2>1. given' \ {t} = given \ {t}
    BY <1>7 DEF CheckEnded
  <2>2. CASE t \in ended
    <3>1. TaskFine(t)' /\ Goto(t, "interrupted") /\ pc[t] \in Ticketed
      BY <1>1, <1>7, <2>2 DEF CheckEnded, TaskFine, Goto, Ticketed
    <3> QED
      BY <1>7, <2>1, <3>1, MoveInv DEF CheckEnded, Ticketed
  <2>3. CASE t \notin ended
    <3>1. TaskFine(t)' /\ Goto(t, "awarded") /\ pc[t] \in Ticketed
      BY <1>1, <1>7, <2>3 DEF CheckEnded, TaskFine, Answered, Goto, Ticketed
    <3> QED
      BY <1>7, <2>1, <3>1, MoveInv DEF CheckEnded, Ticketed
  <2> QED
    BY <2>2, <2>3
<1> QED
  BY <1>2, <1>3, <1>4, <1>5, <1>6, <1>7 DEF Prime

\* The walk that a request has the list served by.
LEMMA ProvideInv ==
    ASSUME SpaceInv, NEW t \in Tasks, Provide(t)
    PROVE  SpaceInv'
<1>1. /\ pc' = [pc EXCEPT ![t] = "provided"] /\ pc[t] = "listed"
      /\ pc \in [Tasks -> Places]
  BY DEF SpaceInv, SpaceTypes, Provide, Goto
<1>2. /\ pc' \in [Tasks -> Places]
      /\ \A u \in Tasks : pc'[u] = pc[u] \/ pc'[u] = "provided"
  BY <1>1 DEF Places, Ticketed
<1>3. Holders' = Holders
  BY <1>1 DEF Holders, Ticketed
<1>4. \A u \in Tasks : pc'[u] # "idle" => held'[u] = 0
  <2>1. \A u \in Tasks : pc[u] # "idle" => held[u] = 0
    BY DEF SpaceInv, TaskFine
  <2> QED
    BY <1>1, <2>1 DEF Provide
<1>5. /\ UNCHANGED <<requisitions, arrivals, ended>>
      /\ occupancy' \in Nat /\ held' \in [Tasks -> Nat]
      /\ occupancy' = SumOf(held', Tasks)
      /\ ProvideZcoSpace(occupancy)
  BY DEF Provide, SpaceInv, SpaceTypes
<1> QED
  BY <1>2, <1>3, <1>4, <1>5, ServeInv

\* The list and the arrivals without a ticket.
LEMMA WithoutTicket ==
    ASSUME NEW s \in Seq(Tasks), IsInjective(s), NEW t \in ToSet(s)
    PROVE  /\ Without(s, t) \in Seq(Tasks)
           /\ IsInjective(Without(s, t)) /\ ToSet(Without(s, t)) = ToSet(s) \ {t}
           /\ \A a, b : /\ a # t /\ b # t
                        /\ Before(s, a, b)
                        => Before(Without(s, t), a, b)
           /\ \A k, l \in DOMAIN Without(s, t) : k < l =>
                 \E i, j \in DOMAIN s : /\ i < j
                                        /\ Without(s, t)[k] = s[i]
                                        /\ Without(s, t)[l] = s[j]
<1> DEFINE p == CHOOSE i \in DOMAIN s : s[i] = t
           r == RemoveAt(s, p)
<1>1. p \in DOMAIN s /\ s[p] = t /\ DOMAIN s = 1..Len(s)
  BY PlaceFound
<1>2. Without(s, t) = r
  BY DEF Without
<1> HIDE DEF p
<1>3. r \in Seq(Tasks) /\ Len(r) = Len(s) - 1
      /\ \A k \in 1..(Len(s) - 1) : r[k] = IF k < p THEN s[k] ELSE s[k + 1]
  BY <1>1, RemoveAtElements
<1>4. IsInjective(r) /\ ToSet(r) = ToSet(s) \ {t}
  BY <1>1, RemoveFound
<1>5. \A a, b : a # t /\ b # t /\ Before(s, a, b) => Before(r, a, b)
  BY <1>1, RemoveBefore
<1> HIDE DEF r
<1>6. ASSUME NEW k \in DOMAIN r, NEW l \in DOMAIN r, k < l
      PROVE  \E i, j \in DOMAIN s : i < j /\ r[k] = s[i] /\ r[l] = s[j]
  <2> DEFINE i == IF k < p THEN k ELSE k + 1
             j == IF l < p THEN l ELSE l + 1
  <2>1. i \in DOMAIN s /\ j \in DOMAIN s /\ i < j
    BY <1>1, <1>3, <1>6
  <2>2. r[k] = s[i] /\ r[l] = s[j]
    BY <1>1, <1>3, <1>6
  <2> QED
    BY <2>1, <2>2
<1> QED
  BY <1>2, <1>3, <1>4, <1>5, <1>6

\* Shredding a ticket takes it out of the list and leaves the order of the
\* others.
LEMMA ShredInv ==
    ASSUME SpaceInv, NEW t \in Tasks, NEW place \in {"idle", "creating"},
           pc[t] \in Ticketed, place = "creating" => pc[t] = "awarded",
           Shred(t, place)
    PROVE  SpaceInv'
<1>1. /\ requisitions' = Without(requisitions, t)
      /\ arrivals' = Without(arrivals, t)
      /\ req' = [req EXCEPT ![t] = IF place = "idle" THEN NoRequest ELSE @]
      /\ pc' = [pc EXCEPT ![t] = place]
      /\ UNCHANGED <<given, ended, occupancy, held>>
  BY DEF Shred, Goto, sems
<1>2. /\ requisitions \in Seq(Tasks) /\ arrivals \in Seq(Tasks)
      /\ req \in [Tasks -> Requisition] /\ pc \in [Tasks -> Places]
      /\ t \in Holders
  BY DEF SpaceInv, SpaceTypes, Holders
<1>3. /\ IsInjective(requisitions) /\ ToSet(requisitions) = Holders
      /\ IsInjective(arrivals) /\ ToSet(arrivals) = Holders
  BY DEF SpaceInv, Tickets
<1>4. Holders' = Holders \ {t}
  BY <1>1, <1>2 DEF Holders, Ticketed
<1>5. SpaceTypes'
  <2>1. requisitions' \in Seq(Tasks) /\ arrivals' \in Seq(Tasks)
    BY <1>1, <1>2, <1>3, WithoutTicket
  <2>2. req' \in [Tasks -> Requisition] /\ pc' \in [Tasks -> Places]
    BY <1>1, <1>2 DEF Requisition, NoRequest, Places
  <2> QED
    BY <1>1, <2>1, <2>2 DEF SpaceInv, SpaceTypes
<1>6. Tickets(requisitions)' /\ Tickets(arrivals)'
  BY <1>1, <1>2, <1>3, <1>4, WithoutTicket DEF Tickets
<1>7. ASSUME NEW a \in Holders \ {t}, NEW b \in Holders \ {t}, MayPrecede(a, b)
      PROVE  MayPrecede(a, b)'
  <2>1. req'[a] = req[a] /\ req'[b] = req[b]
    BY <1>1, <1>2 DEF Holders
  <2>2. Before(arrivals, a, b) => Before(arrivals', a, b)
    BY <1>1, <1>2, <1>3, WithoutTicket
  <2> QED
    BY <2>1, <2>2, <1>7 DEF MayPrecede
<1>8. InOrder'
  <2>1. SUFFICES ASSUME NEW k \in DOMAIN requisitions', NEW l \in DOMAIN requisitions',
                        k < l
                 PROVE  MayPrecede(requisitions[k], requisitions[l])'
    BY DEF InOrder
  <2>2. PICK i \in DOMAIN requisitions, j \in DOMAIN requisitions :
              /\ i < j
              /\ requisitions'[k] = requisitions[i]
              /\ requisitions'[l] = requisitions[j]
    BY <1>1, <1>2, <1>3, <2>1, WithoutTicket
  <2>3. MayPrecede(requisitions[i], requisitions[j])
    BY <2>2 DEF SpaceInv, InOrder
  <2>4. requisitions'[k] \in Holders \ {t} /\ requisitions'[l] \in Holders \ {t}
    BY <1>4, <1>6, <2>1 DEF Tickets, ToSet
  <2>5. ASSUME NEW a, NEW b, a = requisitions'[k], b = requisitions'[l]
        PROVE  MayPrecede(a, b)'
    BY <1>7, <2>2, <2>3, <2>4, <2>5
  <2> QED
    BY <2>5 DEF MayPrecede
<1>9. ASSUME NEW u \in Tasks
      PROVE  TaskFine(u)'
  <2>1. TaskFine(u)
    BY DEF SpaceInv
  <2>2. CASE u = t
    <3>1. pc'[t] = place /\ held'[t] = held[t]
      BY <1>1, <1>2
    <3>2. pc[t] # "idle" /\ held[t] = 0
      BY <2>1, <2>2 DEF TaskFine, Ticketed
    <3>3. place = "creating" => req'[t].serviced
      <4>1. SUFFICES ASSUME place = "creating"
                     PROVE  req'[t].serviced
        OBVIOUS
      <4>2. req'[t] = req[t] /\ pc[t] = "awarded"
        BY <4>1, <1>1, <1>2
      <4> QED
        BY <4>2, <2>1, <2>2 DEF TaskFine
    <3> QED
      BY <2>2, <3>1, <3>2, <3>3 DEF TaskFine
  <2>3. CASE u # t
    BY <2>1, <2>3, <1>1, <1>2 DEF TaskFine, Answered
  <2> QED
    BY <2>2, <2>3
<1> QED
  BY <1>1, <1>5, <1>6, <1>8, <1>9 DEF SpaceInv

(***************************************************************************)
(* The occupancy, and the other steps.                                     *)
(***************************************************************************)
\* The ZCO that is created takes what was asked for; the task had none.
LEMMA CreateInv ==
    ASSUME SpaceInv, NEW t \in Tasks, CreateZco(t)
    PROVE  SpaceInv'
<1>1. /\ pc[t] = "creating" /\ occupancy' = occupancy + req[t].need
      /\ held' = [held EXCEPT ![t] = req[t].need]
      /\ req' = [req EXCEPT ![t] = NoRequest]
      /\ pc' = [pc EXCEPT ![t] = "idle"]
      /\ UNCHANGED <<requisitions, arrivals, given, ended>>
  BY DEF CreateZco, Goto, sems
<1>2. /\ req \in [Tasks -> Requisition] /\ pc \in [Tasks -> Places]
      /\ held \in [Tasks -> Nat] /\ occupancy \in Nat
      /\ req[t].need \in Nat /\ held[t] = 0
  BY <1>1 DEF SpaceInv, SpaceTypes, TaskFine, Requisition
<1>3. SpaceTypes'
  <2>1. req' \in [Tasks -> Requisition] /\ pc' \in [Tasks -> Places]
    BY <1>1, <1>2 DEF Requisition, NoRequest, Places
  <2>2. held' \in [Tasks -> Nat] /\ occupancy' \in Nat
    BY <1>1, <1>2
  <2> QED
    BY <1>1, <2>1, <2>2 DEF SpaceInv, SpaceTypes
<1>4. occupancy' = SumOf(held, Tasks)'
  <2>1. /\ \A u \in Tasks : held[u] \in Nat /\ held'[u] \in Nat
        /\ \A u \in Tasks \ {t} : held'[u] = held[u]
        /\ held'[t] = req[t].need
    BY <1>1, <1>2
  <2>2. SumOf(held', Tasks) + held[t] = SumOf(held, Tasks) + held'[t]
    BY <2>1, SumChanged, SpaceAssumption
  <2>3. occupancy = SumOf(held, Tasks)
    BY DEF SpaceInv
  <2>4. SumOf(held', Tasks) \in Nat
    BY <2>1, SumType, SpaceAssumption
  <2> QED
    BY <1>1, <1>2, <2>1, <2>2, <2>3, <2>4
<1>5. Holders' = Holders /\ t \notin Holders
  BY <1>1, <1>2 DEF Holders, Ticketed
<1>6. Tickets(requisitions)' /\ Tickets(arrivals)' /\ InOrder'
  <2>1. \A u \in Holders : req'[u] = req[u]
    BY <1>1, <1>2, <1>5 DEF Holders
  <2> QED
    BY <1>1, <1>5, <2>1, ListsKept
<1>7. ASSUME NEW u \in Tasks
      PROVE  TaskFine(u)'
  <2>1. TaskFine(u)
    BY DEF SpaceInv
  <2>2. CASE u = t
    BY <2>2, <1>1, <1>2 DEF TaskFine
  <2>3. CASE u # t
    BY <2>1, <2>3, <1>1, <1>2 DEF TaskFine, Answered
  <2> QED
    BY <2>2, <2>3
<1> QED
  BY <1>3, <1>4, <1>6, <1>7 DEF SpaceInv

\* What a ZCO took is given back, or seems to be until the transaction is
\* canceled.
LEMMA DestroyInv ==
    ASSUME SpaceInv, NEW t \in Tasks, DestroyZco(t) \/ DestroyCanceled(t)
    PROVE  SpaceInv'
<1>1. /\ ProvideZcoSpace(occupancy - held[t])
      /\ UNCHANGED <<requisitions, arrivals, ended, pc>>
  BY DEF DestroyZco, DestroyCanceled
<1>2. Holders' = Holders /\ pc' \in [Tasks -> Places]
  BY <1>1 DEF SpaceInv, SpaceTypes, Holders
<1>3. /\ held \in [Tasks -> Nat] /\ occupancy \in Nat
      /\ occupancy = SumOf(held, Tasks)
      /\ \A u \in Tasks : pc[u] # "idle" => held[u] = 0
  BY DEF SpaceInv, SpaceTypes, TaskFine
<1>4. CASE DestroyCanceled(t)
  <2>1. UNCHANGED <<occupancy, held>>
    BY <1>4 DEF DestroyCanceled
  <2> QED
    BY <1>1, <1>2, <1>3, <2>1, ServeInv
<1>5. CASE DestroyZco(t)
  <2>1. /\ occupancy' = occupancy - held[t]
        /\ held' = [held EXCEPT ![t] = 0]
    BY <1>5 DEF DestroyZco
  <2>2. /\ \A u \in Tasks : held[u] \in Nat /\ held'[u] \in Nat
        /\ \A u \in Tasks \ {t} : held'[u] = held[u]
        /\ held'[t] = 0
    BY <1>3, <2>1
  <2>3. SumOf(held', Tasks) + held[t] = SumOf(held, Tasks) + held'[t]
    BY <2>2, SumChanged, SpaceAssumption
  <2>4. SumOf(held', Tasks) \in Nat
    BY <2>2, SumType, SpaceAssumption
  <2>5. occupancy' = SumOf(held', Tasks) /\ occupancy' \in Nat
    BY <1>3, <2>1, <2>2, <2>3, <2>4
  <2>6. held' \in [Tasks -> Nat]
    BY <1>3, <2>1
  <2>7. \A u \in Tasks : pc'[u] # "idle" => held'[u] = 0
    BY <1>1, <1>3, <2>1
  <2> QED
    BY <1>1, <1>2, <2>5, <2>6, <2>7, ServeInv
<1> QED
  BY <1>4, <1>5

\* Ending an attendant gives its semaphore with a reason; it is unended only by
\* a task that waits for nothing.
LEMMA AttendantInv ==
    ASSUME SpaceInv, NEW t \in Tasks, Interrupt(t) \/ Resume(t)
    PROVE  SpaceInv'
<1>1. UNCHANGED <<requisitions, req, arrivals, occupancy, held, pc>>
  BY DEF Interrupt, Resume
<1>2. SpaceTypes' /\ occupancy' = SumOf(held, Tasks)'
  BY <1>1 DEF SpaceInv, SpaceTypes
<1>3. Tickets(requisitions)' /\ Tickets(arrivals)' /\ InOrder'
  <2>1. Holders' = Holders
    BY <1>1 DEF Holders
  <2> QED
    BY <1>1, <2>1, ListsKept
<1>4. ASSUME NEW u \in Tasks
      PROVE  TaskFine(u)'
  <2>1. TaskFine(u)
    BY DEF SpaceInv
  <2>2. CASE Interrupt(t)
    BY <2>1, <2>2 DEF TaskFine, Answered, Interrupt
  <2>3. CASE Resume(t)
    BY <2>1, <2>3 DEF TaskFine, Answered, Resume
  <2> QED
    BY <2>2, <2>3
<1> QED
  BY <1>2, <1>3, <1>4 DEF SpaceInv

\* Nothing is requested and nothing is held at first.
LEMMA InitInv == SpaceInit => SpaceInv
<1> SUFFICES ASSUME SpaceInit
             PROVE  SpaceInv
  OBVIOUS
<1>1. SpaceTypes
  BY DEF SpaceInit, SpaceTypes, NoRequest, Requisition, Places
<1>2. Tickets(requisitions) /\ Tickets(arrivals) /\ InOrder
  <2>1. requisitions = << >> /\ arrivals = << >> /\ Holders = {}
    BY DEF SpaceInit, Holders, Ticketed
  <2>2. IsInjective(<< >>) /\ ToSet(<< >>) = {}
    BY DEF IsInjective, ToSet
  <2> QED
    BY <2>1, <2>2 DEF Tickets, InOrder
<1>3. occupancy = SumOf(held, Tasks)
  <2> DEFINE F == {T \in SUBSET Tasks : SumOf(held, T) = 0}
  <2>1. {} \in F
    BY SumEmpty
  <2>2. ASSUME NEW T \in SUBSET Tasks, NEW x \in Tasks \ T, T \in F
        PROVE  T \cup {x} \in F
    <3>1. IsFiniteSet(T)
      BY SpaceAssumption, FS_Subset
    <3>2. \A y \in T \cup {x} : held[y] = 0 /\ held[y] \in Nat
      BY DEF SpaceInit
    <3>3. SumOf(held, T \cup {x}) = held[x] + SumOf(held, T)
      <4>1. x \notin T
        OBVIOUS
      <4> QED
        BY <3>1, <3>2, <4>1, SumMore
    <3>4. held[x] = 0 /\ SumOf(held, T) = 0 /\ T \cup {x} \in SUBSET Tasks
      BY <2>2, <3>2
    <3> QED
      BY <3>3, <3>4
  <2> HIDE DEF F
  <2>3. Tasks \in F
    BY <2>1, <2>2, SpaceAssumption, SetsInduction
  <2> QED
    BY <2>3 DEF F, SpaceInit
<1>4. \A t \in Tasks : TaskFine(t)
  BY DEF SpaceInit, TaskFine
<1> QED
  BY <1>1, <1>2, <1>3, <1>4 DEF SpaceInv

(***************************************************************************)
(* The theorems.                                                           *)
(***************************************************************************)
\* The invariant of ionCreateZco, its list of requisitions and its semaphores
\* holds whatever the tasks, their requests and the limit are.
THEOREM SpaceInvariant == SpaceSpec => []SpaceInv
<1>1. ASSUME SpaceInv, [SpaceNext]_spaceVars
      PROVE  SpaceInv'
  <2>1. ASSUME NEW t \in Tasks, Step(t)
        PROVE  SpaceInv'
    <3>1. CASE \E r \in Requests : RequestZcoSpace(t, r)
      BY <1>1, <3>1, RequestInv
    <3>2. CASE Provide(t)
      BY <1>1, <3>2, ProvideInv
    <3>3. CASE \/ NotYet(t) \/ GotIt(t) \/ Prime(t) \/ Wake(t) \/ CheckEnded(t)
      BY <1>1, <3>3, InsideInv
    <3>4. CASE GiveUp(t)
      <4>1. pc[t] \in Ticketed /\ Shred(t, "idle")
        BY <3>4 DEF GiveUp, Ticketed
      <4> QED
        BY <1>1, <4>1, ShredInv
    <3>5. CASE Claim(t)
      <4>1. pc[t] \in Ticketed /\ pc[t] = "awarded" /\ Shred(t, "creating")
        BY <3>5 DEF Claim, Ticketed
      <4> QED
        BY <1>1, <4>1, ShredInv
    <3>6. CASE CreateZco(t)
      BY <1>1, <3>6, CreateInv
    <3> QED
      BY <2>1, <3>1, <3>2, <3>3, <3>4, <3>5, <3>6 DEF Step
  <2>2. ASSUME NEW t \in Tasks,
               DestroyZco(t) \/ DestroyCanceled(t) \/ Interrupt(t) \/ Resume(t)
        PROVE  SpaceInv'
    BY <1>1, <2>2, DestroyInv, AttendantInv
  <2>3. CASE UNCHANGED spaceVars
    BY <1>1, <2>3 DEF spaceVars, SpaceInv, SpaceTypes, Tickets, Holders, InOrder,
                      MayPrecede, TaskFine, Answered
  <2> QED
    BY <1>1, <2>1, <2>2, <2>3 DEF SpaceNext
<1> QED
  BY <1>1, InitInv, PTL DEF SpaceSpec

\* No requisition is abandoned in the list nor listed twice, whichever way
\* ionCreateZco ends, and the occupancy is what the living ZCOs take.
THEOREM TicketsAreOwned == SpaceSpec => []TicketsOwned
BY SpaceInvariant, InvOwned, PTL

\* The list is in order of priority, and of arrival among equals, whatever is
\* inserted and shredded.
THEOREM PriorityKept == SpaceSpec => []PriorityOrder
BY SpaceInvariant, InvOrder, PTL

\* A task that is woken and not interrupted finds its request serviced: what an
\* earlier request left in the semaphore never passes for a service.
THEOREM WakesAreServices == SpaceSpec => []WakesServiced
BY SpaceInvariant, InvServiced, PTL

=============================================================================
