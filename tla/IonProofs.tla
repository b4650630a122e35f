------------------------------ MODULE IonProofs ------------------------------
(***************************************************************************)
(* The proofs about the part of ION that LTP stands on and that lives in   *)
(* the SDR: its transactions (SdrTransaction), for any calls, with an SDR  *)
(* that is reversible and keeps its log in a file; and the contact plan    *)
(* (ContactPlan), for every set of nodes, any times, rates and log         *)
(* lengths, and every order of calls.                                      *)
(***************************************************************************)
EXTENDS SdrTransaction, ContactPlan, DataLemmas

(***************************************************************************)
(* Transactions.                                                           *)
(***************************************************************************)
\* The profiles the results are about.  A power cycle leaves memory empty, so
\* that it is survived by a dataspace in a file alone.
ProtectedConfigs ==
    /\ \A c \in Configs : c.reversible /\ c.logInFile
    /\ \A c \in Reboots : ~c.inDram

(***************************************************************************)
(* The inductive invariant.                                                *)
(***************************************************************************)
Stages == {"none", "control", "data", "file", "dram"}
Phases == {"open", "commit", "reverse", "clear", "unlock"}

\* The first n entries of the log l lead from the dataspace ds back to c: what
\* they are not about is as in c, and what they are about has the content it
\* has in c in the oldest entry about it.
Restores(l, n, ds, c) ==
    /\ ds = [x \in DOMAIN c |-> ds[x]]
    /\ \A x \in DOMAIN c :
          /\ (\A i \in 1..n : l[i].addr # x) => ds[x] = c[x]
          /\ \A i \in 1..n : /\ l[i].addr = x
                             /\ \A j \in 1..(i - 1) : l[j].addr # x
                             => l[i].old = c[x]

Whole == Len(logEntries)

Leads(n) ==
    /\ config.inFile => Restores(log, n, file, committed)
    /\ config.inDram => Restores(log, n, dram, committed)

TypeOK ==
    /\ config \in Configs
    /\ \E S : log \in Seq(S)
    /\ logEntries \in Seq(Nat)
    /\ locked \in BOOLEAN /\ owner \in Tasks \cup {None}
    /\ xnDepth \in 0..MaxDepth /\ xnCanceled \in BOOLEAN
    /\ phase \in Phases /\ undone \in Nat
    /\ \E S : view \in [Tasks -> [attached : BOOLEAN, modified : BOOLEAN,
                                  puts : S, stage : Stages]]
    /\ committed = [x \in DOMAIN committed |-> committed[x]]

\* The list is that of the complete entries, of which only the last one of the
\* log may be none, when a task is about to complete it or was killed then.
LogFine ==
    /\ Whole = Len(log) \/ Whole = Len(log) - 1
    /\ \A i \in 1..Whole : logEntries[i] = i /\ log[i].whole
    /\ Len(log) # Whole => ~log[Len(log)].whole
    /\ Running => Len(log) = IF \E t \in Tasks : Putting(t, "data")
                             THEN Whole + 1 ELSE Whole

LockFine ==
    /\ ~locked => owner = None /\ phase = "open"
    /\ UnlockedIsCommitted
    /\ \A t \in Tasks : view[t].puts # <<>> =>
          view[t].attached /\ owner = t /\ phase = "open"

\* The dataspace is written to after the log.
PutFine(t) ==
    /\ Putting(t, "file") => config.inFile
    /\ Putting(t, "dram") => config.inDram
    /\ Putting(t, "file") \/ Putting(t, "dram") =>
          Whole >= 1 /\ log[Whole].addr = PutAddress(t)

\* The task in the transaction finds the copies equal, but for the content it
\* has written to one of them; and reversed as far as it has come.
CopiesFine(t) ==
    /\ phase \in {"open", "commit"} /\ config.inFile /\ config.inDram =>
          file = IF Putting(t, "dram")
                 THEN [dram EXCEPT ![PutAddress(t)] = PutContent(t)] ELSE dram
    /\ phase = "reverse" => undone \in 0..Whole /\ Leads(Whole - undone)
    /\ phase \in {"clear", "unlock"} => Leads(0)

TransactionInv ==
    /\ TypeOK /\ LogFine /\ LockFine /\ Leads(Whole)
    /\ \A t \in Tasks : /\ PutFine(t)
                        /\ view[t].attached /\ owner = t => CopiesFine(t)

(***************************************************************************)
(* What the log leads back to.                                             *)
(***************************************************************************)
\* An empty log leads nowhere else.
LEMMA RestoresNothing ==
    ASSUME NEW l, NEW ds, NEW c, c = [x \in DOMAIN c |-> c[x]]
    PROVE  Restores(l, 0, ds, c) <=> ds = c
<1>1. 1..0 = {}
  OBVIOUS
<1>2. ASSUME Restores(l, 0, ds, c)
      PROVE  ds = c
  <2>1. \A x \in DOMAIN c : ds[x] = c[x]
    BY <1>1, <1>2 DEF Restores
  <2>2. ds = [x \in DOMAIN c |-> ds[x]]
    BY <1>2 DEF Restores
  <2> QED
    BY <2>1, <2>2
<1>3. Restores(l, 0, c, c)
  BY <1>1 DEF Restores
<1> QED
  BY <1>2, <1>3

\* What has been logged may be changed.
LEMMA RestoresChanged ==
    ASSUME NEW l, NEW n \in Nat, NEW ds, NEW c, Restores(l, n, ds, c),
           NEW i \in 1..n, NEW v
    PROVE  Restores(l, n, [ds EXCEPT ![l[i].addr] = v], c)
<1> DEFINE e == [ds EXCEPT ![l[i].addr] = v]
<1>1. ds = [x \in DOMAIN c |-> ds[x]]
  BY DEF Restores
<1>2. e = [x \in DOMAIN c |-> e[x]]
      /\ \A x \in DOMAIN c : x # l[i].addr => e[x] = ds[x]
  BY <1>1
<1> HIDE DEF e
<1>3. \A x \in DOMAIN c : (\A k \in 1..n : l[k].addr # x) => e[x] = c[x]
  BY <1>2 DEF Restores
<1> QED
  BY <1>2, <1>3 DEF Restores, e

\* One more entry holds what is there.
LEMMA RestoresLogged ==
    ASSUME NEW l, NEW m, NEW n \in Nat, NEW ds, NEW c, Restores(l, n, ds, c),
           \A i \in 1..n : m[i] = l[i], m[n + 1].old = ds[m[n + 1].addr]
    PROVE  Restores(m, n + 1, ds, c)
<1>1. ds = [x \in DOMAIN c |-> ds[x]]
  BY DEF Restores
<1>2. ASSUME NEW x \in DOMAIN c, \A i \in 1..(n + 1) : m[i].addr # x
      PROVE  ds[x] = c[x]
  <2>1. \A i \in 1..n : l[i].addr # x
    BY <1>2
  <2> QED
    BY <2>1 DEF Restores
<1>3. ASSUME NEW x \in DOMAIN c, NEW i \in 1..(n + 1), m[i].addr = x,
             \A j \in 1..(i - 1) : m[j].addr # x
      PROVE  m[i].old = c[x]
  <2>1. CASE i = n + 1
    <3>1. \A j \in 1..n : l[j].addr # x
      BY <1>3, <2>1
    <3>2. ds[x] = c[x]
      BY <3>1 DEF Restores
    <3> QED
      BY <3>2, <2>1, <1>3
  <2>2. CASE i # n + 1
    <3>1. i \in 1..n /\ l[i].addr = x
      BY <2>2, <1>3
    <3>2. \A j \in 1..(i - 1) : l[j].addr # x
      BY <3>1, <1>3
    <3> QED
      BY <3>1, <3>2 DEF Restores
  <2> QED
    BY <2>1, <2>2
<1> QED
  BY <1>1, <1>2, <1>3 DEF Restores

\* The last entry, reversed, is needed no more.
LEMMA RestoresReversed ==
    ASSUME NEW l, NEW n \in Nat, n > 0, NEW ds, NEW c, Restores(l, n, ds, c)
    PROVE  Restores(l, n - 1, [ds EXCEPT ![l[n].addr] = l[n].old], c)
<1> DEFINE e == [ds EXCEPT ![l[n].addr] = l[n].old]
<1>1. ds = [x \in DOMAIN c |-> ds[x]]
  BY DEF Restores
<1>2. /\ e = [x \in DOMAIN c |-> e[x]]
      /\ \A x \in DOMAIN c : e[x] = IF x = l[n].addr THEN l[n].old ELSE ds[x]
  BY <1>1
<1> HIDE DEF e
<1>3. ASSUME NEW x \in DOMAIN c, \A i \in 1..(n - 1) : l[i].addr # x
      PROVE  e[x] = c[x]
  <2>1. CASE x = l[n].addr
    <3>1. n \in 1..n /\ l[n].old = c[x]
      BY <2>1, <1>3 DEF Restores
    <3> QED
      BY <3>1, <2>1, <1>2
  <2>2. CASE x # l[n].addr
    <3>1. \A i \in 1..n : l[i].addr # x
      BY <2>2, <1>3
    <3>2. ds[x] = c[x]
      BY <3>1 DEF Restores
    <3> QED
      BY <3>2, <2>2, <1>2
  <2> QED
    BY <2>1, <2>2
<1>4. 1..(n - 1) \subseteq 1..n
  OBVIOUS
<1>5. ASSUME NEW x \in DOMAIN c, NEW i \in 1..(n - 1), l[i].addr = x,
             \A j \in 1..(i - 1) : l[j].addr # x
      PROVE  l[i].old = c[x]
  BY <1>4, <1>5 DEF Restores
<1> QED
  BY <1>2, <1>3, <1>5 DEF Restores, e

(***************************************************************************)
(* Reversal by several entries at once.                                    *)
(***************************************************************************)
\* The dataspace with one entry reversed.
Undone(ds, i) == [ds EXCEPT ![log[i].addr] = log[i].old]

\* f says what the dataspace is when the last n of some entries are reversed.
Reversal(f, ds, entries, m) ==
    f = [n \in 0..m |->
            IF n = 0 THEN ds
            ELSE Undone(f[n - 1], entries[Len(entries) - n + 1])]

\* A reversal goes one entry further.
LEMMA ReversalExists ==
    ASSUME NEW ds, NEW entries
    PROVE  \A m \in Nat : \E f : Reversal(f, ds, entries, m)
<1> DEFINE T == {m \in Nat : \E f : Reversal(f, ds, entries, m)}
           at(n) == entries[Len(entries) - n + 1]
<1>1. 0 \in T
  <2>1. Reversal([n \in 0..0 |-> ds], ds, entries, 0)
    BY DEF Reversal
  <2> QED
    BY <2>1
<1>2. ASSUME NEW m \in Nat, m \in T
      PROVE  m + 1 \in T
  <2>1. PICK f : Reversal(f, ds, entries, m)
    BY <1>2
  <2> DEFINE last == Undone(f[m], at(m + 1))
             g == [n \in 0..(m + 1) |-> IF n = m + 1 THEN last ELSE f[n]]
  <2>2. \A n \in 0..m : f[n] = IF n = 0 THEN ds ELSE Undone(f[n - 1], at(n))
    BY <2>1 DEF Reversal
  <2>3. ASSUME NEW n \in 0..(m + 1)
        PROVE  g[n] = IF n = 0 THEN ds ELSE Undone(g[n - 1], at(n))
    <3> HIDE DEF at
    <3>1. CASE n = m + 1
      <4>1. g[n] = last /\ n # 0 /\ n - 1 = m /\ g[n - 1] = f[m]
        BY <3>1
      <4> QED
        BY <4>1, <3>1
    <3>2. CASE n # m + 1
      <4>1. n \in 0..m /\ g[n] = f[n]
        BY <3>2
      <4>2. n # 0 => n - 1 \in 0..(m + 1) /\ n - 1 # m + 1 /\ g[n - 1] = f[n - 1]
        BY <4>1
      <4> HIDE DEF g
      <4> QED
        BY <2>2, <4>1, <4>2
    <3> QED
      BY <3>1, <3>2
  <2>4. g = [n \in 0..(m + 1) |-> g[n]]
    OBVIOUS
  <2> HIDE DEF g
  <2>5. Reversal(g, ds, entries, m + 1)
    BY <2>3, <2>4 DEF Reversal
  <2> QED
    BY <2>5
<1> HIDE DEF T
<1>3. Nat \subseteq T
  BY <1>1, <1>2, NumbersInduction
<1> QED
  BY <1>3 DEF T

\* f leads from ds to what Reversed makes of it.
Steps(f, ds, entries, m) ==
    /\ f[0] = ds
    /\ \A n \in 1..m : f[n] = Undone(f[n - 1], entries[m - n + 1])
    /\ Reversed(ds, entries) = f[m]

\* The dataspace is reversed one entry after the other.
LEMMA ReversedSteps ==
    ASSUME NEW ds, NEW entries, NEW m \in Nat, Len(entries) = m
    PROVE  \E f : Steps(f, ds, entries, m)
<1> DEFINE h == CHOOSE f : Reversal(f, ds, entries, m)
<1>1. Reversal(h, ds, entries, m)
  BY ReversalExists
<1>2. Reversed(ds, entries) = h[m]
  BY DEF Reversed, Reversal, Undone
<1> HIDE DEF h
<1>3. PICK f : Reversal(f, ds, entries, m) /\ Reversed(ds, entries) = f[m]
  BY <1>1, <1>2
<1>4. \A n \in 0..m : f[n] = IF n = 0 THEN ds
                             ELSE Undone(f[n - 1], entries[m - n + 1])
  BY <1>3 DEF Reversal
<1>5. f[0] = ds
  BY <1>4
<1>6. \A n \in 1..m : f[n] = Undone(f[n - 1], entries[m - n + 1])
  BY <1>4
<1>7. Steps(f, ds, entries, m)
  BY <1>3, <1>5, <1>6 DEF Steps
<1> QED
  BY <1>7

\* When all entries are reversed, the last one first, nothing is left to be
\* restored.
LEMMA ReversedAll ==
    ASSUME NEW n \in Nat, NEW entries, Len(entries) = n,
           \A i \in 1..n : entries[i] = i,
           NEW ds, NEW c, c = [x \in DOMAIN c |-> c[x]], Restores(log, n, ds, c)
    PROVE  Reversed(ds, entries) = c
<1>0. PICK f : Steps(f, ds, entries, n)
  BY ReversedSteps
<1>1. /\ f[0] = ds
      /\ \A k \in 1..n : f[k] = Undone(f[k - 1], entries[n - k + 1])
      /\ Reversed(ds, entries) = f[n]
  BY <1>0 DEF Steps
<1> DEFINE T == {k \in Nat : k <= n => Restores(log, n - k, f[k], c)}
<1>2. 0 \in T
  BY <1>1
<1>3. ASSUME NEW k \in Nat, k \in T
      PROVE  k + 1 \in T
  <2>1. SUFFICES ASSUME k + 1 <= n
                 PROVE  Restores(log, n - (k + 1), f[k + 1], c)
    OBVIOUS
  <2>2. Restores(log, n - k, f[k], c)
    BY <2>1, <1>3
  <2>3. /\ k + 1 \in 1..n /\ (k + 1) - 1 = k /\ n - (k + 1) + 1 = n - k
        /\ n - k \in Nat /\ n - k > 0 /\ n - (k + 1) = (n - k) - 1
        /\ entries[n - k] = n - k
    BY <2>1
  <2>4. f[k + 1] = Undone(f[k], n - k)
    BY <1>1, <2>3
  <2>5. Restores(log, (n - k) - 1, Undone(f[k], n - k), c)
    BY <2>2, <2>3, RestoresReversed DEF Undone
  <2> QED
    BY <2>3, <2>4, <2>5
<1> HIDE DEF T
<1>4. n \in T
  BY <1>2, <1>3, NumbersInduction
<1>5. Restores(log, 0, f[n], c)
  BY <1>4 DEF T
<1> QED
  BY <1>1, <1>5, RestoresNothing

\* A reversal by some of the entries can be done again.
LEMMA ReversedSome ==
    ASSUME NEW n \in Nat, NEW entries, Len(entries) \in Nat,
           \A i \in 1..Len(entries) : entries[i] \in 1..n,
           NEW ds, NEW c, Restores(log, n, ds, c)
    PROVE  Restores(log, n, Reversed(ds, entries), c)
<1> DEFINE m == Len(entries)
<1>0. PICK f : Steps(f, ds, entries, m)
  BY ReversedSteps
<1>1. /\ f[0] = ds
      /\ \A k \in 1..m : f[k] = Undone(f[k - 1], entries[m - k + 1])
      /\ Reversed(ds, entries) = f[m]
  BY <1>0 DEF Steps
<1> DEFINE T == {k \in Nat : k <= m => Restores(log, n, f[k], c)}
<1>2. 0 \in T
  BY <1>1
<1>3. ASSUME NEW k \in Nat, k \in T
      PROVE  k + 1 \in T
  <2>1. SUFFICES ASSUME k + 1 <= m
                 PROVE  Restores(log, n, f[k + 1], c)
    OBVIOUS
  <2>2. Restores(log, n, f[k], c)
    BY <2>1, <1>3
  <2>3. /\ k + 1 \in 1..m /\ (k + 1) - 1 = k
        /\ m - (k + 1) + 1 \in 1..m
    BY <2>1
  <2>4. PICK i \in 1..n : i = entries[m - (k + 1) + 1]
    BY <2>3
  <2>5. f[k + 1] = Undone(f[k], i)
    BY <1>1, <2>3, <2>4
  <2>6. Restores(log, n, Undone(f[k], i), c)
    BY <2>2, RestoresChanged DEF Undone
  <2> QED
    BY <2>5, <2>6
<1> HIDE DEF T
<1>4. m \in T
  BY <1>2, <1>3, NumbersInduction
<1> QED
  BY <1>1, <1>4 DEF T

\* The entries that are reloaded are those of the list.
LEMMA ReloadedAre ==
    ASSUME ProtectedConfigs, TypeOK, LogFine
    PROVE  ReloadedEntries = logEntries /\ Whole \in Nat
<1> DEFINE N == {n \in 0..Len(log) : \A i \in 1..n : log[i].whole}
<1>1. Whole \in Nat /\ Len(log) \in Nat
  BY DEF TypeOK, Whole
<1>2. Whole \in N /\ \A n \in N : n <= Whole
  <2>1. Whole \in 0..Len(log)
    BY <1>1 DEF LogFine
  <2>2. \A i \in 1..Whole : log[i].whole
    BY DEF LogFine
  <2>3. ASSUME NEW n \in N, n > Whole
        PROVE  FALSE
    <3>1. n = Len(log) /\ Len(log) # Whole /\ n \in 1..n
      BY <1>1, <2>3 DEF LogFine
    <3> QED
      BY <3>1, <2>3 DEF LogFine
  <2> QED
    BY <1>1, <2>1, <2>2, <2>3
<1>3. WholeEntries = Whole
  <2>1. N \in SUBSET (0..Len(log)) /\ N # {}
    BY <1>2
  <2>2. Max(N) \in N /\ \A n \in N : n <= Max(N)
    BY <1>1, <2>1, GreatestElement
  <2>3. WholeEntries = Max(N)
    BY DEF WholeEntries
  <2> QED
    BY <1>1, <1>2, <2>2, <2>3
<1>4. config.reversible /\ config.logInFile
  BY DEF ProtectedConfigs, TypeOK
<1>5. logEntries = [i \in 1..Whole |-> i]
  <2>1. logEntries \in Seq(Nat) /\ DOMAIN logEntries = 1..Whole
    BY DEF TypeOK, Whole
  <2>2. \A i \in 1..Whole : logEntries[i] = i
    BY DEF LogFine
  <2>3. logEntries = [i \in 1..Whole |-> logEntries[i]]
    BY <2>1
  <2> QED
    BY <2>2, <2>3
<1> QED
  BY <1>1, <1>3, <1>4, <1>5 DEF ReloadedEntries

\* The invariant says that the log leads back.
LEMMA InvRestores ==
    ASSUME ProtectedConfigs, TransactionInv
    PROVE  LogRestores
<1>1. TypeOK /\ LogFine /\ Leads(Whole)
  BY DEF TransactionInv
<1>2. ReloadedEntries = logEntries /\ Whole \in Nat
  BY <1>1, ReloadedAre
<1>3. Len(logEntries) = Whole /\ \A i \in 1..Whole : logEntries[i] = i
  BY <1>1 DEF LogFine, Whole
<1>4. committed = [x \in DOMAIN committed |-> committed[x]]
  BY <1>1 DEF TypeOK
<1>5. config.inFile => Reversed(file, logEntries) = committed
  BY <1>1, <1>2, <1>3, <1>4, ReversedAll DEF Leads
<1>6. config.inDram => Reversed(dram, logEntries) = committed
  BY <1>1, <1>2, <1>3, <1>4, ReversedAll DEF Leads
<1> QED
  BY <1>2, <1>5, <1>6 DEF LogRestores

(***************************************************************************)
(* Who may act.                                                            *)
(***************************************************************************)
\* The number of complete entries is a number.
LEMMA WholeType == TransactionInv => Whole \in Nat
BY DEF TransactionInv, TypeOK, Whole

\* The task in a transaction holds the lock, and only it makes a call.
LEMMA OwnerAlone ==
    ASSUME TransactionInv, NEW t \in Tasks, owner = t
    PROVE  locked /\ \A u \in Tasks \ {t} : view[u].puts = << >>
<1>1. LockFine /\ t # None
  BY TransactionAssumption DEF TransactionInv
<1> QED
  BY <1>1 DEF LockFine

\* Nobody makes a call when a transaction begins or ends.
LEMMA NoCalls ==
    ASSUME TransactionInv, NEW t \in Tasks,
           \/ Ready(t) /\ (InTransaction(t) \/ ~locked)
           \/ phase # "open"
    PROVE  \A u \in Tasks : view[u].puts = << >>
<1>1. LockFine
  BY DEF TransactionInv
<1>2. CASE phase # "open"
  BY <1>1, <1>2 DEF LockFine
<1>3. CASE Ready(t) /\ InTransaction(t)
  <2>1. owner = t /\ view[t].puts = << >>
    BY <1>3 DEF Ready, InTransaction
  <2> QED
    BY <2>1, OwnerAlone
<1>4. CASE ~locked
  <2>1. owner = None /\ None \notin Tasks
    BY <1>1, <1>4, TransactionAssumption DEF LockFine
  <2> QED
    BY <1>1, <2>1 DEF LockFine
<1> QED
  BY <1>2, <1>3, <1>4

\* A step that concerns only the lock and the phase, when nobody makes a call,
\* keeps the invariant if the copies are fine for whoever owns the lock then.
LEMMA ControlStep ==
    ASSUME TransactionInv, UNCHANGED <<config, dataspace, theLog, committed>>,
           \A u \in Tasks : view[u].puts = << >>,
           NEW t \in Tasks,
           NEW v \in [attached : BOOLEAN, modified : BOOLEAN,
                      puts : {<< >>}, stage : Stages],
           view' = [view EXCEPT ![t] = v], v.attached => view[t].attached,
           locked' \in BOOLEAN, owner' \in Tasks \cup {None}, phase' \in Phases,
           xnDepth' \in 0..MaxDepth, xnCanceled' \in BOOLEAN, undone' \in Nat,
           ~locked' => owner' = None /\ phase' = "open",
           UnlockedIsCommitted',
           \A u \in Tasks : owner' = u /\ view'[u].attached => CopiesFine(u)'
    PROVE  TransactionInv'
<1>1. PICK S : view \in [Tasks -> [attached : BOOLEAN, modified : BOOLEAN,
                                   puts : S, stage : Stages]]
  BY DEF TransactionInv, TypeOK
<1>2. view' \in [Tasks -> [attached : BOOLEAN, modified : BOOLEAN,
                           puts : S \cup {<< >>}, stage : Stages]]
  <2>1. v \in [attached : BOOLEAN, modified : BOOLEAN,
               puts : S \cup {<< >>}, stage : Stages]
    OBVIOUS
  <2>2. \A u \in Tasks : view[u] \in [attached : BOOLEAN, modified : BOOLEAN,
                                      puts : S \cup {<< >>}, stage : Stages]
    BY <1>1
  <2> QED
    BY <1>1, <2>1, <2>2
<1>3. /\ \A u \in Tasks : view'[u].puts = << >>
      /\ \A u \in Tasks : view'[u].attached => view[u].attached
  <2>1. v.puts = << >>
    OBVIOUS
  <2> QED
    BY <1>1, <2>1
<1>4. \A u \in Tasks : \A stage : ~Putting(u, stage) /\ ~Putting(u, stage)'
  BY <1>3 DEF Putting
<1>5. /\ config' = config /\ file' = file /\ dram' = dram /\ log' = log
      /\ logEntries' = logEntries /\ committed' = committed
  BY DEF dataspace, theLog
<1>6. TypeOK'
  BY <1>2, <1>5 DEF TransactionInv, TypeOK
<1>7. LogFine'
  <2>1. Running' => Running
    BY <1>3 DEF Running
  <2>2. LogFine
    BY DEF TransactionInv
  <2> QED
    BY <1>4, <1>5, <2>1, <2>2 DEF LogFine, Whole
<1>8. LockFine'
  BY <1>3 DEF LockFine
<1>9. Leads(Whole)'
  BY <1>5 DEF TransactionInv, Leads, Whole
<1>10. \A u \in Tasks : PutFine(u)'
  BY <1>4 DEF PutFine
<1> QED
  BY <1>6, <1>7, <1>8, <1>9, <1>10 DEF TransactionInv

\* The two copies are equal when the task in the transaction makes no call.
LEMMA CopiesEqual ==
    ASSUME TransactionInv, NEW t \in Tasks, owner = t, view[t].attached,
           phase \in {"open", "commit"}, view[t].puts = << >>
    PROVE  config.inFile /\ config.inDram => file = dram
<1>1. CopiesFine(t) /\ ~Putting(t, "dram")
  BY DEF TransactionInv, Putting
<1> QED
  BY <1>1 DEF CopiesFine

(***************************************************************************)
(* The beginning of a transaction and its termination.                     *)
(***************************************************************************)
\* What a view is made of, by name.
LEMMA ViewType ==
    ASSUME TransactionInv, NEW t \in Tasks
    PROVE  /\ view[t] \in [attached : BOOLEAN, modified : BOOLEAN,
                           puts : {view[t].puts}, stage : Stages]
           /\ [view EXCEPT ![t] = view[t]] = view /\ DOMAIN view = Tasks
<1>1. PICK S : view \in [Tasks -> [attached : BOOLEAN, modified : BOOLEAN,
                                   puts : S, stage : Stages]]
  BY DEF TransactionInv, TypeOK
<1>2. view[t] \in [attached : BOOLEAN, modified : BOOLEAN, puts : S, stage : Stages]
  BY <1>1
<1>3. [view EXCEPT ![t] = view[t]] = view /\ DOMAIN view = Tasks
  BY <1>1
<1> QED
  BY <1>2, <1>3

\* The view of a task that aborts or was killed.
LEMMA NoViewType ==
    /\ NoView \in [attached : BOOLEAN, modified : BOOLEAN, puts : {<< >>}, stage : Stages]
    /\ NewView \in [attached : BOOLEAN, modified : BOOLEAN, puts : {<< >>}, stage : Stages]
    /\ ~NoView.attached
BY DEF NoView, NewView, Stages

\* A transaction begins, or begins within itself.
LEMMA BeginInv ==
    ASSUME TransactionInv, NEW t \in Tasks, BeginXn(t)
    PROVE  TransactionInv'
<1> DEFINE v == [view[t] EXCEPT !.modified = FALSE]
<1>1. \A u \in Tasks : view[u].puts = << >>
  BY NoCalls DEF BeginXn
<1>2. /\ v \in [attached : BOOLEAN, modified : BOOLEAN, puts : {<< >>}, stage : Stages]
      /\ v.attached = view[t].attached
  BY <1>1, ViewType
<1>3. /\ view' = [view EXCEPT ![t] = v] /\ owner' = t /\ locked' = TRUE
      /\ UNCHANGED <<config, dataspace, theLog, committed, phase, undone, xnCanceled>>
      /\ view[t].attached
  BY DEF BeginXn, Ready
<1> HIDE DEF v
<1>4. TypeOK /\ LockFine
  BY DEF TransactionInv
<1>5. xnDepth' \in 0..MaxDepth
  BY <1>4, TransactionAssumption DEF TypeOK, BeginXn
<1>6. phase = "open"
  BY <1>4 DEF BeginXn, InTransaction, LockFine
<1>7. config.inFile /\ config.inDram => file = dram
  <2>1. CASE InTransaction(t)
    BY <2>1, <1>1, <1>3, <1>6, CopiesEqual DEF InTransaction
  <2>2. CASE ~locked
    BY <2>2, <1>4 DEF LockFine, UnlockedIsCommitted
  <2> QED
    BY <2>1, <2>2 DEF BeginXn
<1>8. ASSUME NEW u \in Tasks, owner' = u, view'[u].attached
      PROVE  CopiesFine(u)'
  <2>1. u = t /\ view'[t] = v /\ v.puts = << >>
    BY <1>2, <1>3, <1>8, ViewType
  <2>2. ~Putting(u, "dram")' /\ phase' = "open"
    BY <2>1, <1>3, <1>6 DEF Putting
  <2>3. config'.inFile /\ config'.inDram => file' = dram'
    BY <1>3, <1>7 DEF dataspace
  <2> QED
    BY <2>2, <2>3 DEF CopiesFine
<1>9. UnlockedIsCommitted'
  BY <1>3 DEF UnlockedIsCommitted
<1> QED
  BY <1>1, <1>2, <1>3, <1>4, <1>5, <1>8, <1>9, ControlStep DEF TypeOK

\* A step of the task in the transaction that leaves its view alone and brings it
\* to a phase in which the copies are fine.
LEMMA PhaseStep ==
    ASSUME TransactionInv, UNCHANGED <<config, dataspace, theLog, committed>>,
           \A u \in Tasks : view[u].puts = << >>,
           NEW t \in Tasks, owner = t, UNCHANGED <<locked, owner, view>>,
           phase' \in Phases, undone' \in Nat,
           xnDepth' \in 0..MaxDepth, xnCanceled' \in BOOLEAN,
           view[t].attached => CopiesFine(t)'
    PROVE  TransactionInv'
<1>1. /\ view[t] \in [attached : BOOLEAN, modified : BOOLEAN,
                      puts : {<< >>}, stage : Stages]
      /\ view' = [view EXCEPT ![t] = view[t]]
  BY ViewType
<1>2. locked /\ TypeOK /\ t # None
  BY OwnerAlone, TransactionAssumption DEF TransactionInv
<1>3. UnlockedIsCommitted' /\ locked' \in BOOLEAN /\ owner' \in Tasks \cup {None}
  BY <1>2 DEF UnlockedIsCommitted, TypeOK
<1> QED
  BY <1>1, <1>2, <1>3, ControlStep

\* A transaction that can be reversed never aborts: it is committed or reversed.
LEMMA TerminateInv ==
    ASSUME ProtectedConfigs, TransactionInv, NEW t \in Tasks,
           Ready(t), InTransaction(t),
           Terminate(t, TRUE) \/ Terminate(t, FALSE),
           UNCHANGED <<config, dataspace, theLog, committed>>
    PROVE  TransactionInv'
<1>1. /\ \A u \in Tasks : view[u].puts = << >>
      /\ owner = t /\ phase = "open" /\ view[t].attached /\ TypeOK
  BY NoCalls DEF InTransaction, Ready, TransactionInv
<1>2. config.reversible
  BY <1>1 DEF ProtectedConfigs, TypeOK
<1>3. /\ xnDepth' = 0 /\ xnCanceled' = FALSE /\ undone' = 0
      /\ phase' \in {"commit", "reverse"}
      /\ owner' = t /\ UNCHANGED <<locked, view>>
  <2>1. CASE Terminate(t, TRUE)
    BY <2>1, <1>1, <1>2, ViewType DEF Terminate
  <2>2. CASE Terminate(t, FALSE)
    BY <2>2, <1>1, <1>2, ViewType DEF Terminate
  <2> QED
    BY <2>1, <2>2
<1>4. CopiesFine(t)'
  <2>1. ~Putting(t, "dram")'
    BY <1>1, <1>3 DEF Putting
  <2>2. config.inFile /\ config.inDram => file = dram
    BY <1>1, CopiesEqual
  <2>3. Leads(Whole) /\ Whole \in Nat
    BY DEF TransactionInv, TypeOK, Whole
  <2>4. undone' \in 0..Whole' /\ Whole' - undone' = Whole
    BY <1>3, <2>3 DEF theLog, Whole
  <2>5. Leads(Whole - undone)'
    BY <2>3, <2>4 DEF Leads, dataspace, theLog
  <2> QED
    BY <1>3, <2>1, <2>2, <2>4, <2>5 DEF CopiesFine, dataspace
<1>5. /\ phase' \in Phases /\ undone' \in Nat
      /\ xnDepth' \in 0..MaxDepth /\ xnCanceled' \in BOOLEAN
  <2>1. phase' \in Phases
    BY <1>3 DEF Phases
  <2>2. undone' \in Nat /\ xnDepth' \in 0..MaxDepth
    BY <1>3, TransactionAssumption
  <2>3. xnCanceled' \in BOOLEAN
    BY <1>3
  <2> QED
    BY <2>1, <2>2, <2>3
<1> QED
  BY <1>1, <1>3, <1>4, <1>5, PhaseStep

\* An end or a cancellation within a nested transaction.
LEMMA NestedInv ==
    ASSUME TransactionInv, NEW t \in Tasks, Ready(t), InTransaction(t),
           xnDepth > 1, xnDepth' = xnDepth - 1, xnCanceled' \in BOOLEAN,
           UNCHANGED <<config, dataspace, theLog, committed,
                       locked, owner, phase, undone, view>>
    PROVE  TransactionInv'
<1>1. /\ \A u \in Tasks : view[u].puts = << >>
      /\ owner = t /\ phase = "open" /\ view[t].attached /\ TypeOK
  BY NoCalls DEF InTransaction, Ready, TransactionInv
<1>2. /\ phase' \in Phases /\ undone' \in Nat
      /\ xnDepth' \in 0..MaxDepth
  BY <1>1, TransactionAssumption DEF TypeOK
<1>3. CopiesFine(t)'
  <2>1. ~Putting(t, "dram")'
    BY <1>1 DEF Putting
  <2>2. config.inFile /\ config.inDram => file = dram
    BY <1>1, CopiesEqual
  <2> QED
    BY <1>1, <2>1, <2>2 DEF CopiesFine, dataspace
<1> QED
  BY <1>1, <1>2, <1>3, PhaseStep

\* The ends of a transaction that may have modified the dataspace.
LEMMA EndsInv ==
    ASSUME ProtectedConfigs, TransactionInv, NEW t \in Tasks,
           EndXn(t) \/ CancelXn(t) \/ CrashXn(t)
    PROVE  TransactionInv'
<1>1. TypeOK
  BY DEF TransactionInv
<1>2. CASE EndXn(t)
  <2>1. CASE xnDepth > 1 /\ xnDepth' = xnDepth - 1
             /\ UNCHANGED <<locked, owner, xnCanceled, phase, undone, view>>
    BY <1>1, <1>2, <2>1, NestedInv DEF EndXn, TypeOK
  <2>2. CASE Terminate(t, xnCanceled)
    <3>1. Terminate(t, TRUE) \/ Terminate(t, FALSE)
      <4>1. xnCanceled = TRUE \/ xnCanceled = FALSE
        BY <1>1 DEF TypeOK
      <4>2. CASE xnCanceled = TRUE
        BY <2>2, <4>2
      <4>3. CASE xnCanceled = FALSE
        BY <2>2, <4>3
      <4> QED
        BY <4>1, <4>2, <4>3
    <3> QED
      BY <1>2, <3>1, TerminateInv DEF EndXn
  <2> QED
    BY <1>2, <2>1, <2>2 DEF EndXn
<1>3. CASE CancelXn(t)
  <2>1. CASE xnDepth > 1 /\ xnDepth' = xnDepth - 1 /\ xnCanceled' = TRUE
             /\ UNCHANGED <<locked, owner, phase, undone, view>>
    BY <1>3, <2>1, NestedInv DEF CancelXn
  <2>2. CASE Terminate(t, TRUE)
    BY <1>3, <2>2, TerminateInv DEF CancelXn
  <2> QED
    BY <1>3, <2>1, <2>2 DEF CancelXn
<1>4. CASE CrashXn(t)
  BY <1>4, TerminateInv DEF CrashXn
<1> QED
  BY <1>2, <1>3, <1>4

\* sdr_exit_xn leaves a transaction that modified nothing to be unlocked, and
\* aborts in another one, whose updates are none by then.
LEMMA ExitInv ==
    ASSUME TransactionInv, NEW t \in Tasks, ExitXn(t)
    PROVE  TransactionInv'
<1>1. /\ \A u \in Tasks : view[u].puts = << >>
      /\ owner = t /\ phase = "open" /\ view[t].attached /\ TypeOK
      /\ Contents = committed /\ Ready(t) /\ InTransaction(t)
      /\ UNCHANGED <<config, dataspace, theLog, locked, xnCanceled, undone, committed>>
  BY NoCalls DEF ExitXn, InTransaction, Ready, TransactionInv
<1>2. config.inFile /\ config.inDram => file = dram
  BY <1>1, CopiesEqual
<1>3. CASE xnDepth > 1
  <2>1. xnDepth' = xnDepth - 1 /\ UNCHANGED <<owner, phase, view>>
    BY <1>3 DEF ExitXn
  <2> QED
    BY <1>1, <1>3, <2>1, NestedInv DEF TypeOK
<1>4. CASE ~(xnDepth > 1) /\ view[t].modified
  <2>1. /\ xnDepth' = 0 /\ phase' = "open" /\ owner' = None
        /\ view' = [view EXCEPT ![t] = NoView]
    BY <1>1, <1>4 DEF ExitXn
  <2>2. locked /\ None \notin Tasks
    BY <1>1, OwnerAlone, TransactionAssumption
  <2>3. UnlockedIsCommitted'
    BY <1>1, <2>2 DEF UnlockedIsCommitted
  <2>4. xnDepth' \in 0..MaxDepth /\ phase' \in Phases
    BY <2>1, TransactionAssumption DEF Phases
  <2> QED
    BY <1>1, <2>1, <2>2, <2>3, <2>4, NoViewType, ControlStep DEF TypeOK
<1>5. CASE ~(xnDepth > 1) /\ ~view[t].modified
  <2>1. /\ xnDepth' = 0 /\ phase' = "clear" /\ owner' = t
        /\ view' = [view EXCEPT ![t] = view[t]]
    BY <1>1, <1>5 DEF ExitXn
  <2>2. UNCHANGED view
    BY <2>1, ViewType
  <2>3. Leads(0)
    <3>1. committed = [x \in DOMAIN committed |-> committed[x]] /\ config \in Configs
      BY <1>1 DEF TypeOK
    <3>2. (config.inFile => file = committed) /\ (config.inDram => dram = committed)
      BY <1>1, <1>2 DEF Contents
    <3> QED
      BY <3>1, <3>2, RestoresNothing DEF Leads
  <2>4. CopiesFine(t)'
    <3>1. Leads(0)'
      BY <1>1, <2>3 DEF Leads, dataspace, theLog
    <3> QED
      BY <2>1, <3>1 DEF CopiesFine
  <2>5. xnDepth' \in 0..MaxDepth /\ phase' \in Phases
    BY <2>1, TransactionAssumption DEF Phases
  <2> QED
    BY <1>1, <2>1, <2>2, <2>4, <2>5, PhaseStep DEF TypeOK
<1> QED
  BY <1>3, <1>4, <1>5

(***************************************************************************)
(* The reversal and the end.                                               *)
(***************************************************************************)
\* A task that terminates its transaction.
LEMMA TerminatingIs ==
    ASSUME TransactionInv, NEW t \in Tasks, NEW phases,
           Terminating(t, phases), "open" \notin phases
    PROVE  /\ owner = t /\ locked /\ view[t].attached /\ phase \in phases
           /\ CopiesFine(t) /\ \A u \in Tasks : view[u].puts = << >>
<1>1. owner = t /\ view[t].attached /\ phase \in phases /\ phase # "open"
  BY DEF Terminating
<1> QED
  BY <1>1, OwnerAlone, NoCalls DEF TransactionInv

\* When all entries are reversed, the copies are as the transaction found them.
LEMMA ReverseEndsInv ==
    ASSUME TransactionInv, NEW t \in Tasks, ReverseEnds(t)
    PROVE  TransactionInv'
<1>1. /\ owner = t /\ view[t].attached /\ phase = "reverse" /\ CopiesFine(t)
      /\ \A u \in Tasks : view[u].puts = << >>
      /\ undone = Whole /\ phase' = "clear" /\ undone' = 0
      /\ UNCHANGED <<config, dataspace, theLog, lock, view, committed>>
  BY TerminatingIs DEF ReverseEnds, Whole
<1>2. TypeOK /\ Whole \in Nat
  BY WholeType DEF TransactionInv
<1>3. Leads(0)
  <2>1. Leads(Whole - undone) /\ Whole - undone = 0
    BY <1>1, <1>2 DEF CopiesFine
  <2> QED
    BY <2>1
<1>4. CopiesFine(t)'
  <2>1. Leads(0)'
    BY <1>1, <1>3 DEF Leads, dataspace, theLog
  <2> QED
    BY <1>1, <2>1 DEF CopiesFine
<1>5. UNCHANGED <<locked, owner, xnDepth, xnCanceled>> /\ phase' \in Phases
  BY <1>1 DEF lock, Phases
<1> QED
  BY <1>1, <1>2, <1>4, <1>5, PhaseStep DEF TypeOK

\* Whoever unlocks the SDR leaves the copies as they were committed.
LEMMA UnlockInv ==
    ASSUME TransactionInv, NEW t \in Tasks, UnlockSdr(t)
    PROVE  TransactionInv'
<1>1. /\ owner = t /\ view[t].attached /\ phase = "unlock" /\ CopiesFine(t)
      /\ \A u \in Tasks : view[u].puts = << >>
      /\ owner' = None /\ locked' = FALSE /\ phase' = "open"
      /\ UNCHANGED <<config, dataspace, theLog, xnDepth, xnCanceled, undone,
                     view, committed>>
  BY TerminatingIs DEF UnlockSdr
<1>2. TypeOK /\ None \notin Tasks
  BY TransactionAssumption DEF TransactionInv
<1>3. Leads(0)
  BY <1>1 DEF CopiesFine
<1>4. (config.inFile => file = committed) /\ (config.inDram => dram = committed)
  BY <1>2, <1>3, RestoresNothing DEF Leads, TypeOK
<1>5. UnlockedIsCommitted'
  BY <1>1, <1>4 DEF UnlockedIsCommitted, dataspace
<1>6. /\ view[t] \in [attached : BOOLEAN, modified : BOOLEAN,
                      puts : {<< >>}, stage : Stages]
      /\ view' = [view EXCEPT ![t] = view[t]]
  BY <1>1, ViewType
<1>7. locked' \in BOOLEAN /\ phase' \in Phases
  BY <1>1 DEF Phases
<1> QED
  BY <1>1, <1>2, <1>5, <1>6, <1>7, ControlStep DEF TypeOK

\* One entry more is reversed, in both copies.
LEMMA ReverseEntryInv ==
    ASSUME TransactionInv, NEW t \in Tasks, ReverseEntry(t)
    PROVE  TransactionInv'
<1> DEFINE k == Whole - undone
<1>1. /\ owner = t /\ locked /\ view[t].attached /\ phase = "reverse" /\ CopiesFine(t)
      /\ \A u \in Tasks : view[u].puts = << >>
      /\ undone < Whole /\ undone' = undone + 1
      /\ UNCHANGED <<config, theLog, lock, phase, view, committed>>
  BY TerminatingIs DEF ReverseEntry, Whole
<1>2. TypeOK /\ LogFine /\ LockFine /\ Leads(Whole) /\ Whole \in Nat
  BY WholeType DEF TransactionInv
<1>3. undone \in 0..Whole /\ Leads(k) /\ k \in 1..Whole /\ logEntries[k] = k
  <2>1. undone \in 0..Whole /\ Leads(k)
    BY <1>1 DEF CopiesFine
  <2>2. k \in 1..Whole
    BY <1>1, <1>2, <2>1
  <2> QED
    BY <1>2, <2>1, <2>2 DEF LogFine
<1>4. /\ file' = IF config.inFile THEN Undone(file, k) ELSE file
      /\ dram' = IF config.inDram THEN Undone(dram, k) ELSE dram
  BY <1>3 DEF ReverseEntry, Undone, Whole
<1>5. k \in Nat /\ k > 0 /\ k - 1 = Whole - (undone + 1)
  BY <1>1, <1>2, <1>3
<1>6. ASSUME NEW ds, Restores(log, k, ds, committed), Restores(log, Whole, ds, committed)
      PROVE  /\ Restores(log, k - 1, Undone(ds, k), committed)
             /\ Restores(log, Whole, Undone(ds, k), committed)
  <2>1. Restores(log, k - 1, Undone(ds, k), committed)
    BY <1>5, <1>6, RestoresReversed DEF Undone
  <2>2. Restores(log, Whole, Undone(ds, k), committed)
    BY <1>2, <1>3, <1>6, RestoresChanged DEF Undone
  <2> QED
    BY <2>1, <2>2
<1>7. /\ config.inFile => /\ Restores(log, k - 1, file', committed)
                          /\ Restores(log, Whole, file', committed)
      /\ config.inDram => /\ Restores(log, k - 1, dram', committed)
                          /\ Restores(log, Whole, dram', committed)
  BY <1>2, <1>3, <1>4, <1>6 DEF Leads
<1> HIDE DEF k
<1>8. /\ log' = log /\ logEntries' = logEntries /\ Whole' = Whole
      /\ UNCHANGED <<locked, owner, xnDepth, xnCanceled>>
  BY <1>1 DEF theLog, lock, Whole
<1>9. Leads(Whole)'
  BY <1>1, <1>7, <1>8 DEF Leads
<1>10. CopiesFine(t)'
  <2>1. undone' \in 0..Whole' /\ Whole' - undone' = k - 1
    BY <1>1, <1>2, <1>3, <1>5, <1>8
  <2>2. Leads(Whole - undone)'
    BY <1>1, <1>7, <1>8, <2>1 DEF Leads
  <2> QED
    BY <1>1, <2>1, <2>2 DEF CopiesFine
<1>11. TypeOK'
  <2>1. undone' \in Nat
    BY <1>1, <1>3
  <2> QED
    BY <1>1, <1>2, <1>8, <2>1 DEF TypeOK
<1>12. LogFine' /\ LockFine' /\ \A u \in Tasks : PutFine(u)'
  <2>1. (\A u \in Tasks : \A stage : Putting(u, stage)' <=> Putting(u, stage))
        /\ (Running' <=> Running)
    BY <1>1 DEF Putting, Running
  <2>2. LogFine'
    BY <1>2, <1>8, <2>1 DEF LogFine
  <2>3. LockFine'
    BY <1>1, <1>2, <1>8 DEF LockFine, UnlockedIsCommitted
  <2>4. \A u \in Tasks : PutFine(u)'
    BY <1>1 DEF PutFine, Putting
  <2> QED
    BY <2>2, <2>3, <2>4
<1>13. ASSUME NEW u \in Tasks, view'[u].attached, owner' = u
       PROVE  CopiesFine(u)'
  <2>1. u = t
    BY <1>1, <1>8, <1>13
  <2> QED
    BY <2>1, <1>10
<1> QED
  BY <1>9, <1>11, <1>12, <1>13 DEF TransactionInv

\* The log is truncated: the transaction has ended, and what its copies are then
\* is committed.
LEMMA ClearInv ==
    ASSUME TransactionInv, NEW t \in Tasks, ClearTransaction(t)
    PROVE  TransactionInv'
<1>1. /\ owner = t /\ locked /\ view[t].attached /\ phase \in {"commit", "clear"}
      /\ CopiesFine(t) /\ \A u \in Tasks : view[u].puts = << >>
      /\ log' = << >> /\ logEntries' = << >> /\ phase' = "unlock"
      /\ committed' = IF phase = "commit" THEN Contents ELSE committed
      /\ UNCHANGED <<config, dataspace, lock, undone, view>>
  BY TerminatingIs DEF ClearTransaction
<1>2. TypeOK /\ LogFine /\ LockFine /\ Leads(Whole)
  BY DEF TransactionInv
<1>3. (config.inFile => file = committed') /\ (config.inDram => dram = committed')
  <2>1. CASE phase = "commit"
    <3>1. config.inFile /\ config.inDram => file = dram
      BY <1>1, <2>1, CopiesEqual
    <3> QED
      BY <1>1, <2>1, <3>1 DEF Contents
  <2>2. CASE phase = "clear"
    <3>1. Leads(0)
      BY <1>1, <2>2 DEF CopiesFine
    <3>2. committed' = committed
      BY <1>1, <2>2
    <3> QED
      BY <1>2, <3>1, <3>2, RestoresNothing DEF Leads, TypeOK
  <2> QED
    BY <1>1, <2>1, <2>2
<1>4. committed' = [x \in DOMAIN committed' |-> committed'[x]]
  <2>1. CASE phase = "commit"
    <3>1. config.inFile \/ config.inDram
      BY <1>2, TransactionAssumption DEF TypeOK
    <3>2. /\ config.inFile => file = [x \in DOMAIN committed |-> file[x]]
          /\ config.inDram => dram = [x \in DOMAIN committed |-> dram[x]]
      BY <1>2 DEF Leads, Restores
    <3>3. committed' = file \/ committed' = dram
      BY <1>1, <2>1 DEF Contents
    <3>4. CASE config.inDram
      <4>1. committed' = dram /\ dram = [x \in DOMAIN committed |-> dram[x]]
        BY <3>2, <3>4, <1>3
      <4> QED
        BY <4>1
    <3>5. CASE config.inFile
      <4>1. committed' = file /\ file = [x \in DOMAIN committed |-> file[x]]
        BY <3>2, <3>5, <1>3
      <4> QED
        BY <4>1
    <3> QED
      BY <3>1, <3>4, <3>5
  <2>2. CASE phase = "clear"
    BY <1>1, <1>2, <2>2 DEF TypeOK
  <2> QED
    BY <1>1, <2>1, <2>2
<1>5. Whole' = 0 /\ Len(log') = 0
  BY <1>1 DEF Whole
<1>6. /\ config' = config /\ file' = file /\ dram' = dram /\ view' = view
      /\ UNCHANGED <<locked, owner, xnDepth, xnCanceled, undone>>
  BY <1>1 DEF dataspace, lock
<1>7. Leads(0)'
  BY <1>3, <1>4, <1>6, RestoresNothing DEF Leads
<1>8. TypeOK'
  <2>1. \E S : log' \in Seq(S)
    BY <1>1
  <2>2. logEntries' \in Seq(Nat) /\ phase' \in Phases
    BY <1>1 DEF Phases
  <2> QED
    BY <1>2, <1>4, <1>6, <2>1, <2>2 DEF TypeOK
<1>9. LogFine' /\ LockFine' /\ \A u \in Tasks : PutFine(u)'
  <2>1. \A u \in Tasks : \A stage : ~Putting(u, stage)'
    BY <1>1, <1>6 DEF Putting
  <2>2. LogFine'
    BY <1>5, <2>1 DEF LogFine
  <2>3. LockFine'
    BY <1>1, <1>2, <1>6 DEF LockFine, UnlockedIsCommitted
  <2>4. \A u \in Tasks : PutFine(u)'
    BY <2>1 DEF PutFine
  <2> QED
    BY <2>2, <2>3, <2>4
<1>10. \A u \in Tasks : CopiesFine(u)'
  BY <1>1, <1>7 DEF CopiesFine
<1>11. Leads(Whole)'
  BY <1>5, <1>7 DEF Leads
<1> QED
  BY <1>8, <1>9, <1>10, <1>11 DEF TransactionInv

(***************************************************************************)
(* The puts of a call.                                                     *)
(***************************************************************************)
\* A step of a call keeps the invariant if the log, the copies and the task's
\* own put are fine.
LEMMA PutStep ==
    ASSUME TransactionInv, NEW t \in Tasks, owner = t, phase = "open",
           view[t].attached,
           UNCHANGED <<config, lock, phase, undone, committed>>,
           NEW S, NEW v \in [attached : {TRUE}, modified : BOOLEAN,
                             puts : S, stage : Stages],
           view' = [view EXCEPT ![t] = v],
           NEW L, log' \in Seq(L), logEntries' \in Seq(Nat),
           Len(log') = IF v.puts # << >> /\ v.stage = "data"
                       THEN Whole' + 1 ELSE Whole',
           \A i \in 1..Whole' : logEntries'[i] = i /\ log'[i].whole,
           Len(log') # Whole' => ~log'[Len(log')].whole,
           Leads(Whole)', PutFine(t)', CopiesFine(t)'
    PROVE  TransactionInv'
<1>1. PICK R : view \in [Tasks -> [attached : BOOLEAN, modified : BOOLEAN,
                                   puts : R, stage : Stages]]
  BY DEF TransactionInv, TypeOK
<1>2. view' \in [Tasks -> [attached : BOOLEAN, modified : BOOLEAN,
                           puts : R \cup S, stage : Stages]]
  <2>1. v \in [attached : BOOLEAN, modified : BOOLEAN,
               puts : R \cup S, stage : Stages]
    OBVIOUS
  <2>2. \A u \in Tasks : view[u] \in [attached : BOOLEAN, modified : BOOLEAN,
                                      puts : R \cup S, stage : Stages]
    BY <1>1
  <2> QED
    BY <1>1, <2>1, <2>2
<1>3. /\ view'[t] = v /\ v.attached
      /\ \A u \in Tasks \ {t} : view'[u] = view[u] /\ view[u].puts = << >>
  BY <1>1, OwnerAlone
<1>4. \A u \in Tasks \ {t} : \A stage : ~Putting(u, stage)'
  BY <1>3 DEF Putting
<1>5. TypeOK /\ LockFine /\ locked
  BY OwnerAlone DEF TransactionInv
<1>6. /\ config' = config /\ phase' = phase /\ undone' = undone
      /\ committed' = committed
      /\ UNCHANGED <<locked, owner, xnDepth, xnCanceled>>
  BY DEF lock
<1>7. TypeOK'
  <2>1. \E X : log' \in Seq(X)
    OBVIOUS
  <2> QED
    BY <1>2, <1>5, <1>6, <2>1, ZenonT(60) DEF TypeOK
<1>8. LogFine'
  <2>1. (\E u \in Tasks : Putting(u, "data"))' <=> v.puts # << >> /\ v.stage = "data"
    BY <1>3, <1>4 DEF Putting
  <2>2. Whole' = Len(log') \/ Whole' = Len(log') - 1
    <3>1. ASSUME NEW n \in Nat, NEW m, m = n + 1 \/ m = n
          PROVE  n = m \/ n = m - 1
      BY <3>1
    <3>2. Whole' \in Nat
      BY DEF Whole
    <3>3. Len(log') = Whole' + 1 \/ Len(log') = Whole'
      OBVIOUS
    <3> QED
      BY <3>1, <3>2, <3>3
  <2>3. Len(log') = IF (\E u \in Tasks : Putting(u, "data"))'
                    THEN Whole' + 1 ELSE Whole'
    BY <2>1
  <2> QED
    BY <2>2, <2>3 DEF LogFine
<1>9. LockFine'
  BY <1>3, <1>5, <1>6 DEF LockFine, UnlockedIsCommitted
<1>10. ASSUME NEW u \in Tasks
       PROVE  PutFine(u)' /\ (view'[u].attached /\ owner' = u => CopiesFine(u)')
  <2>1. CASE u = t
    BY <2>1
  <2>2. CASE u # t
    BY <2>2, <1>4, <1>6 DEF PutFine
  <2> QED
    BY <2>1, <2>2
<1> QED
  BY <1>7, <1>8, <1>9, <1>10 DEF TransactionInv

\* What holds of a task in the middle of a put.
LEMMA PuttingIs ==
    ASSUME ProtectedConfigs, TransactionInv, NEW t \in Tasks, NEW stage,
           Putting(t, stage)
    PROVE  /\ owner = t /\ phase = "open" /\ view[t].attached
           /\ view[t].puts # << >> /\ view[t].stage = stage
           /\ \A u \in Tasks \ {t} : view[u].puts = << >>
           /\ Len(log) = IF stage = "data" THEN Whole + 1 ELSE Whole
           /\ PutFine(t) /\ CopiesFine(t)
           /\ config.reversible /\ (config.inFile \/ config.inDram)
           /\ \E S : view[t] \in [attached : {TRUE}, modified : BOOLEAN,
                                  puts : S, stage : Stages]
<1>1. view[t].puts # << >> /\ view[t].stage = stage /\ TypeOK /\ LogFine /\ LockFine
  BY DEF Putting, TransactionInv
<1>2. owner = t /\ phase = "open" /\ view[t].attached
  BY <1>1 DEF LockFine
<1>3. \A u \in Tasks \ {t} : view[u].puts = << >>
  BY <1>2, OwnerAlone
<1>4. Len(log) = IF stage = "data" THEN Whole + 1 ELSE Whole
  <2>1. Running
    BY <1>2 DEF Running
  <2>2. (\E u \in Tasks : Putting(u, "data")) <=> stage = "data"
    BY <1>1, <1>3 DEF Putting
  <2> QED
    BY <1>1, <2>1, <2>2 DEF LogFine
<1>5. config.reversible /\ (config.inFile \/ config.inDram)
  BY <1>1, TransactionAssumption DEF TypeOK, ProtectedConfigs
<1>6. \E S : view[t] \in [attached : {TRUE}, modified : BOOLEAN,
                          puts : S, stage : Stages]
  <2>1. PICK S : view \in [Tasks -> [attached : BOOLEAN, modified : BOOLEAN,
                                     puts : S, stage : Stages]]
    BY <1>1 DEF TypeOK
  <2>2. view[t] \in [attached : BOOLEAN, modified : BOOLEAN, puts : S, stage : Stages]
    BY <2>1
  <2>3. view[t] \in [attached : {TRUE}, modified : BOOLEAN, puts : S, stage : Stages]
    BY <2>2, <1>2
  <2> QED
    BY <2>3
<1> QED
  BY <1>1, <1>2, <1>3, <1>4, <1>5, <1>6 DEF TransactionInv

\* A call begins.
LEMMA StartInv ==
    ASSUME ProtectedConfigs, TransactionInv, NEW t \in Tasks, StartCall(t)
    PROVE  TransactionInv'
<1>1. /\ owner = t /\ phase = "open" /\ view[t].attached /\ view[t].puts = << >>
      /\ \A u \in Tasks : view[u].puts = << >>
      /\ UNCHANGED <<config, dataspace, theLog, lock, phase, undone, committed>>
  BY NoCalls DEF StartCall, Ready, InTransaction
<1>2. PICK puts : view' = [view EXCEPT ![t].puts = puts, ![t].stage = FirstStage]
  BY DEF StartCall
<1>3. TypeOK /\ LogFine /\ Leads(Whole) /\ Whole \in Nat
  BY WholeType DEF TransactionInv
<1>4. FirstStage = "control"
  BY <1>3 DEF FirstStage, TypeOK, ProtectedConfigs
<1> DEFINE v == [view[t] EXCEPT !.puts = puts, !.stage = "control"]
<1>5. /\ v \in [attached : {TRUE}, modified : BOOLEAN, puts : {puts}, stage : Stages]
      /\ v.stage = "control"
  <2>1. view[t] \in [attached : BOOLEAN, modified : BOOLEAN,
                     puts : {view[t].puts}, stage : Stages]
    BY ViewType
  <2> QED
    BY <1>1, <2>1 DEF Stages
<1>6. view' = [view EXCEPT ![t] = v]
  BY <1>2, <1>4
<1> HIDE DEF v
<1>7. view'[t] = v
  BY <1>6, ViewType
<1>8. \A stage : Putting(t, stage)' => stage = "control"
  BY <1>5, <1>7 DEF Putting
<1>9. PutFine(t)'
  BY <1>8 DEF PutFine
<1>10. /\ config' = config /\ file' = file /\ dram' = dram /\ log' = log
       /\ logEntries' = logEntries /\ committed' = committed /\ Whole' = Whole
  BY <1>1 DEF dataspace, theLog, Whole
<1>11. CopiesFine(t)'
  <2>1. config.inFile /\ config.inDram => file = dram
    BY <1>1, CopiesEqual
  <2> QED
    BY <1>1, <1>8, <1>10, <2>1 DEF CopiesFine
<1>12. Len(log) = Whole
  <2>1. Running /\ ~ \E u \in Tasks : Putting(u, "data")
    BY <1>1 DEF Running, Putting
  <2> QED
    BY <1>3, <2>1 DEF LogFine
<1>13. Leads(Whole)'
  BY <1>3, <1>10 DEF Leads
<1>14. PICK L : log \in Seq(L)
  BY <1>3 DEF TypeOK
<1>15. /\ log' \in Seq(L) /\ logEntries' \in Seq(Nat)
       /\ Len(log') = Whole'
       /\ \A i \in 1..Whole' : logEntries'[i] = i /\ log'[i].whole
  BY <1>3, <1>10, <1>12, <1>14 DEF TypeOK, LogFine
<1> QED
  BY <1>1, <1>5, <1>6, <1>9, <1>11, <1>13, <1>15, PutStep

\* Only the entries up to the n-th one matter.
LEMMA RestoresSame ==
    ASSUME NEW l, NEW m, NEW n \in Nat, NEW ds, NEW c, Restores(l, n, ds, c),
           \A i \in 1..n : m[i] = l[i]
    PROVE  Restores(m, n, ds, c)
<1>1. ASSUME NEW x \in DOMAIN c, NEW i \in 1..n, m[i].addr = x,
             \A j \in 1..(i - 1) : m[j].addr # x
      PROVE  m[i].old = c[x]
  <2>1. \A j \in 1..(i - 1) : l[j].addr # x
    BY <1>1
  <2> QED
    BY <1>1, <2>1 DEF Restores
<1> QED
  BY <1>1 DEF Restores

\* An entry of the log is begun.
LEMMA LogControlInv ==
    ASSUME ProtectedConfigs, TransactionInv, NEW t \in Tasks, LogControl(t)
    PROVE  TransactionInv'
<1> DEFINE e == [addr |-> PutAddress(t), old |-> PutContent(t), whole |-> FALSE]
           v == [view[t] EXCEPT !.stage = "data"]
<1>1. /\ Putting(t, "control") /\ log' = Append(log, e)
      /\ view' = [view EXCEPT ![t].stage = "data"]
      /\ UNCHANGED <<config, dataspace, logEntries, lock, phase, undone, committed>>
  BY DEF LogControl
<1>2. /\ owner = t /\ phase = "open" /\ view[t].attached /\ view[t].puts # << >>
      /\ Len(log) = Whole /\ CopiesFine(t)
  BY <1>1, PuttingIs
<1>3. PICK S : view[t] \in [attached : {TRUE}, modified : BOOLEAN,
                            puts : S, stage : Stages]
  BY <1>1, PuttingIs
<1>4. /\ view' = [view EXCEPT ![t] = v] /\ v.stage = "data" /\ v.puts # << >>
      /\ v \in [attached : {TRUE}, modified : BOOLEAN, puts : S, stage : Stages]
  BY <1>1, <1>2, <1>3 DEF Stages
<1> HIDE DEF v
<1>5. view'[t] = v
  BY <1>4, ViewType
<1>6. TypeOK /\ LogFine /\ Leads(Whole) /\ Whole \in Nat
  BY WholeType DEF TransactionInv
<1>7. PICK L : log \in Seq(L)
  BY <1>6 DEF TypeOK
<1>8. e.whole = FALSE
  OBVIOUS
<1> HIDE DEF e
<1>9. /\ log' \in Seq(L \cup {e}) /\ Len(log') = Whole + 1 /\ log'[Whole + 1] = e
      /\ \A i \in 1..Whole : log'[i] = log[i]
  BY <1>1, <1>2, <1>6, <1>7
<1>10. /\ config' = config /\ file' = file /\ dram' = dram /\ Whole' = Whole
       /\ logEntries' = logEntries /\ committed' = committed
  BY <1>1 DEF dataspace, Whole
<1>11. /\ \A i \in 1..Whole' : logEntries'[i] = i /\ log'[i].whole
       /\ ~log'[Len(log')].whole /\ logEntries' \in Seq(Nat)
  BY <1>6, <1>8, <1>9, <1>10 DEF LogFine, TypeOK
<1>12. Leads(Whole)'
  BY <1>6, <1>9, <1>10, RestoresSame DEF Leads
<1>13. PutFine(t)'
  BY <1>4, <1>5 DEF PutFine, Putting
<1>14. CopiesFine(t)'
  <2>1. ~Putting(t, "dram") /\ ~Putting(t, "dram")' /\ phase' = "open"
    BY <1>1, <1>2, <1>4, <1>5 DEF Putting
  <2> QED
    BY <1>2, <1>10, <2>1 DEF CopiesFine
<1>15. /\ Len(log') = IF v.puts # << >> /\ v.stage = "data"
                      THEN Whole' + 1 ELSE Whole'
       /\ Len(log') # Whole' => ~log'[Len(log')].whole
  BY <1>4, <1>9, <1>10, <1>11
<1> HIDE DEF e
<1>16. log' \in Seq(L \cup {e}) /\ logEntries' \in Seq(Nat)
       /\ \A i \in 1..Whole' : logEntries'[i] = i /\ log'[i].whole
  BY <1>9, <1>11
<1> QED
  BY <1>1, <1>2, <1>4, <1>12, <1>13, <1>14, <1>15, <1>16, PutStep

\* The entry is completed with what is in the dataspace still.
LEMMA LogDataInv ==
    ASSUME ProtectedConfigs, TransactionInv, NEW t \in Tasks, LogData(t)
    PROVE  TransactionInv'
<1> DEFINE e == [addr |-> PutAddress(t), whole |-> TRUE,
                 old |-> Contents[PutAddress(t)]]
           stage == IF config.inFile THEN "file" ELSE "dram"
           v == [view[t] EXCEPT !.stage = stage]
<1>1. /\ Putting(t, "data") /\ log' = [log EXCEPT ![Len(log)] = e]
      /\ logEntries' = Append(logEntries, Len(log))
      /\ view' = [view EXCEPT ![t].stage = stage]
      /\ UNCHANGED <<config, dataspace, lock, phase, undone, committed>>
  BY DEF LogData
<1>2. /\ owner = t /\ phase = "open" /\ view[t].attached /\ view[t].puts # << >>
      /\ Len(log) = Whole + 1 /\ CopiesFine(t) /\ (config.inFile \/ config.inDram)
      /\ view[t].stage = "data"
  BY <1>1, PuttingIs
<1>3. PICK S : view[t] \in [attached : {TRUE}, modified : BOOLEAN,
                            puts : S, stage : Stages]
  BY <1>1, PuttingIs
<1>4. stage \in {"file", "dram"} /\ (stage = "file" <=> config.inFile)
  OBVIOUS
<1> HIDE DEF stage
<1>5. /\ view' = [view EXCEPT ![t] = v] /\ v.stage = stage /\ v.puts = view[t].puts
      /\ v \in [attached : {TRUE}, modified : BOOLEAN, puts : S, stage : Stages]
  BY <1>1, <1>2, <1>3, <1>4 DEF Stages
<1> HIDE DEF v
<1>6. view'[t] = v
  BY <1>5, ViewType
<1>7. TypeOK /\ LogFine /\ Leads(Whole) /\ Whole \in Nat
  BY WholeType DEF TransactionInv
<1>8. PICK L : log \in Seq(L)
  BY <1>7 DEF TypeOK
<1>9. e.whole = TRUE /\ e.addr = PutAddress(t) /\ e.old = Contents[PutAddress(t)]
  OBVIOUS
<1> HIDE DEF e
<1>10. /\ log' \in Seq(L \cup {e}) /\ Len(log') = Whole + 1 /\ log'[Whole + 1] = e
       /\ \A i \in 1..Whole : log'[i] = log[i]
  BY <1>1, <1>2, <1>7, <1>8
<1>11. /\ config' = config /\ file' = file /\ dram' = dram /\ committed' = committed
       /\ phase' = "open"
  BY <1>1, <1>2 DEF dataspace
<1>12. logEntries \in Seq(Nat) /\ Len(logEntries) = Whole
  BY <1>7 DEF TypeOK, Whole
<1>13. /\ logEntries' \in Seq(Nat) /\ Whole' = Whole + 1
       /\ logEntries'[Whole + 1] = Whole + 1
       /\ \A i \in 1..Whole : logEntries'[i] = logEntries[i]
  BY <1>1, <1>2, <1>7, <1>12 DEF Whole
<1>14. \A i \in 1..Whole' : logEntries'[i] = i /\ log'[i].whole
  <2>1. \A i \in 1..Whole : logEntries[i] = i /\ log[i].whole
    BY <1>7 DEF LogFine
  <2>2. ASSUME NEW i \in 1..Whole'
        PROVE  i = Whole + 1 \/ i \in 1..Whole
    BY <1>7, <1>13
  <2> QED
    BY <2>1, <2>2, <1>9, <1>10, <1>13
<1>15. config.inFile /\ config.inDram => file = dram
  <2>1. ~Putting(t, "dram")
    BY <1>2 DEF Putting
  <2> QED
    BY <1>2, <2>1 DEF CopiesFine
<1>16. ASSUME NEW ds, Restores(log, Whole, ds, committed),
              e.old = ds[e.addr]
       PROVE  Restores(log', Whole + 1, ds, committed)
  BY <1>7, <1>10, <1>16, RestoresLogged
<1>17. /\ config.inFile => e.old = file[e.addr]
       /\ config.inDram => e.old = dram[e.addr]
  BY <1>9, <1>15 DEF Contents
<1>18. Leads(Whole)'
  BY <1>7, <1>11, <1>13, <1>16, <1>17 DEF Leads
<1>19. PutAddress(t)' = PutAddress(t)
  BY <1>5, <1>6 DEF PutAddress
<1>20. PutFine(t)'
  <2>1. Whole' >= 1
    BY <1>7, <1>13
  <2>2. log'[Whole'].addr = PutAddress(t)'
    BY <1>9, <1>10, <1>13, <1>19
  <2>3. /\ Putting(t, "file")' => config'.inFile
        /\ Putting(t, "dram")' => config'.inDram
    BY <1>2, <1>4, <1>5, <1>6, <1>11 DEF Putting
  <2> QED
    BY <2>1, <2>2, <2>3 DEF PutFine
<1>21. CopiesFine(t)'
  <2>1. Putting(t, "dram")' => ~config.inFile
    BY <1>4, <1>5, <1>6 DEF Putting
  <2> QED
    BY <1>11, <1>15, <2>1 DEF CopiesFine
<1>22. v.stage # "data"
  BY <1>4, <1>5
<1>23. Len(log') = Whole'
  BY <1>10, <1>13
<1> QED
  BY <1>1, <1>2, <1>5, <1>10, <1>13, <1>14, <1>18, <1>20, <1>21, <1>22, <1>23, PutStep

\* What the task does after the last write of a put.
Written(v) == [AfterPut(v) EXCEPT !.modified = TRUE]

\* It begins the next put, if there is one.
LEMMA AfterPutType ==
    ASSUME ProtectedConfigs, TransactionInv,
           NEW S, NEW v \in [attached : {TRUE}, modified : BOOLEAN,
                             puts : S, stage : Stages]
    PROVE  /\ Written(v) \in [attached : {TRUE}, modified : BOOLEAN,
                               puts : {Written(v).puts}, stage : Stages]
           /\ Written(v).stage \in {"none", "control"}
<1>1. FirstStage = "control"
  BY DEF TransactionInv, TypeOK, ProtectedConfigs, FirstStage
<1> QED
  BY <1>1 DEF Written, AfterPut, Stages

\* The next write of a put, where there is one, or the next put.
Follows(t, stage, v) ==
    IF stage = "file" /\ config.inDram
    THEN v.stage = "dram" /\ v.puts = view[t].puts ELSE v.stage \in {"none", "control"}

\* A write to one copy or the other, of what has been logged.
LEMMA WriteStep ==
    ASSUME ProtectedConfigs, TransactionInv, NEW t \in Tasks,
           NEW stage \in {"file", "dram"}, Putting(t, stage),
           UNCHANGED <<config, theLog, lock, phase, undone, committed>>,
           file' = IF stage = "file"
                   THEN [file EXCEPT ![PutAddress(t)] = PutContent(t)] ELSE file,
           dram' = IF stage = "dram"
                   THEN [dram EXCEPT ![PutAddress(t)] = PutContent(t)] ELSE dram,
           NEW S, NEW v \in [attached : {TRUE}, modified : BOOLEAN,
                             puts : S, stage : Stages],
           view' = [view EXCEPT ![t] = v],
           Follows(t, stage, v)
    PROVE  TransactionInv'
<1>1. /\ owner = t /\ phase = "open" /\ view[t].attached /\ view[t].puts # << >>
      /\ view[t].stage = stage /\ Len(log) = Whole /\ PutFine(t) /\ CopiesFine(t)
  BY PuttingIs
<1>2. TypeOK /\ LogFine /\ Leads(Whole) /\ Whole \in Nat
  BY WholeType DEF TransactionInv
<1>3. /\ config' = config /\ log' = log /\ logEntries' = logEntries
      /\ committed' = committed /\ phase' = "open" /\ Whole' = Whole
  BY <1>1 DEF theLog, Whole
<1>4. Whole \in 1..Whole /\ log[Whole].addr = PutAddress(t)
  BY <1>1, <1>2 DEF PutFine
<1>5. ASSUME NEW ds, Restores(log, Whole, ds, committed)
      PROVE  Restores(log, Whole, [ds EXCEPT ![PutAddress(t)] = PutContent(t)], committed)
  <2>1. Restores(log, Whole, [ds EXCEPT ![log[Whole].addr] = PutContent(t)], committed)
    BY <1>2, <1>4, <1>5, RestoresChanged
  <2> QED
    BY <1>4, <2>1
<1>6. Leads(Whole)'
  BY <1>2, <1>3, <1>5 DEF Leads
<1>7. view'[t] = v
  BY ViewType
<1>8. PutFine(t)'
  <2>1. CASE v.stage \in {"none", "control"}
    BY <1>7, <2>1 DEF PutFine, Putting
  <2>2. CASE stage = "file" /\ config.inDram /\ v.stage = "dram"
             /\ v.puts = view[t].puts
    <3>1. PutAddress(t)' = PutAddress(t)
      BY <1>7, <2>2 DEF PutAddress
    <3>2. Whole' >= 1
      BY <1>2, <1>3, <1>4
    <3> QED
      BY <1>3, <1>4, <1>7, <2>2, <3>1, <3>2 DEF PutFine, Putting
  <2> QED
    BY <2>1, <2>2 DEF Follows
<1>9. CopiesFine(t)'
  <2>1. SUFFICES ASSUME config.inFile, config.inDram
                 PROVE  file' = IF Putting(t, "dram")'
                                THEN [dram' EXCEPT ![PutAddress(t)'] = PutContent(t)']
                                ELSE dram'
    BY <1>3 DEF CopiesFine
  <2>2. CASE stage = "file"
    <3>1. v.stage = "dram" /\ v.puts = view[t].puts /\ ~Putting(t, "dram")
      BY <1>1, <2>1, <2>2 DEF Putting, Follows
    <3>2. file = dram
      BY <1>1, <2>1, <3>1 DEF CopiesFine
    <3>3. /\ PutAddress(t)' = PutAddress(t) /\ PutContent(t)' = PutContent(t)
          /\ Putting(t, "dram")'
      BY <1>1, <1>7, <3>1 DEF PutAddress, PutContent, Putting
    <3> QED
      BY <2>2, <3>2, <3>3
  <2>3. CASE stage = "dram"
    <3>1. Putting(t, "dram")
      BY <2>3
    <3>2. file = [dram EXCEPT ![PutAddress(t)] = PutContent(t)]
      BY <1>1, <2>1, <3>1 DEF CopiesFine
    <3>3. ~Putting(t, "dram")'
      BY <1>7, <2>3 DEF Putting, Follows
    <3> QED
      BY <2>3, <3>2, <3>3
  <2> QED
    BY <2>2, <2>3
<1>10. PICK L : log \in Seq(L)
  BY <1>2 DEF TypeOK
<1>11. /\ log' \in Seq(L) /\ logEntries' \in Seq(Nat) /\ Len(log') = Whole'
       /\ \A i \in 1..Whole' : logEntries'[i] = i /\ log'[i].whole
  BY <1>1, <1>2, <1>3, <1>10 DEF TypeOK, LogFine
<1>12. v.stage # "data"
  BY DEF Follows
<1> QED
  BY <1>1, <1>6, <1>8, <1>9, <1>11, <1>12, PutStep

\* The writes.
LEMMA WriteInv ==
    ASSUME ProtectedConfigs, TransactionInv, NEW t \in Tasks,
           WriteFile(t) \/ WriteDram(t)
    PROVE  TransactionInv'
<1>1. Putting(t, "file") \/ Putting(t, "dram")
  BY DEF WriteFile, WriteDram
<1>2. PICK S : view[t] \in [attached : {TRUE}, modified : BOOLEAN,
                            puts : S, stage : Stages]
  BY <1>1, PuttingIs
<1> DEFINE w == [AfterPut(view[t]) EXCEPT !.modified = TRUE]
           d == [view[t] EXCEPT !.stage = "dram"]
<1>3. PICK R : /\ w \in [attached : {TRUE}, modified : BOOLEAN, puts : R, stage : Stages]
               /\ w.stage \in {"none", "control"}
  <2>1. /\ w \in [attached : {TRUE}, modified : BOOLEAN, puts : {w.puts}, stage : Stages]
        /\ w.stage \in {"none", "control"}
    BY <1>2, AfterPutType DEF Written
  <2> HIDE DEF w
  <2> QED
    BY <2>1
<1>4. /\ d \in [attached : {TRUE}, modified : BOOLEAN, puts : S, stage : Stages]
      /\ d.stage = "dram" /\ d.puts = view[t].puts
  BY <1>2 DEF Stages
<1> HIDE DEF w, d
<1>5. CASE WriteDram(t)
  <2>1. /\ Putting(t, "dram") /\ view' = [view EXCEPT ![t] = w]
        /\ dram' = [dram EXCEPT ![PutAddress(t)] = PutContent(t)]
        /\ UNCHANGED <<config, file, theLog, lock, phase, undone, committed>>
    BY <1>5 DEF WriteDram, w
  <2>2. /\ file' = IF "dram" = "file"
                  THEN [file EXCEPT ![PutAddress(t)] = PutContent(t)] ELSE file
        /\ dram' = IF "dram" = "dram"
                  THEN [dram EXCEPT ![PutAddress(t)] = PutContent(t)] ELSE dram
    BY <2>1
  <2>3. Follows(t, "dram", w)
    BY <1>3 DEF Follows
  <2> QED
    BY <1>3, <2>1, <2>2, <2>3, WriteStep
<1>6. CASE WriteFile(t) /\ config.inDram
  <2>1. /\ Putting(t, "file") /\ view' = [view EXCEPT ![t] = d]
        /\ file' = [file EXCEPT ![PutAddress(t)] = PutContent(t)]
        /\ UNCHANGED <<config, dram, theLog, lock, phase, undone, committed>>
    BY <1>6 DEF WriteFile, d
  <2>2. Follows(t, "file", d)
    BY <1>4, <1>6 DEF Follows
  <2> QED
    BY <1>4, <2>1, <2>2, WriteStep
<1>7. CASE WriteFile(t) /\ ~config.inDram
  <2>1. /\ Putting(t, "file") /\ view' = [view EXCEPT ![t] = w]
        /\ file' = [file EXCEPT ![PutAddress(t)] = PutContent(t)]
        /\ UNCHANGED <<config, dram, theLog, lock, phase, undone, committed>>
    BY <1>7 DEF WriteFile, w
  <2>2. Follows(t, "file", w)
    BY <1>3, <1>7 DEF Follows
  <2>3. /\ file' = IF "file" = "file"
                  THEN [file EXCEPT ![PutAddress(t)] = PutContent(t)] ELSE file
        /\ dram' = IF "file" = "dram"
                  THEN [dram EXCEPT ![PutAddress(t)] = PutContent(t)] ELSE dram
    BY <2>1
  <2> QED
    BY <1>3, <2>1, <2>2, <2>3, WriteStep
<1> QED
  BY <1>5, <1>6, <1>7

(***************************************************************************)
(* Killed tasks, and what is done about them.                              *)
(***************************************************************************)
\* While no task is attached, the copies need only be led back by the log.
LEMMA StoppedStep ==
    ASSUME TransactionInv, UNCHANGED <<config, theLog, committed>>,
           NEW S, view' \in [Tasks -> [attached : BOOLEAN, modified : BOOLEAN,
                                       puts : S, stage : Stages]],
           \A u \in Tasks : view'[u].puts = << >> /\ ~view'[u].attached,
           locked' \in BOOLEAN, owner' \in Tasks \cup {None}, phase' \in Phases,
           xnDepth' \in 0..MaxDepth, xnCanceled' \in BOOLEAN, undone' \in Nat,
           ~locked' => owner' = None /\ phase' = "open",
           UnlockedIsCommitted', Leads(Whole)'
    PROVE  TransactionInv'
<1>1. TypeOK /\ LogFine
  BY DEF TransactionInv
<1>2. /\ config' = config /\ log' = log /\ logEntries' = logEntries
      /\ committed' = committed /\ Whole' = Whole
  BY DEF theLog, Whole
<1>3. TypeOK'
  BY <1>1, <1>2 DEF TypeOK
<1>4. ~Running'
  BY DEF Running
<1>5. LogFine'
  BY <1>1, <1>2, <1>4 DEF LogFine
<1>6. LockFine'
  BY DEF LockFine
<1>7. \A u \in Tasks : PutFine(u)'
  BY DEF PutFine, Putting
<1> QED
  BY <1>3, <1>5, <1>6, <1>7 DEF TransactionInv

\* The tasks that are killed leave the lock and the copies as they are.
LEMMA KillInv ==
    ASSUME TransactionInv, Kill
    PROVE  TransactionInv'
<1>1. /\ locked /\ view' = [t \in Tasks |-> NoView]
      /\ UNCHANGED <<config, dataspace, theLog, lock, phase, undone, committed>>
  BY DEF Kill
<1>2. TypeOK /\ Leads(Whole)
  BY DEF TransactionInv
<1>3. /\ view' \in [Tasks -> [attached : BOOLEAN, modified : BOOLEAN,
                              puts : {<< >>}, stage : Stages]]
      /\ \A u \in Tasks : view'[u].puts = << >> /\ ~view'[u].attached
  <2>1. NoView.puts = << >>
    BY DEF NoView
  <2> QED
    BY <1>1, <2>1, NoViewType
<1>4. Leads(Whole)'
  BY <1>1, <1>2 DEF Leads, Whole, dataspace, theLog
<1>5. /\ locked' = TRUE /\ UNCHANGED <<owner, xnDepth, xnCanceled>>
      /\ phase' = phase /\ undone' = undone
  BY <1>1, <1>2 DEF lock, TypeOK
<1>6. UnlockedIsCommitted'
  BY <1>5 DEF UnlockedIsCommitted
<1> QED
  BY <1>1, <1>2, <1>3, <1>4, <1>5, <1>6, StoppedStep DEF TypeOK

\* What the copies are when all tasks have been stopped.
LEMMA StoppedIs ==
    ASSUME ProtectedConfigs, TransactionInv, ~Running
    PROVE  /\ ReloadedEntries = logEntries /\ Len(logEntries) = Whole
           /\ Whole \in Nat /\ \A i \in 1..Whole : logEntries[i] = i
           /\ committed = [x \in DOMAIN committed |-> committed[x]]
           /\ config.inFile => Restores(log, Whole, file, committed)
           /\ config.inDram => Restores(log, Whole, dram, committed)
           /\ \A u \in Tasks : view[u].puts = << >> /\ ~view[u].attached
           /\ \E S : view \in [Tasks -> [attached : BOOLEAN, modified : BOOLEAN,
                                         puts : S, stage : Stages]]
<1>1. TypeOK /\ LogFine /\ LockFine /\ Leads(Whole)
  BY DEF TransactionInv
<1>2. ReloadedEntries = logEntries /\ Whole \in Nat
  BY <1>1, ReloadedAre
<1>3. \A u \in Tasks : view[u].puts = << >> /\ ~view[u].attached
  BY <1>1 DEF Running, LockFine
<1> QED
  BY <1>1, <1>2, <1>3 DEF TypeOK, LogFine, Leads, Whole

\* The entries lead from where they lead to there as well.
LEMMA RestoresCommitted ==
    ASSUME NEW l, NEW n \in Nat, NEW ds, NEW c, Restores(l, n, ds, c),
           c = [x \in DOMAIN c |-> c[x]]
    PROVE  Restores(l, n, c, c)
BY DEF Restores

\* The state of the SDR that was reloaded, with the copies as they were committed.
LEMMA NewStateInv ==
    ASSUME ProtectedConfigs, TransactionInv, ~Running, NewState,
           config.inFile => file' = committed, config.inDram => dram' = committed
    PROVE  TransactionInv'
<1>1. /\ ReloadedEntries = logEntries /\ Whole \in Nat
      /\ committed = [x \in DOMAIN committed |-> committed[x]]
      /\ config.inFile => Restores(log, Whole, file, committed)
      /\ config.inDram => Restores(log, Whole, dram, committed)
      /\ \A u \in Tasks : view[u].puts = << >> /\ ~view[u].attached
  BY StoppedIs
<1>2. PICK S : view \in [Tasks -> [attached : BOOLEAN, modified : BOOLEAN,
                                   puts : S, stage : Stages]]
  BY StoppedIs
<1>3. /\ locked' = FALSE /\ owner' = None /\ xnDepth' = 0 /\ xnCanceled' = FALSE
      /\ phase' = "open" /\ undone' = 0
      /\ UNCHANGED <<config, theLog, committed>> /\ view' = view
  BY <1>1 DEF NewState, theLog
<1>4. UnlockedIsCommitted'
  BY <1>3 DEF UnlockedIsCommitted
<1>5. Leads(Whole)'
  <2>1. config.inFile \/ config.inDram => Restores(log, Whole, committed, committed)
    BY <1>1, RestoresCommitted
  <2> QED
    BY <1>3, <2>1 DEF Leads, Whole, theLog
<1>6. xnDepth' \in 0..MaxDepth /\ phase' \in Phases /\ undone' \in Nat
  BY <1>3, TransactionAssumption DEF Phases
<1> QED
  BY <1>1, <1>2, <1>3, <1>4, <1>5, <1>6, StoppedStep

\* The profile is reloaded: the transaction is backed out, in the file and then
\* in the memory that is made from it.
LEMMA ReloadInv ==
    ASSUME ProtectedConfigs, TransactionInv, ReloadProfile
    PROVE  TransactionInv'
<1>1. /\ ~Running /\ NewState
      /\ LET base == IF config.inFile THEN Reversed(file, ReloadedEntries) ELSE dram
         IN  /\ file' = IF config.inFile THEN base ELSE file
             /\ dram' = IF config.inDram THEN Reversed(base, ReloadedEntries) ELSE dram
  BY DEF ReloadProfile
<1>2. /\ ReloadedEntries = logEntries /\ Whole \in Nat /\ Len(logEntries) = Whole
      /\ \A i \in 1..Whole : logEntries[i] = i
      /\ committed = [x \in DOMAIN committed |-> committed[x]]
      /\ config.inFile => Restores(log, Whole, file, committed)
      /\ config.inDram => Restores(log, Whole, dram, committed)
  BY <1>1, StoppedIs
<1>3. ASSUME NEW ds, Restores(log, Whole, ds, committed)
      PROVE  Reversed(ds, ReloadedEntries) = committed
  BY <1>2, <1>3, ReversedAll
<1>4. config.inFile => /\ Reversed(file, ReloadedEntries) = committed
                       /\ Reversed(committed, ReloadedEntries) = committed
  BY <1>2, <1>3, RestoresCommitted
<1>5. config.inDram => Reversed(dram, ReloadedEntries) = committed
  BY <1>2, <1>3
<1>6. config.inFile => file' = committed
  BY <1>1, <1>4
<1>7. config.inDram => dram' = committed
  <2>1. CASE config.inFile
    BY <1>1, <1>4, <2>1
  <2>2. CASE ~config.inFile
    BY <1>1, <1>5, <2>2
  <2> QED
    BY <2>1, <2>2
<1> QED
  BY <1>1, <1>6, <1>7, NewStateInv

\* After a power cycle only a file is left, and it is backed out.
LEMMA RebootInv ==
    ASSUME ProtectedConfigs, TransactionInv, Reboot
    PROVE  TransactionInv'
<1>1. /\ ~Running /\ NewState /\ config \in Reboots
      /\ file' = IF config.inFile THEN Reversed(file, ReloadedEntries) ELSE file
  BY DEF Reboot
<1>2. ~config.inDram
  BY <1>1 DEF ProtectedConfigs
<1>3. /\ ReloadedEntries = logEntries /\ Whole \in Nat /\ Len(logEntries) = Whole
      /\ \A i \in 1..Whole : logEntries[i] = i
      /\ committed = [x \in DOMAIN committed |-> committed[x]]
      /\ config.inFile => Restores(log, Whole, file, committed)
  BY <1>1, StoppedIs
<1>4. config.inFile => Reversed(file, ReloadedEntries) = committed
  BY <1>3, ReversedAll
<1> QED
  BY <1>1, <1>2, <1>4, NewStateInv

\* A reload that is interrupted leaves the log to be reversed again.
LEMMA InterruptedInv ==
    ASSUME ProtectedConfigs, TransactionInv, ReloadInterrupted
    PROVE  TransactionInv'
<1> DEFINE some(n) == SubSeq(ReloadedEntries, n + 1, Len(ReloadedEntries))
<1>1. /\ ~Running /\ locked
      /\ UNCHANGED <<config, theLog, lock, phase, undone, view, committed>>
  BY DEF ReloadInterrupted
<1>2. /\ ReloadedEntries = logEntries /\ Whole \in Nat /\ Len(logEntries) = Whole
      /\ \A i \in 1..Whole : logEntries[i] = i
      /\ config.inFile => Restores(log, Whole, file, committed)
      /\ config.inDram => Restores(log, Whole, dram, committed)
      /\ \A u \in Tasks : view[u].puts = << >> /\ ~view[u].attached
  BY <1>1, StoppedIs
<1>3. PICK S : view \in [Tasks -> [attached : BOOLEAN, modified : BOOLEAN,
                                   puts : S, stage : Stages]]
  BY <1>1, StoppedIs
<1>4. TypeOK
  BY DEF TransactionInv
<1>5. PICK n \in 1..(Len(ReloadedEntries) - 1) :
            IF config.inFile
            THEN file' = Reversed(file, some(n)) /\ dram' = dram
            ELSE dram' = Reversed(dram, some(n)) /\ file' = file
  BY DEF ReloadInterrupted
<1>6. /\ Len(some(n)) \in Nat
      /\ \A i \in 1..Len(some(n)) : some(n)[i] \in 1..Whole
  <2>1. logEntries \in Seq(Nat)
    BY <1>4 DEF TypeOK
  <2>2. n \in Nat /\ n < Whole /\ n >= 1
    BY <1>2, <1>5
  <2>3. /\ Len(some(n)) = Whole - n
        /\ \A i \in 1..(Whole - n) : some(n)[i] = logEntries[n + i]
    BY <1>2, <2>1, <2>2
  <2>4. \A i \in 1..(Whole - n) : n + i \in 1..Whole
    BY <1>2, <2>2
  <2> QED
    BY <1>2, <2>2, <2>3, <2>4
<1> HIDE DEF some
<1>7. ASSUME NEW ds, Restores(log, Whole, ds, committed)
      PROVE  Restores(log, Whole, Reversed(ds, some(n)), committed)
  BY <1>2, <1>6, <1>7, ReversedSome
<1>8. Leads(Whole)'
  <2>1. /\ config' = config /\ log' = log /\ Whole' = Whole /\ committed' = committed
    BY <1>1 DEF theLog, Whole
  <2>2. /\ config.inFile => Restores(log, Whole, file', committed)
        /\ config.inDram => Restores(log, Whole, dram', committed)
    <3>1. CASE config.inFile
      BY <1>2, <1>5, <1>7, <3>1
    <3>2. CASE ~config.inFile
      BY <1>2, <1>5, <1>7, <3>2
    <3> QED
      BY <3>1, <3>2
  <2> QED
    BY <2>1, <2>2 DEF Leads
<1>9. /\ locked' = TRUE /\ UNCHANGED <<owner, xnDepth, xnCanceled>>
      /\ phase' = phase /\ undone' = undone /\ view' = view
  BY <1>1, <1>4 DEF lock, TypeOK
<1>10. UnlockedIsCommitted'
  BY <1>9 DEF UnlockedIsCommitted
<1> QED
  BY <1>1, <1>2, <1>3, <1>4, <1>8, <1>9, <1>10, StoppedStep DEF TypeOK

\* The tasks attach to an SDR whose copies are as they were committed.
LEMMA AttachInv ==
    ASSUME ProtectedConfigs, TransactionInv, Attach
    PROVE  TransactionInv'
<1>1. /\ ~locked /\ view' = [t \in Tasks |-> NewView]
      /\ log' = << >> /\ logEntries' = << >>
      /\ UNCHANGED <<config, dataspace, lock, phase, undone, committed>>
  BY DEF Attach
<1>2. TypeOK /\ LockFine
  BY DEF TransactionInv
<1>3. /\ (config.inFile => file = committed) /\ (config.inDram => dram = committed)
      /\ owner = None /\ phase = "open" /\ None \notin Tasks
  BY <1>1, <1>2, TransactionAssumption DEF LockFine, UnlockedIsCommitted
<1>4. /\ config' = config /\ file' = file /\ dram' = dram /\ committed' = committed
      /\ UNCHANGED <<locked, owner, xnDepth, xnCanceled, phase, undone>>
  BY <1>1 DEF dataspace, lock
<1>5. /\ view' \in [Tasks -> [attached : BOOLEAN, modified : BOOLEAN,
                              puts : {<< >>}, stage : Stages]]
      /\ \A u \in Tasks : view'[u].puts = << >>
  <2>1. NewView.puts = << >>
    BY DEF NewView, NoView
  <2> QED
    BY <1>1, <2>1, NoViewType
<1>6. Whole' = 0 /\ Len(log') = 0
  BY <1>1 DEF Whole
<1>7. Leads(Whole)'
  <2>1. committed = [x \in DOMAIN committed |-> committed[x]]
    BY <1>2 DEF TypeOK
  <2>2. /\ config.inFile => Restores(log', 0, file, committed)
        /\ config.inDram => Restores(log', 0, dram, committed)
    BY <1>3, <2>1, RestoresNothing
  <2> QED
    BY <1>4, <1>6, <2>2 DEF Leads
<1>8. TypeOK'
  <2>1. (\E S : log' \in Seq(S)) /\ logEntries' \in Seq(Nat)
    BY <1>1
  <2> QED
    BY <1>2, <1>4, <1>5, <2>1 DEF TypeOK
<1>9. \A u \in Tasks : \A stage : ~Putting(u, stage)'
  BY <1>5 DEF Putting
<1>10. LogFine'
  BY <1>6, <1>9 DEF LogFine
<1>11. LockFine'
  BY <1>2, <1>3, <1>4, <1>5 DEF LockFine, UnlockedIsCommitted
<1>12. \A u \in Tasks : PutFine(u)' /\ owner' # u
  BY <1>3, <1>4, <1>9 DEF PutFine
<1> QED
  BY <1>7, <1>8, <1>10, <1>11, <1>12 DEF TransactionInv

(***************************************************************************)
(* The theorems.                                                           *)
(***************************************************************************)
\* The SDR that was just created.
LEMMA InitInv ==
    ASSUME Init
    PROVE  TransactionInv
<1>1. /\ config \in Configs /\ file = Empty /\ dram = Empty /\ committed = Empty
      /\ log = << >> /\ logEntries = << >> /\ locked = FALSE /\ owner = None
      /\ xnDepth = 0 /\ xnCanceled = FALSE /\ phase = "open" /\ undone = 0
      /\ view = [t \in Tasks |-> NewView]
  BY DEF Init
<1>2. /\ view \in [Tasks -> [attached : BOOLEAN, modified : BOOLEAN,
                             puts : {<< >>}, stage : Stages]]
      /\ \A u \in Tasks : view[u].puts = << >>
  <2>1. NewView.puts = << >>
    BY DEF NewView, NoView
  <2> QED
    BY <1>1, <2>1, NoViewType
<1>3. Whole = 0 /\ Len(log) = 0
  BY <1>1 DEF Whole
<1>4. TypeOK
  <2>1. (\E S : log \in Seq(S)) /\ logEntries \in Seq(Nat)
    BY <1>1
  <2>2. committed = [x \in DOMAIN committed |-> committed[x]]
    BY <1>1, TransactionAssumption
  <2>3. xnDepth \in 0..MaxDepth /\ phase \in Phases /\ undone \in Nat
    BY <1>1, TransactionAssumption DEF Phases
  <2> QED
    BY <1>1, <1>2, <2>1, <2>2, <2>3 DEF TypeOK
<1>5. Leads(Whole)
  BY <1>1, <1>3, <1>4, RestoresNothing DEF Leads, TypeOK
<1>6. \A u \in Tasks : \A stage : ~Putting(u, stage)
  BY <1>2 DEF Putting
<1>7. LogFine
  BY <1>3, <1>6 DEF LogFine
<1>8. LockFine
  BY <1>1, <1>2 DEF LockFine, UnlockedIsCommitted
<1>9. \A u \in Tasks : PutFine(u) /\ owner # u
  BY <1>1, <1>6, TransactionAssumption DEF PutFine
<1> QED
  BY <1>4, <1>5, <1>7, <1>8, <1>9 DEF TransactionInv

\* A step in which nothing changes.
LEMMA StutterInv ==
    ASSUME TransactionInv, UNCHANGED vars
    PROVE  TransactionInv'
BY ZenonT(60) DEF TransactionInv, TypeOK, LogFine, LockFine, UnlockedIsCommitted, PutFine,
       CopiesFine, Leads, Whole, Putting, PutAddress, PutContent, Running,
       vars, dataspace, theLog, lock

\* The invariant holds of every SDR that is reversible and keeps its log in a file.
THEOREM TransactionInvariant ==
    ASSUME ProtectedConfigs
    PROVE  Spec => []TransactionInv
<1>1. Init => TransactionInv
  BY InitInv
<1>2. TransactionInv /\ [Next]_vars => TransactionInv'
  <2> SUFFICES ASSUME TransactionInv, [Next]_vars
               PROVE  TransactionInv'
    OBVIOUS
  <2>1. ASSUME NEW t \in Tasks,
               \/ BeginXn(t) \/ StartCall(t)
               \/ LogControl(t) \/ LogData(t) \/ WriteFile(t) \/ WriteDram(t)
               \/ EndXn(t) \/ CancelXn(t) \/ ExitXn(t) \/ CrashXn(t)
               \/ ReverseEntry(t) \/ ReverseEnds(t) \/ ClearTransaction(t)
               \/ UnlockSdr(t)
        PROVE  TransactionInv'
    BY <2>1, BeginInv, StartInv, LogControlInv, LogDataInv, WriteInv, EndsInv,
       ExitInv, ReverseEntryInv, ReverseEndsInv, ClearInv, UnlockInv
  <2>2. CASE Kill \/ Attach \/ ReloadProfile \/ ReloadInterrupted \/ Reboot
    BY <2>2, KillInv, AttachInv, ReloadInv, InterruptedInv, RebootInv
  <2>3. CASE UNCHANGED vars
    BY <2>3, StutterInv
  <2> QED
    BY <2>1, <2>2, <2>3 DEF Next
<1> QED
  BY <1>1, <1>2, PTL DEF Spec

\* Whoever takes the SDR's lock finds every copy of the dataspace as the last
\* transaction that ended left it: those that were canceled and those of tasks
\* that were killed, at any of their steps and of the steps that back them out,
\* are undone.
THEOREM UnlockedCommitted ==
    ASSUME ProtectedConfigs
    PROVE  Spec => []UnlockedIsCommitted
<1>1. TransactionInv => UnlockedIsCommitted
  BY DEF TransactionInv, LockFine
<1> QED
  BY <1>1, TransactionInvariant, PTL

\* At every instant, the log file is enough to bring every copy of the dataspace
\* back to where the transaction began.
THEOREM LogAlwaysRestores ==
    ASSUME ProtectedConfigs
    PROVE  Spec => []LogRestores
<1>1. TransactionInv => LogRestores
  BY InvRestores
<1> QED
  BY <1>1, TransactionInvariant, PTL

(***************************************************************************)
(* The contact plan.  A call is a function of the part of the state that   *)
(* concerns contacts, a plan, and a plan that a call starts from is        *)
(* Coherent: the database, the index and the timeline agree and no two     *)
(* contacts of a pair meet.  One lemma per function says that it keeps a   *)
(* plan coherent; where a function is a fold over a set that it takes in   *)
(* no particular order, the lemmas on folds of DataLemmas carry that       *)
(* through the fold.                                                       *)
(***************************************************************************)
(***************************************************************************)
(* The invariant.                                                          *)
(***************************************************************************)
Kinds == {"managed", "discovered", "predicted"}

PlanContacts ==
    {c \in [start : Int, stop : Int, from : Nat, to : Nat, kind : Kinds] :
        Pair(c) \in ContactPairs}
PlanRanges ==
    [start : Int, stop : Int, from : Nat, to : Nat, asserted : BOOLEAN]
PastContacts ==
    [from : Nat, to : Nat, start : Int, stop : Int, rate : Nat]

ContactTypes == {"StartXmit", "StopXmit", "StartFire", "StopFire", "PurgeContact"}
RangeTypes   == {"StartAsserted", "StartImputed", "StopAsserted", "StopImputed"}
PlanEvents ==
    [time : Int, type : ContactTypes \cup RangeTypes, ref : PlanContacts \cup PlanRanges]

Plans == [db : SUBSET PlanContacts, index : SUBSET PlanContacts,
          timeline : SUBSET PlanEvents,
          log : [{"sender", "receiver"} -> Seq(PastContacts)]]

Apart(c, d) == c.stop < d.start \/ d.stop < c.start

EventsOfContacts(cs) == UNION {ContactEvents(c) : c \in cs}

\* The database, the index and the timeline agree but for the events in
\* "others", which are those of the ranges, and no two contacts of a pair meet.
Coherent(others) ==
    {p \in Plans :
        /\ p.db = p.index /\ IsFiniteSet(p.index)
        /\ p.timeline = EventsOfContacts(p.index) \cup others
        /\ \A c, d \in p.index : c # d /\ Pair(c) = Pair(d) => Apart(c, d)}

Predictions(p) == {c \in p.index : c.kind = "predicted"}

OnePredicted(p) == \A c, d \in Predictions(p) : Pair(c) = Pair(d) => c = d

\* An imputed range rests on a canonical one.
Rests(s) ==
    /\ Canonical(Opposite(Pair(s)))
    /\ RangeEntry(s.start, s.stop, Opposite(Pair(s)), TRUE) \in ranges

PlanInv ==
    /\ now \in Nat /\ hung \in BOOLEAN
    /\ rindex \subseteq PlanRanges /\ ranges = {r \in rindex : r.asserted}
    /\ Contacts \in Coherent(EventsOf(rindex)) /\ OnePredicted(Contacts)
    /\ \A s \in rindex : ~s.asserted /\ ~hung => Rests(s)

(***************************************************************************)
(* Events.                                                                 *)
(***************************************************************************)
\* An event belongs to one entry.
LEMMA EventsTyped ==
    /\ \A c \in PlanContacts : \A e \in ContactEvents(c) :
          e \in PlanEvents /\ e.ref = c /\ e.type \in ContactTypes
    /\ \A r \in PlanRanges : \A e \in RangeEvents(r) :
          e \in PlanEvents /\ e.ref = r /\ e.type \in RangeTypes
<1>1. ASSUME NEW c \in PlanContacts, NEW e \in ContactEvents(c)
      PROVE  e \in PlanEvents /\ e.ref = c /\ e.type \in ContactTypes
  <2>1. c.start \in Int /\ c.stop \in Int /\ MaxClockError \in Int
    BY PlanAssumption DEF PlanContacts
  <2>2. \E t \in Int, y \in ContactTypes : e = Event(t, y, c)
    BY <2>1 DEF ContactEvents, ContactTypes
  <2> QED
    BY <2>2 DEF Event, PlanEvents
<1>2. ASSUME NEW r \in PlanRanges, NEW e \in RangeEvents(r)
      PROVE  e \in PlanEvents /\ e.ref = r /\ e.type \in RangeTypes
  <2>1. r.start \in Int /\ r.stop \in Int
    BY DEF PlanRanges
  <2>2. \E t \in Int, y \in RangeTypes : e = Event(t, y, r)
    BY <2>1 DEF RangeEvents, RangeTypes
  <2> QED
    BY <2>2 DEF Event, PlanEvents
<1> QED
  BY <1>1, <1>2

\* The events of ranges are apart from those of contacts.
Foreign(others) ==
    others \subseteq PlanEvents /\ \A e \in others : e.type \in RangeTypes

LEMMA RangeEventsForeign ==
    ASSUME NEW rs \in SUBSET PlanRanges
    PROVE  Foreign(EventsOf(rs))
BY EventsTyped DEF Foreign, EventsOf

(***************************************************************************)
(* Deleting and inserting contacts.                                        *)
(***************************************************************************)
LEMMA DeleteCoherent ==
    ASSUME NEW others, Foreign(others), NEW p \in Coherent(others), NEW c \in PlanContacts
    PROVE  /\ Delete(p, c) \in Coherent(others)
           /\ Delete(p, c).index = p.index \ {c}
           /\ Delete(p, c).log = p.log
<1> DEFINE q == Delete(p, c)
<1>1. /\ q \in Plans /\ q.db = q.index /\ q.index = p.index \ {c} /\ q.log = p.log
      /\ q.timeline = p.timeline \ ContactEvents(c)
  BY DEF Delete, Coherent, Plans
<1>2. IsFiniteSet(q.index)
  BY <1>1, FS_Subset DEF Coherent
<1>3. q.timeline = EventsOfContacts(q.index) \cup others
  <2>1. p.timeline = EventsOfContacts(p.index) \cup others /\ p.index \subseteq PlanContacts
    BY DEF Coherent, Plans
  <2>2. ASSUME NEW d \in p.index, d # c
        PROVE  ContactEvents(d) \cap ContactEvents(c) = {}
    BY <2>1, <2>2, EventsTyped
  <2>3. others \cap ContactEvents(c) = {}
    BY EventsTyped DEF Foreign, ContactTypes, RangeTypes
  <2> QED
    BY <1>1, <2>1, <2>2, <2>3 DEF EventsOfContacts
<1>4. \A d, e \in q.index : d # e /\ Pair(d) = Pair(e) => Apart(d, e)
  BY <1>1 DEF Coherent
<1> QED
  BY <1>1, <1>2, <1>3, <1>4 DEF Coherent

LEMMA AddCoherent ==
    ASSUME NEW others, NEW p \in Coherent(others), NEW c \in PlanContacts,
           Overlapping(p, c) = {}
    PROVE  /\ Add(p, c) \in Coherent(others)
           /\ Add(p, c).index = p.index \cup {c}
           /\ Add(p, c).log = p.log
<1> DEFINE q == Add(p, c)
<1>0. ContactEvents(c) \subseteq PlanEvents
  BY EventsTyped
<1>1. /\ q \in Plans /\ q.db = q.index /\ q.index = p.index \cup {c} /\ q.log = p.log
      /\ q.timeline = p.timeline \cup ContactEvents(c)
  BY <1>0 DEF Add, Coherent, Plans
<1>2. IsFiniteSet(q.index)
  BY <1>1, FS_AddElement DEF Coherent
<1>3. q.timeline = EventsOfContacts(q.index) \cup others
  BY <1>1 DEF Coherent, EventsOfContacts
<1>4. \A d \in p.index : Pair(d) = Pair(c) => Apart(c, d)
  <2>1. \A d \in p.index : d.start \in Int /\ d.stop \in Int
    BY DEF Coherent, Plans, PlanContacts
  <2>2. c.start \in Int /\ c.stop \in Int
    BY DEF PlanContacts
  <2> QED
    BY <2>1, <2>2 DEF Overlapping, Apart
<1>5. \A d, e \in q.index : d # e /\ Pair(d) = Pair(e) => Apart(d, e)
  BY <1>1, <1>4 DEF Coherent, Apart
<1> QED
  BY <1>1, <1>2, <1>3, <1>5 DEF Coherent

\* A fold of deletions deletes them all.
LEMMA DeletesCoherent ==
    ASSUME NEW others, Foreign(others), NEW p \in Coherent(others),
           NEW S \in SUBSET PlanContacts, IsFiniteSet(S)
    PROVE  LET q == FoldSet(LAMBDA d, r : Delete(r, d), p, S)
           IN  q \in Coherent(others) /\ q.index = p.index \ S /\ q.log = p.log
<1> DEFINE c == SetChoice(S)
           P == {q \in Coherent(others) : q.log = p.log}
           g == [y \in S \X P |-> Delete(y[2], y[1])]
           Iter(h) == h = [T \in SUBSET S |->
                              IF T = {} THEN p
                              ELSE Delete(h[T \ {CHOOSE x \in T : TRUE}],
                                          CHOOSE x \in T : TRUE)]
           q == FoldSet(LAMBDA d, r : Delete(r, d), p, S)
           R == {y \in (SUBSET S) \X P : y[2].index = p.index \ y[1]}
<1>1. \A x \in S : \A r \in P : Delete(r, x) \in P /\ Delete(r, x).index = r.index \ {x}
  BY DeleteCoherent
<1>2. Folding(S, c, P, p, g)
  BY <1>1, ChoicesMade DEF Folding
<1>3. PICK h : FoldedBy(h, S, c, P, p, g)
  <2> HIDE DEF c, P, g
  <2> QED
    BY <1>2, FoldExists
<1>4. Iter(h)
  <2>1. \A T \in SUBSET S : T # {} => <<c[T], h[T \ {c[T]}]>> \in S \X P
    <3> HIDE DEF P
    <3> QED
      BY <1>3, ChoicesMade DEF FoldedBy, Chooses
  <2> HIDE DEF P
  <2> QED
    BY <1>3, <2>1 DEF FoldedBy, SetChoice
<1>5. ASSUME NEW f, Iter(f)
      PROVE  FoldsAlike(f, S, c, P, p, g)
  <2>1. \A T \in SUBSET S : T # {} => c[T] \in S
    BY ChoicesMade DEF Chooses
  <2> HIDE DEF P
  <2> QED
    BY <1>5, <2>1 DEF FoldsAlike, SetChoice
<1>6. q = (CHOOSE f : Iter(f))[S]
  BY DEF FoldSet, MapThenFoldSet
<1> HIDE DEF Iter, q, c, g, P
<1>7. q = h[S]
  <2>1. Iter(CHOOSE f : Iter(f))
    BY <1>4
  <2>2. FoldsAlike(CHOOSE f : Iter(f), S, c, P, p, g)
    BY <2>1, <1>5
  <2> QED
    BY <2>2, <1>2, <1>3, <1>6, FoldFollows
<1>8. Carries(R, S, P, p, g)
  BY <1>1, <1>2 DEF Folding, Carries, g
<1>9. q \in P /\ <<S, q>> \in R
  BY <1>2, <1>3, <1>7, <1>8, FoldInduction
<1> QED
  BY <1>9 DEF P, R, q

\* The insertion of a contact (rfx_insert_contact) drives out predictions
\* alone, and adds nothing but the contact.
LEMMA InsertCoherent ==
    ASSUME NEW others, Foreign(others), NEW p \in Coherent(others), NEW c \in PlanContacts
    PROVE  LET q == InsertContact(p, c)
           IN  /\ q \in Coherent(others) /\ q.log = p.log
               /\ Predictions(q) \subseteq Predictions(p) \cup {c}
               /\ c.kind # "predicted" => Predictions(q) \subseteq Predictions(p)
<1> DEFINE met == Overlapping(p, c)
           hard == {d \in met : d.kind # "predicted"}
           driven == {d \in met \ hard : hard = {} \/ Precedes(d, FirstOf(hard))}
           q == FoldSet(LAMBDA d, r : Delete(r, d), p, driven)
<1>1. driven \in SUBSET PlanContacts /\ IsFiniteSet(driven) /\ met \subseteq p.index
  <2>1. met \subseteq p.index
    BY DEF Overlapping
  <2>2. p.index \subseteq PlanContacts /\ IsFiniteSet(p.index)
    BY DEF Coherent, Plans
  <2>3. driven \subseteq p.index
    BY <2>1
  <2> HIDE DEF driven, met
  <2> QED
    BY <2>1, <2>2, <2>3, FS_Subset
<1>2. q \in Coherent(others) /\ q.index = p.index \ driven /\ q.log = p.log
  <2> HIDE DEF driven
  <2> QED
    BY <1>1, DeletesCoherent
<1>3. CASE c.kind = "predicted"
  <2>1. InsertContact(p, c) = IF met = {} THEN Add(p, c) ELSE p
    BY <1>3 DEF InsertContact
  <2> QED
    BY <2>1, <1>3, AddCoherent DEF Predictions
<1>4. CASE c.kind # "predicted"
  <2>1. InsertContact(p, c) = IF hard = {} THEN Add(q, c) ELSE q
    BY <1>4 DEF InsertContact
  <2>2. CASE hard # {}
    <3> HIDE DEF q, hard, driven
    <3> QED
      BY <2>1, <2>2, <1>2 DEF Predictions
  <2>3. CASE hard = {}
    <3>1. driven = met
      BY <2>3
    <3>2. Overlapping(q, c) = {}
      <4> HIDE DEF q, driven
      <4> QED
        BY <1>2, <3>1 DEF Overlapping
    <3> HIDE DEF q, hard, driven
    <3> QED
      BY <2>1, <2>3, <1>2, <1>4, <3>2, AddCoherent DEF Predictions
  <2> QED
    BY <2>2, <2>3
<1> QED
  BY <1>3, <1>4

(***************************************************************************)
(* The logs and the bases of the predictions.                              *)
(***************************************************************************)
LEMMA LoggedTyped ==
    ASSUME NEW entries \in Seq(PastContacts), NEW e \in PastContacts
    PROVE  Logged(entries, e) \in Seq(PastContacts)
<1> DEFINE before == {i \in DOMAIN entries : Precedes(entries[i], e)}
           all == InsertAt(entries, Cardinality(before) + 1, e)
<1>1. Cardinality(before) + 1 \in 1..(Len(entries) + 1)
  <2>1. DOMAIN entries = 1..Len(entries) /\ Len(entries) \in Nat
    OBVIOUS
  <2>2. IsFiniteSet(1..Len(entries)) /\ Cardinality(1..Len(entries)) = Len(entries)
    BY <2>1, FS_Interval
  <2>3. before \subseteq 1..Len(entries)
    BY <2>1
  <2> HIDE DEF before
  <2>4. /\ IsFiniteSet(before) /\ Cardinality(before) <= Len(entries)
        /\ Cardinality(before) \in Nat
    BY <2>2, <2>3, FS_Subset, FS_CardinalityType
  <2> QED
    BY <2>1, <2>4
<1>2. all \in Seq(PastContacts)
  <2> HIDE DEF before
  <2> QED
    BY <1>1, InsertAtElements
<1>3. Len(all) > MaxLogLength => Tail(all) \in Seq(PastContacts)
  <2> HIDE DEF all
  <2>1. Len(all) > MaxLogLength => all # <<>>
    BY <1>2, PlanAssumption
  <2> QED
    BY <1>2, <2>1
<1>4. \/ Logged(entries, e) = entries
      \/ Logged(entries, e) = IF Len(all) > MaxLogLength THEN Tail(all) ELSE all
  BY DEF Logged
<1> HIDE DEF all
<1> QED
  BY <1>2, <1>3, <1>4

LEMMA LogDiscoveredCoherent ==
    ASSUME NEW others, NEW p \in Coherent(others), NEW c \in PlanContacts, now \in Nat
    PROVE  LogDiscovered(p, c) \in Coherent(others) /\ LogDiscovered(p, c).index = p.index
<1>1. PastContact(c) \in PastContacts
  BY PlanAssumption DEF PastContact, PastContacts, PlanContacts
<1>2. ASSUME NEW l \in {"sender", "receiver"}
      PROVE  LET q == [p EXCEPT !.log[l] = Logged(@, PastContact(c))]
             IN  q \in Coherent(others) /\ q.index = p.index
  <2>1. p \in Plans /\ p.log[l] \in Seq(PastContacts)
    BY DEF Coherent, Plans
  <2>2. Logged(p.log[l], PastContact(c)) \in Seq(PastContacts)
    BY <1>1, <2>1, LoggedTyped
  <2> DEFINE q == [p EXCEPT !.log[l] = Logged(@, PastContact(c))]
  <2>3. /\ q \in Plans /\ q.db = p.db /\ q.index = p.index /\ q.timeline = p.timeline
    BY <2>1, <2>2 DEF Plans
  <2> HIDE DEF q
  <2>4. q \in Coherent(others)
    BY <2>3 DEF Coherent
  <2> QED
    BY <2>3, <2>4 DEF q
<1> QED
  BY <1>2 DEF LogDiscovered

\* Past contacts of a pair of nodes that do not overlap.
PastBases(pair) ==
    {b \in SUBSET PastContacts :
        /\ IsFiniteSet(b)
        /\ \A d \in b : Pair(d) = pair /\ d.start < d.stop
        /\ \A d, e \in b : d # e => Apart(d, e)}

LEMMA ExtendBase ==
    ASSUME NEW pair, NEW b \in PastBases(pair), NEW e \in PastContacts, Pair(e) = pair
    PROVE  Extend(b, e) \in PastBases(pair)
<1>1. CASE Extend(b, e) = b
  BY <1>1
<1>2. CASE Extend(b, e) # b
  <2>1. /\ Extend(b, e) = b \cup {e} /\ ~(e.stop <= e.start)
        /\ \A d \in b : ~(d.stop >= e.start /\ d.start <= e.stop)
    BY <1>2 DEF Extend
  <2>2. /\ e.start \in Int /\ e.stop \in Int
        /\ \A d \in b : d.start \in Int /\ d.stop \in Int
    BY DEF PastBases, PastContacts
  <2>3. e.start < e.stop /\ \A d \in b : Apart(d, e) /\ Apart(e, d)
    BY <2>1, <2>2 DEF Apart
  <2>4. IsFiniteSet(b \cup {e})
    BY FS_AddElement DEF PastBases
  <2> QED
    BY <2>1, <2>3, <2>4 DEF PastBases
<1> QED
  BY <1>1, <1>2

LEMMA BaseTyped ==
    ASSUME NEW others, NEW p \in Coherent(others), NEW pair
    PROVE  Base(p, pair) \in PastBases(pair)
<1> DEFINE seq == p.log["sender"] \o p.log["receiver"]
           op(b, e) == IF Pair(e) = pair THEN Extend(b, e) ELSE b
           n == Len(seq)
           S == 1..n
           c == LastChoice(n)
           P == PastBases(pair)
           g == [y \in S \X P |-> op(y[2], seq[y[1]])]
           Iter(h) == h = [T \in SUBSET (DOMAIN seq) |->
                              IF T = {} THEN {}
                              ELSE op(h[T \ {Max(T)}], seq[Max(T)])]
<1>1. seq \in Seq(PastContacts)
  BY DEF Coherent, Plans
<1>2. n \in Nat /\ DOMAIN seq = S /\ \A i \in S : seq[i] \in PastContacts
  <2> HIDE DEF seq
  <2> QED
    BY <1>1
<1>3. \A i \in S : \A b \in P : op(b, seq[i]) \in P
  <2> HIDE DEF seq
  <2> QED
    BY <1>2, ExtendBase
<1>4. Folding(S, c, P, {}, g)
  <2>1. Chooses(c, S) /\ IsFiniteSet(S)
    <3> HIDE DEF seq
    <3> QED
      BY <1>2, ChoicesMade, FS_Interval
  <2>2. {} \in P
    BY FS_EmptySet DEF PastBases
  <2>3. g \in [S \X P -> P]
    <3> HIDE DEF P, S, op
    <3> QED
      BY <1>3
  <2> QED
    BY <2>1, <2>2, <2>3 DEF Folding
<1>5. PICK h : FoldedBy(h, S, c, P, {}, g)
  <2> HIDE DEF c, P, g, S
  <2> QED
    BY <1>4, FoldExists
<1>6. \A T \in SUBSET S : T # {} => Max(T) \in S /\ Max(T) \in T /\ c[T] = Max(T)
  <2> HIDE DEF seq
  <2> QED
    BY <1>2, ChoicesMade DEF Chooses, LastChoice
<1>7. Iter(h)
  <2> HIDE DEF P, S, c, op
  <2>1. \A T \in SUBSET S : T # {} => <<c[T], h[T \ {c[T]}]>> \in S \X P
    BY <1>5, <1>6 DEF FoldedBy
  <2>2. \A T \in SUBSET S : T # {} => h[T] = op(h[T \ {Max(T)}], seq[Max(T)])
    BY <1>5, <1>6, <2>1 DEF FoldedBy
  <2> HIDE DEF g, seq
  <2> QED
    BY <1>2, <1>5, <2>2 DEF FoldedBy
<1>8. ASSUME NEW f, Iter(f)
      PROVE  FoldsAlike(f, S, c, P, {}, g)
  <2> HIDE DEF P, S, c, op, seq
  <2>1. f[{}] = {}
    BY <1>8
  <2>2. ASSUME NEW T \in SUBSET S, T # {}, f[T \ {c[T]}] \in P
        PROVE  f[T] = g[<<c[T], f[T \ {c[T]}]>>]
    <3>1. Max(T) \in S /\ c[T] = Max(T)
      BY <1>6, <2>2
    <3>2. f[T] = op(f[T \ {Max(T)}], seq[Max(T)])
      BY <1>2, <1>8, <2>2
    <3>3. <<Max(T), f[T \ {Max(T)}]>> \in S \X P
      BY <2>2, <3>1
    <3> QED
      BY <3>1, <3>2, <3>3
  <2> HIDE DEF g
  <2> QED
    BY <2>1, <2>2 DEF FoldsAlike
<1>9. Base(p, pair) = (CHOOSE f : Iter(f))[S]
  <2>1. Base(p, pair) = (CHOOSE f : Iter(f))[DOMAIN seq]
    BY DEF Base, FoldLeft, MapThenFoldSet
  <2> HIDE DEF seq
  <2> QED
    BY <1>2, <2>1
<1> HIDE DEF Iter, g, P, S, c
<1>10. Iter(CHOOSE f : Iter(f))
  BY <1>7
<1>11. FoldsAlike(CHOOSE f : Iter(f), S, c, P, {}, g)
  BY <1>8, <1>10
<1>12. Base(p, pair) = h[S]
  BY <1>4, <1>5, <1>9, <1>11, FoldFollows
<1>13. h[S] \in P
  BY <1>5 DEF FoldedBy
<1> QED
  BY <1>12, <1>13 DEF P

\* A base that is not empty has a first past contact.
LEMMA FirstFound ==
    ASSUME NEW pair, NEW b \in PastBases(pair), b # {}
    PROVE  FirstOf(b) \in b
<1>0. /\ IsFiniteSet(b) /\ \A d \in b : d.start \in Int /\ d.stop \in Int
  BY DEF PastBases, PastContacts
<1> DEFINE F == {T \in SUBSET b : T = {} \/ \E a \in T : \A d \in T : a.start <= d.start}
<1>1. {} \in F
  OBVIOUS
<1>2. ASSUME NEW T \in SUBSET b, NEW x \in b \ T, T \in F
      PROVE  T \cup {x} \in F
  <2>1. CASE T = {}
    BY <2>1, <1>0
  <2>2. CASE T # {}
    <3>1. PICK a \in T : \A d \in T : a.start <= d.start
      BY <2>2, <1>2
    <3>2. CASE x.start < a.start
      BY <3>1, <3>2, <1>0
    <3>3. CASE ~(x.start < a.start)
      BY <3>1, <3>3, <1>0
    <3> QED
      BY <3>2, <3>3
  <2> QED
    BY <2>1, <2>2
<1> HIDE DEF F
<1>3. b \in F
  BY <1>0, <1>1, <1>2, SetsInduction
<1>4. PICK a \in b : \A d \in b : a.start <= d.start
  BY <1>3 DEF F
<1>5. \A d \in b \ {a} : Precedes(a, d)
  <2>1. SUFFICES ASSUME NEW d \in b \ {a}
                 PROVE  Precedes(a, d)
    OBVIOUS
  <2>2. /\ Pair(a) = Pair(d) /\ a.start <= d.start /\ Apart(a, d)
        /\ a.start < a.stop /\ d.start < d.stop
    BY <1>4 DEF PastBases
  <2>3. a.start < d.start
    BY <2>2, <1>0 DEF Apart
  <2> QED
    BY <2>2, <2>3 DEF Precedes
<1> QED
  BY <1>5 DEF FirstOf

\* A hypothetical past contact is a past contact.
LEMMA BoldBaseTyped ==
    ASSUME NEW others, NEW p \in Coherent(others), NEW pair \in ContactPairs, now \in Nat
    PROVE  BoldBase(p, pair) \in PastBases(pair)
<1> DEFINE base == Base(p, pair)
           past == Hypothetical(pair, now - Day, now - Day + Hour)
           last == Hypothetical(pair, now - 2, now - 1)
           one  == IF base # {} THEN base ELSE Extend({}, past)
<1>1. base \in PastBases(pair) /\ {} \in PastBases(pair)
  BY BaseTyped, FS_EmptySet DEF PastBases
<1>2. /\ past \in PastContacts /\ last \in PastContacts
      /\ Pair(past) = pair /\ Pair(last) = pair
  <2>1. pair \in Nat \X Nat
    BY PlanAssumption
  <2> QED
    BY <2>1, PlanAssumption DEF Hypothetical, PastContacts, Pair
<1> HIDE DEF base, past, last
<1>3. one \in PastBases(pair)
  BY <1>1, <1>2, ExtendBase
<1>4. BoldBase(p, pair) = IF Cardinality(one) # 1 THEN one ELSE Extend(one, last)
  BY DEF BoldBase, base, past, last
<1> HIDE DEF one
<1> QED
  BY <1>2, <1>3, <1>4, ExtendBase

(***************************************************************************)
(* Predictions.                                                            *)
(***************************************************************************)
\* q has no predictions but those of p and one of "pair".
PredictsOne(q, p, pair) ==
    \E c \in PlanContacts : Pair(c) = pair /\ Predictions(q) \subseteq Predictions(p) \cup {c}

LEMMA ProcessCoherent ==
    ASSUME NEW others, Foreign(others), NEW p \in Coherent(others), now \in Nat,
           NEW pair \in ContactPairs, NEW b \in PastBases(pair)
    PROVE  LET q == Process(p, b, pair)
           IN  q \in Coherent(others) /\ q.log = p.log /\ PredictsOne(q, p, pair)
<1> DEFINE age == now - FirstOf(b).start
           c(a) == Contact(now, now + a, pair, "predicted")
<1>1. ASSUME NEW a \in Int
      PROVE  c(a) \in PlanContacts /\ Pair(c(a)) = pair
  <2>1. pair \in Nat \X Nat
    BY PlanAssumption
  <2> QED
    BY <2>1 DEF Contact, PlanContacts, Pair, Kinds
<1>2. CASE Process(p, b, pair) = p
  BY <1>1, <1>2 DEF PredictsOne
<1>3. CASE Process(p, b, pair) # p
  <2>1. Process(p, b, pair) = InsertContact(p, c(age)) /\ ~(Cardinality(b) < 2)
    BY <1>3 DEF Process
  <2>2. b # {}
    BY <2>1, FS_EmptySet
  <2>3. age \in Int
    BY <2>2, FirstFound DEF PastBases, PastContacts
  <2> HIDE DEF age
  <2>4. c(age) \in PlanContacts /\ Pair(c(age)) = pair
    BY <1>1, <2>3
  <2> HIDE DEF c
  <2> QED
    BY <2>1, <2>4, InsertCoherent DEF PredictsOne
<1> QED
  BY <1>2, <1>3

LEMMA RemovePredictedCoherent ==
    ASSUME NEW others, Foreign(others), NEW p \in Coherent(others), NEW pairs
    PROVE  LET q == RemovePredicted(p, pairs)
           IN  /\ q \in Coherent(others) /\ q.log = p.log
               /\ Predictions(q) = {c \in Predictions(p) : Pair(c) \notin pairs}
<1> DEFINE gone == {d \in p.db : d.kind = "predicted" /\ Pair(d) \in pairs}
           m == FoldSet(LAMBDA d, r : Delete(r, d), p, gone)
           q == RemovePredicted(p, pairs)
<1>1. p.db = p.index /\ IsFiniteSet(p.index) /\ p.index \subseteq PlanContacts
  BY DEF Coherent, Plans
<1>2. gone \in SUBSET PlanContacts /\ IsFiniteSet(gone)
  <2>1. gone \subseteq p.index
    BY <1>1
  <2> HIDE DEF gone
  <2> QED
    BY <1>1, <2>1, FS_Subset
<1>3. q = m
  BY DEF RemovePredicted
<1>4. m \in Coherent(others) /\ m.index = p.index \ gone /\ m.log = p.log
  <2> HIDE DEF gone
  <2> QED
    BY <1>2, DeletesCoherent
<1> HIDE DEF m, q, gone
<1>5. Predictions(q) = {c \in Predictions(p) : Pair(c) \notin pairs}
  BY <1>1, <1>3, <1>4 DEF Predictions, gone
<1> QED
  BY <1>3, <1>4, <1>5 DEF q

LEMMA PredictCoherent ==
    ASSUME NEW others, Foreign(others), NEW p \in Coherent(others), OnePredicted(p),
           now \in Nat, NEW pair \in ContactPairs
    PROVE  LET q == Predict(p, pair)
           IN  q \in Coherent(others) /\ OnePredicted(q)
<1> DEFINE m == RemovePredicted(p, {pair})
           b == BoldBase(m, pair)
           q == Predict(p, pair)
<1>1. /\ m \in Coherent(others)
      /\ Predictions(m) = {c \in Predictions(p) : Pair(c) # pair}
  BY RemovePredictedCoherent
<1> HIDE DEF m
<1>2. b \in PastBases(pair)
  BY <1>1, BoldBaseTyped
<1>3. q = Process(m, b, pair)
  BY DEF Predict, m
<1> HIDE DEF b, q
<1>4. q \in Coherent(others) /\ PredictsOne(q, m, pair)
  BY <1>1, <1>2, <1>3, ProcessCoherent
<1>5. OnePredicted(q)
  BY <1>1, <1>4 DEF PredictsOne, OnePredicted
<1> QED
  BY <1>4, <1>5 DEF q

\* rfx_predict_all_contacts predicts at most one contact of each pair, in
\* whatever order it takes them.
LEMMA PredictAllCoherent ==
    ASSUME NEW others, Foreign(others), NEW p \in Coherent(others), now \in Nat
    PROVE  PredictAll(p) \in Coherent(others) /\ OnePredicted(PredictAll(p))
<1> DEFINE m == RemovePredicted(p, ContactPairs)
           S == {pair \in ContactPairs : Base(m, pair) # {}}
           c == SetChoice(S)
           P == Coherent(others)
           op(r, pair) == Process(r, Base(r, pair), pair)
           g == [y \in S \X P |-> op(y[2], y[1])]
           Iter(h) == h = [T \in SUBSET S |->
                              IF T = {} THEN m
                              ELSE op(h[T \ {CHOOSE x \in T : TRUE}],
                                      CHOOSE x \in T : TRUE)]
           q == PredictAll(p)
           R == {y \in (SUBSET S) \X P :
                    OnePredicted(y[2]) /\ \A d \in Predictions(y[2]) : Pair(d) \in y[1]}
<1>1. m \in P /\ Predictions(m) = {}
  <2>1. Predictions(p) \subseteq PlanContacts
    BY DEF Coherent, Plans, Predictions
  <2> QED
    BY <2>1, RemovePredictedCoherent DEF PlanContacts
<1>2. IsFiniteSet(S)
  BY PlanAssumption, FS_Subset
<1>3. \A x \in S : \A r \in P : op(r, x) \in P /\ PredictsOne(op(r, x), r, x)
  BY BaseTyped, ProcessCoherent
<1>4. q = (CHOOSE f : Iter(f))[S]
  BY DEF PredictAll, FoldSet, MapThenFoldSet
<1> HIDE DEF m, S, q, op
<1>5. Folding(S, c, P, m, g)
  BY <1>1, <1>2, <1>3, ChoicesMade DEF Folding
<1>6. PICK h : FoldedBy(h, S, c, P, m, g)
  <2> HIDE DEF c, P, g
  <2> QED
    BY <1>5, FoldExists
<1>7. Iter(h)
  <2>1. \A T \in SUBSET S : T # {} => <<c[T], h[T \ {c[T]}]>> \in S \X P
    <3> HIDE DEF P
    <3> QED
      BY <1>6, ChoicesMade DEF FoldedBy, Chooses
  <2> HIDE DEF P
  <2> QED
    BY <1>6, <2>1 DEF FoldedBy, SetChoice
<1>8. ASSUME NEW f, Iter(f)
      PROVE  FoldsAlike(f, S, c, P, m, g)
  <2>1. \A T \in SUBSET S : T # {} => c[T] \in S
    BY ChoicesMade DEF Chooses
  <2> HIDE DEF P
  <2> QED
    BY <1>8, <2>1 DEF FoldsAlike, SetChoice
<1> HIDE DEF Iter, c, g, P
<1>9. q = h[S]
  <2>1. Iter(CHOOSE f : Iter(f))
    BY <1>7
  <2>2. FoldsAlike(CHOOSE f : Iter(f), S, c, P, m, g)
    BY <2>1, <1>8
  <2> QED
    BY <2>2, <1>4, <1>5, <1>6, FoldFollows
<1>10. Carries(R, S, P, m, g)
  <2>1. <<{}, m>> \in R
    BY <1>1 DEF OnePredicted
  <2>2. ASSUME NEW T \in SUBSET S, NEW x \in S \ T, NEW r \in P, <<T, r>> \in R
        PROVE  <<T \cup {x}, g[<<x, r>>]>> \in R
    <3>1. g[<<x, r>>] = op(r, x) /\ op(r, x) \in P /\ PredictsOne(op(r, x), r, x)
      BY <1>3 DEF g
    <3>2. OnePredicted(r) /\ \A d \in Predictions(r) : Pair(d) \in T
      BY <2>2
    <3>3. OnePredicted(op(r, x)) /\ \A d \in Predictions(op(r, x)) : Pair(d) \in T \cup {x}
      BY <3>1, <3>2 DEF PredictsOne, OnePredicted
    <3> QED
      BY <3>1, <3>3
  <2> HIDE DEF R
  <2> QED
    BY <2>1, <2>2 DEF Carries
<1> HIDE DEF R
<1>11. q \in P /\ <<S, q>> \in R
  BY <1>5, <1>6, <1>9, <1>10, FoldInduction
<1> QED
  BY <1>11 DEF P, R, q

LEMMA DeleteContactCoherent ==
    ASSUME NEW others, Foreign(others), NEW p \in Coherent(others), OnePredicted(p),
           now \in Nat, NEW c \in PlanContacts
    PROVE  LET q == DeleteContact(p, c)
           IN  q \in Coherent(others) /\ OnePredicted(q)
<1> DEFINE l == LogDiscovered(p, c)
<1>1. l \in Coherent(others) /\ l.index = p.index
  BY LogDiscoveredCoherent
<1> HIDE DEF l
<1>2. Delete(l, c) \in Coherent(others) /\ OnePredicted(Delete(l, c))
  BY <1>1, DeleteCoherent DEF OnePredicted, Predictions
<1>3. Delete(p, c) \in Coherent(others) /\ OnePredicted(Delete(p, c))
  BY DeleteCoherent DEF OnePredicted, Predictions
<1>4. Pair(c) \in ContactPairs
  BY DEF PlanContacts
<1>5. \/ DeleteContact(p, c) = Predict(Delete(l, c), Pair(c))
      \/ DeleteContact(p, c) = Delete(p, c)
  BY DEF DeleteContact, l
<1>6. /\ Predict(Delete(l, c), Pair(c)) \in Coherent(others)
      /\ OnePredicted(Predict(Delete(l, c), Pair(c)))
  BY <1>2, <1>4, PredictCoherent
<1> QED
  BY <1>3, <1>5, <1>6

\* Whatever order the discovered contacts are taken in, logging them all
\* leaves the plan coherent and its contacts alone.
LEMMA LogsCoherent ==
    ASSUME NEW others, NEW p \in Coherent(others), now \in Nat,
           NEW S \in SUBSET PlanContacts, IsFiniteSet(S)
    PROVE  LET q == FoldSet(LAMBDA d, r : LogDiscovered(r, d), p, S)
           IN  q \in Coherent(others) /\ q.index = p.index
<1> DEFINE c == SetChoice(S)
           P == {q \in Coherent(others) : q.index = p.index}
           g == [y \in S \X P |-> LogDiscovered(y[2], y[1])]
           Iter(h) == h = [T \in SUBSET S |->
                              IF T = {} THEN p
                              ELSE LogDiscovered(h[T \ {CHOOSE x \in T : TRUE}],
                                                 CHOOSE x \in T : TRUE)]
           q == FoldSet(LAMBDA d, r : LogDiscovered(r, d), p, S)
<1>1. \A x \in S : \A r \in P : LogDiscovered(r, x) \in P
  BY LogDiscoveredCoherent
<1>2. Folding(S, c, P, p, g)
  BY <1>1, ChoicesMade DEF Folding
<1>3. PICK h : FoldedBy(h, S, c, P, p, g)
  <2> HIDE DEF c, P, g
  <2> QED
    BY <1>2, FoldExists
<1>4. Iter(h)
  <2>1. \A T \in SUBSET S : T # {} => <<c[T], h[T \ {c[T]}]>> \in S \X P
    <3> HIDE DEF P
    <3> QED
      BY <1>3, ChoicesMade DEF FoldedBy, Chooses
  <2> HIDE DEF P
  <2> QED
    BY <1>3, <2>1 DEF FoldedBy, SetChoice
<1>5. ASSUME NEW f, Iter(f)
      PROVE  FoldsAlike(f, S, c, P, p, g)
  <2>1. \A T \in SUBSET S : T # {} => c[T] \in S
    BY ChoicesMade DEF Chooses
  <2> HIDE DEF P
  <2> QED
    BY <1>5, <2>1 DEF FoldsAlike, SetChoice
<1>6. q = (CHOOSE f : Iter(f))[S]
  BY DEF FoldSet, MapThenFoldSet
<1> HIDE DEF Iter, q, c, g, P
<1>7. q = h[S]
  <2>1. Iter(CHOOSE f : Iter(f))
    BY <1>4
  <2>2. FoldsAlike(CHOOSE f : Iter(f), S, c, P, p, g)
    BY <2>1, <1>5
  <2> QED
    BY <2>2, <1>2, <1>3, <1>6, FoldFollows
<1>8. q \in P
  BY <1>3, <1>7 DEF FoldedBy
<1> QED
  BY <1>8 DEF P, q

\* So does deleting them one by one, with the predictions that each renews.
LEMMA LossesCoherent ==
    ASSUME NEW others, Foreign(others), NEW p \in Coherent(others), OnePredicted(p),
           now \in Nat, NEW S \in SUBSET PlanContacts, IsFiniteSet(S)
    PROVE  LET q == FoldSet(LAMBDA d, r : DeleteContact(r, d), p, S)
           IN  q \in Coherent(others) /\ OnePredicted(q)
<1> DEFINE c == SetChoice(S)
           P == {q \in Coherent(others) : OnePredicted(q)}
           g == [y \in S \X P |-> DeleteContact(y[2], y[1])]
           Iter(h) == h = [T \in SUBSET S |->
                              IF T = {} THEN p
                              ELSE DeleteContact(h[T \ {CHOOSE x \in T : TRUE}],
                                                 CHOOSE x \in T : TRUE)]
           q == FoldSet(LAMBDA d, r : DeleteContact(r, d), p, S)
<1>1. \A x \in S : \A r \in P : DeleteContact(r, x) \in P
  BY DeleteContactCoherent
<1>2. Folding(S, c, P, p, g)
  BY <1>1, ChoicesMade DEF Folding
<1>3. PICK h : FoldedBy(h, S, c, P, p, g)
  <2> HIDE DEF c, P, g
  <2> QED
    BY <1>2, FoldExists
<1>4. Iter(h)
  <2>1. \A T \in SUBSET S : T # {} => <<c[T], h[T \ {c[T]}]>> \in S \X P
    <3> HIDE DEF P
    <3> QED
      BY <1>3, ChoicesMade DEF FoldedBy, Chooses
  <2> HIDE DEF P
  <2> QED
    BY <1>3, <2>1 DEF FoldedBy, SetChoice
<1>5. ASSUME NEW f, Iter(f)
      PROVE  FoldsAlike(f, S, c, P, p, g)
  <2>1. \A T \in SUBSET S : T # {} => c[T] \in S
    BY ChoicesMade DEF Chooses
  <2> HIDE DEF P
  <2> QED
    BY <1>5, <2>1 DEF FoldsAlike, SetChoice
<1>6. q = (CHOOSE f : Iter(f))[S]
  BY DEF FoldSet, MapThenFoldSet
<1> HIDE DEF Iter, q, c, g, P
<1>7. q = h[S]
  <2>1. Iter(CHOOSE f : Iter(f))
    BY <1>4
  <2>2. FoldsAlike(CHOOSE f : Iter(f), S, c, P, p, g)
    BY <2>1, <1>5
  <2> QED
    BY <2>2, <1>2, <1>3, <1>6, FoldFollows
<1>8. q \in P
  BY <1>3, <1>7 DEF FoldedBy
<1> QED
  BY <1>8 DEF P, q

(***************************************************************************)
(* Events of ranges.                                                       *)
(***************************************************************************)
\* A plan stays coherent when ranges and their events go and others come.
LEMMA RangesReplaced ==
    ASSUME NEW rs \in SUBSET PlanRanges, NEW gone \in SUBSET PlanRanges,
           NEW new, NEW p \in Coherent(EventsOf(rs)), new \subseteq PlanRanges
    PROVE  [p EXCEPT !.timeline = (@ \ EventsOf(gone)) \cup EventsOf(new)]
               \in Coherent(EventsOf((rs \ gone) \cup new))
<1> DEFINE q == [p EXCEPT !.timeline = (@ \ EventsOf(gone)) \cup EventsOf(new)]
           all == (rs \ gone) \cup new
<1>1. EventsOf(new) \subseteq PlanEvents
  BY RangeEventsForeign DEF Foreign
<1>2. /\ q \in Plans /\ q.db = p.db /\ q.index = p.index
      /\ q.timeline = (p.timeline \ EventsOf(gone)) \cup EventsOf(new)
  BY <1>1 DEF Coherent, Plans
<1>3. EventsOf(rs \ gone) = EventsOf(rs) \ EventsOf(gone)
  BY EventsTyped DEF EventsOf
<1>4. EventsOf(all) = EventsOf(rs \ gone) \cup EventsOf(new)
  BY DEF EventsOf
<1>5. EventsOfContacts(p.index) \cap EventsOf(gone) = {}
  <2>1. p.index \subseteq PlanContacts
    BY DEF Coherent, Plans
  <2>2. \A e \in EventsOfContacts(p.index) : e.type \in ContactTypes
    BY <2>1, EventsTyped DEF EventsOfContacts
  <2>3. \A e \in EventsOf(gone) : e.type \in RangeTypes
    BY RangeEventsForeign DEF Foreign
  <2> QED
    BY <2>2, <2>3 DEF ContactTypes, RangeTypes
<1>6. p.timeline = EventsOfContacts(p.index) \cup EventsOf(rs)
  BY DEF Coherent
<1>7. q.timeline = EventsOfContacts(q.index) \cup EventsOf(all)
  <2> HIDE DEF q, all
  <2> QED
    BY <1>2, <1>3, <1>4, <1>5, <1>6
<1>8. /\ q.db = q.index /\ IsFiniteSet(q.index)
      /\ \A c, d \in q.index : c # d /\ Pair(c) = Pair(d) => Apart(c, d)
  <2> HIDE DEF q
  <2> QED
    BY <1>2 DEF Coherent
<1> HIDE DEF q, all
<1> QED
  BY <1>2, <1>7, <1>8 DEF Coherent, q, all

(***************************************************************************)
(* The invariant is inductive.                                             *)
(***************************************************************************)
LEMMA PlanStarts == PlanInit => PlanInv
<1> SUFFICES ASSUME PlanInit PROVE PlanInv
  OBVIOUS
<1>1. Contacts \in Plans
  BY DEF PlanInit, Contacts, Plans
<1>2. Contacts \in Coherent(EventsOf(rindex)) /\ Predictions(Contacts) = {}
  BY <1>1, FS_EmptySet
  DEF PlanInit, Contacts, Coherent, EventsOf, EventsOfContacts, Predictions
<1> QED
  BY <1>2 DEF PlanInit, PlanInv, OnePredicted

\* A call about contacts, whose plan is coherent and predicts one contact of
\* a pair at most, keeps the invariant.
LEMMA CallKeepsInv ==
    ASSUME PlanInv, NEW q \in Coherent(EventsOf(rindex)), OnePredicted(q), Become(q),
           UNCHANGED <<now, ranges, rindex, hung>>
    PROVE  PlanInv'
<1>1. Contacts' = q
  BY DEF Coherent, Plans, Become, Contacts
<1>2. EventsOf(rindex)' = EventsOf(rindex)
  BY DEF EventsOf
<1>3. (Contacts \in Coherent(EventsOf(rindex)) /\ OnePredicted(Contacts))'
  BY <1>1, <1>2 DEF OnePredicted, Predictions, Coherent
<1>4. \A s \in rindex' : ~s.asserted /\ ~hung' => Rests(s)'
  BY DEF PlanInv, Rests
<1> QED
  BY <1>3, <1>4 DEF PlanInv

\* What every call finds.
LEMMA PlanFound ==
    ASSUME PlanInv
    PROVE  /\ now \in Nat /\ Foreign(EventsOf(rindex))
           /\ Contacts \in Coherent(EventsOf(rindex)) /\ OnePredicted(Contacts)
           /\ contacts = cindex /\ cindex \subseteq PlanContacts /\ IsFiniteSet(cindex)
<1>1. Contacts.db = contacts /\ Contacts.index = cindex
  BY DEF Contacts
<1>2. Foreign(EventsOf(rindex))
  BY RangeEventsForeign DEF PlanInv
<1> QED
  BY <1>1, <1>2 DEF PlanInv, Coherent, Plans

LEMMA EntryTyped ==
    ASSUME NEW pair \in ContactPairs, NEW start \in Int, NEW stop \in Int,
           NEW kind \in Kinds
    PROVE  Contact(start, stop, pair, kind) \in PlanContacts
<1>1. pair \in Nat \X Nat
  BY PlanAssumption
<1> QED
  BY <1>1 DEF Contact, PlanContacts, Pair

LEMMA ManageContactStep ==
    ASSUME PlanInv, NEW pair \in ContactPairs, NEW a \in Starts, NEW b \in Stops,
           ManageContact(pair, a, b)
    PROVE  PlanInv'
<1> DEFINE c == Contact(a, b, pair, "managed")
<1>1. c \in PlanContacts /\ c.kind # "predicted"
  <2>1. c.kind = "managed"
    BY DEF Contact
  <2> QED
    BY <2>1, EntryTyped, PlanAssumption DEF Kinds
<1> HIDE DEF c
<1>2. /\ InsertContact(Contacts, c) \in Coherent(EventsOf(rindex))
      /\ OnePredicted(InsertContact(Contacts, c))
  BY <1>1, PlanFound, InsertCoherent DEF OnePredicted
<1> QED
  BY <1>2, CallKeepsInv DEF ManageContact, c

LEMMA DiscoverContactStep ==
    ASSUME PlanInv, NEW pair \in ContactPairs, DiscoverContact(pair)
    PROVE  PlanInv'
<1> DEFINE c == Contact(now, MaxPosixTime, pair, "discovered")
<1>1. c \in PlanContacts /\ c.kind # "predicted"
  <2>1. c.kind = "discovered"
    BY DEF Contact
  <2> QED
    BY <2>1, EntryTyped, PlanAssumption, PlanFound DEF Kinds
<1> HIDE DEF c
<1>2. /\ InsertContact(Contacts, c) \in Coherent(EventsOf(rindex))
      /\ OnePredicted(InsertContact(Contacts, c))
  BY <1>1, PlanFound, InsertCoherent DEF OnePredicted
<1> QED
  BY <1>2, CallKeepsInv DEF DiscoverContact, c

LEMMA RemoveContactStep ==
    ASSUME PlanInv, NEW c \in cindex, RemoveContact(c)
    PROVE  PlanInv'
<1>1. /\ DeleteContact(Contacts, c) \in Coherent(EventsOf(rindex))
      /\ OnePredicted(DeleteContact(Contacts, c))
  BY PlanFound, DeleteContactCoherent
<1> QED
  BY <1>1, CallKeepsInv DEF RemoveContact

LEMMA RemoveAllContactsStep ==
    ASSUME PlanInv, NEW pair \in ContactPairs, RemoveAllContacts(pair)
    PROVE  PlanInv'
<1> DEFINE own  == {c \in cindex : Pair(c) = pair}
           lost == {c \in own : c.kind = "discovered"}
           p    == FoldSet(LAMBDA c, r : LogDiscovered(r, c), Contacts, lost)
           q    == FoldSet(LAMBDA c, r : Delete(r, c), p, own)
<1>1. /\ own \in SUBSET PlanContacts /\ IsFiniteSet(own)
      /\ lost \in SUBSET PlanContacts /\ IsFiniteSet(lost)
  <2>1. own \subseteq cindex /\ lost \subseteq cindex
    OBVIOUS
  <2> HIDE DEF own, lost
  <2> QED
    BY <2>1, PlanFound, FS_Subset
<1>2. p \in Coherent(EventsOf(rindex)) /\ p.index = Contacts.index
  <2> HIDE DEF own, lost
  <2> QED
    BY <1>1, PlanFound, LogsCoherent
<1>3. q \in Coherent(EventsOf(rindex)) /\ q.index = p.index \ own
  <2> HIDE DEF p
  <2>1. Foreign(EventsOf(rindex)) /\ p \in Coherent(EventsOf(rindex))
    BY <1>2, PlanFound
  <2> HIDE DEF own
  <2>2. own \in SUBSET PlanContacts /\ IsFiniteSet(own)
    BY <1>1
  <2>3. LET m == FoldSet(LAMBDA d, r : Delete(r, d), p, own)
        IN  m \in Coherent(EventsOf(rindex)) /\ m.index = p.index \ own /\ m.log = p.log
    BY <2>1, <2>2, DeletesCoherent
  <2> QED
    BY <2>3
<1>4. Become(q) /\ UNCHANGED <<now, ranges, rindex, hung>>
  BY DEF RemoveAllContacts
<1> HIDE DEF q, p, own, lost
<1>5. OnePredicted(q)
  BY <1>2, <1>3, PlanFound DEF OnePredicted, Predictions
<1> QED
  BY <1>3, <1>4, <1>5, CallKeepsInv

LEMMA LosePeerStep ==
    ASSUME PlanInv, NEW peer, LosePeer(peer)
    PROVE  PlanInv'
<1> DEFINE lost == {c \in contacts : c.kind = "discovered" /\ {c.from, c.to} = {peer, Own}}
           q    == FoldSet(LAMBDA c, r : DeleteContact(r, c), Contacts, lost)
<1>1. lost \in SUBSET PlanContacts /\ IsFiniteSet(lost)
  <2>1. lost \subseteq contacts
    OBVIOUS
  <2> HIDE DEF lost
  <2> QED
    BY <2>1, PlanFound, FS_Subset
<1>2. q \in Coherent(EventsOf(rindex)) /\ OnePredicted(q)
  <2> HIDE DEF lost
  <2> QED
    BY <1>1, PlanFound, LossesCoherent
<1>3. Become(q) /\ UNCHANGED <<now, ranges, rindex, hung>>
  BY DEF LosePeer
<1> HIDE DEF q
<1> QED
  BY <1>2, <1>3, CallKeepsInv

LEMMA PredictionStep ==
    ASSUME PlanInv,
           (\E pair \in ContactPairs : PredictContacts(pair)) \/ PredictAllContacts
    PROVE  PlanInv'
<1>1. ASSUME NEW pair \in ContactPairs, PredictContacts(pair)
      PROVE  PlanInv'
  <2>1. /\ Predict(Contacts, pair) \in Coherent(EventsOf(rindex))
        /\ OnePredicted(Predict(Contacts, pair))
    BY PlanFound, PredictCoherent
  <2> QED
    BY <1>1, <2>1, CallKeepsInv DEF PredictContacts
<1>2. ASSUME PredictAllContacts
      PROVE  PlanInv'
  <2>1. /\ PredictAll(Contacts) \in Coherent(EventsOf(rindex))
        /\ OnePredicted(PredictAll(Contacts))
    BY PlanFound, PredictAllCoherent
  <2> QED
    BY <1>2, <2>1, CallKeepsInv DEF PredictAllContacts
<1> QED
  BY <1>1, <1>2

\* A call about ranges moves events along with its ranges.
RangesMoved(gone, new) ==
    /\ rindex' = (rindex \ gone) \cup new
    /\ timeline' = (timeline \ EventsOf(gone)) \cup EventsOf(new)
    /\ UNCHANGED <<contacts, cindex, contactLog>>

LEMMA RangesKeepInv ==
    ASSUME PlanInv, NEW gone \in SUBSET rindex, NEW new \in SUBSET PlanRanges,
           RangesMoved(gone, new), now' = now, hung' \in BOOLEAN,
           ranges' = {s \in rindex' : s.asserted},
           \A s \in rindex' : ~s.asserted /\ ~hung' => Rests(s)'
    PROVE  PlanInv'
<1> DEFINE q == [Contacts EXCEPT !.timeline = (@ \ EventsOf(gone)) \cup EventsOf(new)]
<1>1. rindex \in SUBSET PlanRanges /\ gone \in SUBSET PlanRanges
  BY DEF PlanInv
<1>2. q \in Coherent(EventsOf((rindex \ gone) \cup new))
  BY <1>1, RangesReplaced DEF PlanInv
<1>3. Contacts' = q
  <2> DEFINE T == (timeline \ EventsOf(gone)) \cup EventsOf(new)
  <2>1. timeline' = T /\ UNCHANGED <<contacts, cindex, contactLog>>
    BY DEF RangesMoved
  <2>2. q = [Contacts EXCEPT !.timeline = T]
    BY DEF Contacts
  <2> HIDE DEF T, q
  <2> QED
    BY <2>1, <2>2 DEF Contacts
<1>4. EventsOf(rindex)' = EventsOf((rindex \ gone) \cup new)
  BY DEF EventsOf, RangesMoved
<1>5. (Contacts \in Coherent(EventsOf(rindex)))'
  <2> HIDE DEF q
  <2> QED
    BY <1>2, <1>3, <1>4 DEF Coherent
<1>6. OnePredicted(Contacts)'
  BY DEF PlanInv, OnePredicted, Predictions, Contacts, RangesMoved
<1>7. rindex' \subseteq PlanRanges
  BY <1>1 DEF RangesMoved
<1> QED
  BY <1>5, <1>6, <1>7 DEF PlanInv

LEMMA InsertRangeStep ==
    ASSUME PlanInv, NEW pair \in RangePairs, NEW a \in Starts, NEW b \in Stops,
           InsertRange(pair, a, b)
    PROVE  PlanInv'
<1> DEFINE r    == RangeEntry(a, b, pair, TRUE)
           here == At(pair, a)
           out  == KeptOut(rindex \ here, r, here # {})
           new  == IF out THEN {} ELSE Entered(r)
<1>1. /\ rindex' = (rindex \ here) \cup new
      /\ timeline' = (timeline \ EventsOf(here)) \cup EventsOf(new)
      /\ ranges' = IF out THEN ranges ELSE ranges \cup {r}
      /\ ~hung /\ (\A s \in here : ~s.asserted)
      /\ UNCHANGED <<now, contacts, cindex, contactLog, hung>>
  BY DEF InsertRange
<1>2. /\ r \in PlanRanges /\ r.asserted /\ r.start = a /\ r.stop = b
      /\ Pair(r) = pair /\ pair = <<pair[1], pair[2]>>
  <2>1. pair \in Nat \X Nat /\ a \in Int /\ b \in Int
    BY PlanAssumption
  <2> QED
    BY <2>1 DEF RangeEntry, PlanRanges, Pair
<1>3. /\ Entered(r) \subseteq PlanRanges /\ r \in Entered(r)
      /\ \A s \in Entered(r) : s # r =>
            ~s.asserted /\ Canonical(pair) /\ s = RangeEntry(a, b, Opposite(pair), FALSE)
  <2>1. pair \in Nat \X Nat /\ a \in Int /\ b \in Int
    BY PlanAssumption
  <2>2. RangeEntry(a, b, Opposite(pair), FALSE) \in PlanRanges
    BY <2>1 DEF RangeEntry, PlanRanges, Opposite
  <2>3. ~RangeEntry(a, b, Opposite(pair), FALSE).asserted
    BY DEF RangeEntry
  <2> HIDE DEF r
  <2> QED
    BY <1>2, <2>2, <2>3 DEF Entered
<1>4. here \subseteq rindex /\ here \subseteq PlanRanges
  BY DEF At, PlanInv
<1> HIDE DEF out
<1>5. new \subseteq PlanRanges
  BY <1>3
<1>6. ranges' = {s \in rindex' : s.asserted}
  <2> HIDE DEF r, here
  <2>1. ranges = {s \in rindex : s.asserted}
    BY DEF PlanInv
  <2> QED
    BY <1>1, <1>2, <1>3, <2>1
<1>7. ASSUME NEW s \in rindex', ~s.asserted
      PROVE  Rests(s)'
  <2>1. CASE s \in rindex
    <3>1. Rests(s)
      BY <1>1, <1>7, <2>1 DEF PlanInv
    <3> QED
      BY <1>1, <3>1 DEF Rests
  <2>2. CASE s \notin rindex
    <3>1. ~out /\ s \in Entered(r) /\ s # r
      BY <1>1, <1>2, <1>7, <2>2
    <3>2. Canonical(pair) /\ s = RangeEntry(a, b, Opposite(pair), FALSE)
      BY <3>1, <1>3
    <3>3. s.start = a /\ s.stop = b /\ Opposite(Pair(s)) = pair
      BY <3>2, <1>2 DEF RangeEntry, Opposite, Pair
    <3>4. r \in ranges'
      BY <1>1, <3>1
    <3> QED
      BY <3>2, <3>3, <3>4 DEF Rests
  <2> QED
    BY <2>1, <2>2
<1> HIDE DEF r, here, new
<1>8. RangesMoved(here, new) /\ now' = now /\ hung' \in BOOLEAN
  BY <1>1 DEF RangesMoved, PlanInv
<1>9. \A s \in rindex' : ~s.asserted /\ ~hung' => Rests(s)'
  BY <1>7
<1>10. here \in SUBSET rindex /\ new \in SUBSET PlanRanges
  BY <1>4, <1>5
<1> QED
  BY <1>6, <1>8, <1>9, <1>10, RangesKeepInv

LEMMA RemoveRangeStep ==
    ASSUME PlanInv, NEW r \in rindex, RemoveRange(r)
    PROVE  PlanInv'
<1> DEFINE gone == WithImputed({r})
<1>1. /\ gone \subseteq rindex /\ r \in gone /\ \A s \in gone \ {r} : ~s.asserted
      /\ \A s \in rindex : ~s.asserted /\ Canonical(Pair(r)) /\ s.start = r.start
                            /\ Pair(s) = Opposite(Pair(r)) => s \in gone
  BY DEF WithImputed
<1>2. /\ rindex' = rindex \ gone /\ timeline' = timeline \ EventsOf(gone)
      /\ ranges' = ranges \ gone /\ ~hung
      /\ UNCHANGED <<now, contacts, cindex, contactLog, hung>>
  BY DEF RemoveRange, DeleteRanges
<1> HIDE DEF gone
<1>3. rindex \subseteq PlanRanges /\ ranges = {s \in rindex : s.asserted}
  BY DEF PlanInv
<1>4. ranges' = {s \in rindex' : s.asserted}
  BY <1>2, <1>3
<1>5. ASSUME NEW s \in rindex', ~s.asserted
      PROVE  Rests(s)'
  <2> DEFINE e == RangeEntry(s.start, s.stop, Opposite(Pair(s)), TRUE)
  <2>1. s \in rindex /\ s \notin gone /\ Canonical(Opposite(Pair(s))) /\ e \in ranges
    BY <1>2, <1>5 DEF PlanInv, Rests
  <2>2. Pair(e) = Opposite(Pair(s)) /\ e.start = s.start /\ Pair(s) = Opposite(Pair(e))
        /\ e.asserted
    BY DEF RangeEntry, Opposite, Pair
  <2> HIDE DEF e
  <2>3. e # r
    BY <1>1, <1>5, <2>1, <2>2
  <2>4. e \in ranges'
    BY <1>1, <1>2, <2>1, <2>2, <2>3
  <2> QED
    BY <2>1, <2>4 DEF Rests, e
<1>6. RangesMoved(gone, {}) /\ now' = now /\ hung' \in BOOLEAN
  BY <1>2 DEF RangesMoved, EventsOf, PlanInv
<1>7. \A s \in rindex' : ~s.asserted /\ ~hung' => Rests(s)'
  BY <1>5
<1> QED
  BY <1>1, <1>4, <1>6, <1>7, RangesKeepInv

LEMMA RemoveAllRangesStep ==
    ASSUME PlanInv, NEW pair \in RangePairs, RemoveAllRanges(pair)
    PROVE  PlanInv'
<1> DEFINE own   == {r \in rindex : Pair(r) = pair}
           other == IF Canonical(pair) /\ pair[1] # pair[2]
                    THEN {r \in rindex : Pair(r) = Opposite(pair)} ELSE {}
           stays == {r \in other : r.asserted}
           gone  == own \cup {r \in other : \A s \in stays : Precedes(r, s)}
<1>1. /\ rindex' = rindex \ gone /\ timeline' = timeline \ EventsOf(gone)
      /\ ranges' = ranges \ gone /\ ~hung /\ hung' = (stays # {})
      /\ UNCHANGED <<now, contacts, cindex, contactLog>>
  BY DEF RemoveAllRanges, DeleteRanges
<1>2. rindex \subseteq PlanRanges /\ ranges = {s \in rindex : s.asserted}
  BY DEF PlanInv
<1>3. gone \subseteq rindex
  OBVIOUS
<1>4. ASSUME stays = {}
      PROVE  gone = own \cup other
  BY <1>4
<1>5. ranges' = {s \in rindex' : s.asserted}
  <2> HIDE DEF gone
  <2> QED
    BY <1>1, <1>2
<1>6. ASSUME NEW s \in rindex', ~s.asserted, ~hung'
      PROVE  Rests(s)'
  <2> DEFINE e == RangeEntry(s.start, s.stop, Opposite(Pair(s)), TRUE)
  <2>1. gone = own \cup other
    <3> HIDE DEF gone, own, other
    <3> QED
      BY <1>1, <1>4, <1>6
  <2>2. s \in rindex /\ s \notin gone /\ Canonical(Opposite(Pair(s))) /\ e \in ranges
    <3> HIDE DEF gone
    <3> QED
      BY <1>1, <1>6 DEF PlanInv, Rests
  <2>3. Pair(e) = Opposite(Pair(s)) /\ Pair(s) = Opposite(Pair(e))
        /\ s.from \in Nat /\ s.to \in Nat
    BY <1>2, <2>2 DEF RangeEntry, Opposite, Pair, PlanRanges
  <2>4. pair \in Nat \X Nat
    BY PlanAssumption
  <2>5. Pair(s) # pair /\ s \notin other
    <3> HIDE DEF other, gone
    <3> QED
      BY <2>1, <2>2
  <2>6. Pair(e) # pair
    <3>1. SUFFICES ASSUME Pair(e) = pair PROVE FALSE
      OBVIOUS
    <3>2. Pair(s) = Opposite(pair) /\ Canonical(pair)
      BY <3>1, <2>2, <2>3
    <3>3. pair[1] # pair[2]
      BY <3>2, <2>4, <2>5 DEF Opposite
    <3> QED
      BY <3>2, <3>3, <2>2, <2>5
  <2>7. e \notin other
    <3>1. SUFFICES ASSUME e \in other PROVE FALSE
      OBVIOUS
    <3>2. Canonical(pair) /\ pair[1] # pair[2] /\ Pair(e) = Opposite(pair)
      BY <3>1
    <3>3. Canonical(Opposite(pair))
      BY <3>2, <2>2, <2>3
    <3> QED
      BY <3>2, <3>3, <2>4 DEF Canonical, Opposite
  <2>8. e \in ranges'
    <3>1. e \notin own
      BY <2>6
    <3> HIDE DEF e, own, other, gone
    <3> QED
      BY <1>1, <2>1, <2>2, <2>7, <3>1
  <2> HIDE DEF e
  <2> QED
    BY <2>2, <2>8 DEF Rests, e
<1>7. RangesMoved(gone, {})
  <2> HIDE DEF gone
  <2> QED
    BY <1>1 DEF RangesMoved, EventsOf
<1>8. hung' \in BOOLEAN
  BY <1>1
<1> HIDE DEF gone, stays, own, other
<1>9. now' = now
  BY <1>1
<1> QED
  BY <1>2, <1>3, <1>5, <1>6, <1>7, <1>8, <1>9, RangesKeepInv

LEMMA TickStep ==
    ASSUME PlanInv, Tick
    PROVE  PlanInv'
<1>1. now' \in Nat /\ UNCHANGED <<contacts, ranges, cindex, rindex, timeline, contactLog, hung>>
  BY DEF PlanInv, Tick
<1>2. Contacts' = Contacts /\ EventsOf(rindex)' = EventsOf(rindex)
  BY <1>1 DEF Contacts, EventsOf
<1>3. (Contacts \in Coherent(EventsOf(rindex)) /\ OnePredicted(Contacts))'
  BY <1>2 DEF OnePredicted, Predictions, Coherent, PlanInv
<1>4. \A s \in rindex' : ~s.asserted /\ ~hung' => Rests(s)'
  BY <1>1 DEF PlanInv, Rests
<1> QED
  BY <1>1, <1>3, <1>4 DEF PlanInv

(***************************************************************************)
(* The theorems.                                                           *)
(***************************************************************************)
\* Whatever is entered, discovered, lost, predicted or deleted, in whatever
\* order (rfx.c), the database, the indexes and the timeline agree, no two
\* contacts of a pair of nodes meet, and imputed ranges rest on canonical
\* ones.
THEOREM PlanConsistent == PlanSpec => []PlanInv
<1>1. PlanInv /\ [PlanNext]_planVars => PlanInv'
  <2> SUFFICES ASSUME PlanInv, [PlanNext]_planVars PROVE PlanInv'
    OBVIOUS
  <2>1. ASSUME NEW pair \in ContactPairs, NEW a \in Starts, NEW b \in Stops,
               ManageContact(pair, a, b)
        PROVE  PlanInv'
    BY <2>1, ManageContactStep
  <2>2. ASSUME NEW pair \in ContactPairs, DiscoverContact(pair) PROVE PlanInv'
    BY <2>2, DiscoverContactStep
  <2>3. ASSUME NEW c \in cindex, RemoveContact(c) PROVE PlanInv'
    BY <2>3, RemoveContactStep
  <2>4. ASSUME NEW pair \in ContactPairs, RemoveAllContacts(pair) PROVE PlanInv'
    BY <2>4, RemoveAllContactsStep
  <2>5. ASSUME NEW pair \in ContactPairs, LosePeer(pair[1]) PROVE PlanInv'
    BY <2>5, LosePeerStep
  <2>6. ASSUME (\E pair \in ContactPairs : PredictContacts(pair)) \/ PredictAllContacts
        PROVE  PlanInv'
    BY <2>6, PredictionStep
  <2>7. ASSUME NEW pair \in RangePairs, NEW a \in Starts, NEW b \in Stops,
               InsertRange(pair, a, b)
        PROVE  PlanInv'
    BY <2>7, InsertRangeStep
  <2>8. ASSUME NEW r \in rindex, RemoveRange(r) PROVE PlanInv'
    BY <2>8, RemoveRangeStep
  <2>9. ASSUME NEW pair \in RangePairs, RemoveAllRanges(pair) PROVE PlanInv'
    BY <2>9, RemoveAllRangesStep
  <2>10. CASE Tick
    BY <2>10, TickStep
  <2>11. CASE UNCHANGED planVars
    <3>1. Contacts' = Contacts /\ EventsOf(rindex)' = EventsOf(rindex)
      BY <2>11 DEF planVars, Contacts, EventsOf
    <3>2. (Contacts \in Coherent(EventsOf(rindex)) /\ OnePredicted(Contacts))'
      BY <3>1 DEF OnePredicted, Predictions, Coherent, PlanInv
    <3>3. \A s \in rindex' : ~s.asserted /\ ~hung' => Rests(s)'
      BY <2>11 DEF planVars, PlanInv, Rests
    <3> QED
      BY <2>11, <3>2, <3>3 DEF planVars, PlanInv
  <2> QED
    BY <2>1, <2>2, <2>3, <2>4, <2>5, <2>6, <2>7, <2>8, <2>9, <2>10, <2>11 DEF PlanNext
<1> QED
  BY <1>1, PlanStarts, PTL DEF PlanSpec

\* No two contacts of a pair of nodes have an instant in common and at most
\* one of them is a prediction, for any times, rates and log lengths
\* (rfx_insert_contact, deleteContact, rfx_predict_contacts).
THEOREM ContactsApart == PlanSpec => []ContactsDisjoint
<1>1. PlanInv => ContactsDisjoint
  <2> SUFFICES ASSUME PlanInv PROVE ContactsDisjoint
    OBVIOUS
  <2>1. Contacts.index = cindex
    BY DEF Contacts
  <2>2. \A c, d \in cindex : c # d /\ Pair(c) = Pair(d) => Apart(c, d)
    BY <2>1 DEF PlanInv, Coherent
  <2>3. \A c, d \in cindex : Pair(c) = Pair(d) /\ c.kind = "predicted"
                             /\ d.kind = "predicted" => c = d
    BY <2>1 DEF PlanInv, OnePredicted, Predictions
  <2> QED
    BY <2>2, <2>3 DEF ContactsDisjoint, Apart
<1> QED
  BY <1>1, PlanConsistent, PTL

\* The lists in the database, the indexes in working memory and the timeline
\* agree after every call, however many entries it deletes and predicts.
THEOREM IndexesAgree == PlanSpec => []PlanIndexed
<1>1. PlanInv => PlanIndexed
  <2> SUFFICES ASSUME PlanInv PROVE PlanIndexed
    OBVIOUS
  <2>1. Contacts.index = cindex /\ Contacts.db = contacts /\ Contacts.timeline = timeline
    BY DEF Contacts
  <2>2. cindex = contacts /\ timeline = EventsOfContacts(cindex) \cup EventsOf(rindex)
    BY <2>1 DEF PlanInv, Coherent
  <2>3. ranges = {r \in rindex : r.asserted}
    BY DEF PlanInv
  <2>4. timeline = (UNION {ContactEvents(c) : c \in cindex}) \cup EventsOf(rindex)
    BY <2>2 DEF EventsOfContacts
  <2> QED
    BY <2>2, <2>3, <2>4, Zenon DEF PlanIndexed
<1> QED
  BY <1>1, PlanConsistent, PTL

\* Every imputed range rests on an asserted one of the other direction
\* (insertRXref, rfx_insert_range, deleteRange), until the wild card hangs.
THEOREM ImputedRest == PlanSpec => []ImputedBacked
<1>1. PlanInv => ImputedBacked
  BY DEF PlanInv, Rests, ImputedBacked
<1> QED
  BY <1>1, PlanConsistent, PTL

=============================================================================
