------------------------------ MODULE MCSdrStore ------------------------------
(***************************************************************************)
(* The heap and the transactions together: the calls that tasks make are   *)
(* allocations and releases of objects, noted in the tasks' directory in   *)
(* the same transaction.                                                   *)
(***************************************************************************)
EXTENDS SdrHeap, SdrTransaction

Noted(ds, puts, objects) == puts \o <<<<Directory, objects>>>>

HeapUpdates(ds) ==
    {Noted(ds, SmallAlloc(ds, i), ds[Directory] \cup {Small(SmallBlock(ds, i), i)}) :
        i \in {s \in SmallSizes : SmallFits(ds, s)}}
    \cup {Noted(ds, LargeAlloc(ds, n), ds[Directory] \cup {Large(LargeBlock(ds, n), n)}) :
        n \in {s \in LargeSizes : LargeFits(ds, s)}}
    \cup {Noted(ds, IF o[1] = "small" THEN SmallFree(ds, o[2]) ELSE LargeFree(ds, o[2]),
                ds[Directory] \ {o}) : o \in ds[Directory]}

-----------------------------------------------------------------------------
(***************************************************************************)
(* The transactions.                                                       *)
(***************************************************************************)
\* Every variable has its type.
TypeOK ==
    /\ config \in Configs
    /\ DOMAIN file = Addresses /\ DOMAIN dram = Addresses /\ DOMAIN committed = Addresses
    /\ \A i \in DOMAIN log : log[i].addr \in Addresses /\ log[i].whole \in BOOLEAN
    /\ \A i \in DOMAIN logEntries : logEntries[i] \in 1..Len(log)
    /\ locked \in BOOLEAN /\ owner \in Tasks \cup {None}
    /\ xnDepth \in 0..MaxDepth /\ xnCanceled \in BOOLEAN
    /\ phase \in {"open", "commit", "reverse", "clear", "unlock"}
    /\ undone \in 0..Len(logEntries)
    /\ \A t \in Tasks : view[t].stage \in {"none", "control", "data", "file", "dram"}

(***************************************************************************)
(* The heap, in the dataspace as transactions leave it.                    *)
(***************************************************************************)
\* The words at which the small pool's blocks begin, the large pool's likewise.
SmallBlocks(ds) ==
    LET start[a \in (2 * MapSize + 1)..(2 * EndOfHeap + 1)] ==
            IF a >= ds[EndOfSmallPool] THEN {}
            ELSE {a} \cup start[a + ds[Word(a)][2] + 1]
    IN  start[2 * MapSize + 1]
LargeBlocks(ds) ==
    LET start[a \in (MapSize + 1)..(EndOfHeap + 1)] ==
            IF a > EndOfHeap THEN {} ELSE {a} \cup start[TrailerOf(ds, a) + 1]
    IN  start[ds[StartOfLargePool]]

IsFreeSmall(ds, a) == ds[Word(a)][1] # InUse
IsFreeLarge(ds, a) == NextOf(ds, a) # InUse

\* The blocks of a free list; at most as many as there are addresses.
SmallList(ds, i) ==
    LET from[n \in 0..(2 * HeapSize), a \in 0..(2 * EndOfHeap)] ==
            IF a = 0 \/ n = 0 THEN <<>> ELSE <<a>> \o from[n - 1, ds[Word(a)][1]]
    IN  from[2 * HeapSize, ds[FirstSmallFree(i)]]
LargeList(ds, b) ==
    LET from[n \in 0..HeapSize, a \in 0..EndOfHeap] ==
            IF a = 0 \/ n = 0 THEN <<>> ELSE <<a>> \o from[n - 1, NextOf(ds, a)]
    IN  from[HeapSize, ds[FirstLargeFree(b)]]

\* The pools and the space between them make up the heap; the large pool's blocks
\* know their own ends; every free block is in the list of its size, once, with
\* its neighbors there; and no two free large blocks are neighbors in the pool.
WellFormed(ds) ==
    LET small == SmallBlocks(ds)
        large == LargeBlocks(ds)
    IN  /\ ds[UnassignedSpace] = 2 * ds[StartOfLargePool] - ds[EndOfSmallPool] - 1
        /\ ds[UnassignedSpace] >= 0
        /\ \A a \in large : StartOf(ds, TrailerOf(ds, a)) = a
        /\ \A a \in large : IsFreeLarge(ds, a) /\ TrailerOf(ds, a) < EndOfHeap =>
               ~IsFreeLarge(ds, TrailerOf(ds, a) + 1)
        /\ \A i \in SmallSizes : LET list == SmallList(ds, i)
               IN  /\ IsInjective(list)
                   /\ ToSet(list) = {a \in small : IsFreeSmall(ds, a) /\ ds[Word(a)][2] = i}
        /\ \A b \in 0..LastBucket : LET list == LargeList(ds, b)
               IN  /\ IsInjective(list)
                   /\ ToSet(list) = {a \in large : /\ IsFreeLarge(ds, a)
                                                   /\ ComputeBucket(SizeOf(ds, a)) = b}
                   /\ \A j \in DOMAIN list : PrevOf(ds, TrailerOf(ds, list[j]))
                                                = IF j = 1 THEN 0 ELSE list[j - 1]

HeapWellFormed == phase = "unlock" => WellFormed(committed)

\* Where a held object is.
Held(ds, pool) == {o[2] : o \in {x \in ds[Directory] : x[1] = pool}}

\* The blocks in use are the objects that tasks hold, each as long as it was asked
\* to be, and no other address passes for an object when it is to be freed,
\* whatever old blocks left there.
ObjectsIntact ==
    phase = "unlock" =>
    LET ds == committed
    IN  /\ Held(ds, "small") = {a \in SmallBlocks(ds) : ~IsFreeSmall(ds, a)}
        /\ Held(ds, "large") = {a \in LargeBlocks(ds) : ~IsFreeLarge(ds, a)}
        /\ Held(ds, "large") = {a \in Cells : ScaleOf(ds, a) = "LargeObject"}
        /\ \A o \in ds[Directory] :
               o[3] <= IF o[1] = "small" THEN ds[Word(o[2])][2] ELSE SizeOf(ds, o[2])

-----------------------------------------------------------------------------
CONSTANTS t1, t2
InFiles(d) == [reversible |-> TRUE, logInFile |-> TRUE, inFile |-> TRUE, inDram |-> d]
Protected == {InFiles(FALSE), InFiles(TRUE)}
FileOnly == {InFiles(FALSE)}
TaskSymmetry == Permutations(Tasks)
=============================================================================
