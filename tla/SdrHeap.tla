------------------------------- MODULE SdrHeap -------------------------------
(***************************************************************************)
(* The heap of an SDR (sdrmgt.c): what the allocation and the release of   *)
(* an object read from the dataspace, and the updates of the dataspace     *)
(* that they make, in order.  An update is one call of _sdrput: an address *)
(* and its new content.  SdrTransaction says what becomes of them.         *)
(*                                                                         *)
(* The small pool grows from the bottom of the heap, in words; the large   *)
(* pool grows from the top, in double words, which is the size of a large  *)
(* block's leading and trailing overhead.  Address 0 is no address.        *)
(***************************************************************************)
EXTENDS Integers, Sequences, SequencesExt

CONSTANTS
    MapSize,       \* sizeof(SdrMap), in double words: the heap begins there
    HeapSize,      \* of the heap, in double words
    SmallSizes,    \* sizes of small objects, in words
    SmallMaxAddr,  \* SMALL_MAX_ADDR: the small pool ends there at the latest
    LargeSizes,    \* sizes of large objects, in double words
    LastBucket     \* LARGE_ORDERS - 1

ASSUME HeapAssumption ==
    /\ MapSize \in Nat /\ HeapSize \in Nat \ {0} /\ LastBucket \in Nat /\ SmallMaxAddr \in Nat
    /\ SmallSizes \subseteq Nat \ {0} /\ LargeSizes \subseteq Nat \ {0}

InUse == -1  \* SMALL_IN_USE, LARGE_IN_USE

(***************************************************************************)
(* Addresses: the fields of SdrMap, the words of the small pool, the       *)
(* double words of the large pool, and a directory of the objects the      *)
(* applications hold, which they keep in objects of their own.             *)
(***************************************************************************)
EndOfSmallPool == <<"endOfSmallPool", 0>>
StartOfLargePool == <<"startOfLargePool", 0>>
UnassignedSpace == <<"unassignedSpace", 0>>
Directory == <<"directory", 0>>
FirstSmallFree(i) == <<"firstSmallFree", i>>
FirstLargeFree(b) == <<"firstLargeFree", b>>
Word(a) == <<"word", a>>
Cell(a) == <<"cell", a>>

EndOfHeap == MapSize + HeapSize
Words == (2 * MapSize + 1) .. (2 * EndOfHeap)
Cells == (MapSize + 1) .. EndOfHeap

Addresses ==
    {EndOfSmallPool, StartOfLargePool, UnassignedSpace, Directory}
        \cup {FirstSmallFree(i) : i \in SmallSizes}
        \cup {FirstLargeFree(b) : b \in 0..LastBucket}
        \cup {Word(a) : a \in Words} \cup {Cell(a) : a \in Cells}

\* initSdrMap: the pools are empty.
NewDataspace ==
    [x \in Addresses |->
        CASE x = UnassignedSpace -> 2 * HeapSize
          [] x = EndOfSmallPool -> 2 * MapSize + 1
          [] x = StartOfLargePool -> EndOfHeap + 1
          [] x = Directory -> {}
          [] x[1] \in {"word", "cell"} -> <<0, 0>>
          [] OTHER -> 0]

\* The dataspace after a sequence of updates.
Updated(ds, puts) ==
    FoldLeft(LAMBDA d, put : [d EXCEPT ![put[1]] = put[2]], ds, puts)

\* What a step does after the puts of the steps before it.
Then(ds, puts, Step(_)) == puts \o Step(Updated(ds, puts))

(***************************************************************************)
(* Overheads.  A small block has one word before its data, which holds the *)
(* next free block or InUse, and the size.  A large block has the size and *)
(* the next free block (or InUse) before its data, and the block's address *)
(* and the previous free block (or InUse) after it.                        *)
(***************************************************************************)
SizeOf(ds, leader) == ds[Cell(leader)][1]
NextOf(ds, leader) == ds[Cell(leader)][2]
StartOf(ds, trailer) == ds[Cell(trailer)][1]
PrevOf(ds, trailer) == ds[Cell(trailer)][2]
TrailerOf(ds, leader) == leader + 1 + SizeOf(ds, leader)

\* What a task knows of an object: its pool, the address of its overhead and the
\* size it asked for.
Small(block, n) == <<"small", block, n>>
Large(leader, n) == <<"large", leader, n>>

\* scaleOf, for a purported large object.
ScaleOf(ds, leader) ==
    IF /\ leader >= ds[StartOfLargePool] /\ leader \in Cells
       /\ SizeOf(ds, leader) > 0 /\ TrailerOf(ds, leader) \in Cells
       /\ StartOf(ds, TrailerOf(ds, leader)) = leader
       /\ NextOf(ds, leader) = InUse
       /\ PrevOf(ds, TrailerOf(ds, leader)) = InUse
    THEN "LargeObject" ELSE "NotAnObject"

(***************************************************************************)
(* Small objects: _sdrzalloc and the first half of _sdrfree.               *)
(***************************************************************************)
SmallFits(ds, i) ==
    \/ ds[FirstSmallFree(i)] # 0
    \/ ds[UnassignedSpace] >= i + 1 /\ ds[EndOfSmallPool] + i + 1 <= SmallMaxAddr

SmallBlock(ds, i) ==
    IF ds[FirstSmallFree(i)] # 0 THEN ds[FirstSmallFree(i)] ELSE ds[EndOfSmallPool]

\* The updates of _sdrzalloc; an object of size 1 is listed under size 1.
SmallAlloc(ds, i) ==
    LET block == SmallBlock(ds, i)
        taken == <<Word(block), <<InUse, i>>>>
    IN  IF ds[FirstSmallFree(i)] # 0
        THEN <<<<FirstSmallFree(i), ds[Word(block)][1]>>, taken>>
        ELSE <<<<EndOfSmallPool, block + i + 1>>,
               <<UnassignedSpace, ds[UnassignedSpace] - (i + 1)>>,
               taken>>

SmallFree(ds, block) ==
    LET i == ds[Word(block)][2]
    IN  <<<<Word(block), <<ds[FirstSmallFree(i)], i>>>>,
          <<FirstSmallFree(i), block>>>>

(***************************************************************************)
(* The lists of free large blocks: insertFreeBlock, removeFromBucket.      *)
(***************************************************************************)
ComputeBucket(size) == CHOOSE b \in 0..size : 2^b <= size /\ size < 2^(b + 1)

InsertFreeBlock(ds, leader, trailer) ==
    LET b == ComputeBucket(SizeOf(ds, leader))
        next == ds[FirstLargeFree(b)]
        link == IF next = 0 THEN <<>>
                ELSE LET t == TrailerOf(ds, next)
                     IN  <<<<Cell(t), <<StartOf(ds, t), leader>>>>>>
    IN  link \o <<<<Cell(leader), <<SizeOf(ds, leader), next>>>>,
                  <<Cell(trailer), <<StartOf(ds, trailer), 0>>>>,
                  <<FirstLargeFree(b), leader>>>>

RemoveFromBucket(ds, b, leader) ==
    LET trailer == TrailerOf(ds, leader)
        next == NextOf(ds, leader)
        prev == PrevOf(ds, trailer)
        linkNext == IF next = 0 THEN <<>>
                    ELSE LET t == TrailerOf(ds, next)
                         IN  <<<<Cell(t), <<StartOf(ds, t), prev>>>>>>
        linkPrev == IF prev = 0 THEN <<<<FirstLargeFree(b), next>>>>
                    ELSE <<<<Cell(prev), <<SizeOf(ds, prev), next>>>>>>
    IN  linkNext \o linkPrev
            \o <<<<Cell(leader), <<SizeOf(ds, leader), InUse>>>>,
                 <<Cell(trailer), <<StartOf(ds, trailer), InUse>>>>>>

(***************************************************************************)
(* mallocLarge.                                                            *)
(***************************************************************************)
\* Faulty variant: looks in the bucket of the size itself, where a block may
\* be shorter.
FirstBucketTight(n) == ComputeBucket(n)

\* The first bucket all of whose blocks are large enough.
FirstBucket(n) ==
    LET b == ComputeBucket(n) IN IF n = 2^b THEN b ELSE b + 1

Usable(ds, n) == {b \in FirstBucket(n)..LastBucket : ds[FirstLargeFree(b)] # 0}

LargeFits(ds, n) == Usable(ds, n) # {} \/ ds[UnassignedSpace] >= 2 * (n + 2)

LargeBlock(ds, n) ==
    IF Usable(ds, n) # {} THEN ds[FirstLargeFree(Min(Usable(ds, n)))]
    ELSE ds[StartOfLargePool] - (n + 2)

ExtendLargePool(ds, n) ==
    LET leader == ds[StartOfLargePool] - (n + 2)
    IN  <<<<StartOfLargePool, leader>>,
          <<UnassignedSpace, ds[UnassignedSpace] - 2 * (n + 2)>>,
          <<Cell(leader), <<n, InUse>>>>,
          <<Cell(leader + 1 + n), <<leader, InUse>>>>>>

\* The surplus of a block becomes a free block of its own; prev is what the
\* trailing overhead said before the block left its list.
SplitBlock(ds, leader, n, prev) ==
    LET trailer == TrailerOf(ds, leader)
        surplus == SizeOf(ds, leader) - n
        newLeader == leader + n + 2
        puts == <<<<Cell(leader), <<n, InUse>>>>,
                  <<Cell(leader + 1 + n), <<leader, InUse>>>>,
                  <<Cell(newLeader), <<surplus - 2, InUse>>>>,
                  <<Cell(trailer), <<newLeader, prev>>>>>>
    IN  IF surplus < 3 THEN <<>>
        ELSE Then(ds, puts, LAMBDA d : InsertFreeBlock(d, newLeader, trailer))

LargeAlloc(ds, n) ==
    LET b == Min(Usable(ds, n))
        leader == ds[FirstLargeFree(b)]
    IN  IF Usable(ds, n) = {} THEN ExtendLargePool(ds, n)
        ELSE Then(ds, RemoveFromBucket(ds, b, leader),
                  LAMBDA d : SplitBlock(d, leader, n, PrevOf(ds, TrailerOf(ds, leader))))

(***************************************************************************)
(* freeLarge: the block is joined with its free neighbors.                 *)
(***************************************************************************)
\* Faulty variant: leaves it in the list of free blocks.
JoinNextListed(ds, leader) ==
    LET next == TrailerOf(ds, leader) + 1
        trailer == TrailerOf(ds, next)
    IN  IF next > EndOfHeap \/ NextOf(ds, next) = InUse THEN <<>>
        ELSE <<<<Cell(leader), <<SizeOf(ds, leader) + SizeOf(ds, next) + 2, InUse>>>>,
               <<Cell(trailer), <<leader, PrevOf(ds, trailer)>>>>>>

JoinNext(ds, leader) ==
    LET next == TrailerOf(ds, leader) + 1
        trailer == TrailerOf(ds, next)
    IN  IF next > EndOfHeap \/ NextOf(ds, next) = InUse THEN <<>>
        ELSE Then(ds, RemoveFromBucket(ds, ComputeBucket(SizeOf(ds, next)), next),
                  LAMBDA d : <<<<Cell(leader),
                                 <<SizeOf(d, leader) + SizeOf(d, next) + 2, InUse>>>>,
                               <<Cell(trailer), <<leader, PrevOf(ds, trailer)>>>>>>)

HasFreePrev(ds, leader) ==
    leader > ds[StartOfLargePool] /\ PrevOf(ds, leader - 1) # InUse

JoinPrev(ds, leader) ==
    LET prev == StartOf(ds, leader - 1)
        trailer == TrailerOf(ds, leader)
    IN  IF ~HasFreePrev(ds, leader) THEN <<>>
        ELSE Then(ds, RemoveFromBucket(ds, ComputeBucket(SizeOf(ds, prev)), prev),
                  LAMBDA d : <<<<Cell(prev),
                                 <<SizeOf(d, prev) + SizeOf(d, leader) + 2, NextOf(ds, prev)>>>>,
                               <<Cell(trailer), <<prev, PrevOf(ds, trailer)>>>>>>)

\* The start of the free block that comes of it.
JoinedStart(ds, leader) ==
    IF HasFreePrev(ds, leader) THEN StartOf(ds, leader - 1) ELSE leader

LargeFree(ds, leader) ==
    LET start == JoinedStart(ds, leader)
        next == Then(ds, JoinNext(ds, leader), LAMBDA d : JoinPrev(d, leader))
    IN  Then(ds, next, LAMBDA d : InsertFreeBlock(d, start, TrailerOf(d, start)))
=============================================================================
