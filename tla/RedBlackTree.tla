---------------------------- MODULE RedBlackTree ----------------------------
(* The red-black tree in shared memory (smrbt.c), by which LTP finds its   *)
(* red segments and ION its contacts: top-down insertion and deletion, one *)
(* step for each turn of their loops, under the tree's lock.               *)
(*                                                                         *)
(* A node is named by the key that it holds when the operation begins.     *)
(* Deletion puts the data of the predecessor in the target's node and      *)
(* frees the predecessor's; the node is then renamed, which nothing but a  *)
(* caller that had kept its address would notice.  Keys are distinct, as   *)
(* the users of the trees see to.                                          *)
EXTENDS Integers, FiniteSets, TLC

CONSTANT Keys
ASSUME KeysAssumption == Keys \subseteq Nat \ {0}

VARIABLES
    nodes,      \* the keys held, each by one node
    t,          \* the links of the nodes: t.child, t.parent, and t.red
    root, length,
    op          \* the operation that holds the lock, with its variables

vars == <<nodes, t, root, length, op>>

Null  == 0
Dummy == -1         \* the dummy root on the stack of an operation
LEFT  == 0
RIGHT == 1
Sides == {LEFT, RIGHT}

Leaf   == [s \in Sides |-> Null]
Erased == [child |-> [n \in Keys \cup {Dummy} |-> Leaf],
           parent |-> [n \in Keys |-> Null],
           red |-> [n \in Keys |-> FALSE]]

NoOp == [kind |-> "idle", key |-> 0, node |-> Null, parent |-> Null,
         grand |-> Null, great |-> Null, dir |-> LEFT, prev |-> LEFT,
         target |-> Null]

IsRed(tr, n) == n # Null /\ tr.red[n]

Side(n, k) == IF n < k THEN RIGHT ELSE LEFT

(***************************************************************************)
(* Rotations; the new root of the subtree is Pivot(tr, n, d).              *)
(***************************************************************************)
Pivot(tr, n, d) == tr.child[n][1 - d]

RotateOnce(tr, n, d) ==
    LET p == Pivot(tr, n, d)
        o == tr.child[p][d]
    IN  [child  |-> [tr.child EXCEPT ![p][d] = n, ![n][1 - d] = o],
         parent |-> [m \in Keys |-> CASE m = p -> tr.parent[n]
                                      [] m = n -> p
                                      [] m = o -> n
                                      [] OTHER -> tr.parent[m]],
         red    |-> [tr.red EXCEPT ![p] = FALSE, ![n] = TRUE]]

Link(tr, above, side, n) == [tr EXCEPT !.child[above][side] = n]

RotateUnder(tr, above, side, n, d) ==
    Link(RotateOnce(tr, n, d), above, side, Pivot(tr, n, d))

RotateTwiceUnder(tr, above, side, n, d) ==
    LET c == tr.child[n][1 - d]
    IN  RotateUnder(RotateUnder(tr, n, 1 - d, c, 1 - d), above, side, n, d)

Paint(tr, reds, blacks) ==
    [tr EXCEPT !.red = [n \in Keys |-> (tr.red[n] \/ n \in reds) /\ n \notin blacks]]

SideUnder(tr, above, n) == IF tr.child[above][RIGHT] = n THEN RIGHT ELSE LEFT

BlackRoot(tr, r) ==
    Paint([tr EXCEPT !.child[Dummy] = Leaf], {}, {r})

(***************************************************************************)
(* Insertion.                                                              *)
(***************************************************************************)
BeginInsert(k) ==
    /\ op = NoOp /\ k \notin nodes
    /\ t' = Link(t, Dummy, RIGHT, root)
    /\ op' = [NoOp EXCEPT !.kind = "insert", !.key = k, !.node = root,
                          !.great = Dummy]
    /\ UNCHANGED <<nodes, root, length>>

InsertFirst ==
    /\ op.kind = "insert" /\ root = Null
    /\ root' = op.key /\ length' = 1 /\ nodes' = {op.key}
    /\ t' = BlackRoot(t, op.key)
    /\ op' = NoOp

\* The new node is red and hangs where the descent has ended; two red
\* children on the way down give their color to their parent.
NewNode == [Paint(Link(t, op.parent, op.dir, op.key), {op.key}, {})
                EXCEPT !.parent[op.key] = op.parent]

FlipColors(n) ==
    IF \A s \in Sides : IsRed(t, t.child[n][s])
    THEN Paint(t, {n}, {t.child[n][s] : s \in Sides})
    ELSE t

\* A plausible error: a red child of a red parent is always rotated once.
RepairOnce(tr, n) ==
    IF IsRed(tr, op.parent) /\ IsRed(tr, n)
    THEN RotateUnder(tr, op.great, SideUnder(tr, op.great, op.grand),
                     op.grand, 1 - op.prev)
    ELSE tr

Repair(tr, n) ==
    LET side == SideUnder(tr, op.great, op.grand) IN
    IF ~(IsRed(tr, op.parent) /\ IsRed(tr, n)) THEN tr
    ELSE IF n = tr.child[op.parent][op.prev]
         THEN RotateUnder(tr, op.great, side, op.grand, 1 - op.prev)
         ELSE RotateTwiceUnder(tr, op.great, side, op.grand, 1 - op.prev)

InsertDescends ==
    /\ op.kind = "insert" /\ op.node # Null
    /\ t' = Repair(FlipColors(op.node), op.node)
    /\ LET dir == Side(op.node, op.key) IN
       op' = [op EXCEPT !.prev = op.dir, !.dir = dir,
                        !.great = IF op.grand # Null THEN op.grand ELSE @,
                        !.grand = op.parent, !.parent = op.node,
                        !.node = t'.child[op.node][dir]]
    /\ UNCHANGED <<nodes, root, length>>

InsertLinks ==
    /\ op.kind = "insert" /\ op.node = Null /\ root # Null
    /\ LET tr == Repair(NewNode, op.key) IN
       /\ root' = tr.child[Dummy][RIGHT]
       /\ t' = BlackRoot(tr, root')
    /\ nodes' = nodes \cup {op.key} /\ length' = length + 1
    /\ op' = NoOp

(***************************************************************************)
(* Deletion.  The descent goes on past the target to its predecessor and   *)
(* makes every node that it enters red, or sees to a red child below.      *)
(***************************************************************************)
BeginDelete(k) ==
    /\ op = NoOp /\ length # 0 /\ root # Null
    /\ t' = Link(t, Dummy, RIGHT, root)
    /\ op' = [NoOp EXCEPT !.kind = "delete", !.key = k, !.node = Dummy,
                          !.dir = RIGHT]
    /\ UNCHANGED <<nodes, root, length>>

\* The step into the child of op.node, before any redness is introduced.
Entered ==
    LET n == t.child[op.node][op.dir] IN
    [op EXCEPT !.prev = op.dir, !.grand = op.parent, !.parent = op.node,
               !.node = n, !.dir = Side(n, op.key),
               !.target = IF n = op.key THEN n ELSE @]

RedEnough(e) == IsRed(t, e.node) \/ IsRed(t, t.child[e.node][e.dir])
OtherRed(e)  == IsRed(t, t.child[e.node][1 - e.dir])
Sibling(e)   == t.child[e.parent][1 - e.prev]
Nephew(e, s) == t.child[Sibling(e)][s]

Deleting == op.kind = "delete" /\ t.child[op.node][op.dir] # Null

DeleteDescends ==
    /\ Deleting
    /\ LET e == Entered IN
       /\ RedEnough(e) \/ (~OtherRed(e) /\ Sibling(e) = Null)
       /\ op' = e
    /\ UNCHANGED <<nodes, t, root, length>>

DeleteRotatesDown ==
    /\ Deleting
    /\ LET e == Entered IN
       /\ ~RedEnough(e) /\ OtherRed(e)
       /\ t' = RotateUnder(t, e.parent, e.prev, e.node, e.dir)
       /\ op' = [e EXCEPT !.parent = Pivot(t, e.node, e.dir)]
    /\ UNCHANGED <<nodes, root, length>>

BlackNephews(e) == \A s \in Sides : ~IsRed(t, Nephew(e, s))

NeedsSibling(e) == ~RedEnough(e) /\ ~OtherRed(e) /\ Sibling(e) # Null

DeleteFlipsColors ==
    /\ Deleting
    /\ LET e == Entered IN
       /\ NeedsSibling(e) /\ BlackNephews(e)
       /\ t' = Paint(t, {e.node, Sibling(e)}, {e.parent})
       /\ op' = e
    /\ UNCHANGED <<nodes, root, length>>

DeleteBorrows ==
    /\ Deleting
    /\ LET e    == Entered
           side == SideUnder(t, e.grand, e.parent)
           tr   == IF IsRed(t, Nephew(e, e.prev))
                   THEN RotateTwiceUnder(t, e.grand, side, e.parent, e.prev)
                   ELSE RotateUnder(t, e.grand, side, e.parent, e.prev)
           step == tr.child[e.grand][side]
       IN  /\ NeedsSibling(e) /\ ~BlackNephews(e)
           /\ t' = Paint(tr, {step, e.node}, {tr.child[step][s] : s \in Sides})
           /\ op' = e
    /\ UNCHANGED <<nodes, root, length>>

\* The node where the descent has ended is spliced out and erased, and its
\* data goes to the target's node.
Spliced ==
    LET n == op.node
        j == IF t.child[n][LEFT] = Null THEN RIGHT ELSE LEFT
        tr == Link(t, op.parent, SideUnder(t, op.parent, n), t.child[n][j])
    IN  [child  |-> [tr.child EXCEPT ![n] = Leaf],
         parent |-> [tr.parent EXCEPT ![n] = Null],
         red    |-> [tr.red EXCEPT ![n] = FALSE]]

\* The names of the nodes when the target holds the predecessor's data.
Renamed(tr, old, new) ==
    LET name(m) == IF m = old THEN new ELSE m
    IN  [child  |-> [m \in Keys \cup {Dummy} |->
                       [s \in Sides |-> name(
                          tr.child[CASE m = new -> old [] m = old -> new
                                     [] OTHER -> m][s])]],
         parent |-> [m \in Keys |-> name(
                       tr.parent[CASE m = new -> old [] m = old -> new
                                   [] OTHER -> m])],
         red    |-> [m \in Keys |-> tr.red[CASE m = new -> old [] m = old -> new
                                             [] OTHER -> m]]]

\* A plausible error: the node that is reached last is taken for the target.
RemovedLast == IF op.node \in Keys THEN Spliced ELSE t

Removed == IF op.target = Null THEN t ELSE Renamed(Spliced, op.target, op.node)

DeleteEnds ==
    /\ op.kind = "delete" /\ t.child[op.node][op.dir] = Null
    /\ LET tr == Removed IN
       /\ root' = tr.child[Dummy][RIGHT]
       /\ t' = BlackRoot(tr, root')
    /\ nodes' = nodes \ {op.target}
    /\ length' = IF op.target = Null THEN length ELSE length - 1
    /\ op' = NoOp

(***************************************************************************)
(* sm_rbt_clear: leaves are deleted, children before parents.  The length  *)
(* is not reset until the next first insertion.                            *)
(***************************************************************************)
BeginClear ==
    /\ op = NoOp
    /\ op' = [NoOp EXCEPT !.kind = "clear", !.node = root]
    /\ UNCHANGED <<nodes, t, root, length>>

ClearDescends ==
    /\ op.kind = "clear" /\ op.node # Null
    /\ LET c == t.child[op.node] IN
       /\ c # Leaf
       /\ op' = [op EXCEPT !.node = IF c[LEFT] # Null THEN c[LEFT] ELSE c[RIGHT]]
    /\ UNCHANGED <<nodes, t, root, length>>

ClearDeletes ==
    /\ op.kind = "clear" /\ op.node # Null /\ t.child[op.node] = Leaf
    /\ nodes' = nodes \ {op.node}
    /\ LET p == t.parent[op.node] IN
       /\ t' = [child  |-> [m \in DOMAIN t.child |->
                              [s \in Sides |-> IF m = p /\ t.child[m][s] = op.node
                                               THEN Null ELSE t.child[m][s]]],
                parent |-> [t.parent EXCEPT ![op.node] = Null],
                red    |-> [t.red EXCEPT ![op.node] = FALSE]]
       /\ root' = IF p = Null THEN Null ELSE root
       /\ op' = [op EXCEPT !.node = p]
    /\ UNCHANGED length

EndClear ==
    /\ op.kind = "clear" /\ op.node = Null
    /\ op' = NoOp
    /\ UNCHANGED <<nodes, t, root, length>>

(***************************************************************************)
(* Reading: the first and the last node, the neighbor of a node, and the   *)
(* search for a key with the successor of its place.                       *)
(***************************************************************************)
Extreme(n, s) ==
    LET far[m \in Keys] == IF t.child[m][s] = Null THEN m ELSE far[t.child[m][s]]
    IN  IF n = Null THEN Null ELSE far[n]

\* A plausible error: the way up stops at the first parent.
TraverseOnce(n, d) ==
    IF t.child[n][d] # Null THEN Extreme(t.child[n][d], 1 - d) ELSE t.parent[n]

Traverse(n, d) ==
    LET up[m \in Keys] ==
            LET p == t.parent[m]
            IN  IF p = Null THEN Null
                ELSE IF m = t.child[p][1 - d] THEN p ELSE up[p]
    IN  IF t.child[n][d] # Null THEN Extreme(t.child[n][d], 1 - d) ELSE up[n]

\* The node that holds k, or the last one on the way to its place.
Reached(k) ==
    LET at[m \in Keys] ==
            IF m = k \/ t.child[m][Side(m, k)] = Null THEN m
            ELSE at[t.child[m][Side(m, k)]]
    IN  IF root = Null THEN Null ELSE at[root]

Found(k) == Reached(k) = k

Successor(k) ==
    LET m == Reached(k)
    IN  IF m = Null \/ m = k THEN Null
        ELSE IF Side(m, k) = LEFT THEN m ELSE Traverse(m, RIGHT)

-----------------------------------------------------------------------------
Init ==
    /\ nodes = {} /\ t = Erased /\ root = Null /\ length = 0
    /\ op = NoOp

Next ==
    \/ \E k \in Keys : BeginInsert(k) \/ BeginDelete(k)
    \/ InsertFirst \/ InsertDescends \/ InsertLinks
    \/ DeleteDescends \/ DeleteRotatesDown \/ DeleteFlipsColors
    \/ DeleteBorrows \/ DeleteEnds
    \/ BeginClear \/ ClearDescends \/ ClearDeletes \/ EndClear

Spec == Init /\ [][Next]_vars

(***************************************************************************)
(* Properties.                                                             *)
(***************************************************************************)
\* The number of black nodes on the way from the root to each node.
Blacks ==
    LET b[m \in Keys] == (IF t.red[m] THEN 0 ELSE 1)
                         + (IF t.parent[m] = Null THEN 0 ELSE b[t.parent[m]])
    IN  b

\* Whenever the lock is free the tree is a red-black tree: the root is
\* black, a red node has black children, and every way down to a missing
\* child meets the same number of black nodes.  No path is then longer than
\* twice another, whatever was inserted and deleted before.
Balanced ==
    op = NoOp =>
        /\ root # Null => ~t.red[root] /\ length = Cardinality(nodes)
        /\ \A n \in nodes, s \in Sides :
              t.red[n] => ~IsRed(t, t.child[n][s])
        /\ \A m, n \in nodes :
              (Null \in {t.child[m][s] : s \in Sides}
               /\ Null \in {t.child[n][s] : s \in Sides})
              => Blacks[m] = Blacks[n]

\* Whenever the lock is free the readers see the keys in order: the first,
\* the last, both neighbors of each, and for any key whether it is there and
\* which one follows its place.
After(k)  == {n \in nodes : n > k}
Before(k) == {n \in nodes : n < k}
Least(S)    == IF S = {} THEN Null ELSE CHOOSE n \in S : \A m \in S : n <= m
Greatest(S) == IF S = {} THEN Null ELSE CHOOSE n \in S : \A m \in S : n >= m
NeighborsExact ==
    op = NoOp =>
        /\ Extreme(root, LEFT) = Least(nodes)
        /\ Extreme(root, RIGHT) = Greatest(nodes)
        /\ \A n \in nodes : /\ Traverse(n, RIGHT) = Least(After(n))
                            /\ Traverse(n, LEFT) = Greatest(Before(n))
        /\ \A k \in Keys : /\ Found(k) <=> k \in nodes
                           /\ k \notin nodes => Successor(k) = Least(After(k))

\* Whatever the tree goes through, its users see a set of keys that changes
\* as they ask.
Abstract == INSTANCE KeySet WITH
    keys    <- IF op.kind = "clear" THEN {} ELSE nodes,
    request <- IF op.kind = "clear" THEN [kind |-> "idle", key |-> 0]
               ELSE [kind |-> op.kind, key |-> op.key]
ImplementsKeySet == Abstract!Spec
=============================================================================
