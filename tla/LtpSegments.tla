---------------------------- MODULE LtpSegments ----------------------------
(***************************************************************************)
(* The vocabulary that the two halves of an LTP engine share: blocks, the  *)
(* segments that travel on a span, and the outbound segment queue of a     *)
(* span (LtpSpan.segments in ltpP.h).                                      *)
(*                                                                         *)
(* A block is a row of data units 0 .. total-1, of which the first "red"   *)
(* units are red (reliable) and the rest green.  A unit stands for any     *)
(* fixed number of bytes, so a data segment carries the units lo .. hi-1   *)
(* and a reception claim is the set of units it covers.                    *)
(***************************************************************************)
EXTENDS Integers, FiniteSets, Sequences

CONSTANTS
    Sessions,        \* export session numbers, in order of issue
    Block,           \* Block[s]: the red and total length of session s
    SegLen,          \* units that fit in a data segment
    CkptLen,         \* units that fit in a segment that is a checkpoint
    MaxClaims,       \* MAX_CLAIMS_PER_RS
    MaxTimeouts,     \* LtpVspan.maxTimeouts
    MaxCheckpoints,  \* ExportSession.maxCheckpoints
    MaxReports       \* ImportSession.maxReports, once it is known

\* addSpan, computeRetransmissionLimits and getMaxReports never yield less.
ASSUME ConstantsAssumption ==
    /\ Sessions \subseteq Nat \ {0}
    /\ Block \in [Sessions -> [red : Nat, total : Nat \ {0}]]
    /\ \A s \in Sessions : Block[s].red <= Block[s].total
    /\ SegLen \in Nat \ {0}
    /\ CkptLen \in 1 .. SegLen
    /\ MaxClaims \in Nat \ {0}
    /\ MaxTimeouts \in Nat \ {0}
    /\ MaxCheckpoints \in Nat \ {0}
    /\ MaxReports \in Nat \ {0}

RedLen(s) == Block[s].red
RedUnits(s) == 0 .. RedLen(s) - 1

(***************************************************************************)
(* Segments, with the segment type codes of LtpSegmentTypeCode.            *)
(***************************************************************************)
CkptTypes  == {"DsRedCheckpoint", "DsRedEORP", "DsRedEOB"}
GreenTypes == {"DsGreen", "DsGreenEOB"}
DataTypes  == {"DsRed"} \cup CkptTypes \cup GreenTypes
AckTypes   == {"RS", "RAS", "CAS", "CAR"}

DataSegments ==
    [type : DataTypes, session : Sessions, lo : Nat, hi : Nat,
     ckpt : Nat, rpt : Nat]
ReportSegments ==
    [type : {"RS"}, session : Sessions, lo : Nat, hi : Nat,
     ckpt : Nat, rpt : Nat, claims : SUBSET Nat]
ReportAcks == [type : {"RAS"}, session : Sessions, rpt : Nat]
\* A bare CR is one for which no import session was ever started.
CancelSegments ==
    [type : {"CS", "CAS", "CR", "CAR"}, session : Sessions, bare : BOOLEAN]
Segments ==
    DataSegments \cup ReportSegments \cup ReportAcks \cup CancelSegments

IsData(seg) == seg.type \in DataTypes
IsRed(seg)  == seg.type \in DataTypes \ GreenTypes
IsCkpt(seg) == seg.type \in CkptTypes
Units(seg)  == seg.lo .. seg.hi - 1

RA(s, r)     == [type |-> "RAS", session |-> s, rpt |-> r]
Cancel(t, s) == [type |-> t, session |-> s, bare |-> FALSE]
BareCR(s)    == [type |-> "CR", session |-> s, bare |-> TRUE]

(***************************************************************************)
(* Sets of units as rows of intervals.                                     *)
(***************************************************************************)
\* The maximal runs <<a, b>> of consecutive units a .. b-1 in a set of units
\* below n: the extents and the reception claims of the code.
Runs(set, n) ==
    {r \in (0 .. n) \X (0 .. n) :
        /\ r[1] < r[2]
        /\ (r[1] .. r[2] - 1) \subseteq set
        /\ r[1] - 1 \notin set
        /\ r[2] \notin set}

\* The consecutive pairs of a set of cut points.
Pieces(cuts) ==
    {p \in cuts \X cuts : p[1] < p[2] /\ ~\E c \in cuts : p[1] < c /\ c < p[2]}

(***************************************************************************)
(* Segmentation: constructDataSegment, called in turn until the extent is  *)
(* used up.  Every segment is as long as it can be, except that the last   *)
(* red extent must end in a segment with room for a checkpoint's serial    *)
(* numbers: when the tail has no such room, its last unit is cut off.      *)
(***************************************************************************)
TailTooLong(a, b) == ((b - a - 1) % SegLen) + 1 > CkptLen

RedCuts(a, b, isLast) ==
    {c \in a .. b : \/ c = b
                    \/ (c - a) % SegLen = 0
                    \/ isLast /\ c = b - 1 /\ TailTooLong(a, b)}

\* Faulty variant: only the end of the red part is ever a checkpoint.
RedTypeEndOnly(s, end, isCkpt) ==
    IF ~isCkpt \/ end < RedLen(s) THEN "DsRed"
    ELSE IF RedLen(s) < Block[s].total THEN "DsRedEORP" ELSE "DsRedEOB"

RedType(s, end, isCkpt) ==
    IF ~isCkpt THEN "DsRed"
    ELSE IF end < RedLen(s) THEN "DsRedCheckpoint"
    ELSE IF RedLen(s) < Block[s].total THEN "DsRedEORP" ELSE "DsRedEOB"

RedSegments(s, run, isLast, rpt, ckpt) ==
    {LET isCkpt == isLast /\ p[2] = run[2] IN
        [type |-> RedType(s, p[2], isCkpt), session |-> s,
         lo |-> p[1], hi |-> p[2],
         ckpt |-> IF isCkpt THEN ckpt ELSE 0,
         rpt |-> IF isCkpt THEN rpt ELSE 0] :
        p \in Pieces(RedCuts(run[1], run[2], isLast))}

GreenSegments(s) ==
    {[type |-> IF p[2] = Block[s].total THEN "DsGreenEOB" ELSE "DsGreen",
      session |-> s, lo |-> p[1], hi |-> p[2], ckpt |-> 0, rpt |-> 0] :
        p \in Pieces(RedCuts(RedLen(s), Block[s].total, FALSE))}

\* issueSegments over the extents that make up a set of missing red units.
RedSegmentsFor(s, missing, rpt, ckpt) ==
    UNION {RedSegments(s, run, \A r \in Runs(missing, RedLen(s)) : r[2] <= run[2],
                       rpt, ckpt) : run \in Runs(missing, RedLen(s))}

(***************************************************************************)
(* The outbound queue of a span.                                           *)
(***************************************************************************)
\* The i-th of a set of segments in order of their lower bounds.  (The first
\* disjunct makes the choice defined for every set; it is never needed for
\* segments with distinct bounds.)
Nth(set, i) ==
    LET rank(x) == Cardinality({y \in set : y.lo <= x.lo})
    IN  CHOOSE x \in set : (\A y \in set : rank(y) # i) \/ rank(x) = i

InOrder(set) == [i \in 1 .. Cardinality(set) |-> Nth(set, i)]

\* sdr_list_insert_last of each of a set of segments.
EnqueueAll(queue, set) == queue \o InOrder(set)

\* enqueueAckSegment: before the first segment that is not an
\* acknowledgment, here for a set of them enqueued in order.
AckPrefix(queue) ==
    Cardinality({i \in 1 .. Len(queue) :
                    \A j \in 1 .. i : queue[j].type \in AckTypes})

EnqueueAcks(queue, acks) ==
    LET n == AckPrefix(queue)
    IN  SubSeq(queue, 1, n) \o acks \o SubSeq(queue, n + 1, Len(queue))

EnqueueAck(queue, seg) == EnqueueAcks(queue, <<seg>>)

\* Removal of a session's segments of the given types from the queue, when
\* the segments themselves are destroyed (destroyDataXmitSeg,
\* destroyRsXmitSeg).
Purge(queue, s, types) ==
    LET kept == {i \in 1 .. Len(queue) :
                    ~(queue[i].session = s /\ queue[i].type \in types)}
        rank(i) == Cardinality({j \in kept : j <= i})
    IN  [n \in 1 .. Cardinality(kept) |->
            queue[CHOOSE i \in kept : (\A j \in kept : rank(j) # n) \/ rank(i) = n]]

=============================================================================
