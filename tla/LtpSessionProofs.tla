-------------------------- MODULE LtpSessionProofs --------------------------
(***************************************************************************)
(* Safety of LtpSession for every set of blocks, every segment size and    *)
(* every limit of the engines.  First its type invariant: the segmentation *)
(* of a block yields finitely many data segments, the operations on the    *)
(* outbound queue yield queues of segments, and one lemma per handler says *)
(* that the handler keeps its half's part of the invariant.  Then LtpInv:  *)
(* the flow lemmas say where the segments in the queues, in the lists and  *)
(* on the links come from; the steps of the invariant are built from them. *)
(***************************************************************************)
EXTENDS LtpInvariant, FiniteSetTheorems, TLAPS

(***************************************************************************)
(* Finiteness.                                                             *)
(***************************************************************************)
\* The image of a finite set under a function is finite.
LEMMA FiniteImage ==
    ASSUME NEW S, IsFiniteSet(S), NEW T, NEW f \in [S -> T],
           \A y \in T : \E x \in S : y = f[x]
    PROVE  IsFiniteSet(T)
<1>1. f \in Surjection(S, T)
  BY DEF Surjection
<1> QED
  BY <1>1, FS_Surjection

\* There are finitely many extents in a red part.
LEMMA FiniteRuns ==
    ASSUME NEW set, NEW n \in Nat
    PROVE  IsFiniteSet(Runs(set, n))
<1>1. IsFiniteSet(0 .. n)
  BY FS_Interval
<1>2. IsFiniteSet((0 .. n) \X (0 .. n))
  BY <1>1, FS_Product
<1>3. Runs(set, n) \in SUBSET ((0 .. n) \X (0 .. n))
  BY DEF Runs
<1> QED
  BY <1>2, <1>3, FS_Subset

\* Finitely many cuts leave finitely many pieces.
LEMMA FinitePieces ==
    ASSUME NEW cuts, IsFiniteSet(cuts)
    PROVE  IsFiniteSet(Pieces(cuts))
<1>1. IsFiniteSet(cuts \X cuts)
  BY FS_Product
<1>2. Pieces(cuts) \in SUBSET (cuts \X cuts)
  BY DEF Pieces
<1> QED
  BY <1>1, <1>2, FS_Subset

(***************************************************************************)
(* Segmentation.                                                           *)
(***************************************************************************)
\* The types of the segments of a red extent.
LEMMA RedTypeType ==
    ASSUME NEW s, NEW end, NEW isCkpt
    PROVE  /\ RedType(s, end, isCkpt) \in DataTypes \ GreenTypes
           /\ ~isCkpt => RedType(s, end, isCkpt) = "DsRed"
BY DEF RedType, DataTypes, CkptTypes, GreenTypes

\* The cuts of an extent are finitely many numbers of units.
LEMMA RedCutsType ==
    ASSUME NEW a \in Nat, NEW b \in Nat, NEW isLast \in BOOLEAN
    PROVE  /\ RedCuts(a, b, isLast) \subseteq Nat
           /\ IsFiniteSet(RedCuts(a, b, isLast))
<1>1. IsFiniteSet(a .. b)
  BY FS_Interval
<1>2. RedCuts(a, b, isLast) \in SUBSET (a .. b)
  BY DEF RedCuts
<1> QED
  BY <1>1, <1>2, FS_Subset

\* A red extent is cut into finitely many data segments.
LEMMA RedSegmentsType ==
    ASSUME NEW s \in Sessions, NEW run \in Nat \X Nat, NEW isLast \in BOOLEAN,
           NEW rpt \in Nat, NEW ckpt \in Nat
    PROVE  /\ RedSegments(s, run, isLast, rpt, ckpt) \subseteq DataSegments
           /\ IsFiniteSet(RedSegments(s, run, isLast, rpt, ckpt))
<1> DEFINE cuts == RedCuts(run[1], run[2], isLast)
           isCkpt(p) == isLast /\ p[2] = run[2]
           seg(p) == [type |-> RedType(s, p[2], isCkpt(p)), session |-> s,
                      lo |-> p[1], hi |-> p[2],
                      ckpt |-> IF isCkpt(p) THEN ckpt ELSE 0,
                      rpt |-> IF isCkpt(p) THEN rpt ELSE 0]
           f == [p \in Pieces(cuts) |-> seg(p)]
<1>1. cuts \subseteq Nat /\ IsFiniteSet(cuts)
  BY RedCutsType
<1>2. IsFiniteSet(Pieces(cuts))
  BY <1>1, FinitePieces
<1>3. RedSegments(s, run, isLast, rpt, ckpt) = {seg(p) : p \in Pieces(cuts)}
  BY DEF RedSegments
<1>4. ASSUME NEW p \in Pieces(cuts)
      PROVE  seg(p) \in DataSegments
  <2>1. p[1] \in Nat /\ p[2] \in Nat
    BY <1>1 DEF Pieces
  <2>2. RedType(s, p[2], isCkpt(p)) \in DataTypes
    BY RedTypeType
  <2> QED
    BY <2>1, <2>2 DEF DataSegments
<1> DEFINE T == {seg(p) : p \in Pieces(cuts)}
<1>5. f \in [Pieces(cuts) -> T] /\ \A y \in T : \E p \in Pieces(cuts) : y = f[p]
  OBVIOUS
<1>6. IsFiniteSet(T)
  <2> HIDE DEF f, T
  <2> QED
    BY <1>2, <1>5, FiniteImage
<1> QED
  BY <1>3, <1>4, <1>6

\* The missing units of a red part are retransmitted in finitely many data
\* segments.
LEMMA RedSegmentsForType ==
    ASSUME NEW s \in Sessions, NEW missing, NEW rpt \in Nat, NEW ckpt \in Nat
    PROVE  /\ RedSegmentsFor(s, missing, rpt, ckpt) \subseteq DataSegments
           /\ IsFiniteSet(RedSegmentsFor(s, missing, rpt, ckpt))
<1> DEFINE runs == Runs(missing, RedLen(s))
           isLast(run) == \A r \in runs : r[2] <= run[2]
           segs(run) == RedSegments(s, run, isLast(run), rpt, ckpt)
           f == [run \in runs |-> segs(run)]
<1>1. RedLen(s) \in Nat
  BY ConstantsAssumption DEF RedLen
<1>2. IsFiniteSet(runs)
  BY <1>1, FiniteRuns
<1>3. runs \subseteq Nat \X Nat
  BY <1>1 DEF Runs
<1>4. ASSUME NEW run \in runs
      PROVE  segs(run) \subseteq DataSegments /\ IsFiniteSet(segs(run))
  BY <1>3, RedSegmentsType
<1> DEFINE T == {segs(run) : run \in runs}
<1>5. f \in [runs -> T] /\ \A y \in T : \E run \in runs : y = f[run]
  <2> HIDE DEF segs
  <2> QED
    OBVIOUS
<1>6. IsFiniteSet(T)
  <2> HIDE DEF f, T
  <2> QED
    BY <1>2, <1>5, FiniteImage
<1>7. IsFiniteSet(UNION T)
  <2>1. \A segments \in T : IsFiniteSet(segments)
    BY <1>4
  <2> HIDE DEF T
  <2> QED
    BY <1>6, <2>1, FS_UNION
<1>8. RedSegmentsFor(s, missing, rpt, ckpt) = UNION {segs(run) : run \in runs}
  BY DEF RedSegmentsFor
<1> QED
  BY <1>4, <1>7, <1>8

\* The green part of a block is cut into finitely many data segments.
LEMMA GreenSegmentsType ==
    ASSUME NEW s \in Sessions
    PROVE  /\ GreenSegments(s) \subseteq DataSegments
           /\ IsFiniteSet(GreenSegments(s))
<1> DEFINE cuts == RedCuts(RedLen(s), Block[s].total, FALSE)
           seg(p) == [type |-> IF p[2] = Block[s].total THEN "DsGreenEOB" ELSE "DsGreen",
                      session |-> s, lo |-> p[1], hi |-> p[2], ckpt |-> 0, rpt |-> 0]
           f == [p \in Pieces(cuts) |-> seg(p)]
<1>1. RedLen(s) \in Nat /\ Block[s].total \in Nat
  BY ConstantsAssumption DEF RedLen
<1>2. cuts \subseteq Nat /\ IsFiniteSet(cuts)
  BY <1>1, RedCutsType
<1>3. IsFiniteSet(Pieces(cuts))
  BY <1>2, FinitePieces
<1>4. GreenSegments(s) = {seg(p) : p \in Pieces(cuts)}
  BY DEF GreenSegments
<1>5. ASSUME NEW p \in Pieces(cuts)
      PROVE  seg(p) \in DataSegments
  <2>1. p[1] \in Nat /\ p[2] \in Nat
    BY <1>2 DEF Pieces
  <2> QED
    BY <2>1 DEF DataSegments, DataTypes, GreenTypes
<1> DEFINE T == {seg(p) : p \in Pieces(cuts)}
<1>6. f \in [Pieces(cuts) -> T] /\ \A y \in T : \E p \in Pieces(cuts) : y = f[p]
  OBVIOUS
<1>7. IsFiniteSet(T)
  <2> HIDE DEF f, T
  <2> QED
    BY <1>3, <1>6, FiniteImage
<1> QED
  BY <1>4, <1>5, <1>7

(***************************************************************************)
(* The outbound queue.                                                     *)
(***************************************************************************)
\* The segments of a finite set, in order, are a sequence of them.
LEMMA InOrderType ==
    ASSUME NEW T, NEW set, set \subseteq T, IsFiniteSet(set)
    PROVE  InOrder(set) \in Seq(T)
<1>1. Cardinality(set) \in Nat
  BY FS_CardinalityType
<1>2. ASSUME NEW i \in 1 .. Cardinality(set)
      PROVE  Nth(set, i) \in set
  <2> DEFINE rank(x) == Cardinality({y \in set : y.lo <= x.lo})
             P(x) == (\A y \in set : rank(y) # i) \/ rank(x) = i
  <2>1. set # {}
    BY <1>1, FS_EmptySet
  <2>2. \E x \in set : P(x)
    BY <2>1
  <2>3. (CHOOSE x \in set : P(x)) \in set
    BY <2>2
  <2> QED
    BY <2>3 DEF Nth
<1> QED
  BY <1>1, <1>2 DEF InOrder

\* Appending a set of segments to a queue.
LEMMA EnqueueAllType ==
    ASSUME NEW T, NEW queue \in Seq(T), NEW set, set \subseteq T, IsFiniteSet(set)
    PROVE  EnqueueAll(queue, set) \in Seq(T)
BY InOrderType DEF EnqueueAll

\* enqueueAckSegment inserts at a position of the queue.
LEMMA AckPrefixType ==
    ASSUME NEW T, NEW queue \in Seq(T)
    PROVE  AckPrefix(queue) \in 0 .. Len(queue)
<1> DEFINE prefix == {i \in 1 .. Len(queue) :
                         \A j \in 1 .. i : queue[j].type \in AckTypes}
<1>1. Len(queue) \in Nat
  OBVIOUS
<1>2. IsFiniteSet(1 .. Len(queue)) /\ Cardinality(1 .. Len(queue)) = Len(queue)
  BY <1>1, FS_Interval, SMTT(30)
<1>3. prefix \in SUBSET (1 .. Len(queue))
  OBVIOUS
<1>4. IsFiniteSet(prefix) /\ Cardinality(prefix) <= Len(queue)
  BY <1>2, <1>3, FS_Subset
<1>5. Cardinality(prefix) \in Nat
  BY <1>4, FS_CardinalityType
<1> QED
  BY <1>1, <1>4, <1>5 DEF AckPrefix

\* Inserting a row of acknowledgments into a queue.
LEMMA EnqueueAcksType ==
    ASSUME NEW T, NEW queue \in Seq(T), NEW acks \in Seq(T)
    PROVE  EnqueueAcks(queue, acks) \in Seq(T)
<1>1. AckPrefix(queue) \in 0 .. Len(queue)
  BY AckPrefixType
<1>2. SubSeq(queue, 1, AckPrefix(queue)) \in Seq(T)
  BY <1>1
<1>3. SubSeq(queue, AckPrefix(queue) + 1, Len(queue)) \in Seq(T)
  BY <1>1
<1> QED
  BY <1>2, <1>3 DEF EnqueueAcks

\* Inserting one acknowledgment.
LEMMA EnqueueAckType ==
    ASSUME NEW T, NEW queue \in Seq(T), NEW seg \in T
    PROVE  EnqueueAck(queue, seg) \in Seq(T)
<1>1. <<seg>> \in Seq(T)
  OBVIOUS
<1> QED
  BY <1>1, EnqueueAcksType DEF EnqueueAck

\* Removing a session's segments leaves segments of the same queue.
LEMMA PurgeType ==
    ASSUME NEW T, NEW queue \in Seq(T), NEW s, NEW types
    PROVE  Purge(queue, s, types) \in Seq(T)
<1> DEFINE kept == {i \in 1 .. Len(queue) :
                       ~(queue[i].session = s /\ queue[i].type \in types)}
           rank(i) == Cardinality({j \in kept : j <= i})
           P(n, i) == (\A j \in kept : rank(j) # n) \/ rank(i) = n
           nth(n) == CHOOSE i \in kept : P(n, i)
<1>1. IsFiniteSet(1 .. Len(queue))
  BY FS_Interval
<1>2. IsFiniteSet(kept)
  <2>1. kept \in SUBSET (1 .. Len(queue))
    OBVIOUS
  <2> QED
    BY <1>1, <2>1, FS_Subset
<1>3. Cardinality(kept) \in Nat
  BY <1>2, FS_CardinalityType
<1>4. ASSUME NEW n \in 1 .. Cardinality(kept)
      PROVE  nth(n) \in kept
  <2>1. kept # {}
    <3> HIDE DEF kept
    <3> QED
      BY <1>2, <1>3, FS_EmptySet
  <2>2. \E i \in kept : P(n, i)
    BY <2>1
  <2> HIDE DEF P, kept
  <2> QED
    BY <2>2
<1>5. ASSUME NEW n \in 1 .. Cardinality(kept)
      PROVE  queue[nth(n)] \in T
  <2> HIDE DEF nth
  <2>1. nth(n) \in 1 .. Len(queue)
    BY <1>4
  <2> QED
    BY <2>1
<1>6. Purge(queue, s, types) = [n \in 1 .. Cardinality(kept) |-> queue[nth(n)]]
  BY DEF Purge
<1> HIDE DEF nth, kept
<1>7. [n \in 1 .. Cardinality(kept) |-> queue[nth(n)]] \in Seq(T)
  BY <1>3, <1>5
<1> QED
  BY <1>6, <1>7


(***************************************************************************)
(* Segments.                                                               *)
(***************************************************************************)
\* The type code of a segment tells its kind.
LEMMA SegmentKinds ==
    ASSUME NEW seg \in Segments
    PROVE  /\ seg.session \in Sessions
           /\ IsData(seg) => seg \in DataSegments
           /\ seg.type = "RS" => seg \in ReportSegments
           /\ seg.type = "RAS" => seg \in ReportAcks
           /\ seg.type \in {"CS", "CAS", "CR", "CAR"} => seg \in CancelSegments
BY DEF Segments, DataSegments, ReportSegments, ReportAcks, CancelSegments,
       IsData, DataTypes, CkptTypes, GreenTypes

\* The segments that the handlers make.
LEMMA MadeSegments ==
    ASSUME NEW s \in Sessions
    PROVE  /\ \A r \in Nat : RA(s, r) \in Segments
           /\ \A t \in {"CS", "CAS", "CR", "CAR"} : Cancel(t, s) \in Segments
           /\ BareCR(s) \in Segments
BY DEF RA, Cancel, BareCR, Segments, ReportAcks, CancelSegments

\* What the link carries is a segment.
LEMMA OnWireType ==
    ASSUME NEW seg \in Segments
    PROVE  OnWire(seg) \in Segments
<1>1. CASE seg.type = "CR"
  <2>1. seg \in CancelSegments
    BY <1>1, SegmentKinds
  <2>2. [seg EXCEPT !.bare = FALSE] \in CancelSegments
    BY <2>1 DEF CancelSegments
  <2> QED
    BY <1>1, <2>2 DEF OnWire, Segments
<1>2. CASE seg.type # "CR"
  BY <1>2 DEF OnWire
<1> QED
  BY <1>1, <1>2

\* The head of a queue of segments is a segment, and the rest is a queue.
LEMMA HeadTailType ==
    ASSUME NEW T, NEW queue \in Seq(T), queue # <<>>
    PROVE  Head(queue) \in T /\ Tail(queue) \in Seq(T)
OBVIOUS

(***************************************************************************)
(* The sending half.                                                       *)
(***************************************************************************)
LEMMA ExpInitType ==
    ASSUME ExpInit
    PROVE  ExpTypeOK
BY ConstantsAssumption DEF ExpInit, ExpTypeOK, NotListed

\* A notice is appended to those of its session.
LEMMA NotifyType ==
    ASSUME ExpTypeOK, NEW s \in Sessions, NEW kind \in ExpNoticeKinds,
           Notify(s, kind)
    PROVE  expNotices' \in [Sessions -> Seq(ExpNoticeKinds)]
<1>1. expNotices[s] \in Seq(ExpNoticeKinds)
  BY DEF ExpTypeOK
<1>2. Append(expNotices[s], kind) \in Seq(ExpNoticeKinds)
  BY <1>1
<1> QED
  BY <1>2 DEF ExpTypeOK, Notify

\* What is left of a session out of exportSessions.
LEMMA LeaveExportType ==
    ASSUME ExpTypeOK, NEW s \in Sessions, NEW state \in {"dead", "closed"},
           LeaveExportSessions(s, state)
    PROVE  /\ expState' \in [Sessions -> {"idle", "open", "dead", "closed"}]
           /\ ckpts' \in [Sessions -> SUBSET CkptEntries]
           /\ lastCkpt' \in [Sessions -> Nat]
           /\ rsSerialNbrs' \in [Sessions -> SUBSET Nat]
           /\ claims' \in [Sessions -> SUBSET Nat]
           /\ stateFlags' \in [Sessions -> SUBSET {"FINAL_ACK", "EOB_SENT"}]
BY DEF ExpTypeOK, LeaveExportSessions

\* The events of the timeline.
LEMMA ExpEventTypes ==
    ASSUME NEW s \in Sessions
    PROVE  /\ \A k \in Nat : ResendCheckpointEvent(s, k) \in ExpEvents
           /\ ResendXmitCancelEvent(s) \in ExpEvents
           /\ ForgetExportEvent(s) \in ExpEvents
BY DEF ResendCheckpointEvent, ResendXmitCancelEvent, ForgetExportEvent, ExpEvents

\* cancelSessionBySender.
LEMMA CancelBySenderType ==
    ASSUME ExpTypeOK, NEW s \in Sessions, NEW queue \in Seq(Segments),
           NEW timeline \in SUBSET ExpEvents,
           CancelSessionBySender(s, queue, timeline)
    PROVE  ExpTypeOK'
<1>1. LeaveExportSessions(s, "dead") /\ Notify(s, "ExportSessionCanceled")
  BY DEF CancelSessionBySender
<1>2. expNotices' \in [Sessions -> Seq(ExpNoticeKinds)]
  BY <1>1, NotifyType DEF ExpNoticeKinds
<1>3. expQueue' \in Seq(Segments)
  <2>1. StoppedQueue(queue, s) \in Seq(Segments)
    BY PurgeType DEF StoppedQueue
  <2>2. Cancel("CS", s) \in Segments
    BY MadeSegments
  <2> QED
    BY <2>1, <2>2 DEF CancelSessionBySender
<1>4. expTimeline' \subseteq ExpEvents
  BY DEF CancelSessionBySender
<1>5. cancelTimeouts' \in [Sessions -> 0 .. MaxTimeouts]
  BY ConstantsAssumption DEF CancelSessionBySender, ExpTypeOK
<1>6. closedExports' \in [Sessions -> {NotListed} \cup (1 .. MaxTimeouts)]
  BY DEF CancelSessionBySender, ExpTypeOK
<1>7. /\ expState' \in [Sessions -> {"idle", "open", "dead", "closed"}]
      /\ ckpts' \in [Sessions -> SUBSET CkptEntries]
      /\ lastCkpt' \in [Sessions -> Nat]
      /\ rsSerialNbrs' \in [Sessions -> SUBSET Nat]
      /\ claims' \in [Sessions -> SUBSET Nat]
      /\ stateFlags' \in [Sessions -> SUBSET {"FINAL_ACK", "EOB_SENT"}]
  BY <1>1, LeaveExportType
<1> QED
  BY <1>2, <1>3, <1>4, <1>5, <1>6, <1>7 DEF ExpTypeOK

\* A fresh entry of the list of checkpoints.
LEMMA NewCkptsType ==
    ASSUME NEW segs \in SUBSET DataSegments
    PROVE  {NewCkpt(seg) : seg \in segs} \subseteq CkptEntries
<1>1. 0 \in 0 .. MaxTimeouts
  BY ConstantsAssumption
<1>2. ASSUME NEW seg \in segs
      PROVE  NewCkpt(seg) \in CkptEntries
  BY <1>1 DEF NewCkpt, CkptEntries
<1> QED
  BY <1>2

\* ltp_send of a block keeps the sending half well typed.
LEMMA IssueBlockType ==
    ASSUME ExpTypeOK, NEW s \in Sessions, IssueBlock(s)
    PROVE  ExpTypeOK'
<1> DEFINE red == RedSegmentsFor(s, RedUnits(s), 0, 1)
           new == {seg \in red : IsCkpt(seg)}
<1>1. red \subseteq DataSegments /\ IsFiniteSet(red)
  BY RedSegmentsForType
<1>2. GreenSegments(s) \subseteq DataSegments /\ IsFiniteSet(GreenSegments(s))
  BY GreenSegmentsType
<1>3. IsFiniteSet(red \cup GreenSegments(s))
  <2> HIDE DEF red
  <2> QED
    BY <1>1, <1>2, FS_Union
<1>4. red \cup GreenSegments(s) \subseteq Segments
  BY <1>1, <1>2 DEF Segments
<1>5. expQueue' = EnqueueAll(expQueue, red \cup GreenSegments(s))
  BY DEF IssueBlock
<1>6. expQueue' \in Seq(Segments)
  <2>1. expQueue \in Seq(Segments)
    BY DEF ExpTypeOK
  <2> HIDE DEF red
  <2> QED
    BY <1>3, <1>4, <1>5, <2>1, EnqueueAllType
<1>7. {NewCkpt(seg) : seg \in new} \subseteq CkptEntries
  BY <1>1, NewCkptsType
<1>8. /\ expState' = [expState EXCEPT ![s] = "open"]
      /\ ckpts' = [ckpts EXCEPT ![s] = {NewCkpt(seg) : seg \in new}]
      /\ lastCkpt' = [lastCkpt EXCEPT ![s] = IF new = {} THEN 0 ELSE 1]
      /\ UNCHANGED <<rsSerialNbrs, claims, stateFlags, cancelTimeouts,
                     closedExports, expTimeline, expNotices>>
  BY DEF IssueBlock
<1> HIDE DEF new
<1> QED
  BY <1>6, <1>7, <1>8 DEF ExpTypeOK

\* ltpDequeueOutboundSegment at the sending engine, one segment type a step.
LEMMA DequeueExportType ==
    ASSUME ExpTypeOK, expQueue # <<>>, DequeueExport(Head(expQueue))
    PROVE  ExpTypeOK'
<1> DEFINE seg == Head(expQueue)
           s == seg.session
<1>1. seg \in Segments /\ expQueue' \in Seq(Segments)
  <2>1. expQueue \in Seq(Segments)
    BY DEF ExpTypeOK
  <2> QED
    BY <2>1, HeadTailType DEF DequeueExport
<1>2. s \in Sessions
  BY <1>1, SegmentKinds
<1> HIDE DEF seg
<1>3. DequeuePlain(seg) \/ DequeueCheckpoint(seg) \/ DequeueGreenEOB(seg) \/ DequeueCS(seg)
  BY DEF DequeueExport, seg
<1>4. CASE DequeuePlain(seg)
  BY <1>1, <1>4 DEF DequeuePlain, ExpTypeOK, expSessionVars
<1>5. CASE DequeueCheckpoint(seg)
  <2> DEFINE entry == {c \in ckpts[s] : c.seg = seg}
  <2>1. seg.ckpt \in Nat
    BY <1>1, <1>5, SegmentKinds DEF DequeueCheckpoint, IsCkpt, IsData, DataTypes,
           DataSegments
  <2>2. expTimeline' \subseteq ExpEvents
    BY <1>2, <1>5, <2>1, ExpEventTypes DEF DequeueCheckpoint, ExpTypeOK
  <2>3. ckpts[s] \subseteq CkptEntries
    BY <1>2 DEF ExpTypeOK
  <2>4. {[c EXCEPT !.armed = TRUE] : c \in entry} \subseteq CkptEntries
    BY <2>3 DEF CkptEntries
  <2>5. ckpts' = [ckpts EXCEPT ![s] =
                     (@ \ entry) \cup {[c EXCEPT !.armed = TRUE] : c \in entry}]
    BY <1>5 DEF DequeueCheckpoint
  <2>6. ckpts' \in [Sessions -> SUBSET CkptEntries]
    <3> HIDE DEF entry
    <3> QED
      BY <2>3, <2>4, <2>5 DEF ExpTypeOK
  <2>7. expNotices' \in [Sessions -> Seq(ExpNoticeKinds)]
    <3>1. Notify(s, "XmitComplete") \/ UNCHANGED expNotices
      BY <1>5 DEF DequeueCheckpoint
    <3> QED
      BY <1>2, <3>1, NotifyType DEF ExpTypeOK, ExpNoticeKinds
  <2>8. UNCHANGED <<expState, lastCkpt, rsSerialNbrs, claims, stateFlags,
                    cancelTimeouts, closedExports>>
    BY <1>5 DEF DequeueCheckpoint
  <2> QED
    BY <1>1, <2>2, <2>6, <2>7, <2>8 DEF ExpTypeOK
<1>6. CASE DequeueGreenEOB(seg)
  <2>1. CASE /\ LeaveExportSessions(s, "closed")
             /\ expNotices' = [expNotices EXCEPT ![s] =
                                   @ \o <<"XmitComplete", "ExportSessionComplete">>]
    <3>1. expNotices[s] \o <<"XmitComplete", "ExportSessionComplete">>
              \in Seq(ExpNoticeKinds)
      <4>1. expNotices[s] \in Seq(ExpNoticeKinds)
        BY <1>2 DEF ExpTypeOK
      <4>2. <<"XmitComplete", "ExportSessionComplete">> \in Seq(ExpNoticeKinds)
        BY DEF ExpNoticeKinds
      <4> QED
        BY <4>1, <4>2
    <3>2. expNotices' \in [Sessions -> Seq(ExpNoticeKinds)]
      BY <2>1, <3>1 DEF ExpTypeOK
    <3>3. /\ expState' \in [Sessions -> {"idle", "open", "dead", "closed"}]
          /\ ckpts' \in [Sessions -> SUBSET CkptEntries]
          /\ lastCkpt' \in [Sessions -> Nat]
          /\ rsSerialNbrs' \in [Sessions -> SUBSET Nat]
          /\ claims' \in [Sessions -> SUBSET Nat]
          /\ stateFlags' \in [Sessions -> SUBSET {"FINAL_ACK", "EOB_SENT"}]
      BY <1>2, <2>1, LeaveExportType
    <3> QED
      BY <1>1, <1>6, <3>2, <3>3 DEF DequeueGreenEOB, ExpTypeOK
  <2>2. CASE /\ stateFlags' = [stateFlags EXCEPT ![s] = @ \cup {"EOB_SENT"}]
             /\ Notify(s, "XmitComplete")
             /\ UNCHANGED <<expState, ckpts, lastCkpt, rsSerialNbrs, claims>>
    <3>1. expNotices' \in [Sessions -> Seq(ExpNoticeKinds)]
      BY <1>2, <2>2, NotifyType DEF ExpNoticeKinds
    <3>2. stateFlags' \in [Sessions -> SUBSET {"FINAL_ACK", "EOB_SENT"}]
      BY <1>2, <2>2 DEF ExpTypeOK
    <3> QED
      BY <1>1, <1>6, <2>2, <3>1, <3>2 DEF DequeueGreenEOB, ExpTypeOK
  <2> QED
    BY <1>6, <2>1, <2>2 DEF DequeueGreenEOB
<1>7. CASE DequeueCS(seg)
  <2>1. expTimeline' \subseteq ExpEvents
    BY <1>2, <1>7, ExpEventTypes DEF DequeueCS, ExpTypeOK
  <2> QED
    BY <1>1, <1>7, <2>1 DEF DequeueCS, ExpTypeOK, expSessionVars
<1> QED
  BY <1>3, <1>4, <1>5, <1>6, <1>7

\* The acknowledgment of a report goes to the front of the queue.
LEMMA AckedQueueType ==
    ASSUME ExpTypeOK, NEW rs \in ReportSegments
    PROVE  AckedQueue(rs) \in Seq(Segments)
<1>1. RA(rs.session, rs.rpt) \in Segments
  BY MadeSegments DEF ReportSegments
<1>2. expQueue \in Seq(Segments)
  BY DEF ExpTypeOK
<1> QED
  BY <1>1, <1>2, EnqueueAckType DEF AckedQueue

\* Deactivating the cited checkpoint leaves entries of the list.
LEMMA DeactivatedType ==
    ASSUME ExpTypeOK, NEW rs \in ReportSegments
    PROVE  Deactivated(rs) \subseteq CkptEntries
<1>1. ckpts[rs.session] \subseteq CkptEntries
  BY DEF ExpTypeOK, ReportSegments
<1>2. CitedCkpt(rs) \subseteq CkptEntries
  BY <1>1 DEF CitedCkpt
<1>3. {[c EXCEPT !.armed = FALSE] : c \in CitedCkpt(rs)} \subseteq CkptEntries
  BY <1>2 DEF CkptEntries
<1> QED
  BY <1>1, <1>3 DEF Deactivated

\* handleRS, one outcome a step.
LEMMA HandleRSType ==
    ASSUME ExpTypeOK, NEW rs \in ReportSegments, HandleRS(rs)
    PROVE  ExpTypeOK'
<1> DEFINE s == rs.session
<1>1. s \in Sessions /\ rs.rpt \in Nat /\ rs.claims \subseteq Nat
  BY DEF ReportSegments
<1>2. AckedQueue(rs) \in Seq(Segments)
  BY AckedQueueType
<1>3. rsSerialNbrs' = [rsSerialNbrs EXCEPT ![s] = @ \cup {rs.rpt}]
        => rsSerialNbrs' \in [Sessions -> SUBSET Nat]
  BY <1>1 DEF ExpTypeOK
<1>4. MergedClaims(rs) \subseteq Nat
  BY <1>1 DEF MergedClaims, ExpTypeOK
<1>5. CASE LateReport(rs)
  <2>1. expQueue' \in Seq(Segments)
    BY <1>2, <1>5 DEF LateReport, AckedQueue
  <2>2. closedExports' \in [Sessions -> {NotListed} \cup (1 .. MaxTimeouts)]
    <3> DEFINE left == closedExports[s] - 1
    <3>1. closedExports[s] \in 1 .. MaxTimeouts /\ MaxTimeouts \in Nat
      BY <1>1, <1>5, ConstantsAssumption DEF LateReport, ExpTypeOK
    <3>2. (IF left < 1 THEN NotListed ELSE left) \in {NotListed} \cup (1 .. MaxTimeouts)
      BY <3>1
    <3>3. closedExports' = [closedExports EXCEPT ![s] =
                               IF left < 1 THEN NotListed ELSE left]
      BY <1>5 DEF LateReport
    <3> HIDE DEF left
    <3> QED
      BY <3>2, <3>3 DEF ExpTypeOK
  <2> QED
    BY <1>5, <2>1, <2>2 DEF LateReport, ExpTypeOK, expSessionVars
<1>6. CASE StrayReport(rs)
  BY <1>6 DEF StrayReport, ExpTypeOK, expVars, expSessionVars
<1>7. CASE IgnoredReport(rs)
  BY <1>2, <1>3, <1>7 DEF IgnoredReport, ExpTypeOK
<1>8. CASE FinalReport(rs)
  <2>1. LeaveExportSessions(s, "closed") /\ Notify(s, "ExportSessionComplete")
    BY <1>8 DEF FinalReport
  <2>2. expNotices' \in [Sessions -> Seq(ExpNoticeKinds)]
    BY <1>1, <2>1, NotifyType DEF ExpNoticeKinds
  <2>3. /\ expState' \in [Sessions -> {"idle", "open", "dead", "closed"}]
        /\ ckpts' \in [Sessions -> SUBSET CkptEntries]
        /\ lastCkpt' \in [Sessions -> Nat]
        /\ rsSerialNbrs' \in [Sessions -> SUBSET Nat]
        /\ claims' \in [Sessions -> SUBSET Nat]
        /\ stateFlags' \in [Sessions -> SUBSET {"FINAL_ACK", "EOB_SENT"}]
    BY <1>1, <2>1, LeaveExportType
  <2>4. expQueue' \in Seq(Segments)
    BY <1>2, <1>8, PurgeType DEF FinalReport, StoppedQueue
  <2>5. expTimeline' \subseteq ExpEvents
    BY <1>1, <1>8, ExpEventTypes DEF FinalReport, StoppedTimeline, ExpTypeOK
  <2>6. closedExports' \in [Sessions -> {NotListed} \cup (1 .. MaxTimeouts)]
    BY <1>1, <1>8, ConstantsAssumption DEF FinalReport, ExpTypeOK
  <2>7. UNCHANGED cancelTimeouts
    BY <1>8 DEF FinalReport
  <2> QED
    BY <2>2, <2>3, <2>4, <2>5, <2>6, <2>7 DEF ExpTypeOK
<1>9. CASE FinalReportBeforeEOB(rs)
  <2>1. Deactivated(rs) \subseteq CkptEntries
    BY DeactivatedType
  <2>2. ckpts' \in [Sessions -> SUBSET CkptEntries]
    BY <1>9, <2>1 DEF FinalReportBeforeEOB, ExpTypeOK
  <2>3. claims' \in [Sessions -> SUBSET Nat]
    BY <1>9 DEF FinalReportBeforeEOB, ExpTypeOK
  <2>4. stateFlags' \in [Sessions -> SUBSET {"FINAL_ACK", "EOB_SENT"}]
    BY <1>1, <1>9 DEF FinalReportBeforeEOB, ExpTypeOK
  <2> QED
    BY <1>2, <1>3, <1>9, <2>2, <2>3, <2>4 DEF FinalReportBeforeEOB, ExpTypeOK
<1>10. CASE NegativeReportAtLimit(rs)
  <2>1. CancelSessionBySender(s, AckedQueue(rs), expTimeline)
    BY <1>10 DEF NegativeReportAtLimit
  <2>2. expTimeline \in SUBSET ExpEvents
    BY DEF ExpTypeOK
  <2> QED
    BY <1>1, <1>2, <2>1, <2>2, CancelBySenderType
<1>11. CASE NegativeReport(rs)
  <2> DEFINE missing == Units(rs) \ MergedClaims(rs)
             resent == RedSegmentsFor(s, missing, rs.rpt, lastCkpt[s] + 1)
             new == {seg \in resent : IsCkpt(seg)}
  <2>1. lastCkpt[s] + 1 \in Nat
    BY <1>1 DEF ExpTypeOK
  <2>2. resent \subseteq DataSegments /\ IsFiniteSet(resent)
    <3> HIDE DEF missing
    <3> QED
      BY <1>1, <2>1, RedSegmentsForType
  <2>3. /\ ckpts' = [ckpts EXCEPT ![s] =
                        Deactivated(rs) \cup {NewCkpt(seg) : seg \in new}]
        /\ lastCkpt' = [lastCkpt EXCEPT ![s] = IF new = {} THEN @ ELSE @ + 1]
        /\ expQueue' = EnqueueAll(AckedQueue(rs), resent)
    BY <1>11 DEF NegativeReport
  <2> HIDE DEF resent
  <2>4. {NewCkpt(seg) : seg \in new} \subseteq CkptEntries
    BY <2>2, NewCkptsType
  <2>5. ckpts' \in [Sessions -> SUBSET CkptEntries]
    <3>1. Deactivated(rs) \subseteq CkptEntries
      BY DeactivatedType
    <3> HIDE DEF new
    <3> QED
      BY <2>3, <2>4, <3>1 DEF ExpTypeOK
  <2>6. lastCkpt' \in [Sessions -> Nat]
    <3> HIDE DEF new
    <3> QED
      BY <2>1, <2>3 DEF ExpTypeOK
  <2>7. expQueue' \in Seq(Segments)
    <3>1. resent \subseteq Segments
      BY <2>2 DEF Segments
    <3> QED
      BY <1>2, <2>2, <2>3, <3>1, EnqueueAllType
  <2>8. claims' \in [Sessions -> SUBSET Nat]
    BY <1>4, <1>11 DEF NegativeReport, ExpTypeOK
  <2> QED
    BY <1>3, <1>11, <2>5, <2>6, <2>7, <2>8 DEF NegativeReport, ExpTypeOK
<1> QED
  BY <1>5, <1>6, <1>7, <1>8, <1>9, <1>10, <1>11 DEF HandleRS

\* handleCAS.
LEMMA HandleCASType ==
    ASSUME ExpTypeOK, NEW s \in Sessions, HandleCAS(s)
    PROVE  ExpTypeOK'
BY DEF HandleCAS, ExpTypeOK, expSessionVars

\* handleCR.
LEMMA HandleCRType ==
    ASSUME ExpTypeOK, NEW s \in Sessions, HandleCR(s)
    PROVE  ExpTypeOK'
<1>1. CASE /\ LeaveExportSessions(s, "closed")
           /\ Notify(s, "ExportSessionCanceled")
           /\ expQueue' = StoppedQueue(EnqueueAck(expQueue, Cancel("CAR", s)), s)
           /\ expTimeline' = StoppedTimeline(s)
           /\ UNCHANGED <<cancelTimeouts, closedExports>>
  <2>1. /\ expState' \in [Sessions -> {"idle", "open", "dead", "closed"}]
        /\ ckpts' \in [Sessions -> SUBSET CkptEntries]
        /\ lastCkpt' \in [Sessions -> Nat]
        /\ rsSerialNbrs' \in [Sessions -> SUBSET Nat]
        /\ claims' \in [Sessions -> SUBSET Nat]
        /\ stateFlags' \in [Sessions -> SUBSET {"FINAL_ACK", "EOB_SENT"}]
    BY <1>1, LeaveExportType
  <2>2. expNotices' \in [Sessions -> Seq(ExpNoticeKinds)]
    BY <1>1, NotifyType DEF ExpNoticeKinds
  <2>3. EnqueueAck(expQueue, Cancel("CAR", s)) \in Seq(Segments)
    BY MadeSegments, EnqueueAckType DEF ExpTypeOK
  <2>4. expQueue' \in Seq(Segments)
    BY <1>1, <2>3, PurgeType DEF StoppedQueue
  <2>5. expTimeline' \subseteq ExpEvents
    BY <1>1 DEF StoppedTimeline, ExpTypeOK
  <2> QED
    BY <1>1, <2>1, <2>2, <2>4, <2>5 DEF ExpTypeOK
<1>2. CASE UNCHANGED expVars
  BY <1>2 DEF ExpTypeOK, expVars, expSessionVars
<1> QED
  BY <1>1, <1>2 DEF HandleCR

\* ltpResendCheckpoint.
LEMMA ResendCheckpointType ==
    ASSUME ExpTypeOK, NEW s \in Sessions, NEW k \in Nat, ResendCheckpoint(s, k)
    PROVE  ExpTypeOK'
<1> DEFINE entry == {c \in ckpts[s] : c.seg.ckpt = k}
           timeline == expTimeline \ {ResendCheckpointEvent(s, k)}
<1>1. timeline \in SUBSET ExpEvents
  BY DEF ExpTypeOK
<1>2. expQueue \in Seq(Segments) /\ ckpts[s] \subseteq CkptEntries
  BY DEF ExpTypeOK
<1>3. CASE /\ expTimeline' = timeline
           /\ UNCHANGED <<expSessionVars, cancelTimeouts, closedExports,
                          expQueue, expNotices>>
  BY <1>1, <1>3 DEF ExpTypeOK, expSessionVars
<1>4. CASE CancelSessionBySender(s, expQueue, timeline)
  BY <1>1, <1>2, <1>4, CancelBySenderType
<1>5. CASE /\ \E c \in entry :
                 /\ c.count < MaxTimeouts
                 /\ ckpts' = [ckpts EXCEPT ![s] =
                       (@ \ entry) \cup {[c EXCEPT !.count = @ + 1]}]
                 /\ expQueue' = Append(expQueue, c.seg)
           /\ expTimeline' = timeline
           /\ UNCHANGED <<expState, lastCkpt, rsSerialNbrs, claims,
                          stateFlags, cancelTimeouts, closedExports, expNotices>>
  <2>1. PICK c \in entry :
                 /\ c.count < MaxTimeouts
                 /\ ckpts' = [ckpts EXCEPT ![s] =
                       (@ \ entry) \cup {[c EXCEPT !.count = @ + 1]}]
                 /\ expQueue' = Append(expQueue, c.seg)
    BY <1>5
  <2>2. c \in CkptEntries
    BY <1>2
  <2>3. [c EXCEPT !.count = @ + 1] \in CkptEntries
    <3>1. c.count + 1 \in 0 .. MaxTimeouts
      BY <2>1, <2>2, ConstantsAssumption DEF CkptEntries
    <3> QED
      BY <2>2, <3>1 DEF CkptEntries
  <2>4. c.seg \in Segments
    BY <2>2 DEF CkptEntries, Segments
  <2> HIDE DEF entry, timeline
  <2>5. ckpts' \in [Sessions -> SUBSET CkptEntries]
    BY <1>2, <2>1, <2>3 DEF ExpTypeOK
  <2>6. expQueue' \in Seq(Segments)
    BY <1>2, <2>1, <2>4
  <2> QED
    BY <1>1, <1>5, <2>5, <2>6 DEF ExpTypeOK
<1> QED
  BY <1>3, <1>4, <1>5 DEF ResendCheckpoint

\* ltpResendXmitCancel.
LEMMA ResendXmitCancelType ==
    ASSUME ExpTypeOK, NEW s \in Sessions, ResendXmitCancel(s)
    PROVE  ExpTypeOK'
<1> DEFINE isDead == expState[s] = "dead"
           giveUp == isDead /\ cancelTimeouts[s] = MaxTimeouts
<1>1. expTimeline' \subseteq ExpEvents
  BY DEF ResendXmitCancel, ExpTypeOK
<1>2. expState' \in [Sessions -> {"idle", "open", "dead", "closed"}]
  BY DEF ResendXmitCancel, ExpTypeOK
<1>3. cancelTimeouts' \in [Sessions -> 0 .. MaxTimeouts] /\ expQueue' \in Seq(Segments)
  <2>1. CASE isDead /\ ~giveUp
    <3>1. cancelTimeouts[s] + 1 \in 0 .. MaxTimeouts
      BY <2>1, ConstantsAssumption DEF ExpTypeOK
    <3>2. Append(expQueue, Cancel("CS", s)) \in Seq(Segments)
      BY MadeSegments DEF ExpTypeOK
    <3> QED
      BY <2>1, <3>1, <3>2 DEF ResendXmitCancel, ExpTypeOK
  <2>2. CASE ~(isDead /\ ~giveUp)
    BY <2>2 DEF ResendXmitCancel, ExpTypeOK
  <2> QED
    BY <2>1, <2>2
<1>4. UNCHANGED <<ckpts, lastCkpt, rsSerialNbrs, claims, stateFlags,
                  closedExports, expNotices>>
  BY DEF ResendXmitCancel
<1> QED
  BY <1>1, <1>2, <1>3, <1>4 DEF ExpTypeOK

\* The LtpForgetExportSession event.
LEMMA ForgetExportSessionType ==
    ASSUME ExpTypeOK, NEW s \in Sessions, ForgetExportSession(s)
    PROVE  ExpTypeOK'
<1>1. PICK t \in Sessions : closedExports' = [closedExports EXCEPT ![t] = NotListed]
  BY DEF ForgetExportSession
<1>2. closedExports' \in [Sessions -> {NotListed} \cup (1 .. MaxTimeouts)]
  BY <1>1 DEF ExpTypeOK
<1> QED
  BY <1>2 DEF ForgetExportSession, ExpTypeOK, expSessionVars

(***************************************************************************)
(* The receiving half.                                                     *)
(***************************************************************************)
LEMMA ImpInitType ==
    ASSUME ImpInit
    PROVE  ImpTypeOK
<1>1. EmptySession \in ImportSessionType
  BY DEF EmptySession, ImportSessionType
<1>2. 0 \in 0 .. MaxTimeouts
  BY ConstantsAssumption
<1> QED
  BY <1>1, <1>2 DEF ImpInit, ImpTypeOK

\* A notice is appended to those of its session.
LEMMA NotifyImportType ==
    ASSUME ImpTypeOK, NEW s \in Sessions, NEW kind \in ImpNoticeKinds,
           NotifyImport(s, kind)
    PROVE  impNotices' \in [Sessions -> Seq(ImpNoticeKinds)]
<1>1. impNotices[s] \in Seq(ImpNoticeKinds)
  BY DEF ImpTypeOK
<1>2. Append(impNotices[s], kind) \in Seq(ImpNoticeKinds)
  BY <1>1
<1> QED
  BY <1>2 DEF ImpTypeOK, NotifyImport

\* The events of the timeline.
LEMMA ImpEventTypes ==
    ASSUME NEW s \in Sessions
    PROVE  /\ \A k \in Nat : ResendReportEvent(s, k) \in ImpEvents
           /\ ResendRecvCancelEvent(s) \in ImpEvents
           /\ ForgetImportEvent(s) \in ImpEvents
BY DEF ResendReportEvent, ResendRecvCancelEvent, ForgetImportEvent, ImpEvents

\* What is left of a session out of importSessions.
LEMMA LeaveImportType ==
    ASSUME ImpTypeOK, NEW s \in Sessions, NEW state \in {"none", "dead"},
           LeaveImportSessions(s, state)
    PROVE  /\ impState' \in [Sessions -> {"none", "open", "dead"}]
           /\ imports' \in [Sessions -> ImportSessionType]
<1>1. EmptySession \in ImportSessionType
  BY DEF EmptySession, ImportSessionType
<1> QED
  BY <1>1 DEF ImpTypeOK, LeaveImportSessions

\* closeImportSession.
LEMMA CloseImportType ==
    ASSUME ImpTypeOK, NEW s \in Sessions, NEW queue \in Seq(Segments),
           CloseImportSession(s, queue)
    PROVE  /\ impState' \in [Sessions -> {"none", "open", "dead"}]
           /\ imports' \in [Sessions -> ImportSessionType]
           /\ closedImports' \subseteq Sessions
           /\ impQueue' \in Seq(Segments)
           /\ impTimeline' \subseteq ImpEvents
<1>1. LeaveImportSessions(s, "none")
  BY DEF CloseImportSession
<1>2. impQueue' \in Seq(Segments)
  BY PurgeType DEF CloseImportSession, StoppedImpQueue
<1>3. impTimeline' \subseteq ImpEvents
  BY ImpEventTypes DEF CloseImportSession, StoppedImpTimeline, ImpTypeOK
<1>4. closedImports' \subseteq Sessions
  BY DEF CloseImportSession, ImpTypeOK
<1>5. /\ impState' \in [Sessions -> {"none", "open", "dead"}]
      /\ imports' \in [Sessions -> ImportSessionType]
  BY <1>1, LeaveImportType
<1> QED
  BY <1>2, <1>3, <1>4, <1>5

\* cancelSessionByReceiver.
LEMMA CancelByReceiverType ==
    ASSUME ImpTypeOK, NEW s \in Sessions, CancelSessionByReceiver(s),
           lastRed' \in [session : Sessions \cup {0}, end : Nat],
           lastGreen' \in [session : Sessions \cup {0}, start : Nat]
    PROVE  ImpTypeOK'
<1>1. LeaveImportSessions(s, "dead") /\ NotifyImport(s, "ImportSessionCanceled")
  BY DEF CancelSessionByReceiver
<1>2. impNotices' \in [Sessions -> Seq(ImpNoticeKinds)]
  BY <1>1, NotifyImportType DEF ImpNoticeKinds
<1>3. /\ impState' \in [Sessions -> {"none", "open", "dead"}]
      /\ imports' \in [Sessions -> ImportSessionType]
  BY <1>1, LeaveImportType
<1>4. impQueue' \in Seq(Segments)
  <2>1. StoppedImpQueue(impQueue, s) \in Seq(Segments)
    BY PurgeType DEF StoppedImpQueue, ImpTypeOK
  <2>2. Cancel("CR", s) \in Segments
    BY MadeSegments
  <2> QED
    BY <2>1, <2>2 DEF CancelSessionByReceiver
<1>5. impTimeline' \subseteq ImpEvents
  BY DEF CancelSessionByReceiver, StoppedImpTimeline, ImpTypeOK
<1>6. cancelResends' \in [Sessions -> 0 .. MaxTimeouts]
  BY ConstantsAssumption DEF CancelSessionByReceiver, ImpTypeOK
<1>7. closedImports' \subseteq Sessions
  BY DEF CancelSessionByReceiver, ImpTypeOK
<1> QED
  BY <1>2, <1>3, <1>4, <1>5, <1>6, <1>7 DEF ImpTypeOK

\* sendReport makes finitely many report segments.
LEMMA PartialReportsType ==
    ASSUME NEW s \in Sessions, NEW session \in ImportSessionType,
           NEW seg \in DataSegments
    PROVE  /\ PartialReports(s, session, seg) \subseteq ReportSegments
           /\ IsFiniteSet(PartialReports(s, session, seg))
<1> DEFINE lower  == CitedLowerBound(session, seg.rpt)
           upper  == seg.hi
           within == session.units \cap (lower .. upper - 1)
           starts == {r[1] : r \in Runs(within, upper)}
           rank(x) == Cardinality({y \in starts : y <= x})
           cuts == {lower, upper} \cup
                   {x \in starts : rank(x) > 1 /\ (rank(x) - 1) % MaxClaims = 0}
           below(p) == {c \in cuts : c <= p[1]}
           rs(p) == [type |-> "RS", session |-> s, lo |-> p[1], hi |-> p[2],
                     ckpt |-> seg.ckpt, rpt |-> session.nextRpt + Cardinality(below(p)),
                     claims |-> within \cap (p[1] .. p[2] - 1)]
           T == {rs(p) : p \in Pieces(cuts)}
           f == [p \in Pieces(cuts) |-> rs(p)]
<1>1. seg.hi \in Nat /\ seg.ckpt \in Nat
  BY DEF DataSegments
<1>2. session.units \subseteq Nat /\ session.nextRpt \in Nat
      /\ session.reports \subseteq ReportEntries
  BY DEF ImportSessionType
<1>3. lower \in Nat
  <2>1. CASE \E r \in session.reports : r.seg.rpt = seg.rpt
    <3>1. (CHOOSE r \in session.reports : r.seg.rpt = seg.rpt) \in session.reports
      BY <2>1
    <3>2. (CHOOSE r \in session.reports : r.seg.rpt = seg.rpt) \in ReportEntries
      BY <1>2, <3>1
    <3>3. (CHOOSE r \in session.reports : r.seg.rpt = seg.rpt).seg.lo \in Nat
      BY <3>2 DEF ReportEntries, ReportSegments
    <3> QED
      BY <2>1, <3>3 DEF CitedLowerBound
  <2>2. CASE ~\E r \in session.reports : r.seg.rpt = seg.rpt
    BY <2>2 DEF CitedLowerBound
  <2> QED
    BY <2>1, <2>2
<1> HIDE DEF lower
<1>4. cuts \subseteq Nat /\ IsFiniteSet(cuts)
  <2>1. starts \subseteq 0 .. upper
    BY DEF Runs
  <2>2. IsFiniteSet(0 .. upper)
    BY <1>1, FS_Interval
  <2> DEFINE heads == {x \in starts : rank(x) > 1 /\ (rank(x) - 1) % MaxClaims = 0}
  <2>3. heads \in SUBSET (0 .. upper)
    BY <2>1
  <2>4. cuts = (heads \cup {lower}) \cup {upper}
    OBVIOUS
  <2> HIDE DEF heads, cuts
  <2>5. IsFiniteSet(heads)
    BY <2>2, <2>3, FS_Subset
  <2>6. IsFiniteSet((heads \cup {lower}) \cup {upper})
    BY <2>5, FS_AddElement
  <2>7. heads \subseteq Nat
    BY <1>1, <2>3
  <2>8. cuts \subseteq Nat
    BY <1>1, <1>3, <2>4, <2>7
  <2>9. IsFiniteSet(cuts)
    BY <2>4, <2>6
  <2> QED
    BY <2>8, <2>9
<1>5. PartialReports(s, session, seg) = T
  BY DEF PartialReports, lower
<1> HIDE DEF cuts, within
<1>6. IsFiniteSet(Pieces(cuts))
  BY <1>4, FinitePieces
<1>7. f \in [Pieces(cuts) -> T] /\ \A y \in T : \E p \in Pieces(cuts) : y = f[p]
  <2> HIDE DEF rs
  <2> QED
    OBVIOUS
<1>8. IsFiniteSet(T)
  <2> HIDE DEF f, T
  <2> QED
    BY <1>6, <1>7, FiniteImage
<1>9. ASSUME NEW p \in Pieces(cuts)
      PROVE  rs(p) \in ReportSegments
  <2>1. p[1] \in Nat /\ p[2] \in Nat
    BY <1>4 DEF Pieces
  <2>2. below(p) \in SUBSET cuts
    OBVIOUS
  <2>3. Cardinality(below(p)) \in Nat
    <3> HIDE DEF below
    <3>1. IsFiniteSet(below(p))
      BY <1>4, <2>2, FS_Subset
    <3> QED
      BY <3>1, FS_CardinalityType
  <2>4. within \cap (p[1] .. p[2] - 1) \subseteq Nat
    BY <1>2 DEF within
  <2> HIDE DEF below
  <2> QED
    BY <1>1, <1>2, <2>1, <2>3, <2>4 DEF ReportSegments
<1> QED
  <2> HIDE DEF rs
  <2> QED
    BY <1>5, <1>8, <1>9

\* sendLastReport makes a report segment.
LEMMA LastReportType ==
    ASSUME NEW s \in Sessions, NEW session \in ImportSessionType, NEW ckpt \in Nat
    PROVE  LastReport(s, session, ckpt) \in ReportSegments
<1>1. session.redPartLength \in Nat /\ session.nextRpt \in Nat
  BY DEF ImportSessionType
<1>2. 0 .. session.redPartLength - 1 \subseteq Nat
  BY <1>1
<1> QED
  BY <1>1, <1>2 DEF LastReport, ReportSegments

\* A session to which a finite row of reports is added.
LEMMA WithReportsType ==
    ASSUME NEW session \in ImportSessionType, NEW rss \in SUBSET ReportSegments,
           IsFiniteSet(rss)
    PROVE  WithReports(session, rss) \in ImportSessionType
<1>1. Cardinality(rss) \in Nat
  BY FS_CardinalityType
<1>2. 0 \in 0 .. MaxTimeouts
  BY ConstantsAssumption
<1>3. ASSUME NEW rs \in rss
      PROVE  NewReport(rs) \in ReportEntries
  BY <1>2 DEF NewReport, ReportEntries
<1> DEFINE reports == session.reports \cup {NewReport(rs) : rs \in rss}
<1>4. /\ reports \in SUBSET ReportEntries
      /\ session.nextRpt + Cardinality(rss) \in Nat
      /\ session.reportsCount + 1 \in Nat
  BY <1>1, <1>3 DEF ImportSessionType
<1>5. WithReports(session, rss) =
          [session EXCEPT !.reports = reports,
                          !.nextRpt = session.nextRpt + Cardinality(rss),
                          !.reportsCount = session.reportsCount + 1]
  BY DEF WithReports
<1> HIDE DEF reports
<1> QED
  BY <1>4, <1>5 DEF ImportSessionType

\* A session that stores a data segment.
LEMMA StoredType ==
    ASSUME NEW session \in ImportSessionType, NEW seg \in DataSegments
    PROVE  Stored(seg, session) \in ImportSessionType
<1>1. seg.lo \in Nat /\ seg.hi \in Nat
  BY DEF DataSegments
<1>2. Units(seg) \subseteq Nat /\ IsFiniteSet(Units(seg))
  <2>1. IsFiniteSet(seg.lo .. seg.hi - 1)
    BY <1>1, FS_Interval, SMTT(30)
  <2> QED
    BY <1>1, <2>1 DEF Units
<1>3. Cardinality(Units(seg)) \in Nat
  BY <1>2, FS_CardinalityType
<1>4. /\ session.units \cup Units(seg) \in SUBSET Nat
      /\ session.redPartReceived + Cardinality(Units(seg)) \in Nat
      /\ (IF seg.type \in {"DsRedEORP", "DsRedEOB"} THEN seg.hi
          ELSE session.redPartLength) \in Nat
  BY <1>1, <1>2, <1>3 DEF ImportSessionType
<1>5. Stored(seg, session) =
          [session EXCEPT
              !.units = session.units \cup Units(seg),
              !.redPartReceived = session.redPartReceived + Cardinality(Units(seg)),
              !.redPartLength = IF seg.type \in {"DsRedEORP", "DsRedEOB"}
                                THEN seg.hi ELSE session.redPartLength]
  BY DEF Stored
<1> QED
  BY <1>4, <1>5 DEF ImportSessionType

\* endOfRed.
LEMMA NoteRedType ==
    ASSUME ImpTypeOK, NEW seg \in DataSegments, NoteRed(seg)
    PROVE  lastRed' \in [session : Sessions \cup {0}, end : Nat]
BY DEF ImpTypeOK, DataSegments, NoteRed

\* handleDataSegment, one outcome a step.
LEMMA HandleDataSegmentType ==
    ASSUME ImpTypeOK, NEW seg \in DataSegments, HandleDataSegment(seg)
    PROVE  ImpTypeOK'
<1> DEFINE s == seg.session
<1>1. s \in Sessions /\ seg.lo \in Nat /\ seg.hi \in Nat /\ seg.ckpt \in Nat
  BY DEF DataSegments
<1>2. PICK fault : \/ LateSegment(seg) /\ fault = "none"
                   \/ RejectedSegment(seg, fault)
                   \/ GreenSegment(seg, fault)
                   \/ UselessRedSegment(seg, fault)
                   \/ DiscardedRedSegment(seg, fault)
                   \/ AcceptedRedSegment(seg, fault)
  BY DEF HandleDataSegment
<1>3. CASE LateSegment(seg)
  BY <1>3 DEF LateSegment, ImpTypeOK, impVars, impSessionVars
<1>4. CASE RejectedSegment(seg, fault)
  <2>1. CASE CancelSessionByReceiver(s)
    BY <1>1, <1>4, <2>1, CancelByReceiverType DEF RejectedSegment, ImpTypeOK
  <2>2. CASE /\ impQueue' = Append(impQueue, BareCR(s))
             /\ UNCHANGED <<impSessionVars, cancelResends, closedImports,
                            impTimeline, impNotices>>
    <3>1. impQueue' \in Seq(Segments)
      BY <1>1, <2>2, MadeSegments DEF ImpTypeOK
    <3> QED
      BY <1>4, <2>2, <3>1 DEF RejectedSegment, ImpTypeOK, impSessionVars
  <2> QED
    BY <1>4, <2>1, <2>2 DEF RejectedSegment
<1>5. CASE GreenSegment(seg, fault)
  <2>1. lastGreen' \in [session : Sessions \cup {0}, start : Nat]
    BY <1>1, <1>5 DEF GreenSegment, ImpTypeOK
  <2> QED
    BY <1>5, <2>1 DEF GreenSegment, ImpTypeOK, impSessionVars
<1>6. CASE UselessRedSegment(seg, fault)
  <2>1. lastRed' \in [session : Sessions \cup {0}, end : Nat]
    BY <1>6, NoteRedType DEF UselessRedSegment
  <2> QED
    BY <1>6, <2>1 DEF UselessRedSegment, ImpTypeOK, impSessionVars
<1>7. CASE DiscardedRedSegment(seg, fault)
  <2>1. lastRed' \in [session : Sessions \cup {0}, end : Nat]
    BY <1>7, NoteRedType DEF DiscardedRedSegment
  <2>2. impState' \in [Sessions -> {"none", "open", "dead"}]
    BY <1>1, <1>7 DEF DiscardedRedSegment, ImpTypeOK
  <2> QED
    BY <1>7, <2>1, <2>2 DEF DiscardedRedSegment, ImpTypeOK
<1>8. CASE AcceptedRedSegment(seg, fault)
  <2> DEFINE session == Stored(seg, imports[s])
             last == LastReport(s, session, seg.ckpt)
             rss == PartialReports(s, session, seg)
             reported == [WithReports(session, {last})
                             EXCEPT !.lastRpt = last.rpt, !.delivered = TRUE]
  <2>1. session \in ImportSessionType
    BY <1>1, StoredType DEF ImpTypeOK
  <2>2. /\ lastRed' \in [session : Sessions \cup {0}, end : Nat]
        /\ lastGreen' \in [session : Sessions \cup {0}, start : Nat]
    BY <1>8, NoteRedType DEF AcceptedRedSegment, ImpTypeOK
  <2>3. impQueue \in Seq(Segments)
    BY DEF ImpTypeOK
  <2> HIDE DEF session
  <2>4. CASE /\ impState' = [impState EXCEPT ![s] = "open"]
             /\ imports' = [imports EXCEPT ![s] = session]
             /\ UNCHANGED <<cancelResends, closedImports, impQueue,
                            impTimeline, impNotices>>
    BY <1>1, <2>1, <2>2, <2>4 DEF ImpTypeOK
  <2>5. CASE /\ impState' = [impState EXCEPT ![s] = "open"]
             /\ imports' = [imports EXCEPT ![s] = reported]
             /\ impQueue' = EnqueueAck(impQueue, last)
             /\ NotifyImport(s, "RecvRedPart")
             /\ UNCHANGED <<cancelResends, closedImports, impTimeline>>
    <3>1. last \in ReportSegments
      BY <1>1, <2>1, LastReportType
    <3>2. last.rpt \in Nat /\ last \in Segments
      BY <3>1 DEF ReportSegments, Segments
    <3> HIDE DEF last
    <3>3. WithReports(session, {last}) \in ImportSessionType
      <4>1. IsFiniteSet({last})
        BY FS_Singleton
      <4> QED
        BY <2>1, <3>1, <4>1, WithReportsType
    <3>4. reported \in ImportSessionType
      BY <3>2, <3>3 DEF ImportSessionType
    <3>5. impQueue' \in Seq(Segments)
      BY <2>3, <2>5, <3>2, EnqueueAckType
    <3>6. impNotices' \in [Sessions -> Seq(ImpNoticeKinds)]
      BY <1>1, <2>5, NotifyImportType DEF ImpNoticeKinds
    <3> HIDE DEF reported
    <3> QED
      BY <1>1, <2>2, <2>5, <3>4, <3>5, <3>6 DEF ImpTypeOK
  <2>6. CASE CancelSessionByReceiver(s)
    BY <1>1, <2>2, <2>6, CancelByReceiverType
  <2>7. CASE /\ impState' = [impState EXCEPT ![s] = "open"]
             /\ imports' = [imports EXCEPT ![s] = WithReports(session, rss)]
             /\ impQueue' = EnqueueAcks(impQueue, InOrder(rss))
             /\ UNCHANGED <<cancelResends, closedImports, impTimeline, impNotices>>
    <3>1. rss \subseteq ReportSegments /\ IsFiniteSet(rss)
      BY <1>1, <2>1, PartialReportsType
    <3> HIDE DEF rss
    <3>2. WithReports(session, rss) \in ImportSessionType
      BY <2>1, <3>1, WithReportsType
    <3>3. InOrder(rss) \in Seq(Segments)
      <4>1. rss \subseteq Segments
        BY <3>1 DEF Segments
      <4> QED
        BY <3>1, <4>1, InOrderType
    <3>4. impQueue' \in Seq(Segments)
      BY <2>3, <2>7, <3>3, EnqueueAcksType
    <3> QED
      BY <1>1, <2>2, <2>7, <3>2, <3>4 DEF ImpTypeOK
  <2> QED
    BY <1>8, <2>4, <2>5, <2>6, <2>7 DEF AcceptedRedSegment, session
<1> QED
  BY <1>2, <1>3, <1>4, <1>5, <1>6, <1>7, <1>8

\* handleRA.
LEMMA HandleRAType ==
    ASSUME ImpTypeOK, NEW ra \in ReportAcks, HandleRA(ra)
    PROVE  ImpTypeOK'
<1> DEFINE s == ra.session
           entry == {r \in imports[s].reports : r.seg.rpt = ra.rpt}
<1>1. s \in Sessions
  BY DEF ReportAcks
<1>2. CASE UNCHANGED impVars
  BY <1>2 DEF ImpTypeOK, impVars, impSessionVars
<1>3. CASE /\ CloseImportSession(s, impQueue)
           /\ UNCHANGED <<cancelResends, lastRed, lastGreen, impNotices>>
  <2>1. impQueue \in Seq(Segments)
    BY DEF ImpTypeOK
  <2>2. /\ impState' \in [Sessions -> {"none", "open", "dead"}]
        /\ imports' \in [Sessions -> ImportSessionType]
        /\ closedImports' \subseteq Sessions
        /\ impQueue' \in Seq(Segments)
        /\ impTimeline' \subseteq ImpEvents
    BY <1>1, <1>3, <2>1, CloseImportType
  <2> QED
    BY <1>3, <2>2 DEF ImpTypeOK
<1>4. CASE /\ imports' = [imports EXCEPT ![s].reports =
                  (@ \ entry) \cup {[r EXCEPT !.armed = FALSE] : r \in entry}]
           /\ UNCHANGED <<impState, cancelResends, closedImports, lastRed,
                          lastGreen, impQueue, impTimeline, impNotices>>
  <2>1. imports[s] \in ImportSessionType /\ imports[s].reports \subseteq ReportEntries
    BY <1>1 DEF ImpTypeOK, ImportSessionType
  <2>2. {[r EXCEPT !.armed = FALSE] : r \in entry} \subseteq ReportEntries
    BY <2>1 DEF ReportEntries
  <2> HIDE DEF entry
  <2>3. imports' \in [Sessions -> ImportSessionType]
    BY <1>1, <1>4, <2>1, <2>2 DEF ImpTypeOK, ImportSessionType
  <2> QED
    BY <1>4, <2>3 DEF ImpTypeOK
<1> QED
  BY <1>2, <1>3, <1>4 DEF HandleRA

\* handleCS.
LEMMA HandleCSType ==
    ASSUME ImpTypeOK, NEW s \in Sessions, HandleCS(s)
    PROVE  ImpTypeOK'
<1> DEFINE acked == EnqueueAck(impQueue, Cancel("CAS", s))
<1>1. acked \in Seq(Segments)
  BY MadeSegments, EnqueueAckType DEF ImpTypeOK
<1>2. UNCHANGED <<cancelResends, lastRed, lastGreen>>
  BY DEF HandleCS
<1>3. CASE /\ impQueue' = acked
           /\ UNCHANGED <<impSessionVars, closedImports, impTimeline, impNotices>>
  BY <1>1, <1>2, <1>3 DEF ImpTypeOK, impSessionVars
<1>4. CASE /\ NotifyImport(s, "ImportSessionCanceled")
           /\ CloseImportSession(s, acked)
  <2>1. impNotices' \in [Sessions -> Seq(ImpNoticeKinds)]
    BY <1>4, NotifyImportType DEF ImpNoticeKinds
  <2>2. /\ impState' \in [Sessions -> {"none", "open", "dead"}]
        /\ imports' \in [Sessions -> ImportSessionType]
        /\ closedImports' \subseteq Sessions
        /\ impQueue' \in Seq(Segments)
        /\ impTimeline' \subseteq ImpEvents
    BY <1>1, <1>4, CloseImportType
  <2> QED
    BY <1>2, <2>1, <2>2 DEF ImpTypeOK
<1> QED
  BY <1>3, <1>4 DEF HandleCS

\* handleCAR.
LEMMA HandleCARType ==
    ASSUME ImpTypeOK, NEW s \in Sessions, HandleCAR(s)
    PROVE  ImpTypeOK'
<1>1. impState' \in [Sessions -> {"none", "open", "dead"}]
  BY DEF HandleCAR, ImpTypeOK
<1>2. closedImports' \subseteq Sessions /\ impTimeline' \subseteq ImpEvents
  BY ImpEventTypes DEF HandleCAR, ImpTypeOK
<1> QED
  BY <1>1, <1>2 DEF HandleCAR, ImpTypeOK

\* ltpDequeueOutboundSegment at the receiving engine.
LEMMA DequeueImportType ==
    ASSUME ImpTypeOK, impQueue # <<>>, DequeueImport(Head(impQueue))
    PROVE  ImpTypeOK'
<1> DEFINE seg == Head(impQueue)
           s == seg.session
           entry == {r \in imports[s].reports : r.seg = seg}
<1>1. seg \in Segments /\ impQueue' \in Seq(Segments)
  <2>1. impQueue \in Seq(Segments)
    BY DEF ImpTypeOK
  <2> QED
    BY <2>1, HeadTailType DEF DequeueImport
<1>2. s \in Sessions
  BY <1>1, SegmentKinds
<1> HIDE DEF seg
<1>3. imports' \in [Sessions -> ImportSessionType] /\ impTimeline' \subseteq ImpEvents
  <2>1. CASE DequeueReport(seg)
    <3>1. seg.rpt \in Nat
      BY <1>1, <2>1, SegmentKinds DEF DequeueReport, ReportSegments
    <3>2. imports[s] \in ImportSessionType /\ imports[s].reports \subseteq ReportEntries
      BY <1>2 DEF ImpTypeOK, ImportSessionType
    <3>3. {[r EXCEPT !.armed = TRUE] : r \in entry} \subseteq ReportEntries
      BY <3>2 DEF ReportEntries
    <3>4. imports' = [imports EXCEPT ![s].reports =
                         (@ \ entry) \cup {[r EXCEPT !.armed = TRUE] : r \in entry}]
      BY <2>1 DEF DequeueReport
    <3>5. impTimeline' \subseteq ImpEvents
      BY <1>2, <2>1, <3>1, ImpEventTypes DEF DequeueReport, ImpTypeOK
    <3> HIDE DEF entry
    <3>6. imports' \in [Sessions -> ImportSessionType]
      BY <1>2, <3>2, <3>3, <3>4 DEF ImpTypeOK, ImportSessionType
    <3> QED
      BY <3>5, <3>6
  <2>2. CASE DequeueCR(seg)
    BY <1>2, <2>2, ImpEventTypes DEF DequeueCR, ImpTypeOK
  <2>3. CASE DequeueCAS(seg)
    BY <2>3 DEF DequeueCAS, ImpTypeOK
  <2> QED
    BY <2>1, <2>2, <2>3 DEF DequeueImport, seg
<1> QED
  BY <1>1, <1>3 DEF DequeueImport, ImpTypeOK

\* ltpResendReport.
LEMMA ResendReportType ==
    ASSUME ImpTypeOK, NEW s \in Sessions, NEW k \in Nat, ResendReport(s, k)
    PROVE  ImpTypeOK'
<1> DEFINE event == ResendReportEvent(s, k)
           entry == {r \in imports[s].reports : r.seg.rpt = k}
<1>1. imports[s] \in ImportSessionType /\ imports[s].reports \subseteq ReportEntries
  BY DEF ImpTypeOK, ImportSessionType
<1>2. UNCHANGED <<lastRed, lastGreen>>
  BY DEF ResendReport
<1>3. CASE /\ impTimeline' = impTimeline \ {event}
           /\ UNCHANGED <<impSessionVars, cancelResends, closedImports,
                          impQueue, impNotices>>
  BY <1>2, <1>3 DEF ImpTypeOK, impSessionVars
<1>4. CASE CancelSessionByReceiver(s)
  BY <1>2, <1>4, CancelByReceiverType DEF ImpTypeOK
<1>5. CASE /\ \E r \in entry :
                 /\ r.count < MaxTimeouts
                 /\ imports' = [imports EXCEPT ![s].reports =
                       (@ \ entry) \cup {[r EXCEPT !.count = @ + 1]}]
                 /\ impQueue' = Append(impQueue, r.seg)
           /\ impTimeline' = impTimeline \ {event}
           /\ UNCHANGED <<impState, cancelResends, closedImports, impNotices>>
  <2>1. PICK r \in entry :
                 /\ r.count < MaxTimeouts
                 /\ imports' = [imports EXCEPT ![s].reports =
                       (@ \ entry) \cup {[r EXCEPT !.count = @ + 1]}]
                 /\ impQueue' = Append(impQueue, r.seg)
    BY <1>5
  <2>2. r \in ReportEntries
    BY <1>1
  <2>3. [r EXCEPT !.count = @ + 1] \in ReportEntries
    <3>1. r.count + 1 \in 0 .. MaxTimeouts
      BY <2>1, <2>2, ConstantsAssumption DEF ReportEntries
    <3> QED
      BY <2>2, <3>1 DEF ReportEntries
  <2>4. r.seg \in Segments
    BY <2>2 DEF ReportEntries, Segments
  <2> HIDE DEF entry, event
  <2>5. imports' \in [Sessions -> ImportSessionType]
    BY <1>1, <2>1, <2>3 DEF ImpTypeOK, ImportSessionType
  <2>6. impQueue' \in Seq(Segments)
    BY <2>1, <2>4 DEF ImpTypeOK
  <2> QED
    BY <1>2, <1>5, <2>5, <2>6 DEF ImpTypeOK
<1> QED
  BY <1>3, <1>4, <1>5 DEF ResendReport

\* ltpResendRecvCancel.
LEMMA ResendRecvCancelType ==
    ASSUME ImpTypeOK, NEW s \in Sessions, ResendRecvCancel(s)
    PROVE  ImpTypeOK'
<1> DEFINE isDead == impState[s] = "dead"
           giveUp == isDead /\ cancelResends[s] = MaxTimeouts
<1>1. /\ impState' \in [Sessions -> {"none", "open", "dead"}]
      /\ closedImports' \subseteq Sessions
      /\ impTimeline' \subseteq ImpEvents
  BY ImpEventTypes, ZenonT(60) DEF ResendRecvCancel, ImpTypeOK
<1>2. cancelResends' \in [Sessions -> 0 .. MaxTimeouts] /\ impQueue' \in Seq(Segments)
  <2>1. CASE isDead /\ ~giveUp
    <3>1. cancelResends[s] + 1 \in 0 .. MaxTimeouts
      BY <2>1, ConstantsAssumption DEF ImpTypeOK
    <3>2. Append(impQueue, Cancel("CR", s)) \in Seq(Segments)
      BY MadeSegments DEF ImpTypeOK
    <3> QED
      BY <2>1, <3>1, <3>2, ZenonT(60) DEF ResendRecvCancel, ImpTypeOK
  <2>2. CASE ~(isDead /\ ~giveUp)
    BY <2>2 DEF ResendRecvCancel, ImpTypeOK
  <2> QED
    BY <2>1, <2>2
<1> QED
  BY <1>1, <1>2 DEF ResendRecvCancel, ImpTypeOK

\* The LtpForgetImportSession event.
LEMMA ForgetImportSessionType ==
    ASSUME ImpTypeOK, NEW s \in Sessions, ForgetImportSession(s)
    PROVE  ImpTypeOK'
BY DEF ForgetImportSession, ImpTypeOK, impSessionVars

(***************************************************************************)
(* The two halves and the links.                                           *)
(***************************************************************************)
LEMMA SendType ==
    ASSUME net \subseteq Segments, NEW seg \in Segments, Send(seg)
    PROVE  net' \subseteq Segments
BY OnWireType DEF Send

\* Every step of the span keeps the type invariant.
LEMMA NextType ==
    ASSUME TypeOK, [Next]_vars
    PROVE  TypeOK'
<1> USE DEF TypeOK
<1>1. ASSUME NEW s \in Sessions, Issue(s)
      PROVE  TypeOK'
  <2>1. ExpTypeOK'
    BY <1>1, IssueBlockType DEF Issue
  <2> QED
    BY <1>1, <2>1 DEF Issue, ImpTypeOK, impVars, impSessionVars
<1>2. ASSUME NEW s \in Sessions, ExpTimer(s)
      PROVE  TypeOK'
  <2>1. ExpTypeOK'
    BY <1>2, ResendCheckpointType, ResendXmitCancelType, ForgetExportSessionType
       DEF ExpTimer
  <2> QED
    BY <1>2, <2>1 DEF ExpTimer, ImpTypeOK, impVars, impSessionVars
<1>3. ASSUME NEW s \in Sessions, ImpTimer(s)
      PROVE  TypeOK'
  <2>1. \A event \in impTimeline : event[3] \in Nat
    BY DEF ImpTypeOK, ImpEvents
  <2>2. ImpTypeOK'
    BY <1>3, <2>1, ResendReportType, ResendRecvCancelType, ForgetImportSessionType
       DEF ImpTimer
  <2> QED
    BY <1>3, <2>2 DEF ImpTimer, ExpTypeOK, expVars, expSessionVars
<1>4. CASE ExpTransmit
  <2>1. ExpTypeOK'
    BY <1>4, DequeueExportType DEF ExpTransmit
  <2>2. net' \subseteq Segments
    BY <1>4, HeadTailType, SendType DEF ExpTransmit, ExpTypeOK
  <2> QED
    BY <1>4, <2>1, <2>2 DEF ExpTransmit, ImpTypeOK, impVars, impSessionVars
<1>5. CASE ImpTransmit
  <2>1. ImpTypeOK'
    BY <1>5, DequeueImportType DEF ImpTransmit
  <2>2. net' \subseteq Segments
    BY <1>5, HeadTailType, SendType DEF ImpTransmit, ImpTypeOK
  <2> QED
    BY <1>5, <2>1, <2>2 DEF ImpTransmit, ExpTypeOK, expVars, expSessionVars
<1>6. ASSUME NEW seg \in net, ExpReceive(seg)
      PROVE  TypeOK'
  <2>1. seg \in Segments /\ seg.session \in Sessions
    BY SegmentKinds
  <2>2. ExpTypeOK'
    BY <1>6, <2>1, SegmentKinds, HandleRSType, HandleCASType, HandleCRType
       DEF ExpReceive
  <2>3. net' \subseteq Segments
    BY <1>6 DEF ExpReceive, Take
  <2> QED
    BY <1>6, <2>2, <2>3 DEF ExpReceive, ImpTypeOK, impVars, impSessionVars
<1>7. ASSUME NEW seg \in net, ImpReceive(seg)
      PROVE  TypeOK'
  <2>1. seg \in Segments /\ seg.session \in Sessions
    BY SegmentKinds
  <2>2. ImpTypeOK'
    BY <1>7, <2>1, SegmentKinds, HandleDataSegmentType, HandleRAType, HandleCSType,
       HandleCARType DEF ImpReceive
  <2>3. net' \subseteq Segments
    BY <1>7 DEF ImpReceive, Take
  <2> QED
    BY <1>7, <2>2, <2>3 DEF ImpReceive, ExpTypeOK, expVars, expSessionVars
<1>8. CASE UNCHANGED vars
  BY <1>8 DEF vars, ExpTypeOK, ImpTypeOK, expVars, expSessionVars, impVars,
              impSessionVars
<1> QED
  BY <1>1, <1>2, <1>3, <1>4, <1>5, <1>6, <1>7, <1>8 DEF Next

\* In every state of every span the variables have their types: whatever is
\* lost, repeated or timed out, a handler of libltpP.c leaves lists, queues,
\* timelines, counters and claims that the next handler can work with.
THEOREM TypeCorrect == Spec => []TypeOK
<1>1. Init => TypeOK
  BY ExpInitType, ImpInitType DEF Init, TypeOK
<1>2. TypeOK /\ [Next]_vars => TypeOK'
  BY NextType
<1> QED
  BY <1>1, <1>2, PTL DEF Spec

(***************************************************************************)
(* The steps of each half.                                                 *)
(***************************************************************************)
ExpStep ==
    \/ \E s \in Sessions : IssueBlock(s)
    \/ expQueue # <<>> /\ DequeueExport(Head(expQueue))
    \/ \E rs \in net \cap ReportSegments : HandleRS(rs)
    \/ \E s \in Sessions : HandleCAS(s) \/ HandleCR(s)
    \/ \E s \in Sessions, k \in Nat : ResendCheckpoint(s, k)
    \/ \E s \in Sessions : ResendXmitCancel(s) \/ ForgetExportSession(s)
    \/ UNCHANGED expVars

ImpStep ==
    \/ \E seg \in net \cap DataSegments : HandleDataSegment(seg)
    \/ \E ra \in net \cap ReportAcks : HandleRA(ra)
    \/ \E s \in Sessions : HandleCS(s) \/ HandleCAR(s)
    \/ impQueue # <<>> /\ DequeueImport(Head(impQueue))
    \/ \E s \in Sessions, k \in Nat : ResendReport(s, k)
    \/ \E s \in Sessions : \/ ResendRecvCancel(s)
                           \/ ForgetImportSession(s) /\ Quarantined(s)
    \/ UNCHANGED impVars

\* Every step of the span is a step or a stutter of each half.
LEMMA StepOfHalves ==
    ASSUME TypeOK, [Next]_vars
    PROVE  ExpStep /\ ImpStep
<1>1. ASSUME NEW seg \in net
      PROVE  /\ seg \in Segments /\ seg.session \in Sessions
             /\ IsData(seg) => seg \in DataSegments
             /\ seg.type = "RS" => seg \in ReportSegments
             /\ seg.type = "RAS" => seg \in ReportAcks
  BY SegmentKinds DEF TypeOK
<1>2. \A event \in impTimeline : event[3] \in Nat
  BY DEF TypeOK, ImpTypeOK, ImpEvents
<1>3. ASSUME NEW s \in Sessions, Issue(s)
      PROVE  ExpStep /\ ImpStep
  BY <1>3 DEF Issue, ExpStep, ImpStep
<1>4. ASSUME NEW s \in Sessions, ExpTimer(s)
      PROVE  ExpStep /\ ImpStep
  BY <1>4 DEF ExpTimer, ExpStep, ImpStep
<1>5. ASSUME NEW s \in Sessions, ImpTimer(s)
      PROVE  ExpStep /\ ImpStep
  BY <1>2, <1>5 DEF ImpTimer, ExpStep, ImpStep
<1>6. CASE ExpTransmit
  BY <1>6 DEF ExpTransmit, ExpStep, ImpStep
<1>7. CASE ImpTransmit
  BY <1>7 DEF ImpTransmit, ExpStep, ImpStep
<1>8. ASSUME NEW seg \in net, ExpReceive(seg)
      PROVE  ExpStep /\ ImpStep
  BY <1>1, <1>8 DEF ExpReceive, ExpStep, ImpStep
<1>9. ASSUME NEW seg \in net, ImpReceive(seg)
      PROVE  ExpStep /\ ImpStep
  BY <1>1, <1>9 DEF ImpReceive, ExpStep, ImpStep
<1>10. CASE UNCHANGED vars
  BY <1>10 DEF vars, ExpStep, ImpStep
<1> QED
  BY <1>3, <1>4, <1>5, <1>6, <1>7, <1>8, <1>9, <1>10 DEF Next

(***************************************************************************)
(* The life of an export session.                                          *)
(***************************************************************************)
Stays(s)         == expState'[s] = expState[s]
Moves(s, p, q)   == expState[s] = p /\ expState'[s] = q
Hears(s, kinds)  == expNotices'[s] = expNotices[s] \o kinds

LifeStep(s) ==
    \/ Stays(s) /\ expNotices'[s] = expNotices[s]
    \/ Stays(s) /\ expNotices'[s] = Append(expNotices[s], "XmitComplete")
    \/ Moves(s, "idle", "open") /\ expNotices'[s] = expNotices[s]
    \/ Moves(s, "dead", "closed") /\ expNotices'[s] = expNotices[s]
    \/ /\ Moves(s, "open", "dead") \/ Moves(s, "open", "closed")
       /\ expNotices'[s] = Append(expNotices[s], "ExportSessionCanceled")
    \/ /\ Moves(s, "open", "closed")
       /\ expNotices'[s] = Append(expNotices[s], "ExportSessionComplete")
       /\ \E rs \in net \cap ReportSegments : rs.session = s /\ FinalReport(rs)
    \/ /\ Moves(s, "open", "closed")
       /\ Hears(s, <<"XmitComplete", "ExportSessionComplete">>)
       /\ RedLen(s) = 0 \/ "FINAL_ACK" \in stateFlags[s]

\* An export session is issued once, and leaves exportSessions once, with one
\* verdict for its client.
LEMMA ExportLife ==
    ASSUME TypeOK, ExpStep, NEW s \in Sessions
    PROVE  LifeStep(s)
<1> USE DEF Stays, Moves, Hears
<1>0. /\ expState \in [Sessions -> {"idle", "open", "dead", "closed"}]
      /\ expNotices \in [Sessions -> Seq(ExpNoticeKinds)]
      /\ \A i \in Sessions : stateFlags[i] \subseteq {"FINAL_ACK", "EOB_SENT"}
  BY DEF TypeOK, ExpTypeOK
<1>1. ASSUME NEW t \in Sessions, IssueBlock(t)
      PROVE  LifeStep(s)
  BY <1>0, <1>1 DEF IssueBlock, LifeStep
<1>2. ASSUME NEW t \in Sessions, expState[t] = "open", NEW q, NEW tl,
             CancelSessionBySender(t, q, tl)
      PROVE  LifeStep(s)
  BY <1>0, <1>2 DEF CancelSessionBySender, LeaveExportSessions, Notify, LifeStep
<1>3. CASE expQueue # <<>> /\ DequeueExport(Head(expQueue))
  <2> DEFINE seg == Head(expQueue)
  <2>1. seg.session \in Sessions
    BY <1>3, HeadTailType, SegmentKinds DEF TypeOK, ExpTypeOK
  <2> HIDE DEF seg
  <2>2. CASE DequeuePlain(seg)
    BY <2>2 DEF DequeuePlain, LifeStep, expSessionVars
  <2>3. CASE DequeueCheckpoint(seg)
    BY <1>0, <2>1, <2>3 DEF DequeueCheckpoint, Notify, LifeStep
  <2>4. CASE DequeueGreenEOB(seg)
    BY <1>0, <2>1, <2>4 DEF DequeueGreenEOB, Notify, LeaveExportSessions, LifeStep
  <2>5. CASE DequeueCS(seg)
    BY <2>5 DEF DequeueCS, LifeStep, expSessionVars
  <2> QED
    BY <1>3, <2>2, <2>3, <2>4, <2>5 DEF DequeueExport, seg
<1>4. ASSUME NEW rs \in net \cap ReportSegments, HandleRS(rs)
      PROVE  LifeStep(s)
  <2>1. rs.session \in Sessions
    BY DEF ReportSegments
  <2>2. CASE LateReport(rs) \/ StrayReport(rs) \/ IgnoredReport(rs)
    BY <2>2 DEF LateReport, StrayReport, IgnoredReport, LifeStep, expSessionVars, expVars
  <2>3. CASE FinalReport(rs)
    BY <1>0, <2>1, <2>3 DEF FinalReport, IsNewReport, LeaveExportSessions, Notify, LifeStep
  <2>4. CASE FinalReportBeforeEOB(rs)
    BY <2>4 DEF FinalReportBeforeEOB, LifeStep
  <2>5. CASE NegativeReportAtLimit(rs)
    BY <1>2, <2>1, <2>5 DEF NegativeReportAtLimit, IsNewReport
  <2>6. CASE NegativeReport(rs)
    BY <2>6 DEF NegativeReport, LifeStep
  <2> QED
    BY <1>4, <2>2, <2>3, <2>4, <2>5, <2>6 DEF HandleRS
<1>5. ASSUME NEW t \in Sessions, HandleCAS(t)
      PROVE  LifeStep(s)
  BY <1>5 DEF HandleCAS, LifeStep, expSessionVars
<1>6. ASSUME NEW t \in Sessions, HandleCR(t)
      PROVE  LifeStep(s)
  BY <1>0, <1>6 DEF HandleCR, LeaveExportSessions, Notify, LifeStep, expVars, expSessionVars
<1>7. ASSUME NEW t \in Sessions, NEW k \in Nat, ResendCheckpoint(t, k)
      PROVE  LifeStep(s)
  BY <1>2, <1>7 DEF ResendCheckpoint, LifeStep, expSessionVars
<1>8. ASSUME NEW t \in Sessions, ResendXmitCancel(t)
      PROVE  LifeStep(s)
  BY <1>0, <1>8 DEF ResendXmitCancel, LifeStep
<1>9. ASSUME NEW t \in Sessions, ForgetExportSession(t)
      PROVE  LifeStep(s)
  BY <1>9 DEF ForgetExportSession, LifeStep, expSessionVars
<1>10. CASE UNCHANGED expVars
  BY <1>10 DEF LifeStep, expVars, expSessionVars
<1> QED
  BY <1>1, <1>3, <1>4, <1>5, <1>6, <1>7, <1>8, <1>9, <1>10 DEF ExpStep

(***************************************************************************)
(* Counting notices.                                                       *)
(***************************************************************************)
\* One more element, one more occurrence of it.
LEMMA CountAppend ==
    ASSUME NEW T, NEW seq \in Seq(T), NEW x \in T, NEW y
    PROVE  /\ Count(seq, y) \in Nat
           /\ Count(Append(seq, x), y) = Count(seq, y) + (IF x = y THEN 1 ELSE 0)
           /\ Count(seq, y) = 0 <=> ~InQueue(seq, y)
<1> DEFINE n == Len(seq)
           old == {i \in 1 .. n : seq[i] = y}
           new == {i \in 1 .. n + 1 : Append(seq, x)[i] = y}
<1>1. n \in Nat /\ Len(Append(seq, x)) = n + 1
  OBVIOUS
<1>2. old \in SUBSET (1 .. n) /\ IsFiniteSet(1 .. n)
  BY <1>1, FS_Interval
<1>3. IsFiniteSet(old)
  <2> HIDE DEF old
  <2> QED
    BY <1>2, FS_Subset
<1>4. new = IF x = y THEN old \cup {n + 1} ELSE old
  OBVIOUS
<1>5. n + 1 \notin old
  BY <1>1
<1>6. Count(seq, y) = Cardinality(old) /\ Count(Append(seq, x), y) = Cardinality(new)
  BY <1>1 DEF Count
<1>7. old = {} <=> ~InQueue(seq, y)
  BY DEF InQueue
<1> HIDE DEF old, new
<1>8. Cardinality(old) \in Nat /\ (Cardinality(old) = 0 <=> old = {})
  BY <1>3, FS_CardinalityType, FS_EmptySet
<1>9. Cardinality(old \cup {n + 1}) = Cardinality(old) + 1
  BY <1>3, <1>5, FS_AddElement
<1> QED
  BY <1>4, <1>6, <1>7, <1>8, <1>9

Verdicts(s) ==
    Count(expNotices[s], "ExportSessionComplete")
        + Count(expNotices[s], "ExportSessionCanceled")

\* The sending client gets exactly one verdict of each session that has left
\* exportSessions, by whichever of handleRS, handleCR, the last green segment
\* or a timer, and none before.
THEOREM VerdictsAreFinal == Spec => []OneVerdict
<1>1. Init => OneVerdict
  <2> SUFFICES ASSUME Init, NEW s \in Sessions
               PROVE  Verdicts(s) = 0 /\ expState[s] = "idle"
    BY DEF OneVerdict, Verdicts
  <2>1. expNotices[s] = <<>> /\ expState[s] = "idle"
    BY DEF Init, ExpInit
  <2>2. ASSUME NEW y
        PROVE  Count(<<>>, y) = 0
    <3>1. {i \in 1 .. Len(<<>>) : <<>>[i] = y} = {}
      OBVIOUS
    <3> QED
      BY <3>1, FS_EmptySet DEF Count
  <2> QED
    BY <2>1, <2>2 DEF Verdicts
<1>2. TypeOK /\ OneVerdict /\ [Next]_vars => OneVerdict'
  <2> SUFFICES ASSUME TypeOK, OneVerdict, [Next]_vars, NEW s \in Sessions
               PROVE  Verdicts(s)' = IF expState'[s] \in {"dead", "closed"} THEN 1 ELSE 0
    BY DEF OneVerdict, Verdicts
  <2>1. LifeStep(s)
    BY StepOfHalves, ExportLife
  <2>2. Verdicts(s) = IF expState[s] \in {"dead", "closed"} THEN 1 ELSE 0
    BY DEF OneVerdict, Verdicts
  <2> DEFINE old == expNotices[s]
             complete == "ExportSessionComplete"
             canceled == "ExportSessionCanceled"
  <2>3. old \in Seq(ExpNoticeKinds)
    BY DEF TypeOK, ExpTypeOK
  <2>4. /\ "XmitComplete" \in ExpNoticeKinds
        /\ complete \in ExpNoticeKinds
        /\ canceled \in ExpNoticeKinds
    BY DEF ExpNoticeKinds
  <2>5. Count(old, complete) \in Nat /\ Count(old, canceled) \in Nat
    BY <2>3, <2>4, CountAppend
  <2>6. /\ Count(Append(old, "XmitComplete"), complete) = Count(old, complete)
        /\ Count(Append(old, "XmitComplete"), canceled) = Count(old, canceled)
    BY <2>3, <2>4, <2>5, CountAppend
  <2>7. /\ Count(Append(old, complete), complete) = Count(old, complete) + 1
        /\ Count(Append(old, complete), canceled) = Count(old, canceled)
    BY <2>3, <2>4, <2>5, CountAppend
  <2>8. /\ Count(Append(old, canceled), complete) = Count(old, complete)
        /\ Count(Append(old, canceled), canceled) = Count(old, canceled) + 1
    BY <2>3, <2>4, <2>5, CountAppend
  <2>9. /\ Count(old \o <<"XmitComplete", complete>>, complete) = Count(old, complete) + 1
        /\ Count(old \o <<"XmitComplete", complete>>, canceled) = Count(old, canceled)
    <3> DEFINE sent == Append(old, "XmitComplete")
    <3>1. old \o <<"XmitComplete", complete>> = Append(sent, complete)
      BY <2>3
    <3>2. sent \in Seq(ExpNoticeKinds)
      BY <2>3, <2>4
    <3> HIDE DEF sent
    <3>3. /\ Count(Append(sent, complete), complete) = Count(sent, complete) + 1
          /\ Count(Append(sent, complete), canceled) = Count(sent, canceled)
          /\ Count(sent, canceled) \in Nat
      BY <2>4, <3>2, CountAppend
    <3> QED
      BY <2>6, <3>1, <3>3 DEF sent
  <2>10. Verdicts(s)' = Count(expNotices'[s], complete) + Count(expNotices'[s], canceled)
    BY DEF Verdicts
  <2> HIDE DEF old, complete, canceled
  <2>11. Count(old, complete) + Count(old, canceled)
            = IF expState[s] \in {"dead", "closed"} THEN 1 ELSE 0
    BY <2>2 DEF Verdicts, old, complete, canceled
  <2>12. CASE Stays(s) /\ (expNotices'[s] = old \/ expNotices'[s] = Append(old, "XmitComplete"))
    BY <2>6, <2>10, <2>11, <2>12 DEF Stays
  <2>13. CASE /\ Moves(s, "idle", "open") \/ Moves(s, "dead", "closed")
              /\ expNotices'[s] = old
    BY <2>10, <2>11, <2>13 DEF Moves
  <2>14. CASE /\ Moves(s, "open", "dead") \/ Moves(s, "open", "closed")
              /\ \/ expNotices'[s] = Append(old, canceled)
                 \/ expNotices'[s] = Append(old, complete)
                 \/ expNotices'[s] = old \o <<"XmitComplete", complete>>
    <3>1. expState[s] = "open" /\ expState'[s] \in {"dead", "closed"}
      BY <2>14 DEF Moves
    <3>2. Count(old, complete) + Count(old, canceled) = 0
      BY <2>11, <3>1
    <3>3. Count(expNotices'[s], complete) + Count(expNotices'[s], canceled) = 1
      <4>1. Count(old, complete) = 0 /\ Count(old, canceled) = 0
        BY <2>5, <3>2
      <4>2. CASE expNotices'[s] = Append(old, canceled)
        BY <2>8, <4>1, <4>2
      <4>3. CASE expNotices'[s] = Append(old, complete)
        BY <2>7, <4>1, <4>3
      <4>4. CASE expNotices'[s] = old \o <<"XmitComplete", complete>>
        BY <2>9, <4>1, <4>4
      <4> QED
        BY <2>14, <4>2, <4>3, <4>4
    <3> QED
      BY <2>10, <3>1, <3>3
  <2> QED
    BY <2>1, <2>12, <2>13, <2>14 DEF LifeStep, Hears, old, complete, canceled
<1> QED
  BY <1>1, <1>2, TypeCorrect, PTL DEF Spec

(***************************************************************************)
(* Where the segments come from.  T is any set of segments that has every  *)
(* segment a step may add.                                                 *)
(***************************************************************************)
IssuedSegs(s) == RedSegmentsFor(s, RedUnits(s), 0, 1) \cup GreenSegments(s)

Resent(rs) ==
    RedSegmentsFor(rs.session, Units(rs) \ MergedClaims(rs), rs.rpt,
                   lastCkpt[rs.session] + 1)

\* The segments of a block and of a retransmission.
LEMMA IssuedSegsType ==
    ASSUME NEW s \in Sessions
    PROVE  IssuedSegs(s) \subseteq DataSegments /\ IsFiniteSet(IssuedSegs(s))
<1>1. /\ RedSegmentsFor(s, RedUnits(s), 0, 1) \subseteq DataSegments
      /\ IsFiniteSet(RedSegmentsFor(s, RedUnits(s), 0, 1))
  BY RedSegmentsForType
<1>2. GreenSegments(s) \subseteq DataSegments /\ IsFiniteSet(GreenSegments(s))
  BY GreenSegmentsType
<1> QED
  BY <1>1, <1>2, FS_Union DEF IssuedSegs

\* The segments that handleRS sends again.
LEMMA ResentType ==
    ASSUME TypeOK, NEW rs \in ReportSegments
    PROVE  Resent(rs) \subseteq DataSegments /\ IsFiniteSet(Resent(rs))
<1>1. rs.session \in Sessions /\ rs.rpt \in Nat
  BY DEF ReportSegments
<1>2. lastCkpt[rs.session] + 1 \in Nat
  BY <1>1 DEF TypeOK, ExpTypeOK
<1> QED
  BY <1>1, <1>2, RedSegmentsForType DEF Resent

\* The queue of the sending engine.
LEMMA ExpQueueFlow ==
    ASSUME TypeOK, ExpStep, NEW T, expQueue \in Seq(T),
           ReportAcks \cup CancelSegments \subseteq T,
           \A s \in Sessions : IssueBlock(s) => IssuedSegs(s) \subseteq T,
           \A rs \in net \cap ReportSegments :
               NegativeReport(rs) => Resent(rs) \subseteq T,
           \A s \in Sessions : \A c \in ckpts[s] : expState[s] = "open" => c.seg \in T
    PROVE  expQueue' \in Seq(T)
<1>1. ASSUME NEW s \in Sessions
      PROVE  /\ \A r \in Nat : RA(s, r) \in T
             /\ \A k \in {"CS", "CAS", "CR", "CAR"} : Cancel(k, s) \in T
  BY DEF RA, Cancel, ReportAcks, CancelSegments
<1>2. ASSUME NEW s \in Sessions, NEW q \in Seq(T), NEW tl,
             CancelSessionBySender(s, q, tl)
      PROVE  expQueue' \in Seq(T)
  <2>1. StoppedQueue(q, s) \in Seq(T)
    BY PurgeType DEF StoppedQueue
  <2>2. expQueue' = Append(StoppedQueue(q, s), Cancel("CS", s))
    BY <1>2 DEF CancelSessionBySender
  <2>3. Cancel("CS", s) \in T
    BY <1>1
  <2> QED
    BY <2>1, <2>2, <2>3
<1>3. ASSUME NEW s \in Sessions, IssueBlock(s)
      PROVE  expQueue' \in Seq(T)
  <2>1. expQueue' = EnqueueAll(expQueue, IssuedSegs(s))
    BY <1>3 DEF IssueBlock, IssuedSegs
  <2>2. IssuedSegs(s) \subseteq T /\ IsFiniteSet(IssuedSegs(s))
    BY <1>3, IssuedSegsType
  <2> QED
    BY <2>1, <2>2, EnqueueAllType
<1>4. CASE expQueue # <<>> /\ DequeueExport(Head(expQueue))
  BY <1>4, HeadTailType DEF DequeueExport
<1>5. ASSUME NEW rs \in net \cap ReportSegments, HandleRS(rs)
      PROVE  expQueue' \in Seq(T)
  <2>1. rs.session \in Sessions /\ rs.rpt \in Nat
    BY DEF ReportSegments
  <2>2. AckedQueue(rs) \in Seq(T)
    BY <1>1, <2>1, EnqueueAckType DEF AckedQueue
  <2>3. CASE LateReport(rs) \/ StrayReport(rs) \/ IgnoredReport(rs)
    BY <2>2, <2>3 DEF LateReport, StrayReport, IgnoredReport, AckedQueue, expVars
  <2>4. CASE FinalReport(rs)
    BY <2>2, <2>4, PurgeType DEF FinalReport, StoppedQueue
  <2>5. CASE FinalReportBeforeEOB(rs)
    BY <2>2, <2>5 DEF FinalReportBeforeEOB
  <2>6. CASE NegativeReportAtLimit(rs)
    BY <1>2, <2>1, <2>2, <2>6 DEF NegativeReportAtLimit
  <2>7. CASE NegativeReport(rs)
    <3>1. expQueue' = EnqueueAll(AckedQueue(rs), Resent(rs))
      BY <2>7 DEF NegativeReport, Resent
    <3>2. Resent(rs) \subseteq T /\ IsFiniteSet(Resent(rs))
      BY <2>7, ResentType
    <3> QED
      BY <2>2, <3>1, <3>2, EnqueueAllType
  <2> QED
    BY <1>5, <2>3, <2>4, <2>5, <2>6, <2>7 DEF HandleRS
<1>6. ASSUME NEW s \in Sessions, HandleCAS(s)
      PROVE  expQueue' \in Seq(T)
  BY <1>6 DEF HandleCAS
<1>7. ASSUME NEW s \in Sessions, HandleCR(s)
      PROVE  expQueue' \in Seq(T)
  <2>1. EnqueueAck(expQueue, Cancel("CAR", s)) \in Seq(T)
    BY <1>1, EnqueueAckType
  <2>2. StoppedQueue(EnqueueAck(expQueue, Cancel("CAR", s)), s) \in Seq(T)
    BY <2>1, PurgeType DEF StoppedQueue
  <2> QED
    BY <1>7, <2>2 DEF HandleCR, expVars
<1>8. ASSUME NEW s \in Sessions, NEW k \in Nat, ResendCheckpoint(s, k)
      PROVE  expQueue' \in Seq(T)
  <2>1. CASE expQueue' = expQueue
    BY <2>1
  <2>2. CASE \E tl : CancelSessionBySender(s, expQueue, tl)
    BY <1>2, <2>2
  <2>3. CASE expState[s] = "open" /\ \E c \in ckpts[s] : expQueue' = Append(expQueue, c.seg)
    BY <2>3
  <2> QED
    BY <1>8, <2>1, <2>2, <2>3 DEF ResendCheckpoint
<1>9. ASSUME NEW s \in Sessions, ResendXmitCancel(s) \/ ForgetExportSession(s)
      PROVE  expQueue' \in Seq(T)
  <2>1. Append(expQueue, Cancel("CS", s)) \in Seq(T)
    BY <1>1
  <2> QED
    BY <1>9, <2>1 DEF ResendXmitCancel, ForgetExportSession
<1>10. CASE UNCHANGED expVars
  BY <1>10 DEF expVars
<1> QED
  BY <1>3, <1>4, <1>5, <1>6, <1>7, <1>8, <1>9, <1>10 DEF ExpStep

\* What becomes of an entry d of a list of checkpoints: it is kept, perhaps
\* deactivated, or armed when its segment is sent, or counted when its segment
\* is queued again.
EntryKept(c, d) == d.seg = c.seg /\ d.count = c.count /\ (c.armed => d.armed)
EntrySent(c, d) ==
    /\ d.seg = c.seg /\ d.count = c.count
    /\ expQueue # <<>> /\ c.seg = Head(expQueue) /\ DequeueExport(c.seg)
EntryResent(c, d, entries) ==
    /\ d.seg = c.seg /\ c.count = d.count + 1
    /\ \E e \in entries : e.armed /\ e.seg.ckpt = d.seg.ckpt
EntryNew(c) == ~c.armed /\ c.count = 0

\* An entry of a list of checkpoints is an old one, that of a checkpoint of the
\* block when it is issued, or of one that a report asks for.
EntryOrigin(s, c) ==
    \/ \E d \in ckpts[s] :
          EntryKept(c, d) \/ EntrySent(c, d) \/ EntryResent(c, d, ckpts[s])
    \/ EntryNew(c) /\ IssueBlock(s) /\ c.seg \in IssuedSegs(s)
    \/ /\ EntryNew(c)
       /\ \E rs \in net \cap ReportSegments :
             rs.session = s /\ NegativeReport(rs) /\ c.seg \in Resent(rs)

\* The lists of checkpoints.
LEMMA EntriesFlow ==
    ASSUME TypeOK, CkptsOwned, ExpStep, NEW s \in Sessions, NEW c \in ckpts'[s]
    PROVE  /\ EntryOrigin(s, c)
           /\ expState'[s] \in {"open", expState[s]}
<1>0. /\ expState \in [Sessions -> {"idle", "open", "dead", "closed"}]
      /\ ckpts \in [Sessions -> SUBSET CkptEntries]
  BY DEF TypeOK, ExpTypeOK
<1>1. ASSUME ckpts' = ckpts, expState'[s] = expState[s]
      PROVE  EntryOrigin(s, c) /\ expState'[s] \in {"open", expState[s]}
  BY <1>1 DEF EntryOrigin, EntryKept
<1>2. ASSUME NEW t \in Sessions, NEW state, LeaveExportSessions(t, state)
      PROVE  EntryOrigin(s, c) /\ expState'[s] \in {"open", expState[s]}
  BY <1>0, <1>2 DEF EntryOrigin, EntryKept, LeaveExportSessions
<1>3. ASSUME NEW t \in Sessions, IssueBlock(t)
      PROVE  EntryOrigin(s, c) /\ expState'[s] \in {"open", expState[s]}
  <2>1. CASE s = t
    <3>1. ckpts'[s] = {NewCkpt(seg) : seg \in {seg \in RedSegmentsFor(s, RedUnits(s), 0, 1) :
                                                  IsCkpt(seg)}}
      BY <1>0, <1>3, <2>1 DEF IssueBlock
    <3>2. c.seg \in IssuedSegs(s) /\ EntryNew(c)
      BY <3>1 DEF NewCkpt, IssuedSegs, EntryNew
    <3>3. expState'[s] = "open"
      BY <1>0, <1>3, <2>1 DEF IssueBlock
    <3> QED
      BY <1>3, <2>1, <3>2, <3>3 DEF EntryOrigin
  <2>2. CASE s # t
    BY <1>0, <1>3, <2>2 DEF IssueBlock, EntryOrigin, EntryKept
  <2> QED
    BY <2>1, <2>2
<1>4. CASE expQueue # <<>> /\ DequeueExport(Head(expQueue))
  <2> DEFINE seg == Head(expQueue)
             t == seg.session
             entry == {e \in ckpts[t] : e.seg = seg}
  <2>1. t \in Sessions
    BY <1>4, HeadTailType, SegmentKinds DEF TypeOK, ExpTypeOK
  <2> HIDE DEF seg
  <2>2. CASE DequeuePlain(seg) \/ DequeueCS(seg)
    BY <1>1, <2>2 DEF DequeuePlain, DequeueCS, expSessionVars
  <2>3. CASE DequeueCheckpoint(seg)
    <3>1. ckpts' = [ckpts EXCEPT ![t] =
                       (@ \ entry) \cup {[e EXCEPT !.armed = TRUE] : e \in entry}]
      BY <2>3 DEF DequeueCheckpoint
    <3>2. expState' = expState
      BY <2>3 DEF DequeueCheckpoint
    <3>3. \A e \in entry : EntrySent([e EXCEPT !.armed = TRUE], e)
      <4>1. \A e \in entry : e \in CkptEntries /\ e.seg = seg
        BY <1>0, <2>1
      <4>2. expQueue # <<>> /\ seg = Head(expQueue) /\ DequeueExport(seg)
        BY <1>4 DEF seg
      <4> QED
        BY <4>1, <4>2 DEF CkptEntries, EntrySent
    <3>4. EntryKept(c, c)
      BY DEF EntryKept
    <3>5. \E d \in ckpts[s] : EntryKept(c, d) \/ EntrySent(c, d)
      BY <1>0, <2>1, <3>1, <3>3, <3>4
    <3> QED
      BY <3>2, <3>5 DEF EntryOrigin
  <2>4. CASE DequeueGreenEOB(seg)
    BY <1>1, <1>2, <2>1, <2>4 DEF DequeueGreenEOB
  <2> QED
    BY <1>4, <2>2, <2>3, <2>4 DEF DequeueExport, seg
<1>5. ASSUME NEW rs \in net \cap ReportSegments, HandleRS(rs)
      PROVE  EntryOrigin(s, c) /\ expState'[s] \in {"open", expState[s]}
  <2> DEFINE t == rs.session
  <2>1. t \in Sessions
    BY DEF ReportSegments
  <2>2. CASE LateReport(rs) \/ StrayReport(rs)
    BY <1>1, <2>2 DEF LateReport, StrayReport, expSessionVars, expVars
  <2>3. CASE FinalReport(rs) \/ NegativeReportAtLimit(rs)
    BY <1>2, <2>1, <2>3 DEF FinalReport, NegativeReportAtLimit, CancelSessionBySender
  <2>4. \A d \in Deactivated(rs) : \E e \in ckpts[t] : EntryKept(d, e)
    <3>1. \A e \in CitedCkpt(rs) : e \in ckpts[t] /\ e \in CkptEntries
      BY <1>0, <2>1 DEF CitedCkpt
    <3>2. \A e \in CitedCkpt(rs) : EntryKept([e EXCEPT !.armed = FALSE], e)
      BY <3>1 DEF CkptEntries, EntryKept
    <3>3. \A e \in ckpts[t] : EntryKept(e, e)
      BY DEF EntryKept
    <3> QED
      BY <3>1, <3>2, <3>3 DEF Deactivated
  <2>5. CASE FinalReportBeforeEOB(rs)
    <3>1. ckpts' = [ckpts EXCEPT ![t] = Deactivated(rs)] /\ expState' = expState
      BY <2>5 DEF FinalReportBeforeEOB
    <3>2. EntryKept(c, c)
      BY DEF EntryKept
    <3> QED
      BY <1>0, <2>1, <2>4, <3>1, <3>2 DEF EntryOrigin
  <2>6. CASE NegativeReport(rs)
    <3> DEFINE new == {seg \in Resent(rs) : IsCkpt(seg)}
    <3>1. /\ ckpts' = [ckpts EXCEPT ![t] =
                          Deactivated(rs) \cup {NewCkpt(seg) : seg \in new}]
          /\ expState' = expState
      BY <2>6 DEF NegativeReport, Resent
    <3>2. \A d \in {NewCkpt(seg) : seg \in new} : d.seg \in Resent(rs) /\ EntryNew(d)
      BY DEF NewCkpt, EntryNew
    <3> HIDE DEF new
    <3>3. CASE s = t
      BY <1>0, <2>1, <2>4, <2>6, <3>1, <3>2, <3>3 DEF EntryOrigin
    <3>4. CASE s # t
      BY <1>0, <2>1, <3>1, <3>4 DEF EntryOrigin, EntryKept
    <3> QED
      BY <3>3, <3>4
  <2>7. CASE IgnoredReport(rs)
    BY <1>1, <2>7 DEF IgnoredReport
  <2> QED
    BY <1>5, <2>2, <2>3, <2>5, <2>6, <2>7 DEF HandleRS
<1>6. ASSUME NEW t \in Sessions, HandleCAS(t) \/ HandleCR(t)
      PROVE  EntryOrigin(s, c) /\ expState'[s] \in {"open", expState[s]}
  BY <1>1, <1>2, <1>6 DEF HandleCAS, HandleCR, expSessionVars, expVars
<1>7. ASSUME NEW t \in Sessions, NEW k \in Nat, ResendCheckpoint(t, k)
      PROVE  EntryOrigin(s, c) /\ expState'[s] \in {"open", expState[s]}
  <2> DEFINE entry == {e \in ckpts[t] : e.seg.ckpt = k}
  <2>1. CASE UNCHANGED expSessionVars
    BY <1>1, <2>1 DEF expSessionVars
  <2>2. CASE \E tl : CancelSessionBySender(t, expQueue, tl)
    BY <1>2, <2>2 DEF CancelSessionBySender
  <2>3. CASE /\ \E e \in entry :
                   ckpts' = [ckpts EXCEPT ![t] =
                                (@ \ entry) \cup {[e EXCEPT !.count = @ + 1]}]
             /\ \E e \in entry : e.armed
             /\ UNCHANGED expState
    <3>1. PICK e \in entry :
                   ckpts' = [ckpts EXCEPT ![t] =
                                (@ \ entry) \cup {[e EXCEPT !.count = @ + 1]}]
      BY <2>3
    <3>2. e \in ckpts[t] /\ EntryResent([e EXCEPT !.count = @ + 1], e, ckpts[t])
      <4>1. e \in ckpts[t] /\ e \in CkptEntries /\ e.seg.ckpt = k
        BY <1>0
      <4>2. \E d \in ckpts[t] : d.armed /\ d.seg.ckpt = k
        BY <2>3
      <4> QED
        BY <4>1, <4>2 DEF CkptEntries, EntryResent
    <3>3. EntryKept(c, c)
      BY DEF EntryKept
    <3> HIDE DEF entry
    <3> QED
      BY <1>0, <2>3, <3>1, <3>2, <3>3 DEF EntryOrigin
  <2> QED
    BY <1>7, <2>1, <2>2, <2>3 DEF ResendCheckpoint
<1>8. ASSUME NEW t \in Sessions, ResendXmitCancel(t)
      PROVE  EntryOrigin(s, c) /\ expState'[s] \in {"open", expState[s]}
  <2>1. CASE s = t /\ expState[s] = "dead" /\ expState'[s] = "closed"
    BY <1>8, <2>1 DEF ResendXmitCancel, CkptsOwned
  <2>2. CASE expState'[s] = expState[s]
    BY <1>1, <1>8, <2>2 DEF ResendXmitCancel
  <2> QED
    BY <1>0, <1>8, <2>1, <2>2 DEF ResendXmitCancel
<1>9. ASSUME NEW t \in Sessions, ForgetExportSession(t)
      PROVE  EntryOrigin(s, c) /\ expState'[s] \in {"open", expState[s]}
  BY <1>1, <1>9 DEF ForgetExportSession, expSessionVars
<1>10. CASE UNCHANGED expVars
  BY <1>1, <1>10 DEF expVars, expSessionVars
<1> QED
  BY <1>3, <1>4, <1>5, <1>6, <1>7, <1>8, <1>9, <1>10 DEF ExpStep

\* In particular, a checkpoint in a list is an old one, one of the block when it
\* is issued, or one that a report asks for.
CkptOrigin(s, c) ==
    \/ \E d \in ckpts[s] : d.seg = c.seg
    \/ IssueBlock(s) /\ c.seg \in IssuedSegs(s)
    \/ \E rs \in net \cap ReportSegments :
          rs.session = s /\ NegativeReport(rs) /\ c.seg \in Resent(rs)

\* The same for the segments of the entries.
LEMMA CkptsFlow ==
    ASSUME TypeOK, CkptsOwned, ExpStep, NEW s \in Sessions, NEW c \in ckpts'[s]
    PROVE  /\ CkptOrigin(s, c)
           /\ expState'[s] \in {"open", expState[s]}
BY EntriesFlow DEF CkptOrigin, EntryOrigin, EntryKept, EntrySent, EntryResent

\* The claims that the sender holds are old ones or those of a report.
LEMMA ClaimsFlow ==
    ASSUME TypeOK, ExpStep, NEW s \in Sessions, NEW u \in claims'[s]
    PROVE  \/ u \in claims[s]
           \/ \E rs \in net \cap ReportSegments : rs.session = s /\ u \in rs.claims
<1>0. claims \in [Sessions -> SUBSET Nat]
  BY DEF TypeOK, ExpTypeOK
<1>1. ASSUME NEW t \in Sessions, NEW state, LeaveExportSessions(t, state)
      PROVE  u \in claims[s]
  BY <1>0, <1>1 DEF LeaveExportSessions
<1>2. CASE claims' = claims
  BY <1>2
<1>3. ASSUME NEW t \in Sessions, IssueBlock(t)
      PROVE  claims' = claims
  BY <1>3 DEF IssueBlock
<1>4. CASE expQueue # <<>> /\ DequeueExport(Head(expQueue))
  <2>1. Head(expQueue).session \in Sessions
    BY <1>4, HeadTailType, SegmentKinds DEF TypeOK, ExpTypeOK
  <2> QED
    BY <1>1, <1>2, <1>4, <2>1
       DEF DequeueExport, DequeuePlain, DequeueCheckpoint, DequeueGreenEOB,
           DequeueCS, expSessionVars
<1>5. ASSUME NEW rs \in net \cap ReportSegments, HandleRS(rs)
      PROVE  \/ u \in claims[s]
             \/ rs.session = s /\ u \in rs.claims
  <2>1. rs.session \in Sessions
    BY DEF ReportSegments
  <2>2. CASE LateReport(rs) \/ StrayReport(rs) \/ IgnoredReport(rs)
    BY <2>2 DEF LateReport, StrayReport, IgnoredReport, expSessionVars, expVars
  <2>3. CASE FinalReport(rs) \/ NegativeReportAtLimit(rs)
    BY <1>1, <2>1, <2>3 DEF FinalReport, NegativeReportAtLimit, CancelSessionBySender
  <2>4. CASE FinalReportBeforeEOB(rs)
    BY <1>0, <2>4 DEF FinalReportBeforeEOB
  <2>5. CASE NegativeReport(rs)
    <3>1. claims' = [claims EXCEPT ![rs.session] = MergedClaims(rs)]
      BY <2>5 DEF NegativeReport
    <3> QED
      BY <1>0, <2>1, <3>1 DEF MergedClaims
  <2> QED
    BY <1>5, <2>2, <2>3, <2>4, <2>5 DEF HandleRS
<1>6. ASSUME NEW t \in Sessions, HandleCAS(t) \/ HandleCR(t)
      PROVE  u \in claims[s]
  BY <1>1, <1>6 DEF HandleCAS, HandleCR, expSessionVars, expVars
<1>7. ASSUME NEW t \in Sessions, NEW k \in Nat, ResendCheckpoint(t, k)
      PROVE  u \in claims[s]
  BY <1>1, <1>7 DEF ResendCheckpoint, CancelSessionBySender, expSessionVars
<1>8. ASSUME NEW t \in Sessions, ResendXmitCancel(t) \/ ForgetExportSession(t)
      PROVE  claims' = claims
  BY <1>8 DEF ResendXmitCancel, ForgetExportSession, expSessionVars
<1>9. CASE UNCHANGED expVars
  BY <1>9 DEF expVars, expSessionVars
<1> QED
  BY <1>2, <1>3, <1>4, <1>5, <1>6, <1>7, <1>8, <1>9 DEF ExpStep

\* A red part is newly marked as acknowledged only when the claims of a report
\* complete it.
LEMMA FinalAckFlow ==
    ASSUME TypeOK, ExpStep, NEW s \in Sessions, "FINAL_ACK" \in stateFlags'[s]
    PROVE  \/ "FINAL_ACK" \in stateFlags[s]
           \/ \E rs \in net \cap ReportSegments : rs.session = s /\ AllClaimed(rs)
<1>0. stateFlags \in [Sessions -> SUBSET {"FINAL_ACK", "EOB_SENT"}]
  BY DEF TypeOK, ExpTypeOK
<1>1. ASSUME NEW t \in Sessions, NEW state, LeaveExportSessions(t, state)
      PROVE  "FINAL_ACK" \in stateFlags[s]
  BY <1>0, <1>1 DEF LeaveExportSessions
<1>2. CASE stateFlags' = stateFlags
  BY <1>2
<1>3. ASSUME NEW t \in Sessions, IssueBlock(t)
      PROVE  stateFlags' = stateFlags
  BY <1>3 DEF IssueBlock
<1>4. CASE expQueue # <<>> /\ DequeueExport(Head(expQueue))
  <2> DEFINE t == Head(expQueue).session
  <2>1. t \in Sessions
    BY <1>4, HeadTailType, SegmentKinds DEF TypeOK, ExpTypeOK
  <2>2. CASE stateFlags' = [stateFlags EXCEPT ![t] = @ \cup {"EOB_SENT"}]
    BY <1>0, <2>1, <2>2
  <2> QED
    BY <1>1, <1>2, <1>4, <2>1, <2>2
       DEF DequeueExport, DequeuePlain, DequeueCheckpoint, DequeueGreenEOB,
           DequeueCS, expSessionVars
<1>5. ASSUME NEW rs \in net \cap ReportSegments, HandleRS(rs)
      PROVE  \/ "FINAL_ACK" \in stateFlags[s]
             \/ rs.session = s /\ AllClaimed(rs)
  <2>1. rs.session \in Sessions
    BY DEF ReportSegments
  <2>2. CASE LateReport(rs) \/ StrayReport(rs) \/ IgnoredReport(rs)
    BY <2>2 DEF LateReport, StrayReport, IgnoredReport, expSessionVars, expVars
  <2>3. CASE FinalReport(rs) \/ NegativeReportAtLimit(rs)
    BY <1>1, <2>1, <2>3 DEF FinalReport, NegativeReportAtLimit, CancelSessionBySender
  <2>4. CASE FinalReportBeforeEOB(rs)
    BY <1>0, <2>1, <2>4 DEF FinalReportBeforeEOB
  <2>5. CASE NegativeReport(rs)
    BY <2>5 DEF NegativeReport
  <2> QED
    BY <1>5, <2>2, <2>3, <2>4, <2>5 DEF HandleRS
<1>6. ASSUME NEW t \in Sessions, HandleCAS(t) \/ HandleCR(t)
      PROVE  "FINAL_ACK" \in stateFlags[s]
  BY <1>1, <1>6 DEF HandleCAS, HandleCR, expSessionVars, expVars
<1>7. ASSUME NEW t \in Sessions, NEW k \in Nat, ResendCheckpoint(t, k)
      PROVE  "FINAL_ACK" \in stateFlags[s]
  BY <1>1, <1>7 DEF ResendCheckpoint, CancelSessionBySender, expSessionVars
<1>8. ASSUME NEW t \in Sessions, ResendXmitCancel(t) \/ ForgetExportSession(t)
      PROVE  stateFlags' = stateFlags
  BY <1>8 DEF ResendXmitCancel, ForgetExportSession, expSessionVars
<1>9. CASE UNCHANGED expVars
  BY <1>9 DEF expVars, expSessionVars
<1> QED
  BY <1>2, <1>3, <1>4, <1>5, <1>6, <1>7, <1>8, <1>9 DEF ExpStep

(***************************************************************************)
(* The life of an import session.                                          *)
(***************************************************************************)
\* What an import session holds, its reports aside.
Contents(i) == <<i.units, i.redPartReceived, i.redPartLength, i.delivered>>

ImpStays(s) == impState'[s] = impState[s] /\ Contents(imports'[s]) = Contents(imports[s])
SameRecord(s) == s \in closedImports' <=> s \in closedImports
ImpSilent(s) == impNotices'[s] = impNotices[s]
ImpHears(s, kind) == impNotices'[s] = Append(impNotices[s], kind)

\* A red segment that may be stored in a session, old or new.
Admitted(s, seg) ==
    /\ seg.session = s
    /\ IsRed(seg)
    /\ s \notin closedImports
    /\ HasSession(s)

\* The segment is stored, with one of three outcomes.
StoreStep(s, seg) ==
    LET session == Stored(seg, imports[s])
    IN  /\ Units(seg) \cap imports[s].units = {}
        /\ imports[s].redPartLength = 0 \/ seg.hi <= imports[s].redPartLength
        /\ imports'[s].units = session.units
        /\ imports'[s].redPartReceived = session.redPartReceived
        /\ imports'[s].redPartLength = session.redPartLength
        /\ \/ ImpSilent(s)
           \/ IsComplete(session) /\ imports'[s].delivered /\ ImpHears(s, "RecvRedPart")

ImportLife(s) ==
    \/ ImpStays(s) /\ SameRecord(s) /\ ImpSilent(s)
    \/ /\ impState[s] = "open" \/ \E seg \in net \cap DataSegments : Admitted(s, seg)
       /\ impState'[s] = "dead" /\ imports'[s] = EmptySession
       /\ SameRecord(s) /\ ImpHears(s, "ImportSessionCanceled")
    \/ /\ impState[s] = "open"
       /\ impState'[s] = "none" /\ imports'[s] = EmptySession
       /\ s \in closedImports'
       /\ ImpSilent(s) \/ ImpHears(s, "ImportSessionCanceled")
    \/ /\ impState[s] = "dead"
       /\ impState'[s] = "none" /\ imports'[s] = imports[s]
       /\ s \in closedImports' /\ ImpSilent(s)
    \/ ImpStays(s) /\ ImpSilent(s) /\ s \notin closedImports' /\ Quarantined(s)
    \/ \E seg \in net \cap DataSegments :
          /\ Admitted(s, seg)
          /\ impState'[s] = "open" /\ SameRecord(s)
          /\ \/ Contents(imports'[s]) = Contents(imports[s]) /\ ImpSilent(s)
             \/ StoreStep(s, seg)

\* An import session starts with an admitted segment and ends on record as
\* closed, perhaps by way of deadImports.
LEMMA ImportLifeSteps ==
    ASSUME TypeOK, ImpStep, NEW s \in Sessions
    PROVE  ImportLife(s)
<1> USE DEF ImpStays, SameRecord, ImpSilent, ImpHears
<1>0. /\ impState \in [Sessions -> {"none", "open", "dead"}]
      /\ imports \in [Sessions -> ImportSessionType]
      /\ impNotices \in [Sessions -> Seq(ImpNoticeKinds)]
  BY DEF TypeOK, ImpTypeOK
<1>1. CASE UNCHANGED <<impState, imports, closedImports, impNotices>>
  BY <1>1 DEF ImportLife
<1>2. ASSUME NEW t \in Sessions, CancelSessionByReceiver(t),
             impState[t] = "open" \/ \E seg \in net \cap DataSegments : Admitted(t, seg)
      PROVE  ImportLife(s)
  <2>1. CASE s = t
    <3>1. /\ impState'[s] = "dead" /\ imports'[s] = EmptySession
          /\ SameRecord(s) /\ ImpHears(s, "ImportSessionCanceled")
      BY <1>0, <1>2, <2>1 DEF CancelSessionByReceiver, LeaveImportSessions, NotifyImport
    <3> QED
      BY <1>2, <2>1, <3>1 DEF ImportLife
  <2>2. CASE s # t
    <3>1. ImpStays(s) /\ SameRecord(s) /\ ImpSilent(s)
      BY <1>0, <1>2, <2>2 DEF CancelSessionByReceiver, LeaveImportSessions, NotifyImport
    <3> QED
      BY <3>1 DEF ImportLife
  <2> QED
    BY <2>1, <2>2
<1>3. ASSUME NEW t \in Sessions, NEW queue, impState[t] = "open",
             CloseImportSession(t, queue),
             \/ UNCHANGED impNotices
             \/ NotifyImport(t, "ImportSessionCanceled")
      PROVE  ImportLife(s)
  <2>1. CASE s = t
    <3>1. /\ impState'[s] = "none" /\ imports'[s] = EmptySession
          /\ s \in closedImports'
          /\ ImpSilent(s) \/ ImpHears(s, "ImportSessionCanceled")
      BY <1>0, <1>3, <2>1 DEF CloseImportSession, LeaveImportSessions, NotifyImport
    <3> QED
      BY <1>3, <2>1, <3>1 DEF ImportLife
  <2>2. CASE s # t
    <3>1. ImpStays(s) /\ SameRecord(s) /\ ImpSilent(s)
      BY <1>0, <1>3, <2>2 DEF CloseImportSession, LeaveImportSessions, NotifyImport
    <3> QED
      BY <3>1 DEF ImportLife
  <2> QED
    BY <2>1, <2>2
\* Only the reports of a session t change.
<1>4. ASSUME NEW t \in Sessions, NEW reports,
             imports' = [imports EXCEPT ![t].reports = reports],
             UNCHANGED <<impState, closedImports, impNotices>>
      PROVE  ImportLife(s)
  <2>1. Contents(imports'[s]) = Contents(imports[s])
    BY <1>0, <1>4 DEF Contents, ImportSessionType
  <2> QED
    BY <1>4, <2>1 DEF ImportLife
<1>5. ASSUME NEW seg \in net \cap DataSegments, HandleDataSegment(seg)
      PROVE  ImportLife(s)
  <2> DEFINE t == seg.session
             session == Stored(seg, imports[t])
             last == LastReport(t, session, seg.ckpt)
             rss == PartialReports(t, session, seg)
             reported == [WithReports(session, {last})
                             EXCEPT !.lastRpt = last.rpt, !.delivered = TRUE]
  <2>1. t \in Sessions
    BY DEF DataSegments
  <2>2. PICK fault : \/ LateSegment(seg)
                     \/ RejectedSegment(seg, fault)
                     \/ GreenSegment(seg, fault)
                     \/ UselessRedSegment(seg, fault)
                     \/ DiscardedRedSegment(seg, fault)
                     \/ AcceptedRedSegment(seg, fault)
    BY <1>5 DEF HandleDataSegment
  <2>3. CASE LateSegment(seg) \/ GreenSegment(seg, fault) \/ UselessRedSegment(seg, fault)
    BY <1>1, <2>3 DEF LateSegment, GreenSegment, UselessRedSegment, impVars, impSessionVars
  <2>4. CASE RejectedSegment(seg, fault)
    BY <1>1, <1>2, <2>1, <2>4 DEF RejectedSegment, impSessionVars
  <2>5. RedUsable(seg, fault) /\ HasSession(t) => Admitted(t, seg)
    BY DEF RedUsable, IsLate, Admitted
  <2>6. CASE DiscardedRedSegment(seg, fault)
    <3>1. Admitted(t, seg) /\ UNCHANGED <<imports, closedImports, impNotices>>
          /\ impState' = [impState EXCEPT ![t] = "open"]
      BY <2>5, <2>6 DEF DiscardedRedSegment
    <3>2. CASE s = t
      BY <1>0, <3>1, <3>2 DEF ImportLife
    <3>3. CASE s # t
      BY <1>0, <2>1, <3>1, <3>3 DEF ImportLife
    <3> QED
      BY <3>2, <3>3
  <2>7. CASE AcceptedRedSegment(seg, fault)
    <3>1. Admitted(t, seg)
      BY <2>5, <2>7 DEF AcceptedRedSegment
    <3>2. /\ Units(seg) \cap imports[t].units = {}
          /\ imports[t].redPartLength = 0 \/ seg.hi <= imports[t].redPartLength
      BY <2>7 DEF AcceptedRedSegment, IsInsertable
    <3>3. session \in ImportSessionType
      BY <1>0, <2>1, StoredType
    <3> HIDE DEF session
    <3>4. ASSUME NEW new, impState' = [impState EXCEPT ![t] = "open"],
                 imports' = [imports EXCEPT ![t] = new],
                 UNCHANGED closedImports,
                 /\ new.units = session.units
                 /\ new.redPartReceived = session.redPartReceived
                 /\ new.redPartLength = session.redPartLength,
                 \/ UNCHANGED impNotices
                 \/ IsComplete(session) /\ new.delivered /\ NotifyImport(t, "RecvRedPart")
          PROVE  ImportLife(s)
      <4>1. CASE s = t
        <5>1. imports'[s] = new /\ impState'[s] = "open" /\ SameRecord(s)
          BY <1>0, <3>4, <4>1
        <5>2. \/ ImpSilent(s)
              \/ IsComplete(session) /\ new.delivered /\ ImpHears(s, "RecvRedPart")
          BY <1>0, <3>4, <4>1 DEF NotifyImport
        <5>3. StoreStep(s, seg)
          BY <3>2, <3>4, <4>1, <5>1, <5>2 DEF StoreStep, session
        <5> QED
          BY <3>1, <4>1, <5>1, <5>3 DEF ImportLife
      <4>2. CASE s # t
        <5>1. ImpStays(s) /\ SameRecord(s) /\ ImpSilent(s)
          BY <1>0, <2>1, <3>4, <4>2 DEF NotifyImport
        <5> QED
          BY <5>1 DEF ImportLife
      <4> QED
        BY <4>1, <4>2
    <3>5. CASE /\ impState' = [impState EXCEPT ![t] = "open"]
               /\ imports' = [imports EXCEPT ![t] = session]
               /\ UNCHANGED <<cancelResends, closedImports, impQueue,
                              impTimeline, impNotices>>
      BY <3>4, <3>5
    <3>6. CASE /\ IsComplete(session)
               /\ impState' = [impState EXCEPT ![t] = "open"]
               /\ imports' = [imports EXCEPT ![t] = reported]
               /\ NotifyImport(t, "RecvRedPart")
               /\ UNCHANGED closedImports
      <4>1. /\ reported.units = session.units
            /\ reported.redPartReceived = session.redPartReceived
            /\ reported.redPartLength = session.redPartLength
            /\ reported.delivered
        BY <3>3 DEF WithReports, ImportSessionType
      <4> HIDE DEF reported
      <4> QED
        BY <3>4, <3>6, <4>1
    <3>7. CASE CancelSessionByReceiver(t)
      BY <1>2, <2>1, <3>1, <3>7
    <3>8. CASE /\ impState' = [impState EXCEPT ![t] = "open"]
               /\ imports' = [imports EXCEPT ![t] = WithReports(session, rss)]
               /\ UNCHANGED <<closedImports, impNotices>>
      <4> DEFINE new == WithReports(session, rss)
      <4>1. /\ new.units = session.units
            /\ new.redPartReceived = session.redPartReceived
            /\ new.redPartLength = session.redPartLength
        BY <3>3 DEF WithReports, ImportSessionType
      <4> HIDE DEF new
      <4> QED
        BY <3>4, <3>8, <4>1 DEF new
    <3> QED
      BY <2>7, <3>5, <3>6, <3>7, <3>8 DEF AcceptedRedSegment, session
  <2> QED
    BY <2>2, <2>3, <2>4, <2>6, <2>7
<1>6. ASSUME NEW ra \in net \cap ReportAcks, HandleRA(ra)
      PROVE  ImportLife(s)
  <2>1. ra.session \in Sessions
    BY DEF ReportAcks
  <2> QED
    BY <1>1, <1>3, <1>4, <1>6, <2>1 DEF HandleRA, impVars, impSessionVars
<1>7. ASSUME NEW t \in Sessions, HandleCS(t)
      PROVE  ImportLife(s)
  BY <1>1, <1>3, <1>7 DEF HandleCS, impSessionVars
<1>8. ASSUME NEW t \in Sessions, impState[t] = "dead",
             impState' = [impState EXCEPT ![t] = "none"],
             closedImports' = closedImports \cup {t},
             UNCHANGED <<imports, impNotices>>
      PROVE  ImportLife(s)
  <2>1. CASE s = t
    BY <1>0, <1>8, <2>1 DEF ImportLife
  <2>2. CASE s # t
    BY <1>0, <1>8, <2>2 DEF ImportLife
  <2> QED
    BY <2>1, <2>2
<1>9. ASSUME NEW t \in Sessions, HandleCAR(t)
      PROVE  ImportLife(s)
  BY <1>1, <1>8, <1>9 DEF HandleCAR
<1>10. CASE impQueue # <<>> /\ DequeueImport(Head(impQueue))
  <2> DEFINE seg == Head(impQueue)
  <2>1. seg.session \in Sessions
    BY <1>10, HeadTailType, SegmentKinds DEF TypeOK, ImpTypeOK
  <2> HIDE DEF seg
  <2>2. UNCHANGED <<impState, closedImports, impNotices>>
    BY <1>10 DEF DequeueImport
  <2>3. CASE DequeueReport(seg)
    BY <1>4, <2>1, <2>2, <2>3 DEF DequeueReport
  <2>4. CASE UNCHANGED imports
    BY <1>1, <2>2, <2>4
  <2> QED
    BY <1>10, <2>3, <2>4 DEF DequeueImport, DequeueCR, DequeueCAS, seg
<1>11. ASSUME NEW t \in Sessions, NEW k \in Nat, ResendReport(t, k)
      PROVE  ImportLife(s)
  BY <1>1, <1>2, <1>4, <1>11 DEF ResendReport, impSessionVars
<1>12. ASSUME NEW t \in Sessions, ResendRecvCancel(t)
      PROVE  ImportLife(s)
  BY <1>1, <1>8, <1>12 DEF ResendRecvCancel
<1>13. ASSUME NEW t \in Sessions, ForgetImportSession(t), Quarantined(t)
      PROVE  ImportLife(s)
  <2>1. CASE s = t
    BY <1>13, <2>1 DEF ForgetImportSession, ImportLife, impSessionVars
  <2>2. CASE s # t
    BY <1>13, <2>2 DEF ForgetImportSession, ImportLife, impSessionVars
  <2> QED
    BY <2>1, <2>2
<1>14. CASE UNCHANGED impVars
  BY <1>1, <1>14 DEF impVars, impSessionVars
<1> QED
  BY <1>5, <1>6, <1>7, <1>9, <1>10, <1>11, <1>12, <1>13, <1>14 DEF ImpStep

StoredIn(seg) == Stored(seg, imports[seg.session])

Reports(seg) == PartialReports(seg.session, StoredIn(seg), seg)

\* This step stores a checkpoint that calls for reports.
CallsForReports(seg) ==
    /\ Admitted(seg.session, seg)
    /\ IsCkpt(seg) /\ ~IsComplete(StoredIn(seg))
    /\ StoredIn(seg).reportsCount < ReportLimit(StoredIn(seg))
    /\ imports'[seg.session] = WithReports(StoredIn(seg), Reports(seg))
\* This step stores a checkpoint that completes the red part, and delivers it.
Delivers(seg) ==
    IsCkpt(seg) /\ IsComplete(StoredIn(seg)) /\ ImpHears(seg.session, "RecvRedPart")
FinalReportOf(seg) == LastReport(seg.session, StoredIn(seg), seg.ckpt)

\* The queue and the lists of reports of the receiving engine.
LEMMA ReportsFlow ==
    ASSUME TypeOK, ImpStep, NEW T, impQueue \in Seq(T), CancelSegments \subseteq T,
           \A s \in Sessions : \A r \in imports[s].reports : r.seg \in T,
           \A seg \in net \cap DataSegments :
               CallsForReports(seg) => Reports(seg) \subseteq T,
           \A seg \in net \cap DataSegments : Delivers(seg) => FinalReportOf(seg) \in T
    PROVE  /\ impQueue' \in Seq(T)
           /\ \A s \in Sessions : \A r \in imports'[s].reports : r.seg \in T
<1> DEFINE Held == \A s \in Sessions : \A r \in imports'[s].reports : r.seg \in T
<1>0. /\ imports \in [Sessions -> ImportSessionType]
      /\ impNotices \in [Sessions -> Seq(ImpNoticeKinds)]
      /\ \A s \in Sessions : imports[s].reports \subseteq ReportEntries
  BY DEF TypeOK, ImpTypeOK, ImportSessionType
<1>1. ASSUME NEW s \in Sessions
      PROVE  \A k \in {"CS", "CAS", "CR", "CAR"} : Cancel(k, s) \in T
  BY DEF Cancel, CancelSegments
<1>2. CASE UNCHANGED <<imports, impQueue>>
  BY <1>2
<1>3. ASSUME NEW s \in Sessions, NEW state, LeaveImportSessions(s, state)
      PROVE  Held
  BY <1>0, <1>3 DEF LeaveImportSessions, EmptySession
<1>4. ASSUME NEW s \in Sessions, CancelSessionByReceiver(s)
      PROVE  impQueue' \in Seq(T) /\ Held
  <2>1. StoppedImpQueue(impQueue, s) \in Seq(T)
    BY PurgeType DEF StoppedImpQueue
  <2>2. impQueue' \in Seq(T)
    BY <1>1, <1>4, <2>1 DEF CancelSessionByReceiver
  <2>3. Held
    BY <1>3, <1>4 DEF CancelSessionByReceiver
  <2> QED
    BY <2>2, <2>3
<1>5. ASSUME NEW s \in Sessions, NEW queue \in Seq(T), CloseImportSession(s, queue)
      PROVE  impQueue' \in Seq(T) /\ Held
  <2>1. impQueue' \in Seq(T)
    BY <1>5, PurgeType DEF CloseImportSession, StoppedImpQueue
  <2>2. Held
    BY <1>3, <1>5 DEF CloseImportSession
  <2> QED
    BY <2>1, <2>2
\* The reports of session s are replaced by others of segments in T.
<1>6. ASSUME NEW s \in Sessions, NEW reports, \A r \in reports : r.seg \in T,
             imports' = [imports EXCEPT ![s].reports = reports]
      PROVE  Held
  BY <1>0, <1>6 DEF ImportSessionType
<1>7. ASSUME NEW s \in Sessions, NEW new, \A r \in new.reports : r.seg \in T,
             imports' = [imports EXCEPT ![s] = new]
      PROVE  Held
  BY <1>0, <1>7
<1>8. ASSUME NEW seg \in net \cap DataSegments, HandleDataSegment(seg)
      PROVE  impQueue' \in Seq(T) /\ Held
  <2> DEFINE t == seg.session
             session == StoredIn(seg)
             last == FinalReportOf(seg)
             rss == Reports(seg)
             reported == [WithReports(session, {last})
                             EXCEPT !.lastRpt = last.rpt, !.delivered = TRUE]
  <2>1. t \in Sessions
    BY DEF DataSegments
  <2>2. PICK fault : \/ LateSegment(seg)
                     \/ RejectedSegment(seg, fault)
                     \/ GreenSegment(seg, fault)
                     \/ UselessRedSegment(seg, fault)
                     \/ DiscardedRedSegment(seg, fault)
                     \/ AcceptedRedSegment(seg, fault)
    BY <1>8 DEF HandleDataSegment
  <2>3. CASE \/ LateSegment(seg) \/ GreenSegment(seg, fault)
             \/ UselessRedSegment(seg, fault) \/ DiscardedRedSegment(seg, fault)
    BY <1>2, <2>3 DEF LateSegment, GreenSegment, UselessRedSegment, DiscardedRedSegment,
                      impVars, impSessionVars
  <2>4. CASE RejectedSegment(seg, fault)
    <3>1. BareCR(t) \in T
      BY <2>1 DEF BareCR, CancelSegments
    <3>2. Append(impQueue, BareCR(t)) \in Seq(T)
      BY <3>1
    <3> QED
      BY <1>4, <2>1, <2>4, <3>2 DEF RejectedSegment, impSessionVars
  <2>5. CASE AcceptedRedSegment(seg, fault)
    <3>1. Admitted(t, seg)
      BY <2>5 DEF AcceptedRedSegment, RedUsable, IsLate, Admitted
    <3>2. session \in ImportSessionType
      BY <1>0, <2>1, StoredType DEF StoredIn
    <3>3. session.reports = imports[t].reports
      BY <1>0, <2>1 DEF StoredIn, Stored, ImportSessionType
    <3>4. \A r \in session.reports : r.seg \in T
      BY <2>1, <3>3
    <3>5. CASE imports' = [imports EXCEPT ![t] = session] /\ UNCHANGED impQueue
      <4> HIDE DEF session
      <4> QED
        BY <1>7, <2>1, <3>4, <3>5
    <3>6. CASE /\ IsCkpt(seg) /\ IsComplete(session)
               /\ imports' = [imports EXCEPT ![t] = reported]
               /\ impQueue' = EnqueueAck(impQueue, last)
               /\ NotifyImport(t, "RecvRedPart")
      <4>1. ImpHears(t, "RecvRedPart")
        BY <1>0, <2>1, <3>6 DEF NotifyImport, ImpHears
      <4>2. last \in T
        BY <3>6, <4>1 DEF Delivers
      <4>3. reported.reports = session.reports \cup {NewReport(last)}
        BY <3>2 DEF WithReports, ImportSessionType
      <4>4. \A r \in reported.reports : r.seg \in T
        BY <3>4, <4>2, <4>3 DEF NewReport
      <4> HIDE DEF reported, last
      <4> QED
        BY <1>7, <2>1, <3>6, <4>2, <4>4, EnqueueAckType
    <3>7. CASE CancelSessionByReceiver(t)
      BY <1>4, <2>1, <3>7
    <3>8. CASE /\ IsCkpt(seg) /\ ~IsComplete(session)
               /\ session.reportsCount < ReportLimit(session)
               /\ imports' = [imports EXCEPT ![t] = WithReports(session, rss)]
               /\ impQueue' = EnqueueAcks(impQueue, InOrder(rss))
      <4>1. rss \subseteq T
        <5>1. imports'[t] = WithReports(session, rss)
          BY <1>0, <2>1, <3>8
        <5> QED
          BY <3>1, <3>8, <5>1 DEF CallsForReports
      <4>2. IsFiniteSet(rss)
        BY <2>1, <3>2, PartialReportsType DEF Reports
      <4>3. InOrder(rss) \in Seq(T)
        BY <4>1, <4>2, InOrderType
      <4>4. impQueue' \in Seq(T)
        BY <3>8, <4>3, EnqueueAcksType
      <4> DEFINE new == WithReports(session, rss)
      <4>5. new.reports = session.reports \cup {NewReport(rs) : rs \in rss}
        BY <3>2 DEF WithReports, ImportSessionType
      <4>6. \A r \in new.reports : r.seg \in T
        BY <3>4, <4>1, <4>5 DEF NewReport
      <4> HIDE DEF new
      <4> QED
        BY <1>7, <2>1, <3>8, <4>4, <4>6 DEF new
    <3> QED
      BY <2>5, <3>5, <3>6, <3>7, <3>8
         DEF AcceptedRedSegment, StoredIn, Reports, FinalReportOf
  <2> QED
    BY <2>2, <2>3, <2>4, <2>5
<1>9. ASSUME NEW ra \in net \cap ReportAcks, HandleRA(ra)
      PROVE  impQueue' \in Seq(T) /\ Held
  <2> DEFINE s == ra.session
             entry == {r \in imports[s].reports : r.seg.rpt = ra.rpt}
             new == (imports[s].reports \ entry) \cup {[r EXCEPT !.armed = FALSE] : r \in entry}
  <2>1. s \in Sessions
    BY DEF ReportAcks
  <2>2. \A r \in new : r.seg \in T
    <3>1. \A r \in entry : r \in ReportEntries /\ r.seg \in T
      BY <1>0, <2>1
    <3>2. \A r \in entry : [r EXCEPT !.armed = FALSE].seg = r.seg
      BY <3>1 DEF ReportEntries
    <3> QED
      BY <2>1, <3>1, <3>2
  <2>3. CASE imports' = [imports EXCEPT ![s].reports = new] /\ UNCHANGED impQueue
    <3> HIDE DEF new
    <3> QED
      BY <1>6, <2>1, <2>2, <2>3
  <2>4. CASE UNCHANGED impVars \/ CloseImportSession(s, impQueue)
    BY <1>2, <1>5, <2>1, <2>4 DEF impVars, impSessionVars
  <2> QED
    BY <1>9, <2>3, <2>4 DEF HandleRA
<1>10. ASSUME NEW s \in Sessions, HandleCS(s)
      PROVE  impQueue' \in Seq(T) /\ Held
  <2>1. EnqueueAck(impQueue, Cancel("CAS", s)) \in Seq(T)
    BY <1>1, EnqueueAckType
  <2> QED
    BY <1>5, <1>10, <2>1 DEF HandleCS, impSessionVars
<1>11. ASSUME NEW s \in Sessions, HandleCAR(s)
      PROVE  impQueue' \in Seq(T) /\ Held
  BY <1>2, <1>11 DEF HandleCAR
<1>12. CASE impQueue # <<>> /\ DequeueImport(Head(impQueue))
  <2> DEFINE seg == Head(impQueue)
             s == seg.session
             entry == {r \in imports[s].reports : r.seg = seg}
             new == (imports[s].reports \ entry) \cup {[r EXCEPT !.armed = TRUE] : r \in entry}
  <2>1. s \in Sessions
    BY <1>12, HeadTailType, SegmentKinds DEF TypeOK, ImpTypeOK
  <2>2. impQueue' \in Seq(T)
    BY <1>12, HeadTailType DEF DequeueImport
  <2> HIDE DEF seg
  <2>3. \A r \in new : r.seg \in T
    <3>1. \A r \in entry : r \in ReportEntries /\ r.seg \in T
      BY <1>0, <2>1
    <3>2. \A r \in entry : [r EXCEPT !.armed = TRUE].seg = r.seg
      BY <3>1 DEF ReportEntries
    <3> QED
      BY <2>1, <3>1, <3>2
  <2>4. CASE imports' = [imports EXCEPT ![s].reports = new]
    <3> HIDE DEF new
    <3> QED
      BY <1>6, <2>1, <2>2, <2>3, <2>4
  <2>5. CASE UNCHANGED imports
    BY <2>2, <2>5
  <2> QED
    BY <1>12, <2>4, <2>5 DEF DequeueImport, DequeueReport, DequeueCR, DequeueCAS, seg
<1>13. ASSUME NEW s \in Sessions, NEW k \in Nat, ResendReport(s, k)
      PROVE  impQueue' \in Seq(T) /\ Held
  <2> DEFINE entry == {r \in imports[s].reports : r.seg.rpt = k}
             new(r) == (imports[s].reports \ entry) \cup {[r EXCEPT !.count = @ + 1]}
  <2>1. CASE UNCHANGED <<impSessionVars, impQueue>>
    BY <1>2, <2>1 DEF impSessionVars
  <2>2. CASE CancelSessionByReceiver(s)
    BY <1>4, <2>2
  <2>3. CASE \E r \in entry : /\ imports' = [imports EXCEPT ![s].reports = new(r)]
                              /\ impQueue' = Append(impQueue, r.seg)
    <3>1. PICK r \in entry : /\ imports' = [imports EXCEPT ![s].reports = new(r)]
                             /\ impQueue' = Append(impQueue, r.seg)
      BY <2>3
    <3>2. r.seg \in T /\ [r EXCEPT !.count = @ + 1].seg = r.seg
      BY <1>0 DEF ReportEntries
    <3>3. \A q \in new(r) : q.seg \in T
      BY <3>2
    <3> HIDE DEF new
    <3> QED
      BY <1>6, <3>1, <3>2, <3>3
  <2> QED
    BY <1>13, <2>1, <2>2, <2>3 DEF ResendReport
<1>14. ASSUME NEW s \in Sessions, ResendRecvCancel(s) \/ ForgetImportSession(s)
      PROVE  impQueue' \in Seq(T) /\ Held
  <2>1. Append(impQueue, Cancel("CR", s)) \in Seq(T)
    BY <1>1
  <2> QED
    BY <1>2, <1>14, <2>1 DEF ResendRecvCancel, ForgetImportSession, impSessionVars
<1>15. CASE UNCHANGED impVars
  BY <1>2, <1>15 DEF impVars, impSessionVars
<1> QED
  BY <1>8, <1>9, <1>10, <1>11, <1>12, <1>13, <1>14, <1>15 DEF ImpStep

\* The links carry what they carried and what an engine sends.
LEMMA NetFlow ==
    ASSUME TypeOK, [Next]_vars, NEW T, net \subseteq T, CancelSegments \subseteq T,
           expQueue # <<>> /\ DequeueExport(Head(expQueue)) => Head(expQueue) \in T,
           impQueue # <<>> /\ DequeueImport(Head(impQueue)) => Head(impQueue) \in T
    PROVE  net' \subseteq T
<1>1. ASSUME NEW seg \in Segments, seg \in T
      PROVE  OnWire(seg) \in T
  <2>1. CASE seg.type = "CR"
    <3>1. [seg EXCEPT !.bare = FALSE] \in CancelSegments
      BY <2>1, SegmentKinds DEF CancelSegments
    <3> QED
      BY <2>1, <3>1 DEF OnWire
  <2>2. CASE seg.type # "CR"
    BY <1>1, <2>2 DEF OnWire
  <2> QED
    BY <2>1, <2>2
<1>2. CASE ExpTransmit
  <2>1. Head(expQueue) \in Segments /\ Head(expQueue) \in T
    BY <1>2, HeadTailType DEF ExpTransmit, TypeOK, ExpTypeOK
  <2> QED
    BY <1>1, <1>2, <2>1 DEF ExpTransmit, Send
<1>3. CASE ImpTransmit
  <2>1. Head(impQueue) \in Segments /\ Head(impQueue) \in T
    BY <1>3, HeadTailType DEF ImpTransmit, TypeOK, ImpTypeOK
  <2> QED
    BY <1>1, <1>3, <2>1 DEF ImpTransmit, Send
<1>4. ASSUME NEW s \in Sessions, Issue(s) \/ ExpTimer(s) \/ ImpTimer(s)
      PROVE  net' \subseteq T
  BY <1>4 DEF Issue, ExpTimer, ImpTimer
<1>5. ASSUME NEW seg \in net, ExpReceive(seg) \/ ImpReceive(seg)
      PROVE  net' \subseteq T
  BY <1>5 DEF ExpReceive, ImpReceive, Take
<1>6. CASE UNCHANGED vars
  BY <1>6 DEF vars
<1> QED
  BY <1>2, <1>3, <1>4, <1>5, <1>6 DEF Next

(***************************************************************************)
(* The parts of the invariant, one lemma each.                             *)
(***************************************************************************)
\* The segments of a block are of its session, and sound.
LEMMA SegmentsOfBlock ==
    ASSUME NEW s \in Sessions, NEW missing, NEW rpt \in Nat, NEW ckpt \in Nat
    PROVE  /\ \A x \in RedSegmentsFor(s, missing, rpt, ckpt) : x.session = s /\ x \in Sound
           /\ \A x \in GreenSegments(s) : x.session = s /\ x \in Sound
<1>1. RedLen(s) \in Nat
  BY ConstantsAssumption DEF RedLen
<1>2. ASSUME NEW x \in GreenSegments(s)
      PROVE  x.session = s /\ x \in Sound
  <2>1. x.session = s /\ x.type \in GreenTypes
    <3>1. PICK p \in Pieces(RedCuts(RedLen(s), Block[s].total, FALSE)) :
              x = [type |-> IF p[2] = Block[s].total THEN "DsGreenEOB" ELSE "DsGreen",
                   session |-> s, lo |-> p[1], hi |-> p[2], ckpt |-> 0, rpt |-> 0]
      BY DEF GreenSegments
    <3> QED
      BY <3>1 DEF GreenTypes
  <2>2. x \in Segments
    BY GreenSegmentsType DEF Segments
  <2> QED
    BY <2>1, <2>2 DEF Sound, IsRed
<1>3. ASSUME NEW x \in RedSegmentsFor(s, missing, rpt, ckpt)
      PROVE  x.session = s /\ x \in Sound
  <2>1. x \in Segments
    BY RedSegmentsForType DEF Segments
  <2>2. PICK run \in Runs(missing, RedLen(s)) :
            \E isLast \in BOOLEAN : x \in RedSegments(s, run, isLast, rpt, ckpt)
    BY DEF RedSegmentsFor
  <2>3. PICK isLast \in BOOLEAN : x \in RedSegments(s, run, isLast, rpt, ckpt)
    BY <2>2
  <2>4. run[1] \in Nat /\ run[2] \in Nat /\ run[2] <= RedLen(s)
    BY <1>1 DEF Runs
  <2>5. PICK p \in Pieces(RedCuts(run[1], run[2], isLast)) :
            /\ x.session = s /\ x.hi = p[2]
            /\ x.type = RedType(s, p[2], isLast /\ p[2] = run[2])
    BY <2>3 DEF RedSegments
  <2>6. p[2] \in run[1] .. run[2]
    BY DEF Pieces, RedCuts
  <2>7. p[2] \in Nat /\ p[2] <= RedLen(s)
    BY <1>1, <2>4, <2>6
  <2>8. x.type \in {"DsRedEORP", "DsRedEOB"} => ~(p[2] < RedLen(s))
    BY <2>5 DEF RedType
  <2> QED
    BY <1>1, <2>1, <2>5, <2>7, <2>8 DEF Sound
<1> QED
  BY <1>2, <1>3

\* All that an engine adds to its queue and its list of checkpoints is sound,
\* and is of the session in question.
LEMMA AddedSegments ==
    ASSUME TypeOK
    PROVE  /\ \A s \in Sessions : \A x \in IssuedSegs(s) :
                  x.session = s /\ x \in Sound /\ x \in DataSegments
           /\ \A rs \in ReportSegments : \A x \in Resent(rs) :
                  x.session = rs.session /\ x \in Sound /\ x \in DataSegments
<1>1. ASSUME NEW s \in Sessions, NEW x \in IssuedSegs(s)
      PROVE  x.session = s /\ x \in Sound /\ x \in DataSegments
  BY IssuedSegsType, SegmentsOfBlock, ZenonT(60) DEF IssuedSegs
<1>2. ASSUME NEW rs \in ReportSegments, NEW x \in Resent(rs)
      PROVE  x.session = rs.session /\ x \in Sound /\ x \in DataSegments
  <2>1. rs.session \in Sessions /\ rs.rpt \in Nat
    BY DEF ReportSegments
  <2>2. lastCkpt[rs.session] + 1 \in Nat
    BY <2>1 DEF TypeOK, ExpTypeOK
  <2> QED
    <3>1. x \in DataSegments
      BY ResentType
    <3>2. x.session = rs.session /\ x \in Sound
      BY <2>1, <2>2, SegmentsOfBlock DEF Resent
    <3> QED
      BY <3>1, <3>2
<1> QED
  BY <1>1, <1>2

\* Every step keeps each checkpoint in the list of its own, open session.
LEMMA CkptsOwnedStep ==
    ASSUME TypeOK, CkptsOwned, ExpStep
    PROVE  CkptsOwned'
<1> SUFFICES ASSUME NEW s \in Sessions, NEW c \in ckpts'[s]
             PROVE  c.seg.session = s /\ expState'[s] = "open"
  BY DEF CkptsOwned
<1>1. CkptOrigin(s, c) /\ expState'[s] \in {"open", expState[s]}
  BY CkptsFlow
<1>2. CASE \E d \in ckpts[s] : d.seg = c.seg
  BY <1>1, <1>2 DEF CkptsOwned
<1>3. CASE IssueBlock(s) /\ c.seg \in IssuedSegs(s)
  <2>1. expState'[s] = "open"
    BY <1>3 DEF IssueBlock, TypeOK, ExpTypeOK
  <2> QED
    BY <1>3, <2>1, AddedSegments
<1>4. CASE \E rs \in net \cap ReportSegments :
              rs.session = s /\ NegativeReport(rs) /\ c.seg \in Resent(rs)
  <2>1. expState[s] = "open"
    BY <1>4 DEF NegativeReport, IsNewReport
  <2> QED
    BY <1>1, <1>4, <2>1, AddedSegments
<1> QED
  BY <1>1, <1>2, <1>3, <1>4 DEF CkptOrigin

\* Every step keeps the data segments sound: all are cut from a block by
\* issueSegments, or copied.
LEMMA SegmentsSoundStep ==
    ASSUME TypeOK, CkptsOwned, SegmentsSound, [Next]_vars
    PROVE  SegmentsSound'
<1>1. ExpStep
  BY StepOfHalves
<1>2. ReportAcks \cup CancelSegments \subseteq Sound
  BY DEF Sound, ReportAcks, CancelSegments, Segments, IsRed, DataTypes, CkptTypes, GreenTypes
<1>3. expQueue' \in Seq(Sound)
  <2>1. \A s \in Sessions : IssuedSegs(s) \subseteq Sound
    BY AddedSegments
  <2>2. \A rs \in net \cap ReportSegments : Resent(rs) \subseteq Sound
    BY AddedSegments
  <2> QED
    BY <1>1, <1>2, <2>1, <2>2, ExpQueueFlow DEF SegmentsSound
<1>4. ASSUME NEW s \in Sessions, NEW c \in ckpts'[s]
      PROVE  c.seg \in Sound
  <2>1. CkptOrigin(s, c)
    BY <1>1, CkptsFlow
  <2> QED
    BY <2>1, AddedSegments DEF CkptOrigin, SegmentsSound
<1>5. net' \subseteq Sound
  <2>1. expQueue # <<>> => Head(expQueue) \in Sound
    BY HeadTailType DEF SegmentsSound
  <2>2. ASSUME impQueue # <<>>, DequeueImport(Head(impQueue))
        PROVE  Head(impQueue) \in Sound
    <3>1. Head(impQueue) \in Segments
      BY <2>2, HeadTailType DEF TypeOK, ImpTypeOK
    <3>2. Head(impQueue).type \in {"RS", "CR", "CAS"}
      BY <2>2 DEF DequeueImport, DequeueReport, DequeueCR, DequeueCAS
    <3> QED
      BY <3>1, <3>2 DEF Sound, IsRed, DataTypes, CkptTypes, GreenTypes
  <2> QED
    BY <1>2, <2>1, <2>2, NetFlow DEF SegmentsSound
<1> QED
  BY <1>3, <1>4, <1>5 DEF SegmentsSound

\* No data of a session that is not open come back.
LEMMA DataFreeStable ==
    ASSUME TypeOK, CkptsOwned, [Next]_vars, NEW s \in Sessions,
           expState[s] # "open", expState'[s] # "open",
           expQueue \in Seq(DataFree(s)), net \subseteq DataFree(s)
    PROVE  expQueue' \in Seq(DataFree(s)) /\ net' \subseteq DataFree(s)
<1>1. ReportAcks \cup CancelSegments \subseteq DataFree(s)
  BY DEF DataFree, ReportAcks, CancelSegments, Segments, IsData, DataTypes, CkptTypes,
         GreenTypes
<1>2. ASSUME NEW t \in Sessions, IssueBlock(t)
      PROVE  IssuedSegs(t) \subseteq DataFree(s)
  <2>1. t # s
    BY <1>2 DEF IssueBlock, TypeOK, ExpTypeOK
  <2> QED
    BY <2>1, AddedSegments DEF DataFree, Segments
<1>3. ASSUME NEW rs \in net \cap ReportSegments, NegativeReport(rs)
      PROVE  Resent(rs) \subseteq DataFree(s)
  <2>1. rs.session # s
    BY <1>3 DEF NegativeReport, IsNewReport
  <2> QED
    BY <2>1, AddedSegments DEF DataFree, Segments
<1>4. ASSUME NEW t \in Sessions, NEW c \in ckpts[t], expState[t] = "open"
      PROVE  c.seg \in DataFree(s)
  <2>1. c.seg.session # s
    BY <1>4 DEF CkptsOwned
  <2>2. c.seg \in Segments
    BY DEF TypeOK, ExpTypeOK, CkptEntries, Segments
  <2> QED
    BY <2>1, <2>2 DEF DataFree
<1>5. expQueue' \in Seq(DataFree(s))
  BY <1>1, <1>2, <1>3, <1>4, StepOfHalves, ExpQueueFlow
<1>6. net' \subseteq DataFree(s)
  <2>1. expQueue # <<>> => Head(expQueue) \in DataFree(s)
    BY HeadTailType
  <2>2. ASSUME impQueue # <<>>, DequeueImport(Head(impQueue))
        PROVE  Head(impQueue) \in DataFree(s)
    <3>1. Head(impQueue) \in Segments
      BY <2>2, HeadTailType DEF TypeOK, ImpTypeOK
    <3>2. Head(impQueue).type \in {"RS", "CR", "CAS"}
      BY <2>2 DEF DequeueImport, DequeueReport, DequeueCR, DequeueCAS
    <3> QED
      BY <3>1, <3>2 DEF DataFree, IsData, DataTypes, CkptTypes, GreenTypes
  <2> QED
    BY <1>1, <2>1, <2>2, NetFlow
<1> QED
  BY <1>5, <1>6

\* A session that is gone stays gone.
LEMMA GoneStable ==
    ASSUME TypeOK, CkptsOwned, [Next]_vars, NEW s \in Sessions, Gone(s)
    PROVE  Gone(s)'
<1>1. LifeStep(s)
  BY StepOfHalves, ExportLife
<1>2. expState'[s] \in {"dead", "closed"}
  BY <1>1 DEF LifeStep, Stays, Moves, Gone
<1>3. expQueue' \in Seq(DataFree(s)) /\ net' \subseteq DataFree(s)
  BY <1>2, DataFreeStable DEF Gone
<1> QED
  BY <1>2, <1>3 DEF Gone

\* A sequence is one of any set that has its elements.
LEMMA SeqOfOthers ==
    ASSUME NEW S, NEW T, NEW seq \in Seq(S), \A i \in 1 .. Len(seq) : seq[i] \in T
    PROVE  seq \in Seq(T)
OBVIOUS

\* A session on whose data nobody waits can be forgotten only if it is gone,
\* or was never issued.
LEMMA QuarantinedGone ==
    ASSUME TypeOK, NEW s \in Sessions, Quarantined(s), expState[s] # "idle"
    PROVE  Gone(s)
<1>1. expState[s] \in {"dead", "closed"}
  BY DEF Quarantined, TypeOK, ExpTypeOK
<1>2. \A i \in 1 .. Len(expQueue) : expQueue[i] \in DataFree(s)
  BY DEF Quarantined, TypeOK, ExpTypeOK, DataFree
<1>3. expQueue \in Seq(DataFree(s))
  <2>1. expQueue \in Seq(Segments)
    BY DEF TypeOK, ExpTypeOK
  <2> QED
    BY <1>2, <2>1, SeqOfOthers
<1>4. net \subseteq DataFree(s)
  BY DEF Quarantined, TypeOK, DataFree
<1> QED
  BY <1>1, <1>3, <1>4 DEF Gone

\* A segment on its way shows that its session is not gone.
LEMMA AdmittedNotGone ==
    ASSUME NEW s \in Sessions, NEW seg \in net \cap DataSegments, Admitted(s, seg)
    PROVE  ~(net \subseteq DataFree(s))
BY DEF Admitted, DataFree, IsRed, IsData

\* Every step leaves sessions that are not issued unknown to both engines.
LEMMA UnissuedUnknownStep ==
    ASSUME TypeOK, CkptsOwned, UnissuedUnknown, [Next]_vars
    PROVE  UnissuedUnknown'
<1> SUFFICES ASSUME NEW s \in Sessions, expState'[s] = "idle"
             PROVE  /\ expQueue' \in Seq(DataFree(s))
                    /\ net' \subseteq DataFree(s)
                    /\ impNotices'[s] = <<>>
                    /\ impState'[s] = "none"
                    /\ s \notin closedImports'
  BY DEF UnissuedUnknown
<1>1. LifeStep(s) /\ ImportLife(s)
  BY StepOfHalves, ExportLife, ImportLifeSteps
<1>2. expState[s] = "idle"
  BY <1>1 DEF LifeStep, Stays, Moves
<1>3. /\ expQueue \in Seq(DataFree(s))
      /\ net \subseteq DataFree(s)
      /\ impNotices[s] = <<>>
      /\ impState[s] = "none"
      /\ s \notin closedImports
  BY <1>2 DEF UnissuedUnknown
<1>4. expQueue' \in Seq(DataFree(s)) /\ net' \subseteq DataFree(s)
  BY <1>2, <1>3, DataFreeStable
<1>5. ~\E seg \in net \cap DataSegments : Admitted(s, seg)
  BY <1>3, AdmittedNotGone
<1>6. impNotices'[s] = <<>> /\ impState'[s] = "none" /\ s \notin closedImports'
  BY <1>1, <1>3, <1>5 DEF ImportLife, ImpStays, SameRecord, ImpSilent
<1> QED
  BY <1>4, <1>6

\* A sound segment that overlaps nothing adds its length to the count.
LEMMA BytesAccountedStep ==
    ASSUME TypeOK, SegmentsSound, BytesAccounted, ImpStep
    PROVE  BytesAccounted'
<1> SUFFICES ASSUME NEW s \in Sessions
             PROVE  /\ impState'[s] # "open" => imports'[s].units = {}
                    /\ imports'[s].units \subseteq RedUnits(s)
                    /\ imports'[s].redPartReceived = Cardinality(imports'[s].units)
                    /\ imports'[s].redPartLength \in {0, RedLen(s)}
  BY DEF BytesAccounted
<1>1. ImportLife(s)
  BY ImportLifeSteps
<1>2. /\ impState[s] # "open" => imports[s].units = {}
      /\ imports[s].units \subseteq RedUnits(s)
      /\ imports[s].redPartReceived = Cardinality(imports[s].units)
      /\ imports[s].redPartLength \in {0, RedLen(s)}
  BY DEF BytesAccounted
<1>3. CASE /\ impState'[s] = impState[s] \/ impState'[s] = "open" \/ impState[s] # "open"
           /\ Contents(imports'[s]) = Contents(imports[s])
  BY <1>2, <1>3 DEF Contents
<1>4. CASE imports'[s] = EmptySession
  BY <1>4, FS_EmptySet DEF EmptySession
<1>5. ASSUME NEW seg \in net \cap DataSegments, Admitted(s, seg), StoreStep(s, seg),
             impState'[s] = "open"
      PROVE  /\ imports'[s].units \subseteq RedUnits(s)
             /\ imports'[s].redPartReceived = Cardinality(imports'[s].units)
             /\ imports'[s].redPartLength \in {0, RedLen(s)}
  <2> DEFINE i == imports[s]
  <2>1. seg.hi <= RedLen(s) /\ (seg.type \in {"DsRedEORP", "DsRedEOB"} => seg.hi = RedLen(s))
    BY <1>5 DEF SegmentsSound, Sound, Admitted
  <2>2. seg.lo \in Nat /\ seg.hi \in Nat /\ RedLen(s) \in Nat
    BY ConstantsAssumption DEF DataSegments, RedLen
  <2>3. i \in ImportSessionType
    BY DEF TypeOK, ImpTypeOK
  <2>4. /\ Stored(seg, i).units = i.units \cup Units(seg)
        /\ Stored(seg, i).redPartReceived = i.redPartReceived + Cardinality(Units(seg))
        /\ Stored(seg, i).redPartLength = IF seg.type \in {"DsRedEORP", "DsRedEOB"}
                                          THEN seg.hi ELSE i.redPartLength
    BY <2>3 DEF Stored, ImportSessionType
  <2>5. Units(seg) \subseteq RedUnits(s)
    BY <2>1, <2>2 DEF Units, RedUnits
  <2>6. IsFiniteSet(RedUnits(s))
    BY <2>2, FS_Interval DEF RedUnits
  <2>7. IsFiniteSet(i.units) /\ IsFiniteSet(Units(seg))
    BY <1>2, <2>5, <2>6, FS_Subset
  <2>8. Cardinality(i.units \cup Units(seg)) = Cardinality(i.units) + Cardinality(Units(seg))
    <3>1. i.units \cap Units(seg) = {}
      BY <1>5 DEF StoreStep
    <3>2. Cardinality(i.units \cup Units(seg)) =
              Cardinality(i.units) + Cardinality(Units(seg)) - Cardinality({})
      BY <2>7, <3>1, FS_Union
    <3>3. Cardinality(i.units) \in Nat /\ Cardinality(Units(seg)) \in Nat
      BY <2>7, FS_CardinalityType
    <3> QED
      BY <3>2, <3>3, FS_EmptySet
  <2> QED
    BY <1>2, <1>5, <2>1, <2>4, <2>5, <2>8 DEF StoreStep
<1> QED
  BY <1>1, <1>2, <1>3, <1>4, <1>5 DEF ImportLife, ImpStays

(***************************************************************************)
(* Notices of the receiving client.                                        *)
(***************************************************************************)
\* What a client has heard, it has heard.
LEMMA HeardAppend ==
    ASSUME NEW T, NEW seq \in Seq(T), NEW x, NEW y
    PROVE  InQueue(Append(seq, x), y) <=> InQueue(seq, y) \/ x = y
<1>1. Len(Append(seq, x)) = Len(seq) + 1 /\ Len(seq) \in Nat
  OBVIOUS
<1>2. \A i \in 1 .. Len(seq) : Append(seq, x)[i] = seq[i]
  OBVIOUS
<1>3. Append(seq, x)[Len(seq) + 1] = x
  OBVIOUS
<1> QED
  BY <1>1, <1>2, <1>3 DEF InQueue

\* What is delivered stays delivered.
LEMMA DeliveredStable ==
    ASSUME TypeOK, ImpStep, NEW s \in Sessions, Delivered(s)
    PROVE  Delivered(s)'
<1>1. ImportLife(s)
  BY ImportLifeSteps
<1>2. impNotices[s] \in Seq(ImpNoticeKinds)
  BY DEF TypeOK, ImpTypeOK
<1>3. \/ ImpSilent(s)
      \/ ImpHears(s, "RecvRedPart")
      \/ ImpHears(s, "ImportSessionCanceled")
  BY <1>1 DEF ImportLife, StoreStep
<1>4. \A kind : InQueue(Append(impNotices[s], kind), "RecvRedPart")
  BY <1>2, HeardAppend DEF Delivered
<1> QED
  BY <1>3, <1>4 DEF Delivered, ImpSilent, ImpHears

\* A segment is admitted only to a session of which the client has not heard.
LEMMA AdmittedUnheard ==
    ASSUME TypeOK, Settled, NEW s \in Sessions, NEW seg \in net \cap DataSegments,
           Admitted(s, seg)
    PROVE  impNotices[s] = <<>>
<1>1. ~Gone(s)
  BY AdmittedNotGone DEF Gone
<1>2. ~(impState[s] = "open" /\ imports[s].delivered) /\ impState[s] # "dead"
      /\ s \notin closedImports
  BY DEF Admitted, HasSession
<1> QED
  BY <1>1, <1>2 DEF Settled

\* Every step keeps sessions settled of which the receiving client has heard.
LEMMA SettledStep ==
    ASSUME TypeOK, CkptsOwned, UnissuedUnknown, Settled, [Next]_vars
    PROVE  Settled'
<1> SUFFICES ASSUME NEW s \in Sessions, impNotices'[s] # <<>>
             PROVE  \/ impState'[s] = "open" /\ imports'[s].delivered
                    \/ impState'[s] = "dead"
                    \/ s \in closedImports'
                    \/ Gone(s)'
  BY DEF Settled
<1>1. ImportLife(s)
  BY StepOfHalves, ImportLifeSteps
<1>2. Gone(s) => Gone(s)'
  BY GoneStable
<1>3. CASE ImpStays(s) /\ SameRecord(s) /\ ImpSilent(s)
  BY <1>2, <1>3 DEF Settled, ImpStays, SameRecord, ImpSilent, Contents
<1>4. CASE ImpStays(s) /\ ImpSilent(s) /\ s \notin closedImports' /\ Quarantined(s)
  <2>1. CASE expState[s] = "idle"
    BY <1>4, <2>1 DEF UnissuedUnknown, ImpSilent
  <2>2. CASE expState[s] # "idle"
    BY <1>2, <1>4, <2>2, QuarantinedGone
  <2> QED
    BY <2>1, <2>2
<1>5. ASSUME NEW seg \in net \cap DataSegments, Admitted(s, seg),
             impState'[s] = "open", ImpSilent(s) \/ StoreStep(s, seg)
      PROVE  impState'[s] = "open" /\ imports'[s].delivered
  BY <1>5, AdmittedUnheard DEF StoreStep, ImpSilent
<1> QED
  BY <1>1, <1>3, <1>4, <1>5 DEF ImportLife

\* No step delivers a red part for the second time: a segment is admitted only
\* to a session of which the client has not heard.
LEMMA DeliveredOnceStep ==
    ASSUME TypeOK, Settled, DeliveredOnce, ImpStep
    PROVE  DeliveredOnce'
<1> SUFFICES ASSUME NEW s \in Sessions
             PROVE  Count(impNotices'[s], "RecvRedPart") <= 1
  BY DEF DeliveredOnce
<1> DEFINE old == impNotices[s]
           red == "RecvRedPart"
<1>1. ImportLife(s)
  BY ImportLifeSteps
<1>2. old \in Seq(ImpNoticeKinds) /\ red \in ImpNoticeKinds
      /\ "ImportSessionCanceled" \in ImpNoticeKinds
  BY DEF TypeOK, ImpTypeOK, ImpNoticeKinds
<1>3. Count(old, red) <= 1 /\ Count(old, red) \in Nat
  BY <1>2, CountAppend DEF DeliveredOnce
<1>4. CASE ImpSilent(s)
  BY <1>3, <1>4 DEF ImpSilent
<1>5. CASE ImpHears(s, "ImportSessionCanceled")
  <2>1. Count(Append(old, "ImportSessionCanceled"), red) = Count(old, red)
    BY <1>2, <1>3, CountAppend
  <2> QED
    BY <1>3, <1>5, <2>1 DEF ImpHears
<1>6. ASSUME NEW seg \in net \cap DataSegments, Admitted(s, seg), ImpHears(s, red)
      PROVE  Count(impNotices'[s], red) <= 1
  <2>1. old = <<>>
    BY <1>6, AdmittedUnheard
  <2>2. ~InQueue(old, red)
    BY <2>1 DEF InQueue
  <2>3. Count(old, red) = 0
    BY <1>2, <2>2, CountAppend
  <2>4. Count(Append(old, red), red) = Count(old, red) + 1
    BY <1>2, CountAppend
  <2> QED
    BY <1>6, <2>3, <2>4 DEF ImpHears
<1> QED
  BY <1>1, <1>4, <1>5, <1>6 DEF ImportLife, StoreStep

(***************************************************************************)
(* Claims.                                                                 *)
(***************************************************************************)
\* This step sends reports of session s that claim less than its red part.
ReportsStep(s) ==
    \E seg \in net \cap DataSegments : seg.session = s /\ CallsForReports(seg)

\* A partial report claims only what the session holds.
LEMMA ReportsClaim ==
    ASSUME TypeOK, NEW seg \in net \cap DataSegments, CallsForReports(seg),
           NEW x \in Reports(seg)
    PROVE  /\ x \in Segments /\ x.session = seg.session
           /\ x.claims \subseteq imports'[seg.session].units
<1> DEFINE s == seg.session
           session == StoredIn(seg)
<1>1. s \in Sessions
  BY DEF DataSegments
<1>2. session \in ImportSessionType
  BY <1>1, StoredType DEF StoredIn, TypeOK, ImpTypeOK
<1>3. x \in Segments
  <2>1. ASSUME NEW y \in ImportSessionType
        PROVE  PartialReports(s, y, seg) \subseteq ReportSegments
    <3>1. seg \in DataSegments
      OBVIOUS
    <3> QED
      BY <1>1, <3>1, PartialReportsType
  <2>2. Reports(seg) \subseteq ReportSegments
    BY <1>2, <2>1 DEF Reports
  <2> QED
    BY <2>2 DEF Segments
<1>4. x.session = s /\ x.claims \subseteq session.units
  <2>1. ASSUME NEW y, NEW z \in PartialReports(s, y, seg)
        PROVE  z.session = s /\ z.claims \subseteq y.units
    <3>1. \E p, n, scope :
              z = [type |-> "RS", session |-> s, lo |-> p[1], hi |-> p[2],
                   ckpt |-> seg.ckpt, rpt |-> n,
                   claims |-> (y.units \cap scope) \cap (p[1] .. p[2] - 1)]
      BY <2>1, Zenon DEF PartialReports
    <3> QED
      BY <3>1
  <2> QED
    BY <2>1 DEF Reports
<1>5. imports'[s].units = session.units
  BY <1>2 DEF CallsForReports, WithReports, ImportSessionType
<1> QED
  BY <1>3, <1>4, <1>5

\* A unit that nobody claims is claimed by nobody after a step, unless the step
\* reports the unit.
LEMMA UnclaimedFlow ==
    ASSUME TypeOK, [Next]_vars, NEW s \in Sessions, NEW u, Unclaimed(s, u),
           \A seg \in net \cap DataSegments :
               ImpHears(seg.session, "RecvRedPart") => FinalReportOf(seg) \in Silent(s, u),
           ReportsStep(s) => u \notin imports'[s].units
    PROVE  Unclaimed(s, u)'
<1>1. ExpStep /\ ImpStep
  BY StepOfHalves
<1>2. CancelSegments \subseteq Silent(s, u)
  BY DEF Silent, CancelSegments, Segments
<1>3. u \notin claims'[s]
  <2>1. \A rs \in net \cap ReportSegments : rs.session = s => u \notin rs.claims
    BY DEF Unclaimed, Silent, ReportSegments
  <2> QED
    BY <1>1, <2>1, ClaimsFlow DEF Unclaimed
<1>4. ASSUME NEW seg \in net \cap DataSegments, CallsForReports(seg)
      PROVE  Reports(seg) \subseteq Silent(s, u)
  <2> SUFFICES ASSUME NEW x \in Reports(seg)
               PROVE  x \in Silent(s, u)
    OBVIOUS
  <2>1. /\ x \in Segments /\ x.session = seg.session
        /\ x.claims \subseteq imports'[seg.session].units
    BY <1>4, ReportsClaim
  <2>2. seg.session = s => u \notin imports'[s].units
    BY <1>4 DEF ReportsStep
  <2> QED
    BY <2>1, <2>2 DEF Silent
<1>5. /\ impQueue' \in Seq(Silent(s, u))
      /\ \A t \in Sessions : \A r \in imports'[t].reports : r.seg \in Silent(s, u)
  BY <1>1, <1>2, <1>4, ReportsFlow DEF Unclaimed, Delivers
<1>6. net' \subseteq Silent(s, u)
  <2>1. ASSUME expQueue # <<>>, DequeueExport(Head(expQueue))
        PROVE  Head(expQueue) \in Silent(s, u)
    <3>1. Head(expQueue) \in Segments
      BY <2>1, HeadTailType DEF TypeOK, ExpTypeOK
    <3>2. Head(expQueue).type # "RS"
      BY <2>1 DEF DequeueExport, DequeuePlain, DequeueCheckpoint, DequeueGreenEOB,
                  DequeueCS, IsCkpt, CkptTypes
    <3> QED
      BY <3>1, <3>2 DEF Silent
  <2>2. impQueue # <<>> => Head(impQueue) \in Silent(s, u)
    BY HeadTailType DEF Unclaimed
  <2> QED
    BY <1>2, <2>1, <2>2, NetFlow DEF Unclaimed
<1> QED
  BY <1>3, <1>5, <1>6 DEF Unclaimed

\* A final report claims the whole red part.
LEMMA FinalReportClaims ==
    ASSUME TypeOK, NEW seg \in net \cap DataSegments
    PROVE  /\ FinalReportOf(seg) \in Segments
           /\ FinalReportOf(seg).session = seg.session
           /\ FinalReportOf(seg).claims = 0 .. StoredIn(seg).redPartLength - 1
<1>1. seg.session \in Sessions /\ seg.ckpt \in Nat
  BY DEF DataSegments
<1>2. StoredIn(seg) \in ImportSessionType
  BY <1>1, StoredType DEF StoredIn, TypeOK, ImpTypeOK
<1>3. FinalReportOf(seg) \in ReportSegments
  BY <1>1, <1>2, LastReportType DEF FinalReportOf
<1> QED
  BY <1>3 DEF FinalReportOf, LastReport, Segments

\* In particular, a step that delivers no red part and reports no such unit.
LEMMA UnclaimedStable ==
    ASSUME TypeOK, [Next]_vars, NEW s \in Sessions, NEW u, Unclaimed(s, u),
           ~ImpHears(s, "RecvRedPart"),
           ReportsStep(s) => u \notin imports'[s].units
    PROVE  Unclaimed(s, u)'
<1>1. ASSUME NEW seg \in net \cap DataSegments, ImpHears(seg.session, "RecvRedPart")
      PROVE  FinalReportOf(seg) \in Silent(s, u)
  <2>1. seg.session # s
    BY <1>1
  <2> QED
    BY <2>1, FinalReportClaims DEF Silent
<1> QED
  BY <1>1, UnclaimedFlow

\* A report that completes the claims of a red part is true: its claims were
\* gathered somewhere, and a unit that nobody holds is claimed nowhere.
LEMMA AllClaimedDelivered ==
    ASSUME TypeOK, ClaimsBounded, NEW s \in Sessions, RedLen(s) > 0,
           NEW rs \in net \cap ReportSegments, rs.session = s, AllClaimed(rs)
    PROVE  Delivered(s)
<1> SUFFICES ASSUME ~Delivered(s) PROVE FALSE
  OBVIOUS
<1>1. PICK u \in RedUnits(s) : Unclaimed(s, u)
  BY DEF ClaimsBounded
<1>2. u \notin claims[s] /\ rs \in Silent(s, u)
  BY <1>1 DEF Unclaimed
<1>3. u \notin rs.claims
  BY <1>2 DEF Silent, ReportSegments
<1> QED
  BY <1>2, <1>3 DEF AllClaimed, MergedClaims

\* The flag that closes a session at its last green segment is kept true.
LEMMA FinalAckTruthfulStep ==
    ASSUME TypeOK, ClaimsBounded, FinalAckTruthful, [Next]_vars
    PROVE  FinalAckTruthful'
<1> SUFFICES ASSUME NEW s \in Sessions, "FINAL_ACK" \in stateFlags'[s], RedLen(s) > 0
             PROVE  Delivered(s)'
  BY DEF FinalAckTruthful
<1>1. ExpStep /\ ImpStep
  BY StepOfHalves
<1>2. \/ "FINAL_ACK" \in stateFlags[s]
      \/ \E rs \in net \cap ReportSegments : rs.session = s /\ AllClaimed(rs)
  BY <1>1, FinalAckFlow
<1>3. Delivered(s)
  BY <1>2, AllClaimedDelivered DEF FinalAckTruthful
<1> QED
  BY <1>1, <1>3, DeliveredStable

\* A session completes on a final report, or on its last green segment when
\* the final report has come before.
LEMMA CompletionTruthfulStep ==
    ASSUME TypeOK, ClaimsBounded, FinalAckTruthful, CompletionTruthful, [Next]_vars
    PROVE  CompletionTruthful'
<1> SUFFICES ASSUME NEW s \in Sessions, RedLen(s) > 0,
                    InQueue(expNotices'[s], "ExportSessionComplete")
             PROVE  Delivered(s)'
  BY DEF CompletionTruthful, Delivered
<1>1. ExpStep /\ ImpStep
  BY StepOfHalves
<1> DEFINE complete == "ExportSessionComplete"
<1>2. SUFFICES Delivered(s)
  BY <1>1, DeliveredStable
<1>3. InQueue(expNotices[s], complete) => Delivered(s)
  BY DEF CompletionTruthful, Delivered
<1>4. expNotices[s] \in Seq(ExpNoticeKinds)
  BY DEF TypeOK, ExpTypeOK
<1>5. ASSUME NEW kind, kind # complete, InQueue(Append(expNotices[s], kind), complete)
      PROVE  InQueue(expNotices[s], complete)
  BY <1>4, <1>5, HeardAppend
<1>6. LifeStep(s)
  BY <1>1, ExportLife
<1>7. CASE expNotices'[s] = expNotices[s]
  BY <1>3, <1>7
<1>8. CASE expNotices'[s] = Append(expNotices[s], "XmitComplete")
  BY <1>3, <1>5, <1>8
<1>9. CASE expNotices'[s] = Append(expNotices[s], "ExportSessionCanceled")
  BY <1>3, <1>5, <1>9
<1>10. ASSUME NEW rs \in net \cap ReportSegments, rs.session = s, FinalReport(rs)
       PROVE  Delivered(s)
  <2>1. AllClaimed(rs)
    BY <1>10 DEF FinalReport
  <2> QED
    BY <1>10, <2>1, AllClaimedDelivered
<1>11. CASE RedLen(s) = 0 \/ "FINAL_ACK" \in stateFlags[s]
  BY <1>11 DEF FinalAckTruthful
<1> QED
  BY <1>6, <1>7, <1>8, <1>9, <1>10, <1>11 DEF LifeStep

\* A session that reports lacks a unit of its red part: only then are there
\* segments missing, for its length must be known.
LEMMA ReporterLacks ==
    ASSUME TypeOK, BytesAccounted', TypeOK', NEW s \in Sessions, RedLen(s) > 0,
           ReportsStep(s)
    PROVE  \E u \in RedUnits(s) : u \notin imports'[s].units
<1>1. PICK seg \in net \cap DataSegments : seg.session = s /\ CallsForReports(seg)
  BY DEF ReportsStep
<1>2. imports[s] \in ImportSessionType /\ imports'[s] \in ImportSessionType
  BY DEF TypeOK, ImpTypeOK
<1>3. StoredIn(seg) \in ImportSessionType
  BY <1>1, <1>2, StoredType DEF StoredIn
<1>4. /\ imports'[s].units = StoredIn(seg).units
      /\ imports'[s].redPartReceived = StoredIn(seg).redPartReceived
      /\ imports'[s].redPartLength = StoredIn(seg).redPartLength
  BY <1>1, <1>3 DEF CallsForReports, WithReports, ImportSessionType
<1>5. /\ imports'[s].units \subseteq RedUnits(s)
      /\ imports'[s].redPartReceived = Cardinality(imports'[s].units)
      /\ imports'[s].redPartLength \in {0, RedLen(s)}
  BY DEF BytesAccounted
<1>6. imports'[s].redPartLength = RedLen(s)
  <2>1. StoredIn(seg).reportsCount \in Nat
    BY <1>3 DEF ImportSessionType
  <2>2. StoredIn(seg).redPartLength # 0
    BY <1>1, <2>1 DEF CallsForReports, ReportLimit
  <2> QED
    BY <1>4, <1>5, <2>2
<1>7. Cardinality(imports'[s].units) # RedLen(s)
  BY <1>1, <1>4, <1>5, <1>6 DEF CallsForReports, IsComplete
<1>8. Cardinality(RedUnits(s)) = RedLen(s)
  <2>1. RedLen(s) \in Nat
    BY ConstantsAssumption DEF RedLen
  <2> QED
    BY <2>1, FS_Interval DEF RedUnits
<1>9. imports'[s].units # RedUnits(s)
  BY <1>7, <1>8
<1> QED
  BY <1>5, <1>9

\* Units that a session lacks before it stores a segment are claimed nowhere.
LEMMA AdmittedUnclaimed ==
    ASSUME TypeOK, ClaimsBounded, NEW s \in Sessions, ~Delivered(s),
           NEW seg \in net \cap DataSegments, Admitted(s, seg),
           NEW u \in RedUnits(s), u \notin imports[s].units
    PROVE  Unclaimed(s, u)
<1>1. ~Gone(s)
  BY AdmittedNotGone DEF Gone
<1>2. impState[s] = "open" \/ (impState[s] = "none" /\ s \notin closedImports)
  BY DEF Admitted, HasSession
<1> QED
  BY <1>1, <1>2 DEF ClaimsBounded

\* An open session loses no unit that it holds.
LEMMA StoredGrows ==
    ASSUME TypeOK, ImpStep, NEW s \in Sessions,
           impState'[s] = "open",
           NEW u, u \notin imports'[s].units
    PROVE  u \notin imports[s].units
<1>1. ImportLife(s)
  BY ImportLifeSteps
<1>2. ASSUME NEW seg, StoreStep(s, seg)
      PROVE  imports[s].units \subseteq imports'[s].units
  <2>1. imports[s] \in ImportSessionType
    BY DEF TypeOK, ImpTypeOK
  <2>2. Stored(seg, imports[s]).units = imports[s].units \cup Units(seg)
    BY <2>1 DEF Stored, ImportSessionType
  <2> QED
    BY <1>2, <2>2 DEF StoreStep
<1>3. CASE Contents(imports'[s]) = Contents(imports[s])
  BY <1>3 DEF Contents
<1>4. ~(\E seg : StoreStep(s, seg)) => Contents(imports'[s]) = Contents(imports[s])
  BY <1>1 DEF ImportLife, ImpStays
<1> QED
  BY <1>2, <1>3, <1>4

\* A step that tells the client of a delivery is heard, and nothing else is.
LEMMA UnheardStep ==
    ASSUME TypeOK, NEW s \in Sessions, ~Delivered(s)'
    PROVE  ~ImpHears(s, "RecvRedPart")
<1>1. impNotices[s] \in Seq(ImpNoticeKinds)
  BY DEF TypeOK, ImpTypeOK
<1>2. InQueue(Append(impNotices[s], "RecvRedPart"), "RecvRedPart")
  BY <1>1, HeardAppend
<1> QED
  BY <1>2 DEF Delivered, ImpHears

\* As long as nothing is delivered, some unit of the red part is claimed
\* nowhere: a report is sent only by a session that lacks a unit, and the
\* session of the receiver knows of no claim for it.
LEMMA SomeUnclaimedStep ==
    ASSUME TypeOK, TypeOK', BytesAccounted', ClaimsBounded, [Next]_vars,
           NEW s \in Sessions, ~Delivered(s)', RedLen(s) > 0
    PROVE  \E u \in RedUnits(s) : Unclaimed(s, u)'
<1>1. ImpStep
  BY StepOfHalves
<1>2. ~Delivered(s)
  BY <1>1, DeliveredStable
<1>3. ~ImpHears(s, "RecvRedPart")
  BY UnheardStep
<1>4. CASE ~ReportsStep(s)
  <2>1. PICK u \in RedUnits(s) : Unclaimed(s, u)
    BY <1>2 DEF ClaimsBounded
  <2> QED
    BY <1>3, <1>4, <2>1, UnclaimedStable
<1>5. CASE ReportsStep(s)
  <2>1. PICK u \in RedUnits(s) : u \notin imports'[s].units
    BY <1>5, ReporterLacks
  <2>2. PICK seg \in net \cap DataSegments : seg.session = s /\ CallsForReports(seg)
    BY <1>5 DEF ReportsStep
  <2>3. Admitted(s, seg)
    BY <2>2 DEF CallsForReports
  <2>4. u \notin imports[s].units
    <3>1. imports[s] \in ImportSessionType /\ seg \in DataSegments
      BY DEF TypeOK, ImpTypeOK
    <3>2. StoredIn(seg) \in ImportSessionType
          /\ StoredIn(seg).units = imports[s].units \cup Units(seg)
      BY <2>2, <3>1, StoredType DEF StoredIn, Stored, ImportSessionType
    <3>3. imports'[s].units = StoredIn(seg).units
      BY <2>2, <3>2 DEF CallsForReports, WithReports, ImportSessionType
    <3> QED
      BY <2>1, <3>2, <3>3
  <2>5. Unclaimed(s, u)
    BY <1>2, <2>3, <2>4, AdmittedUnclaimed
  <2> QED
    BY <1>3, <2>1, <2>5, UnclaimedStable
<1> QED
  BY <1>4, <1>5

\* A unit that an undelivered session lacks is claimed nowhere.
LEMMA LackedUnclaimedStep ==
    ASSUME TypeOK, ClaimsBounded, [Next]_vars, NEW s \in Sessions,
           ~Delivered(s)', impState'[s] = "open",
           NEW u \in RedUnits(s), u \notin imports'[s].units
    PROVE  Unclaimed(s, u)'
<1>1. ImpStep
  BY StepOfHalves
<1>2. ~Delivered(s) /\ ~ImpHears(s, "RecvRedPart")
  BY <1>1, DeliveredStable, UnheardStep
<1>3. u \notin imports[s].units
  BY <1>1, StoredGrows
<1>4. impState[s] = "open" \/ \E seg \in net \cap DataSegments : Admitted(s, seg)
  <2>1. ImportLife(s)
    BY <1>1, ImportLifeSteps
  <2> QED
    BY <2>1 DEF ImportLife, ImpStays
<1>5. Unclaimed(s, u)
  BY <1>2, <1>3, <1>4, AdmittedUnclaimed DEF ClaimsBounded
<1> QED
  BY <1>2, <1>5, UnclaimedStable

\* A session that the receiver has no trace of was never started, or its
\* record was dropped in quarantine: then the sender is through with it.
LEMMA ForgottenUnclaimedStep ==
    ASSUME TypeOK, CkptsOwned, UnissuedUnknown, BytesAccounted', ClaimsBounded,
           [Next]_vars, NEW s \in Sessions,
           impState'[s] = "none", s \notin closedImports'
    PROVE  Gone(s)' \/ \A u \in RedUnits(s) : Unclaimed(s, u)'
<1>1. ImpStep
  BY StepOfHalves
<1>2. ImpSilent(s) /\ (Gone(s) \/ \A u \in RedUnits(s) : Unclaimed(s, u))
  <2>1. ImportLife(s)
    BY <1>1, ImportLifeSteps
  <2>2. CASE ImpStays(s) /\ SameRecord(s) /\ ImpSilent(s)
    BY <2>2 DEF ClaimsBounded, ImpStays, SameRecord
  <2>3. CASE ImpStays(s) /\ ImpSilent(s) /\ Quarantined(s)
    <3>1. CASE expState[s] = "idle"
      BY <2>3, <3>1 DEF ClaimsBounded, UnissuedUnknown, ImpStays
    <3>2. CASE expState[s] # "idle"
      BY <2>3, <3>2, QuarantinedGone
    <3> QED
      BY <2>3, <3>1, <3>2
  <2> QED
    BY <2>1, <2>2, <2>3 DEF ImportLife
<1>3. CASE Gone(s)
  BY <1>3, GoneStable
<1>4. ASSUME NEW u \in RedUnits(s), Unclaimed(s, u)
      PROVE  Unclaimed(s, u)'
  <2>1. u \notin imports'[s].units
    BY DEF BytesAccounted
  <2>2. impNotices[s] \in Seq(ImpNoticeKinds)
    BY DEF TypeOK, ImpTypeOK
  <2>3. Append(impNotices[s], "RecvRedPart") # impNotices[s]
    BY <2>2
  <2>4. ~ImpHears(s, "RecvRedPart")
    BY <1>2, <2>3 DEF ImpSilent, ImpHears
  <2> QED
    BY <1>4, <2>1, <2>4, UnclaimedStable
<1> QED
  BY <1>2, <1>3, <1>4

\* The three parts of ClaimsBounded are kept.
LEMMA ClaimsBoundedStep ==
    ASSUME TypeOK, TypeOK', CkptsOwned, UnissuedUnknown, BytesAccounted',
           ClaimsBounded, [Next]_vars
    PROVE  ClaimsBounded'
<1> SUFFICES ASSUME NEW s \in Sessions
             PROVE  /\ ~Delivered(s)' /\ RedLen(s) > 0 =>
                          \E u \in RedUnits(s) : Unclaimed(s, u)'
                    /\ ~Delivered(s)' /\ impState'[s] = "open" =>
                          \A u \in RedUnits(s) \ imports'[s].units : Unclaimed(s, u)'
                    /\ impState'[s] = "none" /\ s \notin closedImports' =>
                          Gone(s)' \/ \A u \in RedUnits(s) : Unclaimed(s, u)'
  BY DEF ClaimsBounded
<1>1. ~Delivered(s)' /\ RedLen(s) > 0 => \E u \in RedUnits(s) : Unclaimed(s, u)'
  BY SomeUnclaimedStep
<1>2. ~Delivered(s)' /\ impState'[s] = "open" =>
          \A u \in RedUnits(s) \ imports'[s].units : Unclaimed(s, u)'
  BY LackedUnclaimedStep
<1>3. impState'[s] = "none" /\ s \notin closedImports' =>
          Gone(s)' \/ \A u \in RedUnits(s) : Unclaimed(s, u)'
  BY ForgottenUnclaimedStep
<1> QED
  BY <1>1, <1>2, <1>3

(***************************************************************************)
(* The theorems.                                                           *)
(***************************************************************************)
\* LtpInv holds of the span before the first block.
LEMMA LtpInvInit == Init => LtpInv
<1> SUFFICES ASSUME Init PROVE LtpInv
  OBVIOUS
<1>1. TypeOK
  BY ExpInitType, ImpInitType DEF Init, TypeOK
<1>2. /\ net = {} /\ expQueue = <<>> /\ impQueue = <<>>
      /\ \A s \in Sessions :
            /\ expState[s] = "idle" /\ ckpts[s] = {} /\ claims[s] = {}
            /\ stateFlags[s] = {} /\ expNotices[s] = <<>>
            /\ impState[s] = "none" /\ imports[s] = EmptySession
            /\ impNotices[s] = <<>>
      /\ closedImports = {}
  BY DEF Init, ExpInit, ImpInit
<1>3. CkptsOwned /\ SegmentsSound /\ UnissuedUnknown /\ Settled /\ FinalAckTruthful
  <2>1. \A T : <<>> \in Seq(T)
    OBVIOUS
  <2>2. CkptsOwned /\ SegmentsSound /\ Settled
    BY <1>2, <2>1 DEF CkptsOwned, SegmentsSound, Settled
  <2>3. UnissuedUnknown
    BY <1>2, <2>1 DEF UnissuedUnknown
  <2>4. FinalAckTruthful
    BY <1>2 DEF FinalAckTruthful
  <2> QED
    BY <2>2, <2>3, <2>4
<1>4. BytesAccounted
  <2>1. Cardinality({}) = 0
    BY FS_EmptySet
  <2>2. \A s \in Sessions : imports[s].units = {} /\ imports[s].redPartReceived = 0
                                /\ imports[s].redPartLength = 0
    BY <1>2 DEF EmptySession
  <2> QED
    BY <2>1, <2>2 DEF BytesAccounted
<1>5. ClaimsBounded
  <2>1. ASSUME NEW s \in Sessions, NEW u \in RedUnits(s)
        PROVE  Unclaimed(s, u)
    <3>1. <<>> \in Seq(Silent(s, u))
      OBVIOUS
    <3>2. \A t \in Sessions : imports[t].reports = {}
      BY <1>2 DEF EmptySession
    <3> QED
      BY <1>2, <3>1, <3>2 DEF Unclaimed
  <2>2. ASSUME NEW s \in Sessions, RedLen(s) > 0
        PROVE  \E u \in RedUnits(s) : TRUE
    <3>1. RedLen(s) \in Nat /\ 0 \in RedUnits(s)
      BY <2>2, ConstantsAssumption DEF RedLen, RedUnits
    <3> QED
      BY <3>1
  <2> QED
    BY <2>1, <2>2 DEF ClaimsBounded
<1>6. ASSUME NEW y
      PROVE  ~InQueue(<<>>, y)
  BY DEF InQueue
<1>7. DeliveredOnce /\ CompletionTruthful
  <2>1. ASSUME NEW s \in Sessions
        PROVE  Count(impNotices[s], "RecvRedPart") = 0
    <3>1. impNotices[s] \in Seq(ImpNoticeKinds) /\ "RecvRedPart" \in ImpNoticeKinds
      BY <1>1 DEF TypeOK, ImpTypeOK, ImpNoticeKinds
    <3> QED
      BY <1>2, <1>6, <3>1, CountAppend
  <2> QED
    BY <1>2, <1>6, <2>1 DEF DeliveredOnce, CompletionTruthful
<1> QED
  BY <1>1, <1>3, <1>4, <1>5, <1>7 DEF LtpInv

\* Every step keeps LtpInv: each part from the parts before it.
LEMMA LtpInvStep == LtpInv /\ [Next]_vars => LtpInv'
<1> SUFFICES ASSUME LtpInv, [Next]_vars PROVE LtpInv'
  OBVIOUS
<1> USE DEF LtpInv
<1>1. ExpStep /\ ImpStep
  BY StepOfHalves
<1>2. TypeOK'
  BY NextType
<1>3. CkptsOwned'
  BY <1>1, CkptsOwnedStep
<1>4. SegmentsSound'
  BY SegmentsSoundStep
<1>5. UnissuedUnknown'
  BY UnissuedUnknownStep
<1>6. BytesAccounted'
  BY <1>1, BytesAccountedStep
<1>7. Settled'
  BY SettledStep
<1>8. ClaimsBounded'
  BY <1>2, <1>6, ClaimsBoundedStep
<1>9. FinalAckTruthful'
  BY FinalAckTruthfulStep
<1>10. DeliveredOnce'
  BY <1>1, DeliveredOnceStep
<1>11. CompletionTruthful'
  BY CompletionTruthfulStep
<1> QED
  BY <1>2, <1>3, <1>4, <1>5, <1>6, <1>7, <1>8, <1>9, <1>10, <1>11

\* The state of the two engines and of the links is always consistent in the
\* sense of LtpInv: counters, claims, lists and records of closed sessions
\* agree, whatever is lost, repeated or late.
THEOREM SessionsConsistent == Spec => []LtpInv
<1> QED
  BY LtpInvInit, LtpInvStep, PTL DEF Spec

\* The receiving client gets the red part of a block at most once, however
\* many copies of its segments reach handleDataSegment, and when.
THEOREM RedPartDeliveredOnce == Spec => []DeliveredOnce
<1>1. LtpInv => DeliveredOnce
  BY DEF LtpInv
<1> QED
  BY <1>1, SessionsConsistent, PTL

\* When handleRS, or the last green segment, tells the sending client that an
\* export session is complete, the receiving client has its red part.
THEOREM CompletionIsTruthful == Spec => []CompletionTruthful
<1>1. LtpInv => CompletionTruthful
  BY DEF LtpInv
<1> QED
  BY <1>1, SessionsConsistent, PTL

(***************************************************************************)
(* LtpSession implements LtpService: every step of the protocol is, for    *)
(* the two clients, one step of the service or none.  A step concerns the  *)
(* clients of one session only, and one client of it only; the lemmas say  *)
(* what that client may be told, from LtpInv and OneVerdict.               *)
(***************************************************************************)
(***************************************************************************)
(* One session, one client.                                                *)
(***************************************************************************)
ExpActsOn(s) ==
    \A t \in Sessions \ {s} : expState'[t] = expState[t] /\ expNotices'[t] = expNotices[t]

ImpActsOn(s) == \A t \in Sessions \ {s} : impNotices'[t] = impNotices[t]

\* A step of the sending half moves, and tells about, one session.
LEMMA ExpLocal ==
    ASSUME TypeOK, ExpStep
    PROVE  UNCHANGED <<expState, expNotices>> \/ \E s \in Sessions : ExpActsOn(s)
<1>0. /\ expState \in [Sessions -> {"idle", "open", "dead", "closed"}]
      /\ expNotices \in [Sessions -> Seq(ExpNoticeKinds)]
  BY DEF TypeOK, ExpTypeOK
<1>1. ASSUME NEW t \in Sessions,
             \/ UNCHANGED expState
             \/ \E q : expState' = [expState EXCEPT ![t] = q],
             \/ UNCHANGED expNotices
             \/ \E seq : expNotices' = [expNotices EXCEPT ![t] = seq]
      PROVE  \E s \in Sessions : ExpActsOn(s)
  <2>1. ExpActsOn(t)
    BY <1>0, <1>1 DEF ExpActsOn
  <2> QED
    BY <2>1
<1>2. ASSUME NEW t \in Sessions, IssueBlock(t)
      PROVE  \E s \in Sessions : ExpActsOn(s)
  BY <1>1, <1>2 DEF IssueBlock
<1>3. ASSUME NEW t \in Sessions, NEW q, NEW tl, CancelSessionBySender(t, q, tl)
      PROVE  \E s \in Sessions : ExpActsOn(s)
  BY <1>1, <1>3 DEF CancelSessionBySender, LeaveExportSessions, Notify
<1>4. CASE expQueue # <<>> /\ DequeueExport(Head(expQueue))
  <2> DEFINE seg == Head(expQueue)
  <2>1. seg.session \in Sessions
    BY <1>4, HeadTailType, SegmentKinds DEF TypeOK, ExpTypeOK
  <2> HIDE DEF seg
  <2>2. CASE DequeuePlain(seg)
    BY <2>2 DEF DequeuePlain, expSessionVars
  <2>3. CASE DequeueCheckpoint(seg)
    BY <1>1, <2>1, <2>3 DEF DequeueCheckpoint, Notify
  <2>4. CASE DequeueGreenEOB(seg)
    BY <1>1, <2>1, <2>4 DEF DequeueGreenEOB, Notify, LeaveExportSessions
  <2>5. CASE DequeueCS(seg)
    BY <2>5 DEF DequeueCS, expSessionVars
  <2> QED
    BY <1>4, <2>2, <2>3, <2>4, <2>5 DEF DequeueExport, seg
<1>5. ASSUME NEW rs \in net \cap ReportSegments, HandleRS(rs)
      PROVE  UNCHANGED <<expState, expNotices>> \/ \E s \in Sessions : ExpActsOn(s)
  <2>1. rs.session \in Sessions
    BY DEF ReportSegments
  <2>2. CASE \/ LateReport(rs) \/ StrayReport(rs) \/ IgnoredReport(rs)
             \/ FinalReportBeforeEOB(rs) \/ NegativeReport(rs)
    BY <2>2 DEF LateReport, StrayReport, IgnoredReport, FinalReportBeforeEOB,
                NegativeReport, expSessionVars, expVars
  <2>3. CASE FinalReport(rs)
    BY <1>1, <2>1, <2>3 DEF FinalReport, LeaveExportSessions, Notify
  <2>4. CASE NegativeReportAtLimit(rs)
    BY <1>3, <2>1, <2>4 DEF NegativeReportAtLimit
  <2> QED
    BY <1>5, <2>2, <2>3, <2>4 DEF HandleRS
<1>6. ASSUME NEW t \in Sessions, HandleCAS(t) \/ HandleCR(t)
      PROVE  UNCHANGED <<expState, expNotices>> \/ \E s \in Sessions : ExpActsOn(s)
  BY <1>1, <1>6 DEF HandleCAS, HandleCR, LeaveExportSessions, Notify, expVars,
                    expSessionVars
<1>7. ASSUME NEW t \in Sessions, NEW k \in Nat, ResendCheckpoint(t, k)
      PROVE  UNCHANGED <<expState, expNotices>> \/ \E s \in Sessions : ExpActsOn(s)
  BY <1>3, <1>7 DEF ResendCheckpoint, expSessionVars
<1>8. ASSUME NEW t \in Sessions, ResendXmitCancel(t) \/ ForgetExportSession(t)
      PROVE  UNCHANGED <<expState, expNotices>> \/ \E s \in Sessions : ExpActsOn(s)
  BY <1>1, <1>8 DEF ResendXmitCancel, ForgetExportSession, expSessionVars
<1>9. CASE UNCHANGED expVars
  BY <1>9 DEF expVars, expSessionVars
<1> QED
  BY <1>2, <1>4, <1>5, <1>6, <1>7, <1>8, <1>9 DEF ExpStep

\* A step of the receiving half tells about one session.
LEMMA ImpLocal ==
    ASSUME TypeOK, ImpStep
    PROVE  UNCHANGED impNotices \/ \E s \in Sessions : ImpActsOn(s)
<1>1. ASSUME NEW t \in Sessions, NEW kind, NotifyImport(t, kind)
      PROVE  \E s \in Sessions : ImpActsOn(s)
  <2>1. impNotices \in [Sessions -> Seq(ImpNoticeKinds)]
    BY DEF TypeOK, ImpTypeOK
  <2>2. ImpActsOn(t)
    BY <1>1, <2>1 DEF NotifyImport, ImpActsOn
  <2> QED
    BY <2>2
<1>2. ASSUME NEW t \in Sessions, CancelSessionByReceiver(t)
      PROVE  \E s \in Sessions : ImpActsOn(s)
  BY <1>1, <1>2 DEF CancelSessionByReceiver
<1>3. ASSUME NEW seg \in net \cap DataSegments, HandleDataSegment(seg)
      PROVE  UNCHANGED impNotices \/ \E s \in Sessions : ImpActsOn(s)
  <2>1. seg.session \in Sessions
    BY DEF DataSegments
  <2>2. PICK fault : \/ LateSegment(seg)
                     \/ RejectedSegment(seg, fault)
                     \/ GreenSegment(seg, fault)
                     \/ UselessRedSegment(seg, fault)
                     \/ DiscardedRedSegment(seg, fault)
                     \/ AcceptedRedSegment(seg, fault)
    BY <1>3 DEF HandleDataSegment
  <2>3. CASE \/ LateSegment(seg) \/ GreenSegment(seg, fault)
             \/ UselessRedSegment(seg, fault) \/ DiscardedRedSegment(seg, fault)
    BY <2>3 DEF LateSegment, GreenSegment, UselessRedSegment, DiscardedRedSegment,
                impVars
  <2>4. CASE RejectedSegment(seg, fault)
    BY <1>2, <2>1, <2>4 DEF RejectedSegment
  <2>5. CASE AcceptedRedSegment(seg, fault)
    <3>1. \/ UNCHANGED impNotices
          \/ NotifyImport(seg.session, "RecvRedPart")
          \/ CancelSessionByReceiver(seg.session)
      BY <2>5 DEF AcceptedRedSegment
    <3> QED
      BY <1>1, <1>2, <2>1, <3>1
  <2> QED
    BY <2>2, <2>3, <2>4, <2>5
<1>4. ASSUME NEW ra \in net \cap ReportAcks, HandleRA(ra)
      PROVE  UNCHANGED impNotices
  BY <1>4 DEF HandleRA, impVars
<1>5. ASSUME NEW t \in Sessions, HandleCS(t) \/ HandleCAR(t)
      PROVE  UNCHANGED impNotices \/ \E s \in Sessions : ImpActsOn(s)
  BY <1>1, <1>5 DEF HandleCS, HandleCAR
<1>6. ASSUME NEW t \in Sessions, NEW k \in Nat, ResendReport(t, k)
      PROVE  UNCHANGED impNotices \/ \E s \in Sessions : ImpActsOn(s)
  BY <1>2, <1>6 DEF ResendReport
<1>7. ASSUME NEW t \in Sessions, ResendRecvCancel(t) \/ ForgetImportSession(t)
      PROVE  UNCHANGED impNotices
  BY <1>7 DEF ResendRecvCancel, ForgetImportSession
<1>8. CASE impQueue # <<>> /\ DequeueImport(Head(impQueue))
  BY <1>8 DEF DequeueImport
<1>9. CASE UNCHANGED impVars
  BY <1>9 DEF impVars
<1> QED
  BY <1>3, <1>4, <1>5, <1>6, <1>7, <1>8, <1>9 DEF ImpStep

\* The two halves do not act in the same step.
LEMMA OneHalfActs ==
    ASSUME [Next]_vars
    PROVE  UNCHANGED <<expState, expNotices>> \/ UNCHANGED impNotices
BY DEF Next, Issue, ExpTimer, ImpTimer, ExpTransmit, ImpTransmit, ExpReceive,
       ImpReceive, vars, expVars, impVars, expSessionVars

(***************************************************************************)
(* What the clients may be told.                                           *)
(***************************************************************************)
\* A notice is among the notices exactly if it has been given.
LEMMA NoticesInQueue ==
    ASSUME NEW seq, NEW x
    PROVE  x \in Notices(seq) <=> InQueue(seq, x)
BY DEF Notices, InQueue

\* Before it ends, an export session has no verdict.
LEMMA NoVerdictYet ==
    ASSUME TypeOK, OneVerdict, NEW s \in Sessions, expState[s] \in {"idle", "open"}
    PROVE  /\ ~InQueue(expNotices[s], "ExportSessionComplete")
           /\ ~InQueue(expNotices[s], "ExportSessionCanceled")
<1> DEFINE old == expNotices[s]
<1>1. old \in Seq(ExpNoticeKinds) /\ "XmitComplete" \in ExpNoticeKinds
  BY DEF TypeOK, ExpTypeOK, ExpNoticeKinds
<1>2. ASSUME NEW y
      PROVE  Count(old, y) \in Nat /\ (Count(old, y) = 0 <=> ~InQueue(old, y))
  BY <1>1, CountAppend
<1>3. Count(old, "ExportSessionComplete") + Count(old, "ExportSessionCanceled") = 0
  BY DEF OneVerdict
<1>4. Count(old, "ExportSessionComplete") = 0 /\ Count(old, "ExportSessionCanceled") = 0
  <2> HIDE DEF old
  <2> QED
    BY <1>2, <1>3
<1> QED
  BY <1>2, <1>4

OutcomeKept(s) == Outcome(s)' = Outcome(s)
OutcomeMoves(s, p, q) == Outcome(s) = p /\ Outcome(s)' = q

\* The outcome of a session moves from unsent to sent to its verdict, and to
\* completion only when the red part is delivered.
LEMMA OutcomeStep ==
    ASSUME LtpInv, OneVerdict, [Next]_vars, NEW s \in Sessions
    PROVE  \/ OutcomeKept(s)
           \/ OutcomeMoves(s, "unsent", "sent")
           \/ OutcomeMoves(s, "sent", "canceled")
           \/ OutcomeMoves(s, "sent", "complete") /\ (RedLen(s) > 0 => Delivered(s))
<1> DEFINE complete == "ExportSessionComplete"
           canceled == "ExportSessionCanceled"
<1>1. TypeOK /\ ExpStep /\ ClaimsBounded /\ FinalAckTruthful
  BY StepOfHalves DEF LtpInv
<1>2. LifeStep(s)
  BY <1>1, ExportLife
<1>3. expNotices[s] \in Seq(ExpNoticeKinds)
  BY <1>1 DEF TypeOK, ExpTypeOK
<1>4. expState[s] \in {"idle", "open"} =>
          ~InQueue(expNotices[s], complete) /\ ~InQueue(expNotices[s], canceled)
  BY <1>1, NoVerdictYet
<1>5. \A kind, y : InQueue(Append(expNotices[s], kind), y)
                       <=> InQueue(expNotices[s], y) \/ kind = y
  BY <1>3, HeardAppend
<1>6. Outcome(s) = IF expState[s] = "idle" THEN "unsent"
                   ELSE IF InQueue(expNotices[s], complete) THEN "complete"
                   ELSE IF InQueue(expNotices[s], canceled) THEN "canceled"
                   ELSE "sent"
  BY NoticesInQueue DEF Outcome
<1>7. Outcome(s)' = IF expState'[s] = "idle" THEN "unsent"
                    ELSE IF InQueue(expNotices'[s], complete) THEN "complete"
                    ELSE IF InQueue(expNotices'[s], canceled) THEN "canceled"
                    ELSE "sent"
  BY NoticesInQueue DEF Outcome
<1> USE DEF Stays, Moves, OutcomeKept, OutcomeMoves
<1>8. CASE Stays(s) /\ expNotices'[s] = expNotices[s]
  BY <1>6, <1>7, <1>8
<1>9. CASE Stays(s) /\ expNotices'[s] = Append(expNotices[s], "XmitComplete")
  BY <1>5, <1>6, <1>7, <1>9
<1>10. CASE Moves(s, "idle", "open") /\ expNotices'[s] = expNotices[s]
  BY <1>4, <1>6, <1>7, <1>10
<1>11. CASE Moves(s, "dead", "closed") /\ expNotices'[s] = expNotices[s]
  BY <1>6, <1>7, <1>11
<1>12. CASE /\ Moves(s, "open", "dead") \/ Moves(s, "open", "closed")
            /\ expNotices'[s] = Append(expNotices[s], canceled)
  BY <1>4, <1>5, <1>6, <1>7, <1>12
<1>13. CASE /\ Moves(s, "open", "closed")
            /\ expNotices'[s] = Append(expNotices[s], complete)
            /\ \E rs \in net \cap ReportSegments : rs.session = s /\ FinalReport(rs)
  <2>1. OutcomeMoves(s, "sent", "complete")
    BY <1>4, <1>5, <1>6, <1>7, <1>13
  <2>2. \A rs : FinalReport(rs) => AllClaimed(rs)
    BY DEF FinalReport
  <2> QED
    BY <1>1, <1>13, <2>1, <2>2, AllClaimedDelivered
<1>14. CASE /\ Moves(s, "open", "closed")
            /\ Hears(s, <<"XmitComplete", complete>>)
            /\ RedLen(s) = 0 \/ "FINAL_ACK" \in stateFlags[s]
  <2> DEFINE sent == Append(expNotices[s], "XmitComplete")
  <2>1. expNotices'[s] = Append(sent, complete)
    BY <1>3, <1>14 DEF Hears
  <2>2. sent \in Seq(ExpNoticeKinds)
    BY <1>3 DEF ExpNoticeKinds
  <2> HIDE DEF sent
  <2>3. InQueue(expNotices'[s], complete)
    BY <2>1, <2>2, HeardAppend
  <2>4. OutcomeMoves(s, "sent", "complete")
    BY <1>4, <1>6, <1>7, <1>14, <2>3
  <2> QED
    BY <1>1, <1>14, <2>4 DEF FinalAckTruthful
<1> QED
  BY <1>2, <1>8, <1>9, <1>10, <1>11, <1>12, <1>13, <1>14 DEF LifeStep

RedPartKept(s) == RedPart(s)' = RedPart(s)
RedPartMoves(s, q) == RedPart(s) = "none" /\ RedPart(s)' = q

\* The red part is delivered or aborted, once, of a session that was sent;
\* and delivered only before the sending client hears of its completion.
LEMMA RedPartStep ==
    ASSUME LtpInv, OneVerdict, [Next]_vars, NEW s \in Sessions
    PROVE  \/ RedPartKept(s)
           \/ RedPartMoves(s, "aborted") /\ Outcome(s) # "unsent"
           \/ /\ RedPartMoves(s, "delivered") /\ RedLen(s) > 0
              /\ Outcome(s) \in {"sent", "canceled"}
<1> DEFINE red == "RecvRedPart"
           canceled == "ImportSessionCanceled"
<1>1. /\ TypeOK /\ ExpStep /\ ImpStep /\ UnissuedUnknown /\ Settled
      /\ BytesAccounted' /\ CompletionTruthful
  BY StepOfHalves, LtpInvStep DEF LtpInv
<1>2. ImportLife(s)
  BY <1>1, ImportLifeSteps
<1>3. impNotices[s] \in Seq(ImpNoticeKinds)
  BY <1>1 DEF TypeOK, ImpTypeOK
<1>4. \A kind, y : InQueue(Append(impNotices[s], kind), y)
                       <=> InQueue(impNotices[s], y) \/ kind = y
  BY <1>3, HeardAppend
<1>5. RedPart(s) = IF InQueue(impNotices[s], red) THEN "delivered"
                   ELSE IF InQueue(impNotices[s], canceled) THEN "aborted"
                   ELSE "none"
  BY NoticesInQueue DEF RedPart
<1>6. RedPart(s)' = IF InQueue(impNotices'[s], red) THEN "delivered"
                    ELSE IF InQueue(impNotices'[s], canceled) THEN "aborted"
                    ELSE "none"
  BY NoticesInQueue DEF RedPart
<1>7. Outcome(s) \in {"unsent", "sent", "canceled", "complete"}
      /\ (Outcome(s) = "unsent" <=> expState[s] = "idle")
      /\ (Outcome(s) = "complete" => InQueue(expNotices[s], "ExportSessionComplete"))
  BY NoticesInQueue DEF Outcome
<1>8. ASSUME NEW seg \in net \cap DataSegments, Admitted(s, seg)
      PROVE  impNotices[s] = <<>> /\ expState[s] # "idle"
  BY <1>1, <1>8, AdmittedUnheard, AdmittedNotGone DEF UnissuedUnknown
<1> USE DEF RedPartKept, RedPartMoves
<1>9. CASE ImpSilent(s)
  BY <1>5, <1>6, <1>9 DEF ImpSilent
<1>10. ASSUME ImpHears(s, canceled), expState[s] # "idle"
       PROVE  RedPartKept(s) \/ (RedPartMoves(s, "aborted") /\ Outcome(s) # "unsent")
  BY <1>4, <1>5, <1>6, <1>7, <1>10 DEF ImpHears
<1>11. ASSUME impState[s] # "none"
       PROVE  expState[s] # "idle"
  BY <1>1, <1>11 DEF UnissuedUnknown
<1>12. ASSUME NEW seg \in net \cap DataSegments, Admitted(s, seg), StoreStep(s, seg),
              ImpHears(s, red)
       PROVE  /\ RedPartMoves(s, "delivered") /\ RedLen(s) > 0
              /\ Outcome(s) \in {"sent", "canceled"}
  <2>1. impNotices[s] = <<>> /\ expState[s] # "idle"
    BY <1>8, <1>12
  <2>2. \A y : ~InQueue(impNotices[s], y)
    BY <2>1 DEF InQueue
  <2>3. RedPartMoves(s, "delivered")
    BY <1>4, <1>5, <1>6, <1>12, <2>2 DEF ImpHears
  <2>4. RedLen(s) > 0
    <3>1. ImpSilent(s) \/ imports'[s].redPartLength > 0
      BY <1>12 DEF StoreStep, IsComplete
    <3>2. Append(impNotices[s], red) # impNotices[s]
      BY <1>3
    <3>3. imports'[s].redPartLength > 0
      BY <1>12, <3>1, <3>2 DEF ImpSilent, ImpHears
    <3> QED
      BY <1>1, <3>3 DEF BytesAccounted
  <2>5. Outcome(s) # "complete"
    BY <1>1, <1>7, <2>2, <2>4 DEF CompletionTruthful
  <2> QED
    BY <1>7, <2>1, <2>3, <2>4, <2>5
<1> QED
  BY <1>2, <1>8, <1>9, <1>10, <1>11, <1>12 DEF ImportLife, StoreStep

(***************************************************************************)
(* The refinement.                                                         *)
(***************************************************************************)
\* Every step of the span is a step of the service, or none.
LEMMA ServiceStep ==
    ASSUME LtpInv, OneVerdict, [Next]_vars
    PROVE  [Service!ServiceNext]_Service!serviceVars
<1> DEFINE outcomes == [s \in Sessions |-> Outcome(s)]
           redParts == [s \in Sessions |-> RedPart(s)]
<1>1. TypeOK /\ ExpStep /\ ImpStep
  BY StepOfHalves DEF LtpInv
<1>2. UNCHANGED impNotices => redParts' = redParts
  BY DEF RedPart
<1>3. UNCHANGED <<expState, expNotices>> => outcomes' = outcomes
  BY DEF Outcome
<1>4. ASSUME NEW s \in Sessions, ExpActsOn(s), UNCHANGED impNotices
      PROVE  Service!ServiceNext \/ UNCHANGED Service!serviceVars
  <2>1. outcomes' = [outcomes EXCEPT ![s] = Outcome(s)']
    <3>1. \A t \in Sessions \ {s} : Outcome(t)' = Outcome(t)
      BY <1>4 DEF ExpActsOn, Outcome
    <3> QED
      BY <3>1
  <2>2. redParts' = redParts
    BY <1>2, <1>4
  <2>3. CASE OutcomeKept(s)
    BY <2>1, <2>2, <2>3 DEF OutcomeKept, Service!serviceVars
  <2>4. CASE OutcomeMoves(s, "unsent", "sent")
    <3>1. Service!Submit(s)
      BY <2>1, <2>2, <2>4 DEF OutcomeMoves, Service!Submit
    <3> QED
      BY <3>1 DEF Service!ServiceNext
  <2>5. CASE OutcomeMoves(s, "sent", "canceled")
    <3>1. Service!CancelExport(s)
      BY <2>1, <2>2, <2>5 DEF OutcomeMoves, Service!CancelExport
    <3> QED
      BY <3>1 DEF Service!ServiceNext
  <2>6. CASE OutcomeMoves(s, "sent", "complete") /\ (RedLen(s) > 0 => Delivered(s))
    <3>1. RedLen(s) > 0 => RedPart(s) = "delivered"
      BY <2>6, NoticesInQueue DEF Delivered, RedPart
    <3>2. Service!Complete(s)
      BY <2>1, <2>2, <2>6, <3>1 DEF OutcomeMoves, Service!Complete
    <3> QED
      BY <3>2 DEF Service!ServiceNext
  <2> QED
    BY <2>3, <2>4, <2>5, <2>6, OutcomeStep
<1>5. ASSUME NEW s \in Sessions, ImpActsOn(s), UNCHANGED <<expState, expNotices>>
      PROVE  Service!ServiceNext \/ UNCHANGED Service!serviceVars
  <2>1. redParts' = [redParts EXCEPT ![s] = RedPart(s)']
    <3>1. \A t \in Sessions \ {s} : RedPart(t)' = RedPart(t)
      BY <1>5 DEF ImpActsOn, RedPart
    <3> QED
      BY <3>1
  <2>2. outcomes' = outcomes
    BY <1>3, <1>5
  <2>3. CASE RedPartKept(s)
    BY <2>1, <2>2, <2>3 DEF RedPartKept, Service!serviceVars
  <2>4. CASE RedPartMoves(s, "aborted") /\ Outcome(s) # "unsent"
    <3>1. Service!Abort(s)
      BY <2>1, <2>2, <2>4 DEF RedPartMoves, Service!Abort
    <3> QED
      BY <3>1 DEF Service!ServiceNext
  <2>5. CASE /\ RedPartMoves(s, "delivered") /\ RedLen(s) > 0
             /\ Outcome(s) \in {"sent", "canceled"}
    <3>1. Service!Deliver(s)
      BY <2>1, <2>2, <2>5 DEF RedPartMoves, Service!Deliver
    <3> QED
      BY <3>1 DEF Service!ServiceNext
  <2> QED
    BY <2>3, <2>4, <2>5, RedPartStep
<1>6. CASE UNCHANGED <<expState, expNotices>> /\ UNCHANGED impNotices
  BY <1>2, <1>3, <1>6 DEF Service!serviceVars
<1> QED
  BY <1>1, <1>4, <1>5, <1>6, ExpLocal, ImpLocal, OneHalfActs

\* The protocol as a whole, with segments lost, repeated and reordered, timers
\* racing with reports and sessions forgotten, keeps the promises of LtpService
\* to the clients at both ends.
THEOREM SessionImplementsService == Spec => ImplementsService
<1>1. Init => Service!ServiceInit
  <2> SUFFICES ASSUME Init, NEW s \in Sessions
               PROVE  Outcome(s) = "unsent" /\ RedPart(s) = "none"
    BY DEF Service!ServiceInit
  <2>1. expState[s] = "idle" /\ impNotices[s] = <<>>
    BY DEF Init, ExpInit, ImpInit
  <2> QED
    BY <2>1 DEF Outcome, RedPart, Notices
<1>2. LtpInv /\ OneVerdict /\ [Next]_vars => [Service!ServiceNext]_Service!serviceVars
  BY ServiceStep
<1> QED
  BY <1>1, <1>2, SessionsConsistent, VerdictsAreFinal, PTL
     DEF Spec, ImplementsService, Service!ServiceSpec

=============================================================================
