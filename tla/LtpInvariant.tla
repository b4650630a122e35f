---------------------------- MODULE LtpInvariant ----------------------------
(***************************************************************************)
(* An inductive invariant of LtpSession that implies DeliveredOnce,        *)
(* OneVerdict and CompletionTruthful: what the two engines, the queues and *)
(* the links hold of a session at each stage of its life.                  *)
(***************************************************************************)
EXTENDS LtpSession

\* Every segment but a data segment of session s.
DataFree(s) == {x \in Segments : ~(IsData(x) /\ x.session = s)}

\* Every segment but a report that claims unit u of session s.
Silent(s, u) == {x \in Segments : ~(x.type = "RS" /\ x.session = s /\ u \in x.claims)}

\* Every segment but a red one beyond the red part of its block, or one that
\* is wrongly flagged as its end.
Sound ==
    {x \in Segments : IsRed(x) =>
        /\ x.hi <= RedLen(x.session)
        /\ x.type \in {"DsRedEORP", "DsRedEOB"} => x.hi = RedLen(x.session)}

\* The sender is through with the session, and no data of it are on the way.
Gone(s) ==
    /\ expState[s] \in {"dead", "closed"}
    /\ expQueue \in Seq(DataFree(s))
    /\ net \subseteq DataFree(s)

\* Nobody, at the sender, on the way or at the receiver, claims unit u.
Unclaimed(s, u) ==
    /\ u \notin claims[s]
    /\ net \subseteq Silent(s, u)
    /\ impQueue \in Seq(Silent(s, u))
    /\ \A t \in Sessions : \A r \in imports[t].reports : r.seg \in Silent(s, u)

Delivered(s) == InQueue(impNotices[s], "RecvRedPart")

(***************************************************************************)
(* The parts of the invariant.                                             *)
(***************************************************************************)
\* A checkpoint in a list is of the list's session, which is open.
CkptsOwned ==
    \A s \in Sessions : \A c \in ckpts[s] :
        c.seg.session = s /\ expState[s] = "open"

\* No engine sends, resends or receives an unsound data segment.
SegmentsSound ==
    /\ expQueue \in Seq(Sound)
    /\ \A s \in Sessions : \A c \in ckpts[s] : c.seg \in Sound
    /\ net \subseteq Sound

\* Before its issue there is no trace of a session.
UnissuedUnknown ==
    \A s \in Sessions : expState[s] = "idle" =>
        /\ expQueue \in Seq(DataFree(s))
        /\ net \subseteq DataFree(s)
        /\ impNotices[s] = <<>>
        /\ impState[s] = "none"
        /\ s \notin closedImports

\* The counters of an import session agree with the units it holds.
BytesAccounted ==
    \A s \in Sessions :
        /\ impState[s] # "open" => imports[s].units = {}
        /\ imports[s].units \subseteq RedUnits(s)
        /\ imports[s].redPartReceived = Cardinality(imports[s].units)
        /\ imports[s].redPartLength \in {0, RedLen(s)}

\* Once the receiving client has heard of a session, no segment can start it
\* again: it is open and delivered, dead, on record as closed, or gone.
Settled ==
    \A s \in Sessions : impNotices[s] # <<>> =>
        \/ impState[s] = "open" /\ imports[s].delivered
        \/ impState[s] = "dead"
        \/ s \in closedImports
        \/ Gone(s)

\* Until the red part is delivered, some unit of it is claimed nowhere, and
\* nothing is claimed but what the receiver holds.
ClaimsBounded ==
    \A s \in Sessions :
        /\ ~Delivered(s) /\ RedLen(s) > 0 => \E u \in RedUnits(s) : Unclaimed(s, u)
        /\ ~Delivered(s) /\ impState[s] = "open" =>
              \A u \in RedUnits(s) \ imports[s].units : Unclaimed(s, u)
        /\ impState[s] = "none" /\ s \notin closedImports =>
              Gone(s) \/ \A u \in RedUnits(s) : Unclaimed(s, u)

\* An acknowledged red part is delivered.
FinalAckTruthful ==
    \A s \in Sessions :
        "FINAL_ACK" \in stateFlags[s] /\ RedLen(s) > 0 => Delivered(s)

LtpInv ==
    /\ TypeOK
    /\ CkptsOwned
    /\ SegmentsSound
    /\ UnissuedUnknown
    /\ BytesAccounted
    /\ Settled
    /\ ClaimsBounded
    /\ FinalAckTruthful
    /\ DeliveredOnce
    /\ CompletionTruthful

(***************************************************************************)
(* A second inductive invariant, on top of the first: the numbered signals *)
(* (checkpoints and reports), the colors of the data and the end of the    *)
(* block.  It implies OneRetransmission, ClaimsHeld, NeverMiscolored,      *)
(* XmitCompleteOnce and CompleteAfterXmit.                                 *)
(***************************************************************************)
\* The checkpoint, or the report, of session s with number k.
CkptNumbered(s, k)   == {x \in Segments : IsCkpt(x) /\ x.session = s /\ x.ckpt = k}
ReportNumbered(s, k) == {x \in Segments : x.type = "RS" /\ x.session = s /\ x.rpt = k}

\* Some segment, and at most one, of a queue is in the set X.
Some(queue, X) == \E i \in 1 .. Len(queue) : queue[i] \in X
Once(queue, X) == \A i, j \in 1 .. Len(queue) :
                      queue[i] \in X /\ queue[j] \in X => i = j

\* One signal, which only a segment in X can be: at most one entry of the list
\* is for it, a queued one has an entry and is queued once; when its event is
\* due it is not queued; and when it is armed it is queued or due.
Signal(entries, X, queue, timeline, event) ==
    /\ \A c, d \in entries : c.seg \in X /\ d.seg \in X => c = d
    /\ \A i \in 1 .. Len(queue) :
          queue[i] \in X => \E c \in entries : c.seg = queue[i]
    /\ Once(queue, X)
    /\ event \in timeline => ~Some(queue, X) /\ \E c \in entries : c.seg \in X
    /\ \A c \in entries :
          c.armed /\ c.seg \in X => event \in timeline \/ Some(queue, X)

CkptSignal(s, k) ==
    Signal(ckpts[s], CkptNumbered(s, k), expQueue,
           expTimeline, ResendCheckpointEvent(s, k))
ReportSignal(s, k) ==
    Signal(imports[s].reports, ReportNumbered(s, k), impQueue,
           impTimeline, ResendReportEvent(s, k))

\* The numbers of the checkpoints and reports of a session count up.
CkptSignals(s) ==
    /\ \A k \in Nat : CkptSignal(s, k)
    /\ \A c \in ckpts[s] : IsCkpt(c.seg) /\ c.seg.ckpt <= lastCkpt[s]
ReportSignals(s) ==
    /\ \A k \in Nat : ReportSignal(s, k)
    /\ \A r \in imports[s].reports :
          r.seg.session = s /\ r.seg.rpt <= imports[s].nextRpt
    /\ impState[s] # "open" => imports[s].reports = {}

CkptsSignaled   == \A s \in Sessions : expState[s] \in {"idle", "open"} => CkptSignals(s)
ReportsSignaled == \A s \in Sessions : ReportSignals(s)

AllRed(s)   == RedLen(s) = Block[s].total
LastUnit(s) == RedLen(s) - 1

\* Every segment but green ones within the red part, and but those whose type
\* does not say where in the block they end.
Marked ==
    {x \in Segments : IsData(x) =>
        /\ x.lo < x.hi
        /\ IsRed(x) /\ x.hi = RedLen(x.session) =>
              x.type = IF AllRed(x.session) THEN "DsRedEOB" ELSE "DsRedEORP"
        /\ x.type = "DsRedEOB" => AllRed(x.session) /\ x.hi = RedLen(x.session)
        /\ ~IsRed(x) => ~AllRed(x.session) /\ x.lo >= RedLen(x.session)}

\* Every segment but a report on the end of the red part that does not claim
\* it.
Answering ==
    {x \in Segments : x.type = "RS" =>
        /\ x.lo < RedLen(x.session)
        /\ LastUnit(x.session) \in Units(x) => LastUnit(x.session) \in x.claims}

SegmentsMarked ==
    /\ expQueue \in Seq(Marked)
    /\ \A s \in Sessions : \A c \in ckpts[s] : c.seg \in Marked
    /\ net \subseteq Marked

ReportsAnswer ==
    /\ impQueue \in Seq(Answering)
    /\ \A s \in Sessions : \A r \in imports[s].reports : r.seg \in Answering
    /\ net \subseteq Answering

\* What the receiver remembers of the last red and green segments is true.
ColorsKept ==
    \A s \in Sessions :
        /\ lastRed.session = s => lastRed.end <= RedLen(s)
        /\ lastGreen.session = s => lastGreen.start >= RedLen(s)

\* Nobody claims what is not there; and a session whose client has heard of it
\* is open only when it is delivered.
ClaimsWithin == \A s \in Sessions : \A u \in Nat \ RedUnits(s) : Unclaimed(s, u)
HeardIsDelivered ==
    \A s \in Sessions :
        impState[s] = "open" /\ impNotices[s] # <<>> => imports[s].delivered

\* Before its issue a session has no notices, and no flags.
UnissuedQuiet ==
    \A s \in Sessions : expState[s] = "idle" =>
        expNotices[s] = <<>> /\ stateFlags[s] = {}

Announced(s) == InQueue(expNotices[s], "XmitComplete")

\* The checkpoint at the end of an all-red block is the first of its session.
EndIsFirst ==
    \A s \in Sessions : \A c \in ckpts[s] :
        c.seg.type = "DsRedEOB" => c.seg.ckpt = 1

\* Until the end of an all-red block is announced, it is nowhere but in the
\* queue, for the first time.
EndUnseen(s) ==
    /\ \A seg \in net : ~(seg.type = "DsRedEOB" /\ seg.session = s)
    /\ LastUnit(s) \notin imports[s].units
    /\ Unclaimed(s, LastUnit(s))
    /\ \A c \in ckpts[s] : c.seg.type = "DsRedEOB" => ~c.armed /\ c.count = 0

\* It is announced when its checkpoint is sent for the first time, ...
RedEndAnnounced ==
    \A s \in Sessions : AllRed(s) /\ expState[s] = "open" =>
        /\ ~Announced(s) => EndUnseen(s)
        /\ Announced(s) =>
              \A c \in ckpts[s] : c.seg.type = "DsRedEOB" /\ c.count = 0 =>
                  ~InQueue(expQueue, c.seg)

\* ... or with the last green segment, which is queued once.
GreenEnds(s) == {x \in Segments : x.type = "DsGreenEOB" /\ x.session = s}
GreenEndAnnounced ==
    \A s \in Sessions : ~AllRed(s) =>
        /\ Once(expQueue, GreenEnds(s))
        /\ Announced(s) => ~Some(expQueue, GreenEnds(s))
        /\ "EOB_SENT" \in stateFlags[s] => Announced(s)

SignalsInv ==
    /\ CkptsSignaled
    /\ ReportsSignaled
    /\ SegmentsMarked
    /\ ReportsAnswer
    /\ ColorsKept
    /\ ClaimsWithin
    /\ HeardIsDelivered
    /\ UnissuedQuiet
    /\ EndIsFirst
    /\ RedEndAnnounced
    /\ GreenEndAnnounced
    /\ XmitCompleteOnce
    /\ CompleteAfterXmit

(***************************************************************************)
(* A third inductive invariant, on top of both: why an open export session *)
(* is not stranded, provided that no report is split.                      *)
(***************************************************************************)
\* Claims are apart, so no more of them than fit in one report, whatever of the
\* red part is missing.
WholeReports == \A s \in Sessions : RedLen(s) <= 2 * MaxClaims

\* Every segment but a checkpoint, or a report on one, that is yet to be
\* issued, and but a report that covers less than the block up to the end of
\* the checkpoint it is on.
Reaching(s) ==
    {x \in Segments : (IsCkpt(x) \/ x.type = "RS") /\ x.session = s =>
        /\ x.ckpt <= lastCkpt[s]
        /\ \A c \in ckpts[s] : c.seg.ckpt = x.ckpt => c.seg.hi <= x.hi
        /\ x.type = "RS" => x.lo = 0 /\ x.hi <= RedLen(s)}

ScopesReach ==
    \A s \in Sessions : expState[s] \in {"idle", "open"} =>
        /\ impQueue \in Seq(Reaching(s))
        /\ \A t \in Sessions : \A r \in imports[t].reports : r.seg \in Reaching(s)
        /\ net \subseteq Reaching(s)

\* The red part is acknowledged, and the green part still to be sent.
AckedEarly(s) == "FINAL_ACK" \in stateFlags[s]
EndSentEarly(s) == "EOB_SENT" \in stateFlags[s]

\* What lies beyond a checkpoint has been claimed.
BeyondClaimed(s) ==
    \A c \in ckpts[s] : \A u \in RedUnits(s) : c.seg.hi <= u => u \in claims[s]

\* The answer to some checkpoint is awaited, or will be once it is sent.
AnswerAwaited(s) == \E c \in ckpts[s] : c.armed \/ InQueue(expQueue, c.seg)

SessionMoves(s) ==
    /\ AckedEarly(s) \/ RedLen(s) = 0 => ~AllRed(s) /\ ~EndSentEarly(s)
    /\ ~AllRed(s) /\ ~EndSentEarly(s) => Some(expQueue, GreenEnds(s))
    /\ ~AckedEarly(s) => BeyondClaimed(s)
    /\ ~AckedEarly(s) /\ RedLen(s) > 0 => AnswerAwaited(s)

SessionsMove == \A s \in Sessions : expState[s] = "open" => SessionMoves(s)

UnissuedUnnumbered == \A s \in Sessions : expState[s] = "idle" => lastCkpt[s] = 0

ProgressInv ==
    /\ ScopesReach
    /\ SessionsMove
    /\ UnissuedUnnumbered

=============================================================================
