---------------------------- MODULE LtpSession ----------------------------
(***************************************************************************)
(* One direction of an LTP span: the sending half of one engine and the    *)
(* receiving half of its peer, joined by link services that lose,          *)
(* duplicate and reorder segments (udplso and udplsi over UDP).            *)
(*                                                                         *)
(* Time is abstracted: an event of a timeline may be dispatched whenever   *)
(* it is on the timeline, so every race of a timer with a segment on its   *)
(* way is a behaviour of the model.  The one exception is the event that   *)
(* forgets a closed import session: see Quarantined.                       *)
(***************************************************************************)
EXTENDS LtpExport, LtpImport

CONSTANTS
    NetCapacity,  \* bound: segments in flight at any time
    QueueBound,   \* bound: queue length at which an engine stops receiving
    MayDuplicate  \* BOOLEAN, or {FALSE} for links that do not duplicate

VARIABLE net      \* the segments in flight, in both directions

vars == <<expVars, impVars, net>>

ASSUME SessionAssumption ==
    /\ NetCapacity \in Nat \ {0}
    /\ QueueBound \in Nat \ {0}
    /\ MayDuplicate \subseteq BOOLEAN

Init == ExpInit /\ ImpInit /\ net = {}

(***************************************************************************)
(* The link service.                                                       *)
(***************************************************************************)
OnWire(seg) == IF seg.type = "CR" THEN [seg EXCEPT !.bare = FALSE] ELSE seg

\* A segment that is sent is lost, or in flight if the bound allows it.
Send(seg) ==
    \/ net' = net
    \/ /\ Cardinality(net) < NetCapacity
       /\ net' = net \cup {OnWire(seg)}

\* A segment that is received may be received again.
Take(seg) == \E again \in MayDuplicate : net' = IF again THEN net ELSE net \ {seg}

Issue(s) == IssueBlock(s) /\ UNCHANGED <<impVars, net>>

ExpTransmit ==
    /\ expQueue # <<>>
    /\ DequeueExport(Head(expQueue))
    /\ Send(Head(expQueue))
    /\ UNCHANGED impVars

ImpTransmit ==
    /\ impQueue # <<>>
    /\ DequeueImport(Head(impQueue))
    /\ Send(Head(impQueue))
    /\ UNCHANGED expVars

\* ltpHandleInboundSegment at the sending engine and at the receiving one.
ExpReceive(seg) ==
    /\ Len(expQueue) < QueueBound
    /\ \/ seg.type = "RS" /\ HandleRS(seg)
       \/ seg.type = "CAS" /\ HandleCAS(seg.session)
       \/ seg.type = "CR" /\ HandleCR(seg.session)
    /\ Take(seg)
    /\ UNCHANGED impVars

ImpReceive(seg) ==
    /\ Len(impQueue) < QueueBound
    /\ \/ IsData(seg) /\ HandleDataSegment(seg)
       \/ seg.type = "RAS" /\ HandleRA(seg)
       \/ seg.type = "CS" /\ HandleCS(seg.session)
       \/ seg.type = "CAR" /\ HandleCAR(seg.session)
    /\ Take(seg)
    /\ UNCHANGED expVars

(***************************************************************************)
(* Timeline events, dispatched by ltpclock.                                *)
(***************************************************************************)
\* noteClosedImport keeps a closed session on record for 2 * maxTimeouts
\* round trips and 10 seconds, so that "an additional checkpoint should never
\* arrive after the removal event".  The model takes that at its word: the
\* event is dispatched only when the sender is through with the session and
\* none of its data segments is queued or in flight.
Quarantined(s) ==
    /\ expState[s] # "open"
    /\ \A i \in 1 .. Len(expQueue) :
          ~(IsData(expQueue[i]) /\ expQueue[i].session = s)
    /\ \A seg \in net : ~(IsData(seg) /\ seg.session = s)

ExpTimer(s) ==
    /\ \/ \E k \in 1 .. MaxCheckpoints : ResendCheckpoint(s, k)
       \/ ResendXmitCancel(s)
       \/ ForgetExportSession(s)
    /\ UNCHANGED <<impVars, net>>

ImpTimer(s) ==
    /\ \/ \E event \in impTimeline : ResendReport(s, event[3])
       \/ ResendRecvCancel(s)
       \/ ForgetImportSession(s) /\ Quarantined(s)
    /\ UNCHANGED <<expVars, net>>

Next ==
    \/ \E s \in Sessions : Issue(s) \/ ExpTimer(s) \/ ImpTimer(s)
    \/ ExpTransmit
    \/ ImpTransmit
    \/ \E seg \in net : ExpReceive(seg) \/ ImpReceive(seg)

Spec == Init /\ [][Next]_vars

\* The link service output daemons keep draining the queues, and ltpclock
\* dispatches every event in the end.  Nothing is assumed of the links.
Fairness ==
    /\ WF_vars(ExpTransmit)
    /\ WF_vars(ImpTransmit)
    /\ \A s \in Sessions : WF_vars(ExpTimer(s)) /\ WF_vars(ImpTimer(s))

FairSpec == Spec /\ Fairness

(***************************************************************************)
(* Type invariant.                                                         *)
(***************************************************************************)
ExpEvents ==
    {"LtpResendCheckpoint", "LtpResendXmitCancel", "LtpForgetExportSession"}
        \X Sessions \X Nat
ImpEvents ==
    {"LtpResendReport", "LtpResendRecvCancel", "LtpForgetImportSession"}
        \X Sessions \X Nat

ExpNoticeKinds == {"XmitComplete", "ExportSessionComplete", "ExportSessionCanceled"}
ImpNoticeKinds == {"RecvRedPart", "ImportSessionCanceled"}

\* The state of the sending half, of the receiving half and of the links.
ExpTypeOK ==
    /\ expState \in [Sessions -> {"idle", "open", "dead", "closed"}]
    /\ ckpts \in [Sessions -> SUBSET CkptEntries]
    /\ lastCkpt \in [Sessions -> Nat]
    /\ rsSerialNbrs \in [Sessions -> SUBSET Nat]
    /\ claims \in [Sessions -> SUBSET Nat]
    /\ stateFlags \in [Sessions -> SUBSET {"FINAL_ACK", "EOB_SENT"}]
    /\ cancelTimeouts \in [Sessions -> 0 .. MaxTimeouts]
    /\ closedExports \in [Sessions -> {NotListed} \cup (1 .. MaxTimeouts)]
    /\ expQueue \in Seq(Segments)
    /\ expTimeline \subseteq ExpEvents
    /\ expNotices \in [Sessions -> Seq(ExpNoticeKinds)]

ImpTypeOK ==
    /\ impState \in [Sessions -> {"none", "open", "dead"}]
    /\ imports \in [Sessions -> ImportSessionType]
    /\ cancelResends \in [Sessions -> 0 .. MaxTimeouts]
    /\ closedImports \subseteq Sessions
    /\ lastRed \in [session : Sessions \cup {0}, end : Nat]
    /\ lastGreen \in [session : Sessions \cup {0}, start : Nat]
    /\ impQueue \in Seq(Segments)
    /\ impTimeline \subseteq ImpEvents
    /\ impNotices \in [Sessions -> Seq(ImpNoticeKinds)]

TypeOK == ExpTypeOK /\ ImpTypeOK /\ net \subseteq Segments

(***************************************************************************)
(* The service of LtpService, as the clients of this span see it.          *)
(***************************************************************************)
Notices(seq) == {seq[i] : i \in 1 .. Len(seq)}

Outcome(s) ==
    IF expState[s] = "idle" THEN "unsent"
    ELSE IF "ExportSessionComplete" \in Notices(expNotices[s]) THEN "complete"
    ELSE IF "ExportSessionCanceled" \in Notices(expNotices[s]) THEN "canceled"
    ELSE "sent"

RedPart(s) ==
    IF "RecvRedPart" \in Notices(impNotices[s]) THEN "delivered"
    ELSE IF "ImportSessionCanceled" \in Notices(impNotices[s]) THEN "aborted"
    ELSE "none"

Service ==
    INSTANCE LtpService WITH
        Blocks     <- Sessions,
        HasRedPart <- [s \in Sessions |-> RedLen(s) > 0],
        outcome    <- [s \in Sessions |-> Outcome(s)],
        redPart    <- [s \in Sessions |-> RedPart(s)]

\* The whole protocol, with its losses, retransmissions, timers and forgotten
\* sessions, keeps the promises of LtpService.
ImplementsService == Service!ServiceSpec

(***************************************************************************)
(* Safety.                                                                 *)
(***************************************************************************)
Count(seq, x) == Cardinality({i \in 1 .. Len(seq) : seq[i] = x})
InQueue(queue, seg) == \E i \in 1 .. Len(queue) : queue[i] = seg

\* The receiving client gets the red part of a block at most once, although
\* acceptRedContent starts a new session for any red segment whose session it
\* has no record of (libltpP.c, sessionIsClosed and startImportSession).
DeliveredOnce ==
    \A s \in Sessions : Count(impNotices[s], "RecvRedPart") <= 1

\* The sending client is told that an export is complete only when the
\* receiving client has the red part: handleRS closes the session on the
\* strength of claims gathered from several reports, in any order.
CompletionTruthful ==
    \A s \in Sessions :
        /\ RedLen(s) > 0
        /\ InQueue(expNotices[s], "ExportSessionComplete")
        => InQueue(impNotices[s], "RecvRedPart")

\* The sending client gets one verdict of each session that has left
\* exportSessions, and none before: the ways out (handleRS, handleCR, the
\* last green segment, a timer) exclude one another.  (A comment in libltp.c
\* expects two notices of two cancellations: see BothCancellationsNotified.)
OneVerdict ==
    \A s \in Sessions :
        Count(expNotices[s], "ExportSessionComplete")
            + Count(expNotices[s], "ExportSessionCanceled")
        = IF expState[s] \in {"dead", "closed"} THEN 1 ELSE 0

\* While the receiver is still collecting the red part of a block, nothing is
\* claimed, at the sender or in a report on its way, that the receiver lacks.
ClaimsHeld ==
    \A s \in Sessions :
        impState[s] = "open" /\ ~imports[s].delivered =>
            /\ claims[s] \subseteq imports[s].units
            /\ \A rs \in net \cup Notices(impQueue) :
                  rs.type = "RS" /\ rs.session = s =>
                      rs.claims \subseteq imports[s].units

\* An armed checkpoint or report has exactly one retransmission to come: its
\* segment is in the queue, or its event is on the timeline, never both.  (A
\* second event would use up the retries of ltpResendCheckpoint and
\* ltpResendReport twice as fast.)
Holds(queue, timeline, seg, event) ==
    Count(queue, seg) + (IF event \in timeline THEN 1 ELSE 0)

OneRetransmission ==
    \A s \in Sessions :
        /\ \A c \in ckpts[s] :
              Holds(expQueue, expTimeline, c.seg, ResendCheckpointEvent(s, c.seg.ckpt))
                  \in (IF c.armed THEN {1} ELSE {0, 1})
        /\ \A r \in imports[s].reports :
              Holds(impQueue, impTimeline, r.seg, ResendReportEvent(s, r.seg.rpt))
                  \in (IF r.armed THEN {1} ELSE {0, 1})

\* An export session that is still open has something to wait for: a
\* checkpoint in the queue or with a running timer, or, when its red part is
\* acknowledged, the end of its green part in the queue.
NeverStranded ==
    \A s \in Sessions :
        expState[s] = "open" =>
            \/ \E c \in ckpts[s] :
                  \/ InQueue(expQueue, c.seg)
                  \/ c.armed
                     /\ ResendCheckpointEvent(s, c.seg.ckpt) \in expTimeline
            \/ \E i \in 1 .. Len(expQueue) :
                  expQueue[i].session = s /\ expQueue[i].type = "DsGreenEOB"

\* What the receiver takes for a protocol violation never happens between two
\* engines that run this code: no data segment on its way is "miscolored",
\* however segments, sessions and retransmissions interleave.
NeverMiscolored ==
    \A seg \in net : IsData(seg) => ~IsMiscolored(seg)

\* The client hears that a session is complete only after it heard that the
\* block was transmitted, red or green part last.
CompleteAfterXmit ==
    \A s \in Sessions : \A i \in 1 .. Len(expNotices[s]) :
        expNotices[s][i] = "ExportSessionComplete" =>
            \E j \in 1 .. i - 1 : expNotices[s][j] = "XmitComplete"

\* The client hears once that its block was transmitted, although
\* ltpDequeueOutboundSegment says so for every checkpoint at the end of the
\* block that has not been resent: a report never asks for that end again.
XmitCompleteOnce ==
    \A s \in Sessions : Count(expNotices[s], "XmitComplete") <= 1

(***************************************************************************)
(* Liveness.                                                               *)
(***************************************************************************)
\* Every export session ends, whatever is lost: retries are limited.
SenderFinishes ==
    \A s \in Sessions : expState[s] = "open" ~> expState[s] \in {"dead", "closed"}

\* A canceled import session is forgotten in the end, so its slot is free.
DeadImportsDrained ==
    \A s \in Sessions : impState[s] = "dead" ~> impState[s] # "dead"

(***************************************************************************)
(* What comments and documents say of the code, and the code does not do.  *)
(***************************************************************************)
\* "the whole session is about to vanish" (handleCAS).
DeadExportsDrained ==
    \A s \in Sessions : expState[s] = "dead" ~> expState[s] = "closed"

\* Of a session that is canceled at its own engine and by the receiver "at
\* almost exactly the same time": "both cancellations cause notices to be sent
\* to the user" (ltp_get_notice).  A cancellation by the receiver that finds
\* the session canceled here tells the client of it.
BothCancellationsNotified ==
    [][\A seg \in net :
          expState[seg.session] = "dead" /\ seg.type = "CR" /\ ExpReceive(seg)
            => Len(expNotices'[seg.session]) = Len(expNotices[seg.session]) + 1]_vars

=============================================================================
