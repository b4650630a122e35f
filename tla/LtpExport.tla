----------------------------- MODULE LtpExport -----------------------------
(***************************************************************************)
(* The sending half of an LTP engine (libltpP.c): the export sessions of   *)
(* one span, from the segmentation of a block by ltpmeter to the session's *)
(* completion or cancellation.  Each action is one SDR transaction of the  *)
(* code: ltpmeter's segmentation, the transmission of one segment by the   *)
(* link service output daemon, the handling of one inbound segment, or one *)
(* event of the LTP timeline.                                              *)
(***************************************************************************)
EXTENDS LtpSegments

VARIABLES
    expState,       \* where the session is: not yet issued, in exportSessions
                    \* and its hash, in deadExports, or in neither
    ckpts,          \* ExportSession.checkpoints, with the timer of each
    lastCkpt,       \* ExportSession.lastCkptSerialNbr
    rsSerialNbrs,   \* ExportSession.rsSerialNbrs
    claims,         \* ExportSession.claims, as the units claimed
    stateFlags,     \* ExportSession.stateFlags
    cancelTimeouts, \* ExportSession.timer.expirationCount of a dead session
    closedExports,  \* LtpDB.closedExports: responseLimit, or NotListed
    expQueue,       \* LtpSpan.segments of the sending engine
    expTimeline,    \* the sending engine's events in LtpDB.timeline
    expNotices      \* the notices about the session given to the client

expSessionVars == <<expState, ckpts, lastCkpt, rsSerialNbrs, claims, stateFlags>>
expVars == <<expSessionVars, cancelTimeouts, closedExports, expQueue,
             expTimeline, expNotices>>

NotListed == -1

\* An entry of a checkpoints list: the segment and its timer.  "armed" is
\* timer.segArrivalTime # 0.
CkptEntries == [seg : DataSegments, armed : BOOLEAN, count : 0 .. MaxTimeouts]
NewCkpt(seg) == [seg |-> seg, armed |-> FALSE, count |-> 0]

\* A timeline event names the session and, for a segment's timer, its serial.
ResendCheckpointEvent(s, k) == <<"LtpResendCheckpoint", s, k>>
ResendXmitCancelEvent(s)    == <<"LtpResendXmitCancel", s, 0>>
ForgetExportEvent(s)        == <<"LtpForgetExportSession", s, 0>>

CkptEvents(s) == {ResendCheckpointEvent(s, c.seg.ckpt) : c \in ckpts[s]}

ExpInit ==
    /\ expState       = [s \in Sessions |-> "idle"]
    /\ ckpts          = [s \in Sessions |-> {}]
    /\ lastCkpt       = [s \in Sessions |-> 0]
    /\ rsSerialNbrs   = [s \in Sessions |-> {}]
    /\ claims         = [s \in Sessions |-> {}]
    /\ stateFlags     = [s \in Sessions |-> {}]
    /\ cancelTimeouts = [s \in Sessions |-> 0]
    /\ closedExports  = [s \in Sessions |-> NotListed]
    /\ expQueue       = <<>>
    /\ expTimeline    = {}
    /\ expNotices     = [s \in Sessions |-> <<>>]

Notify(s, kind) == expNotices' = [expNotices EXCEPT ![s] = Append(@, kind)]

(***************************************************************************)
(* The two ways out of exportSessions.                                     *)
(***************************************************************************)
\* clearExportSession and the removal from list and hash.
LeaveExportSessions(s, newState) ==
    /\ expState'     = [expState EXCEPT ![s] = newState]
    /\ ckpts'        = [ckpts EXCEPT ![s] = {}]
    /\ rsSerialNbrs' = [rsSerialNbrs EXCEPT ![s] = {}]
    /\ claims'       = [claims EXCEPT ![s] = {}]
    /\ stateFlags'   = [stateFlags EXCEPT ![s] = {}]
    /\ UNCHANGED lastCkpt

\* stopExportSession: what is left of the queue and of the timeline.
StoppedQueue(queue, s)  == Purge(queue, s, DataTypes)
StoppedTimeline(s)      == expTimeline \ CkptEvents(s)

\* cancelSessionBySender, called with RAs perhaps already in the queue.
CancelSessionBySender(s, queue, timeline) ==
    /\ LeaveExportSessions(s, "dead")
    /\ Notify(s, "ExportSessionCanceled")
    /\ expQueue' = Append(StoppedQueue(queue, s), Cancel("CS", s))
    /\ expTimeline' = timeline \ CkptEvents(s)
    /\ cancelTimeouts' = [cancelTimeouts EXCEPT ![s] = 0]
    /\ UNCHANGED closedExports

(***************************************************************************)
(* ltpmeter: the aggregated block of session s is cut into segments.  The  *)
(* one checkpoint of the initial transmission has serial number 1 (in the  *)
(* code a random number below LTP_SERIAL_NBR_LIMIT: a renaming).           *)
(***************************************************************************)
IssueBlock(s) ==
    LET red == RedSegmentsFor(s, RedUnits(s), 0, 1)
        new == {seg \in red : IsCkpt(seg)}
    IN  /\ expState[s] = "idle"
        /\ \A t \in Sessions : t < s => expState[t] # "idle"
        /\ expState' = [expState EXCEPT ![s] = "open"]
        /\ ckpts' = [ckpts EXCEPT ![s] = {NewCkpt(seg) : seg \in new}]
        /\ lastCkpt' = [lastCkpt EXCEPT ![s] = IF new = {} THEN 0 ELSE 1]
        /\ expQueue' = EnqueueAll(expQueue, red \cup GreenSegments(s))
        /\ UNCHANGED <<rsSerialNbrs, claims, stateFlags, cancelTimeouts,
                       closedExports, expTimeline, expNotices>>

(***************************************************************************)
(* ltpDequeueOutboundSegment: the segment at the head of the queue goes to *)
(* the link service.                                                       *)
(***************************************************************************)
\* A red segment that is no checkpoint, or an acknowledgment.
DequeuePlain(seg) ==
    /\ seg.type \in {"DsRed", "DsGreen", "RAS", "CAR"}
    /\ UNCHANGED <<expSessionVars, cancelTimeouts, closedExports,
                   expTimeline, expNotices>>

\* Faulty variant of DequeueCheckpoint: a resent checkpoint is announced too.
DequeueCheckpointNoisy(seg) ==
    LET entry == {c \in ckpts[seg.session] : c.seg = seg}
    IN  /\ IsCkpt(seg)
        /\ ckpts' = [ckpts EXCEPT ![seg.session] =
                        (@ \ entry) \cup {[c EXCEPT !.armed = TRUE] : c \in entry}]
        /\ expTimeline' =
                expTimeline \cup {ResendCheckpointEvent(seg.session, seg.ckpt)}
        /\ IF seg.type = "DsRedEOB" /\ entry # {}
           THEN Notify(seg.session, "XmitComplete")
           ELSE UNCHANGED expNotices
        /\ UNCHANGED <<expState, lastCkpt, rsSerialNbrs, claims, stateFlags,
                       cancelTimeouts, closedExports>>

\* setTimer (re)arms the checkpoint's timer, whatever its state, and the
\* first transmission of the end of the block is announced to the client.  A
\* checkpoint that outlived its session has no entry left in the list.
DequeueCheckpoint(seg) ==
    LET entry == {c \in ckpts[seg.session] : c.seg = seg}
    IN  /\ IsCkpt(seg)
        /\ ckpts' = [ckpts EXCEPT ![seg.session] =
                        (@ \ entry) \cup {[c EXCEPT !.armed = TRUE] : c \in entry}]
        /\ expTimeline' =
                expTimeline \cup {ResendCheckpointEvent(seg.session, seg.ckpt)}
        /\ IF seg.type = "DsRedEOB" /\ \E c \in entry : c.count = 0
           THEN Notify(seg.session, "XmitComplete")
           ELSE UNCHANGED expNotices
        /\ UNCHANGED <<expState, lastCkpt, rsSerialNbrs, claims, stateFlags,
                       cancelTimeouts, closedExports>>

\* Faulty variant: the session is closed whether acknowledged or not.
DequeueGreenEOBHasty(seg) ==
    LET s == seg.session
    IN  /\ seg.type = "DsGreenEOB"
        /\ expState[s] = "open"
        /\ LeaveExportSessions(s, "closed")
        /\ expNotices' = [expNotices EXCEPT ![s] =
                              @ \o <<"XmitComplete", "ExportSessionComplete">>]
        /\ UNCHANGED <<cancelTimeouts, closedExports, expTimeline>>

\* The last green segment: the session is closed now if its red part, if
\* any, is already acknowledged.  Nothing here stops the session, so its
\* checkpoints stay in the queue and in the timeline.
DequeueGreenEOB(seg) ==
    LET s == seg.session
        finished == RedLen(s) = 0 \/ "FINAL_ACK" \in stateFlags[s]
    IN  /\ seg.type = "DsGreenEOB"
        /\ UNCHANGED <<cancelTimeouts, closedExports, expTimeline>>
        /\ \/ /\ expState[s] = "open"
              /\ finished
              /\ LeaveExportSessions(s, "closed")
              /\ expNotices' = [expNotices EXCEPT ![s] =
                                    @ \o <<"XmitComplete", "ExportSessionComplete">>]
           \/ /\ expState[s] = "open"
              /\ ~finished
              /\ stateFlags' = [stateFlags EXCEPT ![s] = @ \cup {"EOB_SENT"}]
              /\ Notify(s, "XmitComplete")
              /\ UNCHANGED <<expState, ckpts, lastCkpt, rsSerialNbrs, claims>>

DequeueCS(seg) ==
    /\ seg.type = "CS"
    /\ expTimeline' = IF expState[seg.session] = "dead"
                      THEN expTimeline \cup {ResendXmitCancelEvent(seg.session)}
                      ELSE expTimeline
    /\ UNCHANGED <<expSessionVars, cancelTimeouts, closedExports, expNotices>>

DequeueExport(seg) ==
    /\ expQueue # <<>>
    /\ seg = Head(expQueue)
    /\ expQueue' = Tail(expQueue)
    /\ \/ DequeuePlain(seg)
       \/ DequeueCheckpoint(seg)
       \/ DequeueGreenEOB(seg)
       \/ DequeueCS(seg)

(***************************************************************************)
(* handleRS.                                                               *)
(***************************************************************************)
\* getSessionContext finds no live session.  acknowledgeLateReport sends an
\* RA if the session is listed among the closed ones, a limited number of
\* times.
LateReport(rs) ==
    LET s == rs.session
        left == closedExports[s] - 1
    IN  /\ expState[s] # "open"
        /\ closedExports[s] # NotListed
        /\ expQueue' = EnqueueAck(expQueue, RA(s, rs.rpt))
        /\ closedExports' = [closedExports EXCEPT ![s] =
                                IF left < 1 THEN NotListed ELSE left]
        /\ UNCHANGED <<expSessionVars, cancelTimeouts, expTimeline, expNotices>>

StrayReport(rs) ==
    /\ expState[rs.session] # "open"
    /\ closedExports[rs.session] = NotListed
    /\ UNCHANGED expVars

AckedQueue(rs) == EnqueueAck(expQueue, RA(rs.session, rs.rpt))
CitedCkpt(rs)  == {c \in ckpts[rs.session] : c.seg.ckpt = rs.ckpt}
IsNewReport(rs) ==
    /\ expState[rs.session] = "open"
    /\ rs.rpt \notin rsSerialNbrs[rs.session]
    /\ CitedCkpt(rs) # {}

\* A report already applied, or one that cites no known checkpoint, is
\* acknowledged and not applied.
IgnoredReport(rs) ==
    /\ expState[rs.session] = "open"
    /\ rs.rpt \in rsSerialNbrs[rs.session] \/ CitedCkpt(rs) = {}
    /\ rsSerialNbrs' = [rsSerialNbrs EXCEPT ![rs.session] = @ \cup {rs.rpt}]
    /\ expQueue' = AckedQueue(rs)
    /\ UNCHANGED <<expState, ckpts, lastCkpt, claims, stateFlags,
                   cancelTimeouts, closedExports, expTimeline, expNotices>>

\* The old and the new claims together.
MergedClaims(rs) == claims[rs.session] \cup rs.claims
\* The cited checkpoint is deactivated: segArrivalTime = 0.
Deactivated(rs) ==
    (ckpts[rs.session] \ CitedCkpt(rs))
        \cup {[c EXCEPT !.armed = FALSE] : c \in CitedCkpt(rs)}

\* Faulty variant: a report that claims all but one unit is taken for the last.
AllClaimedButOne(rs)  == Cardinality(MergedClaims(rs)) >= RedLen(rs.session) - 1

AllClaimed(rs) == MergedClaims(rs) = RedUnits(rs.session)

\* Faulty variant: the green part is not waited for.
FinalReportAnytime(rs) ==
    LET s == rs.session
    IN  /\ IsNewReport(rs)
        /\ AllClaimed(rs)
        /\ LeaveExportSessions(s, "closed")
        /\ Notify(s, "ExportSessionComplete")
        /\ closedExports' = [closedExports EXCEPT ![s] = MaxTimeouts]
        /\ expQueue' = StoppedQueue(AckedQueue(rs), s)
        /\ expTimeline' = StoppedTimeline(s) \cup {ForgetExportEvent(s)}
        /\ UNCHANGED cancelTimeouts

\* All red data are claimed and nothing is left to send: the session ends,
\* and is remembered as closed until the ForgetExportSession event.
FinalReport(rs) ==
    LET s == rs.session
    IN  /\ IsNewReport(rs)
        /\ AllClaimed(rs)
        /\ RedLen(s) = Block[s].total \/ "EOB_SENT" \in stateFlags[s]
        /\ LeaveExportSessions(s, "closed")
        /\ Notify(s, "ExportSessionComplete")
        /\ closedExports' = [closedExports EXCEPT ![s] = MaxTimeouts]
        /\ expQueue' = StoppedQueue(AckedQueue(rs), s)
        /\ expTimeline' = StoppedTimeline(s) \cup {ForgetExportEvent(s)}
        /\ UNCHANGED cancelTimeouts

\* All red data are claimed, but the green part is not all sent.  The claims
\* have left the database and are not put back.
FinalReportBeforeEOB(rs) ==
    LET s == rs.session
    IN  /\ IsNewReport(rs)
        /\ AllClaimed(rs)
        /\ RedLen(s) # Block[s].total /\ "EOB_SENT" \notin stateFlags[s]
        /\ rsSerialNbrs' = [rsSerialNbrs EXCEPT ![s] = @ \cup {rs.rpt}]
        /\ ckpts' = [ckpts EXCEPT ![s] = Deactivated(rs)]
        /\ claims' = [claims EXCEPT ![s] = {}]
        /\ stateFlags' = [stateFlags EXCEPT ![s] = @ \cup {"FINAL_ACK"}]
        /\ expQueue' = AckedQueue(rs)
        /\ UNCHANGED <<expState, lastCkpt, cancelTimeouts, closedExports,
                       expTimeline, expNotices>>

\* Red data are missing, but the session may not issue another checkpoint.
NegativeReportAtLimit(rs) ==
    LET s == rs.session
    IN  /\ IsNewReport(rs)
        /\ ~AllClaimed(rs)
        /\ Cardinality(ckpts[s]) >= MaxCheckpoints
        /\ CancelSessionBySender(s, AckedQueue(rs), expTimeline)

\* Red data are missing: retransmit what the report's scope lacks.
NegativeReport(rs) ==
    LET s == rs.session
        missing == Units(rs) \ MergedClaims(rs)
        resent == RedSegmentsFor(s, missing, rs.rpt, lastCkpt[s] + 1)
        new == {seg \in resent : IsCkpt(seg)}
    IN  /\ IsNewReport(rs)
        /\ ~AllClaimed(rs)
        /\ Cardinality(ckpts[s]) < MaxCheckpoints
        /\ rsSerialNbrs' = [rsSerialNbrs EXCEPT ![s] = @ \cup {rs.rpt}]
        /\ ckpts' = [ckpts EXCEPT ![s] =
                        Deactivated(rs) \cup {NewCkpt(seg) : seg \in new}]
        /\ lastCkpt' = [lastCkpt EXCEPT ![s] = IF new = {} THEN @ ELSE @ + 1]
        /\ claims' = [claims EXCEPT ![s] = MergedClaims(rs)]
        /\ expQueue' = EnqueueAll(AckedQueue(rs), resent)
        /\ UNCHANGED <<expState, stateFlags, cancelTimeouts, closedExports,
                       expTimeline, expNotices>>

HandleRS(rs) ==
    \/ LateReport(rs)
    \/ StrayReport(rs)
    \/ IgnoredReport(rs)
    \/ FinalReport(rs)
    \/ FinalReportBeforeEOB(rs)
    \/ NegativeReportAtLimit(rs)
    \/ NegativeReport(rs)

(***************************************************************************)
(* handleCAS: a canceled session is no longer in the hash of sessions, so  *)
(* it has no context; only its retransmission event is cancelled.          *)
(***************************************************************************)
HandleCAS(s) ==
    /\ expTimeline' = IF expState[s] = "open" THEN expTimeline
                      ELSE expTimeline \ {ResendXmitCancelEvent(s)}
    /\ UNCHANGED <<expSessionVars, cancelTimeouts, closedExports, expQueue,
                   expNotices>>

\* Faulty variant of HandleCR: any session in the hash or in closedExports.
HandleCRUnguarded(s) ==
    /\ expState[s] # "idle"
    /\ LeaveExportSessions(s, "closed")
    /\ Notify(s, "ExportSessionCanceled")
    /\ expQueue' = StoppedQueue(EnqueueAck(expQueue, Cancel("CAR", s)), s)
    /\ expTimeline' = StoppedTimeline(s)
    /\ UNCHANGED <<cancelTimeouts, closedExports>>

(***************************************************************************)
(* handleCR: the receiver cancels.  A live session is stopped and closed;  *)
(* for any other the segment is not even acknowledged.                     *)
(***************************************************************************)
HandleCR(s) ==
    \/ /\ expState[s] = "open"
       /\ LeaveExportSessions(s, "closed")
       /\ Notify(s, "ExportSessionCanceled")
       /\ expQueue' = StoppedQueue(EnqueueAck(expQueue, Cancel("CAR", s)), s)
       /\ expTimeline' = StoppedTimeline(s)
       /\ UNCHANGED <<cancelTimeouts, closedExports>>
    \/ /\ expState[s] # "open"
       /\ UNCHANGED expVars

(***************************************************************************)
(* Timeline events, dispatched by ltpclock.                                *)
(***************************************************************************)
\* Faulty variants of ResendCheckpoint: the event stays on the timeline; the
\* retries are not limited.
ResendCheckpointTwice(s, k) ==
    LET entry == {c \in ckpts[s] : c.seg.ckpt = k}
    IN  /\ ResendCheckpointEvent(s, k) \in expTimeline
        /\ \E c \in entry :
              /\ c.armed
              /\ c.count < MaxTimeouts
              /\ ckpts' = [ckpts EXCEPT ![s] =
                    (@ \ entry) \cup {[c EXCEPT !.count = @ + 1]}]
              /\ expQueue' = Append(expQueue, c.seg)
        /\ UNCHANGED <<expState, lastCkpt, rsSerialNbrs, claims, stateFlags,
                       cancelTimeouts, closedExports, expTimeline, expNotices>>

ResendCheckpointForever(s, k) ==
    /\ ResendCheckpointEvent(s, k) \in expTimeline
    /\ expTimeline' = expTimeline \ {ResendCheckpointEvent(s, k)}
    /\ \E c \in ckpts[s] :
          c.seg.ckpt = k /\ c.armed /\ expQueue' = Append(expQueue, c.seg)
    /\ UNCHANGED <<expSessionVars, cancelTimeouts, closedExports, expNotices>>

\* ltpResendCheckpoint.
ResendCheckpoint(s, k) ==
    LET event == ResendCheckpointEvent(s, k)
        entry == {c \in ckpts[s] : c.seg.ckpt = k}
        isLive == expState[s] = "open" /\ \E c \in entry : c.armed
    IN  /\ event \in expTimeline
        /\ \/ /\ ~isLive             \* Gone, or already acknowledged.
              /\ expTimeline' = expTimeline \ {event}
              /\ UNCHANGED <<expSessionVars, cancelTimeouts, closedExports,
                             expQueue, expNotices>>
           \/ /\ isLive
              /\ \E c \in entry : c.count = MaxTimeouts
              /\ CancelSessionBySender(s, expQueue, expTimeline \ {event})
           \/ /\ isLive
              /\ \E c \in entry :
                    /\ c.count < MaxTimeouts
                    /\ ckpts' = [ckpts EXCEPT ![s] =
                          (@ \ entry) \cup {[c EXCEPT !.count = @ + 1]}]
                    /\ expQueue' = Append(expQueue, c.seg)
              /\ expTimeline' = expTimeline \ {event}
              /\ UNCHANGED <<expState, lastCkpt, rsSerialNbrs, claims,
                             stateFlags, cancelTimeouts, closedExports,
                             expNotices>>

\* Faulty variant: the retries of the cancellation are not limited.
ResendXmitCancelForever(s) ==
    /\ ResendXmitCancelEvent(s) \in expTimeline
    /\ expState[s] = "dead"
    /\ expTimeline' = expTimeline \ {ResendXmitCancelEvent(s)}
    /\ cancelTimeouts' = [cancelTimeouts EXCEPT ![s] = @ + 1]
    /\ expQueue' = Append(expQueue, Cancel("CS", s))
    /\ UNCHANGED <<expSessionVars, closedExports, expNotices>>

\* ltpResendXmitCancel: ask again, or give up and drop the dead session.
ResendXmitCancel(s) ==
    LET isDead == expState[s] = "dead"
        giveUp == isDead /\ cancelTimeouts[s] = MaxTimeouts
    IN  /\ ResendXmitCancelEvent(s) \in expTimeline
        /\ expTimeline' = expTimeline \ {ResendXmitCancelEvent(s)}
        /\ expState' = IF giveUp THEN [expState EXCEPT ![s] = "closed"]
                       ELSE expState
        /\ IF isDead /\ ~giveUp
           THEN /\ cancelTimeouts' = [cancelTimeouts EXCEPT ![s] = @ + 1]
                /\ expQueue' = Append(expQueue, Cancel("CS", s))
           ELSE UNCHANGED <<cancelTimeouts, expQueue>>
        /\ UNCHANGED <<ckpts, lastCkpt, rsSerialNbrs, claims, stateFlags,
                       closedExports, expNotices>>

\* ltpForgetClosedExport deletes the list element that the event points to.
\* When acknowledgeLateReport has already freed that element, its space may be
\* unused or hold any other session's entry: one of these is deleted instead.
ForgetExportSession(s) ==
    /\ ForgetExportEvent(s) \in expTimeline
    /\ expTimeline' = expTimeline \ {ForgetExportEvent(s)}
    /\ \E t \in IF closedExports[s] # NotListed THEN {s} ELSE Sessions :
          closedExports' = [closedExports EXCEPT ![t] = NotListed]
    /\ UNCHANGED <<expSessionVars, cancelTimeouts, expQueue, expNotices>>

=============================================================================
