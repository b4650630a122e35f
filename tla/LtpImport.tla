----------------------------- MODULE LtpImport -----------------------------
(***************************************************************************)
(* The receiving half of an LTP engine (libltpP.c): the import sessions of *)
(* one span.  Each action is one SDR transaction of the code: the handling *)
(* of one inbound segment, the transmission of one segment, or one event   *)
(* of the LTP timeline.                                                    *)
(***************************************************************************)
EXTENDS LtpSegments

CONSTANTS
    MaxImportSessions,  \* LtpSpan.maxImportSessions
    Faults              \* which of FaultKinds the environment may show

\* What the handling of a data segment may meet at any moment: the client
\* service is not attached (pid == ERROR), sdr_heap_depleted, or no inbound
\* ZCO space for the delivery.
FaultKinds == {"detached", "heap", "zco"}

ASSUME ImportAssumption ==
    /\ MaxImportSessions \in Nat \ {0}
    /\ Faults \subseteq FaultKinds

VARIABLES
    impState,        \* in importSessions, in deadImports, or in neither
    imports,         \* the ImportSession objects of the open sessions
    cancelResends,   \* ImportSession.timer.expirationCount of a dead session
    closedImports,   \* LtpSpan.closedImports
    lastRed,         \* LtpVspan.redSessionNbr and endOfRed
    lastGreen,       \* LtpVspan.greenSessionNbr and startOfGreen
    impQueue,        \* LtpSpan.segments of the receiving engine
    impTimeline,     \* the receiving engine's events in LtpDB.timeline
    impNotices       \* the notices about the session given to the client

impSessionVars == <<impState, imports>>
impVars == <<impSessionVars, cancelResends, closedImports, lastRed, lastGreen,
             impQueue, impTimeline, impNotices>>

ReportEntries == [seg : ReportSegments, armed : BOOLEAN, count : 0 .. MaxTimeouts]
NewReport(rs) == [seg |-> rs, armed |-> FALSE, count |-> 0]

\* "units" is what redSegments holds; "delivered" is redSegments = 0.
ImportSessionType ==
    [units : SUBSET Nat, redPartReceived : Nat, redPartLength : Nat,
     delivered : BOOLEAN, reports : SUBSET ReportEntries, nextRpt : Nat,
     reportsCount : Nat, lastRpt : Nat]

EmptySession ==
    [units |-> {}, redPartReceived |-> 0, redPartLength |-> 0,
     delivered |-> FALSE, reports |-> {}, nextRpt |-> 0,
     reportsCount |-> 0, lastRpt |-> 0]

ResendReportEvent(s, r)  == <<"LtpResendReport", s, r>>
ResendRecvCancelEvent(s) == <<"LtpResendRecvCancel", s, 0>>
ForgetImportEvent(s)     == <<"LtpForgetImportSession", s, 0>>

ReportEvents(s) == {ResendReportEvent(s, r.seg.rpt) : r \in imports[s].reports}

ImpInit ==
    /\ impState      = [s \in Sessions |-> "none"]
    /\ imports       = [s \in Sessions |-> EmptySession]
    /\ cancelResends = [s \in Sessions |-> 0]
    /\ closedImports = {}
    /\ lastRed       = [session |-> 0, end |-> 0]
    /\ lastGreen     = [session |-> 0, start |-> 0]
    /\ impQueue      = <<>>
    /\ impTimeline   = {}
    /\ impNotices    = [s \in Sessions |-> <<>>]

NotifyImport(s, kind) == impNotices' = [impNotices EXCEPT ![s] = Append(@, kind)]

(***************************************************************************)
(* The ways out of importSessions.                                         *)
(***************************************************************************)
\* stopImportSession: the session's reports leave the queue and the timeline.
StoppedImpQueue(queue, s) == Purge(queue, s, {"RS"})
StoppedImpTimeline(s)     == impTimeline \ ReportEvents(s)

LeaveImportSessions(s, newState) ==
    /\ impState' = [impState EXCEPT ![s] = newState]
    /\ imports'  = [imports EXCEPT ![s] = EmptySession]

\* closeImportSession after stopImportSession, with noteClosedImport: red
\* segments of the session are refused until the ForgetImportSession event.
CloseImportSession(s, queue) ==
    /\ LeaveImportSessions(s, "none")
    /\ closedImports' = closedImports \cup {s}
    /\ impQueue' = StoppedImpQueue(queue, s)
    /\ impTimeline' = StoppedImpTimeline(s) \cup {ForgetImportEvent(s)}

\* cancelSessionByReceiver.
CancelSessionByReceiver(s) ==
    /\ LeaveImportSessions(s, "dead")
    /\ NotifyImport(s, "ImportSessionCanceled")
    /\ impQueue' = Append(StoppedImpQueue(impQueue, s), Cancel("CR", s))
    /\ impTimeline' = StoppedImpTimeline(s)
    /\ cancelResends' = [cancelResends EXCEPT ![s] = 0]
    /\ UNCHANGED closedImports

(***************************************************************************)
(* Reports.                                                                *)
(***************************************************************************)
\* sendLastReport: one claim for the whole red part.
LastReport(s, session, ckpt) ==
    [type |-> "RS", session |-> s, lo |-> 0, hi |-> session.redPartLength,
     ckpt |-> ckpt, rpt |-> session.nextRpt + 1,
     claims |-> 0 .. session.redPartLength - 1]

\* The lower bound of the report that a checkpoint cites (findReport).
CitedLowerBound(session, rpt) ==
    IF \E r \in session.reports : r.seg.rpt = rpt
    THEN (CHOOSE r \in session.reports : r.seg.rpt = rpt).seg.lo
    ELSE 0

\* Faulty variant of PartialReports: each report claims all of its scope.
PartialReportsUngapped(s, session, ckptSeg) ==
    LET within == session.units \cap (0 .. ckptSeg.hi - 1)
        cuts == {0, ckptSeg.hi} \cup {r[1] : r \in Runs(within, ckptSeg.hi)}
    IN  {[type |-> "RS", session |-> s, lo |-> p[1], hi |-> p[2],
          ckpt |-> ckptSeg.ckpt,
          rpt |-> session.nextRpt + Cardinality({c \in cuts : c <= p[1]}),
          claims |-> p[1] .. p[2] - 1] : p \in Pieces(cuts)}

\* sendReport, when red data are missing: the runs of units received within
\* the scope are the claims, in a row of RSs of at most MaxClaims claims each;
\* an RS ends where the first claim of the next one starts.
PartialReports(s, session, ckptSeg) ==
    LET lower  == CitedLowerBound(session, ckptSeg.rpt)
        upper  == ckptSeg.hi
        within == session.units \cap (lower .. upper - 1)
        starts == {r[1] : r \in Runs(within, upper)}
        rank(x) == Cardinality({y \in starts : y <= x})
        cuts == {lower, upper} \cup
                {x \in starts : rank(x) > 1 /\ (rank(x) - 1) % MaxClaims = 0}
    IN  {[type |-> "RS", session |-> s, lo |-> p[1], hi |-> p[2],
          ckpt |-> ckptSeg.ckpt,
          rpt |-> session.nextRpt + Cardinality({c \in cuts : c <= p[1]}),
          claims |-> within \cap (p[1] .. p[2] - 1)] : p \in Pieces(cuts)}

WithReports(session, rss) ==
    [session EXCEPT !.reports = @ \cup {NewReport(rs) : rs \in rss},
                    !.nextRpt = @ + Cardinality(rss),
                    !.reportsCount = @ + 1]

(***************************************************************************)
(* handleDataSegment.                                                      *)
(***************************************************************************)
IsMiscolored(seg) ==
    IF IsRed(seg)
    THEN seg.session = lastGreen.session /\ seg.hi > lastGreen.start
    ELSE seg.session = lastRed.session /\ seg.lo < lastRed.end

\* Faulty variant: closed sessions are not looked up.
IsLateNever(seg) == FALSE

IsLate(seg) == IsRed(seg) /\ seg.session \in closedImports

\* A red segment of a session already closed (sessionIsClosed).
LateSegment(seg) ==
    /\ IsLate(seg)
    /\ UNCHANGED impVars

\* No client to deliver to, or red and green out of order: cancel.
RejectedSegment(seg, fault) ==
    /\ ~IsLate(seg)
    /\ fault = "detached" \/ IsMiscolored(seg)
    /\ UNCHANGED <<lastRed, lastGreen>>
    /\ \/ /\ impState[seg.session] = "open"
          /\ CancelSessionByReceiver(seg.session)
       \/ /\ impState[seg.session] # "open"
          /\ impQueue' = Append(impQueue, BareCR(seg.session))
          /\ UNCHANGED <<impSessionVars, cancelResends, closedImports,
                         impTimeline, impNotices>>

\* Faulty variant: a mark is taken for that of this session whenever there is one.
GreenSegmentAnyMark(seg, fault) ==
    /\ ~IsRed(seg)
    /\ fault # "detached" /\ ~IsMiscolored(seg)
    /\ lastGreen' =
          IF lastGreen.session = 0
          THEN [session |-> seg.session, start |-> seg.lo]
          ELSE [lastGreen EXCEPT !.start = IF @ < seg.lo THEN @ ELSE seg.lo]
    /\ UNCHANGED <<impSessionVars, cancelResends, closedImports, lastRed,
                   impQueue, impTimeline, impNotices>>

\* handleGreenDataSegment: handed to the client at once and not remembered.
GreenSegment(seg, fault) ==
    /\ ~IsRed(seg)
    /\ fault # "detached" /\ ~IsMiscolored(seg)
    /\ lastGreen' =
          [session |-> seg.session,
           start |-> IF seg.session = lastGreen.session /\ lastGreen.start < seg.lo
                     THEN lastGreen.start ELSE seg.lo]
    /\ UNCHANGED <<impSessionVars, cancelResends, closedImports, lastRed,
                   impQueue, impTimeline, impNotices>>

(***************************************************************************)
(* Red segments: acceptRedContent and what follows it.                     *)
(***************************************************************************)
NoteRed(seg) ==
    lastRed' = [session |-> seg.session,
                end |-> IF seg.session = lastRed.session /\ lastRed.end > seg.hi
                        THEN lastRed.end ELSE seg.hi]

RedUsable(seg, fault) ==
    /\ IsRed(seg) /\ ~IsLate(seg)
    /\ fault # "detached" /\ ~IsMiscolored(seg)

OpenSessions == {s \in Sessions : impState[s] = "open"}

\* There is, or can be, a session still collecting red data.
HasSession(s) ==
    \/ impState[s] = "open" /\ ~imports[s].delivered
    \/ impState[s] = "none" /\ Cardinality(OpenSessions) < MaxImportSessions

\* insertDataSegment stores the segment only if it overlaps none it has, is
\* not beyond the end of the red part, and there is heap for it.
IsInsertable(seg, session, fault) ==
    /\ session.redPartLength = 0 \/ seg.hi <= session.redPartLength
    /\ Units(seg) \cap session.units = {}
    /\ fault # "heap"

Stored(seg, session) ==
    [session EXCEPT
        !.units = @ \cup Units(seg),
        !.redPartReceived = @ + Cardinality(Units(seg)),
        !.redPartLength = IF seg.type \in {"DsRedEORP", "DsRedEOB"}
                          THEN seg.hi ELSE @]

IsComplete(session) ==
    session.redPartLength > 0 /\ session.redPartReceived = session.redPartLength

ReportLimit(session) == IF session.redPartLength = 0 THEN 0 ELSE MaxReports

\* The block is already delivered, its session is canceled, or no further
\* session may be started.
UselessRedSegment(seg, fault) ==
    /\ RedUsable(seg, fault)
    /\ ~HasSession(seg.session)
    /\ NoteRed(seg)
    /\ UNCHANGED <<impSessionVars, cancelResends, closedImports, lastGreen,
                   impQueue, impTimeline, impNotices>>

\* A segment that can't be inserted is discarded, checkpoint or not; but the
\* session it started is there to stay.
DiscardedRedSegment(seg, fault) ==
    /\ RedUsable(seg, fault)
    /\ HasSession(seg.session)
    /\ ~IsInsertable(seg, imports[seg.session], fault)
    /\ NoteRed(seg)
    /\ impState' = [impState EXCEPT ![seg.session] = "open"]
    /\ UNCHANGED <<imports, cancelResends, closedImports, lastGreen, impQueue,
                   impTimeline, impNotices>>

AcceptedRedSegment(seg, fault) ==
    LET s == seg.session
        session == Stored(seg, imports[s])
        last == LastReport(s, session, seg.ckpt)
        rss == PartialReports(s, session, seg)
    IN  /\ RedUsable(seg, fault)
        /\ HasSession(s)
        /\ IsInsertable(seg, imports[s], fault)
        /\ NoteRed(seg)
        /\ UNCHANGED lastGreen
        /\ \/ /\ ~IsCkpt(seg)
              /\ impState' = [impState EXCEPT ![s] = "open"]
              /\ imports' = [imports EXCEPT ![s] = session]
              /\ UNCHANGED <<cancelResends, closedImports, impQueue,
                             impTimeline, impNotices>>
           \/ \* The red part is complete: final report, and delivery.
              /\ IsCkpt(seg)
              /\ IsComplete(session)
              /\ fault # "zco"
              /\ impState' = [impState EXCEPT ![s] = "open"]
              /\ imports' = [imports EXCEPT ![s] =
                    [WithReports(session, {last}) EXCEPT !.lastRpt = last.rpt,
                                                         !.delivered = TRUE]]
              /\ impQueue' = EnqueueAck(impQueue, last)
              /\ NotifyImport(s, "RecvRedPart")
              /\ UNCHANGED <<cancelResends, closedImports, impTimeline>>
           \/ \* Complete, but it can't be delivered; or too many reports.
              /\ IsCkpt(seg)
              /\ IF IsComplete(session) THEN fault = "zco"
                 ELSE session.reportsCount >= ReportLimit(session)
              /\ CancelSessionByReceiver(s)
           \/ /\ IsCkpt(seg)
              /\ ~IsComplete(session)
              /\ session.reportsCount < ReportLimit(session)
              /\ impState' = [impState EXCEPT ![s] = "open"]
              /\ imports' = [imports EXCEPT ![s] = WithReports(session, rss)]
              /\ impQueue' = EnqueueAcks(impQueue, InOrder(rss))
              /\ UNCHANGED <<cancelResends, closedImports, impTimeline,
                             impNotices>>

HandleDataSegment(seg) ==
    \E fault \in Faults \cup {"none"} :
        \/ LateSegment(seg) /\ fault = "none"
        \/ RejectedSegment(seg, fault)
        \/ GreenSegment(seg, fault)
        \/ UselessRedSegment(seg, fault)
        \/ DiscardedRedSegment(seg, fault)
        \/ AcceptedRedSegment(seg, fault)

(***************************************************************************)
(* handleRA, handleCS, handleCAR.                                          *)
(***************************************************************************)
HandleRA(ra) ==
    LET s == ra.session
        entry == {r \in imports[s].reports : r.seg.rpt = ra.rpt}
    IN  \/ /\ impState[s] # "open" \/ entry = {}
           /\ UNCHANGED impVars
        \/ /\ impState[s] = "open"
           /\ entry # {}
           /\ ra.rpt = imports[s].lastRpt
           /\ CloseImportSession(s, impQueue)
           /\ UNCHANGED <<cancelResends, lastRed, lastGreen, impNotices>>
        \/ /\ impState[s] = "open"
           /\ entry # {}
           /\ ra.rpt # imports[s].lastRpt
           /\ imports' = [imports EXCEPT ![s].reports =
                  (@ \ entry) \cup {[r EXCEPT !.armed = FALSE] : r \in entry}]
           /\ UNCHANGED <<impState, cancelResends, closedImports, lastRed,
                          lastGreen, impQueue, impTimeline, impNotices>>

HandleCS(s) ==
    LET acked == EnqueueAck(impQueue, Cancel("CAS", s))
    IN  /\ UNCHANGED <<cancelResends, lastRed, lastGreen>>
        /\ \/ /\ impState[s] # "open"
              /\ impQueue' = acked
              /\ UNCHANGED <<impSessionVars, closedImports, impTimeline,
                             impNotices>>
           \/ /\ impState[s] = "open"
              /\ NotifyImport(s, "ImportSessionCanceled")
              /\ CloseImportSession(s, acked)

HandleCAR(s) ==
    /\ UNCHANGED <<imports, cancelResends, lastRed, lastGreen, impQueue,
                   impNotices>>
    /\ \/ /\ impState[s] # "dead"
          /\ UNCHANGED <<impState, closedImports, impTimeline>>
       \/ /\ impState[s] = "dead"
          /\ impState' = [impState EXCEPT ![s] = "none"]
          /\ closedImports' = closedImports \cup {s}
          /\ impTimeline' = (impTimeline \ {ResendRecvCancelEvent(s)})
                                \cup {ForgetImportEvent(s)}

(***************************************************************************)
(* ltpDequeueOutboundSegment at the receiving engine.                      *)
(***************************************************************************)
DequeueReport(seg) ==
    LET s == seg.session
        entry == {r \in imports[s].reports : r.seg = seg}
    IN  /\ seg.type = "RS"
        /\ imports' = [imports EXCEPT ![s].reports =
                (@ \ entry) \cup {[r EXCEPT !.armed = TRUE] : r \in entry}]
        /\ impTimeline' = impTimeline \cup {ResendReportEvent(s, seg.rpt)}

\* Faulty variant: no timer is set for the cancellation.
DequeueCRUntimed(seg) == seg.type = "CR" /\ UNCHANGED <<imports, impTimeline>>

DequeueCR(seg) ==
    /\ seg.type = "CR"
    /\ impTimeline' = IF ~seg.bare /\ impState[seg.session] = "dead"
                      THEN impTimeline \cup {ResendRecvCancelEvent(seg.session)}
                      ELSE impTimeline
    /\ UNCHANGED imports

DequeueCAS(seg) == seg.type = "CAS" /\ UNCHANGED <<imports, impTimeline>>

DequeueImport(seg) ==
    /\ impQueue # <<>>
    /\ seg = Head(impQueue)
    /\ impQueue' = Tail(impQueue)
    /\ UNCHANGED <<impState, cancelResends, closedImports, lastRed, lastGreen,
                   impNotices>>
    /\ DequeueReport(seg) \/ DequeueCR(seg) \/ DequeueCAS(seg)

(***************************************************************************)
(* Timeline events.                                                        *)
(***************************************************************************)
\* ltpResendReport.
ResendReport(s, k) ==
    LET event == ResendReportEvent(s, k)
        entry == {r \in imports[s].reports : r.seg.rpt = k}
        isLive == impState[s] = "open" /\ \E r \in entry : r.armed
    IN  /\ event \in impTimeline
        /\ UNCHANGED <<lastRed, lastGreen>>
        /\ \/ /\ ~isLive             \* Gone, or already acknowledged.
              /\ impTimeline' = impTimeline \ {event}
              /\ UNCHANGED <<impSessionVars, cancelResends, closedImports,
                             impQueue, impNotices>>
           \/ /\ isLive
              /\ \E r \in entry : r.count = MaxTimeouts
              /\ CancelSessionByReceiver(s)
           \/ /\ isLive
              /\ \E r \in entry :
                    /\ r.count < MaxTimeouts
                    /\ imports' = [imports EXCEPT ![s].reports =
                          (@ \ entry) \cup {[r EXCEPT !.count = @ + 1]}]
                    /\ impQueue' = Append(impQueue, r.seg)
              /\ impTimeline' = impTimeline \ {event}
              /\ UNCHANGED <<impState, cancelResends, closedImports,
                             impNotices>>

\* ltpResendRecvCancel: ask again, or give up and note the session closed.
ResendRecvCancel(s) ==
    LET event == ResendRecvCancelEvent(s)
        isDead == impState[s] = "dead"
        giveUp == isDead /\ cancelResends[s] = MaxTimeouts
    IN  /\ event \in impTimeline
        /\ IF giveUp
           THEN /\ impState' = [impState EXCEPT ![s] = "none"]
                /\ closedImports' = closedImports \cup {s}
                /\ impTimeline' = (impTimeline \ {event})
                                      \cup {ForgetImportEvent(s)}
           ELSE /\ impTimeline' = impTimeline \ {event}
                /\ UNCHANGED <<impState, closedImports>>
        /\ IF isDead /\ ~giveUp
           THEN /\ cancelResends' = [cancelResends EXCEPT ![s] = @ + 1]
                /\ impQueue' = Append(impQueue, Cancel("CR", s))
           ELSE UNCHANGED <<cancelResends, impQueue>>
        /\ UNCHANGED <<imports, lastRed, lastGreen, impNotices>>

\* The LtpForgetImportSession event.
ForgetImportSession(s) ==
    /\ ForgetImportEvent(s) \in impTimeline
    /\ impTimeline' = impTimeline \ {ForgetImportEvent(s)}
    /\ closedImports' = closedImports \ {s}
    /\ UNCHANGED <<impSessionVars, cancelResends, lastRed, lastGreen,
                   impQueue, impNotices>>

=============================================================================
