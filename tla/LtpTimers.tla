----------------------------- MODULE LtpTimers ------------------------------
(* The timers of one span: when they are set, how ltpclock suspends and     *)
(* resumes them as the neighbor stops and starts transmitting, and what     *)
(* their expiration does.  LtpExport and LtpImport say what is sent; here a  *)
(* signal is anything that is sent again until it is answered, and time is   *)
(* counted in the seconds that ltpclock counts.                              *)
EXTENDS Integers, Sequences, FiniteSets, FiniteSetsExt, SequencesExt

CONSTANTS
    Signals,
    Kind,               \* checkpoint, report, xmitCancel or recvCancel
    OutboundDelay,      \* from the end of queueing to the arrival of a signal
    RemoteQtime,        \* from there to the start of the answer
    ReturnDelay,        \* from there to the arrival of the answer
    MaxTimeouts,
    MaxTime             \* bound

Kinds == {"checkpoint", "report", "xmitCancel", "recvCancel"}

ASSUME TimersAssumption ==
    /\ Kind \in [Signals -> Kinds]
    /\ OutboundDelay \in Nat /\ RemoteQtime \in Nat /\ ReturnDelay \in Nat
    /\ MaxTimeouts \in Nat /\ MaxTime \in Nat

VARIABLES
    now,        \* the time
    clock,      \* what ltpclock is doing
    vspan,      \* the rates that ltpclock has last seen, or that there are none
    status,     \* of the object that holds the timer
    queued,     \* the number of copies in the queue of segments
    timer,
    timeline,   \* the times of the events of a signal, in order
    open        \* history: when ltpclock saw the neighbor transmit; of what
                \* is older than ReturnDelay, the last time

vars == <<now, clock, vspan, status, queued, timer, timeline, open>>

Segments == {s \in Signals : Kind[s] \in {"checkpoint", "report"}}
Cancels  == Signals \ Segments

Rates == [xmit : BOOLEAN, fire : BOOLEAN]

TypeOK ==
    /\ now \in 0..MaxTime
    /\ clock \in {"sleeping", "managing", "dispatching"}
    /\ vspan \in Rates
    /\ status \in [Signals -> {"none", "live", "answered", "gone"}]
    /\ queued \in [Signals -> Nat]
    /\ timer \in [Signals -> [arrival : Nat, deadline : Int,
                              expirations : 0..MaxTimeouts, suspended : BOOLEAN]]
    /\ timeline \in [Signals -> Seq(Int)]
    /\ open \subseteq 0..MaxTime

-----------------------------------------------------------------------------
\* insertLtpTimelineEvent: after the last event that is not later.
WithEvent(events, time) ==
    LET sooner == {i \in DOMAIN events : events[i] <= time}
    IN  InsertAt(events, (IF sooner = {} THEN 0 ELSE Max(sooner)) + 1, time)

\* cancelEvent: the first event of the signal.
WithoutEvent(events) == IF events = <<>> THEN <<>> ELSE Tail(events)

\* LtpTimerSuspended is zero, so a timer that was never set is suspended.
ZeroTimer == [arrival |-> 0, deadline |-> 0, expirations |-> 0, suspended |-> TRUE]

\* A plausible error: the timer runs although there is no event for it.
SetTimerRunning(s) ==
    LET deadline == now + OutboundDelay + RemoteQtime + ReturnDelay
    IN  /\ timer' = [timer EXCEPT ![s].arrival = now + OutboundDelay,
                                  ![s].deadline = deadline,
                                  ![s].suspended = FALSE]
        /\ timeline' = IF vspan.fire
                       THEN [timeline EXCEPT ![s] = WithEvent(@, deadline)]
                       ELSE timeline

SetTimer(s) ==
    LET deadline == now + OutboundDelay + RemoteQtime + ReturnDelay
    IN  /\ timer' = [timer EXCEPT ![s].arrival = now + OutboundDelay,
                                  ![s].deadline = deadline,
                                  ![s].suspended = ~vspan.fire]
        /\ timeline' = IF vspan.fire
                       THEN [timeline EXCEPT ![s] = WithEvent(@, deadline)]
                       ELSE timeline

(***************************************************************************)
(* The sessions and the link service output task.                          *)
(***************************************************************************)
Enqueue(s) ==
    /\ status[s] = "none"
    /\ status' = [status EXCEPT ![s] = "live"]
    /\ queued' = [queued EXCEPT ![s] = 1]
    /\ UNCHANGED <<now, clock, vspan, timer, timeline, open>>

\* ltpDequeueOutboundSegment: a cancellation has no timer of its own, but
\* that of the dead session, if there still is one.
Dequeue(s) ==
    /\ queued[s] > 0 /\ vspan.xmit
    /\ queued' = [queued EXCEPT ![s] = @ - 1]
    /\ IF status[s] = "gone" THEN UNCHANGED <<timer, timeline>> ELSE SetTimer(s)
    /\ UNCHANGED <<now, clock, vspan, status, open>>

\* A report segment or its acknowledgment deactivates the timer and leaves
\* the event.
AnswerSegment(s) ==
    /\ s \in Segments /\ status[s] = "live" /\ timer[s].arrival # 0
    /\ timer' = [timer EXCEPT ![s].arrival = 0]
    /\ UNCHANGED <<now, clock, vspan, status, queued, timeline, open>>

\* The acknowledgment of a cancellation takes the event away; only that of a
\* canceled import session takes the session away as well.
AnswerCancel(s) ==
    /\ s \in Cancels /\ status[s] = "live" /\ timer[s].arrival # 0
    /\ timeline' = [timeline EXCEPT ![s] = WithoutEvent(@)]
    /\ status' = [status EXCEPT
           ![s] = IF Kind[s] = "recvCancel" THEN "gone" ELSE "answered"]
    /\ UNCHANGED <<now, clock, vspan, queued, timer, open>>

\* The session stops, for whatever reason, and destroys the segment.
Destroyed(s) ==
    /\ status' = [status EXCEPT ![s] = "gone"]
    /\ queued' = [queued EXCEPT ![s] = 0]
    /\ timeline' = [timeline EXCEPT ![s] = WithoutEvent(@)]

Stop(s) ==
    /\ s \in Segments /\ status[s] = "live"
    /\ Destroyed(s)
    /\ UNCHANGED <<now, clock, vspan, timer, open>>

(***************************************************************************)
(* ltpclock.                                                               *)
(***************************************************************************)
Snooze ==
    /\ clock = "sleeping" /\ now < MaxTime
    /\ now' = now + 1 /\ clock' = "managing"
    /\ UNCHANGED <<vspan, status, queued, timer, timeline, open>>

\* The signals whose timers ltpSuspendTimers and ltpResumeTimers look at: the
\* active ones of the segments, but all those of the dead sessions.
Timed == {s \in Signals : /\ status[s] \in {"live", "answered"}
                          /\ s \in Segments => timer[s].arrival # 0}

LatestAnswer(s) == timer[s].arrival + RemoteQtime

\* A plausible error: an answer that should begin just now is taken as sent.
ToSuspendLate(s) == s \in Timed /\ LatestAnswer(s) > now

\* suspendTimer: not if the answer should have been sent before the stop.
ToSuspend(s) == s \in Timed /\ LatestAnswer(s) >= now

\* A plausible error: the event of a suspended timer is left.
SuspendTimersOnly ==
    /\ timer' = [s \in Signals |->
                    IF ToSuspend(s) THEN [timer[s] EXCEPT !.suspended = TRUE]
                                    ELSE timer[s]]
    /\ UNCHANGED timeline

SuspendTimers ==
    /\ timer' = [s \in Signals |->
                    IF ToSuspend(s) THEN [timer[s] EXCEPT !.suspended = TRUE]
                                    ELSE timer[s]]
    /\ timeline' = [s \in Signals |->
                    IF ToSuspend(s) THEN WithoutEvent(timeline[s]) ELSE timeline[s]]

\* resumeTimer: the deadline moves by the time that the earliest start of the
\* answer has moved.
ResumedDeadline(s) ==
    timer[s].deadline + Max({0, now - LatestAnswer(s)})

ResumeTimers ==
    LET resumed == {s \in Timed : timer[s].suspended}
    IN  /\ timer' = [s \in Signals |->
                        IF s \in resumed
                        THEN [timer[s] EXCEPT !.suspended = FALSE,
                                              !.deadline = ResumedDeadline(s)]
                        ELSE timer[s]]
        /\ timeline' = [s \in Signals |->
                        IF s \in resumed
                        THEN WithEvent(timeline[s], ResumedDeadline(s))
                        ELSE timeline[s]]

Recent(times) ==
    LET old == {u \in times : u + ReturnDelay <= now}
    IN  (times \ old) \cup IF old = {} THEN {} ELSE {Max(old)}

\* rfxclock posts the rates of the neighbor at any time; what counts is what
\* ltpclock finds.
ManageLinks(neighbor) ==
    /\ clock = "managing" /\ clock' = "dispatching"
    /\ vspan' = neighbor
    /\ CASE vspan.fire /\ ~neighbor.fire -> SuspendTimers
         [] ~vspan.fire /\ neighbor.fire -> ResumeTimers
         [] OTHER -> UNCHANGED <<timer, timeline>>
    /\ open' = Recent(IF neighbor.fire THEN open \cup {now} ELSE open)
    /\ UNCHANGED <<now, status, queued>>

Due(s) == timeline[s] # <<>> /\ timeline[s][1] <= now

\* The events that come to nothing.
Spurious(s) ==
    \/ status[s] = "gone"
    \/ s \in Segments /\ timer[s].arrival = 0

Resend(s) ==
    /\ timer' = [timer EXCEPT ![s].expirations = @ + 1]
    /\ queued' = [queued EXCEPT ![s] = @ + 1]
    /\ timeline' = [timeline EXCEPT ![s] = Tail(@)]
    /\ UNCHANGED status

\* The last expiration ends the session that holds the segment, or the dead
\* session, whose cancellations stay in the queue.
GiveUp(s) ==
    /\ status' = [status EXCEPT ![s] = "gone"]
    /\ queued' = IF s \in Segments THEN [queued EXCEPT ![s] = 0] ELSE queued
    /\ timeline' = [timeline EXCEPT
           ![s] = IF s \in Segments THEN WithoutEvent(Tail(@)) ELSE Tail(@)]
    /\ UNCHANGED timer

\* One turn of the loop of dispatchEvents and the ltpResend function.
Dispatch(s) ==
    /\ clock = "dispatching" /\ Due(s)
    /\ \A r \in Signals : Due(r) => timeline[s][1] <= timeline[r][1]
    /\ IF Spurious(s)
       THEN /\ timeline' = [timeline EXCEPT ![s] = Tail(@)]
            /\ UNCHANGED <<status, queued, timer>>
       ELSE IF timer[s].expirations = MaxTimeouts THEN GiveUp(s) ELSE Resend(s)
    /\ UNCHANGED <<now, clock, vspan, open>>

Dispatched ==
    /\ clock = "dispatching" /\ \A s \in Signals : ~Due(s)
    /\ clock' = "sleeping"
    /\ UNCHANGED <<now, vspan, status, queued, timer, timeline, open>>

-----------------------------------------------------------------------------
Init ==
    /\ now = 0 /\ clock = "sleeping"
    /\ vspan \in Rates
    /\ status = [s \in Signals |-> "none"]
    /\ queued = [s \in Signals |-> 0]
    /\ timer = [s \in Signals |-> ZeroTimer]
    /\ timeline = [s \in Signals |-> <<>>]
    /\ open = IF vspan.fire THEN {0} ELSE {}

Next ==
    \/ \E s \in Signals : Enqueue(s)
    \/ \E s \in Signals : Dequeue(s)
    \/ \E s \in Signals : AnswerSegment(s)
    \/ \E s \in Signals : AnswerCancel(s)
    \/ \E s \in Signals : Stop(s)
    \/ \E s \in Signals : Dispatch(s)
    \/ Snooze
    \/ \E neighbor \in Rates : ManageLinks(neighbor)
    \/ Dispatched

Spec == Init /\ [][Next]_vars

(***************************************************************************)
(* Properties.                                                             *)
(***************************************************************************)
\* No signal that waits for an answer is forgotten: a copy of it is in the
\* queue, or a timeout will come, or its timer is suspended and the neighbor
\* has yet to start transmitting.
NeverForgotten ==
    \A s \in Timed : status[s] = "live" =>
        \/ queued[s] > 0
        \/ timeline[s] # <<>>
        \/ timer[s].suspended /\ ~vspan.fire

\* A checkpoint or a report has one timeout to come or one place in the
\* queue, never both and never two, through any order of stops and starts:
\* it is destroyed with the one event and the one place that it knows of.
OneTimeout ==
    \A s \in Segments : Len(timeline[s]) + queued[s] <= 1

\* A timeout is charged to a checkpoint or a report only when an answer could
\* have come: since it should have begun, the neighbor has been seen to
\* transmit, and at least as long ago as an answer takes to arrive.
NoPrematureTimeout ==
    \A s \in Segments : clock = "dispatching" /\ Due(s) /\ ~Spurious(s) =>
        \E u \in open : LatestAnswer(s) <= u /\ u + ReturnDelay <= now
=============================================================================
