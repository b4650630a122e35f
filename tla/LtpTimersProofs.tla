-------------------------- MODULE LtpTimersProofs ---------------------------
(***************************************************************************)
(* The properties of LtpTimers for every set of signals, every delay, every *)
(* limit of retries, and every order of stops, starts, answers and         *)
(* timeouts.                                                               *)
(***************************************************************************)
EXTENDS LtpTimers, DataLemmas

(***************************************************************************)
(* The inductive invariant: what the place in the queue, the timer and the *)
(* event of one signal have to do with each other, and with the times at   *)
(* which the neighbor was seen to transmit.                                *)
(***************************************************************************)
\* A segment that waits for an answer.
Awaited(s) == s \in Segments /\ status[s] = "live" /\ timer[s].arrival # 0

\* The least deadline of a timer: an answer that begins at the earliest.
Earliest(s) == LatestAnswer(s) + ReturnDelay

\* An answer to a segment leaves the session that holds it alive.
CancelAnswered(s) == status[s] = "answered" => s \in Cancels

\* Before it is queued there is no trace of a signal.
Untouched(s) ==
    status[s] = "none" => queued[s] = 0 /\ timeline[s] = <<>> /\ timer[s] = ZeroTimer

NotForgotten(s) ==
    s \in Timed /\ status[s] = "live" =>
        \/ queued[s] > 0
        \/ timeline[s] # <<>>
        \/ timer[s].suspended /\ ~vspan.fire

OneWait(s) == s \in Segments => Len(timeline[s]) + queued[s] <= 1

\* A suspended timer has nothing to come, and has never been moved.
SuspendedIdle(s) ==
    Awaited(s) /\ timer[s].suspended =>
        queued[s] = 0 /\ timeline[s] = <<>> /\ timer[s].deadline = Earliest(s)

\* A segment that is queued again has timed out: too late for a stop of the
\* neighbor to suspend its timer.
QueuedLate(s) ==
    Awaited(s) /\ queued[s] > 0 =>
        \/ LatestAnswer(s) < now
        \/ LatestAnswer(s) = now /\ clock # "managing"

\* Only a resumption that comes after the answer should have begun moves the
\* deadline.
DeadlineBounded(s) ==
    Awaited(s) =>
        /\ timer[s].deadline >= Earliest(s)
        /\ timer[s].deadline > Earliest(s) => LatestAnswer(s) < now

EventAtDeadline(s) ==
    Awaited(s) /\ timeline[s] # <<>> => timeline[s][1] = timer[s].deadline

\* The answer has yet to begin, and the neighbor transmits.
ToBegin(s) ==
    /\ vspan.fire /\ timer[s].deadline = Earliest(s)
    /\ LatestAnswer(s) > now \/ (LatestAnswer(s) = now /\ clock = "managing")

\* The neighbor transmitted when or after the answer should have begun, early
\* enough for the deadline.
Begun(s) ==
    \E u \in open : /\ LatestAnswer(s) <= u
                    /\ \/ u + ReturnDelay <= timer[s].deadline
                       \/ u + ReturnDelay <= now

EventTimely(s) == Awaited(s) /\ timeline[s] # <<>> => ToBegin(s) \/ Begun(s)

SignalInv(s) ==
    /\ Untouched(s) /\ NotForgotten(s) /\ OneWait(s) /\ SuspendedIdle(s)
    /\ QueuedLate(s) /\ DeadlineBounded(s) /\ EventAtDeadline(s) /\ EventTimely(s)
    /\ CancelAnswered(s)

\* What ltpclock has found in this second is on record.
TransmissionSeen == vspan.fire /\ clock # "managing" => now \in open

TimersInv == TypeOK /\ TransmissionSeen /\ \A s \in Signals : SignalInv(s)

(***************************************************************************)
(* Lemmas.                                                                 *)
(***************************************************************************)
TimerType == [arrival : Nat, deadline : Int,
              expirations : 0..MaxTimeouts, suspended : BOOLEAN]

\* An event more, and the only one if there was none.
LEMMA WithEventType ==
    ASSUME NEW events \in Seq(Int), NEW time \in Int
    PROVE  /\ WithEvent(events, time) \in Seq(Int)
           /\ Len(WithEvent(events, time)) = Len(events) + 1
           /\ events = <<>> => WithEvent(events, time)[1] = time
<1> DEFINE sooner == {i \in DOMAIN events : events[i] <= time}
           place == (IF sooner = {} THEN 0 ELSE Max(sooner)) + 1
<1>1. DOMAIN events = 1..Len(events) /\ Len(events) \in Nat
  OBVIOUS
<1>2. place \in 1..(Len(events) + 1)
  <2>1. CASE sooner = {}
    BY <2>1, <1>1
  <2>2. CASE sooner # {}
    <3>1. sooner \in SUBSET (0..Len(events)) /\ sooner \subseteq 1..Len(events)
      BY <1>1
    <3> HIDE DEF sooner
    <3>2. Max(sooner) \in 1..Len(events)
      BY <3>1, <2>2, <1>1, GreatestElement
    <3> QED
      BY <3>2, <2>2
  <2> QED
    BY <2>1, <2>2
<1>3. WithEvent(events, time) = InsertAt(events, place, time)
  BY DEF WithEvent
<1>4. events = <<>> => place = 1
  OBVIOUS
<1> HIDE DEF place, sooner
<1> DEFINE T == Int
<1>7. events \in Seq(T) /\ time \in T
  OBVIOUS
<1> HIDE DEF T
<1>5. /\ InsertAt(events, place, time) \in Seq(T)
      /\ HasInserted(InsertAt(events, place, time), events, place, time)
  BY <1>2, <1>7, InsertAtElements
<1>6. ASSUME events = <<>>
      PROVE  InsertAt(events, place, time)[1] = time
  BY <1>5, <1>4, <1>6 DEF HasInserted
<1> QED
  BY <1>3, <1>5, <1>6 DEF T, HasInserted

\* Removing one time from a list of at most one leaves none.
LEMMA WithoutEventType ==
    ASSUME NEW events \in Seq(Int)
    PROVE  /\ WithoutEvent(events) \in Seq(Int)
           /\ Len(WithoutEvent(events)) <= Len(events)
           /\ Len(events) <= 1 => WithoutEvent(events) = <<>>
BY DEF WithoutEvent

\* What remains of a delay.
LEMMA LaterOf ==
    ASSUME NEW x \in Int
    PROVE  Max({0, x}) = IF x > 0 THEN x ELSE 0
<1>1. CASE x > 0
  <2>1. x \in {0, x} /\ \A y \in {0, x} : x >= y
    BY <1>1
  <2> QED
    BY <2>1, <1>1 DEF Max
<1>2. CASE ~(x > 0)
  <2>1. 0 \in {0, x} /\ \A y \in {0, x} : 0 >= y
    BY <1>2
  <2> QED
    BY <2>1, <1>2 DEF Max
<1> QED
  BY <1>1, <1>2

\* Recent forgets no time that is not older than another one of which an answer
\* may have arrived as well.
LEMMA RecentType ==
    ASSUME NEW times \in SUBSET (0..MaxTime), now \in Nat
    PROVE  /\ Recent(times) \subseteq times
           /\ \A u \in times : \/ u \in Recent(times)
                               \/ \E v \in Recent(times) : u <= v /\ v + ReturnDelay <= now
<1> DEFINE old == {u \in times : u + ReturnDelay <= now}
<1>1. CASE old = {}
  BY <1>1 DEF Recent
<1>2. CASE old # {}
  <2>1. MaxTime \in Nat /\ old \in SUBSET (0..MaxTime)
    BY TimersAssumption
  <2>2. Max(old) \in old /\ \A u \in old : u <= Max(old)
    <3> HIDE DEF old
    <3> QED
      BY <1>2, <2>1, GreatestElement
  <2>3. Recent(times) = (times \ old) \cup {Max(old)}
    BY <1>2 DEF Recent
  <2>4. Max(old) \in times /\ Max(old) + ReturnDelay <= now
    BY <2>2
  <2> HIDE DEF old
  <2>5. \A u \in times : u \in times \ old \/ u <= Max(old)
    BY <2>2
  <2> QED
    BY <2>3, <2>4, <2>5
<1> QED
  BY <1>1, <1>2

\* The parts of the type invariant, as the other lemmas use them.
LEMMA Types ==
    ASSUME TypeOK, NEW s \in Signals
    PROVE  /\ now \in Nat /\ RemoteQtime \in Nat /\ ReturnDelay \in Nat
           /\ OutboundDelay \in Nat
           /\ queued[s] \in Nat /\ timeline[s] \in Seq(Int)
           /\ timer[s] \in TimerType
           /\ timer[s].arrival \in Nat /\ timer[s].deadline \in Int
           /\ timer[s].suspended \in BOOLEAN /\ timer[s].expirations \in 0..MaxTimeouts
           /\ vspan.fire \in BOOLEAN /\ vspan.xmit \in BOOLEAN
           /\ LatestAnswer(s) \in Nat /\ Earliest(s) \in Nat
           /\ MaxTimeouts \in Nat /\ MaxTime \in Nat
<1>1. timer[s] \in TimerType /\ now \in Nat /\ vspan \in Rates
  BY TimersAssumption DEF TypeOK, TimerType
<1>2. timer[s].arrival \in Nat /\ timer[s].deadline \in Int
      /\ timer[s].suspended \in BOOLEAN /\ timer[s].expirations \in 0..MaxTimeouts
  BY <1>1 DEF TimerType
<1> QED
  BY <1>1, <1>2, TimersAssumption DEF TypeOK, LatestAnswer, Earliest, Rates

\* What is said of a signal depends on its own state, the time and the link.
LEMMA Undisturbed ==
    ASSUME NEW s \in Signals, SignalInv(s),
           status'[s] = status[s], queued'[s] = queued[s],
           timer'[s] = timer[s], timeline'[s] = timeline[s],
           now' = now, clock' = clock, vspan' = vspan, open' = open
    PROVE  SignalInv(s)'
<1>1. LatestAnswer(s)' = LatestAnswer(s) /\ Earliest(s)' = Earliest(s)
  BY DEF LatestAnswer, Earliest
<1>2. Awaited(s)' = Awaited(s) /\ (s \in Timed)' = (s \in Timed)
  BY DEF Awaited, Timed
<1>3. ToBegin(s)' = ToBegin(s) /\ Begun(s)' = Begun(s)
  BY <1>1 DEF ToBegin, Begun
<1>4. CancelAnswered(s)' /\ Untouched(s)' /\ NotForgotten(s)' /\ OneWait(s)'
  BY <1>2 DEF SignalInv, CancelAnswered, Untouched, NotForgotten, OneWait
<1>5. SuspendedIdle(s)' /\ QueuedLate(s)' /\ DeadlineBounded(s)'
  BY <1>1, <1>2 DEF SignalInv, SuspendedIdle, QueuedLate, DeadlineBounded
<1>6. EventAtDeadline(s)' /\ EventTimely(s)'
  BY <1>2, <1>3 DEF SignalInv, EventAtDeadline, EventTimely
<1> QED
  BY <1>4, <1>5, <1>6 DEF SignalInv

(***************************************************************************)
(* The sessions and the link service output task.                          *)
(***************************************************************************)

\* A signal is made and queued.
LEMMA EnqueueInv ==
    ASSUME TimersInv, NEW s \in Signals, Enqueue(s)
    PROVE  TimersInv'
<1>1. TypeOK'
  BY DEF TimersInv, TypeOK, Enqueue
<1>2. TransmissionSeen'
  BY DEF TimersInv, TransmissionSeen, Enqueue
<1>3. ASSUME NEW t \in Signals
      PROVE  SignalInv(t)'
  <2>1. CASE t # s
    BY <2>1, Undisturbed DEF TimersInv, TypeOK, Enqueue
  <2>2. CASE t = s
    <3>1. /\ status'[s] = "live" /\ queued'[s] = 1
          /\ timeline'[s] = <<>> /\ timer'[s] = ZeroTimer
      BY DEF TimersInv, TypeOK, Enqueue, SignalInv, CancelAnswered, Untouched
    <3>2. ~Awaited(s)'
      BY <3>1 DEF Awaited, ZeroTimer
    <3> QED
      BY <2>2, <3>1, <3>2 DEF SignalInv, CancelAnswered, Untouched, NotForgotten, OneWait, SuspendedIdle,
         QueuedLate, DeadlineBounded, EventAtDeadline, EventTimely
  <2> QED
    BY <2>1, <2>2
<1> QED
  BY <1>1, <1>2, <1>3 DEF TimersInv

\* A copy leaves the queue: the timer is set.
LEMMA DequeueInv ==
    ASSUME TimersInv, NEW s \in Signals, Dequeue(s)
    PROVE  TimersInv'
<1> DEFINE deadline == now + OutboundDelay + RemoteQtime + ReturnDelay
<1>1. /\ now \in Nat /\ deadline \in Int /\ now + OutboundDelay \in Nat
      /\ queued[s] \in Nat /\ queued[s] - 1 \in Nat /\ timeline[s] \in Seq(Int)
      /\ timer[s] \in TimerType /\ vspan.fire \in BOOLEAN
  BY Types, SMTT(30) DEF TimersInv, Dequeue
<1>2. WithEvent(timeline[s], deadline) \in Seq(Int)
  BY <1>1, WithEventType
<1>3. TypeOK'
  <2>1. queued' \in [Signals -> Nat]
    BY <1>1 DEF TimersInv, TypeOK, Dequeue
  <2>2. timer' \in [Signals -> TimerType]
    <3>1. [timer[s] EXCEPT !.arrival = now + OutboundDelay, !.deadline = deadline,
                           !.suspended = ~vspan.fire] \in TimerType
      BY <1>1 DEF TimerType
    <3>2. timer \in [Signals -> TimerType]
      BY DEF TimersInv, TypeOK, TimerType
    <3> QED
      BY <3>1, <3>2 DEF Dequeue, SetTimer
  <2>3. timeline' \in [Signals -> Seq(Int)]
    BY <1>2 DEF TimersInv, TypeOK, Dequeue, SetTimer
  <2> QED
    BY <2>1, <2>2, <2>3 DEF TimersInv, TypeOK, Dequeue, TimerType
<1>4. TransmissionSeen'
  BY DEF TimersInv, TransmissionSeen, Dequeue
<1>5. ASSUME NEW t \in Signals
      PROVE  SignalInv(t)'
  <2>1. CASE t # s
    BY <2>1, Undisturbed DEF TimersInv, TypeOK, Dequeue, SetTimer
  <2>2. CASE t = s /\ status[s] = "gone"
    <3>1. /\ status'[s] = "gone" /\ queued'[s] = queued[s] - 1
          /\ timeline'[s] = timeline[s]
      BY <2>2 DEF TimersInv, TypeOK, Dequeue
    <3>2. OneWait(s)'
      BY <1>1, <3>1 DEF TimersInv, SignalInv, OneWait
    <3> QED
      BY <2>2, <3>1, <3>2 DEF SignalInv, CancelAnswered, Untouched, NotForgotten, SuspendedIdle, Awaited,
         QueuedLate, DeadlineBounded, EventAtDeadline, EventTimely
  <2>3. CASE t = s /\ status[s] # "gone"
    <3>1. /\ status'[s] = status[s] /\ queued'[s] = queued[s] - 1
          /\ timer'[s].arrival = now + OutboundDelay
          /\ timer'[s].deadline = deadline
          /\ timer'[s].suspended = ~vspan.fire
          /\ timeline'[s] = IF vspan.fire THEN WithEvent(timeline[s], deadline)
                            ELSE timeline[s]
          /\ now' = now /\ clock' = clock /\ vspan' = vspan /\ open' = open
      BY <2>3, <1>1 DEF TimersInv, TypeOK, TimerType, Dequeue, SetTimer
    <3>2. status[s] # "none"
      BY <1>1 DEF TimersInv, SignalInv, CancelAnswered, Untouched, Dequeue
    <3>3. /\ Len(WithEvent(timeline[s], deadline)) = Len(timeline[s]) + 1
          /\ timeline[s] = <<>> => WithEvent(timeline[s], deadline)[1] = deadline
          /\ WithEvent(timeline[s], deadline) # <<>>
      <4> HIDE DEF deadline
      <4>1. /\ WithEvent(timeline[s], deadline) \in Seq(Int)
            /\ Len(WithEvent(timeline[s], deadline)) = Len(timeline[s]) + 1
            /\ timeline[s] = <<>> => WithEvent(timeline[s], deadline)[1] = deadline
        BY <1>1, WithEventType
      <4> QED
        BY <1>1, <4>1
    <3>4. s \in Segments => timeline[s] = <<>> /\ queued'[s] = 0
      <4>1. s \in Segments => Len(timeline[s]) + queued[s] <= 1
        BY DEF TimersInv, SignalInv, OneWait
      <4>2. queued[s] > 0
        BY DEF Dequeue
      <4> QED
        BY <4>1, <4>2, <1>1, <3>1
    <3>5. /\ LatestAnswer(s)' = now + OutboundDelay + RemoteQtime
          /\ Earliest(s)' = deadline
      BY <3>1, <1>1, TimersAssumption DEF LatestAnswer, Earliest
    <3> HIDE DEF deadline
    <3>6. CancelAnswered(s)' /\ Untouched(s)' /\ NotForgotten(s)' /\ OneWait(s)'
      <4>1. CancelAnswered(s)' /\ Untouched(s)'
        BY <3>1, <3>2 DEF TimersInv, SignalInv, CancelAnswered, Untouched
      <4>2. NotForgotten(s)'
        BY <3>1, <3>3, <1>1 DEF NotForgotten
      <4>3. OneWait(s)'
        BY <3>1, <3>3, <3>4, <1>1 DEF OneWait
      <4> QED
        BY <4>1, <4>2, <4>3
    <3>7. SuspendedIdle(s)' /\ QueuedLate(s)' /\ DeadlineBounded(s)' /\ EventAtDeadline(s)'
      <4>1. SuspendedIdle(s)'
        BY <3>1, <3>4, <3>5, <1>1 DEF SuspendedIdle, Awaited
      <4>2. QueuedLate(s)'
        BY <3>4 DEF QueuedLate, Awaited
      <4>3. DeadlineBounded(s)'
        BY <3>1, <3>5, <1>1 DEF DeadlineBounded
      <4>4. EventAtDeadline(s)'
        BY <3>1, <3>3, <3>4 DEF EventAtDeadline, Awaited
      <4> QED
        BY <4>1, <4>2, <4>3, <4>4
    <3>8. EventTimely(s)'
      <4> USE DEF deadline
      <4>1. SUFFICES ASSUME s \in Segments, timeline'[s] # <<>>
                     PROVE  ToBegin(s)' \/ Begun(s)'
        BY DEF EventTimely, Awaited
      <4>2. vspan.fire
        BY <4>1, <3>1, <3>4
      <4>3. CASE LatestAnswer(s)' > now \/ clock = "managing"
        BY <4>2, <4>3, <3>1, <3>5, <1>1, TimersAssumption DEF ToBegin
      <4>4. CASE LatestAnswer(s)' <= now /\ clock # "managing"
        <5>1. now \in open
          BY <4>2, <4>4 DEF TimersInv, TransmissionSeen
        <5>2. now + ReturnDelay <= deadline
          BY <1>1, TimersAssumption
        <5> QED
          BY <5>1, <5>2, <4>4, <3>1 DEF Begun
      <4> QED
        BY <4>3, <4>4, <3>5, <1>1, TimersAssumption
    <3> QED
      BY <2>3, <3>6, <3>7, <3>8 DEF SignalInv
  <2> QED
    BY <2>1, <2>2, <2>3
<1> QED
  BY <1>3, <1>4, <1>5 DEF TimersInv

\* A checkpoint or report is answered; its event stays in the timeline.
LEMMA AnswerSegmentInv ==
    ASSUME TimersInv, NEW s \in Signals, AnswerSegment(s)
    PROVE  TimersInv'
<1>1. TypeOK'
  <2>1. [timer[s] EXCEPT !.arrival = 0] \in TimerType
    BY Types DEF TimersInv, TimerType
  <2>2. timer \in [Signals -> TimerType]
    BY DEF TimersInv, TypeOK, TimerType
  <2>3. timer' \in [Signals -> TimerType]
    BY <2>1, <2>2 DEF AnswerSegment
  <2> QED
    BY <2>3 DEF TimersInv, TypeOK, AnswerSegment, TimerType
<1>2. TransmissionSeen'
  BY DEF TimersInv, TransmissionSeen, AnswerSegment
<1>3. ASSUME NEW t \in Signals
      PROVE  SignalInv(t)'
  <2>1. CASE t # s
    BY <2>1, Undisturbed DEF TimersInv, TypeOK, AnswerSegment
  <2>2. CASE t = s
    <3>1. /\ s \in Segments /\ status'[s] = status[s] /\ status[s] = "live"
          /\ queued'[s] = queued[s] /\ timeline'[s] = timeline[s]
          /\ timer'[s].arrival = 0
      BY Types DEF TimersInv, TypeOK, AnswerSegment, TimerType
    <3>2. ~Awaited(s)' /\ ~(s \in Timed)'
      BY <3>1 DEF Awaited, Timed
    <3>3. OneWait(s)'
      BY <3>1 DEF OneWait, TimersInv, SignalInv
    <3> QED
      BY <2>2, <3>1, <3>2, <3>3 DEF SignalInv, CancelAnswered, Untouched, NotForgotten, SuspendedIdle,
         QueuedLate, DeadlineBounded, EventAtDeadline, EventTimely
  <2> QED
    BY <2>1, <2>2
<1> QED
  BY <1>1, <1>2, <1>3 DEF TimersInv

\* A signal that is not waiting any more is not concerned by the invariant, but
\* for its place in the queue and its event.
LEMMA NotLive ==
    ASSUME NEW s \in Signals, status'[s] \in {"answered", "gone"}, OneWait(s)',
           CancelAnswered(s)'
    PROVE  SignalInv(s)'
BY DEF SignalInv, CancelAnswered, Untouched, NotForgotten, SuspendedIdle, Awaited,
       QueuedLate, DeadlineBounded, EventAtDeadline, EventTimely

\* A cancellation is answered: its event is removed.
LEMMA AnswerCancelInv ==
    ASSUME TimersInv, NEW s \in Signals, AnswerCancel(s)
    PROVE  TimersInv'
<1>1. WithoutEvent(timeline[s]) \in Seq(Int)
  BY Types, WithoutEventType DEF TimersInv
<1>2. TypeOK'
  BY <1>1 DEF TimersInv, TypeOK, AnswerCancel
<1>3. TransmissionSeen'
  BY DEF TimersInv, TransmissionSeen, AnswerCancel
<1>4. ASSUME NEW t \in Signals
      PROVE  SignalInv(t)'
  <2>1. CASE t # s
    BY <2>1, Undisturbed DEF TimersInv, TypeOK, AnswerCancel
  <2>2. CASE t = s
    <3>1. status'[s] \in {"answered", "gone"} /\ s \notin Segments
      BY DEF TimersInv, TypeOK, AnswerCancel, Cancels
    <3> QED
      BY <2>2, <3>1, NotLive DEF OneWait, CancelAnswered, Cancels
  <2> QED
    BY <2>1, <2>2
<1> QED
  BY <1>2, <1>3, <1>4 DEF TimersInv

\* The session of a checkpoint or report ends.
LEMMA StopInv ==
    ASSUME TimersInv, NEW s \in Signals, Stop(s)
    PROVE  TimersInv'
<1>1. /\ timeline[s] \in Seq(Int) /\ queued[s] \in Nat
      /\ WithoutEvent(timeline[s]) \in Seq(Int)
      /\ Len(timeline[s]) <= 1 => WithoutEvent(timeline[s]) = <<>>
  BY Types, WithoutEventType DEF TimersInv
<1>2. TypeOK'
  BY <1>1 DEF TimersInv, TypeOK, Stop, Destroyed
<1>3. TransmissionSeen'
  BY DEF TimersInv, TransmissionSeen, Stop
<1>4. ASSUME NEW t \in Signals
      PROVE  SignalInv(t)'
  <2>1. CASE t # s
    BY <2>1, Undisturbed DEF TimersInv, TypeOK, Stop, Destroyed
  <2>2. CASE t = s
    <3>1. /\ status'[s] = "gone" /\ queued'[s] = 0
          /\ timeline'[s] = WithoutEvent(timeline[s]) /\ s \in Segments
      BY DEF TimersInv, TypeOK, Stop, Destroyed
    <3>2. Len(timeline[s]) <= 1
      BY <1>1, <3>1 DEF TimersInv, SignalInv, OneWait
    <3>3. Len(timeline'[s]) + queued'[s] <= 1
      BY <1>1, <3>1, <3>2
    <3> QED
      BY <2>2, <3>1, <3>3, NotLive DEF OneWait, CancelAnswered, Cancels
  <2> QED
    BY <2>1, <2>2
<1> QED
  BY <1>2, <1>3, <1>4 DEF TimersInv

(***************************************************************************)
(* ltpclock.                                                               *)
(***************************************************************************)

\* A second passes.
LEMMA SnoozeInv ==
    ASSUME TimersInv, Snooze
    PROVE  TimersInv'
<1>1. now \in Nat /\ now' = now + 1 /\ clock = "sleeping" /\ clock' = "managing"
  BY TimersAssumption DEF TimersInv, TypeOK, Snooze
<1>2. TypeOK'
  BY <1>1, TimersAssumption DEF TimersInv, TypeOK, Snooze
<1>3. TransmissionSeen'
  BY <1>1 DEF TransmissionSeen
<1>4. ASSUME NEW s \in Signals
      PROVE  SignalInv(s)'
  <2>1. /\ LatestAnswer(s)' = LatestAnswer(s) /\ Earliest(s)' = Earliest(s)
        /\ Awaited(s)' = Awaited(s) /\ (s \in Timed)' = (s \in Timed)
        /\ status' = status /\ queued' = queued /\ timer' = timer
        /\ timeline' = timeline /\ vspan' = vspan /\ open' = open
    BY DEF Snooze, LatestAnswer, Earliest, Awaited, Timed
  <2>2. LatestAnswer(s) \in Nat /\ Earliest(s) \in Nat /\ ReturnDelay \in Nat
        /\ timer[s].deadline \in Int
    BY Types DEF TimersInv
  <2>3. CancelAnswered(s)' /\ Untouched(s)' /\ NotForgotten(s)' /\ OneWait(s)' /\ SuspendedIdle(s)'
    BY <2>1 DEF TimersInv, SignalInv, CancelAnswered, Untouched, NotForgotten, OneWait, SuspendedIdle
  <2>4. QueuedLate(s)' /\ DeadlineBounded(s)' /\ EventAtDeadline(s)'
    BY <2>1, <2>2, <1>1 DEF TimersInv, SignalInv, QueuedLate, DeadlineBounded, EventAtDeadline
  <2>5. ToBegin(s) => ToBegin(s)'
    BY <2>1, <2>2, <1>1 DEF ToBegin
  <2>6. Begun(s) => Begun(s)'
    <3>1. \A u \in open : u \in Nat
      BY TimersAssumption DEF TimersInv, TypeOK
    <3> QED
      BY <2>1, <2>2, <1>1, <3>1 DEF Begun
  <2>7. EventTimely(s)'
    BY <2>1, <2>5, <2>6 DEF TimersInv, SignalInv, EventTimely
  <2> QED
    BY <2>3, <2>4, <2>7 DEF SignalInv
<1> QED
  BY <1>2, <1>3, <1>4 DEF TimersInv

\* No more events are due.
LEMMA DispatchedInv ==
    ASSUME TimersInv, Dispatched
    PROVE  TimersInv'
<1>1. clock = "dispatching" /\ clock' = "sleeping" /\ now' = now
  BY DEF Dispatched
<1>2. TypeOK'
  BY <1>1 DEF TimersInv, TypeOK, Dispatched
<1>3. TransmissionSeen'
  BY <1>1 DEF TimersInv, TransmissionSeen, Dispatched
<1>4. ASSUME NEW s \in Signals
      PROVE  SignalInv(s)'
  <2>1. /\ LatestAnswer(s)' = LatestAnswer(s) /\ Earliest(s)' = Earliest(s)
        /\ Awaited(s)' = Awaited(s) /\ (s \in Timed)' = (s \in Timed)
        /\ status' = status /\ queued' = queued /\ timer' = timer
        /\ timeline' = timeline /\ vspan' = vspan /\ open' = open
    BY DEF Dispatched, LatestAnswer, Earliest, Awaited, Timed
  <2>2. CancelAnswered(s)' /\ Untouched(s)' /\ NotForgotten(s)' /\ OneWait(s)' /\ SuspendedIdle(s)'
    BY <2>1 DEF TimersInv, SignalInv, CancelAnswered, Untouched, NotForgotten, OneWait, SuspendedIdle
  <2>3. QueuedLate(s)' /\ DeadlineBounded(s)' /\ EventAtDeadline(s)'
    BY <2>1, <1>1 DEF TimersInv, SignalInv, QueuedLate, DeadlineBounded, EventAtDeadline
  <2>4. ToBegin(s) => ToBegin(s)'
    BY <2>1, <1>1 DEF ToBegin
  <2>5. Begun(s) => Begun(s)'
    BY <2>1, <1>1 DEF Begun
  <2>6. EventTimely(s)'
    BY <2>1, <2>4, <2>5 DEF TimersInv, SignalInv, EventTimely
  <2> QED
    BY <2>2, <2>3, <2>6 DEF SignalInv
<1> QED
  BY <1>2, <1>3, <1>4 DEF TimersInv

\* An event is due: the signal is sent again, given up, or was answered before.
LEMMA DispatchInv ==
    ASSUME TimersInv, NEW s \in Signals, Dispatch(s)
    PROVE  TimersInv'
<1>1. /\ now \in Nat /\ timeline[s] \in Seq(Int) /\ queued[s] \in Nat
      /\ timer[s] \in TimerType /\ timer[s].expirations \in 0..MaxTimeouts
      /\ timeline[s] # <<>> /\ timeline[s][1] <= now /\ clock = "dispatching"
      /\ MaxTimeouts \in Nat /\ LatestAnswer(s) \in Nat /\ ReturnDelay \in Nat
  BY Types DEF TimersInv, Dispatch, Due
<1>2. /\ Tail(timeline[s]) \in Seq(Int)
      /\ Len(Tail(timeline[s])) = Len(timeline[s]) - 1
  BY <1>1
<1>3. /\ WithoutEvent(Tail(timeline[s])) \in Seq(Int)
      /\ Len(WithoutEvent(Tail(timeline[s]))) <= Len(Tail(timeline[s]))
  BY <1>2, WithoutEventType
<1>4. UNCHANGED <<now, clock, vspan, open>>
  BY DEF Dispatch
<1>5. TransmissionSeen'
  BY <1>4 DEF TimersInv, TransmissionSeen
<1>6. CASE Spurious(s)
  <2>1. /\ timeline' = [timeline EXCEPT ![s] = Tail(@)]
        /\ UNCHANGED <<status, queued, timer>>
    BY <1>6 DEF Dispatch
  <2>2. TypeOK'
    BY <1>2, <1>4, <2>1 DEF TimersInv, TypeOK
  <2>3. ASSUME NEW t \in Signals
        PROVE  SignalInv(t)'
    <3>1. CASE t # s
      BY <3>1, <1>4, <2>1, Undisturbed DEF TimersInv, TypeOK
    <3>2. CASE t = s
      <4>1. timeline'[s] = Tail(timeline[s]) /\ queued'[s] = queued[s]
        BY <2>1 DEF TimersInv, TypeOK
      <4>2. OneWait(s)'
        BY <4>1, <1>1, <1>2 DEF TimersInv, SignalInv, OneWait
      <4>3. CASE status[s] = "gone"
        <5>1. status'[s] = "gone"
          BY <4>3, <2>1
        <5> QED
          BY <3>2, <4>2, <5>1 DEF SignalInv, CancelAnswered, Untouched, NotForgotten,
             OneWait, SuspendedIdle, Awaited, QueuedLate, DeadlineBounded,
             EventAtDeadline, EventTimely
      <4>4. CASE s \in Segments /\ timer[s].arrival = 0 /\ status[s] # "gone"
        <5>1. ~Awaited(s)' /\ ~(s \in Timed)'
          BY <4>4, <2>1 DEF Awaited, Timed
        <5>2. status'[s] \notin {"none", "answered"}
          BY <4>4, <1>1, <2>1 DEF TimersInv, SignalInv, CancelAnswered, Untouched, Cancels
        <5> QED
          BY <3>2, <4>2, <5>1, <5>2 DEF SignalInv, CancelAnswered, Untouched,
             NotForgotten, SuspendedIdle, OneWait, QueuedLate, DeadlineBounded,
             EventAtDeadline, EventTimely
      <4> QED
        BY <1>6, <4>3, <4>4 DEF Spurious
    <3> QED
      BY <3>1, <3>2
  <2> QED
    BY <1>5, <2>2, <2>3 DEF TimersInv
<1>7. CASE ~Spurious(s) /\ timer[s].expirations = MaxTimeouts
  <2>1. GiveUp(s)
    BY <1>7 DEF Dispatch
  <2>2. TypeOK'
    BY <1>2, <1>3, <1>4, <2>1 DEF TimersInv, TypeOK, GiveUp
  <2>3. ASSUME NEW t \in Signals
        PROVE  SignalInv(t)'
    <3>1. CASE t # s
      BY <3>1, <1>4, <2>1, Undisturbed DEF TimersInv, TypeOK, GiveUp
    <3>2. CASE t = s
      <4>1. status'[s] = "gone"
        BY <2>1 DEF TimersInv, TypeOK, GiveUp
      <4>2. ASSUME s \in Segments
            PROVE  Len(timeline'[s]) + queued'[s] <= 1
        <5>1. queued'[s] = 0 /\ timeline'[s] = WithoutEvent(Tail(timeline[s]))
          BY <4>2, <2>1 DEF TimersInv, TypeOK, GiveUp
        <5>2. Len(timeline[s]) <= 1
          BY <4>2, <1>1 DEF TimersInv, SignalInv, OneWait
        <5> QED
          BY <5>1, <5>2, <1>2, <1>3
      <4> QED
        BY <3>2, <4>1, <4>2, NotLive DEF OneWait, CancelAnswered, Cancels
    <3> QED
      BY <3>1, <3>2
  <2> QED
    BY <1>5, <2>2, <2>3 DEF TimersInv
<1>8. CASE ~Spurious(s) /\ timer[s].expirations # MaxTimeouts
  <2>1. Resend(s)
    BY <1>8 DEF Dispatch
  <2>2. TypeOK'
    <3>1. [timer[s] EXCEPT !.expirations = @ + 1] \in TimerType
      <4>1. timer[s].expirations + 1 \in 0..MaxTimeouts
        BY <1>1, <1>8, SMTT(30)
      <4> QED
        BY <4>1, <1>1 DEF TimerType
    <3>2. timer \in [Signals -> TimerType]
      BY DEF TimersInv, TypeOK, TimerType
    <3>3. timer' \in [Signals -> TimerType]
      BY <3>1, <3>2, <2>1 DEF Resend
    <3>4. queued' \in [Signals -> Nat] /\ timeline' \in [Signals -> Seq(Int)]
      <4>1. queued[s] + 1 \in Nat
        BY <1>1
      <4> QED
        BY <4>1, <1>2, <2>1 DEF TimersInv, TypeOK, Resend
    <3> QED
      BY <1>4, <2>1, <3>3, <3>4 DEF TimersInv, TypeOK, TimerType, Resend
  <2>3. ASSUME NEW t \in Signals
        PROVE  SignalInv(t)'
    <3>1. CASE t # s
      BY <3>1, <1>4, <2>1, Undisturbed DEF TimersInv, TypeOK, Resend
    <3>2. CASE t = s
      <4>1. /\ status'[s] = status[s] /\ queued'[s] = queued[s] + 1
            /\ timeline'[s] = Tail(timeline[s])
            /\ timer'[s].arrival = timer[s].arrival
            /\ timer'[s].deadline = timer[s].deadline
            /\ timer'[s].suspended = timer[s].suspended
        BY <2>1, <1>1 DEF TimersInv, TypeOK, TimerType, Resend
      <4>2. /\ LatestAnswer(s)' = LatestAnswer(s) /\ Earliest(s)' = Earliest(s)
            /\ Awaited(s)' = Awaited(s) /\ (s \in Timed)' = (s \in Timed)
        BY <4>1 DEF LatestAnswer, Earliest, Awaited, Timed
      <4>3. Awaited(s) => /\ timeline'[s] = <<>> /\ ~timer[s].suspended
                          /\ timer[s].deadline <= now
        <5>1. SUFFICES ASSUME Awaited(s)
                       PROVE  /\ timeline'[s] = <<>> /\ ~timer[s].suspended
                              /\ timer[s].deadline <= now
          OBVIOUS
        <5>2. Len(timeline[s]) + queued[s] <= 1
          BY <5>1 DEF TimersInv, SignalInv, OneWait, Awaited
        <5>3. Len(Tail(timeline[s])) = 0
          <6>1. Len(timeline[s]) \in Nat /\ Len(Tail(timeline[s])) \in Nat
            BY <1>1, <1>2
          <6>2. Len(Tail(timeline[s])) = Len(timeline[s]) - 1 /\ queued[s] \in Nat
            BY <1>1, <1>2
          <6>3. \A a, b, c \in Nat : a + b <= 1 /\ c = a - 1 => c = 0
            OBVIOUS
          <6> QED
            BY <5>2, <6>1, <6>2, <6>3
        <5>4. timeline'[s] = <<>>
          BY <5>3, <4>1, <1>2, EmptySeq
        <5> QED
          BY <5>1, <5>4, <1>1 DEF TimersInv, SignalInv, SuspendedIdle, EventAtDeadline
      <4>4. status[s] # "none"
        BY <1>1 DEF TimersInv, SignalInv, CancelAnswered, Untouched
      <4>5. OneWait(s)'
        BY <4>1, <1>1, <1>2 DEF TimersInv, SignalInv, OneWait
      <4>6. CancelAnswered(s)' /\ Untouched(s)' /\ NotForgotten(s)' /\ SuspendedIdle(s)'
        BY <4>1, <4>2, <4>3, <4>4, <1>1 DEF TimersInv, SignalInv, CancelAnswered,
           Untouched, NotForgotten, SuspendedIdle
      <4>7. QueuedLate(s)'
        <5>1. Awaited(s) => LatestAnswer(s) <= now
          <6>1. SUFFICES ASSUME Awaited(s)
                         PROVE  LatestAnswer(s) <= now
            OBVIOUS
          <6>2. timer[s].deadline >= Earliest(s)
            BY <6>1 DEF TimersInv, SignalInv, DeadlineBounded
          <6>3. Earliest(s) = LatestAnswer(s) + ReturnDelay /\ timer[s].deadline \in Int
            BY Types DEF TimersInv, Earliest
          <6> QED
            BY <6>1, <6>2, <6>3, <4>3, <1>1
        <5> QED
          BY <5>1, <4>2, <1>1, <1>4 DEF QueuedLate
      <4>8. DeadlineBounded(s)' /\ EventAtDeadline(s)' /\ EventTimely(s)'
        BY <4>1, <4>2, <4>3, <1>4 DEF TimersInv, SignalInv, DeadlineBounded,
           EventAtDeadline, EventTimely
      <4> QED
        BY <3>2, <4>5, <4>6, <4>7, <4>8 DEF SignalInv
    <3> QED
      BY <3>1, <3>2
  <2> QED
    BY <1>5, <2>2, <2>3 DEF TimersInv
<1> QED
  BY <1>6, <1>7, <1>8


\* What ltpclock has recorded of the neighbor stays, or a later time does.
LEMMA BegunStays ==
    ASSUME TimersInv, NEW neighbor \in Rates, ManageLinks(neighbor), NEW s \in Signals,
           Begun(s), timer'[s].arrival = timer[s].arrival,
           timer'[s].deadline \in Int, timer'[s].deadline >= timer[s].deadline
    PROVE  Begun(s)'
<1> DEFINE times == IF neighbor.fire THEN open \cup {now} ELSE open
<1>1. /\ now \in Nat /\ ReturnDelay \in Nat /\ timer[s].deadline \in Int
      /\ LatestAnswer(s) \in Nat
  BY Types DEF TimersInv
<1>2. times \in SUBSET (0..MaxTime) /\ \A u \in times : u \in Nat
  <2>1. MaxTime \in Nat /\ now \in 0..MaxTime /\ open \subseteq 0..MaxTime
    BY TimersAssumption DEF TimersInv, TypeOK
  <2>2. times \in SUBSET (0..MaxTime)
    BY <2>1
  <2> HIDE DEF times
  <2> QED
    BY <2>1, <2>2
<1>3. open' = Recent(times) /\ now' = now /\ LatestAnswer(s)' = LatestAnswer(s)
  BY DEF ManageLinks, LatestAnswer
<1>4. PICK u \in open : /\ LatestAnswer(s) <= u
                        /\ \/ u + ReturnDelay <= timer[s].deadline
                           \/ u + ReturnDelay <= now
  BY DEF Begun
<1>5. u \in times
  BY <1>4
<1> HIDE DEF times
<1>6. /\ Recent(times) \subseteq times
      /\ \/ u \in Recent(times)
         \/ \E v \in Recent(times) : u <= v /\ v + ReturnDelay <= now
  BY <1>1, <1>2, <1>5, RecentType
<1>7. CASE u \in Recent(times)
  BY <1>1, <1>2, <1>3, <1>4, <1>5, <1>7 DEF Begun
<1>8. CASE u \notin Recent(times)
  <2>1. PICK v \in Recent(times) : u <= v /\ v + ReturnDelay <= now
    BY <1>6, <1>8
  <2>2. v \in open' /\ v \in Nat /\ u \in Nat
    BY <1>2, <1>3, <1>5, <1>6, <2>1
  <2>3. LatestAnswer(s)' <= v /\ v + ReturnDelay <= now'
    BY <1>1, <1>3, <1>4, <2>1, <2>2
  <2> QED
    BY <2>2, <2>3 DEF Begun
<1> QED
  BY <1>7, <1>8

\* The rate of the neighbor is read; its timers are suspended or resumed.
LEMMA ManageLinksInv ==
    ASSUME TimersInv, NEW neighbor \in Rates, ManageLinks(neighbor)
    PROVE  TimersInv'
<1>1. /\ now \in 0..MaxTime /\ now \in Nat /\ MaxTime \in Nat /\ ReturnDelay \in Nat
      /\ clock = "managing" /\ clock' = "dispatching" /\ now' = now
      /\ vspan' = neighbor /\ status' = status /\ queued' = queued
      /\ neighbor.fire \in BOOLEAN /\ vspan.fire \in BOOLEAN
  BY TimersAssumption DEF TimersInv, TypeOK, ManageLinks, Rates
<1>2. open' \subseteq 0..MaxTime /\ (neighbor.fire => now \in open')
  <2> DEFINE times == IF neighbor.fire THEN open \cup {now} ELSE open
  <2>1. /\ times \in SUBSET (0..MaxTime) /\ (neighbor.fire => now \in times)
        /\ \A u \in times : u \in Nat
    BY <1>1 DEF TimersInv, TypeOK
  <2>2. open' = Recent(times)
    BY DEF ManageLinks
  <2> HIDE DEF times
  <2>3. /\ Recent(times) \subseteq times
        /\ \A u \in times : \/ u \in Recent(times)
                            \/ \E v \in Recent(times) : u <= v /\ v + ReturnDelay <= now
    BY <1>1, <2>1, RecentType
  <2>4. neighbor.fire => now \in Recent(times)
    <3>1. SUFFICES ASSUME neighbor.fire, now \notin Recent(times)
                   PROVE  FALSE
      OBVIOUS
    <3>2. PICK v \in Recent(times) : now <= v /\ v + ReturnDelay <= now
      BY <2>1, <2>3, <3>1
    <3>3. v \in Nat
      BY <2>1, <2>3, <3>2
    <3>4. v = now
      BY <3>2, <3>3, <1>1
    <3> QED
      BY <3>1, <3>2, <3>4
  <2> QED
    BY <2>1, <2>2, <2>3, <2>4
<1>3. TransmissionSeen'
  BY <1>1, <1>2 DEF TransmissionSeen
<1>4. ASSUME NEW s \in Signals
      PROVE  /\ LatestAnswer(s) \in Nat /\ timer[s].deadline \in Int
             /\ Earliest(s) = LatestAnswer(s) + ReturnDelay
             /\ timer[s] \in TimerType /\ timeline[s] \in Seq(Int)
             /\ queued[s] \in Nat /\ ResumedDeadline(s) \in Int
             /\ WithoutEvent(timeline[s]) \in Seq(Int)
             /\ WithEvent(timeline[s], ResumedDeadline(s)) \in Seq(Int)
             /\ ResumedDeadline(s) = IF LatestAnswer(s) < now
                                     THEN timer[s].deadline + (now - LatestAnswer(s))
                                     ELSE timer[s].deadline
  <2>1. /\ LatestAnswer(s) \in Nat /\ timer[s].deadline \in Int
        /\ timer[s] \in TimerType /\ timeline[s] \in Seq(Int) /\ queued[s] \in Nat
    BY Types DEF TimersInv
  <2>2. now - LatestAnswer(s) \in Int
    BY <2>1, <1>1
  <2>3. Max({0, now - LatestAnswer(s)})
            = IF now - LatestAnswer(s) > 0 THEN now - LatestAnswer(s) ELSE 0
    BY <2>2, LaterOf
  <2>4. ResumedDeadline(s) = IF LatestAnswer(s) < now
                             THEN timer[s].deadline + (now - LatestAnswer(s))
                             ELSE timer[s].deadline
    BY <2>1, <2>3, <1>1 DEF ResumedDeadline
  <2>5. ResumedDeadline(s) \in Int
    BY <2>1, <2>2, <2>4
  <2> QED
    BY <2>1, <2>4, <2>5, WithEventType, WithoutEventType DEF Earliest
<1>5. ASSUME NEW s \in Signals, timer'[s].arrival = timer[s].arrival
      PROVE  /\ LatestAnswer(s)' = LatestAnswer(s) /\ Earliest(s)' = Earliest(s)
             /\ Awaited(s)' = Awaited(s) /\ (s \in Timed)' = (s \in Timed)
  BY <1>1, <1>5 DEF LatestAnswer, Earliest, Awaited, Timed
<1>6. ASSUME NEW s \in Signals, timer'[s] = timer[s], timeline'[s] = timeline[s]
      PROVE  /\ CancelAnswered(s)' /\ Untouched(s)' /\ OneWait(s)' /\ SuspendedIdle(s)'
             /\ QueuedLate(s)' /\ DeadlineBounded(s)' /\ EventAtDeadline(s)'
  BY <1>1, <1>5, <1>6 DEF TimersInv, SignalInv, CancelAnswered, Untouched, OneWait,
     SuspendedIdle, QueuedLate, DeadlineBounded, EventAtDeadline
<1>7. ASSUME NEW s \in Signals, Awaited(s)
      PROVE  s \in Timed /\ s \in Segments
  BY <1>7 DEF Awaited, Timed
<1>8. ASSUME NEW s \in Signals, s \in Timed, s \in Segments
      PROVE  Awaited(s)
  BY <1>8 DEF Awaited, Timed, TimersInv, SignalInv, CancelAnswered, Cancels
<1>9. CASE vspan.fire /\ ~neighbor.fire
  <2>1. SuspendTimers
    BY <1>9 DEF ManageLinks
  <2>2. TypeOK'
    <3>1. timer' \in [Signals -> TimerType]
      <4>1. ASSUME NEW s \in Signals
            PROVE  [timer[s] EXCEPT !.suspended = TRUE] \in TimerType
        BY <1>4 DEF TimerType
      <4> QED
        BY <1>4, <4>1, <2>1 DEF SuspendTimers
    <3>2. timeline' \in [Signals -> Seq(Int)]
      BY <1>4, <2>1 DEF SuspendTimers
    <3> QED
      BY <1>1, <1>2, <3>1, <3>2 DEF TimersInv, TypeOK, TimerType
  <2>3. ASSUME NEW s \in Signals
        PROVE  SignalInv(s)'
    <3>1. CASE ToSuspend(s)
      <4>1. /\ timeline'[s] = WithoutEvent(timeline[s])
            /\ timer'[s].arrival = timer[s].arrival
            /\ timer'[s].deadline = timer[s].deadline
            /\ timer'[s].suspended = TRUE
        BY <2>1, <3>1, <1>4 DEF SuspendTimers, TimerType
      <4>2. s \in Timed /\ LatestAnswer(s) >= now
        BY <3>1 DEF ToSuspend
      <4>3. s \in Segments =>
                queued[s] = 0 /\ timeline'[s] = <<>> /\ timer[s].deadline = Earliest(s)
        <5>1. SUFFICES ASSUME s \in Segments
                       PROVE  /\ queued[s] = 0 /\ timeline'[s] = <<>>
                              /\ timer[s].deadline = Earliest(s)
          OBVIOUS
        <5>2. Awaited(s)
          BY <5>1, <4>2, <1>8
        <5>3. queued[s] = 0
          BY <5>2, <4>2, <1>1, <1>4 DEF TimersInv, SignalInv, QueuedLate
        <5>4. Len(timeline[s]) <= 1
          BY <5>1, <5>3, <1>4 DEF TimersInv, SignalInv, OneWait
        <5>5. timeline'[s] = <<>>
          BY <5>4, <4>1, <1>4, WithoutEventType
        <5>6. timer[s].deadline = Earliest(s)
          <6>1. /\ timer[s].deadline >= Earliest(s)
                /\ timer[s].deadline > Earliest(s) => LatestAnswer(s) < now
            BY <5>2 DEF TimersInv, SignalInv, DeadlineBounded
          <6>2. Earliest(s) \in Nat /\ timer[s].deadline \in Int /\ LatestAnswer(s) \in Nat
            BY <1>4, <1>1
          <6> QED
            BY <6>1, <6>2, <4>2, <1>1
        <5> QED
          BY <5>3, <5>5, <5>6
      <4>4. status[s] \in {"live", "answered"}
        BY <4>2 DEF Timed
      <4>5. CancelAnswered(s)' /\ Untouched(s)' /\ NotForgotten(s)' /\ OneWait(s)'
        <5>1. CancelAnswered(s)' /\ Untouched(s)'
          BY <4>4, <1>1 DEF TimersInv, SignalInv, CancelAnswered, Untouched
        <5>2. NotForgotten(s)'
          BY <4>1, <1>1, <1>9 DEF NotForgotten
        <5>3. OneWait(s)'
          BY <4>3, <1>1 DEF OneWait
        <5> QED
          BY <5>1, <5>2, <5>3
      <4>6. SuspendedIdle(s)' /\ QueuedLate(s)' /\ DeadlineBounded(s)'
        BY <4>1, <4>3, <1>1, <1>4, <1>5, <1>7
           DEF SuspendedIdle, QueuedLate, DeadlineBounded
      <4>7. EventAtDeadline(s)' /\ EventTimely(s)'
        BY <4>1, <4>3, <1>5, <1>7 DEF EventAtDeadline, EventTimely
      <4> QED
        BY <4>5, <4>6, <4>7 DEF SignalInv
    <3>2. CASE ~ToSuspend(s)
      <4>1. timer'[s] = timer[s] /\ timeline'[s] = timeline[s]
        BY <2>1, <3>2 DEF SuspendTimers
      <4>2. NotForgotten(s)'
        BY <4>1, <1>1, <1>5, <1>9 DEF TimersInv, SignalInv, NotForgotten
      <4>3. EventTimely(s)'
        <5>1. SUFFICES ASSUME Awaited(s), timeline[s] # <<>>
                       PROVE  Begun(s)'
          BY <4>1, <1>5 DEF EventTimely
        <5>2. LatestAnswer(s) < now
          BY <5>1, <3>2, <1>1, <1>4, <1>7 DEF ToSuspend
        <5>3. ~ToBegin(s)
          BY <5>2, <1>1, <1>4 DEF ToBegin
        <5>4. Begun(s)
          BY <5>1, <5>3 DEF TimersInv, SignalInv, EventTimely
        <5>5. /\ timer'[s].arrival = timer[s].arrival /\ timer'[s].deadline \in Int
              /\ timer'[s].deadline >= timer[s].deadline
          BY <4>1, <1>4
        <5> QED
          BY <5>4, <5>5, BegunStays
      <4> QED
        BY <4>1, <4>2, <4>3, <1>6 DEF SignalInv
    <3> QED
      BY <3>1, <3>2
  <2> QED
    BY <1>3, <2>2, <2>3 DEF TimersInv
<1>10. CASE ~vspan.fire /\ neighbor.fire
  <2>1. ResumeTimers
    BY <1>10 DEF ManageLinks
  <2>2. TypeOK'
    <3>1. timer' \in [Signals -> TimerType]
      <4>1. ASSUME NEW s \in Signals
            PROVE  [timer[s] EXCEPT !.suspended = FALSE,
                                    !.deadline = ResumedDeadline(s)] \in TimerType
        BY <1>4 DEF TimerType
      <4> QED
        BY <1>4, <4>1, <2>1 DEF ResumeTimers
    <3>2. timeline' \in [Signals -> Seq(Int)]
      BY <1>4, <2>1 DEF ResumeTimers
    <3> QED
      BY <1>1, <1>2, <3>1, <3>2 DEF TimersInv, TypeOK, TimerType
  <2>3. ASSUME NEW s \in Signals
        PROVE  SignalInv(s)'
    <3>1. CASE s \in Timed /\ timer[s].suspended
      <4>1. /\ timeline'[s] = WithEvent(timeline[s], ResumedDeadline(s))
            /\ timer'[s].arrival = timer[s].arrival
            /\ timer'[s].deadline = ResumedDeadline(s)
            /\ timer'[s].suspended = FALSE
        BY <2>1, <3>1, <1>4 DEF ResumeTimers, TimerType
      <4>2. /\ Len(timeline'[s]) = Len(timeline[s]) + 1 /\ timeline'[s] # <<>>
            /\ timeline[s] = <<>> => timeline'[s][1] = ResumedDeadline(s)
        <5>1. /\ Len(timeline'[s]) = Len(timeline[s]) + 1
              /\ timeline[s] = <<>> => timeline'[s][1] = ResumedDeadline(s)
          <6> DEFINE time == ResumedDeadline(s)
          <6>1. time \in Int /\ timeline[s] \in Seq(Int)
            BY <1>4
          <6> HIDE DEF time
          <6>2. /\ Len(WithEvent(timeline[s], time)) = Len(timeline[s]) + 1
                /\ timeline[s] = <<>> => WithEvent(timeline[s], time)[1] = time
            BY <6>1, WithEventType
          <6> QED
            BY <4>1, <6>2 DEF time
        <5>2. Len(timeline[s]) \in Nat
          BY <1>4
        <5> QED
          BY <5>1, <5>2
      <4>3. s \in Segments =>
                queued[s] = 0 /\ timeline[s] = <<>> /\ timer[s].deadline = Earliest(s)
        BY <3>1, <1>8 DEF TimersInv, SignalInv, SuspendedIdle
      <4>4. status[s] \in {"live", "answered"}
        BY <3>1 DEF Timed
      <4>5. CancelAnswered(s)' /\ Untouched(s)' /\ NotForgotten(s)' /\ OneWait(s)'
        <5>1. CancelAnswered(s)' /\ Untouched(s)'
          BY <4>4, <1>1 DEF TimersInv, SignalInv, CancelAnswered, Untouched
        <5>2. NotForgotten(s)'
          BY <4>2 DEF NotForgotten
        <5>3. OneWait(s)'
          BY <4>2, <4>3, <1>1 DEF OneWait
        <5> QED
          BY <5>1, <5>2, <5>3
      <4>6. SuspendedIdle(s)' /\ QueuedLate(s)'
        BY <4>1, <4>3, <1>1, <1>5, <1>7 DEF SuspendedIdle, QueuedLate
      <4>7. DeadlineBounded(s)'
        BY <4>1, <4>3, <1>1, <1>4, <1>5, <1>7 DEF DeadlineBounded
      <4>8. EventAtDeadline(s)'
        BY <4>1, <4>2, <4>3, <1>5, <1>7 DEF EventAtDeadline
      <4>9. EventTimely(s)'
        <5>1. SUFFICES ASSUME Awaited(s)
                       PROVE  ToBegin(s)' \/ Begun(s)'
          BY <4>1, <1>5 DEF EventTimely
        <5>2. timer[s].deadline = LatestAnswer(s) + ReturnDelay
          BY <5>1, <4>3, <1>4, <1>7
        <5>3. CASE LatestAnswer(s) > now
          BY <5>2, <5>3, <4>1, <1>1, <1>4, <1>5, <1>10 DEF ToBegin
        <5>4. CASE LatestAnswer(s) <= now
          <6>1. now + ReturnDelay <= timer'[s].deadline
            BY <5>2, <5>4, <4>1, <1>1, <1>4, SMTT(30)
          <6> QED
            BY <6>1, <5>4, <4>1, <1>1, <1>2, <1>5, <1>10 DEF Begun
        <5> QED
          BY <5>3, <5>4, <1>1, <1>4
      <4> QED
        BY <4>5, <4>6, <4>7, <4>8, <4>9 DEF SignalInv
    <3>2. CASE ~(s \in Timed /\ timer[s].suspended)
      <4>1. timer'[s] = timer[s] /\ timeline'[s] = timeline[s]
        BY <2>1, <3>2 DEF ResumeTimers
      <4>2. NotForgotten(s)'
        BY <3>2, <4>1, <1>1, <1>5 DEF TimersInv, SignalInv, NotForgotten
      <4>3. EventTimely(s)'
        <5>1. SUFFICES ASSUME Awaited(s), timeline[s] # <<>>
                       PROVE  Begun(s)'
          BY <4>1, <1>5 DEF EventTimely
        <5>2. Begun(s)
          BY <5>1, <1>10 DEF TimersInv, SignalInv, EventTimely, ToBegin
        <5>3. /\ timer'[s].arrival = timer[s].arrival /\ timer'[s].deadline \in Int
              /\ timer'[s].deadline >= timer[s].deadline
          BY <4>1, <1>4
        <5> QED
          BY <5>2, <5>3, BegunStays
      <4> QED
        BY <4>1, <4>2, <4>3, <1>6 DEF SignalInv
    <3> QED
      BY <3>1, <3>2
  <2> QED
    BY <1>3, <2>2, <2>3 DEF TimersInv
<1>11. CASE vspan.fire = neighbor.fire
  <2>1. timer' = timer /\ timeline' = timeline
    BY <1>11 DEF ManageLinks
  <2>2. TypeOK'
    BY <1>1, <1>2, <2>1 DEF TimersInv, TypeOK
  <2>3. ASSUME NEW s \in Signals
        PROVE  SignalInv(s)'
    <3>1. NotForgotten(s)'
      BY <2>1, <1>1, <1>5, <1>11 DEF TimersInv, SignalInv, NotForgotten
    <3>2. EventTimely(s)'
      <4>1. SUFFICES ASSUME Awaited(s), timeline[s] # <<>>
                     PROVE  ToBegin(s)' \/ Begun(s)'
        BY <2>1, <1>5 DEF EventTimely
      <4>2. CASE Begun(s)
        BY <4>2, <2>1, <1>4, BegunStays
      <4>3. CASE ToBegin(s) /\ LatestAnswer(s) > now
        BY <4>3, <2>1, <1>1, <1>5, <1>11 DEF ToBegin
      <4>4. CASE ToBegin(s) /\ LatestAnswer(s) = now
        <5>1. now \in open' /\ now + ReturnDelay <= timer'[s].deadline
          BY <4>4, <2>1, <1>1, <1>2, <1>4, <1>11 DEF ToBegin
        <5> QED
          BY <5>1, <4>4, <2>1, <1>1, <1>5 DEF Begun
      <4> QED
        BY <4>1, <4>2, <4>3, <4>4 DEF TimersInv, SignalInv, EventTimely, ToBegin
    <3> QED
      BY <3>1, <3>2, <2>1, <1>6 DEF SignalInv
  <2> QED
    BY <1>3, <2>2, <2>3 DEF TimersInv
<1> QED
  BY <1>1, <1>9, <1>10, <1>11

(***************************************************************************)
(* The theorems.                                                           *)
(***************************************************************************)

\* Before the first signal.
LEMMA InitInv == Init => TimersInv
<1> SUFFICES ASSUME Init
             PROVE  TimersInv
  OBVIOUS
<1>1. TypeOK
  BY TimersAssumption DEF Init, TypeOK, ZeroTimer
<1>2. TransmissionSeen
  BY DEF Init, TransmissionSeen
<1>3. ASSUME NEW s \in Signals
      PROVE  SignalInv(s)
  <2>1. status[s] = "none" /\ queued[s] = 0 /\ timeline[s] = <<>> /\ timer[s] = ZeroTimer
    BY DEF Init
  <2> QED
    BY <2>1 DEF SignalInv, CancelAnswered, Untouched, NotForgotten, OneWait, SuspendedIdle,
       Awaited, QueuedLate, DeadlineBounded, EventAtDeadline, EventTimely
<1> QED
  BY <1>1, <1>2, <1>3 DEF TimersInv

\* A step in which nothing changes.
LEMMA StutterInv ==
    ASSUME TimersInv, UNCHANGED vars
    PROVE  TimersInv'
<1>1. TypeOK' /\ TransmissionSeen'
  BY DEF TimersInv, TypeOK, TransmissionSeen, vars
<1>2. \A s \in Signals : SignalInv(s)'
  BY Undisturbed DEF TimersInv, vars
<1> QED
  BY <1>1, <1>2 DEF TimersInv

\* Every state of a span's timers has the inductive invariant.
THEOREM TimersInvariant == Spec => []TimersInv
<1>1. TimersInv /\ [Next]_vars => TimersInv'
  <2> SUFFICES ASSUME TimersInv, [Next]_vars
               PROVE  TimersInv'
    OBVIOUS
  <2> QED
    BY EnqueueInv, DequeueInv, AnswerSegmentInv, AnswerCancelInv, StopInv, DispatchInv,
       SnoozeInv, ManageLinksInv, DispatchedInv, StutterInv DEF Next
<1> QED
  BY InitInv, <1>1, PTL DEF Spec

\* TypeOK of LtpTimers: the timers, the events and the queue have their types.
THEOREM TimersTypeCorrect == Spec => []TypeOK
<1>1. TimersInv => TypeOK
  BY DEF TimersInv
<1> QED
  BY <1>1, TimersInvariant, PTL

\* NeverForgotten: suspendTimer and resumeTimer lose no signal that waits.
THEOREM NothingForgotten == Spec => []NeverForgotten
<1>1. TimersInv => NeverForgotten
  BY DEF TimersInv, SignalInv, NotForgotten, NeverForgotten, Timed
<1> QED
  BY <1>1, TimersInvariant, PTL

\* OneTimeout: the segment that a session destroys leaves no event and no
\* copy in the queue behind.
THEOREM OneTimeoutEach == Spec => []OneTimeout
<1>1. TimersInv => OneTimeout
  BY DEF TimersInv, SignalInv, OneWait, OneTimeout, Segments
<1> QED
  BY <1>1, TimersInvariant, PTL

\* NoPrematureTimeout: ltpclock charges a checkpoint or a report no timeout
\* before an answer could have come.
THEOREM NoTimeoutPremature == Spec => []NoPrematureTimeout
<1>1. TimersInv => NoPrematureTimeout
  <2>1. SUFFICES ASSUME TimersInv, NEW s \in Segments, clock = "dispatching",
                        Due(s), ~Spurious(s)
                 PROVE  \E u \in open : LatestAnswer(s) <= u /\ u + ReturnDelay <= now
    BY DEF NoPrematureTimeout
  <2>2. s \in Signals /\ timeline[s] # <<>> /\ timeline[s][1] <= now
    BY <2>1 DEF Segments, Due
  <2>3. Awaited(s)
    BY <2>1, <2>2 DEF Spurious, Awaited, TimersInv, TypeOK, SignalInv, Untouched,
       CancelAnswered, Cancels
  <2>4. timer[s].deadline <= now
    BY <2>1, <2>2, <2>3 DEF TimersInv, SignalInv, EventAtDeadline
  <2>5. /\ LatestAnswer(s) \in Nat /\ timer[s].deadline \in Int /\ now \in Nat
        /\ ReturnDelay \in Nat /\ Earliest(s) = LatestAnswer(s) + ReturnDelay
    BY <2>1, <2>2, Types DEF Earliest, TimersInv
  <2>6. ~ToBegin(s)
    BY <2>1, <2>4, <2>5 DEF ToBegin
  <2>7. Begun(s)
    BY <2>1, <2>2, <2>3, <2>6 DEF TimersInv, SignalInv, EventTimely
  <2>8. \A u \in open : u \in Nat
    BY <2>1, TimersAssumption DEF TimersInv, TypeOK
  <2> QED
    BY <2>4, <2>5, <2>7, <2>8 DEF Begun
<1> QED
  BY <1>1, TimersInvariant, PTL
=============================================================================
