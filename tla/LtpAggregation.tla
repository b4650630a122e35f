--------------------------- MODULE LtpAggregation ---------------------------
(***************************************************************************)
(* The sending side of one span seen from its clients: ltp_send fills the  *)
(* block of the current session, ltpmeter cuts it into segments and starts *)
(* the next session, the link service output daemon (LSO) sends them,      *)
(* ltpclock ages the block and starts and stops the link, ltpadmin stops   *)
(* and starts the span.  They meet in the SDR, one transaction at a time,  *)
(* and in binary semaphores, which are given and taken outside it.         *)
(*                                                                         *)
(* A session ends here by one step, once its segments have been sent: how  *)
(* it ends is the subject of LtpSession.  Lists and queues are sets: which *)
(* of several segments or notices comes first makes no difference here,    *)
(* and the notice of a session's start, which returns no unit, is left out.*)
(***************************************************************************)
EXTENDS Naturals, Sequences, FiniteSetsExt

CONSTANTS
    Sdus,               \* the service data units, one call of ltp_send each
    Length, RedLength,  \* dataLength and redPartLength of each unit
    Clients, ClientOf,  \* client services, and clientSvcId of each unit
    Transient,          \* clients that may close their service
    MaxExportSessions,  \* LtpSpan.maxExportSessions
    AggrSizeLimit, AggrTimeLimit,  \* LtpSpan.aggrSizeLimit, aggrTimeLimit
    Purge,              \* LtpSpan.purge
    None,              \* no client
    MayDie, MayStop     \* whether ltpmeter may die, whether the span is stopped

VARIABLES
    \* In the database.
    exportSessions,  \* LtpSpan.exportSessions, as a set of session numbers
    session,         \* the ExportSession of each
    sessionCount,    \* LtpDB.sessionCount
    buffer,          \* current session and buffered block of LtpSpan
    segments,        \* LtpSpan.segments, all data of a block as one entry
    notices,         \* what has been put in LtpVclient.notices of each client
    \* In shared memory.
    xmit,            \* LtpVspan.localXmitRate > 0
    given, ended,    \* the semaphores that can be taken, that have ended
    open,            \* clients with LtpVclient.pid # ERROR
    \* The processes.
    sender, meter, lso, admin,
    toReset          \* the semaphores resetSpan has still to reset

database == <<exportSessions, session, sessionCount, buffer, segments, notices>>
processes == <<sender, meter, lso, admin, toReset>>
vars == <<database, xmit, given, ended, open, processes>>

ASSUME AggregationAssumption ==
    /\ IsFiniteSet(Sdus) /\ None \notin Clients
    /\ Length \in [Sdus -> Nat \ {0}] /\ RedLength \in [Sdus -> Nat]
    /\ \A s \in Sdus : RedLength[s] <= Length[s]
    /\ ClientOf \in [Sdus -> Clients] /\ Transient \subseteq Clients
    /\ MaxExportSessions \in Nat
    /\ AggrSizeLimit \in Nat \ {0} /\ AggrTimeLimit \in Nat \ {0}
    /\ Purge \in BOOLEAN /\ MayDie \in BOOLEAN /\ MayStop \in BOOLEAN

(***************************************************************************)
(* Semaphores: bufOpenRed, bufOpenGreen, bufClosed and segSemaphore of the *)
(* span.                                                                   *)
(***************************************************************************)
OpenSems == {"red", "green"}
SpanSems == OpenSems \cup {"closed", "seg"}

\* The semaphore an ltp_send waits for.
SemOf(s) == IF RedLength[s] > 0 THEN "red" ELSE "green"

\* sm_SemTake succeeds; the taker has not looked at sm_SemEnded yet.
SemTake(sem) == sem \in given /\ given' = given \ {sem}

\* sm_SemEnded gives an ended semaphore again, to its next taker.
SemEnded(sem) == sem \in ended /\ given' = given \cup {sem}

\* No resetSpan, which locks the SDR, is under way.
Unlocked == admin \notin {"give", "take"}

(***************************************************************************)
(* The current block.                                                      *)
(***************************************************************************)
Buffer(nbr) == [current |-> nbr, length |-> 0, red |-> 0, client |-> None, age |-> 0]

NewSession == [sdus |-> {}, total |-> 0, red |-> 0, client |-> None]

\* Faulty variant: the over-limit session is open to red data.
EmptyBlockAcceptsOneMore(s) ==
    \/ Cardinality(exportSessions) <= MaxExportSessions + 1
    \/ RedLength[s] = 0

EmptyBlockAccepts(s) ==
    \/ Cardinality(exportSessions) <= MaxExportSessions
    \/ RedLength[s] = 0

\* Faulty variant: does not look at the client of the block.
FilledBlockAcceptsAnyClient(s) ==
    /\ buffer.length = buffer.red
    /\ buffer.length < AggrSizeLimit

FilledBlockAccepts(s) ==
    /\ buffer.length = buffer.red
    /\ buffer.length < AggrSizeLimit
    /\ ClientOf[s] = buffer.client

\* sduCanBeAppendedToBlock, and the test for a current session before it.
CanBeAppended(s) ==
    /\ buffer.current # 0
    /\ IF buffer.length = 0 THEN EmptyBlockAccepts(s) ELSE FilledBlockAccepts(s)

\* The block is released for segmentation when it is full or has green data.
IsClosed(b) == b.length >= AggrSizeLimit \/ b.red < b.length

AppendSdu(s) ==
    /\ session' = [session EXCEPT ![buffer.current].sdus = @ \cup {s}]
    /\ buffer' = [buffer EXCEPT !.client = ClientOf[s],
                                !.length = @ + Length[s],
                                !.red = @ + RedLength[s]]
    /\ given' = given \cup (IF IsClosed(buffer') THEN {"closed"} ELSE {})

(***************************************************************************)
(* Sessions start and end.                                                 *)
(***************************************************************************)
\* sessions without those of N, and with a new one if restart.
Sessions(N, restart) ==
    LET kept == exportSessions \ N
        new == IF restart THEN {sessionCount + 1} ELSE {}
    IN  /\ exportSessions' = kept \cup new
        /\ session' = [n \in kept \cup new |->
                          IF n \in kept THEN session[n] ELSE NewSession]
        /\ sessionCount' = IF restart THEN sessionCount + 1 ELSE sessionCount

\* An active span has room: senders may go on.
OpenTokens(active) == IF active THEN OpenSems ELSE {}

StartExportSession ==
    /\ Sessions({}, TRUE)
    /\ buffer' = [buffer EXCEPT !.current = sessionCount + 1]
    /\ given' = given \cup OpenTokens(xmit)

\* Faulty variant: a current session has no client yet.
ToldOfSession(n) == session[n].client

\* The client that is told of session n: cancelSessionBySender notes it for
\* a current session, which has none yet.
ToldOf(n) == IF n = buffer.current THEN buffer.client ELSE session[n].client

\* enqueueNotice for every unit of the sessions of N.
Returned(N, type, c) ==
    [type : {type}, sdu : UNION {session[n].sdus : n \in {m \in N : ToldOf(m) = c}}]

NotifyAll(N, type) ==
    notices' = [c \in Clients |->
                   notices[c] \cup IF c \in open THEN Returned(N, type, c) ELSE {}]

\* closeExportSession; handleCR does the same with its own notices.
CloseExportSession(n, type) ==
    /\ Sessions({n}, FALSE)
    /\ NotifyAll({n}, type)
    /\ given' = given \cup OpenSems
    /\ UNCHANGED buffer

\* cancelSessionBySender for each session of N, on a span that is active or
\* not, with the semaphores of tokens already given.
CancelSessions(N, active, tokens) ==
    LET restart == buffer.current \in N
    IN  /\ Sessions(N, restart)
        /\ NotifyAll(N, "canceled")
        /\ buffer' = IF restart THEN Buffer(sessionCount + 1) ELSE buffer
        /\ segments' = {x \in segments : x.nbr \notin N}
                          \cup [nbr : N, kind : {"cancel"}]
        /\ given' = given \cup tokens
                      \cup OpenTokens((restart /\ active) \/ N \ {buffer.current} # {})
                      \cup (IF active /\ N # {} THEN {"seg"} ELSE {})

(***************************************************************************)
(* ltp_send of unit s: try, or wait for a semaphore and try again.         *)
(***************************************************************************)
TrySend(s) ==
    /\ sender[s] \in {"new", "retry"}
    /\ Unlocked
    /\ \/ /\ CanBeAppended(s)
          /\ AppendSdu(s)
          /\ sender' = [sender EXCEPT ![s] = "accepted"]
       \/ /\ ~CanBeAppended(s)
          /\ sender' = [sender EXCEPT ![s] = "blocked"]
          /\ UNCHANGED <<session, buffer, given>>
    /\ UNCHANGED <<exportSessions, sessionCount, segments, notices, xmit, ended,
                   open, meter, lso, admin, toReset>>

SenderTakes(s) ==
    /\ sender[s] = "blocked"
    /\ SemTake(SemOf(s))
    /\ sender' = [sender EXCEPT ![s] = "taken"]
    /\ UNCHANGED <<database, xmit, ended, open, meter, lso, admin, toReset>>

SenderWakes(s) ==
    /\ sender[s] = "taken"
    /\ \/ /\ SemEnded(SemOf(s))
          /\ sender' = [sender EXCEPT ![s] = "stopped"]
       \/ /\ SemOf(s) \notin ended
          /\ sender' = [sender EXCEPT ![s] = "retry"]
          /\ UNCHANGED given
    /\ UNCHANGED <<database, xmit, ended, open, meter, lso, admin, toReset>>

(***************************************************************************)
(* ltpmeter.                                                               *)
(***************************************************************************)
\* The block's segments are queued.
SegmentBlock ==
    /\ session' = [session EXCEPT ![buffer.current].total = buffer.length,
                                  ![buffer.current].red = buffer.red,
                                  ![buffer.current].client = buffer.client]
    /\ segments' = segments \cup {[nbr |-> buffer.current, kind |-> "data"]}
    /\ given' = given \cup (IF xmit THEN {"seg"} ELSE {})
    /\ buffer' = Buffer(0)
    /\ UNCHANGED <<exportSessions, sessionCount, notices>>

MeterUnchanged == UNCHANGED <<xmit, ended, open, sender, lso, admin, toReset>>

\* Faulty variant: starts a session though there is a current one.
MeterStartsSessionAnyway ==
    /\ meter \in {"init", "start"}
    /\ Unlocked
    /\ StartExportSession
    /\ meter' = "check"
    /\ UNCHANGED <<segments, notices>>
    /\ MeterUnchanged

\* Before the main loop, and after each block.
MeterStartsSession ==
    /\ meter \in {"init", "start"}
    /\ Unlocked
    /\ IF buffer.current = 0 THEN StartExportSession
       ELSE UNCHANGED <<exportSessions, session, sessionCount, buffer, given>>
    /\ meter' = "check"
    /\ UNCHANGED <<segments, notices>>
    /\ MeterUnchanged

\* A full block needs no semaphore.
MeterChecks ==
    /\ meter = "check"
    /\ Unlocked
    /\ \/ /\ buffer.length >= AggrSizeLimit
          /\ SegmentBlock
          /\ meter' = "start"
       \/ /\ buffer.length < AggrSizeLimit
          /\ meter' = "blocked"
          /\ UNCHANGED <<database, given>>
    /\ MeterUnchanged

MeterTakes ==
    /\ meter = "blocked"
    /\ SemTake("closed")
    /\ meter' = "taken"
    /\ UNCHANGED database
    /\ MeterUnchanged

MeterWakes ==
    /\ meter = "taken"
    /\ \/ /\ SemEnded("closed")
          /\ meter' = "ended"
          /\ UNCHANGED database
       \/ /\ "closed" \notin ended
          /\ Unlocked
          /\ \/ /\ buffer.length = 0
                /\ meter' = "blocked"
                /\ UNCHANGED <<database, given>>
             \/ /\ buffer.length > 0
                /\ SegmentBlock
                /\ meter' = "start"
    /\ MeterUnchanged

\* ltpmeter is killed between two transactions; ltpadmin starts it again.
MeterDies ==
    /\ MayDie
    /\ meter \in {"init", "start", "check", "blocked", "taken"}
    /\ meter' = "dead"
    /\ UNCHANGED <<database, given>>
    /\ MeterUnchanged

RestartMeter ==
    /\ meter = "dead"
    /\ admin = "up"
    /\ meter' = "init"
    /\ UNCHANGED <<database, given>>
    /\ MeterUnchanged

(***************************************************************************)
(* The LSO: ltpDequeueOutboundSegment, again and again.                    *)
(***************************************************************************)
LsoUnchanged == UNCHANGED <<xmit, ended, open, sender, meter, admin, toReset>>

AllGreen(x) == x.kind = "data" /\ session[x.nbr].red = 0

\* The last segment of an all-green block ends its session.
LsoSends ==
    /\ lso = "check"
    /\ Unlocked
    /\ xmit
    /\ \E x \in segments :
          /\ segments' = segments \ {x}
          /\ \/ AllGreen(x) /\ CloseExportSession(x.nbr, "complete")
             \/ /\ ~AllGreen(x)
                /\ UNCHANGED <<exportSessions, session, sessionCount, buffer,
                               notices, given>>
    /\ UNCHANGED lso
    /\ LsoUnchanged

LsoBlocks ==
    /\ lso = "check"
    /\ Unlocked
    /\ segments = {} \/ ~xmit
    /\ lso' = "blocked"
    /\ UNCHANGED <<database, given>>
    /\ LsoUnchanged

LsoTakes ==
    /\ lso = "blocked"
    /\ SemTake("seg")
    /\ lso' = "taken"
    /\ UNCHANGED database
    /\ LsoUnchanged

LsoWakes ==
    /\ lso = "taken"
    /\ \/ SemEnded("seg") /\ lso' = "ended"
       \/ "seg" \notin ended /\ lso' = "check" /\ UNCHANGED given
    /\ UNCHANGED database
    /\ LsoUnchanged

(***************************************************************************)
(* The peer's reports and cancellations, and the limit of retries, end a   *)
(* session with red data once its segments have been sent.                 *)
(***************************************************************************)
Awaiting == {n \in exportSessions : /\ session[n].red > 0
                                    /\ \A x \in segments : x.nbr # n}

SessionUnchanged == UNCHANGED <<xmit, ended, open, processes>>

HandleFinalReport(n) ==
    Unlocked /\ CloseExportSession(n, "complete") /\ UNCHANGED segments /\ SessionUnchanged

HandleCR(n) ==
    Unlocked /\ CloseExportSession(n, "canceled") /\ UNCHANGED segments /\ SessionUnchanged

ResendLimit(n) ==
    Unlocked /\ CancelSessions({n}, xmit, {}) /\ SessionUnchanged

EndSession(n) == HandleFinalReport(n) \/ HandleCR(n) \/ ResendLimit(n)

(***************************************************************************)
(* ltpclock, once a second: manageLinks with the rate of the contact plan. *)
(***************************************************************************)
Populated == {n \in exportSessions : session[n].sdus # {}}

\* The age is counted up to the limit only (a bound of the model).
Age == IF buffer.length = 0 \/ buffer.age = AggrTimeLimit THEN buffer.age
       ELSE buffer.age + 1

\* Faulty variant: the age of a block closes nothing.
AgedTokensNever == {}

AgedTokens == IF buffer.length > 0 /\ Age >= AggrTimeLimit THEN {"closed"} ELSE {}

\* Faulty variant: does not tell the LSO of the segments that wait.
StartTokensOpenOnly == OpenSems

\* ltpStartXmit.
StartTokens == OpenSems \cup (IF segments # {} THEN {"seg"} ELSE {})

ClockTick(up) ==
    /\ Unlocked
    /\ xmit' = up
    /\ \/ /\ Purge /\ xmit /\ ~up
          /\ CancelSessions(Populated, FALSE, AgedTokens)
       \/ /\ ~(Purge /\ xmit /\ ~up)
          /\ buffer' = [buffer EXCEPT !.age = Age]
          /\ given' = given \cup AgedTokens
                        \cup (IF up /\ ~xmit THEN StartTokens ELSE {})
          /\ UNCHANGED <<exportSessions, session, sessionCount, segments, notices>>
    /\ UNCHANGED <<ended, open, processes>>

(***************************************************************************)
(* A client closes its service with ltp_close and opens it again.          *)
(***************************************************************************)
ClientUnchanged == UNCHANGED <<database, xmit, given, ended, processes>>

CloseClient(c) ==
    c \in Transient \cap open /\ Unlocked /\ open' = open \ {c} /\ ClientUnchanged

OpenClient(c) ==
    c \notin open /\ Unlocked /\ open' = open \cup {c} /\ ClientUnchanged

(***************************************************************************)
(* ltpadmin: ltpStopSpan and ltpStartSpan.  resetSpan takes each semaphore *)
(* it has given, so as to leave it taken, inside one transaction.          *)
(***************************************************************************)
AdminUnchanged == UNCHANGED <<database, xmit, open, sender>>

StopSpan ==
    /\ MayStop /\ admin = "up"
    /\ admin' = "ending"
    /\ ended' = SpanSems
    /\ given' = given \cup SpanSems
    /\ UNCHANGED <<meter, lso, toReset>>
    /\ AdminUnchanged

\* waitForSpan waits for the two daemons, and for nobody else.
BeginReset ==
    /\ admin = "ending"
    /\ meter \in {"ended", "dead"} /\ lso = "ended"
    /\ admin' = "give"
    /\ toReset' = <<"red", "green", "closed", "seg">>
    /\ UNCHANGED <<given, ended, meter, lso>>
    /\ AdminUnchanged

\* sm_SemUnend and sm_SemGive.
ResetGives ==
    /\ admin = "give"
    /\ ended' = ended \ {Head(toReset)}
    /\ given' = given \cup {Head(toReset)}
    /\ admin' = "take"
    /\ UNCHANGED <<meter, lso, toReset>>
    /\ AdminUnchanged

ResetTakes ==
    /\ admin = "take"
    /\ SemTake(Head(toReset))
    /\ toReset' = Tail(toReset)
    /\ admin' = IF toReset' = <<>> THEN "down" ELSE "give"
    /\ UNCHANGED <<ended, meter, lso>>
    /\ AdminUnchanged

StartSpan ==
    /\ admin = "down"
    /\ admin' = "up" /\ meter' = "init" /\ lso' = "check"
    /\ UNCHANGED <<given, ended, toReset>>
    /\ AdminUnchanged

(***************************************************************************)
(* The specification.                                                      *)
(***************************************************************************)
\* A span just added and started; every client has opened its service.
Init ==
    /\ exportSessions = {} /\ session = <<>> /\ sessionCount = 0
    /\ buffer = Buffer(0) /\ segments = {} /\ notices = [c \in Clients |-> {}]
    /\ xmit = FALSE /\ given = {} /\ ended = {} /\ open = Clients
    /\ sender = [s \in Sdus |-> "new"]
    /\ meter = "init" /\ lso = "check" /\ admin = "up" /\ toReset = <<>>

Send(s) == TrySend(s) \/ SenderTakes(s) \/ SenderWakes(s)

Meter == MeterStartsSession \/ MeterChecks \/ MeterTakes \/ MeterWakes

Lso == LsoSends \/ LsoBlocks \/ LsoTakes \/ LsoWakes

Reset == ResetGives \/ ResetTakes

Next ==
    \/ \E s \in Sdus : Send(s)
    \/ Meter \/ MeterDies \/ RestartMeter
    \/ Lso
    \/ \E n \in Awaiting : EndSession(n)
    \/ \E up \in BOOLEAN : ClockTick(up)
    \/ \E c \in Clients : CloseClient(c) \/ OpenClient(c)
    \/ StopSpan \/ BeginReset \/ Reset \/ StartSpan

(***************************************************************************)
(* Fairness.  Senders and daemons keep running; ltpmeter, started again    *)
(* after each death, gets as far as its next step in the end; every        *)
(* session ends, as LtpSession shows (SenderFinishes); and ltpclock sees a *)
(* contact now and then.                                                   *)
(***************************************************************************)
Fairness ==
    /\ \A s \in Sdus : WF_vars(Send(s))
    /\ SF_vars(MeterStartsSession) /\ SF_vars(MeterChecks)
    /\ SF_vars(MeterTakes) /\ SF_vars(MeterWakes) /\ WF_vars(RestartMeter)
    /\ WF_vars(Lso)
    /\ WF_vars(\E n \in Awaiting : EndSession(n))
    /\ WF_vars(ClockTick(TRUE))
    /\ WF_vars(BeginReset \/ Reset \/ StartSpan)

Spec == Init /\ [][Next]_vars

FairSpec == Spec /\ Fairness

(***************************************************************************)
(* Properties.                                                             *)
(***************************************************************************)
Nbrs == 1..sessionCount

TypeOK ==
    /\ exportSessions \subseteq Nbrs /\ sessionCount \in Nat
    /\ session \in [exportSessions ->
                       [sdus : SUBSET Sdus, total : Nat, red : Nat,
                        client : Clients \cup {None}]]
    /\ buffer \in [current : {0} \cup exportSessions, length : Nat, red : Nat,
                   client : Clients \cup {None}, age : 0..AggrTimeLimit]
    /\ segments \subseteq [nbr : Nbrs, kind : {"data", "cancel"}]
    /\ notices \in [Clients -> SUBSET [type : {"complete", "canceled"}, sdu : Sdus]]
    /\ xmit \in BOOLEAN /\ open \subseteq Clients
    /\ given \subseteq SpanSems /\ ended \subseteq SpanSems
    /\ sender \in [Sdus -> {"new", "blocked", "taken", "retry", "accepted", "stopped"}]
    /\ meter \in {"init", "check", "blocked", "taken", "start", "ended", "dead"}
    /\ lso \in {"check", "blocked", "taken", "ended"}
    /\ admin \in {"up", "ending", "give", "take", "down"}
    /\ toReset \in Seq(SpanSems)

\* Flow control: the sessions that hold red data, which may have to be sent
\* again, are never more than the limit (sduCanBeAppendedToBlock,
\* src/ltp/library/libltp.c:31, and its comment).
HoldsRed(n) == \E s \in session[n].sdus : RedLength[s] > 0

RedWindow == Cardinality({n \in exportSessions : HoldsRed(n)}) <= MaxExportSessions

\* Only the current session waits for segmentation, however ltpmeter and the
\* purge of ltpStopXmit start sessions: none is lost from the span's view
\* before its block has been cut into segments.
OneOpenBlock ==
    \A n \in exportSessions : session[n].total = 0 <=> n = buffer.current

\* The lengths in the span are those of the units in the current session,
\* and a block is well formed: units of one client, and none follows green
\* data or a block that is already full (ltp_send).
SizeOf(S) == MapThenSumSet(LAMBDA s : Length[s], S)

WellFormed(S) ==
    /\ \A s, t \in S : ClientOf[s] = ClientOf[t]
    /\ S # {} => \E last \in S :
          /\ SizeOf(S \ {last}) < AggrSizeLimit
          /\ \A s \in S \ {last} : RedLength[s] = Length[s]

BlocksConsistent ==
    /\ \A n \in exportSessions :
          /\ WellFormed(session[n].sdus)
          /\ SizeOf(session[n].sdus) =
                IF n = buffer.current THEN buffer.length ELSE session[n].total
    /\ buffer.current = 0 => buffer.length = 0

\* Every unit that ltp_send accepted is in one session or has been put in one
\* notice, never both; a client that closes its service may lose its units
\* (enqueueNotice).
Places(s) ==
    Cardinality({n \in exportSessions : s \in session[n].sdus})
    + Cardinality({x \in UNION {notices[c] : c \in Clients} : x.sdu = s})

SdusAccounted ==
    \A s \in Sdus :
        /\ Places(s) <= IF sender[s] = "accepted" THEN 1 ELSE 0
        /\ sender[s] = "accepted" /\ ClientOf[s] \notin Transient => Places(s) = 1

\* No lost wakeup: an LSO that waits for its semaphore has nothing to send
\* (signalLso, ltpStartXmit).
NoLostWakeup == lso = "blocked" /\ "seg" \notin given => segments = {} \/ ~xmit

\* Every unit given to ltp_send is accepted and comes back to its client in a
\* notice, unless the client closes its service, once a contact lasts.
SdusComeBack ==
    <>[]xmit => <>(\A c \in Clients \ Transient :
                     {s \in Sdus : ClientOf[s] = c} = {x.sdu : x \in notices[c]})

=============================================================================
