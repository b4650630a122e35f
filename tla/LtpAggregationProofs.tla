------------------------ MODULE LtpAggregationProofs -------------------------
(***************************************************************************)
(* The properties of LtpAggregation for every set of service data units    *)
(* and of clients, every window and every limit, with ltpmeter killed, the *)
(* span stopped and the link lost at any time.                             *)
(***************************************************************************)
EXTENDS LtpAggregation, DataLemmas

(***************************************************************************)
(* The inductive invariant.                                                *)
(***************************************************************************)
SessionType == [sdus : SUBSET Sdus, total : Nat, red : Nat, client : Clients \cup {None}]

NoticeType == [type : {"complete", "canceled"}, sdu : Sdus]

DataType ==
    /\ exportSessions \subseteq Nbrs /\ sessionCount \in Nat
    /\ session \in [exportSessions -> SessionType]
    /\ buffer \in [current : {0} \cup exportSessions, length : Nat, red : Nat,
                   client : Clients \cup {None}, age : 0..AggrTimeLimit]
    /\ segments \subseteq [nbr : Nbrs, kind : {"data", "cancel"}]
    /\ notices \in [Clients -> SUBSET NoticeType]
    /\ sender \in [Sdus -> {"new", "blocked", "taken", "retry", "accepted", "stopped"}]

ControlType ==
    /\ xmit \in BOOLEAN
    /\ given \subseteq SpanSems /\ ended \subseteq SpanSems
    /\ meter \in {"init", "check", "blocked", "taken", "start", "ended", "dead"}
    /\ lso \in {"check", "blocked", "taken", "ended"}
    /\ admin \in {"up", "ending", "give", "take", "down"}
    /\ toReset \in Seq(SpanSems)

\* The sessions but the current one have been cut into segments.
Cut(n) ==
    /\ session[n].total = 0 <=> n = buffer.current
    /\ n = buffer.current => session[n].red = 0

\* The data in the queue are those of sessions, the cancellations those of
\* former sessions.
Queued(x) ==
    IF x.kind = "data" THEN x.nbr \in exportSessions /\ x.nbr # buffer.current
                       ELSE x.nbr \notin exportSessions

BufferSound ==
    /\ buffer.red <= buffer.length
    /\ buffer.length > 0 => buffer.current # 0
    /\ buffer.red > 0 => HoldsRed(buffer.current)

LengthOf(n) == IF n = buffer.current THEN buffer.length ELSE session[n].total

BlockSound(n) ==
    /\ WellFormed(session[n].sdus)
    /\ SizeOf(session[n].sdus) = LengthOf(n)
    /\ n = buffer.current /\ buffer.length = buffer.red =>
           \A u \in session[n].sdus : RedLength[u] = Length[u]
    /\ \A u \in session[n].sdus : ClientOf[u] = ToldOf(n)

Told == UNION {notices[c] : c \in Clients}

Held(s) == \E n \in exportSessions : s \in session[n].sdus

Noticed(s) == \E x \in Told : x.sdu = s

\* Where a unit is.
Placed(s) ==
    /\ Held(s) \/ Noticed(s) => sender[s] = "accepted"
    /\ ~(Held(s) /\ Noticed(s))
    /\ \A m, n \in exportSessions : s \in session[m].sdus /\ s \in session[n].sdus => m = n
    /\ \A x, y \in Told : x.sdu = s /\ y.sdu = s => x = y
    /\ sender[s] = "accepted" /\ ClientOf[s] \notin Transient => Held(s) \/ Noticed(s)

ServiceKept == open \subseteq Clients /\ Clients \ Transient \subseteq open

DataInv ==
    /\ DataType /\ BufferSound /\ RedWindow /\ ServiceKept
    /\ \A n \in exportSessions : Cut(n) /\ BlockSound(n)
    /\ \A x \in segments : Queued(x)
    /\ \A s \in Sdus : Placed(s)

\* The span is reset when both daemons are gone.
ResetAlone ==
    /\ admin \in {"give", "take"} => toReset # <<>>
    /\ admin \in {"give", "take", "down"} => lso = "ended"

ControlInv == ControlType /\ NoLostWakeup /\ ResetAlone

AggregationInv == DataInv /\ ControlInv

(***************************************************************************)
(* Lemmas on blocks.                                                       *)
(***************************************************************************)

\* Sizes of finite sets of units are numbers.
LEMMA SizeType ==
    ASSUME NEW S \in SUBSET Sdus
    PROVE  SizeOf(S) \in Nat /\ IsFiniteSet(S)
<1>1. IsFiniteSet(S) /\ \A x \in S : Length[x] \in Nat
  BY FS_Subset, AggregationAssumption
<1>2. SizeOf(S) = SumOf(Length, S)
  BY DEF SizeOf, SumOf
<1> QED
  BY <1>1, <1>2, SumType

\* No units, no bytes.
LEMMA SizeEmpty == SizeOf({}) = 0
<1>1. SizeOf({}) = SumOf(Length, {})
  BY DEF SizeOf, SumOf
<1> QED
  BY <1>1, SumEmpty

\* One more unit adds its length.
LEMMA SizeMore ==
    ASSUME NEW S \in SUBSET Sdus, NEW s \in Sdus \ S
    PROVE  SizeOf(S \cup {s}) = SizeOf(S) + Length[s]
<1>1. IsFiniteSet(S) /\ \A x \in S \cup {s} : Length[x] \in Nat
  BY SizeType, AggregationAssumption
<1>2. SizeOf(S) = SumOf(Length, S) /\ SizeOf(S \cup {s}) = SumOf(Length, S \cup {s})
  BY DEF SizeOf, SumOf
<1>3. SumOf(Length, S \cup {s}) = Length[s] + SumOf(Length, S)
  BY <1>1, SumMore
<1>4. SizeOf(S) \in Nat /\ Length[s] \in Nat
  BY SizeType, AggregationAssumption
<1> QED
  BY <1>2, <1>3, <1>4

\* Only the empty block has no length.
LEMMA SizePositive ==
    ASSUME NEW S \in SUBSET Sdus, SizeOf(S) = 0
    PROVE  S = {}
<1> SUFFICES ASSUME NEW s \in S
             PROVE  FALSE
  OBVIOUS
<1>1. S \ {s} \in SUBSET Sdus /\ s \in Sdus \ (S \ {s}) /\ (S \ {s}) \cup {s} = S
  OBVIOUS
<1>2. SizeOf(S) = SizeOf(S \ {s}) + Length[s]
  BY <1>1, SizeMore
<1>3. SizeOf(S \ {s}) \in Nat /\ Length[s] \in Nat \ {0}
  BY <1>1, SizeType, AggregationAssumption
<1> QED
  BY <1>2, <1>3

\* An empty block is well formed.
LEMMA EmptyWellFormed == WellFormed({})
BY DEF WellFormed

\* A unit is appended to a block of its own client that is not full and all red.
LEMMA AppendedWellFormed ==
    ASSUME NEW S \in SUBSET Sdus, NEW s \in Sdus \ S,
           \A u \in S : ClientOf[u] = ClientOf[s] /\ RedLength[u] = Length[u],
           SizeOf(S) < AggrSizeLimit
    PROVE  WellFormed(S \cup {s})
<1>1. (S \cup {s}) \ {s} = S
  OBVIOUS
<1> QED
  BY <1>1 DEF WellFormed

(***************************************************************************)
(* Sessions that start and end.                                            *)
(***************************************************************************)

\* The number of the next session is that of none.
LEMMA SessionsFinite ==
    ASSUME DataType
    PROVE  /\ IsFiniteSet(exportSessions) /\ sessionCount \in Nat
           /\ sessionCount + 1 \notin exportSessions /\ 0 \notin exportSessions
           /\ \A n \in exportSessions : n \in Nat /\ n <= sessionCount
<1>1. sessionCount \in Nat /\ exportSessions \subseteq 1..sessionCount
  BY DEF DataType, Nbrs
<1>2. IsFiniteSet(1..sessionCount)
  BY <1>1, FS_Interval
<1>3. IsFiniteSet(exportSessions)
  BY <1>1, <1>2, FS_Subset
<1> QED
  BY <1>1, <1>3

\* What sessions there are after some of them ended, with a new one for the
\* current block if that was among them.
LEMMA SessionsShape ==
    ASSUME DataType, NEW N, NEW restart \in BOOLEAN, Sessions(N, restart)
    PROVE  /\ sessionCount' \in Nat /\ sessionCount' >= sessionCount
           /\ exportSessions' \subseteq Nbrs'
           /\ session' \in [exportSessions' -> SessionType]
           /\ exportSessions \ N \subseteq exportSessions'
           /\ restart => sessionCount + 1 \in exportSessions'
           /\ \A n \in exportSessions' :
                 \/ n \in exportSessions \ N /\ session'[n] = session[n]
                 \/ restart /\ n = sessionCount + 1 /\ session'[n] = NewSession
<1> DEFINE kept == exportSessions \ N
           new == IF restart THEN {sessionCount + 1} ELSE {}
<1>1. /\ exportSessions' = kept \cup new
      /\ session' = [n \in kept \cup new |-> IF n \in kept THEN session[n] ELSE NewSession]
      /\ sessionCount' = IF restart THEN sessionCount + 1 ELSE sessionCount
  BY DEF Sessions
<1>2. /\ sessionCount \in Nat /\ \A n \in kept : n \in 1..sessionCount
      /\ \A n \in kept : session[n] \in SessionType
  BY DEF DataType, Nbrs
<1>3. NewSession \in SessionType
  BY DEF NewSession, SessionType
<1>4. \A n \in kept \cup new : n \in kept \/ (restart /\ n = sessionCount + 1)
  OBVIOUS
<1>5. sessionCount' \in Nat /\ sessionCount' >= sessionCount
  BY <1>1, <1>2
<1>6. exportSessions' \subseteq Nbrs'
  <2>1. ASSUME NEW n \in kept \cup new
        PROVE  n \in 1..sessionCount'
    <3>1. CASE n \in kept
      BY <3>1, <1>2, <1>5
    <3>2. CASE restart /\ n = sessionCount + 1
      BY <3>2, <1>1, <1>2
    <3> QED
      BY <3>1, <3>2, <1>4
  <2> QED
    BY <2>1, <1>1 DEF Nbrs
<1>7. session' \in [exportSessions' -> SessionType]
  BY <1>1, <1>2, <1>3
<1>8. \A n \in exportSessions' :
         \/ n \in exportSessions \ N /\ session'[n] = session[n]
         \/ restart /\ n = sessionCount + 1 /\ session'[n] = NewSession
  BY <1>1, <1>4
<1>9. restart => sessionCount + 1 \in exportSessions'
  BY <1>1
<1> QED
  BY <1>1, <1>5, <1>6, <1>7, <1>8, <1>9

\* The window has room for what is left.
LEMMA WindowShrinks ==
    ASSUME DataType, RedWindow, NEW R,
           R \subseteq {n \in exportSessions : HoldsRed(n)}
    PROVE  Cardinality(R) <= MaxExportSessions
<1> DEFINE Q == {n \in exportSessions : HoldsRed(n)}
<1>1. IsFiniteSet(Q)
  BY SessionsFinite, FS_Subset
<1>2. R \subseteq Q /\ Cardinality(Q) <= MaxExportSessions
  BY DEF RedWindow
<1> HIDE DEF Q
<1>3. Cardinality(R) <= Cardinality(Q) /\ Cardinality(R) \in Nat /\ Cardinality(Q) \in Nat
  BY <1>1, <1>2, FS_Subset, FS_CardinalityType
<1> QED
  BY <1>2, <1>3, AggregationAssumption

\* The red data of sessions that stay, and of a new one, which has none.
LEMMA WindowKept ==
    ASSUME DataInv, NEW N, NEW restart \in BOOLEAN, Sessions(N, restart)
    PROVE  RedWindow'
<1> DEFINE R == {n \in exportSessions' : HoldsRed(n)'}
<1>1. DataType /\ RedWindow
  BY DEF DataInv
<1>2. ASSUME NEW n \in exportSessions', HoldsRed(n)'
      PROVE  n \in exportSessions /\ HoldsRed(n)
  <2>1. \E s \in session'[n].sdus : RedLength[s] > 0
    BY <1>2 DEF HoldsRed
  <2>2. \/ n \in exportSessions /\ session'[n] = session[n]
        \/ session'[n] = NewSession
    BY <1>1, SessionsShape
  <2> QED
    BY <2>1, <2>2 DEF HoldsRed, NewSession
<1>3. R \subseteq {n \in exportSessions : HoldsRed(n)}
  BY <1>2
<1>4. Cardinality(R) <= MaxExportSessions
  BY <1>1, <1>3, WindowShrinks
<1> QED
  BY <1>4 DEF RedWindow

\* The units of the sessions that stay, with the same notices.
LEMMA PlacedStill ==
    ASSUME \A s \in Sdus : Placed(s), notices' = notices,
           \A n \in exportSessions' : \/ session'[n].sdus = {}
                                      \/ n \in exportSessions /\ session'[n].sdus = session[n].sdus,
           \A n \in exportSessions : n \in exportSessions' /\ session'[n].sdus = session[n].sdus,
           \A s \in Sdus : sender'[s] = "accepted" <=> sender[s] = "accepted"
    PROVE  \A s \in Sdus : Placed(s)'
<1> SUFFICES ASSUME NEW s \in Sdus
             PROVE  Placed(s)'
  OBVIOUS
<1>1. Told' = Told /\ Noticed(s)' = Noticed(s)
  BY DEF Told, Noticed
<1>2. Held(s)' = Held(s)
  BY DEF Held
<1>3. ASSUME NEW n \in exportSessions', s \in session'[n].sdus
      PROVE  n \in exportSessions /\ s \in session[n].sdus
  BY <1>3
<1> QED
  BY <1>1, <1>2, <1>3 DEF Placed

\* The units of the sessions that end go into notices, unless their client has
\* closed its service.
LEMMA PlacedMoved ==
    ASSUME DataInv, NEW N \in SUBSET exportSessions, NEW restart \in BOOLEAN,
           Sessions(N, restart), NEW type \in {"complete", "canceled"}, NotifyAll(N, type),
           sender' = sender
    PROVE  /\ notices' \in [Clients -> SUBSET NoticeType]
           /\ \A s \in Sdus : Placed(s)'
<1>1. /\ DataType /\ ServiceKept /\ notices \in [Clients -> SUBSET NoticeType]
      /\ session \in [exportSessions -> SessionType]
      /\ \A s \in Sdus : Placed(s)
      /\ \A n \in exportSessions : \A u \in session[n].sdus : u \in Sdus /\ ClientOf[u] = ToldOf(n)
  BY DEF DataInv, DataType, BlockSound, SessionType
<1>2. ASSUME NEW c \in Clients
      PROVE  /\ notices'[c] \subseteq NoticeType
             /\ notices[c] \subseteq notices'[c]
             /\ \A x \in notices'[c] :
                   \/ x \in notices[c]
                   \/ /\ x = [type |-> type, sdu |-> x.sdu]
                      /\ \E n \in N : x.sdu \in session[n].sdus
             /\ c \in open => \A n \in N : \A u \in session[n].sdus :
                   ToldOf(n) = c => [type |-> type, sdu |-> u] \in notices'[c]
  <2>1. notices'[c] = notices[c] \cup IF c \in open THEN Returned(N, type, c) ELSE {}
    BY DEF NotifyAll
  <2>2. ASSUME NEW x \in Returned(N, type, c)
        PROVE  /\ x \in NoticeType /\ x = [type |-> type, sdu |-> x.sdu]
               /\ \E n \in N : x.sdu \in session[n].sdus
    <3>1. PICK u \in UNION {session[n].sdus : n \in {m \in N : ToldOf(m) = c}} :
             x = [type |-> type, sdu |-> u]
      BY DEF Returned
    <3>2. PICK n \in N : u \in session[n].sdus
      BY <3>1
    <3> QED
      BY <3>1, <3>2, <1>1 DEF NoticeType
  <2>3. ASSUME NEW n \in N, NEW u \in session[n].sdus, ToldOf(n) = c
        PROVE  [type |-> type, sdu |-> u] \in Returned(N, type, c)
    BY <2>3 DEF Returned
  <2> QED
    BY <2>1, <2>2, <2>3, <1>1
<1>3. notices' \in [Clients -> SUBSET NoticeType]
  <2>1. notices' = [c \in Clients |-> notices'[c]]
    BY DEF NotifyAll
  <2> QED
    BY <2>1, <1>2
<1>4. Told \subseteq Told'
  BY <1>2 DEF Told
<1>5. ASSUME NEW x \in Told'
      PROVE  \/ x \in Told
             \/ /\ x = [type |-> type, sdu |-> x.sdu]
                /\ \E n \in N : x.sdu \in session[n].sdus
  BY <1>2 DEF Told
<1>6. ASSUME NEW n \in N, NEW u \in session[n].sdus, ClientOf[u] \notin Transient
      PROVE  \E x \in Told' : x.sdu = u
  <2>1. ClientOf[u] \in Clients /\ ClientOf[u] \in open /\ ToldOf(n) = ClientOf[u]
    BY <1>1, <1>6, AggregationAssumption DEF ServiceKept
  <2>2. [type |-> type, sdu |-> u] \in notices'[ClientOf[u]]
    BY <1>2, <2>1
  <2> QED
    BY <2>1, <2>2 DEF Told
<1>7. ASSUME NEW n \in exportSessions', NEW s \in session'[n].sdus
      PROVE  n \in exportSessions \ N /\ s \in session[n].sdus
  BY <1>1, SessionsShape DEF NewSession
<1>8. ASSUME NEW n \in exportSessions \ N
      PROVE  n \in exportSessions' /\ session'[n].sdus = session[n].sdus
  <2>1. n \in exportSessions' /\ n # sessionCount + 1
    BY <1>1, SessionsShape, SessionsFinite
  <2> QED
    BY <1>1, <2>1, SessionsShape
<1>9. ASSUME NEW s \in Sdus
      PROVE  Placed(s)'
  <2>1. Placed(s)
    BY <1>1
  <2>2. Held(s)' => Held(s)
    BY <1>7 DEF Held
  <2>3. Noticed(s)' => Noticed(s) \/ Held(s)
    BY <1>5 DEF Noticed, Held
  <2>4. ~(Held(s)' /\ Noticed(s)')
    <3>1. SUFFICES ASSUME Held(s)', Noticed(s)'
                   PROVE  FALSE
      OBVIOUS
    <3>2. PICK n \in exportSessions \ N : s \in session[n].sdus
      BY <3>1, <1>7 DEF Held
    <3>3. PICK x \in Told' : x.sdu = s
      BY <3>1 DEF Noticed
    <3>4. x \notin Told
      BY <3>2, <3>3, <2>1 DEF Placed, Held, Noticed
    <3>5. PICK m \in N : s \in session[m].sdus
      BY <3>3, <3>4, <1>5
    <3>6. m = n
      BY <3>2, <3>5, <2>1 DEF Placed
    <3> QED
      BY <3>2, <3>5, <3>6
  <2>5. ASSUME NEW x \in Told', NEW y \in Told', x.sdu = s, y.sdu = s
        PROVE  x = y
    <3>1. CASE x \in Told /\ y \in Told
      BY <3>1, <2>5, <2>1 DEF Placed
    <3>2. CASE x \notin Told /\ y \notin Told
      BY <3>2, <2>5, <1>5
    <3>3. CASE x \in Told <=> y \notin Told
      <4>1. Held(s)
        BY <3>3, <2>5, <1>5 DEF Held
      <4>2. Noticed(s)
        BY <3>3, <2>5 DEF Noticed
      <4> QED
        BY <4>1, <4>2, <2>1 DEF Placed
    <3> QED
      BY <3>1, <3>2, <3>3
  <2>6. ASSUME sender'[s] = "accepted", ClientOf[s] \notin Transient
        PROVE  Held(s)' \/ Noticed(s)'
    <3>1. Held(s) \/ Noticed(s)
      BY <2>1, <2>6 DEF Placed
    <3>2. CASE Noticed(s)
      BY <3>2, <1>4 DEF Noticed
    <3>3. CASE Held(s)
      <4>1. PICK n \in exportSessions : s \in session[n].sdus
        BY <3>3 DEF Held
      <4>2. CASE n \in N
        BY <4>1, <4>2, <2>6, <1>6 DEF Noticed
      <4>3. CASE n \notin N
        BY <4>1, <4>3, <1>8 DEF Held
      <4> QED
        BY <4>2, <4>3
    <3> QED
      BY <3>1, <3>2, <3>3
  <2>7. \A m, n \in exportSessions' : s \in session'[m].sdus /\ s \in session'[n].sdus => m = n
    BY <1>7, <2>1 DEF Placed
  <2>8. Held(s)' \/ Noticed(s)' => sender'[s] = "accepted"
    BY <2>1, <2>2, <2>3 DEF Placed
  <2> QED
    BY <2>4, <2>5, <2>6, <2>7, <2>8 DEF Placed
<1> QED
  BY <1>3, <1>9

\* A block that nobody touched is as sound as before.
LEMMA BlockKept ==
    ASSUME NEW n \in exportSessions, BlockSound(n), session'[n] = session[n],
           n = buffer'.current <=> n = buffer.current,
           n = buffer.current => /\ buffer'.length = buffer.length /\ buffer'.red = buffer.red
                                 /\ buffer'.client = buffer.client
    PROVE  BlockSound(n)'
<1>1. LengthOf(n)' = LengthOf(n) /\ ToldOf(n)' = ToldOf(n)
  BY DEF LengthOf, ToldOf
<1> QED
  BY <1>1 DEF BlockSound

\* The block of a new session is sound.
LEMMA BlockEmpty ==
    ASSUME NEW n, session'[n] = NewSession, n = buffer'.current => buffer'.length = 0
    PROVE  BlockSound(n)'
<1>1. session'[n].sdus = {} /\ LengthOf(n)' = 0
  BY DEF NewSession, LengthOf
<1> QED
  BY <1>1, SizeEmpty, EmptyWellFormed DEF BlockSound

(***************************************************************************)
(* What the operations do to the data of the span.                         *)
(***************************************************************************)
\* A step that leaves the data alone, but for segments that are sent.
LEMMA DataKept ==
    ASSUME DataInv, UNCHANGED <<exportSessions, session, sessionCount, notices>>,
           segments' \subseteq segments,
           buffer' \in [current : {0} \cup exportSessions, length : Nat, red : Nat,
                       client : Clients \cup {None}, age : 0..AggrTimeLimit],
           buffer'.current = buffer.current, buffer'.length = buffer.length,
           buffer'.red = buffer.red, buffer'.client = buffer.client,
           sender' \in [Sdus -> {"new", "blocked", "taken", "retry", "accepted", "stopped"}],
           \A s \in Sdus : sender'[s] = "accepted" <=> sender[s] = "accepted",
           ServiceKept'
    PROVE  DataInv'
<1>1. DataType'
  BY DEF DataInv, DataType, Nbrs
<1>2. BufferSound' /\ RedWindow'
  BY DEF DataInv, BufferSound, RedWindow, HoldsRed
<1>3. \A n \in exportSessions : Cut(n)' /\ BlockSound(n)'
  BY BlockKept DEF DataInv, Cut
<1>4. \A x \in segments' : Queued(x)'
  BY DEF DataInv, Queued
<1>5. \A s \in Sdus : Placed(s)'
  BY PlacedStill DEF DataInv
<1> QED
  BY <1>1, <1>2, <1>3, <1>4, <1>5 DEF DataInv

\* ltp_send puts a unit into the current block.
LEMMA AppendInv ==
    ASSUME DataInv, NEW s \in Sdus, sender[s] \in {"new", "retry"}, CanBeAppended(s), AppendSdu(s),
           sender' = [sender EXCEPT ![s] = "accepted"],
           UNCHANGED <<exportSessions, sessionCount, segments, notices, open>>
    PROVE  DataInv'
<1> DEFINE cur == buffer.current
<1>1. /\ DataType /\ BufferSound /\ RedWindow /\ \A n \in exportSessions : Cut(n) /\ BlockSound(n)
      /\ \A x \in segments : Queued(x)
      /\ \A u \in Sdus : Placed(u)
  BY DEF DataInv
<1>2. /\ cur \in exportSessions /\ session[cur] \in SessionType
      /\ session[cur].sdus \in SUBSET Sdus
      /\ buffer.length \in Nat /\ buffer.red \in Nat /\ buffer.red <= buffer.length
      /\ Length[s] \in Nat \ {0} /\ RedLength[s] \in Nat /\ RedLength[s] <= Length[s]
      /\ ClientOf[s] \in Clients
      /\ buffer \in [current : {0} \cup exportSessions, length : Nat, red : Nat,
                     client : Clients \cup {None}, age : 0..AggrTimeLimit]
  BY <1>1, AggregationAssumption DEF DataType, CanBeAppended, SessionType, BufferSound
<1>3. /\ session' = [session EXCEPT ![cur].sdus = @ \cup {s}]
      /\ buffer' = [buffer EXCEPT !.client = ClientOf[s], !.length = @ + Length[s],
                                  !.red = @ + RedLength[s]]
  BY DEF AppendSdu
<1>4. /\ session'[cur].sdus = session[cur].sdus \cup {s}
      /\ session'[cur].total = session[cur].total /\ session'[cur].red = session[cur].red
      /\ session'[cur] \in SessionType
      /\ \A n \in exportSessions : n # cur => session'[n] = session[n]
      /\ session' \in [exportSessions -> SessionType]
  BY <1>1, <1>2, <1>3 DEF DataType, SessionType
<1>5. /\ buffer'.current = cur /\ buffer'.length = buffer.length + Length[s]
      /\ buffer'.red = buffer.red + RedLength[s] /\ buffer'.client = ClientOf[s]
      /\ buffer' \in [current : {0} \cup exportSessions, length : Nat, red : Nat,
                      client : Clients \cup {None}, age : 0..AggrTimeLimit]
  <2>1. buffer.length + Length[s] \in Nat /\ buffer.red + RedLength[s] \in Nat
    BY <1>2
  <2> QED
    BY <1>2, <1>3, <2>1
<1>6. DataType'
  <2>1. sender' \in [Sdus -> {"new", "blocked", "taken", "retry", "accepted", "stopped"}]
    BY <1>1 DEF DataType
  <2> QED
    BY <1>1, <1>4, <1>5, <2>1 DEF DataType, Nbrs
<1>7. BufferSound'
  <2>1. /\ buffer'.red <= buffer'.length
        /\ buffer'.length > 0 => buffer'.current # 0
    BY <1>1, <1>2, <1>5, SessionsFinite
  <2>2. buffer'.red > 0 => HoldsRed(buffer.current)'
    <3>1. CASE RedLength[s] > 0
      BY <3>1, <1>4, <1>5 DEF HoldsRed
    <3>2. CASE ~(RedLength[s] > 0) /\ buffer'.red > 0
      <4>1. buffer.red > 0
        BY <3>2, <1>2, <1>5
      <4> QED
        BY <4>1, <1>1, <1>4, <1>5 DEF HoldsRed, BufferSound
    <3> QED
      BY <3>1, <3>2
  <2> QED
    BY <2>1, <2>2 DEF BufferSound
<1>8. session[cur].sdus = {} \/ (FilledBlockAccepts(s) /\ buffer.length > 0)
  <2>1. CASE buffer.length = 0
    <3>1. SizeOf(session[cur].sdus) = 0
      BY <2>1, <1>1, <1>2 DEF BlockSound, LengthOf
    <3> QED
      BY <3>1, <1>2, SizePositive
  <2>2. CASE buffer.length # 0
    BY <2>2, <1>2 DEF CanBeAppended
  <2> QED
    BY <2>1, <2>2
<1>9. RedWindow'
  <2> DEFINE R == {n \in exportSessions' : HoldsRed(n)'}
  <2>1. ASSUME NEW n \in exportSessions, n # cur, HoldsRed(n)'
        PROVE  HoldsRed(n)
    BY <2>1, <1>4 DEF HoldsRed
  <2>2. CASE R \subseteq {n \in exportSessions : HoldsRed(n)}
    <3> HIDE DEF R
    <3>1. Cardinality(R) <= MaxExportSessions
      BY <2>2, <1>1, WindowShrinks
    <3> QED
      BY <3>1 DEF RedWindow, R
  <2>3. CASE ~(R \subseteq {n \in exportSessions : HoldsRed(n)})
    <3>1. HoldsRed(cur)' /\ ~HoldsRed(cur)
      BY <2>1, <2>3, <1>5
    <3>2. RedLength[s] > 0
      BY <3>1, <1>4, <1>5 DEF HoldsRed
    <3>3. buffer.length = 0
      <4>1. ~(buffer.red > 0)
        BY <3>1, <1>1 DEF BufferSound
      <4>2. buffer.length # 0 => buffer.length = buffer.red
        BY DEF CanBeAppended, FilledBlockAccepts
      <4> QED
        BY <4>1, <4>2, <1>2
    <3>4. Cardinality(exportSessions) <= MaxExportSessions
      BY <3>2, <3>3, <1>2 DEF CanBeAppended, EmptyBlockAccepts
    <3>5. R \subseteq exportSessions
      OBVIOUS
    <3> HIDE DEF R
    <3>6. /\ Cardinality(R) <= Cardinality(exportSessions) /\ Cardinality(R) \in Nat
          /\ Cardinality(exportSessions) \in Nat
      BY <3>5, <1>1, SessionsFinite, FS_Subset, FS_CardinalityType
    <3>7. Cardinality(R) <= MaxExportSessions
      BY <3>4, <3>6, AggregationAssumption
    <3> QED
      BY <3>7 DEF RedWindow, R
  <2> QED
    BY <2>2, <2>3
<1>10. ~Held(s) /\ ~Noticed(s)
  BY <1>1 DEF Placed
<1>11. s \notin session[cur].sdus
  BY <1>2, <1>10 DEF Held
<1>12. \A n \in exportSessions : Cut(n)'
  BY <1>1, <1>4, <1>5 DEF Cut
<1>13. ASSUME NEW n \in exportSessions
       PROVE  BlockSound(n)'
  <2>1. CASE n # cur
    BY <2>1, <1>1, <1>4, <1>5, BlockKept
  <2>2. CASE n = cur
    <3>1. /\ SizeOf(session[cur].sdus) = buffer.length
          /\ \A u \in session[cur].sdus : ClientOf[u] = buffer.client
          /\ buffer.length = buffer.red =>
                \A u \in session[cur].sdus : RedLength[u] = Length[u]
      BY <1>1, <1>2 DEF BlockSound, LengthOf, ToldOf
    <3>2. \A u \in session[cur].sdus : ClientOf[u] = ClientOf[s] /\ RedLength[u] = Length[u]
      BY <1>8, <3>1 DEF FilledBlockAccepts
    <3>3. SizeOf(session[cur].sdus) < AggrSizeLimit
      <4>1. CASE session[cur].sdus = {}
        <5>1. SizeOf(session[cur].sdus) = 0
          BY <4>1, SizeEmpty
        <5>2. AggrSizeLimit \in Nat \ {0}
          BY AggregationAssumption
        <5> QED
          BY <5>1, <5>2
      <4>2. CASE FilledBlockAccepts(s)
        BY <4>2, <3>1 DEF FilledBlockAccepts
      <4> QED
        BY <1>8, <4>1, <4>2
    <3>4. WellFormed(session'[cur].sdus)
      BY <1>2, <1>4, <1>11, <3>2, <3>3, AppendedWellFormed
    <3>5. SizeOf(session'[cur].sdus) = buffer'.length
      BY <1>2, <1>4, <1>5, <1>11, <3>1, SizeMore
    <3>6. buffer'.length = buffer'.red => RedLength[s] = Length[s]
      BY <1>2, <1>5
    <3>7. \A u \in session'[cur].sdus : ClientOf[u] = buffer'.client
      BY <1>4, <1>5, <3>2
    <3>8. LengthOf(n)' = buffer'.length /\ ToldOf(n)' = buffer'.client
      BY <2>2, <1>5 DEF LengthOf, ToldOf
    <3> QED
      BY <2>2, <1>4, <3>2, <3>4, <3>5, <3>6, <3>7, <3>8 DEF BlockSound
  <2> QED
    BY <2>1, <2>2
<1>14. \A x \in segments' : Queued(x)'
  BY <1>1, <1>5 DEF Queued
<1>15. ASSUME NEW u \in Sdus
       PROVE  Placed(u)'
  <2>1. Told' = Told /\ Noticed(u)' = Noticed(u)
    BY DEF Told, Noticed
  <2>2. CASE u # s
    <3>1. \A n \in exportSessions : u \in session'[n].sdus <=> u \in session[n].sdus
      BY <2>2, <1>4
    <3>2. Held(u)' = Held(u) /\ sender'[u] = sender[u]
      BY <2>2, <3>1, <1>1 DEF Held, DataType
    <3> QED
      BY <1>1, <2>1, <3>1, <3>2 DEF Placed
  <2>3. CASE u = s
    <3>1. \A n \in exportSessions : s \in session'[n].sdus <=> n = cur
      BY <1>4, <1>10 DEF Held
    <3>2. sender'[s] = "accepted"
      BY <1>1 DEF DataType
    <3>3. \E n \in exportSessions' : s \in session'[n].sdus
      BY <3>1, <1>2
    <3>4. ~(\E x \in Told' : x.sdu = s)
      BY <2>1, <1>10 DEF Noticed
    <3> QED
      BY <2>3, <3>1, <3>2, <3>3, <3>4 DEF Placed, Held, Noticed
  <2> QED
    BY <2>2, <2>3
<1> QED
  BY <1>6, <1>7, <1>9, <1>12, <1>13, <1>14, <1>15 DEF DataInv, ServiceKept

\* ltpmeter starts an export session for the next block.
LEMMA StartInv ==
    ASSUME DataInv, buffer.current = 0, StartExportSession,
           UNCHANGED <<segments, notices, sender, open>>
    PROVE  DataInv'
<1> DEFINE new == sessionCount + 1
<1>1. DataType /\ BufferSound /\ \A n \in exportSessions : Cut(n) /\ BlockSound(n)
  BY DEF DataInv
<1>2. Sessions({}, TRUE) /\ buffer' = [buffer EXCEPT !.current = new]
  BY DEF StartExportSession
<1>3. /\ sessionCount' \in Nat /\ sessionCount' >= sessionCount /\ exportSessions' \subseteq Nbrs'
      /\ session' \in [exportSessions' -> SessionType]
      /\ exportSessions \subseteq exportSessions' /\ new \in exportSessions'
      /\ \A n \in exportSessions' : \/ n \in exportSessions /\ session'[n] = session[n]
                                    \/ n = new /\ session'[n] = NewSession
      /\ new \notin exportSessions /\ 0 \notin exportSessions /\ sessionCount \in Nat
      /\ \A n \in exportSessions : n \in Nat /\ n <= sessionCount
  <2>1. exportSessions \ {} = exportSessions /\ TRUE \in BOOLEAN
    OBVIOUS
  <2>2. /\ sessionCount' \in Nat /\ sessionCount' >= sessionCount
        /\ exportSessions' \subseteq Nbrs'
        /\ session' \in [exportSessions' -> SessionType]
        /\ exportSessions \ {} \subseteq exportSessions'
        /\ TRUE => sessionCount + 1 \in exportSessions'
        /\ \A n \in exportSessions' :
              \/ n \in exportSessions \ {} /\ session'[n] = session[n]
              \/ TRUE /\ n = sessionCount + 1 /\ session'[n] = NewSession
    BY <1>1, <1>2, <2>1, SessionsShape, Zenon
  <2> QED
    BY <1>1, <2>1, <2>2, SessionsFinite
<1>4. /\ buffer.length = 0 /\ buffer.red = 0
      /\ buffer'.current = new /\ buffer'.length = 0 /\ buffer'.red = 0
      /\ buffer' \in [current : {0} \cup exportSessions', length : Nat, red : Nat,
                      client : Clients \cup {None}, age : 0..AggrTimeLimit]
  <2>1. buffer.length \in Nat /\ buffer.red \in Nat /\ buffer.red <= buffer.length
        /\ ~(buffer.length > 0)
    BY <1>1 DEF DataType, BufferSound
  <2>2. buffer.length = 0 /\ buffer.red = 0
    BY <2>1
  <2> QED
    BY <1>1, <1>2, <1>3, <2>2 DEF DataType
<1>5. DataType'
  <2>1. segments' \subseteq [nbr : Nbrs', kind : {"data", "cancel"}]
    <3>1. Nbrs \subseteq Nbrs'
      BY <1>3 DEF Nbrs
    <3> QED
      BY <3>1, <1>1 DEF DataType
  <2> QED
    BY <1>1, <1>3, <1>4, <2>1 DEF DataType
<1>6. BufferSound'
  BY <1>3, <1>4 DEF BufferSound
<1>7. RedWindow'
  BY <1>2, WindowKept
<1>8. ASSUME NEW n \in exportSessions'
      PROVE  Cut(n)' /\ BlockSound(n)'
  <2>1. CASE n \in exportSessions /\ session'[n] = session[n]
    <3>1. n # buffer.current /\ n # buffer'.current
      BY <2>1, <1>3, <1>4
    <3> QED
      BY <2>1, <3>1, <1>1, BlockKept DEF Cut
  <2>2. CASE n = new /\ session'[n] = NewSession
    <3>1. BlockSound(n)'
      BY <2>2, <1>4, BlockEmpty
    <3> QED
      BY <2>2, <3>1, <1>4 DEF Cut, NewSession
  <2> QED
    BY <2>1, <2>2, <1>3
<1>9. \A x \in segments' : Queued(x)'
  <2> SUFFICES ASSUME NEW x \in segments
               PROVE  Queued(x)'
    OBVIOUS
  <2>1. x.nbr \in Nat /\ x.nbr <= sessionCount /\ Queued(x)
    BY <1>1, <1>3 DEF DataType, DataInv, Nbrs
  <2>2. x.nbr # new /\ (x.nbr \in exportSessions' <=> x.nbr \in exportSessions)
    BY <2>1, <1>3
  <2> QED
    BY <2>1, <2>2, <1>4 DEF Queued
<1>10. \A s \in Sdus : Placed(s)'
  <2>1. \A n \in exportSessions' : \/ session'[n].sdus = {}
                                   \/ n \in exportSessions /\ session'[n].sdus = session[n].sdus
    BY <1>3 DEF NewSession
  <2>2. \A n \in exportSessions : n \in exportSessions' /\ session'[n].sdus = session[n].sdus
    BY <1>3
  <2> QED
    BY <2>1, <2>2, PlacedStill DEF DataInv
<1> QED
  BY <1>5, <1>6, <1>7, <1>8, <1>9, <1>10 DEF DataInv, ServiceKept

\* ltpmeter cuts the current block into segments.
LEMMA SegmentInv ==
    ASSUME DataInv, buffer.length > 0, SegmentBlock, UNCHANGED <<sender, open>>
    PROVE  DataInv'
<1> DEFINE cur == buffer.current
<1>1. /\ DataType /\ BufferSound /\ RedWindow
      /\ \A n \in exportSessions : Cut(n) /\ BlockSound(n)
      /\ \A x \in segments : Queued(x)
  BY DEF DataInv
<1>2. /\ cur \in exportSessions /\ cur \in Nbrs /\ session[cur] \in SessionType
      /\ buffer.length \in Nat /\ buffer.red \in Nat /\ buffer.client \in Clients \cup {None}
      /\ 0 \notin exportSessions
  BY <1>1, SessionsFinite DEF DataType, BufferSound
<1>3. /\ session' = [session EXCEPT ![cur].total = buffer.length,
                                    ![cur].red = buffer.red,
                                    ![cur].client = buffer.client]
      /\ segments' = segments \cup {[nbr |-> cur, kind |-> "data"]}
      /\ buffer' = Buffer(0)
      /\ UNCHANGED <<exportSessions, sessionCount, notices>>
  BY DEF SegmentBlock
<1>4. /\ session'[cur].sdus = session[cur].sdus /\ session'[cur].total = buffer.length
      /\ session'[cur].red = buffer.red /\ session'[cur].client = buffer.client
      /\ session'[cur] \in SessionType
      /\ \A n \in exportSessions : n # cur => session'[n] = session[n]
      /\ session' \in [exportSessions -> SessionType]
  BY <1>1, <1>2, <1>3 DEF DataType, SessionType
<1>5. /\ buffer'.current = 0 /\ buffer'.length = 0 /\ buffer'.red = 0
      /\ buffer' \in [current : {0} \cup exportSessions, length : Nat, red : Nat,
                      client : Clients \cup {None}, age : 0..AggrTimeLimit]
  BY <1>3, AggregationAssumption DEF Buffer
<1>6. DataType'
  BY <1>1, <1>2, <1>3, <1>4, <1>5 DEF DataType, Nbrs
<1>7. BufferSound'
  BY <1>5 DEF BufferSound
<1>8. RedWindow'
  <2>1. \A n \in exportSessions : HoldsRed(n)' <=> HoldsRed(n)
    BY <1>4 DEF HoldsRed
  <2>2. {n \in exportSessions' : HoldsRed(n)'} = {n \in exportSessions : HoldsRed(n)}
    BY <2>1, <1>3
  <2> QED
    BY <2>2, <1>1 DEF RedWindow
<1>9. ASSUME NEW n \in exportSessions
      PROVE  Cut(n)' /\ BlockSound(n)'
  <2>1. n # 0
    BY <1>2
  <2>2. CASE n # cur
    <3>1. BlockSound(n)'
      BY <2>1, <2>2, <1>1, <1>4, <1>5, BlockKept
    <3> QED
      BY <2>1, <2>2, <3>1, <1>1, <1>4, <1>5 DEF Cut
  <2>3. CASE n = cur
    <3>1. LengthOf(n)' = LengthOf(n) /\ ToldOf(n)' = ToldOf(n)
      BY <2>1, <2>3, <1>4, <1>5 DEF LengthOf, ToldOf
    <3>2. BlockSound(n)'
      BY <2>1, <2>3, <3>1, <1>1, <1>4, <1>5 DEF BlockSound
    <3> QED
      BY <2>1, <2>3, <3>2, <1>2, <1>4, <1>5 DEF Cut
  <2> QED
    BY <2>2, <2>3
<1>10. \A x \in segments' : Queued(x)'
  BY <1>1, <1>2, <1>3, <1>5 DEF Queued
<1>11. \A s \in Sdus : Placed(s)'
  <2>1. \A n \in exportSessions : session'[n].sdus = session[n].sdus
    BY <1>4
  <2> QED
    BY <2>1, <1>3, PlacedStill DEF DataInv
<1> QED
  BY <1>3, <1>6, <1>7, <1>8, <1>9, <1>10, <1>11 DEF DataInv, ServiceKept

\* A session other than the current one ends.
LEMMA CloseInv ==
    ASSUME DataInv, NEW n \in exportSessions, n # buffer.current,
           NEW type \in {"complete", "canceled"}, CloseExportSession(n, type),
           segments' \subseteq segments, \A x \in segments' : x.nbr # n,
           UNCHANGED <<sender, open>>
    PROVE  DataInv'
<1>1. /\ DataType /\ BufferSound /\ RedWindow
      /\ \A m \in exportSessions : Cut(m) /\ BlockSound(m)
      /\ \A x \in segments : Queued(x)
  BY DEF DataInv
<1>2. Sessions({n}, FALSE) /\ NotifyAll({n}, type) /\ buffer' = buffer
  BY DEF CloseExportSession
<1>3. /\ sessionCount' = sessionCount /\ exportSessions' = exportSessions \ {n}
      /\ session' = [m \in exportSessions' |-> session[m]]
  BY <1>2 DEF Sessions
<1>4. /\ notices' \in [Clients -> SUBSET NoticeType]
      /\ \A s \in Sdus : Placed(s)'
  <2>1. {n} \in SUBSET exportSessions /\ FALSE \in BOOLEAN
    OBVIOUS
  <2> QED
    BY <1>2, <2>1, PlacedMoved, Zenon
<1>5. DataType'
  BY <1>1, <1>2, <1>3, <1>4 DEF DataType, Nbrs
<1>6. BufferSound'
  <2>1. buffer.red > 0 => HoldsRed(buffer.current)'
    <3>1. SUFFICES ASSUME buffer.red > 0
                   PROVE  HoldsRed(buffer.current)'
      OBVIOUS
    <3>2. buffer.length > 0
      BY <1>1, <3>1 DEF BufferSound, DataType
    <3>3. buffer.current \in exportSessions'
      BY <1>1, <1>3, <3>2 DEF BufferSound, DataType
    <3> QED
      BY <1>1, <1>2, <1>3, <3>1, <3>3 DEF BufferSound, HoldsRed
  <2> QED
    BY <1>1, <1>2, <2>1 DEF BufferSound
<1>7. RedWindow'
  <2>1. FALSE \in BOOLEAN
    OBVIOUS
  <2> QED
    BY <1>2, <2>1, WindowKept, Zenon
<1>8. ASSUME NEW m \in exportSessions'
      PROVE  Cut(m)' /\ BlockSound(m)'
  <2>1. m \in exportSessions /\ session'[m] = session[m]
    BY <1>3
  <2> QED
    BY <2>1, <1>1, <1>2, BlockKept DEF Cut
<1>9. \A x \in segments' : Queued(x)'
  BY <1>1, <1>2, <1>3 DEF Queued
<1> QED
  BY <1>4, <1>5, <1>6, <1>7, <1>8, <1>9 DEF DataInv, ServiceKept

\* Sessions are canceled, the current one perhaps among them.
LEMMA CancelInv ==
    ASSUME DataInv, NEW N \in SUBSET exportSessions, NEW active, NEW tokens,
           CancelSessions(N, active, tokens), UNCHANGED <<sender, open>>
    PROVE  DataInv'
<1> DEFINE restart == buffer.current \in N
           new == sessionCount + 1
<1>1. /\ DataType /\ BufferSound /\ RedWindow
      /\ \A n \in exportSessions : Cut(n) /\ BlockSound(n)
      /\ \A x \in segments : Queued(x)
      /\ restart \in BOOLEAN
  BY DEF DataInv
<1>2. /\ Sessions(N, restart) /\ NotifyAll(N, "canceled")
      /\ buffer' = IF restart THEN Buffer(new) ELSE buffer
      /\ segments' = {x \in segments : x.nbr \notin N} \cup [nbr : N, kind : {"cancel"}]
  BY DEF CancelSessions
<1> HIDE DEF restart
<1>3. /\ sessionCount' \in Nat /\ sessionCount' >= sessionCount
      /\ exportSessions' \subseteq Nbrs'
      /\ session' \in [exportSessions' -> SessionType]
      /\ exportSessions \ N \subseteq exportSessions'
      /\ restart => new \in exportSessions'
      /\ \A n \in exportSessions' :
            \/ n \in exportSessions \ N /\ session'[n] = session[n]
            \/ restart /\ n = new /\ session'[n] = NewSession
  BY <1>1, <1>2, SessionsShape
<1>4. /\ new \notin exportSessions /\ 0 \notin exportSessions /\ sessionCount \in Nat
      /\ \A n \in exportSessions : n \in Nat /\ n <= sessionCount
  BY <1>1, SessionsFinite
<1>5. /\ notices' \in [Clients -> SUBSET NoticeType]
      /\ \A s \in Sdus : Placed(s)'
  BY <1>1, <1>2, PlacedMoved
<1>6. RedWindow'
  BY <1>1, <1>2, WindowKept
<1>7. /\ buffer' \in [current : {0} \cup exportSessions', length : Nat, red : Nat,
                      client : Clients \cup {None}, age : 0..AggrTimeLimit]
      /\ restart => buffer'.current = new /\ buffer'.length = 0 /\ buffer'.red = 0
      /\ ~restart => buffer' = buffer
  <2>1. CASE restart
    BY <2>1, <1>2, <1>3, AggregationAssumption DEF Buffer
  <2>2. CASE ~restart
    <3>1. buffer.current \in {0} \cup exportSessions'
      BY <2>2, <1>1, <1>3 DEF DataType, restart
    <3> QED
      BY <2>2, <3>1, <1>1, <1>2 DEF DataType
  <2> QED
    BY <2>1, <2>2
<1>8. DataType'
  <2>1. Nbrs \subseteq Nbrs' /\ N \subseteq Nbrs'
    BY <1>1, <1>3, <1>4 DEF Nbrs, DataType
  <2>2. segments' \subseteq [nbr : Nbrs', kind : {"data", "cancel"}]
    BY <2>1, <1>1, <1>2 DEF DataType
  <2> QED
    BY <2>2, <1>1, <1>3, <1>5, <1>7 DEF DataType
<1>9. BufferSound'
  <2>1. CASE restart
    BY <2>1, <1>7 DEF BufferSound
  <2>2. CASE ~restart
    <3>1. SUFFICES ASSUME buffer.red > 0
                   PROVE  HoldsRed(buffer.current)'
      BY <2>2, <1>1, <1>7 DEF BufferSound
    <3>2. buffer.length > 0
      BY <1>1, <3>1 DEF BufferSound, DataType
    <3>3. buffer.current \in exportSessions \ N
      BY <1>1, <2>2, <3>2 DEF BufferSound, DataType, restart
    <3>4. session'[buffer.current] = session[buffer.current]
      BY <1>3, <1>4, <3>3
    <3> QED
      BY <1>1, <1>7, <2>2, <3>1, <3>4 DEF BufferSound, HoldsRed
  <2> QED
    BY <2>1, <2>2
<1>10. ASSUME NEW n \in exportSessions'
       PROVE  Cut(n)' /\ BlockSound(n)'
  <2>1. CASE n \in exportSessions \ N /\ session'[n] = session[n]
    <3>1. CASE restart
      <4>1. n # buffer.current /\ n # buffer'.current
        BY <2>1, <3>1, <1>4, <1>7 DEF restart
      <4> QED
        BY <2>1, <4>1, <1>1, BlockKept DEF Cut
    <3>2. CASE ~restart
      BY <2>1, <3>2, <1>1, <1>7, BlockKept DEF Cut
    <3> QED
      BY <3>1, <3>2
  <2>2. CASE restart /\ n = new /\ session'[n] = NewSession
    <3>1. BlockSound(n)'
      BY <2>2, <1>7, BlockEmpty
    <3> QED
      BY <2>2, <3>1, <1>7 DEF Cut, NewSession
  <2> QED
    BY <2>1, <2>2, <1>3
<1>11. ASSUME NEW x \in segments'
       PROVE  Queued(x)'
  <2>1. CASE x \in segments /\ x.nbr \notin N
    <3>1. x.nbr \in Nat /\ x.nbr <= sessionCount /\ Queued(x)
      BY <2>1, <1>1, <1>4 DEF DataType, Nbrs
    <3>2. x.nbr # new /\ (x.nbr \in exportSessions' <=> x.nbr \in exportSessions)
      BY <2>1, <3>1, <1>3, <1>4
    <3>3. buffer'.current = buffer.current \/ buffer'.current = new
      BY <1>7
    <3> QED
      BY <3>1, <3>2, <3>3 DEF Queued
  <2>2. CASE x \in [nbr : N, kind : {"cancel"}]
    <3>1. x.kind = "cancel" /\ x.nbr \in N
      BY <2>2
    <3>2. x.nbr \notin exportSessions'
      BY <3>1, <1>3, <1>4
    <3> QED
      BY <3>1, <3>2 DEF Queued
  <2> QED
    BY <2>1, <2>2, <1>2
<1> QED
  BY <1>5, <1>6, <1>8, <1>9, <1>10, <1>11 DEF DataInv, ServiceKept

\* A step that concerns neither the database nor the senders.
LEMMA DataUntouched ==
    ASSUME DataInv, UNCHANGED <<database, sender, open>>
    PROVE  DataInv'
<1>1. /\ buffer' \in [current : {0} \cup exportSessions, length : Nat, red : Nat,
                      client : Clients \cup {None}, age : 0..AggrTimeLimit]
      /\ sender' \in [Sdus -> {"new", "blocked", "taken", "retry", "accepted", "stopped"}]
      /\ ServiceKept'
  BY DEF DataInv, DataType, ServiceKept, database
<1> QED
  BY <1>1, DataKept DEF database

\* ltp_send waits, or returns without the unit.
LEMMA SenderMoves ==
    ASSUME DataInv, NEW s \in Sdus, sender[s] # "accepted",
           NEW v \in {"blocked", "taken", "retry", "stopped"},
           sender' = [sender EXCEPT ![s] = v], UNCHANGED <<database, open>>
    PROVE  DataInv'
<1>1. /\ buffer' \in [current : {0} \cup exportSessions, length : Nat, red : Nat,
                      client : Clients \cup {None}, age : 0..AggrTimeLimit]
      /\ ServiceKept'
  BY DEF DataInv, DataType, ServiceKept, database
<1>2. /\ sender' \in [Sdus -> {"new", "blocked", "taken", "retry", "accepted", "stopped"}]
      /\ \A u \in Sdus : sender'[u] = "accepted" <=> sender[u] = "accepted"
  BY DEF DataInv, DataType
<1> QED
  BY <1>1, <1>2, DataKept DEF database

\* The steps of a sender.
LEMMA SendData ==
    ASSUME DataInv, NEW s \in Sdus, Send(s)
    PROVE  DataInv'
<1>1. CASE TrySend(s)
  <2>1. CASE CanBeAppended(s)
    BY <1>1, <2>1, AppendInv DEF TrySend
  <2>2. CASE ~CanBeAppended(s)
    BY <1>1, <2>2, SenderMoves DEF TrySend, database
  <2> QED
    BY <2>1, <2>2
<1>2. CASE SenderTakes(s)
  BY <1>2, SenderMoves DEF SenderTakes
<1>3. CASE SenderWakes(s)
  BY <1>3, SenderMoves DEF SenderWakes
<1> QED
  BY <1>1, <1>2, <1>3 DEF Send

\* The steps of ltpmeter.
LEMMA MeterData ==
    ASSUME DataInv, Meter
    PROVE  DataInv'
<1>1. CASE MeterStartsSession
  <2>1. CASE buffer.current = 0
    BY <1>1, <2>1, StartInv DEF MeterStartsSession, MeterUnchanged
  <2>2. CASE buffer.current # 0
    BY <1>1, <2>2, DataUntouched DEF MeterStartsSession, MeterUnchanged, database
  <2> QED
    BY <2>1, <2>2
<1>2. CASE MeterChecks
  <2>1. CASE buffer.length >= AggrSizeLimit
    <3>1. buffer.length > 0
      BY <2>1, AggregationAssumption DEF DataInv, DataType
    <3>2. ~(buffer.length < AggrSizeLimit)
      BY <2>1, AggregationAssumption DEF DataInv, DataType
    <3> QED
      BY <1>2, <3>1, <3>2, SegmentInv DEF MeterChecks, MeterUnchanged
  <2>2. CASE ~(buffer.length >= AggrSizeLimit)
    BY <1>2, <2>2, DataUntouched DEF MeterChecks, MeterUnchanged
  <2> QED
    BY <2>1, <2>2
<1>3. CASE MeterTakes
  BY <1>3, DataUntouched DEF MeterTakes, MeterUnchanged
<1>4. CASE MeterWakes
  BY <1>4, DataUntouched, SegmentInv DEF MeterWakes, MeterUnchanged
<1> QED
  BY <1>1, <1>2, <1>3, <1>4 DEF Meter

\* The steps of the output daemon.
LEMMA LsoData ==
    ASSUME DataInv, Lso
    PROVE  DataInv'
<1>1. CASE LsoSends
  <2>1. PICK x \in segments :
           /\ segments' = segments \ {x}
           /\ \/ AllGreen(x) /\ CloseExportSession(x.nbr, "complete")
              \/ /\ ~AllGreen(x)
                 /\ UNCHANGED <<exportSessions, session, sessionCount, buffer,
                                notices, given>>
    BY <1>1 DEF LsoSends
  <2>2. CASE AllGreen(x)
    <3>1. x.kind = "data" /\ x.nbr \in exportSessions /\ x.nbr # buffer.current
      BY <2>2 DEF AllGreen, DataInv, Queued
    <3>2. ASSUME NEW y \in segments', y.nbr = x.nbr
          PROVE  FALSE
      <4>1. y \in segments /\ y # x
        BY <2>1
      <4>2. y.kind # "data" \/ y = x
        BY <3>1, <3>2, <4>1 DEF DataInv, DataType
      <4>3. y.nbr \notin exportSessions
        BY <4>1, <4>2 DEF DataInv, Queued
      <4> QED
        BY <3>1, <3>2, <4>3
    <3> QED
      BY <1>1, <2>1, <2>2, <3>1, <3>2, CloseInv DEF LsoSends, LsoUnchanged
  <2>3. CASE ~AllGreen(x)
    <3>1. /\ buffer' \in [current : {0} \cup exportSessions, length : Nat, red : Nat,
                          client : Clients \cup {None}, age : 0..AggrTimeLimit]
          /\ sender' \in [Sdus -> {"new", "blocked", "taken", "retry", "accepted", "stopped"}]
          /\ sender' = sender /\ ServiceKept'
      BY <1>1, <2>1, <2>3 DEF LsoSends, LsoUnchanged, DataInv, DataType, ServiceKept
    <3> QED
      BY <2>1, <2>3, <3>1, DataKept
  <2> QED
    BY <2>2, <2>3
<1>2. CASE LsoBlocks \/ LsoTakes \/ LsoWakes
  BY <1>2, DataUntouched DEF LsoBlocks, LsoTakes, LsoWakes, LsoUnchanged
<1> QED
  BY <1>1, <1>2 DEF Lso

\* A session ends by a report, a cancellation or its limit of timeouts.
LEMMA EndData ==
    ASSUME DataInv, NEW n \in Awaiting, EndSession(n)
    PROVE  DataInv'
<1>1. /\ n \in exportSessions /\ n # buffer.current
      /\ \A x \in segments : x.nbr # n
  <2>1. n \in exportSessions /\ session[n].red > 0 /\ \A x \in segments : x.nbr # n
    BY DEF Awaiting
  <2>2. session[n].red # 0
    BY <2>1
  <2> QED
    BY <2>1, <2>2 DEF DataInv, Cut
<1>2. CASE HandleFinalReport(n) \/ HandleCR(n)
  BY <1>1, <1>2, CloseInv DEF HandleFinalReport, HandleCR, SessionUnchanged, processes
<1>3. CASE ResendLimit(n)
  BY <1>1, <1>3, CancelInv DEF ResendLimit, SessionUnchanged, processes
<1> QED
  BY <1>2, <1>3 DEF EndSession

\* A round of ltpclock: the block's age, the link, the purge.
LEMMA ClockData ==
    ASSUME DataInv, NEW up \in BOOLEAN, ClockTick(up)
    PROVE  DataInv'
<1>1. sender' = sender /\ open' = open
  BY DEF ClockTick, processes
<1>2. CASE Purge /\ xmit /\ ~up
  <2>1. Populated \in SUBSET exportSessions
    BY DEF Populated
  <2>2. CancelSessions(Populated, FALSE, AgedTokens)
    BY <1>2 DEF ClockTick
  <2> QED
    BY <1>1, <2>1, <2>2, CancelInv
<1>3. CASE ~(Purge /\ xmit /\ ~up)
  <2>1. /\ buffer' = [buffer EXCEPT !.age = Age]
        /\ UNCHANGED <<exportSessions, session, sessionCount, segments, notices>>
    BY <1>3 DEF ClockTick
  <2>2. buffer \in [current : {0} \cup exportSessions, length : Nat, red : Nat,
                    client : Clients \cup {None}, age : 0..AggrTimeLimit]
    BY DEF DataInv, DataType
  <2>3. Age \in 0..AggrTimeLimit
    BY <2>2, AggregationAssumption DEF Age
  <2>4. /\ buffer' \in [current : {0} \cup exportSessions, length : Nat, red : Nat,
                        client : Clients \cup {None}, age : 0..AggrTimeLimit]
        /\ buffer'.current = buffer.current /\ buffer'.length = buffer.length
        /\ buffer'.red = buffer.red /\ buffer'.client = buffer.client
    BY <2>1, <2>2, <2>3
  <2>5. sender' \in [Sdus -> {"new", "blocked", "taken", "retry", "accepted", "stopped"}]
        /\ ServiceKept'
    BY <1>1 DEF DataInv, DataType, ServiceKept
  <2> QED
    BY <1>1, <2>1, <2>4, <2>5, DataKept
<1> QED
  BY <1>2, <1>3

\* Clients close and open their service.
LEMMA ClientData ==
    ASSUME DataInv, NEW c \in Clients, CloseClient(c) \/ OpenClient(c)
    PROVE  DataInv'
<1>1. ServiceKept'
  BY DEF DataInv, ServiceKept, CloseClient, OpenClient
<1>2. /\ buffer' \in [current : {0} \cup exportSessions, length : Nat, red : Nat,
                      client : Clients \cup {None}, age : 0..AggrTimeLimit]
      /\ sender' \in [Sdus -> {"new", "blocked", "taken", "retry", "accepted", "stopped"}]
      /\ sender' = sender
  BY DEF DataInv, DataType, CloseClient, OpenClient, ClientUnchanged, database, processes
<1> QED
  BY <1>1, <1>2, DataKept DEF CloseClient, OpenClient, ClientUnchanged, database

\* Every step keeps what the invariant says of the data.
LEMMA DataStep ==
    ASSUME DataInv, [Next]_vars
    PROVE  DataInv'
<1>1. CASE MeterDies \/ RestartMeter
  BY <1>1, DataUntouched DEF MeterDies, RestartMeter, MeterUnchanged
<1>2. CASE StopSpan \/ BeginReset \/ Reset \/ StartSpan
  BY <1>2, DataUntouched DEF StopSpan, BeginReset, Reset, ResetGives, ResetTakes, StartSpan,
     AdminUnchanged
<1>3. CASE UNCHANGED vars
  BY <1>3, DataUntouched DEF vars, processes
<1> QED
  BY <1>1, <1>2, <1>3, SendData, MeterData, LsoData, EndData, ClockData, ClientData DEF Next

(***************************************************************************)
(* The semaphores, the daemons and the reset.                              *)
(***************************************************************************)
\* A step that neither takes the token of the LSO, nor adds segments, nor
\* starts the link, nor concerns the reset.
LEMMA WakeupKept ==
    ASSUME NoLostWakeup, ResetAlone, "seg" \in given => "seg" \in given', segments' \subseteq segments,
           UNCHANGED <<xmit, lso, admin, toReset>>
    PROVE  NoLostWakeup' /\ ResetAlone'
BY DEF NoLostWakeup, ResetAlone

\* A sender takes no semaphore of the output daemon.
LEMMA SendControl ==
    ASSUME AggregationInv, NEW s \in Sdus, Send(s)
    PROVE  ControlInv'
<1>1. SemOf(s) \in SpanSems /\ SemOf(s) # "seg"
  BY DEF SemOf, SpanSems, OpenSems
<1>2. UNCHANGED <<segments, xmit, ended, meter, lso, admin, toReset>>
  BY DEF Send, TrySend, SenderTakes, SenderWakes, database
<1>3. given' \subseteq SpanSems /\ ("seg" \in given => "seg" \in given')
  BY <1>1 DEF Send, TrySend, SenderTakes, SenderWakes, SemTake, SemEnded, AppendSdu,
     SpanSems, OpenSems, AggregationInv, ControlInv, ControlType
<1> QED
  BY <1>2, <1>3, WakeupKept DEF AggregationInv, ControlInv, ControlType

\* ltpmeter gives the segment semaphore when it adds segments.
LEMMA MeterControl ==
    ASSUME AggregationInv, Meter
    PROVE  ControlInv'
<1>1. UNCHANGED <<xmit, ended, lso, admin, toReset>>
  BY DEF Meter, MeterStartsSession, MeterChecks, MeterTakes, MeterWakes, MeterUnchanged
<1>2. meter' \in {"init", "check", "blocked", "taken", "start", "ended", "dead"}
  BY DEF Meter, MeterStartsSession, MeterChecks, MeterTakes, MeterWakes
<1>3. given' \subseteq SpanSems /\ ("seg" \in given => "seg" \in given')
  BY DEF Meter, MeterStartsSession, MeterChecks, MeterTakes, MeterWakes, SemTake, SemEnded,
     StartExportSession, SegmentBlock, OpenTokens, SpanSems, OpenSems, AggregationInv,
     ControlInv, ControlType
<1>4. segments' = segments \/ (xmit => "seg" \in given')
  BY DEF Meter, MeterStartsSession, MeterChecks, MeterTakes, MeterWakes, SegmentBlock,
     StartExportSession, database
<1>5. NoLostWakeup' /\ ResetAlone'
  BY <1>1, <1>3, <1>4 DEF AggregationInv, ControlInv, NoLostWakeup, ResetAlone
<1> QED
  BY <1>1, <1>2, <1>3, <1>5 DEF AggregationInv, ControlInv, ControlType

\* The output daemon rests only when there is nothing to send or the link is down.
LEMMA LsoControl ==
    ASSUME AggregationInv, Lso
    PROVE  ControlInv'
<1>1. UNCHANGED <<xmit, ended, meter, admin, toReset>>
  BY DEF Lso, LsoSends, LsoBlocks, LsoTakes, LsoWakes, LsoUnchanged
<1>2. lso' \in {"check", "blocked", "taken", "ended"} /\ lso # "ended"
  BY DEF Lso, LsoSends, LsoBlocks, LsoTakes, LsoWakes, AggregationInv, ControlInv, ControlType
<1>3. given' \subseteq SpanSems
  BY DEF Lso, LsoSends, LsoBlocks, LsoTakes, LsoWakes, SemTake, SemEnded, CloseExportSession,
     SpanSems, OpenSems, AggregationInv, ControlInv, ControlType
<1>4. lso' = "blocked" => segments' = {} \/ ~xmit
  BY DEF Lso, LsoSends, LsoBlocks, LsoTakes, LsoWakes, database
<1>5. NoLostWakeup' /\ ResetAlone'
  BY <1>1, <1>2, <1>4 DEF AggregationInv, ControlInv, NoLostWakeup, ResetAlone
<1> QED
  BY <1>1, <1>2, <1>3, <1>5 DEF AggregationInv, ControlInv, ControlType

\* A cancellation is queued, and the LSO is told if the link is up.
LEMMA CancelWakes ==
    ASSUME NEW N \in SUBSET exportSessions, NEW active \in BOOLEAN, NEW tokens \in SUBSET SpanSems,
           CancelSessions(N, active, tokens), given \subseteq SpanSems
    PROVE  /\ given \subseteq given' /\ given' \subseteq SpanSems
           /\ active => segments' \subseteq segments \/ "seg" \in given'
<1>1. /\ given' = given \cup tokens
                    \cup OpenTokens((buffer.current \in N /\ active)
                                      \/ N \ {buffer.current} # {})
                    \cup (IF active /\ N # {} THEN {"seg"} ELSE {})
      /\ segments' = {x \in segments : x.nbr \notin N} \cup [nbr : N, kind : {"cancel"}]
  BY DEF CancelSessions
<1>2. N = {} => segments' \subseteq segments
  BY <1>1
<1> QED
  BY <1>1, <1>2 DEF OpenTokens, SpanSems, OpenSems

\* The end of a session wakes the daemon if it leaves a segment.
LEMMA EndControl ==
    ASSUME AggregationInv, NEW n \in Awaiting, EndSession(n)
    PROVE  ControlInv'
<1>1. UNCHANGED <<xmit, ended, meter, lso, admin, toReset>>
  BY DEF EndSession, HandleFinalReport, HandleCR, ResendLimit, SessionUnchanged, processes
<1>2. CASE HandleFinalReport(n) \/ HandleCR(n)
  <2>1. given' = given \cup OpenSems /\ segments' = segments
    BY <1>2 DEF HandleFinalReport, HandleCR, CloseExportSession
  <2>2. given' \subseteq SpanSems /\ NoLostWakeup' /\ ResetAlone'
    BY <1>1, <2>1, WakeupKept DEF SpanSems, AggregationInv, ControlInv, ControlType
  <2> QED
    BY <1>1, <2>2 DEF AggregationInv, ControlInv, ControlType
<1>3. CASE ResendLimit(n)
  <2>1. {n} \in SUBSET exportSessions /\ {} \in SUBSET SpanSems /\ xmit \in BOOLEAN
    BY DEF Awaiting, AggregationInv, ControlInv, ControlType
  <2>2. CancelSessions({n}, xmit, {})
    BY <1>3 DEF ResendLimit
  <2>3. /\ given \subseteq given' /\ given' \subseteq SpanSems
        /\ xmit => segments' \subseteq segments \/ "seg" \in given'
    BY <2>1, <2>2, CancelWakes DEF AggregationInv, ControlInv, ControlType
  <2>4. NoLostWakeup' /\ ResetAlone'
    BY <1>1, <2>3 DEF AggregationInv, ControlInv, NoLostWakeup, ResetAlone
  <2> QED
    BY <1>1, <2>3, <2>4 DEF AggregationInv, ControlInv, ControlType
<1> QED
  BY <1>2, <1>3 DEF EndSession

\* ltpclock wakes the daemon when the link comes up.
LEMMA ClockControl ==
    ASSUME AggregationInv, NEW up \in BOOLEAN, ClockTick(up)
    PROVE  ControlInv'
<1>1. UNCHANGED <<ended, meter, lso, admin, toReset>> /\ xmit' = up
  BY DEF ClockTick, processes
<1>2. /\ given \subseteq given' /\ given' \subseteq SpanSems
      /\ up => \/ xmit /\ segments' = segments
              \/ segments' = {} \/ "seg" \in given'
  <2>1. CASE Purge /\ xmit /\ ~up
    <3>1. Populated \in SUBSET exportSessions /\ AgedTokens \in SUBSET SpanSems
      BY DEF Populated, AgedTokens, SpanSems, OpenSems
    <3>2. CancelSessions(Populated, FALSE, AgedTokens) /\ FALSE \in BOOLEAN
      BY <2>1 DEF ClockTick
    <3>3. given \subseteq SpanSems
      BY DEF AggregationInv, ControlInv, ControlType
    <3>4. given' = given \cup AgedTokens
                       \cup OpenTokens((buffer.current \in Populated /\ FALSE)
                                         \/ Populated \ {buffer.current} # {})
                       \cup (IF FALSE /\ Populated # {} THEN {"seg"} ELSE {})
      BY <3>2 DEF CancelSessions
    <3> QED
      BY <2>1, <3>1, <3>3, <3>4 DEF OpenTokens, SpanSems, OpenSems
  <2>2. CASE ~(Purge /\ xmit /\ ~up)
    <3>1. /\ given' = given \cup AgedTokens \cup (IF up /\ ~xmit THEN StartTokens ELSE {})
          /\ segments' = segments
      BY <2>2 DEF ClockTick
    <3> QED
      BY <3>1 DEF AgedTokens, StartTokens, SpanSems, OpenSems, AggregationInv, ControlInv,
         ControlType
  <2> QED
    BY <2>1, <2>2
<1>3. NoLostWakeup' /\ ResetAlone'
  BY <1>1, <1>2 DEF AggregationInv, ControlInv, ControlType, NoLostWakeup, ResetAlone
<1> QED
  BY <1>1, <1>2, <1>3 DEF AggregationInv, ControlInv, ControlType

\* ltpadmin resets the semaphores one at a time and alone.
LEMMA AdminControl ==
    ASSUME AggregationInv, StopSpan \/ BeginReset \/ Reset \/ StartSpan
    PROVE  ControlInv'
<1>1. UNCHANGED <<segments, xmit>> /\ ControlType /\ NoLostWakeup /\ ResetAlone
  BY DEF StopSpan, BeginReset, Reset, ResetGives, ResetTakes, StartSpan, AdminUnchanged,
     database, AggregationInv, ControlInv
<1>2. CASE StopSpan
  <2>1. ControlType'
    BY <1>1, <1>2 DEF StopSpan, ControlType
  <2>2. NoLostWakeup' /\ ResetAlone'
    BY <1>1, <1>2 DEF StopSpan, NoLostWakeup, ResetAlone, SpanSems
  <2> QED
    BY <2>1, <2>2 DEF ControlInv
<1>3. CASE BeginReset
  <2>1. <<"red", "green", "closed", "seg">> \in Seq(SpanSems)
        /\ <<"red", "green", "closed", "seg">> # <<>>
    BY DEF SpanSems, OpenSems
  <2>2. ControlType'
    BY <1>1, <1>3, <2>1 DEF BeginReset, ControlType
  <2>3. NoLostWakeup' /\ ResetAlone'
    BY <1>1, <1>3, <2>1 DEF BeginReset, NoLostWakeup, ResetAlone
  <2> QED
    BY <2>2, <2>3 DEF ControlInv
<1>4. CASE ResetGives
  <2>1. Head(toReset) \in SpanSems
    BY <1>1, <1>4 DEF ResetGives, ControlType, ResetAlone
  <2>2. ControlType'
    BY <1>1, <1>4, <2>1 DEF ResetGives, ControlType
  <2>3. NoLostWakeup' /\ ResetAlone'
    BY <1>1, <1>4 DEF ResetGives, NoLostWakeup, ResetAlone
  <2> QED
    BY <2>2, <2>3 DEF ControlInv
<1>5. CASE ResetTakes
  <2>1. Tail(toReset) \in Seq(SpanSems)
    BY <1>1, <1>5 DEF ResetTakes, ControlType, ResetAlone
  <2>2. ControlType'
    BY <1>1, <1>5, <2>1 DEF ResetTakes, SemTake, ControlType
  <2>3. NoLostWakeup' /\ ResetAlone'
    BY <1>1, <1>5 DEF ResetTakes, NoLostWakeup, ResetAlone
  <2> QED
    BY <2>2, <2>3 DEF ControlInv
<1>6. CASE StartSpan
  <2>1. ControlType'
    BY <1>1, <1>6 DEF StartSpan, ControlType
  <2>2. NoLostWakeup' /\ ResetAlone'
    BY <1>1, <1>6 DEF StartSpan, NoLostWakeup, ResetAlone
  <2> QED
    BY <2>1, <2>2 DEF ControlInv
<1> QED
  BY <1>2, <1>3, <1>4, <1>5, <1>6 DEF Reset

\* The steps that touch no semaphore of the daemon.
LEMMA OtherControl ==
    ASSUME AggregationInv,
           \/ MeterDies \/ RestartMeter
           \/ \E c \in Clients : CloseClient(c) \/ OpenClient(c)
           \/ UNCHANGED vars
    PROVE  ControlInv'
<1>1. UNCHANGED <<segments, xmit, given, ended, lso, admin, toReset>>
  BY DEF MeterDies, RestartMeter, MeterUnchanged, CloseClient, OpenClient, ClientUnchanged,
     processes, database, vars
<1>2. meter' = meter \/ meter' \in {"dead", "init"}
  BY DEF MeterDies, RestartMeter, CloseClient, OpenClient, ClientUnchanged, processes, vars
<1>3. NoLostWakeup' /\ ResetAlone'
  BY <1>1, WakeupKept DEF AggregationInv, ControlInv
<1> QED
  BY <1>1, <1>2, <1>3 DEF AggregationInv, ControlInv, ControlType

\* Every step keeps what the invariant says of the control.
LEMMA ControlStep ==
    ASSUME AggregationInv, [Next]_vars
    PROVE  ControlInv'
BY SendControl, MeterControl, LsoControl, EndControl, ClockControl, AdminControl,
   OtherControl DEF Next

(***************************************************************************)
(* The theorems.                                                           *)
(***************************************************************************)

\* The span before its first session.
LEMMA InitInv == Init => AggregationInv
<1> SUFFICES ASSUME Init
             PROVE  AggregationInv
  OBVIOUS
<1>1. /\ buffer = Buffer(0) /\ exportSessions = {} /\ segments = {} /\ session = <<>>
      /\ notices = [c \in Clients |-> {}] /\ sender = [s \in Sdus |-> "new"]
  BY DEF Init
<1>2. DataType
  <2>1. session \in [exportSessions -> SessionType]
    BY <1>1
  <2>2. buffer \in [current : {0} \cup exportSessions, length : Nat, red : Nat,
                    client : Clients \cup {None}, age : 0..AggrTimeLimit]
    BY <1>1, AggregationAssumption DEF Buffer
  <2> QED
    BY <1>1, <2>1, <2>2 DEF Init, DataType, Nbrs
<1>3. BufferSound
  BY <1>1 DEF BufferSound, Buffer
<1>4. RedWindow
  <2>1. {n \in exportSessions : HoldsRed(n)} = {}
    BY <1>1
  <2> QED
    BY <2>1, FS_EmptySet, AggregationAssumption DEF RedWindow
<1>5. \A s \in Sdus : Placed(s)
  <2>1. Told = {}
    BY <1>1 DEF Told
  <2> QED
    BY <1>1, <2>1 DEF Placed, Held, Noticed
<1>6. DataInv
  BY <1>1, <1>2, <1>3, <1>4, <1>5 DEF Init, DataInv, ServiceKept
<1>7. ControlInv
  <2>1. <<>> \in Seq(SpanSems)
    OBVIOUS
  <2>2. ControlType
    BY <2>1 DEF Init, ControlType
  <2>3. NoLostWakeup /\ ResetAlone
    BY DEF Init, NoLostWakeup, ResetAlone
  <2> QED
    BY <2>2, <2>3 DEF ControlInv
<1> QED
  BY <1>6, <1>7 DEF AggregationInv

\* Every state of a span's sending side has the inductive invariant.
THEOREM AggregationInvariant == Spec => []AggregationInv
<1>1. AggregationInv /\ [Next]_vars => AggregationInv'
  BY DataStep, ControlStep DEF AggregationInv
<1> QED
  BY InitInv, <1>1, PTL DEF Spec

\* TypeOK of LtpAggregation: the database, the semaphores and the processes.
THEOREM AggregationTypeCorrect == Spec => []TypeOK
<1>1. AggregationInv => TypeOK
  BY DEF AggregationInv, DataInv, DataType, ControlInv, ControlType, ServiceKept, TypeOK,
     SessionType, NoticeType
<1> QED
  BY <1>1, AggregationInvariant, PTL

\* RedWindow: sduCanBeAppendedToBlock keeps the sessions with red data within
\* maxExportSessions, though ltpmeter starts sessions without looking.
THEOREM WindowRespected == Spec => []RedWindow
<1>1. AggregationInv => RedWindow
  BY DEF AggregationInv, DataInv
<1> QED
  BY <1>1, AggregationInvariant, PTL

\* OneOpenBlock: whoever starts a session, only the current one waits to be cut
\* into segments.
THEOREM OneBlockOpen == Spec => []OneOpenBlock
<1>1. AggregationInv => OneOpenBlock
  BY DEF AggregationInv, DataInv, Cut, OneOpenBlock
<1> QED
  BY <1>1, AggregationInvariant, PTL

\* BlocksConsistent: blocks are well formed, and ltp_send and ltpmeter agree
\* on their lengths.
THEOREM BlocksAreConsistent == Spec => []BlocksConsistent
<1>1. AggregationInv => BlocksConsistent
  <2>1. ASSUME AggregationInv, buffer.current = 0
        PROVE  buffer.length = 0
    BY <2>1 DEF AggregationInv, DataInv, DataType, BufferSound
  <2> QED
    BY <2>1 DEF AggregationInv, DataInv, BlockSound, LengthOf, BlocksConsistent
<1> QED
  BY <1>1, AggregationInvariant, PTL

\* NoLostWakeup: an LSO that waits for its semaphore has nothing to send,
\* through purges and resets of the span.
THEOREM WakeupNeverLost == Spec => []NoLostWakeup
<1>1. AggregationInv => NoLostWakeup
  BY DEF AggregationInv, ControlInv
<1> QED
  BY <1>1, AggregationInvariant, PTL

\* A set with at most one element.
LEMMA AtMostOne ==
    ASSUME NEW S, \A x, y \in S : x = y
    PROVE  /\ Cardinality(S) \in Nat /\ Cardinality(S) <= 1
           /\ Cardinality(S) = 0 <=> S = {}
<1>1. CASE S = {}
  BY <1>1, FS_EmptySet
<1>2. CASE S # {}
  <2>1. PICK x : x \in S
    BY <1>2
  <2>2. S = {x}
    BY <2>1
  <2>3. Cardinality({x}) = 1
    BY FS_Singleton
  <2>4. Cardinality(S) = 1
    BY <2>2, <2>3
  <2> QED
    BY <1>2, <2>4
<1> QED
  BY <1>1, <1>2

\* SdusAccounted: a unit that ltp_send accepted is in one session or in one
\* notice, and lost only if its client has closed its service.
THEOREM UnitsAccounted == Spec => []SdusAccounted
<1>1. ASSUME AggregationInv, NEW s \in Sdus
      PROVE  /\ Places(s) <= IF sender[s] = "accepted" THEN 1 ELSE 0
             /\ sender[s] = "accepted" /\ ClientOf[s] \notin Transient => Places(s) = 1
  <2> DEFINE A == {n \in exportSessions : s \in session[n].sdus}
             B == {x \in UNION {notices[c] : c \in Clients} : x.sdu = s}
  <2>1. Placed(s) /\ (A # {} <=> Held(s)) /\ (B # {} <=> Noticed(s))
    BY <1>1 DEF AggregationInv, DataInv, Held, Noticed, Told
  <2>2. /\ \A m, n \in A : m = n
        /\ \A x, y \in B : x = y
    BY <2>1 DEF Placed, Told
  <2>3. Places(s) = Cardinality(A) + Cardinality(B)
    BY DEF Places
  <2> HIDE DEF A, B
  <2>4. /\ Cardinality(A) \in Nat /\ Cardinality(A) <= 1 /\ (Cardinality(A) = 0 <=> A = {})
        /\ Cardinality(B) \in Nat /\ Cardinality(B) <= 1 /\ (Cardinality(B) = 0 <=> B = {})
    BY <2>2, AtMostOne
  <2>5. A = {} \/ B = {}
    BY <2>1 DEF Placed
  <2>6. sender[s] # "accepted" => A = {} /\ B = {}
    BY <2>1 DEF Placed
  <2>7. sender[s] = "accepted" /\ ClientOf[s] \notin Transient => A # {} \/ B # {}
    BY <2>1 DEF Placed
  <2> QED
    BY <2>3, <2>4, <2>5, <2>6, <2>7
<1>2. AggregationInv => SdusAccounted
  BY <1>1 DEF SdusAccounted
<1> QED
  BY <1>2, AggregationInvariant, PTL
=============================================================================
