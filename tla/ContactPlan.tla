---------------------------- MODULE ContactPlan -----------------------------
(* The contact plan (rfx.c): contacts and ranges in the ION database, the  *)
(* indexes of both and the timeline of their events in working memory, the *)
(* logs of discovered contacts, and the contacts that are predicted from   *)
(* them.  Each call is one transaction and one step; the indexes are the   *)
(* ordered sets that RedBlackTree implements.                              *)
EXTENDS Integers, FiniteSets, SequencesExt, TLC

CONSTANTS
    Own,                \* the local node
    ContactPairs,       \* the pairs of nodes with contacts
    RangePairs,         \* the pairs of nodes with ranges
    Starts, Stops,      \* the times at which entries may start and stop
    MaxTime,                \* bounds: contacts and ranges share no entry, so
    MaxContacts, MaxRanges, \* ranges come and go before the first contact ends
    MaxPosixTime, MaxClockError, MaxLogLength,
    Rate,               \* the rate of every contact
    BoldRate, Day, Hour \* the rate, age and length of a hypothetical contact

ASSUME PlanAssumption ==
    /\ \A p \in ContactPairs \cup RangePairs : p \in (Nat \ {0}) \X (Nat \ {0})
    /\ IsFiniteSet(ContactPairs)
    /\ \A p \in ContactPairs : p[1] # p[2]
    /\ Starts \subseteq Nat \ {0} /\ Stops \subseteq Nat
    /\ MaxLogLength \in Nat \ {0} /\ MaxClockError \in Nat
    /\ MaxPosixTime \in Nat /\ \A s \in Stops : s < MaxPosixTime
    /\ {Rate, BoldRate, Day, Hour} \subseteq Nat

VARIABLES
    now,
    contacts, ranges,       \* the lists in the database
    cindex, rindex,         \* the indexes
    timeline,               \* the events
    contactLog,             \* the contact logs of SENDER_NODE, RECEIVER_NODE
    hung                    \* a call never returns, and holds the SDR

planVars == <<now, contacts, ranges, cindex, rindex, timeline, contactLog, hung>>

Event(time, type, ref) == [time |-> time, type |-> type, ref |-> ref]

Pair(e) == <<e.from, e.to>>

\* The order of the indexes and of the logs.
Precedes(a, b) ==
    \/ a.from < b.from
    \/ a.from = b.from /\ a.to < b.to
    \/ Pair(a) = Pair(b) /\ a.start < b.start

FirstOf(S) == CHOOSE a \in S : \A b \in S \ {a} : Precedes(a, b)
LastOf(S)  == CHOOSE a \in S : \A b \in S \ {a} : Precedes(b, a)

(***************************************************************************)
(* Contacts.  The functions below work on the part of the state that       *)
(* concerns them.                                                          *)
(***************************************************************************)
Contacts == [db |-> contacts, index |-> cindex, timeline |-> timeline, log |-> contactLog]

Become(p) ==
    /\ contacts' = p.db /\ cindex' = p.index
    /\ timeline' = p.timeline /\ contactLog' = p.log

Contact(start, stop, pair, kind) ==
    [start |-> start, stop |-> stop, from |-> pair[1], to |-> pair[2], kind |-> kind]

\* Transmission starts a little late and stops a little early, and timers
\* are resumed late and suspended early.  A time of zero is no event.
ContactEvents(c) ==
    LET early == c.start + MaxClockError
        late  == c.stop - MaxClockError
        all   == IF c.from = Own
                 THEN {Event(early, "StartXmit", c), Event(late, "StopXmit", c)}
                 ELSE {}
    IN  {e \in all \cup (IF c.to = Own
                         THEN {Event(early, "StartFire", c),
                               Event(late, "StopFire", c)}
                         ELSE {Event(c.stop, "PurgeContact", c)}) : e.time # 0}

Delete(p, c) ==
    [p EXCEPT !.db = @ \ {c}, !.index = @ \ {c},
              !.timeline = @ \ ContactEvents(c)]

Add(p, c) ==
    [p EXCEPT !.db = @ \cup {c}, !.index = @ \cup {c},
              !.timeline = @ \cup ContactEvents(c)]

\* A plausible error: only a contact that begins earlier is an overlap.
OverlappingBefore(p, c) ==
    {d \in p.index : Pair(d) = Pair(c) /\ d.start <= c.start /\ d.stop >= c.start}

Overlapping(p, c) ==
    {d \in p.index : Pair(d) = Pair(c) /\ d.start <= c.stop /\ d.stop >= c.start}

\* rfx_insert_contact.  A predicted contact gives way to everything.
\* Another one drives out the predicted contacts that it meets before the
\* first one that is not, even if that one then keeps it out.
InsertContact(p, c) ==
    LET met  == Overlapping(p, c)
        hard == {d \in met : d.kind # "predicted"}
        driven == {d \in met \ hard : hard = {} \/ Precedes(d, FirstOf(hard))}
        q    == FoldSet(LAMBDA d, r : Delete(r, d), p, driven)
    IN  IF c.kind = "predicted" THEN IF met = {} THEN Add(p, c) ELSE p
        ELSE IF hard = {} THEN Add(q, c) ELSE q

(***************************************************************************)
(* The logs of discovered contacts, and predictions.                       *)
(***************************************************************************)
\* insertLogEntry: in order, once, and the first goes when there are too many.
Logged(entries, e) ==
    LET before == {i \in DOMAIN entries : Precedes(entries[i], e)}
        all    == InsertAt(entries, Cardinality(before) + 1, e)
    IN  IF \E d \in ToSet(entries) : ~Precedes(d, e) /\ ~Precedes(e, d) THEN entries
        ELSE IF Len(all) > MaxLogLength THEN Tail(all) ELSE all

PastContact(c) ==
    [from |-> c.from, to |-> c.to, start |-> c.start, stop |-> now, rate |-> Rate]

LogDiscovered(p, c) ==
    IF c.from = Own
    THEN [p EXCEPT !.log["sender"] = Logged(@, PastContact(c))]
    ELSE IF c.to = Own
    THEN [p EXCEPT !.log["receiver"] = Logged(@, PastContact(c))]
    ELSE p

\* insertIntoPredictionBase: a base is a set of past contacts of one pair
\* that do not overlap; an entry that overlaps or is of no use stays out.
Extend(base, e) ==
    IF \/ e.stop <= e.start
       \/ \E d \in base : d.stop >= e.start /\ d.start <= e.stop
    THEN base ELSE base \cup {e}

Base(p, pair) ==
    FoldLeft(LAMBDA base, e : IF Pair(e) = pair THEN Extend(base, e) ELSE base,
             {}, p.log["sender"] \o p.log["receiver"])

\* rfx_predict_contacts makes up past contacts where there are none or one.
Hypothetical(pair, start, stop) ==
    [from |-> pair[1], to |-> pair[2], start |-> start, stop |-> stop, rate |-> BoldRate]

BoldBase(p, pair) ==
    LET base == Base(p, pair)
        one  == IF base # {} THEN base
                ELSE Extend({}, Hypothetical(pair, now - Day, now - Day + Hour))
    IN  IF Cardinality(one) # 1 THEN one
        ELSE Extend(one, Hypothetical(pair, now - 2, now - 1))

\* processSequence: as long as the past that the base covers, the contact is
\* predicted to be open at the rate that the base has had on the average.
Process(p, base, pair) ==
    LET capacity == SumFunctionOnSet(
                        [e \in base |-> (e.stop - e.start) * e.rate], base)
        age      == now - FirstOf(base).start
    IN  IF Cardinality(base) < 2 \/ capacity \div age <= 1 THEN p
        ELSE InsertContact(p, Contact(now, now + age, pair, "predicted"))

RemovePredicted(p, pairs) ==
    FoldSet(LAMBDA d, r : Delete(r, d), p,
            {d \in p.db : d.kind = "predicted" /\ Pair(d) \in pairs})

Predict(p, pair) ==
    LET q == RemovePredicted(p, {pair}) IN Process(q, BoldBase(q, pair), pair)

\* rfx_predict_all_contacts does not make anything up.
PredictAll(p) ==
    LET q     == RemovePredicted(p, ContactPairs)
        known == {pair \in ContactPairs : Base(q, pair) # {}}
    IN  FoldSet(LAMBDA pair, r : Process(r, Base(r, pair), pair), q, known)

\* A plausible error: the events of the contact stay on the timeline.
DeleteContactOnly(p, c) ==
    IF c.kind = "discovered"
    THEN Predict([LogDiscovered(p, c) EXCEPT !.db = @ \ {c}, !.index = @ \ {c}], Pair(c))
    ELSE Delete(p, c)

\* deleteContact: the end of a discovered contact is logged and renews the
\* predictions for its pair.
DeleteContact(p, c) ==
    IF c.kind = "discovered"
    THEN Predict(Delete(LogDiscovered(p, c), c), Pair(c))
    ELSE Delete(p, c)

(***************************************************************************)
(* The calls about contacts.                                               *)
(***************************************************************************)
ContactsBound == Cardinality(contacts) < MaxContacts /\ ranges = {}

ManageContact(pair, start, stop) ==
    /\ ContactsBound /\ ~hung /\ start < stop
    /\ Become(InsertContact(Contacts, Contact(start, stop, pair, "managed")))
    /\ UNCHANGED <<now, ranges, rindex, hung>>

DiscoverContact(pair) ==
    /\ ContactsBound /\ ~hung
    /\ Become(InsertContact(Contacts, Contact(now, MaxPosixTime, pair, "discovered")))
    /\ UNCHANGED <<now, ranges, rindex, hung>>

RemoveContact(c) ==
    /\ c \in cindex /\ ~hung
    /\ Become(DeleteContact(Contacts, c))
    /\ UNCHANGED <<now, ranges, rindex, hung>>

\* The wild card deletes the first contact of the pair until there is none,
\* predictions that its own deletions have renewed included.
RemoveAllContacts(pair) ==
    /\ ~hung /\ \E c \in cindex : Pair(c) = pair
    /\ LET own  == {c \in cindex : Pair(c) = pair}
           lost == {c \in own : c.kind = "discovered"}
           p    == FoldSet(LAMBDA c, r : LogDiscovered(r, c), Contacts, lost)
       IN  Become(FoldSet(LAMBDA c, r : Delete(r, c), p, own))
    /\ UNCHANGED <<now, ranges, rindex, hung>>

LosePeer(peer) ==
    LET lost == {c \in contacts : /\ c.kind = "discovered"
                                  /\ {c.from, c.to} = {peer, Own}}
    IN  /\ lost # {} /\ ~hung
        /\ Become(FoldSet(LAMBDA c, r : DeleteContact(r, c), Contacts, lost))
        /\ UNCHANGED <<now, ranges, rindex, hung>>

PredictContacts(pair) ==
    /\ ContactsBound /\ ~hung
    /\ Become(Predict(Contacts, pair))
    /\ UNCHANGED <<now, ranges, rindex, hung>>

PredictAllContacts ==
    /\ ContactsBound /\ ~hung
    /\ Become(PredictAll(Contacts))
    /\ UNCHANGED <<now, ranges, rindex, hung>>

(***************************************************************************)
(* Ranges.  A range from a node to one of a higher number is canonical and *)
(* is imputed to the other direction, unless that is asserted.             *)
(***************************************************************************)
RangeEntry(start, stop, pair, asserted) ==
    [start |-> start, stop |-> stop, from |-> pair[1], to |-> pair[2],
     asserted |-> asserted]

Canonical(pair) == pair[1] <= pair[2]
Opposite(pair)  == <<pair[2], pair[1]>>

RangeEvents(r) ==
    {Event(r.start, IF r.asserted THEN "StartAsserted" ELSE "StartImputed", r),
     Event(r.stop,  IF r.asserted THEN "StopAsserted" ELSE "StopImputed", r)}

EventsOf(rs) == UNION {RangeEvents(r) : r \in rs}

At(pair, start) == {r \in rindex : Pair(r) = pair /\ r.start = start}

\* What the search finds before or after the place of a new range: the
\* neighbors; but when an imputed range was found at the very place there is
\* no successor, and the last range of all passes for the predecessor.
Neighbors(index, r, overrides) ==
    LET after  == IF overrides THEN {} ELSE {s \in index : Precedes(r, s)}
        before == index \ after
    IN  (IF after = {} THEN {} ELSE {FirstOf(after)})
        \cup (IF before = {} THEN {} ELSE {LastOf(before)})

\* The predecessor is only asked where it stops, the successor where it
\* starts.
KeptOut(index, r, overrides) ==
    \E s \in Neighbors(index, r, overrides) :
        /\ Pair(s) = Pair(r)
        /\ IF overrides \/ Precedes(s, r) THEN r.start < s.stop
                                          ELSE r.stop > s.start

\* insertRXref: the new entry and the one imputed from it.  Of a range from a
\* node to itself the new entry is found where the opposite one would be.
Entered(r) ==
    {r} \cup IF /\ Canonical(Pair(r)) /\ Pair(r) # Opposite(Pair(r))
                /\ At(Opposite(Pair(r)), r.start) = {}
             THEN {RangeEntry(r.start, r.stop, Opposite(Pair(r)), FALSE)}
             ELSE {}

RangesBound ==
    Cardinality(ranges) < MaxRanges /\ contacts = {} /\ \A l \in DOMAIN contactLog : contactLog[l] = <<>>

\* rfx_insert_range.  An imputed range that the new one overrides is gone
\* even if the new one is then kept out.
InsertRange(pair, start, stop) ==
    LET r    == RangeEntry(start, stop, pair, TRUE)
        here == At(pair, start)
        out  == KeptOut(rindex \ here, r, here # {})
        new  == IF out THEN {} ELSE Entered(r)
    IN  /\ RangesBound /\ ~hung /\ start < stop
        /\ \A s \in here : ~s.asserted
        /\ rindex' = (rindex \ here) \cup new
        /\ timeline' = (timeline \ EventsOf(here)) \cup EventsOf(new)
        /\ ranges' = IF out THEN ranges ELSE ranges \cup {r}
        /\ UNCHANGED <<now, contacts, cindex, contactLog, hung>>

DeleteRanges(gone) ==
    /\ rindex' = rindex \ gone
    /\ timeline' = timeline \ EventsOf(gone)
    /\ ranges' = ranges \ gone

\* A plausible error: the imputed range outlives the one it comes from.
WithImputedNone(gone) == gone

\* The imputed ranges that go with canonical ones.
WithImputed(gone) ==
    gone \cup {s \in rindex : /\ ~s.asserted
                              /\ \E r \in gone : /\ Canonical(Pair(r))
                                                 /\ Pair(s) = Opposite(Pair(r))
                                                 /\ s.start = r.start}

RemoveRange(r) ==
    /\ r \in rindex /\ ~hung
    /\ DeleteRanges(WithImputed({r}))
    /\ UNCHANGED <<now, contacts, cindex, contactLog, hung>>

\* The wild card deletes the imputed ranges of the other direction in order;
\* an asserted one it does not delete, and comes back to it for ever.
RemoveAllRanges(pair) ==
    LET own   == {r \in rindex : Pair(r) = pair}
        other == IF Canonical(pair) /\ pair[1] # pair[2]
                 THEN {r \in rindex : Pair(r) = Opposite(pair)} ELSE {}
        stays == {r \in other : r.asserted}
    IN  /\ own \cup other # {} /\ ~hung
        /\ DeleteRanges(own \cup {r \in other : \A s \in stays : Precedes(r, s)})
        /\ hung' = (stays # {})
        /\ UNCHANGED <<now, contacts, cindex, contactLog>>

-----------------------------------------------------------------------------
Tick == /\ now < MaxTime /\ ~hung /\ now' = now + 1
        /\ UNCHANGED <<contacts, ranges, cindex, rindex, timeline, contactLog, hung>>

PlanInit ==
    /\ now = 1
    /\ contacts = {} /\ ranges = {} /\ cindex = {} /\ rindex = {}
    /\ timeline = {}
    /\ contactLog = [l \in {"sender", "receiver"} |-> <<>>]
    /\ hung = FALSE

PlanNext ==
    \/ \E pair \in ContactPairs, a \in Starts, b \in Stops : ManageContact(pair, a, b)
    \/ \E pair \in ContactPairs : DiscoverContact(pair)
    \/ \E c \in cindex : RemoveContact(c)
    \/ \E pair \in ContactPairs : RemoveAllContacts(pair)
    \/ \E pair \in ContactPairs : LosePeer(pair[1])
    \/ \E pair \in ContactPairs : PredictContacts(pair)
    \/ PredictAllContacts
    \/ \E pair \in RangePairs, a \in Starts, b \in Stops : InsertRange(pair, a, b)
    \/ \E r \in rindex : RemoveRange(r)
    \/ \E pair \in RangePairs : RemoveAllRanges(pair)
    \/ Tick

PlanSpec == PlanInit /\ [][PlanNext]_planVars

(***************************************************************************)
(* Properties.                                                             *)
(***************************************************************************)
\* No two contacts of a pair of nodes have an instant in common, whoever
\* entered them: a prediction never stands beside what it gave way to, nor
\* beside what should have driven it out, and there is one at most.  (The
\* "one at most" is of managed contacts of confidence 1.0, which is what
\* ionProd enters; rfx_insert_contact takes a contact of less, as a prediction.)
ContactsDisjoint ==
    /\ \A c, d \in cindex : c # d /\ Pair(c) = Pair(d) =>
          c.stop < d.start \/ d.stop < c.start
    /\ \A c, d \in cindex : Pair(c) = Pair(d) /\ c.kind = "predicted"
                            /\ d.kind = "predicted" => c = d

\* The lists in the database, the indexes and the timeline tell the same:
\* no event refers to an entry that is gone, none is missing.
PlanIndexed ==
    /\ cindex = contacts
    /\ {r \in rindex : r.asserted} = ranges
    /\ timeline = (UNION {ContactEvents(c) : c \in cindex}) \cup EventsOf(rindex)

\* When a call has returned, every imputed range rests on an asserted one of
\* the other direction and of the same times.
ImputedBacked ==
    \A s \in rindex : ~s.asserted /\ ~hung =>
        RangeEntry(s.start, s.stop, Opposite(Pair(s)), TRUE) \in ranges

=============================================================================
